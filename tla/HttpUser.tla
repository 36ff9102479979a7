------------------------------ MODULE HttpUser ------------------------------
(***************************************************************************)
(* The HTTP users of the kit: APIUser (api_load.py), GraphQLUser           *)
(* (graphql.py) and the templates that send no credential (soak.py,        *)
(* spike.py, stress.py, web_ui.py), with the authenticators of auth.py     *)
(* that two of them make in on_start.                                      *)
(*                                                                         *)
(* A behaviour is that of one user.  Of what users share, others may       *)
(* change the registry of providers and the environment variable at any    *)
(* time; of the OAuth2 token cache it relies on what TokenCache shows: the *)
(* header is built from a token that is accepted then, or get_headers      *)
(* raises.                                                                 *)
(*                                                                         *)
(* External (the system under test): it accepts the token that its         *)
(* operator has issued last and every OAuth2 token that has not expired,   *)
(* judges a request when it is sent and answers 401 if it refuses it.      *)
(* External (Locust): a request that fails without an answer has status 0; *)
(* a response with catch_response is reported when its "with" ends.        *)
(***************************************************************************)
EXTENDS Naturals

CONSTANTS
  UserClass,   \* user classes
  AuthConfig,  \* auth_provider and auth_kwargs
  Credential,  \* tokens that the operator issues
  Lifetime,    \* the longest an OAuth2 token lasts
  MaxSeconds,  \* bound: the last second of a behaviour
  TestToken,   \* "test_token_123"
  NoToken      \* no token, also an empty one

VARIABLES
  userClass, config,  \* of the user
  registry,       \* default_registry: the names that are registered
  envToken,       \* LOCUST_AUTH_TOKEN
  issued,         \* the token that the operator has issued last
  seconds,        \* the clock
  stage,          \* "new", "idle", "waiting" for an answer
  heldToken,      \* _authenticator: its _token, or NoToken
  authHeader,     \* the token in auth_headers of a GraphQLUser
  request,        \* the request under way, and whether it is accepted
  report,         \* the last answer as it is reported
  standing        \* history variable: the token set up was "refused" or
                  \* "accepted" then, or has been "replaced" since

httpVars == <<userClass, config, registry, envToken, issued, seconds, stage,
              heldToken, authHeader, request, report, standing>>
setting == <<userClass, config>>
world == <<registry, envToken, issued, seconds>>
auth == <<heldToken, authHeader, standing>>

-----------------------------------------------------------------------------
(* auth_kwargs: token is the argument of the static provider, header tells *)
(* whether header_name and header_format have their defaults.              *)
ConfigType ==
  [provider : {"static", "env", "oauth2-client-credentials", "custom"},
   token : Credential \cup {NoToken}, header : {"default", "format", "name"}]

ASSUME HttpAssumption ==
  /\ UserClass \subseteq {"APIUser", "GraphQLUser", "SoakUser", "SpikeUser",
                          "StressUser", "WebUIUser"}
  /\ AuthConfig \subseteq ConfigType
  /\ Lifetime \in Nat /\ MaxSeconds \in Nat

(* A task and the statuses that it takes for a success (the others, 429    *)
(* among them, it reports as failures).                                    *)
Task(name, expected) == [name |-> name, expected |-> expected]

ApiTasks == {Task("get_items", {200}), Task("get_item_detail", {200}),
             Task("create_item", {200, 201})}

SoakTasks == {Task("typical_user_flow", {200}), Task("data_creation", {200, 201}),
              Task("read_heavy", {200}), Task("background_cleanup", {200, 204})}

SpikeTasks == {Task("normal_request", {200}), Task("burst_request", {200, 201}),
               Task("recovery_request", {200})}

StressTasks == {Task("ramp_up_request", {200}), Task("sustained_request", {200}),
                Task("spike_request", {200})}

WebUITasks == {Task("browse_homepage", {200}), Task("search_items", {200}),
               Task("view_detail_page", {200}), Task("add_to_cart", {200, 201}),
               Task("checkout_flow", {200, 201})}

(* query() calls success() for no status and reports nothing: its response *)
(* is not used in a "with".                                                *)
GraphQLTasks == {Task("query", {})}

Tasks ==
  CASE userClass = "APIUser" -> ApiTasks
    [] userClass = "GraphQLUser" -> GraphQLTasks
    [] userClass = "SoakUser" -> SoakTasks
    [] userClass = "SpikeUser" -> SpikeTasks
    [] userClass = "StressUser" -> StressTasks
    [] userClass = "WebUIUser" -> WebUITasks

EveryTask ==
  ApiTasks \cup GraphQLTasks \cup SoakTasks \cup SpikeTasks \cup StressTasks \cup WebUITasks

Authenticated == userClass \in {"APIUser", "GraphQLUser"}

(* An OAuth2 token is known by when it expires.                            *)
OAuthToken == [until : Nat]

Accepted(token) ==
  \/ token = issued
  \/ token \in OAuthToken /\ seconds < token.until

RequestType == [task : Tasks, accepted : BOOLEAN]

(* What stands for no token is no token, and no request.                   *)
ASSUME NoTokenAssumption ==
  /\ NoToken \notin Credential \cup OAuthToken
  /\ Credential \cap OAuthToken = {}
  /\ \A t \in EveryTask, accepted \in BOOLEAN : [task |-> t, accepted |-> accepted] # NoToken

-----------------------------------------------------------------------------
DefaultRegistry == {"static", "env", "oauth2-client-credentials"}

HttpInit ==
  /\ userClass \in UserClass
  /\ config \in AuthConfig
  /\ Authenticated \/ config = CHOOSE c \in AuthConfig : TRUE
  /\ registry = DefaultRegistry
  /\ issued \in Credential
  /\ envToken \in Credential \cup {NoToken}
  /\ seconds = 0
  /\ stage = "new"
  /\ heldToken = NoToken
  /\ authHeader = NoToken
  /\ request = NoToken
  /\ report = NoToken
  /\ standing = "refused"

(* AuthRegistry.register; ValueError if the name is taken.  The user looks *)
(* its provider up in on_start, so that later changes do not concern it.   *)
Register(name) ==
  /\ stage = "new"
  /\ name \notin registry
  /\ registry' = registry \cup {name}
  /\ UNCHANGED <<setting, envToken, issued, seconds, stage, auth, request, report>>

(* AuthRegistry.unregister; KeyError if there is none.                     *)
Unregister(name) ==
  /\ stage = "new"
  /\ name \in registry
  /\ registry' = registry \ {name}
  /\ UNCHANGED <<setting, envToken, issued, seconds, stage, auth, request, report>>

(* The operator issues another token, and the variable is set to it.       *)
Rotate(token) ==
  /\ token # issued
  /\ issued' = token
  /\ envToken' = token
  /\ standing' = IF standing = "accepted" /\ config.provider # "oauth2-client-credentials"
                 THEN "replaced" ELSE standing
  /\ UNCHANGED <<setting, registry, seconds, stage, heldToken, authHeader, request, report>>

Second ==
  /\ seconds < MaxSeconds
  /\ seconds' = seconds + 1
  /\ UNCHANGED <<setting, registry, envToken, issued, stage, auth, request, report>>

-----------------------------------------------------------------------------
(* The tokens that authenticate() of a new authenticator may yield; none:  *)
(* create_authenticator or authenticate raises.                            *)
Authenticate ==
  IF config.provider \notin registry THEN {NoToken}
  ELSE CASE config.provider \in {"static", "custom"} ->
              {IF config.token # NoToken THEN config.token ELSE envToken}
         [] config.provider = "env" -> {envToken}
         [] OTHER -> {[until |-> seconds + life] : life \in 1..Lifetime} \cup {NoToken}

(* on_start, _setup_auth: any exception falls back to no authenticator.    *)
OnStart(token) ==
  /\ stage = "new"
  /\ IF Authenticated
     THEN /\ token \in Authenticate
          /\ heldToken' = token
          /\ authHeader' = IF userClass = "GraphQLUser" THEN token ELSE authHeader
          /\ standing' = IF Accepted(token) THEN "accepted" ELSE "refused"
     ELSE /\ token = NoToken
          /\ UNCHANGED auth
  /\ stage' = "idle"
  /\ UNCHANGED <<setting, world, request, report>>

(* Variant of Headers: the OAuth2 header of on_start is used for ever.     *)
HeadersOnce == {heldToken}

(* get_headers of the authenticator: static and env use the token that     *)
(* they hold, OAuth2 one that is accepted; none: it raises.                *)
Headers ==
  IF heldToken \in OAuthToken
  THEN {[until |-> seconds + life] : life \in 1..Lifetime} \cup {NoToken}
  ELSE {heldToken}

Send(task, accepted) ==
  /\ stage' = "waiting"
  /\ request' = [task |-> task, accepted |-> accepted]
  /\ UNCHANGED <<setting, world, auth, report>>

(* A task of APIUser.  _get_token takes the Authorization header without   *)
(* its "Bearer ", and the task puts "Bearer " before it: under another     *)
(* header_name or header_format the server finds no token.                 *)
ApiTask(task, token) ==
  /\ stage = "idle"
  /\ userClass = "APIUser"
  /\ heldToken # NoToken
  /\ token \in Headers \ {NoToken}
  /\ Send(task, config.header = "default" /\ Accepted(token))

(* get_headers raises in the task: user_error, and no request.             *)
ApiTaskFails ==
  /\ stage = "idle"
  /\ userClass = "APIUser"
  /\ heldToken # NoToken
  /\ NoToken \in Headers
  /\ UNCHANGED httpVars

(* Without an authenticator a task of APIUser sends "test_token_123".      *)
ApiTaskFallback(task) ==
  /\ stage = "idle"
  /\ userClass = "APIUser"
  /\ heldToken = NoToken
  /\ Send(task, Accepted(TestToken))

(* query() of GraphQLUser sends the header of on_start as it is.           *)
Query(task) ==
  /\ stage = "idle"
  /\ userClass = "GraphQLUser"
  /\ Send(task, Accepted(authHeader))

(* The templates without a credential; a system may or may not ask for one. *)
PlainTask(task) ==
  /\ stage = "idle"
  /\ ~Authenticated
  /\ \E accepted \in BOOLEAN : Send(task, accepted)

Succeeds(status) == status \in request.task.expected

(* The answer, or status 0; query() hands it to its caller unreported.     *)
Answer(status) ==
  /\ stage = "waiting"
  /\ status \in {0, 500} \cup IF request.accepted THEN {200, 201, 204, 429} ELSE {401}
  /\ stage' = "idle"
  /\ request' = NoToken
  /\ report' = IF userClass = "GraphQLUser" THEN NoToken
               ELSE [status |-> status, success |-> Succeeds(status)]
  /\ UNCHANGED <<setting, world, auth>>

HttpNext ==
  \/ \E name \in DefaultRegistry \cup {"custom"} : Register(name) \/ Unregister(name)
  \/ \E token \in Credential : Rotate(token)
  \/ Second
  \/ \E token \in Credential \cup {NoToken} \cup [until : 1..MaxSeconds + Lifetime] :
       OnStart(token) \/ \E task \in Tasks : ApiTask(task, token)
  \/ ApiTaskFails
  \/ \E task \in Tasks : ApiTaskFallback(task) \/ Query(task) \/ PlainTask(task)
  \/ \E status \in {0, 200, 201, 204, 401, 429, 500} : Answer(status)

HttpSpec == HttpInit /\ [][HttpNext]_httpVars

-----------------------------------------------------------------------------
Token == Credential \cup OAuthToken \cup {NoToken}

(* Types; only a GraphQLUser keeps the header of its authenticator.        *)
HttpTypeOK ==
  /\ userClass \in UserClass
  /\ config \in AuthConfig
  /\ registry \subseteq DefaultRegistry \cup {"custom"}
  /\ envToken \in Credential \cup {NoToken}
  /\ issued \in Credential
  /\ seconds \in 0..MaxSeconds
  /\ stage \in {"new", "idle", "waiting"}
  /\ heldToken \in Token
  /\ authHeader = IF userClass = "GraphQLUser" THEN heldToken ELSE NoToken
  /\ request \in IF stage = "waiting" THEN RequestType ELSE {NoToken}
  /\ standing \in {"refused", "accepted", "replaced"}

(* An APIUser of the env provider whose variable has changed: the docs     *)
(* (docs/auth-providers.md, lines 60-63) say that the token is re-read on  *)
(* each get_headers(), the code (auth.py, line 190) keeps the first one.   *)
RereadPromised ==
  config.provider = "env" /\ userClass = "APIUser" /\ standing = "replaced"

(* A user that authenticates is refused only if its setup failed (it goes  *)
(* on without or with "test_token_123"), if the token it was set up with   *)
(* was wrong or has been replaced since, if it is an APIUser with a        *)
(* header_name or header_format of its own, or a GraphQLUser whose OAuth2  *)
(* token has expired since on_start (graphql.py, line 217); the OAuth2     *)
(* token of an APIUser may expire.  Nothing is claimed where the docs      *)
(* promise that the env token is re-read.  A request that was refused,     *)
(* limited or not answered is not reported as a success (api_load.py,      *)
(* line 57).                                                               *)
RefusedForAReason ==
  /\ request # NoToken /\ Authenticated /\ ~request.accepted /\ ~RereadPromised =>
       \/ standing \in {"refused", "replaced"}
       \/ userClass = "APIUser" /\ config.header # "default"
       \/ userClass = "GraphQLUser" /\ authHeader \in OAuthToken /\ authHeader.until <= seconds
  /\ report # NoToken /\ report.success => report.status \in 200..299

=============================================================================
