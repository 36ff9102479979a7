----------------------------- MODULE LocustFile -----------------------------
(***************************************************************************)
(* locust-gen from-openapi: an OpenAPI document is parsed                  *)
(* (openapi_parser.py), turned into a Locust file (locust_generator.py)    *)
(* and written (cli_gen.py); the file is then loaded, and a user of its    *)
(* class runs.                                                             *)
(*                                                                         *)
(* An object of a document is a record that may lack any of its fields,    *)
(* [ref |-> name] a reference to one of the definitions of the document.   *)
(* Text that only decorates the file is left out, and so are the schemas   *)
(* of bodies.  Spelling and PathName give the texts that the generator     *)
(* writes for names, and two of them may be the same text; NotAName is one *)
(* that Python does not accept.                                            *)
(*                                                                         *)
(* External (Python, Locust): a class keeps the last of its methods with   *)
(* one name; an f-string evaluates what it has in braces, a plain string   *)
(* does not; a user whose on_start raises ends; a task that raises is      *)
(* abandoned, and the user goes on.  No method is taken to have the name   *)
(* of a member of HttpUser, which it would replace.                        *)
(***************************************************************************)
EXTENDS Naturals, Sequences, SequencesExt, FiniteSetsExt, TLC

CONSTANTS
  Document,      \* the documents
  Option,        \* the options: [baseUrl, pattern, dryRun]
  Spelling,      \* how titles, operation ids and parameters are spelled as names
  PathName,      \* how methods and paths are: PathName[<<method, path>>]
  Placeholders,  \* what a path has in braces: Placeholders[path]
  Defined,       \* the names that a task finds defined, as Python's id and type
  LocalHost,     \* "http://localhost:8080"
  NotAName,      \* text that Python does not accept
  Truncated,     \* what a file holds that was opened and not written
  Missing        \* an absent value

VARIABLES
  locustfile,  \* the output file: Missing, Truncated or a script
  output,      \* the script about to be written
  exitCode,    \* of the last command
  script,      \* the script that Locust has loaded
  userState,   \* "none", "loaded", "running", "ended", "failed" to load
  headers,     \* self.headers, Missing before it is set
  sent         \* the last request of the user, which may have raised NameError

fileVars == <<locustfile, output, exitCode, script, userState, headers, sent>>
runVars == <<script, userState, headers, sent>>

-----------------------------------------------------------------------------
(* dict.get                                                                *)
Get(object, field, default) ==
  IF field \in DOMAIN object THEN object[field] ELSE default

IsRef(object) == "ref" \in DOMAIN object

(* Whether _resolve_ref finds what an object refers to, and it is a dict.  *)
Resolves(document, object) ==
  IsRef(object) => object.ref \in DOMAIN document.definitions

(* A reference is followed once: what it refers to may be a reference,     *)
(* which then is an object without fields.                                 *)
Deref(document, object) ==
  IF IsRef(object) THEN document.definitions[object.ref] ELSE object

(* The elements of a list that are in a set.                               *)
OnlyIn(set, list) ==
  LET only[i \in 0..Len(list)] ==
        IF i = 0 THEN <<>>
        ELSE IF list[i] \in set THEN Append(only[i - 1], list[i]) ELSE only[i - 1]
  IN  only[Len(list)]

Methods == <<"get", "post", "put", "patch", "delete", "head", "options">>

(* The operations of a path, in the order of Methods.                      *)
Present(item) == OnlyIn(DOMAIN item, Methods)

(* The response whose schema is taken: the first 2xx one.                  *)
FirstSuccess(operation) ==
  LET responses == Get(operation, "responses", <<>>)
      codes == {code \in DOMAIN responses : code \in 200..299}
  IN  IF codes = {} THEN <<>> ELSE <<responses[Min(codes)]>>

OperationParses(document, given) ==
  /\ Resolves(document, given)
  /\ LET operation == Deref(document, given)
         objects == Get(operation, "parameters", <<>>) \o FirstSuccess(operation)
                      \o IF "requestBody" \in DOMAIN operation
                         THEN <<operation.requestBody>> ELSE <<>>
     IN  \A i \in DOMAIN objects : Resolves(document, objects[i])

(* parse_spec raises no OpenAPIParseError; a file that is not read, or is  *)
(* not JSON, YAML or an object, has no kind.                               *)
Parses(document) ==
  /\ document.kind \in {"openapi", "swagger"}
  /\ \A i \in DOMAIN document.paths :
       LET given == document.paths[i].item
       IN  /\ Resolves(document, given)
           /\ LET item == Deref(document, given)
              IN  \A j \in DOMAIN Present(item) :
                    OperationParses(document, item[Present(item)[j]])

(* _extract_base_url                                                       *)
BaseUrl(document) ==
  IF document.kind = "openapi"
  THEN IF document.servers = <<>> THEN Missing ELSE document.servers[1]
  ELSE document.host

(* The names of the security schemes of an operation: its own, or else     *)
(* those of the document; unknown ones are dropped.                        *)
Security(document, operation) ==
  OnlyIn(DOMAIN document.schemes, Get(operation, "security", document.security))

(* _extract_endpoint.  The parameters of the path item are not looked at.  *)
EndpointInfo(document, path, method, given) ==
  LET operation == Deref(document, given)
      parameters == Get(operation, "parameters", <<>>)
      names(location) ==
        {Get(p, "name", "") : p \in
           {q \in {Deref(document, parameters[i]) : i \in DOMAIN parameters} :
              Get(q, "in", "query") = location}}
      body == Deref(document, Get(operation, "requestBody", <<>>))
  IN  [path |-> path, method |-> method,
       id |-> Get(operation, "operationId", Missing),
       pathParams |-> names("path"), queryParams |-> names("query"),
       json |-> Get(Get(body, "content", <<>>), "application/json", FALSE),
       security |-> Security(document, operation)]

(* The endpoints that parse_spec lists.                                    *)
Endpoints(document) ==
  FlattenSeq([i \in DOMAIN document.paths |->
    LET item == Deref(document, document.paths[i].item)
        present == Present(item)
    IN  [j \in DOMAIN present |->
           EndpointInfo(document, document.paths[i].path, present[j], item[present[j]])]])

-----------------------------------------------------------------------------
(* _method_weight                                                          *)
Weight(method) == CASE method = "get" -> 3 [] method = "post" -> 2 [] OTHER -> 1

(* Variant of MethodName: the method is not part of the name.              *)
MethodNameOfPath(endpoint) ==
  IF endpoint.id # Missing THEN Spelling[endpoint.id]
  ELSE PathName[<<"get", endpoint.path>>]

(* The name of the task: the operation id in snake case, or the method and *)
(* the path.                                                               *)
MethodName(endpoint) ==
  IF endpoint.id # Missing THEN Spelling[endpoint.id]
  ELSE PathName[<<endpoint.method, endpoint.path>>]

(* The expressions of the URL.  It is an f-string if the endpoint has path *)
(* parameters, whose placeholders are respelled; what else is in braces    *)
(* stays an expression.  Otherwise it is a plain string.                   *)
Expressions(endpoint) ==
  IF endpoint.pathParams = {} THEN {}
  ELSE {IF p \in endpoint.pathParams THEN Spelling[p] ELSE p :
          p \in Placeholders[endpoint.path]}

(* _generate_endpoint_task.  headers is not passed to the request.         *)
GeneratedTask(endpoint) ==
  [name |-> MethodName(endpoint), weight |-> Weight(endpoint.method),
   expressions |-> Expressions(endpoint),
   request |-> [method |-> endpoint.method, path |-> endpoint.path,
                query |-> endpoint.queryParams, json |-> endpoint.json]]

(* The schemes that the endpoints name, each where it is named first.      *)
AuthSchemes(endpoints) ==
  LET named == FlattenSeq([i \in DOMAIN endpoints |-> endpoints[i].security])
      schemes[i \in 0..Len(named)] ==
        IF i = 0 THEN <<>>
        ELSE IF Contains(schemes[i - 1], named[i]) THEN schemes[i - 1]
        ELSE Append(schemes[i - 1], named[i])
  IN  schemes[Len(named)]

Given(value, default) == IF value # Missing THEN value ELSE default

(* generate_locust_script and the pattern that cmd_from_openapi appends.   *)
Script(document, option) ==
  LET endpoints == Endpoints(document)
      schemes == AuthSchemes(endpoints)
  IN  [document |-> document,
       class |-> Spelling[document.title],
       host |-> Given(option.baseUrl, Given(BaseUrl(document), LocalHost)),
       setup |-> [i \in DOMAIN schemes |-> document.schemes[schemes[i]]],
       tasks |-> [i \in DOMAIN endpoints |-> GeneratedTask(endpoints[i])],
       pattern |-> option.pattern]

-----------------------------------------------------------------------------
FileInit ==
  /\ locustfile = Missing
  /\ output = Missing
  /\ exitCode = 0
  /\ script = Missing
  /\ userState = "none"
  /\ headers = Missing
  /\ sent = Missing

(* cmd_from_openapi: the document does not parse; exit code 1.             *)
ParseFails(document) ==
  /\ output = Missing
  /\ ~Parses(document)
  /\ exitCode' = 1
  /\ UNCHANGED <<locustfile, output, runVars>>

DryRun(document, option) ==
  /\ output = Missing
  /\ option.dryRun
  /\ Parses(document)
  /\ exitCode' = 0
  /\ UNCHANGED <<locustfile, output, runVars>>

(* open() of the output file truncates it.                                 *)
OpenOutput(document, option) ==
  /\ output = Missing
  /\ ~option.dryRun
  /\ Parses(document)
  /\ output' = Script(document, option)
  /\ locustfile' = Truncated
  /\ UNCHANGED <<exitCode, runVars>>

WriteOutput ==
  /\ output # Missing
  /\ locustfile' = output
  /\ output' = Missing
  /\ exitCode' = 0
  /\ UNCHANGED runVars

(* The write fails, or the command is killed in it.                        *)
WriteFails ==
  /\ output # Missing
  /\ output' = Missing
  /\ exitCode' = 1
  /\ UNCHANGED <<locustfile, runVars>>

(* Whether Python can execute the file: its names are identifiers and the  *)
(* f-strings of its URLs are sound, and it has no load pattern, whose      *)
(* snippet uses a name, environment, that the file does not define.        *)
Loads(file) ==
  /\ file \notin {Missing, Truncated}
  /\ file.class # NotAName
  /\ \A i \in DOMAIN file.tasks :
       NotAName \notin {file.tasks[i].name} \cup file.tasks[i].expressions
  /\ file.pattern = "constant"

(* Locust loads the file, at any time.                                     *)
Load ==
  /\ userState = "none"
  /\ locustfile # Missing
  /\ IF Loads(locustfile) THEN userState' = "loaded" /\ script' = locustfile
     ELSE userState' = "failed" /\ UNCHANGED script
  /\ UNCHANGED <<locustfile, output, exitCode, headers, sent>>

(* One scheme of _generate_auth_setup: a bearer token replaces all headers *)
(* (http with any scheme but one in a place), an API key is added.         *)
SetHeader(current, scheme) ==
  LET kept == IF current = Missing THEN <<>> ELSE current
  IN  CASE scheme.type = "http" /\ scheme.in = Missing ->
             [name \in {"Authorization"} |-> scheme]
        [] scheme.type = "apiKey" /\ scheme.in = "header" ->
             [name \in DOMAIN kept \cup {scheme.header} |->
                IF name = scheme.header THEN scheme ELSE kept[name]]
        [] OTHER -> current

(* self.headers after the statements for all schemes.                      *)
HeadersOf(setup) ==
  LET set[i \in 0..Len(setup)] ==
        IF i = 0 THEN Missing ELSE SetHeader(set[i - 1], setup[i])
  IN  set[Len(setup)]

(* on_start of the generated class: it returns self.headers, which no      *)
(* scheme may have set.                                                    *)
StartUser ==
  /\ userState = "loaded"
  /\ headers' = HeadersOf(script.setup)
  /\ userState' = IF script.setup # <<>> /\ headers' = Missing THEN "ended" ELSE "running"
  /\ UNCHANGED <<locustfile, output, exitCode, script, sent>>

(* The methods of the class: the last of each name.                        *)
ClassTasks(file) ==
  {file.tasks[i] : i \in
     {j \in DOMAIN file.tasks :
        \A k \in j + 1..Len(file.tasks) : file.tasks[k].name # file.tasks[j].name}}

(* The URL is evaluated first, and nothing is sent if a name in it is not  *)
(* defined; one that happens to be is formatted into the URL.              *)
RunTask(task) ==
  /\ userState = "running"
  /\ sent' = [raised |-> ~(task.expressions \subseteq Defined),
              host |-> script.host, request |-> task.request,
              formatted |-> task.expressions, headers |-> <<>>]
  /\ UNCHANGED <<locustfile, output, exitCode, script, userState, headers>>

FileNext ==
  \/ \E document \in Document :
       \/ ParseFails(document)
       \/ \E option \in Option : DryRun(document, option) \/ OpenOutput(document, option)
  \/ WriteOutput
  \/ WriteFails
  \/ Load
  \/ StartUser
  \/ script # Missing /\ \E task \in ClassTasks(script) : RunTask(task)

FileSpec == FileInit /\ [][FileNext]_fileVars

-----------------------------------------------------------------------------
(* What a document says, without the order in which it is read.            *)

(* The operations of a document: path, method and operation.               *)
Operations(document) ==
  UNION {LET item == Deref(document, document.paths[i].item)
         IN  {<<document.paths[i].path, method, Deref(document, item[method])>> :
                method \in Range(Methods) \cap DOMAIN item} :
           i \in DOMAIN document.paths}

(* The schemes that an operation lists, or that the document lists for the *)
(* operations without a list.                                              *)
Required(document) ==
  {document.schemes[name] : name \in DOMAIN document.schemes \cap
     UNION {Range(Get(o[3], "security", document.security)) : o \in Operations(document)}}

(* Those that set a header: a bearer token, and a key in a header.         *)
Bearers(schemes) == {s \in schemes : s.type = "http" /\ s.in = Missing}

Keys(schemes) == {s \in schemes : s.type = "apiKey" /\ s.in = "header"}

(* The name that an operation is to have in the generated class.           *)
OperationName(o) ==
  IF "operationId" \in DOMAIN o[3] THEN Spelling[o[3].operationId]
  ELSE PathName[<<o[2], o[1]>>]

(* Whether an operation declares a path parameter.                         *)
DeclaresPath(document, o) ==
  LET parameters == Get(o[3], "parameters", <<>>)
  IN  \E i \in DOMAIN parameters :
        Get(Deref(document, parameters[i]), "in", "query") = "path"

IsList(list) == list \in Seq(Range(list))

(* What is a list in a document is one, and an operation id is text, not   *)
(* the empty one, which is as none; what stands for no headers is no       *)
(* headers.                                                                *)
ASSUME DocumentAssumption ==
  /\ \A document \in Document :
       /\ IsList(document.paths)
       /\ Parses(document) =>
            \A o \in Operations(document) :
              /\ IsList(Get(o[3], "security", document.security))
              /\ "operationId" \in DOMAIN o[3] => o[3].operationId # Missing
       /\ LET schemes == Range(document.schemes)
          IN  \A names \in SUBSET ({"Authorization"} \cup {s.header : s \in Keys(schemes)}) :
                Missing \notin [names -> schemes]

(* The user that Locust runs is the one its document describes.  Every     *)
(* operation is a task, or gives way to one that is to have the same name, *)
(* be the name an operation id or made from method and path; on start, the *)
(* user has a header for every key in a header that the document requires, *)
(* unless a bearer token is required as well, which may replace it.  A     *)
(* task is an operation of the document, and it is sent as the document    *)
(* has its path, but if it declares a path parameter: then nothing is left *)
(* in braces, and either the task raises or what it evaluates is defined.  *)
UserIsTheDocuments ==
  script # Missing =>
    LET document == script.document
        operations == Operations(document)
        bearer == Bearers(Required(document))
        keys == Keys(Required(document))
    IN  /\ \A o \in operations : \E task \in ClassTasks(script), other \in operations :
             /\ OperationName(other) = OperationName(o)
             /\ task.request.path = other[1] /\ task.request.method = other[2]
        /\ userState = "ended" => Required(document) # {} /\ bearer \cup keys = {}
        /\ headers # Missing =>
             /\ Range(headers) \subseteq bearer \cup keys
             /\ bearer # {} => "Authorization" \in DOMAIN headers
             /\ bearer = {} => DOMAIN headers = {s.header : s \in keys}
        /\ sent # Missing => \E o \in operations :
             /\ sent.request.path = o[1] /\ sent.request.method = o[2]
             /\ sent.request.json => "requestBody" \in DOMAIN o[3]
             /\ sent.formatted # {} <=> DeclaresPath(document, o) /\ Placeholders[o[1]] # {}
             /\ sent.raised \/ sent.formatted \subseteq Defined

(* docs/openapi-to-locust.md, line 127: the security of an operation       *)
(* becomes an "`on_start()` method with env-var-based token injection",    *)
(* and locust_generator.py, line 4, promises "auth injection": a request   *)
(* of an operation with a bearer token carries the token.  It does not:    *)
(* on_start sets self.headers, and no request is given them.               *)
SecuredRequestsCarryToken ==
  sent # Missing /\ ~sent.raised =>
    \A o \in Operations(script.document) :
      /\ sent.request.path = o[1]
      /\ sent.request.method = o[2]
      /\ \E i \in DOMAIN Security(script.document, o[3]) :
           LET scheme == script.document.schemes[Security(script.document, o[3])[i]]
           IN  scheme.type = "http" /\ scheme.in = Missing
      => "Authorization" \in DOMAIN sent.headers

=============================================================================
