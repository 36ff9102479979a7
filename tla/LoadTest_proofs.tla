-------------------------- MODULE LoadTest_proofs --------------------------
(***************************************************************************)
(* Proofs about the parts of a load test and about LoadTest, which runs    *)
(* them: for any number of greenlets, connections, channels, credentials   *)
(* and endpoints, any rules, shapes and samples, and any length of test.   *)
(***************************************************************************)
EXTENDS LoadTest, InductionLemmas, SequenceTheorems

-----------------------------------------------------------------------------
(* WebSocketUser.                                                          *)

(* The types of WebSocketUser always hold: whatever the order in which     *)
(* greenlets switch, only Main stops, and who waits for a socket has its   *)
(* connection in hand.                                                     *)
THEOREM WebSocketTypeCorrect == WebSocketSpec => []WebSocketTypeOK
<1>1. WebSocketInit => WebSocketTypeOK
  BY GreenletAssumption DEF WebSocketInit, WebSocketTypeOK, Place, InOperation
<1>2. WebSocketTypeOK /\ [WebSocketNext]_wsVars => WebSocketTypeOK'
  <2> SUFFICES ASSUME WebSocketTypeOK, [WebSocketNext]_wsVars
               PROVE  WebSocketTypeOK'
    OBVIOUS
  <2> USE GreenletAssumption, WebSocketAssumption
      DEF WebSocketTypeOK, Place, InOperation, Go
  <2>1. ASSUME NEW g \in Greenlet, Connect(g) PROVE WebSocketTypeOK'
    BY <2>1 DEF Connect
  <2>2. ASSUME NEW g \in Greenlet, ConnectFailed(g) PROVE WebSocketTypeOK'
    BY <2>2 DEF ConnectFailed
  <2>3. ASSUME NEW g \in Greenlet, Used(g) PROVE WebSocketTypeOK'
    BY <2>3 DEF Used
  <2>4. ASSUME NEW g \in Greenlet, Closed(g) PROVE WebSocketTypeOK'
    BY <2>4 DEF Closed
  <2>5. ASSUME NEW g \in Greenlet, NEW c \in Connection, Connected(g, c)
        PROVE  WebSocketTypeOK'
    BY <2>5 DEF Connected
  <2>6. ASSUME NEW g \in Greenlet, NEW c \in Connection, Use(g, c)
        PROVE  WebSocketTypeOK'
    BY <2>6 DEF Use
  <2>7. ASSUME NEW g \in Greenlet, NEW c \in Connection, Close(g, c)
        PROVE  WebSocketTypeOK'
    BY <2>7 DEF Close
  <2>8. CASE StopUser
    BY <2>8 DEF StopUser
  <2>9. ASSUME NEW c \in Connection, StopNext(c) PROVE WebSocketTypeOK'
    BY <2>9 DEF StopNext
  <2>10. CASE StopClosed
    BY <2>10 DEF StopClosed
  <2>11. CASE StopClears
    BY <2>11 DEF StopClears
  <2>12. CASE StopKilled
    BY <2>12 DEF StopKilled
  <2>13. CASE UNCHANGED wsVars
    BY <2>13 DEF wsVars
  <2> QED
    BY <2>1, <2>2, <2>3, <2>4, <2>5, <2>6, <2>7, <2>8, <2>9, <2>10, <2>11,
       <2>12, <2>13 DEF WebSocketNext
<1> QED
  BY <1>1, <1>2, PTL DEF WebSocketSpec

-----------------------------------------------------------------------------

(* The sets that are counted are finite.                                   *)
LEMMA CountedSetsAreFinite ==
  ASSUME WebSocketTypeOK
  PROVE  /\ IsFiniteSet(pool)
         /\ IsFiniteSet(Connecting)
         /\ Cardinality(pool) \in Nat
         /\ Cardinality(Connecting) \in Nat
         /\ Cardinality(Greenlet) \in Nat
<1>1. pool \subseteq Connection /\ Connecting \subseteq Greenlet
  BY DEF WebSocketTypeOK, Connecting
<1> QED
  BY <1>1, GreenletAssumption, WebSocketAssumption, FS_Subset, FS_CardinalityType

(* A step that adds to neither set keeps the bound.                        *)
LEMMA ShrinkingKeepsTheBound ==
  ASSUME WebSocketTypeOK, PoolBound, pool' \subseteq pool, Connecting' \subseteq Connecting
  PROVE  PoolBound'
<1>1. /\ IsFiniteSet(pool') /\ Cardinality(pool') \in Nat
      /\ Cardinality(pool') <= Cardinality(pool)
  BY CountedSetsAreFinite, FS_Subset, FS_CardinalityType
<1>2. /\ Cardinality(Connecting') \in Nat
      /\ Cardinality(Connecting') <= Cardinality(Connecting)
  BY CountedSetsAreFinite, FS_Subset, FS_CardinalityType
<1>3. Cardinality(Connecting)' = Cardinality(Connecting') /\ Cardinality(pool)' = Cardinality(pool')
  OBVIOUS
<1> QED
  BY <1>1, <1>2, <1>3, CountedSetsAreFinite, WebSocketAssumption DEF PoolBound

(* connect finds room in the pool; all greenlets together add the rest.    *)
LEMMA ConnectKeepsTheBound ==
  ASSUME WebSocketTypeOK, NEW g \in Greenlet, Connect(g)
  PROVE  PoolBound'
<1>1. pool' = pool /\ Cardinality(pool) < MaxConnections
  BY DEF Connect
<1>2. Connecting' \subseteq Greenlet
  BY DEF Connecting
<1>3. Cardinality(Connecting') \in Nat /\ Cardinality(Connecting') <= Cardinality(Greenlet)
  BY <1>2, GreenletAssumption, FS_Subset, FS_CardinalityType
<1> QED
  BY <1>1, <1>3, CountedSetsAreFinite, WebSocketAssumption DEF PoolBound

(* A greenlet that has connected leaves the one set as it adds to the      *)
(* other.                                                                  *)
LEMMA ConnectedKeepsTheBound ==
  ASSUME WebSocketTypeOK, PoolBound, NEW g \in Greenlet, NEW c \in Connection,
         Connected(g, c)
  PROVE  PoolBound'
<1>1. pool' = pool \cup {c}
  BY DEF Connected
<1>2. Connecting' = Connecting \ {g} /\ g \in Connecting
  BY DEF Connected, Go, Connecting, WebSocketTypeOK
<1>3. Cardinality(pool') \in Nat /\ Cardinality(pool') <= Cardinality(pool) + 1
  <2>1. Cardinality(pool \cup {c})
          = IF c \in pool THEN Cardinality(pool) ELSE Cardinality(pool) + 1
    BY CountedSetsAreFinite, FS_AddElement
  <2> QED
    BY <1>1, <2>1, CountedSetsAreFinite
<1>4. Cardinality(Connecting') = Cardinality(Connecting) - 1
  BY <1>2, CountedSetsAreFinite, FS_RemoveElement
<1> QED
  BY <1>3, <1>4, CountedSetsAreFinite, WebSocketAssumption DEF PoolBound

(* However the greenlets of a user overlap, its pool outgrows              *)
(* max_connections by less than their number (websocket.py, line 94).  The *)
(* bound is inductive: it counts the connections under way.                *)
THEOREM PoolIsBounded == WebSocketSpec => []PoolBound
<1>1. WebSocketInit => PoolBound
  <2> SUFFICES ASSUME WebSocketInit PROVE PoolBound
    OBVIOUS
  <2>1. pool = {} /\ Connecting = {}
    BY DEF WebSocketInit, Connecting
  <2>2. Cardinality({}) = 0
    BY FS_EmptySet
  <2>3. Cardinality(Greenlet) \in Nat /\ Cardinality(Greenlet) # 0
    BY GreenletAssumption, FS_CardinalityType, FS_EmptySet
  <2> QED
    BY <2>1, <2>2, <2>3, WebSocketAssumption DEF PoolBound
<1>2. WebSocketTypeOK /\ PoolBound /\ [WebSocketNext]_wsVars => PoolBound'
  <2> SUFFICES ASSUME WebSocketTypeOK, PoolBound, [WebSocketNext]_wsVars
               PROVE  PoolBound'
    OBVIOUS
  <2>1. ASSUME NEW g \in Greenlet, Connect(g) PROVE PoolBound'
    BY <2>1, ConnectKeepsTheBound
  <2>2. ASSUME NEW g \in Greenlet, NEW c \in Connection, Connected(g, c)
        PROVE  PoolBound'
    BY <2>2, ConnectedKeepsTheBound
  <2>3. ASSUME pool' \subseteq pool,
               \E g \in Greenlet, c \in Connection \cup {None}, p \in Place \ {"connecting"} :
                 Go(g, p, c)
        PROVE  PoolBound'
    <3>1. Connecting' \subseteq Connecting
      BY <2>3 DEF Connecting, Go, WebSocketTypeOK
    <3> QED
      BY <2>3, <3>1, ShrinkingKeepsTheBound
  <2> USE GreenletAssumption DEF Place, InOperation
  <2>4. ASSUME NEW g \in Greenlet, ConnectFailed(g) \/ Used(g) \/ Closed(g)
        PROVE  PoolBound'
    BY <2>3, <2>4 DEF ConnectFailed, Used, Closed
  <2>5. ASSUME NEW g \in Greenlet, NEW c \in Connection, Use(g, c) \/ Close(g, c)
        PROVE  PoolBound'
    BY <2>3, <2>5 DEF Use, Close
  <2>6. ASSUME NEW c \in Connection, StopNext(c) PROVE PoolBound'
    BY <2>3, <2>6 DEF StopNext
  <2>7. CASE StopUser \/ StopClosed \/ StopClears \/ StopKilled
    BY <2>3, <2>7 DEF StopUser, StopClosed, StopClears, StopKilled
  <2>8. CASE UNCHANGED wsVars
    BY <2>8, ShrinkingKeepsTheBound DEF wsVars, Connecting
  <2> QED
    BY <2>1, <2>2, <2>4, <2>5, <2>6, <2>7, <2>8 DEF WebSocketNext
<1> QED
  BY <1>1, <1>2, WebSocketTypeCorrect, PTL DEF WebSocketSpec

-----------------------------------------------------------------------------
(* While on_stop runs, every open socket is one it has still to close, the *)
(* one it is closing, or one that was entered after it took its copy.      *)
StopHasThemAll ==
  place[Main] = "stopping" => sockets \subseteq rest \cup {on[Main]} \cup late

(* A socket is lost only by on_stop, and only one that was opened during   *)
(* it (websocket.py, line 272); OnlyAStopLeaks is not inductive, because   *)
(* on_stop clears the pool trusting the keys it copied.                    *)
THEOREM OnlyStopsLeak == WebSocketSpec => []OnlyAStopLeaks
<1> DEFINE Inv == OnlyAStopLeaks /\ StopHasThemAll
<1>1. WebSocketInit => Inv
  BY GreenletAssumption DEF WebSocketInit, OnlyAStopLeaks, StopHasThemAll
<1>2. WebSocketTypeOK /\ Inv /\ [WebSocketNext]_wsVars => Inv'
  <2> SUFFICES ASSUME WebSocketTypeOK, Inv, [WebSocketNext]_wsVars
               PROVE  Inv'
    OBVIOUS
  <2> USE GreenletAssumption, WebSocketAssumption
      DEF WebSocketTypeOK, OnlyAStopLeaks, StopHasThemAll, Go, InOperation
  <2>1. ASSUME NEW g \in Greenlet, Connect(g) \/ ConnectFailed(g) \/ Used(g)
        PROVE  Inv'
    BY <2>1 DEF Connect, ConnectFailed, Used
  <2>2. ASSUME NEW g \in Greenlet, Closed(g) PROVE Inv'
    BY <2>2 DEF Closed
  <2>3. ASSUME NEW g \in Greenlet, NEW c \in Connection, Connected(g, c) PROVE Inv'
    BY <2>3 DEF Connected
  <2>4. ASSUME NEW g \in Greenlet, NEW c \in Connection, Use(g, c) \/ Close(g, c)
        PROVE  Inv'
    BY <2>4 DEF Use, Close
  <2>5. CASE StopUser
    BY <2>5 DEF StopUser
  <2>6. ASSUME NEW c \in Connection, StopNext(c) PROVE Inv'
    BY <2>6 DEF StopNext
  <2>7. CASE StopClosed
    BY <2>7 DEF StopClosed
  <2>8. CASE StopClears
    BY <2>8 DEF StopClears
  <2>9. CASE StopKilled
    BY <2>9 DEF StopKilled
  <2>10. CASE UNCHANGED wsVars
    BY <2>10 DEF wsVars
  <2> QED
    BY <2>1, <2>2, <2>3, <2>4, <2>5, <2>6, <2>7, <2>8, <2>9, <2>10 DEF WebSocketNext
<1> QED
  BY <1>1, <1>2, WebSocketTypeCorrect, PTL DEF WebSocketSpec

-----------------------------------------------------------------------------
(* GrpcUser.                                                               *)

(* The types of GrpcUser always hold, whatever the order in which          *)
(* greenlets switch and wherever GreenletExit reaches Main.                *)
THEOREM GrpcTypeCorrect == GrpcSpec => []GrpcTypeOK
<1>1. GrpcInit => GrpcTypeOK
  BY DEF GrpcInit, GrpcTypeOK, GrpcPlace
<1>2. GrpcTypeOK /\ [GrpcNext]_grpcVars => GrpcTypeOK'
  <2> SUFFICES ASSUME GrpcTypeOK, [GrpcNext]_grpcVars
               PROVE  GrpcTypeOK'
    OBVIOUS
  <2> USE GreenletAssumption DEF GrpcTypeOK, GrpcPlace, channelVars, Stay
  <2>1. ASSUME NEW ok \in BOOLEAN, SetupAuth(ok) PROVE GrpcTypeOK'
    BY <2>1 DEF SetupAuth
  <2>2. ASSUME NEW g \in Greenlet, NEW fresh \in Channel, GetChannel(g, fresh)
        PROVE  GrpcTypeOK'
    BY <2>2 DEF GetChannel
  <2>3. ASSUME NEW g \in Greenlet, NEW s \in Stub, GetStub(g, s) PROVE GrpcTypeOK'
    BY <2>3 DEF GetStub
  <2>4. ASSUME NEW g \in Greenlet, NEW s \in Stub, CallRpc(g, s) PROVE GrpcTypeOK'
    BY <2>4 DEF CallRpc
  <2>5. ASSUME NEW g \in Greenlet, GetAuthMetadata(g) PROVE GrpcTypeOK'
    BY <2>5 DEF GetAuthMetadata
  <2>6. ASSUME NEW g \in Greenlet, CallEnds(g) PROVE GrpcTypeOK'
    BY <2>6 DEF CallEnds
  <2>7. CASE StopGrpcUser
    BY <2>7 DEF StopGrpcUser
  <2>8. CASE StopGrpcEnds
    BY <2>8 DEF StopGrpcEnds
  <2>9. CASE StopGrpcKilled
    BY <2>9 DEF StopGrpcKilled
  <2>10. CASE UNCHANGED grpcVars
    BY <2>10 DEF grpcVars
  <2> QED
    BY <2>1, <2>2, <2>3, <2>4, <2>5, <2>6, <2>7, <2>8, <2>9, <2>10 DEF GrpcNext
<1> QED
  BY <1>1, <1>2, PTL DEF GrpcSpec

-----------------------------------------------------------------------------
(* What on_stop closes is the channel of the user; nobody does anything    *)
(* before on_start has ended; and until it stops, the channel that the     *)
(* user has is open.                                                       *)
ChannelIsUsable ==
  /\ at[Main] = "stopping" => calling[Main] = channel /\ channel # None
  /\ at[Main] = "starting" => channel = None /\ \A g \in Greenlet \ {Main} : at[g] = "unborn"
  /\ at[Main] \notin {"stopping", "stopped"} => channel \in {None} \cup openChannels

(* Whatever the helpers do while Main starts, calls or stops, no second    *)
(* channel is ever open, and until the user stops its stubs and calls are  *)
(* on the one it has (grpc.py, lines 39 and 187).  Of itself OneChannel    *)
(* says neither which channel a stopping Main closes nor that the one a    *)
(* stub is made for is open.                                               *)
THEOREM ChannelIsSingle == GrpcSpec => []OneChannel
<1> DEFINE Inv == OneChannel /\ ChannelIsUsable
<1>1. GrpcInit => Inv
  BY GreenletAssumption DEF GrpcInit, OneChannel, ChannelIsUsable
<1>2. GrpcTypeOK /\ Inv /\ [GrpcNext]_grpcVars => Inv'
  <2> SUFFICES ASSUME GrpcTypeOK, Inv, [GrpcNext]_grpcVars
               PROVE  Inv'
    OBVIOUS
  <2> USE GreenletAssumption, GrpcAssumption
      DEF GrpcTypeOK, OneChannel, ChannelIsUsable, channelVars, Stay
  <2>1. ASSUME NEW ok \in BOOLEAN, SetupAuth(ok) PROVE Inv'
    BY <2>1 DEF SetupAuth
  <2>2. ASSUME NEW g \in Greenlet, NEW fresh \in Channel, GetChannel(g, fresh)
        PROVE  Inv'
    BY <2>2 DEF GetChannel
  <2>3. ASSUME NEW g \in Greenlet, NEW s \in Stub, GetStub(g, s) PROVE Inv'
    BY <2>3 DEF GetStub
  <2>4. ASSUME NEW g \in Greenlet, NEW s \in Stub, CallRpc(g, s) PROVE Inv'
    BY <2>4 DEF CallRpc
  <2>5. ASSUME NEW g \in Greenlet, GetAuthMetadata(g) PROVE Inv'
    BY <2>5 DEF GetAuthMetadata
  <2>6. ASSUME NEW g \in Greenlet, CallEnds(g) PROVE Inv'
    BY <2>6 DEF CallEnds
  <2>7. CASE StopGrpcUser
    BY <2>7 DEF StopGrpcUser
  <2>8. CASE StopGrpcEnds
    BY <2>8 DEF StopGrpcEnds
  <2>9. CASE StopGrpcKilled
    BY <2>9 DEF StopGrpcKilled
  <2>10. CASE UNCHANGED grpcVars
    BY <2>10 DEF grpcVars
  <2> QED
    BY <2>1, <2>2, <2>3, <2>4, <2>5, <2>6, <2>7, <2>8, <2>9, <2>10 DEF GrpcNext
<1> QED
  BY <1>1, <1>2, GrpcTypeCorrect, PTL DEF GrpcSpec

-----------------------------------------------------------------------------
(* HttpUser.                                                               *)

(* Tokens and requests.                                                    *)

(* What authenticate() or get_headers() yields is a token.                 *)
LEMMA TokensAreTokens ==
  ASSUME HttpTypeOK
  PROVE  Authenticate \subseteq Token /\ Headers \subseteq Token
<1>1. \A life \in 1..Lifetime : [until |-> seconds + life] \in OAuthToken
  BY HttpAssumption DEF HttpTypeOK, OAuthToken
<1>2. config \in ConfigType
  BY HttpAssumption DEF HttpTypeOK
<1> QED
  BY <1>1, <1>2 DEF HttpTypeOK, Authenticate, Headers, Token, ConfigType

(* A task sends a request, and nothing else.                               *)
LEMMA SendIsRequest ==
  ASSUME NEW task \in Tasks, NEW accepted \in BOOLEAN, Send(task, accepted), HttpTypeOK
  PROVE  /\ request' \in RequestType'
         /\ request'.accepted = accepted
         /\ HttpTypeOK'
<1>1. request' = [task |-> task, accepted |-> accepted]
  BY DEF Send
<1>2. UNCHANGED <<userClass, config, registry, envToken, issued, seconds,
                  heldToken, authHeader, standing, report>> /\ stage' = "waiting"
  BY DEF Send, setting, world, auth
<1>3. Tasks' = Tasks
  BY <1>2 DEF Tasks
<1> QED
  BY <1>1, <1>2, <1>3 DEF HttpTypeOK, RequestType

-----------------------------------------------------------------------------
(* The types of HttpUser always hold: only a GraphQLUser keeps a header,   *)
(* and a request is under way exactly while the user waits.                *)
THEOREM HttpTypeCorrect == HttpSpec => []HttpTypeOK
<1>1. HttpInit => HttpTypeOK
  <2> SUFFICES ASSUME HttpInit PROVE HttpTypeOK
    OBVIOUS
  <2>1. /\ userClass \in UserClass /\ config \in AuthConfig /\ issued \in Credential
        /\ registry = DefaultRegistry /\ envToken \in Credential \cup {NoToken}
        /\ seconds = 0 /\ stage = "new" /\ heldToken = NoToken /\ authHeader = NoToken
        /\ request = NoToken /\ standing = "refused"
    BY DEF HttpInit
  <2>2. seconds \in 0..MaxSeconds
    BY <2>1, HttpAssumption
  <2>3. registry \subseteq DefaultRegistry \cup {"custom"}
    BY <2>1
  <2> QED
    BY <2>1, <2>2, <2>3 DEF HttpTypeOK, Token
<1>2. HttpTypeOK /\ [HttpNext]_httpVars => HttpTypeOK'
  <2> SUFFICES ASSUME HttpTypeOK, [HttpNext]_httpVars
               PROVE  HttpTypeOK'
    OBVIOUS
  <2> USE DEF setting, world, auth
  <2>1. ASSUME NEW name \in DefaultRegistry \cup {"custom"}, Register(name) \/ Unregister(name)
        PROVE  HttpTypeOK'
    BY <2>1 DEF Register, Unregister, HttpTypeOK
  <2>2. ASSUME NEW token \in Credential, Rotate(token) PROVE HttpTypeOK'
    BY <2>2 DEF Rotate, HttpTypeOK, RequestType, Tasks
  <2>3. CASE Second
    BY <2>3, HttpAssumption DEF Second, HttpTypeOK, RequestType, Tasks
  <2>4. ASSUME NEW token, OnStart(token) PROVE HttpTypeOK'
    <3>1. CASE Authenticated
      BY <2>4, <3>1, TokensAreTokens DEF OnStart, HttpTypeOK, Accepted
    <3>2. CASE ~Authenticated
      BY <2>4, <3>2 DEF OnStart, HttpTypeOK
    <3> QED
      BY <3>1, <3>2
  <2>5. ASSUME NEW task \in Tasks, NEW token, ApiTask(task, token) PROVE HttpTypeOK'
    BY <2>5, SendIsRequest DEF ApiTask, Accepted
  <2>6. CASE ApiTaskFails
    BY <2>6 DEF ApiTaskFails, httpVars, HttpTypeOK, RequestType, Tasks
  <2>7. ASSUME NEW task \in Tasks, ApiTaskFallback(task) \/ Query(task) \/ PlainTask(task)
        PROVE  HttpTypeOK'
    BY <2>7, SendIsRequest DEF ApiTaskFallback, Query, PlainTask, Accepted
  <2>8. ASSUME NEW status, Answer(status) PROVE HttpTypeOK'
    BY <2>8 DEF Answer, HttpTypeOK
  <2>9. CASE UNCHANGED httpVars
    BY <2>9 DEF httpVars, HttpTypeOK, RequestType, Tasks
  <2> QED
    BY <2>1, <2>2, <2>3, <2>4, <2>5, <2>6, <2>7, <2>8, <2>9 DEF HttpNext
<1> QED
  BY <1>1, <1>2, PTL DEF HttpSpec

-----------------------------------------------------------------------------
(* A user whose token still stands holds the one that was issued last, or  *)
(* an OAuth2 token.                                                        *)
TrustIsEarned ==
  standing = "accepted" =>
    IF config.provider = "oauth2-client-credentials"
    THEN heldToken \in OAuthToken
    ELSE heldToken = issued

(* Why a request of an authenticated user may be refused.                  *)
Excused ==
  \/ standing \in {"refused", "replaced"}
  \/ userClass = "APIUser" /\ config.header # "default"
  \/ userClass = "GraphQLUser" /\ authHeader \in OAuthToken /\ authHeader.until <= seconds

(* A task of an APIUser with the default header sends a token that is      *)
(* accepted, unless the one it was set up with does not stand.             *)
LEMMA ApiTaskIsAccepted ==
  ASSUME HttpTypeOK, TrustIsEarned, NEW token \in Headers \ {NoToken},
         heldToken # NoToken, standing = "accepted"
  PROVE  Accepted(token)
<1>1. CASE heldToken \in OAuthToken
  <2>1. PICK life \in 1..Lifetime : token = [until |-> seconds + life]
    BY <1>1 DEF Headers
  <2>2. seconds \in Nat /\ life \in Nat /\ life > 0
    BY HttpAssumption DEF HttpTypeOK
  <2> QED
    BY <2>1, <2>2 DEF Accepted, OAuthToken
<1>2. CASE heldToken \notin OAuthToken
  BY <1>2 DEF Headers, TrustIsEarned, Accepted
<1> QED
  BY <1>1, <1>2

(* The header that a GraphQLUser keeps is accepted as long as it lasts.    *)
LEMMA KeptHeaderIsAccepted ==
  ASSUME HttpTypeOK, TrustIsEarned, userClass = "GraphQLUser",
         standing = "accepted", ~Accepted(authHeader)
  PROVE  authHeader \in OAuthToken /\ authHeader.until <= seconds
<1>1. authHeader = heldToken /\ seconds \in Nat
  BY DEF HttpTypeOK
<1>2. heldToken \in OAuthToken
  BY <1>1 DEF TrustIsEarned, Accepted
<1>3. heldToken.until \in Nat
  BY <1>2 DEF OAuthToken
<1> QED
  BY <1>1, <1>2, <1>3 DEF Accepted

(* A success has a status that a task expects.                             *)
LEMMA SuccessIsExpected ==
  ASSUME HttpTypeOK, NEW status, Answer(status), Succeeds(status)
  PROVE  status \in 200..299
<1>1. request \in RequestType
  BY DEF Answer, HttpTypeOK
<1>2. request.task \in Tasks /\ userClass \in
        {"APIUser", "GraphQLUser", "SoakUser", "SpikeUser", "StressUser", "WebUIUser"}
  BY <1>1, HttpAssumption DEF RequestType, HttpTypeOK
<1>3. request.task \in EveryTask
  BY <1>2 DEF Tasks, EveryTask
<1>4. \A t \in EveryTask : t.expected \subseteq {200, 201, 204}
  BY DEF EveryTask, Task, ApiTasks, GraphQLTasks, SoakTasks, SpikeTasks, StressTasks, WebUITasks
<1>5. status \in {200, 201, 204}
  BY <1>3, <1>4 DEF Succeeds
<1> QED
  BY <1>5

(* Whatever other users do to the registry and the environment, and        *)
(* whenever tokens are issued or expire, a request of an authenticated     *)
(* user is refused for one of the reasons that RefusedForAReason names,    *)
(* and a failure is never reported as a success.  RefusedForAReason says   *)
(* nothing of the token a user holds, hence TrustIsEarned.                 *)
THEOREM RefusalsAreExplained == HttpSpec => []RefusedForAReason
<1> DEFINE Inv == RefusedForAReason /\ TrustIsEarned
<1>1. HttpInit => Inv
  BY DEF HttpInit, RefusedForAReason, TrustIsEarned
<1>2. HttpTypeOK /\ HttpTypeOK' /\ Inv /\ [HttpNext]_httpVars => Inv'
  <2> SUFFICES ASSUME HttpTypeOK, HttpTypeOK', Inv, [HttpNext]_httpVars
               PROVE  Inv'
    OBVIOUS
  <2> USE DEF setting, world, auth
  <2>1. ASSUME NEW name \in DefaultRegistry \cup {"custom"}, Register(name) \/ Unregister(name)
        PROVE  Inv'
    BY <2>1
    DEF Register, Unregister, RefusedForAReason, RereadPromised, TrustIsEarned, Authenticated
  <2>2. ASSUME NEW token \in Credential, Rotate(token) PROVE Inv'
    BY <2>2 DEF Rotate, RefusedForAReason, RereadPromised, TrustIsEarned, Authenticated
  <2>3. CASE Second
    <3>1. \A t \in OAuthToken : t.until \in Nat
      BY DEF OAuthToken
    <3>2. seconds \in Nat /\ seconds' = seconds + 1
      BY <2>3, HttpAssumption DEF Second, HttpTypeOK
    <3> QED
      BY <2>3, <3>1, <3>2
      DEF Second, RefusedForAReason, RereadPromised, TrustIsEarned, Authenticated
  <2>4. ASSUME NEW token, OnStart(token) PROVE Inv'
    <3>1. request' = NoToken /\ report' = report
      BY <2>4 DEF OnStart, HttpTypeOK
    <3>2. RefusedForAReason'
      BY <3>1 DEF RefusedForAReason
    <3>3. TrustIsEarned'
      <4>1. CASE ~Authenticated
        BY <2>4, <4>1 DEF OnStart, TrustIsEarned
      <4>2. CASE Authenticated
        <5>1. /\ standing' = IF Accepted(token) THEN "accepted" ELSE "refused"
              /\ heldToken' = token /\ token \in Authenticate
              /\ config' = config /\ issued' = issued
          BY <2>4, <4>2 DEF OnStart
        <5>2. config.token \in Credential \cup {NoToken}
              /\ envToken \in Credential \cup {NoToken} /\ issued \in Credential
          BY HttpAssumption DEF HttpTypeOK, ConfigType
        <5>3. CASE config.provider = "oauth2-client-credentials"
          <6>1. token \in OAuthToken \cup {NoToken}
            <7>1. \A life \in 1..Lifetime : [until |-> seconds + life] \in OAuthToken
              BY HttpAssumption DEF HttpTypeOK, OAuthToken
            <7> QED
              BY <5>1, <5>3, <7>1 DEF Authenticate
          <6> QED
            BY <5>1, <5>2, <5>3, <6>1, NoTokenAssumption DEF TrustIsEarned, Accepted
        <5>4. CASE config.provider # "oauth2-client-credentials"
          <6>1. token \in Credential \cup {NoToken}
            BY <5>1, <5>2, <5>4, HttpAssumption DEF Authenticate, HttpTypeOK, ConfigType
          <6> QED
            BY <5>1, <5>4, <6>1, NoTokenAssumption DEF TrustIsEarned, Accepted
        <5> QED
          BY <5>3, <5>4
      <4> QED
        BY <4>1, <4>2
    <3> QED
      BY <3>2, <3>3
  <2>5. ASSUME NEW task \in Tasks, NEW accepted \in BOOLEAN, Send(task, accepted),
               Authenticated /\ ~accepted => Excused
        PROVE  Inv'
    <3>1. request'.accepted = accepted
      BY <2>5, SendIsRequest
    <3>2. UNCHANGED <<userClass, config, issued, seconds, heldToken, authHeader, standing,
                      report>>
      BY <2>5 DEF Send
    <3> QED
      BY <2>5, <3>1, <3>2
      DEF RefusedForAReason, RereadPromised, TrustIsEarned, Authenticated, Excused
  <2>6. ASSUME NEW task \in Tasks, NEW token, ApiTask(task, token) PROVE Inv'
    BY <2>5, <2>6, ApiTaskIsAccepted DEF ApiTask, Excused, Accepted, HttpTypeOK
  <2>7. CASE ApiTaskFails
    BY <2>7
    DEF ApiTaskFails, httpVars, RefusedForAReason, RereadPromised, TrustIsEarned, Authenticated
  <2>8. ASSUME NEW task \in Tasks, ApiTaskFallback(task) PROVE Inv'
    <3>1. standing \in {"refused", "replaced"}
      BY <2>8, NoTokenAssumption DEF ApiTaskFallback, TrustIsEarned, HttpTypeOK
    <3> QED
      BY <2>5, <2>8, <3>1 DEF ApiTaskFallback, Excused, Accepted
  <2>9. ASSUME NEW task \in Tasks, Query(task) PROVE Inv'
    BY <2>5, <2>9, KeptHeaderIsAccepted DEF Query, Excused, Accepted, HttpTypeOK
  <2>10. ASSUME NEW task \in Tasks, PlainTask(task) PROVE Inv'
    BY <2>5, <2>10 DEF PlainTask
  <2>11. ASSUME NEW status, Answer(status) PROVE Inv'
    <3>1. request' = NoToken
      BY <2>11 DEF Answer
    <3>2. report' # NoToken /\ report'.success => report'.status \in 200..299
      BY <2>11, SuccessIsExpected DEF Answer
    <3> QED
      BY <2>11, <3>1, <3>2 DEF Answer, RefusedForAReason, TrustIsEarned
  <2>12. CASE UNCHANGED httpVars
    BY <2>12 DEF httpVars, RefusedForAReason, RereadPromised, TrustIsEarned, Authenticated
  <2> QED
    BY <2>1, <2>2, <2>3, <2>4, <2>6, <2>7, <2>8, <2>9, <2>10, <2>11, <2>12 DEF HttpNext
<1> QED
  BY <1>1, <1>2, HttpTypeCorrect, PTL DEF HttpSpec

-----------------------------------------------------------------------------
(* LocustFile.                                                             *)

(* What is in a list, and in one that is longer by one.                    *)
LEMMA RangeOfList ==
  ASSUME NEW T, NEW list \in Seq(T)
  PROVE  /\ Len(list) \in Nat /\ DOMAIN list = 1 .. Len(list)
         /\ Range(list) = {list[i] : i \in 1 .. Len(list)}
         /\ Range(list) \subseteq T
BY DEF Range

LEMMA RangeOfAppend ==
  ASSUME NEW T, NEW list \in Seq(T), NEW x \in T
  PROVE  /\ Append(list, x) \in Seq(T)
         /\ Range(Append(list, x)) = Range(list) \cup {x}
<1>1. PICK n, longer : n = Len(list) /\ longer = Append(list, x)
  OBVIOUS
<1>2. /\ n \in Nat /\ longer \in Seq(T) /\ Len(longer) = n + 1
      /\ \A i \in 1 .. n : longer[i] = list[i]
      /\ longer[n + 1] = x
  BY <1>1
<1>3. /\ Range(list) = {list[i] : i \in 1 .. n}
      /\ Range(longer) = {longer[i] : i \in 1 .. n + 1}
  <2>1. Range(list) = {list[i] : i \in 1 .. n}
    BY <1>1, RangeOfList
  <2>2. Range(longer) = {longer[i] : i \in 1 .. Len(longer)}
    BY <1>2, RangeOfList
  <2> QED
    BY <1>2, <2>1, <2>2
<1>4. 1 .. n + 1 = (1 .. n) \cup {n + 1}
  BY <1>2
<1>5. Range(longer) = Range(list) \cup {x}
  BY <1>2, <1>3, <1>4
<1> QED
  BY <1>1, <1>2, <1>5

LEMMA RangeOfConcat ==
  ASSUME NEW T, NEW list \in Seq(T), NEW more \in Seq(T)
  PROVE  /\ list \o more \in Seq(T)
         /\ Range(list \o more) = Range(list) \cup Range(more)
<1>1. PICK n, m, longer : n = Len(list) /\ m = Len(more) /\ longer = list \o more
  OBVIOUS
<1>2. /\ n \in Nat /\ m \in Nat /\ longer \in Seq(T) /\ Len(longer) = n + m
      /\ \A i \in 1 .. n : longer[i] = list[i]
      /\ \A i \in 1 .. m : longer[n + i] = more[i]
  BY <1>1
<1>3. /\ Range(list) = {list[i] : i \in 1 .. n}
      /\ Range(more) = {more[i] : i \in 1 .. m}
      /\ Range(longer) = {longer[i] : i \in 1 .. n + m}
  <2>1. Range(list) = {list[i] : i \in 1 .. n}
    BY <1>1, RangeOfList
  <2>2. Range(more) = {more[i] : i \in 1 .. m}
    BY <1>1, RangeOfList
  <2>3. Range(longer) = {longer[i] : i \in 1 .. Len(longer)}
    BY <1>2, RangeOfList
  <2> QED
    BY <1>2, <2>1, <2>2, <2>3
<1>4. ASSUME NEW i \in 1 .. n + m PROVE longer[i] \in Range(list) \cup Range(more)
  <2>1. CASE i <= n
    BY <1>2, <1>3, <2>1
  <2>2. CASE i > n
    <3>1. i - n \in 1 .. m /\ i = n + (i - n)
      BY <1>2, <2>2
    <3>2. longer[i] = more[i - n]
      BY <1>2, <3>1
    <3> QED
      BY <1>3, <3>1, <3>2
  <2> QED
    BY <1>2, <2>1, <2>2
<1>5. ASSUME NEW i \in 1 .. n PROVE list[i] \in Range(longer)
  <2>1. i \in 1 .. n + m
    BY <1>2
  <2> QED
    BY <1>2, <1>3, <2>1
<1>6. ASSUME NEW i \in 1 .. m PROVE more[i] \in Range(longer)
  <2>1. n + i \in 1 .. n + m
    BY <1>2
  <2> QED
    BY <1>2, <1>3, <2>1
<1>7. Range(longer) = Range(list) \cup Range(more)
  BY <1>3, <1>4, <1>5, <1>6
<1> QED
  BY <1>1, <1>2, <1>7

(* The loops over a list, each with what it has after every round.         *)
LEMMA OnlyInIsFilter ==
  ASSUME NEW T, NEW list \in Seq(T), NEW set
  PROVE  OnlyIn(set, list) \in Seq(T) /\ Range(OnlyIn(set, list)) = Range(list) \cap set
<1> DEFINE N == Len(list)
           Next2(x, n) == IF list[n] \in set THEN Append(x, list[n]) ELSE x
           Round(f, i) == IF i = 0 THEN <<>>
                          ELSE IF list[i] \in set THEN Append(f[i - 1], list[i]) ELSE f[i - 1]
           Loop(f) == f = [i \in 0 .. N |-> Round(f, i)]
           step == [p \in (1 .. N) \X Seq(T) |-> Next2(p[2], p[1])]
<1>1. N \in Nat /\ \A i \in 1 .. N : list[i] \in T
  OBVIOUS
<1>2. Range(list) = {list[i] : i \in 1 .. N}
  BY RangeOfList
<1> HIDE DEF N
<1>3. \A n \in 1 .. N, x \in Seq(T) : step[<<n, x>>] = Next2(x, n)
  OBVIOUS
<1> HIDE DEF step
<1>4. IsStep(step, N, Seq(T))
  <2>1. ASSUME NEW n \in 1 .. N, NEW x \in Seq(T) PROVE step[<<n, x>>] \in Seq(T)
    <3>1. Append(x, list[n]) \in Seq(T)
      BY <1>1, RangeOfAppend
    <3> QED
      BY <1>3, <3>1
  <2> QED
    BY <2>1 DEF IsStep
<1>5. PICK f : Unfolds(f, N, Seq(T), <<>>, step)
  <2>1. PICK Z, empty : Z = Seq(T) /\ empty = <<>>
    OBVIOUS
  <2>2. empty \in Z /\ IsStep(step, N, Z)
    BY <1>4, <2>1
  <2>3. \E f : Unfolds(f, N, Z, empty, step)
    BY <1>1, <2>2, RecursionHasSolution
  <2> QED
    BY <2>1, <2>3
<1>6. ASSUME NEW i \in 0 .. N PROVE f[i] = Round(f, i)
  <2>1. CASE i = 0
    BY <1>5, <2>1 DEF Unfolds
  <2>2. CASE i # 0
    <3>1. i \in 1 .. N /\ i - 1 \in 0 .. N
      BY <1>1, <2>2
    <3>2. f[i - 1] \in Seq(T) /\ f[i] = step[<<i, f[i - 1]>>]
      BY <1>5, <3>1 DEF Unfolds
    <3> QED
      BY <1>3, <2>2, <3>1, <3>2
  <2> QED
    BY <2>1, <2>2
<1>7. Loop(f)
  <2> HIDE DEF Round
  <2> QED
    BY <1>5, <1>6 DEF Unfolds
<1>8. PICK only : Loop(only) /\ OnlyIn(set, list) = only[N]
  BY <1>7 DEF OnlyIn, N
<1>9. /\ only[0] = <<>>
      /\ \A i \in 1 .. N : only[i] = Next2(only[i - 1], i)
  <2>1. \A i \in 0 .. N : only[i] = Round(only, i)
    <3> HIDE DEF Round
    <3> QED
      BY <1>8
  <2> QED
    BY <1>1, <2>1
<1> HIDE DEF Loop
<1> DEFINE Upto(i) == {list[j] : j \in 1 .. i}
           G == {i \in 0 .. N : only[i] \in Seq(T) /\ Range(only[i]) = Upto(i) \cap set}
<1>10. 0 \in G
  <2>1. <<>> \in Seq(T) /\ Range(<<>>) = {}
    BY DEF Range
  <2>2. Upto(0) = {}
    OBVIOUS
  <2> HIDE DEF Upto
  <2>3. only[0] \in Seq(T) /\ Range(only[0]) = Upto(0) \cap set
    BY <1>9, <2>1, <2>2
  <2>4. 0 \in 0 .. N
    BY <1>1
  <2> QED
    BY <2>3, <2>4
<1>11. ASSUME NEW i \in 1 .. N, i - 1 \in G PROVE i \in G
  <2>1. only[i - 1] \in Seq(T) /\ Range(only[i - 1]) = Upto(i - 1) \cap set
    BY <1>11
  <2>2. Upto(i) = Upto(i - 1) \cup {list[i]}
    <3>1. 1 .. i = (1 .. i - 1) \cup {i}
      BY <1>1
    <3> QED
      BY <3>1
  <2> HIDE DEF Upto
  <2>3. only[i] = Next2(only[i - 1], i)
    BY <1>9
  <2>4. CASE list[i] \in set
    <3>1. only[i] = Append(only[i - 1], list[i])
      BY <2>3, <2>4
    <3>2. list[i] \in T
      BY <1>1
    <3>3. only[i] \in Seq(T) /\ Range(only[i]) = Range(only[i - 1]) \cup {list[i]}
      BY <2>1, <3>1, <3>2, RangeOfAppend
    <3> QED
      BY <2>1, <2>2, <2>4, <3>3
  <2>5. CASE list[i] \notin set
    BY <2>1, <2>2, <2>3, <2>5
  <2> QED
    BY <2>4, <2>5
<1>12. 0 .. N \subseteq G
  <2> HIDE DEF G
  <2> QED
    BY <1>1, <1>10, <1>11, UpwardInduction
<1>13. N \in G
  <2> HIDE DEF G
  <2> QED
    BY <1>1, <1>12
<1> QED
  BY <1>2, <1>8, <1>13

(* What is in a list of lists that are put one after another.              *)
LEMMA FlattenSeqIsUnion ==
  ASSUME NEW T, NEW lists \in Seq(Seq(T))
  PROVE  /\ FlattenSeq(lists) \in Seq(T)
         /\ Range(FlattenSeq(lists)) = UNION {Range(lists[i]) : i \in DOMAIN lists}
<1> DEFINE N == Len(lists)
           M == N - 1
           Round(f, i) == IF i = 1 THEN lists[i] ELSE f[i - 1] \o lists[i]
           Loop(f) == f = [i \in 1 .. N |-> Round(f, i)]
           step == [p \in (1 .. M) \X Seq(T) |-> p[2] \o lists[p[1] + 1]]
           Upto(i) == UNION {Range(lists[j]) : j \in 1 .. i}
<1>1. N \in Nat /\ DOMAIN lists = 1 .. N /\ \A i \in 1 .. N : lists[i] \in Seq(T)
  OBVIOUS
<1>2. CASE N = 0
  <2>1. FlattenSeq(lists) = lists /\ lists = <<>> /\ 1 .. N = {}
    BY <1>1, <1>2 DEF FlattenSeq
  <2>2. <<>> \in Seq(T) /\ Range(<<>>) = {}
    BY DEF Range
  <2> QED
    BY <1>1, <2>1, <2>2
<1>3. CASE N # 0
  <2>1. /\ FlattenSeq(lists) = LET flatten[i \in 1 .. N] == Round(flatten, i) IN flatten[N]
    BY <1>3 DEF FlattenSeq
  <2>2. M \in Nat /\ N = M + 1
    BY <1>1, <1>3
  <2> HIDE DEF N, M
  <2>3. \A n \in 1 .. M, x \in Seq(T) : step[<<n, x>>] = x \o lists[n + 1]
    OBVIOUS
  <2> HIDE DEF step
  <2>4. IsStep(step, M, Seq(T))
    <3>1. ASSUME NEW n \in 1 .. M, NEW x \in Seq(T) PROVE step[<<n, x>>] \in Seq(T)
      <4>1. n + 1 \in 1 .. N
        BY <2>2
      <4>2. lists[n + 1] \in Seq(T)
        BY <1>1, <4>1
      <4>3. x \o lists[n + 1] \in Seq(T)
        BY <4>2, RangeOfConcat
      <4> QED
        BY <2>3, <4>3
    <3> QED
      BY <3>1 DEF IsStep
  <2>5. PICK g : Unfolds(g, M, Seq(T), lists[1], step)
    <3>1. PICK Z, first : Z = Seq(T) /\ first = lists[1]
      OBVIOUS
    <3>2. first \in Z /\ IsStep(step, M, Z)
      BY <1>1, <2>2, <2>4, <3>1
    <3>3. \E g : Unfolds(g, M, Z, first, step)
      BY <2>2, <3>2, RecursionHasSolution
    <3> QED
      BY <3>1, <3>3
  <2>6. PICK f : f = [i \in 1 .. N |-> g[i - 1]]
    OBVIOUS
  <2>7. ASSUME NEW i \in 1 .. N PROVE f[i] = Round(f, i)
    <3>1. CASE i = 1
      BY <2>2, <2>5, <2>6, <3>1 DEF Unfolds
    <3>2. CASE i # 1
      <4>1. /\ i - 1 \in 1 .. M /\ i - 1 \in 1 .. N /\ (i - 1) - 1 \in 0 .. M
            /\ (i - 1) + 1 = i
        BY <2>2, <3>2
      <4>2. f[i] = g[i - 1] /\ f[i - 1] = g[(i - 1) - 1]
        BY <2>6, <4>1
      <4>3. g[(i - 1) - 1] \in Seq(T) /\ g[i - 1] = step[<<i - 1, g[(i - 1) - 1]>>]
        BY <2>5, <4>1 DEF Unfolds
      <4>4. f[i] = f[i - 1] \o lists[i]
        BY <2>3, <4>1, <4>2, <4>3
      <4> QED
        BY <3>2, <4>4
    <3> QED
      BY <3>1, <3>2
  <2>8. Loop(f)
    <3> HIDE DEF Round
    <3> QED
      BY <2>6, <2>7
  <2>9. PICK flat : Loop(flat) /\ FlattenSeq(lists) = flat[N]
    <3> HIDE DEF Round
    <3> QED
      BY <2>1, <2>8
  <2>10. ASSUME NEW i \in 1 .. N PROVE flat[i] = Round(flat, i)
    <3> HIDE DEF Round
    <3> QED
      BY <2>9
  <2> HIDE DEF Loop
  <2> DEFINE Good(i) == flat[i] \in Seq(T) /\ Range(flat[i]) = Upto(i)
             G == {k \in 0 .. M : Good(k + 1)}
  <2>11. 0 \in G
    <3>1. flat[1] = lists[1] /\ lists[1] \in Seq(T)
      BY <1>1, <2>2, <2>10
    <3>2. Upto(1) = Range(lists[1])
      OBVIOUS
    <3> HIDE DEF Upto
    <3>3. Good(0 + 1)
      BY <3>1, <3>2
    <3> HIDE DEF Good
    <3> QED
      BY <2>2, <3>3
  <2>12. ASSUME NEW k \in 1 .. M, k - 1 \in G PROVE k \in G
    <3>1. k \in 1 .. N /\ k + 1 \in 1 .. N /\ k + 1 # 1 /\ (k + 1) - 1 = k /\ (k - 1) + 1 = k
      BY <2>2
    <3>2. Good(k)
      BY <2>12, <3>1
    <3>3. Upto(k + 1) = Upto(k) \cup Range(lists[k + 1])
      <4>1. 1 .. k + 1 = (1 .. k) \cup {k + 1}
        OBVIOUS
      <4> QED
        BY <4>1
    <3> HIDE DEF Upto
    <3>4. flat[k + 1] = flat[k] \o lists[k + 1] /\ lists[k + 1] \in Seq(T)
      BY <1>1, <2>10, <3>1
    <3>5. /\ flat[k] \o lists[k + 1] \in Seq(T)
          /\ Range(flat[k] \o lists[k + 1]) = Range(flat[k]) \cup Range(lists[k + 1])
      BY <3>2, <3>4, RangeOfConcat
    <3>6. Good(k + 1)
      BY <3>2, <3>3, <3>4, <3>5
    <3> HIDE DEF Good
    <3> QED
      BY <3>6
  <2>13. 0 .. M \subseteq G
    <3> HIDE DEF G
    <3> QED
      BY <2>2, <2>11, <2>12, UpwardInduction
  <2>14. Good(N)
    <3>1. M \in G
      <4> HIDE DEF G
      <4> QED
        BY <2>2, <2>13
    <3> HIDE DEF Good
    <3> QED
      BY <2>2, <3>1
  <2> QED
    BY <1>1, <2>9, <2>14
<1> QED
  BY <1>2, <1>3

(* Every scheme that an endpoint names is listed.                          *)
LEMMA AuthSchemesAreNamed ==
  ASSUME NEW T, NEW endpoints, NEW n \in Nat, DOMAIN endpoints = 1 .. n,
         \A i \in 1 .. n : endpoints[i].security \in Seq(T)
  PROVE  /\ AuthSchemes(endpoints) \in Seq(T)
         /\ Range(AuthSchemes(endpoints)) = UNION {Range(endpoints[i].security) : i \in 1 .. n}
<1>1. PICK lists : lists = [i \in DOMAIN endpoints |-> endpoints[i].security]
  OBVIOUS
<1>2. /\ lists \in Seq(Seq(T)) /\ DOMAIN lists = 1 .. n
      /\ \A i \in 1 .. n : lists[i] = endpoints[i].security
  <2>1. lists \in [1 .. n -> Seq(T)]
    BY <1>1
  <2> QED
    BY <1>1, <2>1
<1>3. PICK named : named = FlattenSeq(lists)
  OBVIOUS
<1>4. /\ named \in Seq(T)
      /\ Range(named) = UNION {Range(endpoints[i].security) : i \in 1 .. n}
  <2>1. named \in Seq(T) /\ Range(named) = UNION {Range(lists[i]) : i \in DOMAIN lists}
    BY <1>2, <1>3, FlattenSeqIsUnion
  <2> QED
    BY <1>2, <2>1
<1> DEFINE N == Len(named)
           Follow(x, i) == IF Contains(x, named[i]) THEN x ELSE Append(x, named[i])
           Round(f, i) == IF i = 0 THEN <<>>
                          ELSE IF Contains(f[i - 1], named[i]) THEN f[i - 1]
                          ELSE Append(f[i - 1], named[i])
           Loop(f) == f = [i \in 0 .. N |-> Round(f, i)]
           step == [p \in (1 .. N) \X Seq(T) |-> Follow(p[2], p[1])]
           Upto(i) == {named[j] : j \in 1 .. i}
<1>5. /\ N \in Nat /\ \A i \in 1 .. N : named[i] \in T
      /\ Range(named) = Upto(N)
  <2>1. Range(named) = {named[i] : i \in 1 .. Len(named)}
    BY <1>4, RangeOfList
  <2>2. N \in Nat /\ \A i \in 1 .. N : named[i] \in T
    BY <1>4
  <2> QED
    BY <2>1, <2>2
<1>6. AuthSchemes(endpoints) = LET schemes[i \in 0 .. N] == Round(schemes, i) IN schemes[N]
  BY <1>1, <1>3 DEF AuthSchemes
<1> HIDE DEF N
<1>7. \A i \in 1 .. N, x \in Seq(T) : step[<<i, x>>] = Follow(x, i)
  OBVIOUS
<1> HIDE DEF step
<1>8. ASSUME NEW i \in 1 .. N, NEW x \in Seq(T)
      PROVE  Follow(x, i) \in Seq(T) /\ Range(Follow(x, i)) = Range(x) \cup {named[i]}
  <2>1. named[i] \in T
    BY <1>5
  <2>2. /\ Append(x, named[i]) \in Seq(T)
        /\ Range(Append(x, named[i])) = Range(x) \cup {named[i]}
    BY <2>1, RangeOfAppend
  <2>3. Contains(x, named[i]) => named[i] \in Range(x)
    BY RangeOfList DEF Contains
  <2> QED
    BY <2>2, <2>3
<1>9. IsStep(step, N, Seq(T))
  <2> HIDE DEF Follow
  <2> QED
    BY <1>7, <1>8 DEF IsStep
<1>10. PICK f : Unfolds(f, N, Seq(T), <<>>, step)
  <2>1. PICK Z, empty : Z = Seq(T) /\ empty = <<>>
    OBVIOUS
  <2>2. empty \in Z /\ IsStep(step, N, Z)
    BY <1>9, <2>1
  <2>3. \E f : Unfolds(f, N, Z, empty, step)
    BY <1>5, <2>2, RecursionHasSolution
  <2> QED
    BY <2>1, <2>3
<1>11. ASSUME NEW i \in 0 .. N PROVE f[i] = Round(f, i)
  <2>1. CASE i = 0
    BY <1>10, <2>1 DEF Unfolds
  <2>2. CASE i # 0
    <3>1. i \in 1 .. N /\ i - 1 \in 0 .. N
      BY <1>5, <2>2
    <3>2. f[i - 1] \in Seq(T) /\ f[i] = step[<<i, f[i - 1]>>]
      BY <1>10, <3>1 DEF Unfolds
    <3> QED
      BY <1>7, <2>2, <3>1, <3>2
  <2> QED
    BY <2>1, <2>2
<1>12. Loop(f)
  <2> HIDE DEF Round
  <2> QED
    BY <1>10, <1>11 DEF Unfolds
<1>13. PICK schemes : Loop(schemes) /\ AuthSchemes(endpoints) = schemes[N]
  <2> HIDE DEF Round
  <2> QED
    BY <1>6, <1>12
<1>14. schemes[0] = <<>> /\ \A i \in 1 .. N : schemes[i] = Follow(schemes[i - 1], i)
  <2>1. \A i \in 0 .. N : schemes[i] = Round(schemes, i)
    <3> HIDE DEF Round
    <3> QED
      BY <1>13
  <2> QED
    BY <1>5, <2>1
<1> HIDE DEF Loop, Follow
<1> DEFINE Good(i) == schemes[i] \in Seq(T) /\ Range(schemes[i]) = Upto(i)
           G == {i \in 0 .. N : Good(i)}
<1>15. 0 \in G
  <2>1. <<>> \in Seq(T) /\ Range(<<>>) = {}
    BY DEF Range
  <2>2. Upto(0) = {}
    OBVIOUS
  <2> HIDE DEF Upto
  <2>3. Good(0)
    BY <1>14, <2>1, <2>2
  <2> HIDE DEF Good
  <2> QED
    BY <1>5, <2>3
<1>16. ASSUME NEW i \in 1 .. N, i - 1 \in G PROVE i \in G
  <2>1. Good(i - 1)
    BY <1>16
  <2>2. Upto(i) = Upto(i - 1) \cup {named[i]}
    <3>1. 1 .. i = (1 .. i - 1) \cup {i}
      BY <1>5
    <3> QED
      BY <3>1
  <2> HIDE DEF Upto
  <2>3. Good(i)
    BY <1>8, <1>14, <2>1, <2>2
  <2> HIDE DEF Good
  <2> QED
    BY <1>5, <2>3
<1>17. 0 .. N \subseteq G
  <2> HIDE DEF G
  <2> QED
    BY <1>5, <1>15, <1>16, UpwardInduction
<1>18. Good(N)
  <2> HIDE DEF Good
  <2> QED
    BY <1>5, <1>17
<1> QED
  BY <1>4, <1>5, <1>13, <1>18

(* The headers that schemes may set.                                       *)
HeaderNames(schemes) == {"Authorization"} \cup {s.header : s \in Keys(schemes)}

HeaderValues(schemes) == UNION {[names -> schemes] : names \in SUBSET HeaderNames(schemes)}

(* What the headers are after the statements for some of the schemes.      *)
AreHeadersOf(current, some) ==
  /\ current = Missing <=> Bearers(some) \cup Keys(some) = {}
  /\ current # Missing =>
       /\ Range(current) \subseteq Bearers(some) \cup Keys(some)
       /\ Bearers(some) # {} => "Authorization" \in DOMAIN current
       /\ Bearers(some) = {} => DOMAIN current = {s.header : s \in Keys(some)}

(* One statement of on_start adds what its scheme sets.                    *)
LEMMA SetHeaderKeepsHeaders ==
  ASSUME NEW schemes, Missing \notin HeaderValues(schemes),
         NEW current \in {Missing} \cup HeaderValues(schemes), NEW scheme \in schemes
  PROVE  /\ SetHeader(current, scheme) \in {Missing} \cup HeaderValues(schemes)
         /\ \A some \in SUBSET schemes :
              AreHeadersOf(current, some)
                => AreHeadersOf(SetHeader(current, scheme), some \cup {scheme})
<1>1. PICK after : after = SetHeader(current, scheme)
  OBVIOUS
<1>2. PICK kept : kept = IF current = Missing THEN <<>> ELSE current
  OBVIOUS
<1>3. CASE scheme.type = "http" /\ scheme.in = Missing
  <2>1. after = [name \in {"Authorization"} |-> scheme]
    BY <1>1, <1>3 DEF SetHeader
  <2>2. DOMAIN after = {"Authorization"} /\ Range(after) = {scheme}
    BY <2>1 DEF Range
  <2>3. after \in HeaderValues(schemes)
    <3>1. after \in [{"Authorization"} -> schemes]
      BY <2>1
    <3> QED
      BY <3>1 DEF HeaderValues, HeaderNames
  <2>4. after # Missing
    BY <2>3
  <2>5. ASSUME NEW some \in SUBSET schemes PROVE AreHeadersOf(after, some \cup {scheme})
    <3>1. scheme \in Bearers(some \cup {scheme})
      BY <1>3 DEF Bearers
    <3> QED
      BY <2>2, <2>4, <3>1 DEF AreHeadersOf
  <2> QED
    BY <1>1, <2>3, <2>5
<1>4. CASE scheme.type = "apiKey" /\ scheme.in = "header"
  <2>1. scheme.type # "http"
    BY <1>4
  <2>2. after = [name \in DOMAIN kept \cup {scheme.header} |->
                   IF name = scheme.header THEN scheme ELSE kept[name]]
    BY <1>1, <1>2, <1>4, <2>1 DEF SetHeader
  <2>3. DOMAIN after = DOMAIN kept \cup {scheme.header}
    BY <2>2
  <2>4. \A name \in DOMAIN after :
          after[name] = scheme \/ (name \in DOMAIN kept /\ after[name] = kept[name])
    BY <2>2
  <2>5. /\ DOMAIN kept \subseteq HeaderNames(schemes)
        /\ \A name \in DOMAIN kept : kept[name] \in schemes
    <3>1. CASE current = Missing
      <4>1. DOMAIN kept = {}
        BY <1>2, <3>1
      <4> QED
        BY <4>1
    <3>2. CASE current # Missing
      <4>1. PICK names \in SUBSET HeaderNames(schemes) : current \in [names -> schemes]
        BY <3>2 DEF HeaderValues
      <4> QED
        BY <1>2, <3>2, <4>1
    <3> QED
      BY <3>1, <3>2
  <2>6. after \in HeaderValues(schemes)
    <3>1. scheme \in Keys(schemes)
      BY <1>4 DEF Keys
    <3>2. DOMAIN after \in SUBSET HeaderNames(schemes)
      BY <2>3, <2>5, <3>1 DEF HeaderNames
    <3>3. \A name \in DOMAIN after : after[name] \in schemes
      BY <2>4, <2>5
    <3>4. after = [name \in DOMAIN after |-> after[name]]
      BY <2>2
    <3>5. after \in [DOMAIN after -> schemes]
      BY <3>3, <3>4
    <3> QED
      BY <3>2, <3>5 DEF HeaderValues
  <2>7. after # Missing
    BY <2>6
  <2>8. ASSUME NEW some \in SUBSET schemes, AreHeadersOf(current, some)
        PROVE  AreHeadersOf(after, some \cup {scheme})
    <3> DEFINE more == some \cup {scheme}
    <3>1. Bearers(more) = Bearers(some) /\ Keys(more) = Keys(some) \cup {scheme}
      BY <1>4, <2>1 DEF Bearers, Keys
    <3> HIDE DEF more
    <3>2. CASE current = Missing
      <4>1. DOMAIN kept = {} /\ Bearers(some) = {} /\ Keys(some) = {}
        BY <1>2, <2>8, <3>2 DEF AreHeadersOf
      <4>2. DOMAIN after = {scheme.header} /\ Range(after) \subseteq {scheme}
        BY <2>3, <2>4, <4>1 DEF Range
      <4> QED
        BY <2>7, <3>1, <4>1, <4>2 DEF AreHeadersOf, more
    <3>3. CASE current # Missing
      <4>1. /\ kept = current
            /\ Range(current) \subseteq Bearers(some) \cup Keys(some)
            /\ Bearers(some) # {} => "Authorization" \in DOMAIN current
            /\ Bearers(some) = {} => DOMAIN current = {s.header : s \in Keys(some)}
        BY <1>2, <2>8, <3>3 DEF AreHeadersOf
      <4>2. Range(after) \subseteq Bearers(more) \cup Keys(more)
        <5>1. \A name \in DOMAIN kept : kept[name] \in Range(current)
          BY <4>1 DEF Range
        <5> QED
          BY <2>4, <3>1, <4>1, <5>1 DEF Range
      <4>3. Bearers(more) # {} => "Authorization" \in DOMAIN after
        BY <2>3, <3>1, <4>1
      <4>4. Bearers(more) = {} => DOMAIN after = {s.header : s \in Keys(more)}
        BY <2>3, <3>1, <4>1
      <4>5. Bearers(more) \cup Keys(more) # {}
        BY <3>1
      <4> QED
        BY <2>7, <4>2, <4>3, <4>4, <4>5 DEF AreHeadersOf, more
    <3> QED
      BY <3>2, <3>3
  <2> QED
    BY <1>1, <2>6, <2>8
<1>5. CASE /\ ~(scheme.type = "http" /\ scheme.in = Missing)
           /\ ~(scheme.type = "apiKey" /\ scheme.in = "header")
  <2>1. after = current
    BY <1>1, <1>5 DEF SetHeader
  <2>2. ASSUME NEW some \in SUBSET schemes, AreHeadersOf(current, some)
        PROVE  AreHeadersOf(after, some \cup {scheme})
    <3>1. Bearers(some \cup {scheme}) = Bearers(some) /\ Keys(some \cup {scheme}) = Keys(some)
      BY <1>5 DEF Bearers, Keys
    <3> QED
      BY <2>1, <2>2, <3>1 DEF AreHeadersOf
  <2> QED
    BY <1>1, <2>1, <2>2
<1> QED
  BY <1>3, <1>4, <1>5

(* So all of them set what their schemes do.                               *)
LEMMA HeadersAreOfSchemes ==
  ASSUME NEW schemes, Missing \notin HeaderValues(schemes), NEW setup \in Seq(schemes)
  PROVE  AreHeadersOf(HeadersOf(setup), Range(setup))
<1> DEFINE N == Len(setup)
           Value == {Missing} \cup HeaderValues(schemes)
           Round(f, i) == IF i = 0 THEN Missing ELSE SetHeader(f[i - 1], setup[i])
           Loop(f) == f = [i \in 0 .. N |-> Round(f, i)]
           step == [p \in (1 .. N) \X Value |-> SetHeader(p[2], setup[p[1]])]
           Upto(i) == {setup[j] : j \in 1 .. i}
<1>1. /\ N \in Nat /\ \A i \in 1 .. N : setup[i] \in schemes
      /\ Range(setup) = Upto(N)
  <2>1. Range(setup) = {setup[i] : i \in 1 .. Len(setup)}
    BY RangeOfList
  <2>2. N \in Nat /\ \A i \in 1 .. N : setup[i] \in schemes
    OBVIOUS
  <2> QED
    BY <2>1, <2>2
<1>2. HeadersOf(setup) = LET set[i \in 0 .. N] == Round(set, i) IN set[N]
  BY DEF HeadersOf
<1> HIDE DEF N
<1>3. \A i \in 1 .. N, x \in Value : step[<<i, x>>] = SetHeader(x, setup[i])
  OBVIOUS
<1> HIDE DEF step
<1>4. ASSUME NEW i \in 1 .. N, NEW x \in Value
      PROVE  /\ SetHeader(x, setup[i]) \in Value
             /\ \A some \in SUBSET schemes :
                  AreHeadersOf(x, some)
                    => AreHeadersOf(SetHeader(x, setup[i]), some \cup {setup[i]})
  <2>1. setup[i] \in schemes
    BY <1>1
  <2> QED
    BY <2>1, SetHeaderKeepsHeaders
<1>5. Missing \in Value
  OBVIOUS
<1> HIDE DEF Value
<1>6. IsStep(step, N, Value)
  BY <1>3, <1>4 DEF IsStep
<1>7. PICK f : Unfolds(f, N, Value, Missing, step)
  BY <1>1, <1>5, <1>6, RecursionHasSolution
<1>8. ASSUME NEW i \in 0 .. N PROVE f[i] = Round(f, i)
  <2>1. CASE i = 0
    BY <1>7, <2>1 DEF Unfolds
  <2>2. CASE i # 0
    <3>1. i \in 1 .. N /\ i - 1 \in 0 .. N
      BY <1>1, <2>2
    <3>2. f[i - 1] \in Value /\ f[i] = step[<<i, f[i - 1]>>]
      BY <1>7, <3>1 DEF Unfolds
    <3> QED
      BY <1>3, <2>2, <3>1, <3>2
  <2> QED
    BY <2>1, <2>2
<1>9. Loop(f)
  <2> HIDE DEF Round
  <2> QED
    BY <1>7, <1>8 DEF Unfolds
<1>10. PICK set : Loop(set) /\ HeadersOf(setup) = set[N]
  <2> HIDE DEF Round
  <2> QED
    BY <1>2, <1>9
<1>11. set[0] = Missing /\ \A i \in 1 .. N : set[i] = SetHeader(set[i - 1], setup[i])
  <2>1. \A i \in 0 .. N : set[i] = Round(set, i)
    <3> HIDE DEF Round
    <3> QED
      BY <1>10
  <2> QED
    BY <1>1, <2>1
<1> HIDE DEF Loop
<1> DEFINE Good(i) == set[i] \in Value /\ AreHeadersOf(set[i], Upto(i))
           G == {i \in 0 .. N : Good(i)}
<1>12. 0 \in G
  <2>1. Upto(0) = {}
    OBVIOUS
  <2> HIDE DEF Upto
  <2>2. AreHeadersOf(Missing, {})
    BY DEF AreHeadersOf, Bearers, Keys
  <2>3. Good(0)
    BY <1>5, <1>11, <2>1, <2>2
  <2> HIDE DEF Good
  <2> QED
    BY <1>1, <2>3
<1>13. ASSUME NEW i \in 1 .. N, i - 1 \in G PROVE i \in G
  <2>1. Good(i - 1)
    BY <1>13
  <2>2. Upto(i) = Upto(i - 1) \cup {setup[i]}
    <3>1. 1 .. i = (1 .. i - 1) \cup {i}
      BY <1>1
    <3> QED
      BY <3>1
  <2>3. Upto(i - 1) \in SUBSET schemes
    BY <1>1
  <2> HIDE DEF Upto
  <2>4. Good(i)
    BY <1>4, <1>11, <2>1, <2>2, <2>3
  <2> HIDE DEF Good
  <2> QED
    BY <1>1, <2>4
<1>14. 0 .. N \subseteq G
  <2> HIDE DEF G
  <2> QED
    BY <1>1, <1>12, <1>13, UpwardInduction
<1>15. Good(N)
  <2> HIDE DEF Good
  <2> QED
    BY <1>1, <1>14
<1> QED
  BY <1>1, <1>10, <1>15

(* A list is one of any set that has all of its elements.                  *)
LEMMA ListOfFewer ==
  ASSUME NEW T, NEW list \in Seq(T), NEW U, Range(list) \subseteq U
  PROVE  list \in Seq(U)
<1>1. PICK n : n = Len(list)
  OBVIOUS
<1>2. n \in Nat /\ list \in [1 .. n -> T]
  BY <1>1
<1>3. \A i \in 1 .. n : list[i] \in U
  BY <1>1, <1>2, RangeOfList
<1>4. list \in [1 .. n -> U]
  BY <1>2, <1>3
<1> QED
  BY <1>2, <1>4

MethodNames == {"get", "post", "put", "patch", "delete", "head", "options"}

(* The operations of a document by their path and method, and the endpoint *)
(* that is made of each.                                                   *)
ItemAt(document, i) == Deref(document, document.paths[i].item)

Places(document) ==
  {p \in (DOMAIN document.paths) \X Range(Methods) : p[2] \in DOMAIN ItemAt(document, p[1])}

OperationAt(document, p) ==
  <<document.paths[p[1]].path, p[2], Deref(document, ItemAt(document, p[1])[p[2]])>>

EndpointAt(document, p) ==
  EndpointInfo(document, document.paths[p[1]].path, p[2], ItemAt(document, p[1])[p[2]])

(* Neither way of reading a document finds an operation that the other     *)
(* does not.                                                               *)
LEMMA OperationsAreAtPlaces ==
  ASSUME NEW document
  PROVE  Operations(document) = {OperationAt(document, p) : p \in Places(document)}
<1> DEFINE Of(i) ==
             {<<document.paths[i].path, method, Deref(document, ItemAt(document, i)[method])>> :
                method \in Range(Methods) \cap DOMAIN ItemAt(document, i)}
<1>1. Operations(document) = UNION {Of(i) : i \in DOMAIN document.paths}
  BY DEF Operations, ItemAt
<1>2. ASSUME NEW p \in Places(document) PROVE OperationAt(document, p) \in Operations(document)
  <2>1. p[1] \in DOMAIN document.paths /\ p[2] \in Range(Methods) \cap DOMAIN ItemAt(document, p[1])
    BY DEF Places
  <2>2. OperationAt(document, p) \in Of(p[1])
    BY <2>1 DEF OperationAt
  <2> HIDE DEF Of
  <2> QED
    BY <1>1, <2>1, <2>2
<1>3. ASSUME NEW o \in Operations(document)
      PROVE  \E p \in Places(document) : o = OperationAt(document, p)
  <2>1. PICK i \in DOMAIN document.paths : o \in Of(i)
    <3> HIDE DEF Of
    <3> QED
      BY <1>1
  <2>2. PICK method \in Range(Methods) \cap DOMAIN ItemAt(document, i) :
             o = <<document.paths[i].path, method, Deref(document, ItemAt(document, i)[method])>>
    BY <2>1
  <2>3. PICK p : p = <<i, method>>
    OBVIOUS
  <2>4. p \in Places(document)
    BY <2>2, <2>3 DEF Places
  <2>5. o = OperationAt(document, p)
    BY <2>2, <2>3 DEF OperationAt
  <2> QED
    BY <2>4, <2>5
<1> QED
  BY <1>2, <1>3

(* What _extract_endpoint takes over from an operation.                    *)
LEMMA EndpointIsOfOperation ==
  ASSUME NEW document, NEW p, NEW endpoint, endpoint = EndpointAt(document, p),
         NEW o, o = OperationAt(document, p)
  PROVE  /\ endpoint.path = o[1] /\ endpoint.method = o[2]
         /\ endpoint.id = Get(o[3], "operationId", Missing)
         /\ endpoint.security = Security(document, o[3])
         /\ endpoint.json => "requestBody" \in DOMAIN o[3]
         /\ endpoint.pathParams # {} <=> DeclaresPath(document, o)
<1>1. PICK operation : operation = Deref(document, ItemAt(document, p[1])[p[2]])
  OBVIOUS
<1>2. o[1] = document.paths[p[1]].path /\ o[2] = p[2] /\ o[3] = operation
  BY <1>1 DEF OperationAt
<1>3. /\ endpoint.path = document.paths[p[1]].path
      /\ endpoint.method = p[2]
      /\ endpoint.id = Get(operation, "operationId", Missing)
      /\ endpoint.security = Security(document, operation)
      /\ endpoint.json = LET body == Deref(document, Get(operation, "requestBody", <<>>))
                         IN  Get(Get(body, "content", <<>>), "application/json", FALSE)
  BY <1>1 DEF EndpointAt, EndpointInfo
<1>4. ASSUME "requestBody" \notin DOMAIN operation PROVE ~endpoint.json
  <2>1. Get(operation, "requestBody", <<>>) = <<>>
    BY <1>4 DEF Get
  <2>2. DOMAIN <<>> = {}
    OBVIOUS
  <2>3. Deref(document, <<>>) = <<>>
    BY <2>2 DEF Deref, IsRef
  <2>4. Get(<<>>, "content", <<>>) = <<>> /\ Get(<<>>, "application/json", FALSE) = FALSE
    BY <2>2 DEF Get
  <2> QED
    BY <1>3, <2>1, <2>3, <2>4
<1>5. PICK parameters, declared :
           /\ parameters = Get(operation, "parameters", <<>>)
           /\ declared = {Deref(document, parameters[i]) : i \in DOMAIN parameters}
  OBVIOUS
<1>6. endpoint.pathParams =
        {Get(q, "name", "") : q \in {d \in declared : Get(d, "in", "query") = "path"}}
  BY <1>1, <1>5 DEF EndpointAt, EndpointInfo
<1>7. endpoint.pathParams # {} <=> \E d \in declared : Get(d, "in", "query") = "path"
  BY <1>6
<1>8. DeclaresPath(document, o) <=>
        \E i \in DOMAIN parameters : Get(Deref(document, parameters[i]), "in", "query") = "path"
  BY <1>2, <1>5 DEF DeclaresPath
<1>9. endpoint.pathParams # {} <=> DeclaresPath(document, o)
  BY <1>5, <1>7, <1>8
<1> QED
  BY <1>2, <1>3, <1>4, <1>9

(* Every operation becomes an endpoint, and nothing else does.             *)
LEMMA EndpointsAreOperations ==
  ASSUME NEW document, IsList(document.paths)
  PROVE  LET all == {EndpointAt(document, p) : p \in Places(document)}
         IN  Endpoints(document) \in Seq(all) /\ Range(Endpoints(document)) = all
<1> DEFINE all == {EndpointAt(document, p) : p \in Places(document)}
           Present2(i) == Present(ItemAt(document, i))
           Of(i) == [j \in DOMAIN Present2(i) |-> EndpointAt(document, <<i, Present2(i)[j]>>)]
<1>1. PICK lists : lists = [i \in DOMAIN document.paths |-> Of(i)]
  OBVIOUS
<1>2. Endpoints(document) = FlattenSeq(lists)
  BY <1>1 DEF Endpoints, EndpointAt, ItemAt
<1>3. PICK n : n = Len(document.paths)
  OBVIOUS
<1>4. n \in Nat /\ DOMAIN document.paths = 1 .. n
  BY <1>3 DEF IsList
<1>5. ASSUME NEW i \in 1 .. n
      PROVE  /\ Of(i) \in Seq(all)
             /\ Range(Of(i)) = {EndpointAt(document, <<i, method>>) :
                                  method \in Range(Methods) \cap DOMAIN ItemAt(document, i)}
  <2>1. PICK present, m : present = Present2(i) /\ m = Len(present)
    OBVIOUS
  <2>2. /\ present \in Seq(MethodNames)
        /\ Range(present) = Range(Methods) \cap DOMAIN ItemAt(document, i)
    <3>1. PICK set : set = DOMAIN ItemAt(document, i)
      OBVIOUS
    <3>2. Methods \in Seq(MethodNames)
      BY DEF Methods, MethodNames
    <3>3. /\ OnlyIn(set, Methods) \in Seq(MethodNames)
          /\ Range(OnlyIn(set, Methods)) = Range(Methods) \cap set
      BY <3>2, OnlyInIsFilter
    <3> QED
      BY <2>1, <3>1, <3>3 DEF Present
  <2>3. m \in Nat /\ DOMAIN present = 1 .. m /\ Range(present) = {present[j] : j \in 1 .. m}
    BY <2>1, <2>2, RangeOfList
  <2>4. Of(i) = [j \in 1 .. m |-> EndpointAt(document, <<i, present[j]>>)]
    BY <2>1, <2>3
  <2>5. ASSUME NEW j \in 1 .. m PROVE EndpointAt(document, <<i, present[j]>>) \in all
    <3>1. <<i, present[j]>> \in Places(document)
      <4>1. present[j] \in Range(Methods) \cap DOMAIN ItemAt(document, i)
        BY <2>2, <2>3
      <4> QED
        BY <1>4, <4>1 DEF Places
    <3> QED
      BY <3>1
  <2>6. PICK list : list = Of(i)
    OBVIOUS
  <2> HIDE DEF all, Of
  <2>7. /\ list \in [1 .. m -> all]
        /\ \A j \in 1 .. m : list[j] = EndpointAt(document, <<i, present[j]>>)
    BY <2>4, <2>5, <2>6
  <2>8. list \in Seq(all)
    BY <2>3, <2>7
  <2>9. Range(list) = {EndpointAt(document, <<i, present[j]>>) : j \in 1 .. m}
    BY <2>7 DEF Range
  <2>10. Range(list) = {EndpointAt(document, <<i, method>>) : method \in Range(present)}
    BY <2>3, <2>9
  <2> QED
    BY <2>2, <2>6, <2>8, <2>10
<1>6. lists \in Seq(Seq(all)) /\ DOMAIN lists = 1 .. n
  <2> HIDE DEF Of, all
  <2>1. lists \in [1 .. n -> Seq(all)]
    BY <1>1, <1>4, <1>5
  <2> QED
    BY <1>4, <2>1
<1>7. /\ FlattenSeq(lists) \in Seq(all)
      /\ Range(FlattenSeq(lists)) = UNION {Range(lists[i]) : i \in 1 .. n}
  <2> HIDE DEF Of, all
  <2> QED
    BY <1>6, FlattenSeqIsUnion
<1>8. UNION {Range(lists[i]) : i \in 1 .. n} = all
  <2>1. ASSUME NEW i \in 1 .. n
        PROVE  Range(lists[i]) = {EndpointAt(document, <<i, method>>) :
                                    method \in Range(Methods) \cap DOMAIN ItemAt(document, i)}
    <3> HIDE DEF Of
    <3> QED
      BY <1>1, <1>4, <1>5
  <2>2. ASSUME NEW p \in Places(document)
        PROVE  \E i \in 1 .. n : EndpointAt(document, p) \in Range(lists[i])
    <3>1. /\ p[1] \in 1 .. n /\ p = <<p[1], p[2]>>
          /\ p[2] \in Range(Methods) \cap DOMAIN ItemAt(document, p[1])
      BY <1>4 DEF Places
    <3> QED
      BY <2>1, <3>1
  <2>3. ASSUME NEW i \in 1 .. n, NEW e \in Range(lists[i]) PROVE e \in all
    <3>1. PICK method \in Range(Methods) \cap DOMAIN ItemAt(document, i) :
               e = EndpointAt(document, <<i, method>>)
      BY <2>1, <2>3
    <3>2. <<i, method>> \in Places(document)
      BY <1>4, <3>1 DEF Places
    <3> QED
      BY <3>1, <3>2
  <2> QED
    BY <2>2, <2>3
<1> QED
  BY <1>2, <1>7, <1>8

(* The names of the security schemes that an operation has.                *)
Asked(document, o) ==
  Range(Get(o[3], "security", document.security)) \cap DOMAIN document.schemes

(* The schemes an endpoint names are those its operation asks for.         *)
LEMMA SecurityIsAsked ==
  ASSUME NEW document, NEW o, IsList(Get(o[3], "security", document.security))
  PROVE  /\ Security(document, o[3]) \in Seq(DOMAIN document.schemes)
         /\ Range(Security(document, o[3])) = Asked(document, o)
<1>1. PICK list, set : /\ list = Get(o[3], "security", document.security)
                       /\ set = DOMAIN document.schemes
  OBVIOUS
<1>2. list \in Seq(Range(list))
  BY <1>1 DEF IsList
<1>3. PICK kept : kept = OnlyIn(set, list)
  OBVIOUS
<1>4. kept \in Seq(Range(list)) /\ Range(kept) = Range(list) \cap set
  BY <1>2, <1>3, OnlyInIsFilter
<1>5. kept \in Seq(set)
  BY <1>4, ListOfFewer
<1> QED
  BY <1>1, <1>3, <1>4, <1>5 DEF Security, Asked

(* Every scheme that the document requires is set up, and no other.        *)
LEMMA SetupIsRequired ==
  ASSUME NEW document \in Document, Parses(document), NEW option
  PROVE  LET setup == Script(document, option).setup
         IN  /\ setup \in Seq(Range(document.schemes))
             /\ Range(setup) = Required(document)
<1>1. /\ IsList(document.paths)
      /\ \A o \in Operations(document) : IsList(Get(o[3], "security", document.security))
  BY DocumentAssumption
<1>2. PICK all, endpoints, n :
           /\ all = {EndpointAt(document, p) : p \in Places(document)}
           /\ endpoints = Endpoints(document) /\ n = Len(endpoints)
  OBVIOUS
<1>3. endpoints \in Seq(all) /\ Range(endpoints) = all
  BY <1>1, <1>2, EndpointsAreOperations
<1>4. /\ n \in Nat /\ DOMAIN endpoints = 1 .. n
      /\ \A i \in 1 .. n : endpoints[i] \in all
      /\ \A e \in all : \E i \in 1 .. n : endpoints[i] = e
  <2>1. /\ Len(endpoints) \in Nat /\ DOMAIN endpoints = 1 .. Len(endpoints)
        /\ Range(endpoints) = {endpoints[i] : i \in 1 .. Len(endpoints)}
    BY <1>3, RangeOfList
  <2>2. n \in Nat /\ DOMAIN endpoints = 1 .. n /\ all = {endpoints[i] : i \in 1 .. n}
    BY <1>2, <1>3, <2>1
  <2> QED
    BY <2>2
<1> DEFINE T == DOMAIN document.schemes
           Ops == Operations(document)
<1>5. ASSUME NEW p \in Places(document)
      PROVE  /\ OperationAt(document, p) \in Ops
             /\ EndpointAt(document, p).security \in Seq(T)
             /\ Range(EndpointAt(document, p).security)
                  = Asked(document, OperationAt(document, p))
  <2>1. PICK o : o = OperationAt(document, p)
    OBVIOUS
  <2>2. o \in Ops
    BY <2>1, OperationsAreAtPlaces
  <2>3. EndpointAt(document, p).security = Security(document, o[3])
    BY <2>1, EndpointIsOfOperation
  <2>4. IsList(Get(o[3], "security", document.security))
    BY <1>1, <2>2
  <2> QED
    BY <2>1, <2>2, <2>3, <2>4, SecurityIsAsked
<1>6. ASSUME NEW i \in 1 .. n
      PROVE  /\ endpoints[i].security \in Seq(T)
             /\ \E o \in Ops : Range(endpoints[i].security) = Asked(document, o)
  <2>1. PICK p \in Places(document) : endpoints[i] = EndpointAt(document, p)
    BY <1>2, <1>4
  <2> QED
    BY <1>5, <2>1
<1>7. ASSUME NEW o \in Ops
      PROVE  \E i \in 1 .. n : Range(endpoints[i].security) = Asked(document, o)
  <2>1. PICK p \in Places(document) : o = OperationAt(document, p)
    BY OperationsAreAtPlaces
  <2>2. EndpointAt(document, p) \in all
    BY <1>2
  <2>3. PICK i \in 1 .. n : endpoints[i] = EndpointAt(document, p)
    BY <1>4, <2>2
  <2> QED
    BY <1>5, <2>1, <2>3
<1>8. PICK schemes : schemes = AuthSchemes(endpoints)
  OBVIOUS
<1>9. /\ schemes \in Seq(T)
      /\ Range(schemes) = UNION {Range(endpoints[i].security) : i \in 1 .. n}
  <2> HIDE DEF T
  <2> QED
    BY <1>4, <1>6, <1>8, AuthSchemesAreNamed
<1>10. Range(schemes) = UNION {Asked(document, o) : o \in Ops}
  <2> HIDE DEF Ops, T
  <2> QED
    BY <1>6, <1>7, <1>9
<1>11. Required(document) = {document.schemes[name] : name \in Range(schemes)}
  <2>1. T \cap UNION {Range(Get(o[3], "security", document.security)) : o \in Ops}
          = Range(schemes)
    <3> HIDE DEF Ops
    <3> QED
      BY <1>10 DEF Asked
  <2> QED
    BY <2>1 DEF Required
<1>12. PICK m, setup : m = Len(schemes) /\ setup = Script(document, option).setup
  OBVIOUS
<1>13. m \in Nat /\ DOMAIN schemes = 1 .. m /\ Range(schemes) = {schemes[i] : i \in 1 .. m}
  BY <1>9, <1>12, RangeOfList
<1>14. setup = [i \in DOMAIN schemes |-> document.schemes[schemes[i]]]
  BY <1>2, <1>8, <1>12 DEF Script
<1>15. DOMAIN setup = 1 .. m /\ \A i \in 1 .. m : setup[i] = document.schemes[schemes[i]]
  BY <1>13, <1>14
<1>16. setup \in Seq(Range(document.schemes))
  <2>1. \A i \in 1 .. m : schemes[i] \in T
    BY <1>9, <1>13
  <2>2. \A i \in 1 .. m : setup[i] \in Range(document.schemes)
    BY <1>15, <2>1 DEF Range
  <2>3. setup \in [1 .. m -> Range(document.schemes)]
    BY <1>13, <1>14, <1>15, <2>2
  <2> QED
    BY <1>13, <2>3
<1>17. Range(setup) = Required(document)
  <2>1. Range(setup) = {setup[i] : i \in 1 .. m}
    BY <1>15 DEF Range
  <2> QED
    BY <1>11, <1>13, <1>15, <2>1
<1> QED
  BY <1>12, <1>16, <1>17

(* What a task has of its operation.                                       *)
IsTaskOf(document, task, o) ==
  /\ task.request.path = o[1] /\ task.request.method = o[2]
  /\ task.request.json => "requestBody" \in DOMAIN o[3]
  /\ task.expressions # {} <=> DeclaresPath(document, o) /\ Placeholders[o[1]] # {}
  /\ task.name = OperationName(o)

(* Every operation has a task, and every task an operation.                *)
LEMMA TasksAreOperations ==
  ASSUME NEW document \in Document, Parses(document), NEW option
  PROVE  LET tasks == Script(document, option).tasks
         IN  /\ \E n \in Nat : DOMAIN tasks = 1 .. n /\ Len(tasks) = n
             /\ \A o \in Operations(document) :
                  \E i \in DOMAIN tasks : IsTaskOf(document, tasks[i], o)
             /\ \A i \in DOMAIN tasks :
                  \E o \in Operations(document) : IsTaskOf(document, tasks[i], o)
<1>1. /\ IsList(document.paths)
      /\ \A o \in Operations(document) :
           "operationId" \in DOMAIN o[3] => o[3].operationId # Missing
  BY DocumentAssumption
<1>2. PICK all, endpoints, n :
           /\ all = {EndpointAt(document, p) : p \in Places(document)}
           /\ endpoints = Endpoints(document) /\ n = Len(endpoints)
  OBVIOUS
<1>3. endpoints \in Seq(all) /\ Range(endpoints) = all
  BY <1>1, <1>2, EndpointsAreOperations
<1>4. /\ n \in Nat /\ DOMAIN endpoints = 1 .. n
      /\ \A i \in 1 .. n : endpoints[i] \in all
      /\ \A e \in all : \E i \in 1 .. n : endpoints[i] = e
  <2>1. /\ Len(endpoints) \in Nat /\ DOMAIN endpoints = 1 .. Len(endpoints)
        /\ Range(endpoints) = {endpoints[i] : i \in 1 .. Len(endpoints)}
    BY <1>3, RangeOfList
  <2>2. n \in Nat /\ DOMAIN endpoints = 1 .. n /\ all = {endpoints[i] : i \in 1 .. n}
    BY <1>2, <1>3, <2>1
  <2> QED
    BY <2>2
<1>5. PICK tasks : tasks = Script(document, option).tasks
  OBVIOUS
<1>6. tasks = [i \in 1 .. n |-> GeneratedTask(endpoints[i])]
  BY <1>2, <1>4, <1>5 DEF Script
<1>7. /\ DOMAIN tasks = 1 .. n /\ Len(tasks) = n
      /\ \A i \in 1 .. n : tasks[i] = GeneratedTask(endpoints[i])
  BY <1>4, <1>6
<1>8. ASSUME NEW p \in Places(document)
      PROVE  /\ OperationAt(document, p) \in Operations(document)
             /\ IsTaskOf(document, GeneratedTask(EndpointAt(document, p)), OperationAt(document, p))
  <2>1. PICK o, endpoint, task :
             /\ o = OperationAt(document, p) /\ endpoint = EndpointAt(document, p)
             /\ task = GeneratedTask(endpoint)
    OBVIOUS
  <2>2. o \in Operations(document)
    BY <2>1, OperationsAreAtPlaces
  <2>3. /\ endpoint.path = o[1] /\ endpoint.method = o[2]
        /\ endpoint.id = Get(o[3], "operationId", Missing)
        /\ endpoint.json => "requestBody" \in DOMAIN o[3]
        /\ endpoint.pathParams # {} <=> DeclaresPath(document, o)
    BY <2>1, EndpointIsOfOperation
  <2>4. /\ task.name = MethodName(endpoint) /\ task.expressions = Expressions(endpoint)
        /\ task.request.method = endpoint.method /\ task.request.path = endpoint.path
        /\ task.request.json = endpoint.json
    BY <2>1 DEF GeneratedTask
  <2>5. task.expressions # {} <=> DeclaresPath(document, o) /\ Placeholders[o[1]] # {}
    BY <2>3, <2>4 DEF Expressions
  <2>6. MethodName(endpoint) = OperationName(o)
    <3>1. CASE "operationId" \in DOMAIN o[3]
      <4>1. endpoint.id = o[3].operationId /\ endpoint.id # Missing
        BY <1>1, <2>2, <2>3, <3>1 DEF Get
      <4> QED
        BY <3>1, <4>1 DEF MethodName, OperationName
    <3>2. CASE "operationId" \notin DOMAIN o[3]
      <4>1. endpoint.id = Missing
        BY <2>3, <3>2 DEF Get
      <4> QED
        BY <2>3, <3>2, <4>1 DEF MethodName, OperationName
    <3> QED
      BY <3>1, <3>2
  <2> QED
    BY <2>1, <2>2, <2>3, <2>4, <2>5, <2>6 DEF IsTaskOf
<1>9. ASSUME NEW o \in Operations(document)
      PROVE  \E i \in 1 .. n : IsTaskOf(document, tasks[i], o)
  <2>1. PICK p \in Places(document) : o = OperationAt(document, p)
    BY OperationsAreAtPlaces
  <2>2. EndpointAt(document, p) \in all
    BY <1>2
  <2>3. PICK i \in 1 .. n : endpoints[i] = EndpointAt(document, p)
    BY <1>4, <2>2
  <2> QED
    BY <1>7, <1>8, <2>1, <2>3
<1>10. ASSUME NEW i \in 1 .. n
       PROVE  \E o \in Operations(document) : IsTaskOf(document, tasks[i], o)
  <2>1. PICK p \in Places(document) : endpoints[i] = EndpointAt(document, p)
    BY <1>2, <1>4
  <2> QED
    BY <1>7, <1>8, <2>1
<1> QED
  BY <1>4, <1>5, <1>7, <1>9, <1>10

(* A class has a method of every name, the last of those with the name.    *)
LEMMA ClassHasEveryName ==
  ASSUME NEW file, NEW n \in Nat, DOMAIN file.tasks = 1 .. n, Len(file.tasks) = n,
         NEW i \in 1 .. n
  PROVE  \E task \in ClassTasks(file) : task.name = file.tasks[i].name
<1>1. PICK tasks : tasks = file.tasks
  OBVIOUS
<1>2. PICK S : S = {j \in 1 .. n : tasks[j].name = tasks[i].name}
  OBVIOUS
<1>3. S \in SUBSET (0 .. n) /\ S # {}
  BY <1>2
<1>4. PICK j \in S : \A m \in S : m <= j
  BY <1>3, GreatestNumber
<1>5. j \in 1 .. n /\ tasks[j].name = tasks[i].name
  BY <1>2, <1>4
<1>6. \A k \in j + 1 .. n : tasks[k].name # tasks[j].name
  <2> SUFFICES ASSUME NEW k \in j + 1 .. n, tasks[k].name = tasks[j].name PROVE FALSE
    OBVIOUS
  <2>1. k \in S
    BY <1>2, <1>5
  <2> QED
    BY <1>4, <1>5, <2>1
<1>7. tasks[j] \in ClassTasks(file)
  BY <1>1, <1>5, <1>6 DEF ClassTasks
<1> QED
  BY <1>1, <1>5, <1>7

(* What a user has of the document of its script: on_start ran before any  *)
(* task, and has set what the setup of the script sets.                    *)
IsScript(file) ==
  \E document \in Document, option \in Option :
    Parses(document) /\ file = Script(document, option)

(* What a user sends, or not, when it runs a task.                         *)
IsRunOf(last, task) ==
  /\ last.request = task.request /\ last.formatted = task.expressions
  /\ last.raised \/ task.expressions \subseteq Defined

FileInv ==
  /\ output # Missing => IsScript(output)
  /\ locustfile \notin {Missing, Truncated} => IsScript(locustfile)
  /\ script # Missing => IsScript(script)
  /\ userState \in {"none", "loaded", "running", "ended", "failed"}
  /\ userState \in {"none", "failed"} => script = Missing
  /\ userState \in {"none", "loaded", "failed"} => headers = Missing /\ sent = Missing
  /\ userState \in {"running", "ended"} => headers = HeadersOf(script.setup)
  /\ userState = "ended" => script.setup # <<>> /\ headers = Missing
  /\ sent # Missing => \E task \in ClassTasks(script) : IsRunOf(sent, task)

(* FileInv always holds.                                                   *)
LEMMA UsersRunTheirScripts == FileSpec => []FileInv
<1>1. FileInit => FileInv
  BY DEF FileInit, FileInv
<1>2. FileInv /\ [FileNext]_fileVars => FileInv'
  <2> SUFFICES ASSUME FileInv, [FileNext]_fileVars PROVE FileInv'
    OBVIOUS
  <2>1. CASE UNCHANGED fileVars
    BY <2>1 DEF FileInv, IsScript, ClassTasks, fileVars
  <2>2. ASSUME NEW document \in Document, ParseFails(document) PROVE FileInv'
    BY <2>2 DEF FileInv, IsScript, ClassTasks, ParseFails, runVars
  <2>3. ASSUME NEW document \in Document, NEW option \in Option, DryRun(document, option)
        PROVE  FileInv'
    BY <2>3 DEF FileInv, IsScript, ClassTasks, DryRun, runVars
  <2>4. ASSUME NEW document \in Document, NEW option \in Option, OpenOutput(document, option)
        PROVE  FileInv'
    <3>1. /\ output' = Script(document, option) /\ Parses(document)
          /\ locustfile' = Truncated /\ UNCHANGED runVars
      BY <2>4 DEF OpenOutput
    <3>2. IsScript(output')
      BY <3>1 DEF IsScript
    <3> QED
      BY <3>1, <3>2 DEF FileInv, IsScript, ClassTasks, runVars
  <2>5. CASE WriteOutput
    BY <2>5 DEF FileInv, IsScript, ClassTasks, WriteOutput, runVars
  <2>6. CASE WriteFails
    BY <2>6 DEF FileInv, IsScript, ClassTasks, WriteFails, runVars
  <2>7. CASE Load
    <3>1. /\ userState = "none" /\ script = Missing /\ headers = Missing /\ sent = Missing
          /\ UNCHANGED <<locustfile, output, headers, sent>>
      BY <2>7 DEF Load, FileInv
    <3>2. CASE Loads(locustfile)
      <4>1. userState' = "loaded" /\ script' = locustfile
        BY <2>7, <3>2 DEF Load
      <4>2. IsScript(locustfile)
        BY <3>2 DEF Loads, FileInv
      <4> QED
        BY <3>1, <4>1, <4>2 DEF FileInv, IsScript
    <3>3. CASE ~Loads(locustfile)
      <4>1. userState' = "failed" /\ UNCHANGED script
        BY <2>7, <3>3 DEF Load
      <4> QED
        BY <3>1, <4>1 DEF FileInv, IsScript
    <3> QED
      BY <3>2, <3>3
  <2>8. CASE StartUser
    <3>1. /\ userState = "loaded" /\ sent = Missing
          /\ headers' = HeadersOf(script.setup)
          /\ UNCHANGED <<locustfile, output, script, sent>>
      BY <2>8 DEF StartUser, FileInv
    <3>2. /\ userState' \in {"running", "ended"}
          /\ userState' = "ended" => script.setup # <<>> /\ headers' = Missing
      BY <2>8 DEF StartUser
    <3> QED
      BY <3>1, <3>2 DEF FileInv, IsScript
  <2>9. ASSUME NEW task \in ClassTasks(script), RunTask(task) PROVE FileInv'
    <3>1. /\ userState = "running"
          /\ UNCHANGED <<locustfile, output, script, userState, headers>>
          /\ IsRunOf(sent', task)
      BY <2>9 DEF RunTask, IsRunOf
    <3>2. \E other \in ClassTasks(script) : IsRunOf(sent', other)
      BY <3>1
    <3> QED
      BY <3>1, <3>2 DEF FileInv, IsScript, ClassTasks
  <2> QED
    BY <2>1, <2>2, <2>3, <2>4, <2>5, <2>6, <2>7, <2>8, <2>9 DEF FileNext
<1> QED
  BY <1>1, <1>2, PTL DEF FileSpec

(* The user that Locust runs is the one its document describes, for every  *)
(* document: of its operations, none is lost but to another of the same    *)
(* name; of the schemes it requires, none that sets a header is, but to a  *)
(* bearer token; and every task that runs is one of its operations, with   *)
(* its path as it is if it declares no path parameter, and without braces  *)
(* if it does.                                                             *)
THEOREM UsersAreTheirDocuments == FileSpec => []UserIsTheDocuments
<1>1. FileInv => UserIsTheDocuments
  <2> SUFFICES ASSUME FileInv, script # Missing PROVE UserIsTheDocuments
    BY DEF UserIsTheDocuments
  <2>1. PICK document \in Document, option \in Option :
             Parses(document) /\ script = Script(document, option)
    BY DEF FileInv, IsScript
  <2>2. script.document = document
    BY <2>1 DEF Script
  <2>3. PICK tasks, setup, required, schemes, ops :
             /\ tasks = script.tasks /\ setup = script.setup
             /\ required = Required(document) /\ schemes = Range(document.schemes)
             /\ ops = Operations(document)
    OBVIOUS
  <2>4. setup \in Seq(schemes) /\ Range(setup) = required
    BY <2>1, <2>3, SetupIsRequired
  <2>5. Missing \notin HeaderValues(schemes)
    BY <2>3, DocumentAssumption DEF HeaderValues, HeaderNames
  <2>6. AreHeadersOf(HeadersOf(setup), required)
    BY <2>4, <2>5, HeadersAreOfSchemes
  <2>7. PICK n \in Nat : DOMAIN tasks = 1 .. n /\ Len(tasks) = n
    BY <2>1, <2>3, TasksAreOperations
  <2>8. /\ \A o \in ops : \E i \in 1 .. n : IsTaskOf(document, tasks[i], o)
        /\ \A i \in 1 .. n : \E o \in ops : IsTaskOf(document, tasks[i], o)
    BY <2>1, <2>3, <2>7, TasksAreOperations
  <2>9. ASSUME NEW task \in ClassTasks(script) PROVE \E o \in ops : IsTaskOf(document, task, o)
    <3>1. PICK i \in 1 .. n : task = tasks[i]
      BY <2>3, <2>7 DEF ClassTasks
    <3> QED
      BY <2>8, <3>1
  <2>10. ASSUME NEW o \in ops
         PROVE  \E task \in ClassTasks(script), other \in ops :
                  /\ OperationName(other) = OperationName(o)
                  /\ task.request.path = other[1] /\ task.request.method = other[2]
    <3>1. PICK i \in 1 .. n : IsTaskOf(document, tasks[i], o)
      BY <2>8
    <3>2. PICK task \in ClassTasks(script) : task.name = tasks[i].name
      BY <2>3, <2>7, ClassHasEveryName
    <3>3. PICK other \in ops : IsTaskOf(document, task, other)
      BY <2>9
    <3>4. OperationName(other) = OperationName(o)
      BY <3>1, <3>2, <3>3 DEF IsTaskOf
    <3> QED
      BY <3>2, <3>3, <3>4 DEF IsTaskOf
  <2>11. userState = "ended" =>
           required # {} /\ Bearers(required) \cup Keys(required) = {}
    <3>1. ASSUME userState = "ended"
          PROVE  required # {} /\ Bearers(required) \cup Keys(required) = {}
      <4>1. setup # <<>> /\ HeadersOf(setup) = Missing
        BY <2>3, <3>1 DEF FileInv
      <4>2. Range(setup) # {}
        <5>1. Len(setup) \in Nat /\ Len(setup) # 0
          BY <2>4, <4>1
        <5>2. 1 \in DOMAIN setup
          BY <2>4, <5>1
        <5> QED
          BY <5>2 DEF Range
      <4> QED
        BY <2>4, <2>6, <4>1, <4>2 DEF AreHeadersOf
    <3> QED
      BY <3>1
  <2>12. headers # Missing =>
           /\ Range(headers) \subseteq Bearers(required) \cup Keys(required)
           /\ Bearers(required) # {} => "Authorization" \in DOMAIN headers
           /\ Bearers(required) = {} => DOMAIN headers = {s.header : s \in Keys(required)}
    <3>1. headers # Missing => headers = HeadersOf(setup)
      BY <2>3 DEF FileInv
    <3> QED
      BY <2>6, <3>1 DEF AreHeadersOf
  <2>13. ASSUME sent # Missing
         PROVE  \E o \in ops :
                  /\ sent.request.path = o[1] /\ sent.request.method = o[2]
                  /\ sent.request.json => "requestBody" \in DOMAIN o[3]
                  /\ sent.formatted # {} <=>
                       DeclaresPath(document, o) /\ Placeholders[o[1]] # {}
                  /\ sent.raised \/ sent.formatted \subseteq Defined
    <3>1. PICK task \in ClassTasks(script) : IsRunOf(sent, task)
      BY <2>13 DEF FileInv
    <3>2. PICK o \in ops : IsTaskOf(document, task, o)
      BY <2>9
    <3> QED
      BY <3>1, <3>2 DEF IsTaskOf, IsRunOf
  <2> QED
    <3>1. script.document = document /\ Required(document) = required
          /\ Operations(document) = ops
      BY <2>2, <2>3
    <3>2. \A o \in ops : \E task \in ClassTasks(script), other \in ops :
            /\ OperationName(other) = OperationName(o)
            /\ task.request.path = other[1] /\ task.request.method = other[2]
      BY <2>10
    <3> QED
      BY <3>1, <3>2, <2>11, <2>12, <2>13 DEF UserIsTheDocuments
<1> QED
  BY <1>1, UsersRunTheirScripts, PTL

-----------------------------------------------------------------------------
(* AlertEngine.                                                            *)

EngineState == [active : SUBSET {rule.name : rule \in AlertRule}, alerts : Seq(AlertRule)]

AlertTypeOK ==
  /\ rules \in Seq(AlertRule)
  /\ dedup \in BOOLEAN
  /\ active \subseteq {rule.name : rule \in AlertRule}
  /\ alerts \in Seq(AlertRule)
  /\ due \in Seq(AlertRule)

(* With dedup, the names of the rules in breach are those that _active     *)
(* has.                                                                    *)
ActiveNamesBreached ==
  dedup => breached \subseteq ToSet(rules) /\ active = {rule.name : rule \in breached}

AlertInv ==
  /\ AlertTypeOK
  /\ UniqueNames => ActiveNamesBreached /\ alerts = due

(* What check should find to have come into breach.                        *)
Fires(rule, given) == Breached(rule, given) /\ ~(dedup /\ rule \in breached)

(* The two loops of check exist, and go through the rules one by one.      *)
LEMMA CheckUnfolds ==
  ASSUME AlertTypeOK, NEW given, Check(given)
  PROVE  \E upTo, dueTo :
           /\ upTo[0] = [active |-> active, alerts |-> alerts]
           /\ dueTo[0] = due
           /\ \A n \in 1 .. Len(rules) :
                /\ upTo[n - 1] \in EngineState
                /\ upTo[n] = CheckRule(upTo[n - 1], rules[n], given)
                /\ dueTo[n] = IF Fires(rules[n], given)
                              THEN Append(dueTo[n - 1], rules[n]) ELSE dueTo[n - 1]
           /\ upTo[Len(rules)] \in EngineState
           /\ dueTo[Len(rules)] \in Seq(AlertRule)
           /\ active' = upTo[Len(rules)].active
           /\ alerts' = upTo[Len(rules)].alerts
           /\ due' = dueTo[Len(rules)]
<1> DEFINE N == Len(rules)
           start == [active |-> active, alerts |-> alerts]
           Round(f, n) == IF n = 0 THEN start ELSE CheckRule(f[n - 1], rules[n], given)
           Loop(f) == f = [n \in 0 .. N |-> Round(f, n)]
           DueRound(f, n) == IF n = 0 THEN due
                             ELSE IF Fires(rules[n], given)
                             THEN Append(f[n - 1], rules[n]) ELSE f[n - 1]
           DueLoop(f) == f = [n \in 0 .. N |-> DueRound(f, n)]
<1>1. N \in Nat /\ \A n \in 1 .. N : rules[n] \in AlertRule
  BY DEF AlertTypeOK
<1>2. PICK upTo \in [0 .. N -> EngineState] : Loop(upTo)
  <2> DEFINE step == [p \in (1 .. N) \X EngineState |-> CheckRule(p[2], rules[p[1]], given)]
  <2>1. start \in EngineState
    BY DEF AlertTypeOK, EngineState
  <2>2. ASSUME NEW state \in EngineState, NEW rule \in AlertRule
        PROVE  CheckRule(state, rule, given) \in EngineState
    BY DEF EngineState, CheckRule
  <2>3. IsStep(step, N, EngineState)
    BY <1>1, <2>2 DEF IsStep
  <2> HIDE DEF step, start, N
  <2>4. PICK f : Unfolds(f, N, EngineState, start, step)
    BY <1>1, <2>1, <2>3, RecursionHasSolution
  <2>5. ASSUME NEW n \in 1 .. N
        PROVE  step[<<n, f[n - 1]>>] = CheckRule(f[n - 1], rules[n], given)
    BY <1>1, <2>4 DEF step, Unfolds
  <2>6. ASSUME NEW n \in 0 .. N PROVE f[n] = Round(f, n)
    <3>1. CASE n = 0
      BY <2>4, <3>1 DEF Unfolds
    <3>2. CASE n # 0
      <4>1. n \in 1 .. N
        BY <1>1, <3>2
      <4>2. f[n] = step[<<n, f[n - 1]>>]
        BY <2>4, <4>1 DEF Unfolds
      <4> QED
        BY <2>5, <3>2, <4>1, <4>2
    <3> QED
      BY <3>1, <3>2
  <2> HIDE DEF Round
  <2>7. f \in [0 .. N -> EngineState] /\ Loop(f)
    BY <2>4, <2>6 DEF Unfolds
  <2> HIDE DEF Loop
  <2> QED
    BY <2>7
<1>3. PICK dueTo \in [0 .. N -> Seq(AlertRule)] : DueLoop(dueTo)
  <2> DEFINE step == [p \in (1 .. N) \X Seq(AlertRule) |->
                        IF Fires(rules[p[1]], given) THEN Append(p[2], rules[p[1]])
                        ELSE p[2]]
  <2>1. due \in Seq(AlertRule)
    BY DEF AlertTypeOK
  <2>2. IsStep(step, N, Seq(AlertRule))
    BY <1>1 DEF IsStep
  <2> HIDE DEF step, N
  <2>3. PICK f : Unfolds(f, N, Seq(AlertRule), due, step)
    BY <1>1, <2>1, <2>2, RecursionHasSolution
  <2>4. ASSUME NEW n \in 1 .. N
        PROVE  step[<<n, f[n - 1]>>] = IF Fires(rules[n], given)
                                       THEN Append(f[n - 1], rules[n]) ELSE f[n - 1]
    BY <1>1, <2>3 DEF step, Unfolds
  <2>5. ASSUME NEW n \in 0 .. N PROVE f[n] = DueRound(f, n)
    <3>1. CASE n = 0
      BY <2>3, <3>1 DEF Unfolds
    <3>2. CASE n # 0
      <4>1. n \in 1 .. N
        BY <1>1, <3>2
      <4>2. f[n] = step[<<n, f[n - 1]>>]
        BY <2>3, <4>1 DEF Unfolds
      <4> QED
        BY <2>4, <3>2, <4>1, <4>2
    <3> QED
      BY <3>1, <3>2
  <2> HIDE DEF DueRound
  <2>6. f \in [0 .. N -> Seq(AlertRule)] /\ DueLoop(f)
    BY <2>3, <2>5 DEF Unfolds
  <2> HIDE DEF DueLoop
  <2> QED
    BY <2>6
<1>4. PICK h : Loop(h) /\ active' = h[N].active /\ alerts' = h[N].alerts
  BY <1>2 DEF Check
<1>5. PICK d : DueLoop(d) /\ due' = d[N]
  BY <1>3 DEF Check, Fires
<1> HIDE DEF N, start
<1>6. h[0] = start /\ \A n \in 1 .. N : h[n] = CheckRule(h[n - 1], rules[n], given)
  BY <1>1, <1>4
<1>7. \A n \in 0 .. N : h[n] \in EngineState
  <2> DEFINE T == {n \in 0 .. N : h[n] \in EngineState}
  <2>1. start \in EngineState
    BY DEF start, AlertTypeOK, EngineState
  <2>2. ASSUME NEW n \in 1 .. N, h[n - 1] \in EngineState PROVE h[n] \in EngineState
    <3>1. h[n] = CheckRule(h[n - 1], rules[n], given) /\ rules[n] \in AlertRule
      BY <1>1, <1>6
    <3> QED
      BY <2>2, <3>1 DEF EngineState, CheckRule
  <2>3. 0 \in T /\ \A n \in 1 .. N : n - 1 \in T => n \in T
    BY <1>1, <1>6, <2>1, <2>2
  <2> HIDE DEF T
  <2>4. 0 .. N \subseteq T
    BY <1>1, <2>3, UpwardInduction
  <2> QED
    BY <2>4 DEF T
<1>8. /\ d[0] = due
      /\ \A n \in 1 .. N : d[n] = IF Fires(rules[n], given)
                                THEN Append(d[n - 1], rules[n]) ELSE d[n - 1]
  <2>1. \A n \in 0 .. N : d[n] = DueRound(d, n)
    <3> HIDE DEF DueRound
    <3> QED
      BY <1>5
  <2> QED
    BY <1>1, <2>1
<1>9. \A n \in 0 .. N : d[n] \in Seq(AlertRule)
  <2> DEFINE T == {n \in 0 .. N : d[n] \in Seq(AlertRule)}
  <2>1. due \in Seq(AlertRule)
    BY DEF AlertTypeOK
  <2>2. ASSUME NEW n \in 1 .. N, d[n - 1] \in Seq(AlertRule) PROVE d[n] \in Seq(AlertRule)
    <3>1. rules[n] \in AlertRule /\ (d[n] = d[n - 1] \/ d[n] = Append(d[n - 1], rules[n]))
      BY <1>1, <1>8
    <3>2. Append(d[n - 1], rules[n]) \in Seq(AlertRule)
      BY <2>2, <3>1
    <3> QED
      BY <2>2, <3>1, <3>2
  <2>3. 0 \in T /\ \A n \in 1 .. N : n - 1 \in T => n \in T
    BY <1>1, <1>8, <2>1, <2>2
  <2> HIDE DEF T
  <2>4. 0 .. N \subseteq T
    BY <1>1, <2>3, UpwardInduction
  <2> QED
    BY <2>4 DEF T
<1>10. /\ \A n \in 1 .. N : h[n - 1] \in EngineState
       /\ h[N] \in EngineState /\ d[N] \in Seq(AlertRule)
  BY <1>1, <1>7, <1>9
<1> HIDE DEF Loop, DueLoop
<1> QED
  BY <1>4, <1>5, <1>6, <1>8, <1>10 DEF N, start

(* Round n of the loops leaves in _active the names of the rules that are  *)
(* in breach, by this check up to rule n and by the last one behind it.    *)
LEMMA CheckKeepsAlerts ==
  ASSUME AlertInv, NEW given, Check(given)
  PROVE  AlertInv'
<1> USE DEF AlertInv
<1> DEFINE N == Len(rules)
           InBreach(n, i) == IF i <= n THEN Breached(rules[i], given) ELSE rules[i] \in breached
<1>1. PICK upTo, dueTo :
           /\ upTo[0] = [active |-> active, alerts |-> alerts]
           /\ dueTo[0] = due
           /\ \A n \in 1 .. N :
                /\ upTo[n - 1] \in EngineState
                /\ upTo[n] = CheckRule(upTo[n - 1], rules[n], given)
                /\ dueTo[n] = IF Fires(rules[n], given)
                              THEN Append(dueTo[n - 1], rules[n]) ELSE dueTo[n - 1]
           /\ upTo[N] \in EngineState
           /\ dueTo[N] \in Seq(AlertRule)
           /\ active' = upTo[N].active
           /\ alerts' = upTo[N].alerts
           /\ due' = dueTo[N]
  BY CheckUnfolds
<1>2. /\ UNCHANGED <<rules, dedup>>
      /\ dedup => breached' = {rule \in ToSet(rules) : Breached(rule, given)}
  BY DEF Check
<1>3. AlertTypeOK'
  BY <1>1, <1>2 DEF AlertTypeOK, EngineState
<1>4. N \in Nat /\ ToSet(rules) = {rules[i] : i \in 1 .. N}
  BY DEF AlertTypeOK, ToSet
<1>5. ASSUME UniqueNames
      PROVE  ActiveNamesBreached' /\ alerts' = due'
  <2> DEFINE Agree(n) ==
        /\ upTo[n].alerts = dueTo[n]
        /\ dedup => upTo[n].active = {rules[i].name : i \in {i \in 1 .. N : InBreach(n, i)}}
  <2>1. Agree(0)
    <3>1. dedup => breached = {rules[i] : i \in {i \in 1 .. N : rules[i] \in breached}}
      BY <1>4, <1>5 DEF ActiveNamesBreached
    <3>2. \A i \in 1 .. N : InBreach(0, i) <=> rules[i] \in breached
      OBVIOUS
    <3>3. dedup => active = {rules[i].name : i \in {i \in 1 .. N : InBreach(0, i)}}
      BY <1>5, <3>1, <3>2 DEF ActiveNamesBreached
    <3> HIDE DEF InBreach
    <3> QED
      BY <1>1, <1>5, <3>3
  <2>2. ASSUME NEW n \in 1 .. N, Agree(n - 1) PROVE Agree(n)
    <3> DEFINE before == upTo[n - 1]
               rule == rules[n]
    <3>1. \A i \in 1 .. N : rules[i].name = rule.name => i = n
      BY <1>4, <1>5 DEF UniqueNames, AlertTypeOK
    <3>2. \A i \in 1 .. N : i # n => (InBreach(n, i) <=> InBreach(n - 1, i))
      OBVIOUS
    <3>3. /\ InBreach(n, n) <=> Breached(rule, given)
          /\ InBreach(n - 1, n) <=> rule \in breached
      OBVIOUS
    <3>4. before \in EngineState /\ upTo[n] = CheckRule(before, rule, given)
      BY <1>1
    <3>5. dedup => (rule.name \in before.active <=> rule \in breached)
      <4> HIDE DEF InBreach
      <4> QED
        BY <2>2, <3>1, <3>3
    <3> HIDE DEF InBreach
    <3>6. dedup => /\ Breached(rule, given) => upTo[n].active = before.active \cup {rule.name}
                   /\ ~Breached(rule, given) => upTo[n].active = before.active \ {rule.name}
      BY <3>4 DEF CheckRule, EngineState
    <3>7. dedup => upTo[n].active = {rules[i].name : i \in {i \in 1 .. N : InBreach(n, i)}}
      BY <2>2, <3>1, <3>2, <3>3, <3>6
    <3>8. upTo[n].alerts = IF Fires(rule, given) THEN Append(before.alerts, rule)
                           ELSE before.alerts
      BY <3>4, <3>5 DEF CheckRule, EngineState, Fires
    <3> QED
      BY <1>1, <2>2, <3>7, <3>8
  <2>3. Agree(N)
    <3> DEFINE T == {n \in 0 .. N : Agree(n)}
    <3> HIDE DEF Agree
    <3>1. 0 \in T /\ \A n \in 1 .. N : n - 1 \in T => n \in T
      BY <1>4, <2>1, <2>2
    <3> HIDE DEF T
    <3>2. 0 .. N \subseteq T
      BY <1>4, <3>1, UpwardInduction
    <3> QED
      BY <1>4, <3>2 DEF T
  <2>4. \A i \in 1 .. N : InBreach(N, i) <=> Breached(rules[i], given)
    BY <1>4
  <2>5. dedup => active' = {rule.name : rule \in breached'}
    <3> HIDE DEF InBreach
    <3> QED
      BY <1>1, <1>2, <1>4, <2>3, <2>4
  <2> QED
    BY <1>1, <1>2, <2>3, <2>5 DEF ActiveNamesBreached
<1>6. UniqueNames' => UniqueNames
  BY <1>2 DEF UniqueNames
<1> QED
  BY <1>3, <1>5, <1>6

(* While a test is monitored, the alerts since the last clear are the      *)
(* breaches found by the checks, in order; with dedup only the first of    *)
(* every stretch of checks in breach.                                      *)
THEOREM AlertsAreBreaches == Spec => []AlertsMatchBreaches
<1>1. Init => AlertInv
  <2> SUFFICES ASSUME Init PROVE AlertInv
    OBVIOUS
  <2>1. rules \in Seq(AlertRule)
    BY RuleAssumption DEF Init, AlertInit
  <2> QED
    BY <2>1 DEF Init, AlertInit, AlertInv, AlertTypeOK, ActiveNamesBreached
<1>2. AlertInv /\ [Next]_vars => AlertInv'
  <2> SUFFICES ASSUME AlertInv, [Next]_vars PROVE AlertInv'
    OBVIOUS
  <2>1. CASE UNCHANGED alertVars
    BY <2>1 DEF alertVars, AlertInv, AlertTypeOK, ActiveNamesBreached, UniqueNames
  <2>2. ASSUME NEW given, Check(given) PROVE AlertInv'
    BY <2>2, CheckKeepsAlerts
  <2>3. ASSUME NEW rule \in MoreRules, AddRule(rule) PROVE AlertInv'
    <3>1. rule \in AlertRule /\ rules \in Seq(AlertRule)
      BY DEF AlertRule, AlertInv, AlertTypeOK
    <3>2. /\ rules' = Append(rules, rule)
          /\ UNCHANGED <<dedup, active, alerts, breached, due>>
      BY <2>3 DEF AddRule
    <3>3. /\ rules' \in Seq(AlertRule)
          /\ \A i \in DOMAIN rules : i \in DOMAIN rules' /\ rules'[i] = rules[i]
      BY <3>1, <3>2
    <3>4. ToSet(rules) \subseteq ToSet(rules')
      BY <3>3 DEF ToSet
    <3>5. UniqueNames' => UniqueNames
      BY <3>3 DEF UniqueNames
    <3>6. AlertTypeOK'
      BY <3>2, <3>3 DEF AlertInv, AlertTypeOK
    <3> QED
      BY <3>2, <3>4, <3>5, <3>6 DEF AlertInv, ActiveNamesBreached
  <2>4. CASE ClearAlerts
    BY <2>4 DEF ClearAlerts, AlertInv, AlertTypeOK, ActiveNamesBreached, UniqueNames
  <2>5. CASE UNCHANGED vars
    BY <2>1, <2>5 DEF vars
  <2>6. CASE Next
    <3>1. ASSUME NEW keys, CheckLatest(keys) PROVE AlertInv'
      BY <2>2, <3>1 DEF CheckLatest
    <3>2. ASSUME NEW rule \in MoreRules, AddAlertRule(rule) PROVE AlertInv'
      BY <2>3, <3>2 DEF AddAlertRule
    <3>3. CASE ClearAllAlerts
      BY <2>4, <3>3 DEF ClearAllAlerts
    <3>4. ASSUME NEW e, NEW request_, UserRecords(e, request_) PROVE AlertInv'
      BY <2>1, <3>4 DEF UserRecords
    <3>5. ASSUME NEW e, TakePercentile(e) PROVE AlertInv'
      BY <2>1, <3>5 DEF TakePercentile
    <3>6. ASSUME NEW point, RecordGiven(point) PROVE AlertInv'
      BY <2>1, <3>6 DEF RecordGiven
    <3>7. CASE ResetMetrics \/ TakeSummary \/ TakePoint \/ ClearHistory
      BY <2>1, <3>7 DEF ResetMetrics, TakeSummary, TakePoint, ClearHistory
    <3> QED
      BY <2>6, <3>1, <3>2, <3>3, <3>4, <3>5, <3>6, <3>7 DEF Next
  <2> QED
    BY <2>5, <2>6
<1>3. AlertInv => AlertsMatchBreaches
  BY DEF AlertInv, AlertsMatchBreaches
<1> QED
  BY <1>1, <1>2, <1>3, PTL DEF Spec

-----------------------------------------------------------------------------
(* MetricsCollector and LiveMonitor.                                       *)

Records == Seq([time : Nat, success : BOOLEAN])

(* The order of sorted: place i has the record order[i].                   *)
IsSorting(order, records) ==
  /\ order \in Bijection(DOMAIN records, DOMAIN records)
  /\ \A i, j \in DOMAIN records :
       i < j => records[order[i]].time <= records[order[j]].time

LEMMA RecordsAreTimed ==
  ASSUME NEW records \in Records
  PROVE  /\ Len(records) \in Nat /\ DOMAIN records = 1 .. Len(records)
         /\ \A i \in 1 .. Len(records) : records[i].time \in Nat
<1> DEFINE Type == [time : Nat, success : BOOLEAN]
<1>1. records \in Seq(Type)
  BY DEF Records
<1> HIDE DEF Type
<1>2. \A i \in 1 .. Len(records) : records[i] \in Type
  BY <1>1
<1> QED
  BY <1>1, <1>2 DEF Type

LEMMA SortingExists ==
  ASSUME NEW records \in Records
  PROVE  \E order : IsSorting(order, records)
<1> DEFINE n == Len(records)
           weight == [i \in 1 .. n |-> records[i].time]
<1>1. n \in Nat /\ DOMAIN records = 1 .. n /\ \A i \in 1 .. n : records[i].time \in Nat
  BY RecordsAreTimed
<1> HIDE DEF n
<1>2. IsFiniteSet(1 .. n) /\ Cardinality(1 .. n) = n
  <2>1. Cardinality(1 .. n) = IF 1 > n THEN 0 ELSE n - 1 + 1
    BY <1>1, FS_Interval
  <2> QED
    BY <1>1, <2>1, FS_Interval
<1>3. \A i \in 1 .. n : weight[i] \in Nat
  BY <1>1
<1>4. PICK list : IsDescending(list, n, 1 .. n, weight)
  <2> HIDE DEF weight
  <2> QED
    BY <1>2, <1>3, DescendingListExists
<1> DEFINE order == [i \in 1 .. n |-> list[n + 1 - i]]
<1>5. order \in [1 .. n -> 1 .. n] /\ \A i \in 1 .. n : order[i] = list[n + 1 - i]
  BY <1>1, <1>4 DEF IsDescending
<1> HIDE DEF order
<1>6. order \in Injection(1 .. n, 1 .. n)
  <2>1. ASSUME NEW i \in 1 .. n, NEW j \in 1 .. n, order[i] = order[j] PROVE i = j
    <3>1. n + 1 - i \in 1 .. n /\ n + 1 - j \in 1 .. n
      BY <1>1
    <3>2. n + 1 - i = n + 1 - j
      BY <1>4, <1>5, <2>1, <3>1 DEF IsDescending, IsInjective
    <3> QED
      BY <1>1, <3>2
  <2> QED
    BY <1>5, <2>1 DEF Injection, IsInjective
<1>7. order \in Bijection(1 .. n, 1 .. n)
  BY <1>2, <1>6, FS_Injection DEF Bijection
<1>8. ASSUME NEW i \in 1 .. n, NEW j \in 1 .. n, i < j
      PROVE  records[order[i]].time <= records[order[j]].time
  <2>1. n + 1 - i \in 1 .. n /\ n + 1 - j \in 1 .. n /\ n + 1 - j < n + 1 - i
    BY <1>1, <1>8
  <2>2. weight[list[n + 1 - j]] >= weight[list[n + 1 - i]]
    BY <1>4, <2>1 DEF IsDescending
  <2>3. list[n + 1 - i] \in 1 .. n /\ list[n + 1 - j] \in 1 .. n
    BY <1>4, <2>1 DEF IsDescending
  <2> QED
    BY <1>1, <1>5, <2>2, <2>3
<1> QED
  BY <1>1, <1>7, <1>8 DEF IsSorting

(* The sorted times, and where each comes from.                            *)
LEMMA TimesAreSorted ==
  ASSUME NEW records \in Records
  PROVE  \E order : /\ IsSorting(order, records)
                    /\ SortedTimes(records)
                         = [i \in DOMAIN records |-> records[order[i]].time]
<1> DEFINE Good(o) == \A i, j \in DOMAIN records :
                        i < j => records[o[i]].time <= records[o[j]].time
           order == CHOOSE o \in Bijection(DOMAIN records, DOMAIN records) : Good(o)
<1>1. \E o \in Bijection(DOMAIN records, DOMAIN records) : Good(o)
  BY SortingExists DEF IsSorting
<1>2. order \in Bijection(DOMAIN records, DOMAIN records) /\ Good(order)
  <2> HIDE DEF Good
  <2> QED
    BY <1>1
<1>3. IsSorting(order, records)
  BY <1>2 DEF IsSorting
<1>4. SortedTimes(records) = [i \in DOMAIN records |-> records[order[i]].time]
  BY DEF SortedTimes
<1> QED
  BY <1>3, <1>4

(* The time at place k + 1 is the one of rank k, by counting.              *)
LEMMA SortedByRank ==
  ASSUME NEW records \in Records, NEW k \in 0 .. Len(records) - 1
  PROVE  /\ SortedTimes(records)[k + 1] \in Nat
         /\ SortedTimes(records)[k + 1] = OfRank(records, k)
<1> DEFINE n == Len(records)
<1>1. n \in Nat /\ DOMAIN records = 1 .. n /\ \A i \in 1 .. n : records[i].time \in Nat
  BY RecordsAreTimed
<1>2. PICK order : /\ IsSorting(order, records)
                   /\ SortedTimes(records)
                        = [i \in DOMAIN records |-> records[order[i]].time]
  BY TimesAreSorted
<1> HIDE DEF n
<1>n. k \in Nat /\ k + 1 \in 1 .. n
  BY <1>1 DEF n
<1>3. /\ order \in [1 .. n -> 1 .. n]
      /\ \A i, j \in 1 .. n : order[i] = order[j] => i = j
      /\ \A i \in 1 .. n : \E j \in 1 .. n : order[j] = i
      /\ \A i, j \in 1 .. n : i < j => records[order[i]].time <= records[order[j]].time
  BY <1>1, <1>2 DEF IsSorting, Bijection, Injection, Surjection, IsInjective
<1> DEFINE sorted == [i \in 1 .. n |-> records[order[i]].time]
<1>4. /\ \A i \in 1 .. n : sorted[i] = records[order[i]].time /\ sorted[i] \in Nat
      /\ \A i, j \in 1 .. n : i < j => sorted[i] <= sorted[j]
  BY <1>1, <1>3
<1>5. SortedTimes(records) = sorted
  BY <1>1, <1>2
<1> HIDE DEF sorted
<1>10. PICK t \in Nat : t = sorted[k + 1]
  BY <1>4, <1>n
<1> DEFINE Upto(s) == {i \in 1 .. n : records[i].time <= s}
<1>6. \A s : /\ IsFiniteSet(Upto(s)) /\ Cardinality(Upto(s)) \in Nat
             /\ AtMost(records, s) = Cardinality(Upto(s))
  <2> SUFFICES ASSUME NEW s
               PROVE  /\ IsFiniteSet(Upto(s)) /\ Cardinality(Upto(s)) \in Nat
                      /\ AtMost(records, s) = Cardinality(Upto(s))
    OBVIOUS
  <2>1. IsFiniteSet(1 .. n)
    BY <1>1, FS_Interval
  <2>2. IsFiniteSet(Upto(s))
    BY <2>1, FS_Subset
  <2> QED
    BY <1>1, <2>2, FS_CardinalityType DEF AtMost
(* The first k + 1 places have times up to t.                              *)
<1>7. AtMost(records, t) > k
  <2> DEFINE front == [j \in 1 .. k + 1 |-> order[j]]
             Taken == {order[j] : j \in 1 .. k + 1}
  <2>1. 1 .. k + 1 \subseteq 1 .. n
    BY <1>1, <1>n
  <2>2. front \in Bijection(1 .. k + 1, Taken)
    BY <1>3, <2>1 DEF Bijection, Injection, Surjection, IsInjective
  <2>3. IsFiniteSet(1 .. k + 1) /\ Cardinality(1 .. k + 1) = k + 1
    <3>1. Cardinality(1 .. k + 1) = IF 1 > k + 1 THEN 0 ELSE k + 1 - 1 + 1
      BY <1>n, FS_Interval
    <3> QED
      BY <1>n, <3>1, FS_Interval
  <2>4. Cardinality(Taken) = k + 1
    <3> HIDE DEF front, Taken
    <3>1. ExistsBijection(1 .. k + 1, Taken)
      BY <2>2 DEF ExistsBijection
    <3> QED
      BY <2>3, <3>1, FS_Bijection
  <2>5. Taken \subseteq Upto(t)
    <3> SUFFICES ASSUME NEW j \in 1 .. k + 1 PROVE order[j] \in Upto(t)
      OBVIOUS
    <3>1. j \in 1 .. n /\ order[j] \in 1 .. n
      BY <1>3, <2>1
    <3>2. j = k + 1 \/ j < k + 1
      BY <1>n
    <3>3. sorted[j] <= t
      BY <1>4, <1>10, <1>n, <3>1, <3>2
    <3> QED
      BY <1>4, <3>1, <3>3
  <2>6. Cardinality(Taken) <= Cardinality(Upto(t))
    <3> HIDE DEF Taken, Upto
    <3> QED
      BY <1>6, <2>5, FS_Subset
  <2> HIDE DEF Taken, Upto
  <2> QED
    BY <1>6, <1>n, <2>4, <2>6
(* An earlier time has at most the first k.                                *)
<1>8. ASSUME NEW s \in Nat, s < t PROVE ~(AtMost(records, s) > k)
  <2> DEFINE Taken == {order[j] : j \in 1 .. k}
             front == [j \in 1 .. k |-> order[j]]
  <2>1. front \in Surjection(1 .. k, Taken)
    BY DEF Surjection
  <2>2. IsFiniteSet(1 .. k) /\ Cardinality(1 .. k) = k
    <3>1. Cardinality(1 .. k) = IF 1 > k THEN 0 ELSE k - 1 + 1
      BY <1>n, FS_Interval
    <3> QED
      BY <1>n, <3>1, FS_Interval
  <2>3. IsFiniteSet(Taken) /\ Cardinality(Taken) \in Nat /\ Cardinality(Taken) <= k
    <3> HIDE DEF front, Taken
    <3> QED
      BY <2>1, <2>2, FS_Surjection, FS_CardinalityType
  <2>4. Upto(s) \subseteq Taken
    <3> SUFFICES ASSUME NEW i \in Upto(s) PROVE i \in Taken
      OBVIOUS
    <3>1. PICK j \in 1 .. n : order[j] = i
      BY <1>3
    <3>2. j = k + 1 \/ j > k + 1 => sorted[j] >= t
      BY <1>4, <1>10, <1>n
    <3>3. sorted[j] <= s /\ sorted[j] \in Nat
      BY <1>4, <3>1
    <3>4. j \in 1 .. k
      BY <1>1, <1>8, <1>n, <3>2, <3>3
    <3> QED
      BY <3>1, <3>4
  <2>5. Cardinality(Upto(s)) <= Cardinality(Taken)
    <3> HIDE DEF Taken, Upto
    <3> QED
      BY <2>3, <2>4, FS_Subset
  <2> HIDE DEF Taken, Upto
  <2> QED
    BY <1>6, <1>n, <2>3, <2>5
<1>9. OfRank(records, k) = t
  <2> DEFINE S == {r.time : r \in {r \in ToSet(records) : AtMost(records, r.time) > k}}
  <2>1. t \in S
    <3>1. order[k + 1] \in DOMAIN records
      BY <1>1, <1>3, <1>n
    <3> QED
      BY <1>4, <1>7, <1>10, <1>n, <3>1 DEF ToSet
  <2>2. ASSUME NEW s \in S PROVE s \in Nat /\ t <= s
    <3>1. PICK i \in DOMAIN records : s = records[i].time /\ AtMost(records, s) > k
      BY DEF ToSet
    <3>2. s \in Nat
      BY <1>1, <3>1
    <3> QED
      BY <1>8, <3>1, <3>2
  <2> HIDE DEF S
  <2>3. \A x \in S : (\A y \in S : x <= y) => x = t
    BY <2>1, <2>2
  <2>4. Min(S) = t
    BY <2>1, <2>2, <2>3 DEF Min
  <2> QED
    BY <2>4 DEF OfRank, S
<1> QED
  BY <1>5, <1>9, <1>10

(* get_percentile is the 95th percentile.                                  *)
LEMMA PercentileIsP95 ==
  ASSUME NEW records \in Records, records # <<>>
  PROVE  Percentile(records, 95) \in Nat /\ Percentile(records, 95) = P95(records)
<1> DEFINE n == Len(records)
           k == 95 * (n - 1)
           f == k \div 100
           times == SortedTimes(records)
<1>1. n \in Nat \ {0} /\ DOMAIN records = 1 .. n
  BY RecordsAreTimed DEF Records
<1> HIDE DEF n
<1>2. /\ k \in Nat /\ f \in 0 .. n - 1 /\ k % 100 \in 0 .. 99
      /\ f + 1 >= n => n = 1 /\ f = 0 /\ k = 0
      /\ k % 100 # 0 => f + 1 \in 0 .. n - 1
  <2>1. k \in Nat /\ f \in Nat /\ k % 100 \in 0 .. 99 /\ k = 100 * f + (k % 100)
    BY <1>1
  <2> QED
    BY <1>1, <2>1
<1>3. times \in [1 .. n -> Nat]
  <2>1. PICK order : /\ IsSorting(order, records)
                     /\ times = [i \in DOMAIN records |-> records[order[i]].time]
    BY TimesAreSorted
  <2>2. order \in [1 .. n -> 1 .. n]
    BY <1>1, <2>1 DEF IsSorting, Bijection, Injection
  <2> QED
    BY <1>1, <2>1, <2>2, RecordsAreTimed
<1>4. times[f + 1] = OfRank(records, f) /\ times[f + 1] \in Nat
  BY <1>2, SortedByRank DEF n
<1>5. k % 100 # 0 => times[f + 2] = OfRank(records, f + 1) /\ times[f + 2] \in Nat
  <2> SUFFICES ASSUME k % 100 # 0
               PROVE  times[f + 2] = OfRank(records, f + 1) /\ times[f + 2] \in Nat
    OBVIOUS
  <2>1. (f + 1) + 1 = f + 2 /\ f + 1 \in 0 .. Len(records) - 1
    BY <1>1, <1>2 DEF n
  <2> HIDE DEF f, k, times
  <2> QED
    BY <2>1, SortedByRank DEF times
<1>6. Len(times) = n
  BY <1>1, <1>3
<1>7. Percentile(records, 95) = IF f + 1 >= n THEN 100 * times[n]
        ELSE 100 * times[f + 1] + (k % 100) * (times[f + 2] - times[f + 1])
  BY <1>1, <1>6 DEF Percentile, n
<1>8. P95(records) = LET below == OfRank(records, f)
                         above == IF k % 100 = 0 THEN below ELSE OfRank(records, f + 1)
                     IN  100 * below + (k % 100) * (above - below)
  BY DEF P95, n
(* Interpolation between two places of the list does not leave Nat.        *)
<1>9. k % 100 # 0 => times[f + 1] <= times[f + 2]
  <2>1. PICK order : /\ IsSorting(order, records)
                     /\ times = [i \in DOMAIN records |-> records[order[i]].time]
    BY TimesAreSorted
  <2>2. f + 1 < f + 2 /\ (k % 100 # 0 => f + 1 \in 1 .. n /\ f + 2 \in 1 .. n)
    BY <1>1, <1>2
  <2> HIDE DEF f, k, times
  <2> QED
    BY <1>1, <2>1, <2>2 DEF IsSorting
<1> HIDE DEF f, times
<1>10. CASE k % 100 = 0
  <2>1. P95(records) = 100 * times[f + 1]
    BY <1>4, <1>8, <1>10
  <2>2. Percentile(records, 95) = 100 * times[f + 1]
    <3>1. CASE f + 1 >= n
      <4>1. n = f + 1
        BY <1>2, <3>1
      <4> QED
        BY <1>7, <3>1, <4>1
    <3>2. CASE ~(f + 1 >= n)
      <4>1. f + 2 \in 1 .. n /\ times[f + 2] \in Nat
        BY <1>1, <1>2, <1>3, <3>2
      <4>2. PICK d \in Int : d = times[f + 2] - times[f + 1]
        BY <1>4, <4>1
      <4> QED
        BY <1>4, <1>7, <1>10, <3>2, <4>2
    <3> QED
      BY <3>1, <3>2
  <2> QED
    BY <1>4, <2>1, <2>2
<1>11. CASE k % 100 # 0
  <2>1. ~(f + 1 >= n)
    BY <1>2, <1>11
  <2> DEFINE given == 100 * times[f + 1] + (k % 100) * (times[f + 2] - times[f + 1])
  <2>2. Percentile(records, 95) = given /\ P95(records) = given
    BY <1>4, <1>5, <1>7, <1>8, <1>11, <2>1
  <2>3. given \in Nat
    <3>1. PICK x, y, z : x = times[f + 1] /\ y = times[f + 2] /\ z = k % 100
      OBVIOUS
    <3>2. x \in Nat /\ y \in Nat /\ z \in Nat /\ x <= y
      BY <1>2, <1>4, <1>5, <1>9, <1>11, <3>1
    <3>3. y - x \in Nat /\ z * (y - x) \in Nat
      BY <3>2
    <3> QED
      BY <3>1, <3>2, <3>3
  <2> QED
    BY <2>2, <2>3
<1> QED
  BY <1>10, <1>11

(* The 95th percentiles of the states of an endpoint since it had a number *)
(* of records.                                                             *)
SeenOf(records, count) == {P95(SubSeq(records, 1, n)) : n \in count .. Len(records)}

LEMMA SeenGrows ==
  ASSUME NEW records \in Records, NEW count \in Nat, NEW request_ \in Request
  PROVE  /\ Append(records, request_) \in Records
         /\ SeenOf(records, count) \subseteq SeenOf(Append(records, request_), count)
<1> DEFINE Type == [time : Nat, success : BOOLEAN]
<1>1. records \in Seq(Type) /\ request_ \in Type
  BY CollectorAssumption DEF Records
<1>2. PICK longer : longer = Append(records, request_)
  OBVIOUS
<1> HIDE DEF Type
<1>3. longer \in Seq(Type) /\ Len(longer) = Len(records) + 1 /\ Len(records) \in Nat
  BY <1>1, <1>2
<1>4. ASSUME NEW n \in count .. Len(records)
      PROVE  P95(SubSeq(records, 1, n)) \in SeenOf(longer, count)
  <2>1. n \in count .. Len(longer)
    BY <1>3
  <2>2. SubSeq(longer, 1, n) = SubSeq(records, 1, n)
    BY <1>1, <1>2, <1>3
  <2> QED
    BY <2>1, <2>2 DEF SeenOf
<1> QED
  BY <1>2, <1>3, <1>4 DEF SeenOf, Records, Type

LEMMA PercentileIsSeen ==
  ASSUME NEW records \in Records, NEW count \in 1 .. Len(records)
  PROVE  Percentile(records, 95) \in SeenOf(records, count) \cap Nat
<1> DEFINE Type == [time : Nat, success : BOOLEAN]
<1>1. records \in Seq(Type) /\ Len(records) \in Nat
  BY DEF Records
<1>2. records # <<>> /\ Len(records) \in count .. Len(records)
  BY <1>1
<1> HIDE DEF Type
<1>3. SubSeq(records, 1, Len(records)) = records
  BY <1>1
<1>4. P95(records) \in SeenOf(records, count)
  BY <1>2, <1>3 DEF SeenOf
<1> QED
  BY <1>2, <1>4, PercentileIsP95

LEMMA SeenAreNumbers ==
  ASSUME NEW records \in Records, NEW count \in 1 .. Len(records)
  PROVE  SeenOf(records, count) \subseteq Nat
<1> DEFINE Type == [time : Nat, success : BOOLEAN]
<1>1. records \in Seq(Type) /\ Len(records) \in Nat
  BY DEF Records
<1> HIDE DEF Type
<1>2. ASSUME NEW n \in count .. Len(records) PROVE P95(SubSeq(records, 1, n)) \in Nat
  <2>1. PICK begin : begin = SubSeq(records, 1, n)
    OBVIOUS
  <2>2. begin \in Seq(Type) /\ begin # <<>>
    BY <1>1, <2>1
  <2>3. begin \in Records
    BY <2>2 DEF Records, Type
  <2> QED
    BY <2>1, <2>2, <2>3, PercentileIsP95
<1> QED
  BY <1>2 DEF SeenOf

(* While record_from_collector is under way and not disturbed by a reset,  *)
(* its p95 is the greatest of the percentiles of the endpoints it is done  *)
(* with, each of a state after the summary.                                *)
TakingInv ==
  LET counted_ == taking.summary
      done == DOMAIN counted_ \ taking.left
      seen(e) == SeenOf(metrics[e], counted_[e].count)
  IN  /\ taking = [summary |-> counted_, left |-> taking.left, p95 |-> taking.p95]
      /\ DOMAIN counted_ \subseteq Endpoint /\ DOMAIN counted_ # {}
      /\ taking.left \subseteq DOMAIN counted_
      /\ \A e \in DOMAIN counted_ : counted_[e].count \in 1 .. Len(metrics[e])
      /\ taking.p95 \in Nat
      /\ \A e \in done : \E p \in seen(e) : p <= taking.p95
      /\ done = {} => taking.p95 = 0
      /\ done # {} => \E e \in done : taking.p95 \in seen(e)

PointInv ==
  /\ metrics \in [Endpoint -> Records]
  /\ taking # Nothing /\ undisturbed => TakingInv

(* A request that is recorded, to which nothing that was seen is lost.     *)
LEMMA RecordKeepsPoint ==
  ASSUME PointInv, NEW e \in Endpoint, NEW request_ \in Request, UserRecords(e, request_)
  PROVE  PointInv'
<1>1. /\ metrics' = [metrics EXCEPT ![e] = Append(@, request_)]
      /\ UNCHANGED <<taking, undisturbed>>
  BY DEF UserRecords, RecordRequest, monitorVars
<1>2. metrics' \in [Endpoint -> Records]
  BY <1>1, SeenGrows DEF PointInv
<1>3. ASSUME NEW d \in Endpoint, NEW count \in Nat
      PROVE  /\ SeenOf(metrics[d], count) \subseteq SeenOf(metrics'[d], count)
             /\ Len(metrics[d]) <= Len(metrics'[d])
             /\ Len(metrics[d]) \in Nat /\ Len(metrics'[d]) \in Nat
  <2>1. metrics[d] \in Records /\ metrics'[d] \in Records
    BY <1>2 DEF PointInv
  <2>2. Len(metrics[d]) \in Nat /\ Len(metrics'[d]) \in Nat
    BY <2>1, RecordsAreTimed
  <2>3. CASE d = e
    <3>1. metrics'[d] = Append(metrics[d], request_)
      BY <1>1, <2>3 DEF PointInv
    <3>2. Len(metrics'[d]) = Len(metrics[d]) + 1
      BY <2>1, <3>1 DEF Records
    <3> QED
      BY <2>1, <2>2, <3>1, <3>2, SeenGrows
  <2>4. CASE d # e
    <3>1. metrics'[d] = metrics[d]
      BY <1>1, <2>4 DEF PointInv
    <3> QED
      BY <2>2, <3>1
  <2> QED
    BY <2>3, <2>4
<1>4. ASSUME TakingInv PROVE TakingInv'
  <2>1. \A d \in DOMAIN taking.summary :
          /\ d \in Endpoint /\ taking.summary[d].count \in Nat
          /\ taking.summary[d].count \in 1 .. Len(metrics'[d])
          /\ SeenOf(metrics[d], taking.summary[d].count)
               \subseteq SeenOf(metrics'[d], taking.summary[d].count)
    <3> SUFFICES ASSUME NEW d \in DOMAIN taking.summary
                 PROVE  /\ d \in Endpoint /\ taking.summary[d].count \in Nat
                        /\ taking.summary[d].count \in 1 .. Len(metrics'[d])
                        /\ SeenOf(metrics[d], taking.summary[d].count)
                             \subseteq SeenOf(metrics'[d], taking.summary[d].count)
      OBVIOUS
    <3>1. d \in Endpoint /\ taking.summary[d].count \in 1 .. Len(metrics[d])
      BY <1>4 DEF TakingInv
    <3>2. PICK count : count = taking.summary[d].count
      OBVIOUS
    <3>3. count \in Nat /\ count \in 1 .. Len(metrics[d])
      BY <1>3, <3>1, <3>2
    <3> QED
      BY <1>3, <3>1, <3>2, <3>3
  <2> QED
    BY <1>1, <1>4, <2>1 DEF TakingInv
<1> QED
  BY <1>1, <1>2, <1>4 DEF PointInv

(* The percentile of one more endpoint.                                    *)
LEMMA PercentileKeepsPoint ==
  ASSUME PointInv, NEW e \in Endpoint, TakePercentile(e)
  PROVE  PointInv'
<1> DEFINE p == Percentile(metrics[e], 95)
<1>1. /\ taking # Nothing /\ e \in taking.left
      /\ taking' = [taking EXCEPT !.left = @ \ {e}, !.p95 = IF p > @ THEN p ELSE @]
      /\ UNCHANGED <<metrics, undisturbed>>
  BY DEF TakePercentile
<1> HIDE DEF p
<1>2. ASSUME TakingInv PROVE TakingInv'
  <2> DEFINE counted_ == taking.summary
             seen(d) == SeenOf(metrics[d], counted_[d].count)
             done == DOMAIN counted_ \ taking.left
             doneNow == DOMAIN counted_ \ (taking.left \ {e})
  <2>1. /\ taking'.summary = counted_
        /\ taking'.left = taking.left \ {e}
        /\ taking'.p95 = IF p > taking.p95 THEN p ELSE taking.p95
        /\ taking' = [summary |-> counted_, left |-> taking'.left, p95 |-> taking'.p95]
    BY <1>1, <1>2 DEF TakingInv
  <2>2. taking.p95 \in Nat
    BY <1>2 DEF TakingInv
  <2>3. e \in DOMAIN counted_
    BY <1>1, <1>2 DEF TakingInv
  <2>4. TakingInv'
    <3>1. p \in seen(e) /\ p \in Nat
      BY <1>2, <2>3, PercentileIsSeen DEF p, PointInv, TakingInv
    <3>2. doneNow = done \cup {e}
      BY <2>3
    <3>3. taking'.p95 \in Nat /\ taking'.p95 >= taking.p95 /\ taking'.p95 >= p
      BY <2>1, <2>2, <3>1
    <3>4. ASSUME NEW d \in doneNow PROVE \E q \in seen(d) : q <= taking'.p95
      <4>1. CASE d = e
        BY <3>1, <3>3, <4>1
      <4>2. CASE d \in done
        <5>1. PICK q \in seen(d) : q <= taking.p95
          BY <1>2, <4>2 DEF TakingInv
        <5>2. q \in Nat
          <6>1. /\ d \in Endpoint /\ metrics[d] \in Records
                /\ counted_[d].count \in 1 .. Len(metrics[d])
            BY <1>2, <4>2 DEF PointInv, TakingInv
          <6> QED
            BY <5>1, <6>1, SeenAreNumbers
        <5>3. q <= taking'.p95
          BY <2>2, <3>3, <5>1, <5>2
        <5> QED
          BY <5>1, <5>3
      <4> QED
        BY <3>2, <4>1, <4>2
    <3>5. \E d \in doneNow : taking'.p95 \in seen(d)
      <4>1. CASE taking'.p95 = p
        BY <3>1, <3>2, <4>1
      <4>2. CASE taking'.p95 # p
        <5>1. taking'.p95 = taking.p95 /\ taking.p95 # 0
          BY <2>1, <2>2, <3>1, <4>2
        <5>2. \E d \in done : taking.p95 \in seen(d)
          BY <1>2, <5>1 DEF TakingInv
        <5> QED
          BY <3>2, <5>1, <5>2
      <4> QED
        BY <4>1, <4>2
    <3> QED
      BY <1>1, <1>2, <2>1, <3>2, <3>3, <3>4, <3>5 DEF TakingInv
  <2> QED
    BY <2>4
<1> QED
  BY <1>1, <1>2 DEF PointInv

(* A summary: every endpoint in it has the records that it counts.         *)
LEMMA SummaryKeepsPoint ==
  ASSUME PointInv, TakeSummary
  PROVE  PointInv'
<1>1. UNCHANGED metrics /\ metrics \in [Endpoint -> Records]
  BY DEF TakeSummary, PointInv
<1>2. CASE DOMAIN Summary = {}
  BY <1>1, <1>2 DEF TakeSummary, PointInv
<1>3. CASE DOMAIN Summary # {}
  <2>1. taking' = [summary |-> Summary, left |-> DOMAIN Summary, p95 |-> 0]
    BY <1>3 DEF TakeSummary
  <2>2. /\ DOMAIN Summary \subseteq Endpoint
        /\ \A e \in DOMAIN Summary : Summary[e].count = Len(metrics[e]) /\ metrics[e] # <<>>
    BY DEF Summary
  <2>3. ASSUME NEW e \in DOMAIN Summary
        PROVE  Summary[e].count \in 1 .. Len(metrics[e])
    <3>1. metrics[e] \in Records /\ metrics[e] # <<>>
      BY <1>1, <2>2
    <3>2. Len(metrics[e]) \in Nat \ {0}
      BY <3>1 DEF Records
    <3> QED
      BY <2>2, <3>2
  <2> HIDE DEF Summary
  <2>4. TakingInv'
    BY <1>1, <1>3, <2>1, <2>2, <2>3 DEF TakingInv
  <2> QED
    BY <1>1, <2>4 DEF PointInv
<1> QED
  BY <1>2, <1>3

(* A point of the dashboard mixes its summary with later states, and has   *)
(* the greatest p95 that its endpoints had in some of them, however many   *)
(* requests users record while it is made.                                 *)
THEOREM PointsAreBracketed == Spec => PointIsBracketed
<1> DEFINE seen(e) == {P95(SubSeq(metrics[e], 1, n)) :
                         n \in taking.summary[e].count .. Len(metrics[e])}
           Bracketed == /\ \A e \in DOMAIN taking.summary : \E p \in seen(e) : p <= taking.p95
                        /\ \E e \in DOMAIN taking.summary : taking.p95 \in seen(e)
<1>1. Init => PointInv
  <2> SUFFICES ASSUME Init PROVE PointInv
    OBVIOUS
  <2>1. metrics \in [Endpoint -> Records] /\ taking = Nothing
    BY DEF Init, CollectorInit, Records
  <2> QED
    BY <2>1 DEF PointInv
<1>2. PointInv /\ [Next]_vars => PointInv'
  <2> SUFFICES ASSUME PointInv, [Next]_vars PROVE PointInv'
    OBVIOUS
  <2>1. CASE UNCHANGED <<metrics, taking, undisturbed>>
    BY <2>1 DEF PointInv, TakingInv
  <2>2. CASE ResetMetrics
    <3>1. metrics' \in [Endpoint -> Records] /\ taking' = taking
      BY <2>2 DEF ResetMetrics, Reset, Records
    <3>2. taking' # Nothing => ~undisturbed'
      BY <2>2 DEF ResetMetrics
    <3> QED
      BY <3>1, <3>2 DEF PointInv
  <2>3. CASE TakePoint
    BY <2>3 DEF TakePoint, PointInv
  <2>4. ASSUME NEW keys, CheckLatest(keys) PROVE PointInv'
    BY <2>1, <2>4 DEF CheckLatest, monitorVars
  <2>5. ASSUME NEW rule, AddAlertRule(rule) PROVE PointInv'
    BY <2>1, <2>5 DEF AddAlertRule, monitorVars
  <2>6. ASSUME NEW point, RecordGiven(point) PROVE PointInv'
    BY <2>1, <2>6 DEF RecordGiven
  <2>7. CASE ClearHistory \/ ClearAllAlerts
    BY <2>1, <2>7 DEF ClearHistory, ClearAllAlerts, monitorVars
  <2>8. CASE UNCHANGED vars
    BY <2>1, <2>8 DEF vars, monitorVars
  <2> QED
    BY <2>2, <2>3, <2>4, <2>5, <2>6, <2>7, <2>8, RecordKeepsPoint, PercentileKeepsPoint,
       SummaryKeepsPoint DEF Next
<1>3. PointInv /\ TakePoint /\ undisturbed => Bracketed
  <2> SUFFICES ASSUME PointInv, TakePoint, undisturbed PROVE Bracketed
    OBVIOUS
  <2>1. taking.left = {} /\ TakingInv
    BY DEF TakePoint, PointInv
  <2>2. DOMAIN taking.summary \ taking.left = DOMAIN taking.summary
    BY <2>1
  <2> QED
    BY <2>1, <2>2 DEF TakingInv, SeenOf
<1>4. PointInv /\ [Next]_vars => [TakePoint /\ undisturbed => Bracketed]_vars
  BY <1>3
<1> QED
  BY <1>1, <1>2, <1>4, PTL DEF Spec, PointIsBracketed

-----------------------------------------------------------------------------
(* RunHistory.                                                             *)

LEMMA GreaterOfTwo ==
  ASSUME NEW a \in Int, NEW b \in Int
  PROVE  Max({a, b}) = IF a >= b THEN a ELSE b
BY DEF Max

LEMMA LesserOfTwo ==
  ASSUME NEW a \in Int, NEW b \in Int
  PROVE  Min({a, b}) = IF a <= b THEN a ELSE b
BY DEF Min

LEMMA Division ==
  ASSUME NEW a \in Nat, NEW d \in Nat \ {0}
  PROVE  /\ a \div d \in Nat
         /\ (a \div d) * d <= a
         /\ a < (a \div d) * d + d
OBVIOUS

LEMMA Products2 ==
  ASSUME NEW a \in Nat, NEW b \in Nat, NEW c \in Nat, a <= b
  PROVE  a * c <= b * c /\ c * a <= c * b /\ a * c \in Nat
OBVIOUS

LEMMA DivisionIsMonotone ==
  ASSUME NEW a \in Nat, NEW b \in Nat, NEW d \in Nat \ {0}, a <= b
  PROVE  a \div d <= b \div d
OBVIOUS

LEMMA DivisionBound ==
  ASSUME NEW q \in Nat, NEW a \in Nat, NEW d \in Nat \ {0}, a <= q * d
  PROVE  a \div d <= q
OBVIOUS

(* The four shapes, at a time t and at a later time u.                     *)
LEMMA StepFollowsPlan ==
  ASSUME NEW s \in ShapeType, s.kind = "step", NEW t \in Nat, NEW u \in Nat, t <= u
  PROVE  /\ StepUsers(s, u) \in 0 .. s.maxUsers
         /\ StepUsers(s, t) = Stop => StepUsers(s, u) = Stop
         /\ StepUsers(s, u) # Stop => StepUsers(s, u) >= StepUsers(s, t)
         /\ StepUsers(s, u) = Stop
              => u * s.stepUsers >= (s.maxUsers - s.stepUsers) * s.stepDuration
<1> DEFINE d == s.stepDuration
           n == s.stepUsers
           most == s.maxUsers
           steps(time) == time \div d + 1
<1>1. d \in Nat \ {0} /\ n \in Nat \ {0} /\ most \in Nat \ {0}
  BY DEF ShapeType
<1> HIDE DEF d, n, most
<1>2. ASSUME NEW time \in Nat
      PROVE  /\ time \div d \in Nat
             /\ steps(time) * n \in Nat
             /\ StepUsers(s, time) = IF most <= steps(time) * n
                                     THEN IF time > d THEN Stop ELSE most
                                     ELSE steps(time) * n
  <2>1. time \div d \in Nat
    BY <1>1, Division
  <2>2. steps(time) * n \in Nat
    BY <1>1, <2>1
  <2>3. Min({steps(time) * n, most}) = IF steps(time) * n <= most THEN steps(time) * n ELSE most
    <3> HIDE DEF steps
    <3> QED
      BY <1>1, <2>2, LesserOfTwo
  <2>4. StepUsers(s, time) = LET target == Min({steps(time) * n, most})
                             IN  IF target = most /\ time > d THEN Stop ELSE target
    BY DEF StepUsers, d, n, most
  <2> HIDE DEF steps
  <2> QED
    BY <1>1, <2>1, <2>2, <2>3, <2>4
<1>3. steps(t) * n <= steps(u) * n
  <2>1. t \div d <= u \div d
    BY <1>1, DivisionIsMonotone
  <2>2. t \div d + 1 \in Nat /\ u \div d + 1 \in Nat /\ t \div d + 1 <= u \div d + 1
    BY <1>2, <2>1
  <2> QED
    BY <1>1, <2>2, Products2
<1>4. ASSUME StepUsers(s, u) = Stop PROVE u * n >= (most - n) * d
  <2>1. steps(u) * n >= most
    <3>1. /\ steps(u) * n \in Nat
          /\ Stop = IF most <= steps(u) * n THEN IF u > d THEN Stop ELSE most
                    ELSE steps(u) * n
      BY <1>2, <1>4
    <3>2. steps(u) * n # 0
      BY <1>1, <1>2
    <3> HIDE DEF steps
    <3> QED
      BY <1>1, <3>1, <3>2 DEF Stop
  <2> DEFINE q == u \div d
  <2>2. q \in Nat /\ q * d <= u
    BY <1>1, Division
  <2>3. (q + 1) * n >= most
    BY <2>1
  <2> HIDE DEF q
  <2>4. q * n >= most - n
    BY <1>1, <2>2, <2>3
  <2>5. (q * n) * d >= (most - n) * d
    BY <1>1, <2>2, <2>4
  <2>6. (q * d) * n <= u * n
    <3>1. q * d \in Nat
      BY <1>1, <2>2
    <3> QED
      BY <1>1, <2>2, <3>1, Products2
  <2>7. (q * n) * d = (q * d) * n
    BY <1>1, <2>2
  <2> QED
    BY <1>1, <2>2, <2>5, <2>6, <2>7
<1>5. steps(t) * n # 0 /\ steps(u) * n # 0
  BY <1>1, <1>2
<1> HIDE DEF steps
<1>6. /\ StepUsers(s, u) \in 0 .. most
      /\ StepUsers(s, t) = Stop => StepUsers(s, u) = Stop
      /\ StepUsers(s, u) # Stop => StepUsers(s, u) >= StepUsers(s, t)
  <2> DEFINE before == steps(t) * n
             now == steps(u) * n
  <2>1. before \in Nat /\ now \in Nat \ {0} /\ before <= now
    BY <1>2, <1>3, <1>5
  <2>2. /\ StepUsers(s, t) = IF most <= before THEN IF t > d THEN Stop ELSE most ELSE before
        /\ StepUsers(s, u) = IF most <= now THEN IF u > d THEN Stop ELSE most ELSE now
    BY <1>2
  <2>3. before # 0
    BY <1>5
  <2> HIDE DEF before, now
  <2> QED
    BY <1>1, <2>1, <2>2, <2>3 DEF Stop
<1> QED
  BY <1>4, <1>6 DEF d, n, most

LEMMA ConstantFollowsPlan ==
  ASSUME NEW s \in ShapeType, s.kind = "constant", NEW t \in Nat, NEW u \in Nat, t <= u
  PROVE  /\ ConstantUsers(s, u) \in 0 .. s.steadyUsers
         /\ ConstantUsers(s, t) = Stop => ConstantUsers(s, u) = Stop
         /\ ConstantUsers(s, u) # Stop => ConstantUsers(s, u) >= ConstantUsers(s, t)
         /\ ConstantUsers(s, u) = Stop => u >= s.duration
<1>1. s.steadyUsers \in Nat \ {0} /\ s.duration \in Nat
  BY DEF ShapeType
<1> QED
  BY <1>1 DEF ConstantUsers, Stop

(* In its last phase a spike load comes down from its spike, but no lower  *)
(* than its baseline.                                                      *)
LEMMA SpikeFollowsPlan ==
  ASSUME NEW s \in ShapeType, s.kind = "spike", NEW t \in Nat
  PROVE  LET low == s.baselineUsers
             high == s.spikeUsers
         IN  /\ low \in Nat \ {0} /\ high \in Nat \ {0}
             /\ IF low <= high THEN SpikeUsers(s, t) \in low .. high
                ELSE SpikeUsers(s, t) \in high .. low
<1> DEFINE low == s.baselineUsers
           high == s.spikeUsers
           b == s.baselineDuration
           p == s.spikeDuration
           r == s.recoveryDuration
           cycle == t % (b + p + r)
           recovering == cycle - b - p
           room == high * r - (high - low) * recovering
           left == room \div r
<1>1. /\ low \in Nat \ {0} /\ high \in Nat \ {0}
      /\ b \in Nat /\ p \in Nat /\ r \in Nat /\ b + p + r > 0
  BY DEF ShapeType
<1> HIDE DEF low, high, b, p, r
<1>2. cycle \in 0 .. b + p + r - 1
  BY <1>1
<1> HIDE DEF cycle
(* What is left of the spike lies between it and the baseline.             *)
<1>3. ASSUME recovering >= 0
      PROVE  left \in Nat /\ IF low <= high THEN left <= high ELSE left <= low
  <2>1. r \in Nat \ {0} /\ recovering \in 0 .. r - 1
    BY <1>1, <1>2, <1>3
  <2> HIDE DEF recovering
  <2>2. CASE low <= high
    <3>1. room \in Nat /\ room <= high * r
      BY <1>1, <2>1, <2>2
    <3> QED
      BY <1>1, <2>1, <2>2, <3>1, Division, DivisionBound
  <2>3. CASE ~(low <= high)
    <3>1. room \in Nat /\ room <= low * r
      BY <1>1, <2>1, <2>3
    <3> QED
      BY <1>1, <2>1, <2>3, <3>1, Division, DivisionBound
  <2> QED
    BY <2>2, <2>3
<1>4. SpikeUsers(s, t) = IF cycle < b THEN low
                         ELSE IF recovering < 0 THEN high
                         ELSE Max({left, low})
  BY DEF SpikeUsers, cycle, b, p, r, low, high
<1>5. recovering >= 0 => Max({left, low}) = IF left >= low THEN left ELSE low
  <2> HIDE DEF left
  <2> QED
    BY <1>1, <1>3, GreaterOfTwo
<1>6. recovering \in Int
  BY <1>1, <1>2
<1> HIDE DEF left, recovering
<1>7. IF low <= high THEN SpikeUsers(s, t) \in low .. high
      ELSE SpikeUsers(s, t) \in high .. low
  BY <1>1, <1>2, <1>3, <1>4, <1>5, <1>6
<1> QED
  BY <1>1, <1>7 DEF low, high

LEMMA RampFollowsPlan ==
  ASSUME NEW s \in ShapeType, s.kind = "ramp-up", NEW t \in Nat, NEW u \in Nat, t <= u
  PROVE  LET left == s.rampUp + s.hold + s.rampDown - u
         IN  /\ RampUsers(s, u) \in 0 .. s.targetUsers
             /\ RampUsers(s, t) = Stop => RampUsers(s, u) = Stop
             /\ u < s.rampUp + s.hold => RampUsers(s, u) >= RampUsers(s, t)
             /\ t >= s.rampUp => RampUsers(s, u) <= RampUsers(s, t)
             /\ RampUsers(s, u) = Stop => left <= 0 \/ s.targetUsers * left < s.rampDown
<1> DEFINE n == s.targetUsers
           up == s.rampUp
           hold == s.hold
           down == s.rampDown
           left(time) == up + hold + down - time
           rising(time) == (n * time) \div up
           falling(time) == (n * left(time)) \div down
<1>1. n \in Nat \ {0} /\ up \in Nat /\ hold \in Nat /\ down \in Nat
  BY DEF ShapeType
<1> HIDE DEF n, up, hold, down
<1>2. ASSUME NEW time \in Nat, time < up
      PROVE  rising(time) \in 0 .. n /\ up \in Nat \ {0} /\ n * time \in Nat
  <2>1. up \in Nat \ {0}
    BY <1>1, <1>2
  <2>2. n * time \in Nat /\ n * time <= n * up
    BY <1>1, <1>2, Products2
  <2> QED
    BY <1>1, <2>1, <2>2, DivisionBound, Division
<1>3. ASSUME NEW time \in Nat, time >= up + hold, time < up + hold + down
      PROVE  /\ falling(time) \in 0 .. n /\ down \in Nat \ {0}
             /\ left(time) \in Nat /\ n * left(time) \in Nat
             /\ falling(time) = 0 => n * left(time) < down
  <2>1. down \in Nat \ {0} /\ left(time) \in Nat /\ left(time) <= down
    BY <1>1, <1>3
  <2> HIDE DEF left
  <2>2. n * left(time) \in Nat /\ n * left(time) <= n * down
    BY <1>1, <2>1, Products2
  <2> DEFINE x == n * left(time)
  <2>3. x \in Nat /\ x <= n * down
    BY <2>2
  <2> HIDE DEF x
  <2>4. /\ x \div down \in 0 .. n
        /\ x \div down = 0 => x < down
    BY <1>1, <2>1, <2>3, DivisionBound, Division
  <2> QED
    BY <2>1, <2>2, <2>4 DEF x
<1>4. ASSUME NEW time \in Nat
      PROVE  RampUsers(s, time) = IF time < up THEN IF rising(time) >= 1 THEN rising(time) ELSE 1
                                  ELSE IF time < up + hold THEN n
                                  ELSE IF time < up + hold + down THEN falling(time)
                                  ELSE Stop
  <2>1. RampUsers(s, time) = IF time < up THEN Max({1, rising(time)})
                             ELSE IF time - up - hold < 0 THEN n
                             ELSE IF time - up - hold < down
                             THEN (n * (down - (time - up - hold))) \div down
                             ELSE Stop
    BY DEF RampUsers, n, up, hold, down
  <2>2. down - (time - up - hold) = left(time)
    BY <1>1
  <2> HIDE DEF left
  <2>3. time < up => Max({1, rising(time)}) = IF rising(time) >= 1 THEN rising(time) ELSE 1
    <3> HIDE DEF rising
    <3> QED
      BY <1>2, GreaterOfTwo
  <2> HIDE DEF rising
  <2>4. /\ time - up - hold < 0 <=> time < up + hold
        /\ time - up - hold < down <=> time < up + hold + down
    BY <1>1
  <2> QED
    BY <2>1, <2>2, <2>3, <2>4
<1>5. u < up => rising(t) <= rising(u)
  <2> SUFFICES ASSUME u < up PROVE rising(t) <= rising(u)
    OBVIOUS
  <2>1. n * t \in Nat /\ n * u \in Nat /\ n * t <= n * u /\ up \in Nat \ {0}
    BY <1>1, Products2
  <2> QED
    BY <2>1, DivisionIsMonotone
<1>6. t >= up + hold /\ u < up + hold + down => falling(u) <= falling(t)
  <2> SUFFICES ASSUME t >= up + hold, u < up + hold + down PROVE falling(u) <= falling(t)
    OBVIOUS
  <2>1. /\ left(t) \in Nat /\ left(u) \in Nat /\ left(u) <= left(t)
        /\ down \in Nat \ {0}
    BY <1>1
  <2> HIDE DEF left
  <2>2. n * left(t) \in Nat /\ n * left(u) \in Nat /\ n * left(u) <= n * left(t)
    BY <1>1, <2>1, Products2
  <2> QED
    BY <2>1, <2>2, DivisionIsMonotone
<1>7. left(u) <= 0 <=> u >= up + hold + down
  BY <1>1
<1> DEFINE rt == rising(t)
           ru == rising(u)
           ft == falling(t)
           fu == falling(u)
<1>8. /\ RampUsers(s, t) = IF t < up THEN IF rt >= 1 THEN rt ELSE 1
                           ELSE IF t < up + hold THEN n
                           ELSE IF t < up + hold + down THEN ft ELSE Stop
      /\ RampUsers(s, u) = IF u < up THEN IF ru >= 1 THEN ru ELSE 1
                           ELSE IF u < up + hold THEN n
                           ELSE IF u < up + hold + down THEN fu ELSE Stop
  BY <1>4
<1>9. /\ t < up => rt \in 0 .. n
      /\ u < up => ru \in 0 .. n
      /\ t >= up + hold /\ t < up + hold + down => ft \in 0 .. n
      /\ u >= up + hold /\ u < up + hold + down =>
           fu \in 0 .. n /\ (fu = 0 => n * left(u) < down)
  BY <1>2, <1>3
<1>10. /\ u < up => rt <= ru
       /\ t >= up + hold /\ u < up + hold + down => fu <= ft
  BY <1>5, <1>6
<1> HIDE DEF rt, ru, ft, fu, left
<1>11. /\ RampUsers(s, u) \in 0 .. n
       /\ RampUsers(s, t) = Stop => RampUsers(s, u) = Stop
       /\ u < up + hold => RampUsers(s, u) >= RampUsers(s, t)
       /\ t >= up => RampUsers(s, u) <= RampUsers(s, t)
       /\ RampUsers(s, u) = Stop => left(u) <= 0 \/ n * left(u) < down
  BY <1>1, <1>7, <1>8, <1>9, <1>10 DEF Stop
<1> QED
  BY <1>11 DEF n, up, hold, down, left

(* Any shape that can be made: how many users it asks for at a time, that  *)
(* it stops for good, and that a tick from one time to a later follows it. *)
LEMMA UsersAreWithinPeak ==
  ASSUME NEW s \in ShapeType, NEW t \in Nat, NEW u \in Nat, t <= u
  PROVE  /\ UsersAt(s, u) \in 0 .. Peak(s)
         /\ UsersAt(s, t) = Stop => UsersAt(s, u) = Stop
<1>1. s.kind \in {"step", "constant", "ramp-up", "spike"}
  BY DEF ShapeType
<1>2. CASE s.kind = "step"
  BY <1>2, StepFollowsPlan DEF UsersAt, Peak
<1>3. CASE s.kind = "constant"
  BY <1>3, ConstantFollowsPlan DEF UsersAt, Peak
<1>4. CASE s.kind = "ramp-up"
  BY <1>4, RampFollowsPlan DEF UsersAt, Peak
<1>5. CASE s.kind = "spike"
  <2> DEFINE low == s.baselineUsers
             high == s.spikeUsers
  <2>1. low \in Nat \ {0} /\ high \in Nat \ {0}
    BY <1>5 DEF ShapeType
  <2>2. Peak(s) = IF high >= low THEN high ELSE low
    BY <1>5, <2>1, GreaterOfTwo DEF Peak
  <2>3. \A time \in Nat : /\ UsersAt(s, time) # Stop
                          /\ UsersAt(s, time) \in 0 .. IF high >= low THEN high ELSE low
    BY <1>5, <2>1, SpikeFollowsPlan DEF UsersAt, Stop
  <2> QED
    BY <2>2, <2>3
<1> QED
  BY <1>1, <1>2, <1>3, <1>4, <1>5

(* The rows of a history are ordered in time, none later than a tick after *)
(* the one before it.                                                      *)
HistoryRow ==
  [name : {"endpoint", "Aggregated"}, time : Nat, rps : Nat, users : Nat, p95 : Nat, rate : Nat]

InOrder(trail, most) ==
  /\ trail \in Seq(HistoryRow)
  /\ \A i, j \in 1 .. Len(trail) : i <= j => trail[i].time <= trail[j].time
  /\ \A i \in 1 .. Len(trail) - 1 : trail[i + 1].time - trail[i].time <= most

LEMMA AppendInOrder ==
  ASSUME NEW most \in Nat, NEW trail, InOrder(trail, most), NEW row \in HistoryRow,
         trail # <<>> => /\ trail[Len(trail)].time <= row.time
                           /\ row.time - trail[Len(trail)].time <= most
  PROVE  /\ InOrder(trail \o <<row>>, most)
         /\ trail \o <<row>> # <<>>
         /\ (trail \o <<row>>)[Len(trail \o <<row>>)].time = row.time
<1> DEFINE N == Len(trail)
<1>1. trail \in Seq(HistoryRow) /\ N \in Nat
  BY DEF InOrder
<1>2. PICK longer : longer = trail \o <<row>>
  OBVIOUS
<1>3. /\ longer \in Seq(HistoryRow) /\ Len(longer) = N + 1
      /\ longer[N + 1] = row /\ \A i \in 1 .. N : longer[i] = trail[i]
  BY <1>1, <1>2
<1>4. ASSUME NEW i \in 1 .. N + 1 PROVE longer[i].time \in Nat
  <2>1. longer[i] \in HistoryRow
    BY <1>3
  <2> QED
    BY <2>1 DEF HistoryRow
<1>5. N > 0 => trail # <<>> /\ longer[N].time <= row.time /\ row.time - longer[N].time <= most
  BY <1>1, <1>3
<1> HIDE DEF N
<1>6. ASSUME NEW i \in 1 .. N + 1, NEW j \in 1 .. N + 1, i <= j
      PROVE  longer[i].time <= longer[j].time
  <2>1. CASE j \in 1 .. N
    <3>1. i \in 1 .. N /\ trail[i].time <= trail[j].time
      BY <1>1, <1>6, <2>1 DEF InOrder, N
    <3> QED
      BY <1>3, <2>1, <3>1
  <2>2. CASE j = N + 1 /\ i = N + 1
    BY <1>3, <1>4, <2>2
  <2>3. CASE j = N + 1 /\ i # N + 1
    <3>1. i \in 1 .. N /\ N \in 1 .. N /\ N > 0
      BY <1>1, <2>3
    <3>2. trail[i].time <= trail[N].time
      BY <1>1, <3>1 DEF InOrder, N
    <3>3. longer[i].time <= longer[N].time
      BY <1>3, <3>1, <3>2
    <3>4. longer[i].time \in Nat /\ longer[N].time \in Nat /\ longer[j].time \in Nat
          /\ longer[j].time = row.time
      BY <1>1, <1>3, <1>4, <2>3, <3>1
    <3> QED
      BY <1>5, <3>1, <3>3, <3>4
  <2> QED
    BY <1>1, <2>1, <2>2, <2>3
<1>7. ASSUME NEW i \in 1 .. N PROVE longer[i + 1].time - longer[i].time <= most
  <2>1. CASE i = N
    BY <1>1, <1>3, <1>5, <2>1
  <2>2. CASE i # N
    <3>1. i \in 1 .. N - 1 /\ i + 1 \in 1 .. N
      BY <1>1, <2>2
    <3> QED
      BY <1>3, <3>1 DEF InOrder, N
  <2> QED
    BY <2>1, <2>2
<1>8. InOrder(longer, most)
  BY <1>1, <1>3, <1>6, <1>7 DEF InOrder
<1> QED
  BY <1>1, <1>2, <1>3, <1>8

LEMMA HistoryPointIsARow ==
  ASSUME NEW name \in {"endpoint", "Aggregated"}, NEW time \in Nat, NEW n \in Nat \ {0},
         NEW sample \in Sample
  PROVE  HistoryPoint(name, time, n, sample) \in HistoryRow
<1>1. /\ sample.p95 \in Nat /\ sample.perUser \in Nat
      /\ sample.failing \in {"none", "one", "all"}
  BY SampleAssumption
<1>2. PICK failures : failures = FailuresPerSecond(sample, n)
  OBVIOUS
<1>3. failures \in Nat
  BY <1>1, <1>2 DEF FailuresPerSecond
<1>4. (100 * failures) \div (n + failures) \in Nat
  BY <1>3, Division
<1>5. sample.p95 + sample.perUser * n \in Nat
  BY <1>1
<1> QED
  BY <1>2, <1>4, <1>5 DEF HistoryPoint, HistoryRow

(* Where a test that observes its history stands; the other tests have no  *)
(* history.                                                                *)
HistoryInv ==
  /\ observer = "csv" =>
       /\ shape \in ShapeType
       /\ pace \in Nat
       /\ elapsed \in Nat
       /\ users = UsersAt(shape, elapsed)
       /\ InOrder(rows, pace)
       /\ rows # <<>> /\ users # Stop => rows[Len(rows)].time = elapsed
  /\ observer # "csv" => rows = <<>>

(* A tick writes its rows in order.                                        *)
LEMMA TickKeepsOrder ==
  ASSUME HistoryInv, observer = "csv", NEW sample \in Sample, Tick(sample)
  PROVE  /\ InOrder(rows', pace)
         /\ rows' # <<>> /\ users' # Stop => rows'[Len(rows')].time = elapsed'
<1>1. PICK now : now = elapsed + pace
  OBVIOUS
<1>2. now \in Nat /\ pace \in Nat /\ elapsed \in Nat /\ InOrder(rows, pace)
  BY <1>1 DEF HistoryInv
<1>3. /\ users # Stop /\ elapsed' = now /\ users' = UsersAt(shape, now)
      /\ users' = Stop => rows' = rows
      /\ users' # Stop =>
           LET point(name) == HistoryPoint(name, now, users', sample)
           IN  rows' = rows \o (IF full THEN <<point("endpoint")>> ELSE <<>>)
                            \o <<point("Aggregated")>>
  BY <1>1 DEF Tick
<1>4. CASE users' = Stop
  BY <1>2, <1>3, <1>4
<1>5. CASE users' # Stop
  <2>1. PICK n : n = users'
    OBVIOUS
  <2>2. n \in Nat \ {0}
    <3>1. n \in 0 .. Peak(shape)
      BY <1>2, <1>3, <2>1, UsersAreWithinPeak DEF HistoryInv
    <3> QED
      BY <1>5, <2>1, <3>1 DEF Stop
  <2>3. PICK first, last : /\ first = HistoryPoint("endpoint", now, n, sample)
                           /\ last = HistoryPoint("Aggregated", now, n, sample)
    OBVIOUS
  <2>4. /\ first \in HistoryRow /\ last \in HistoryRow
        /\ first.time = now /\ last.time = now
    <3>1. first \in HistoryRow /\ last \in HistoryRow
      BY <1>2, <2>2, <2>3, HistoryPointIsARow
    <3> QED
      BY <2>3, <3>1 DEF HistoryPoint
  <2>5. rows # <<>> => /\ rows[Len(rows)].time <= now
                       /\ now - rows[Len(rows)].time <= pace
    BY <1>1, <1>2, <1>3 DEF HistoryInv
  <2>6. CASE full
    <3>1. rows' = (rows \o <<first>>) \o <<last>>
      BY <1>3, <1>5, <2>1, <2>3, <2>6
    <3>2. PICK longer : longer = rows \o <<first>>
      OBVIOUS
    <3>3. InOrder(longer, pace) /\ longer # <<>> /\ longer[Len(longer)].time = now
      BY <1>2, <2>4, <2>5, <3>2, AppendInOrder
    <3>4. now <= now /\ now - now <= pace
      BY <1>2
    <3>5. /\ InOrder(longer \o <<last>>, pace)
          /\ (longer \o <<last>>)[Len(longer \o <<last>>)].time = now
      BY <1>2, <2>4, <3>3, <3>4, AppendInOrder
    <3> QED
      BY <1>3, <3>1, <3>2, <3>5
  <2>7. CASE ~full
    <3>1. rows' = rows \o <<last>>
      <4>1. rows' = (rows \o <<>>) \o <<last>>
        BY <1>3, <1>5, <2>1, <2>3, <2>7
      <4>2. rows \o <<>> = rows
        BY <1>2 DEF InOrder
      <4> QED
        BY <4>1, <4>2
    <3>2. /\ InOrder(rows \o <<last>>, pace)
          /\ (rows \o <<last>>)[Len(rows \o <<last>>)].time = now
      BY <1>2, <2>4, <2>5, AppendInOrder
    <3> QED
      BY <1>3, <3>1, <3>2
  <2> QED
    BY <2>6, <2>7
<1> QED
  BY <1>4, <1>5

LEMMA TickKeepsHistory ==
  ASSUME HistoryInv, observer = "csv", HistoryNext, UNCHANGED observer
  PROVE  HistoryInv' /\ FollowsPlan
<1>1. PICK sample \in Sample : Tick(sample)
  BY DEF HistoryNext
<1>2. PICK s, t, u : s = shape /\ t = elapsed /\ u = elapsed + pace
  OBVIOUS
<1>3. s \in ShapeType /\ t \in Nat /\ u \in Nat /\ t <= u
  BY <1>2 DEF HistoryInv
<1>4. /\ shape' = s /\ pace' = pace /\ elapsed' = u
      /\ users = UsersAt(s, t) /\ users' = UsersAt(s, u)
  BY <1>1, <1>2 DEF Tick, HistoryInv
<1>5. HistoryInv'
  <2>1. /\ InOrder(rows', pace)
        /\ rows' # <<>> /\ users' # Stop => rows'[Len(rows')].time = elapsed'
    BY <1>1, TickKeepsOrder
  <2>2. InOrder(rows, pace)'
    BY <1>4, <2>1
  <2> QED
    BY <1>3, <1>4, <2>1, <2>2 DEF HistoryInv
<1>6. users' <= Peak(s)
  <2>1. users' \in 0 .. Peak(s)
    BY <1>3, <1>4, UsersAreWithinPeak
  <2> QED
    BY <2>1
<1>7. users' = Stop => \A later \in 1 .. 10 : UsersAt(s, u + later) = Stop
  <2> SUFFICES ASSUME users' = Stop, NEW later \in 1 .. 10
               PROVE  UsersAt(s, u + later) = Stop
    OBVIOUS
  <2>1. PICK v \in Nat : v = u + later /\ u <= v
    BY <1>3
  <2>2. UsersAt(s, u) = Stop
    BY <1>4
  <2>3. UsersAt(s, v) = Stop
    BY <1>3, <2>1, <2>2, UsersAreWithinPeak
  <2> QED
    BY <2>1, <2>3
<1>8. s.kind \in {"step", "constant", "ramp-up", "spike"}
  BY <1>3 DEF ShapeType
<1>9. CASE s.kind = "step"
  <2>1. /\ users' # Stop => users' >= users
        /\ users' = Stop => u * s.stepUsers >= (s.maxUsers - s.stepUsers) * s.stepDuration
    BY <1>3, <1>4, <1>9, StepFollowsPlan DEF UsersAt
  <2> QED
    BY <1>2, <1>4, <1>5, <1>6, <1>7, <1>9, <2>1 DEF FollowsPlan, Over
<1>10. CASE s.kind = "constant"
  <2>1. /\ users' # Stop => users' >= users
        /\ users' = Stop => u >= s.duration
    BY <1>3, <1>4, <1>10, ConstantFollowsPlan DEF UsersAt
  <2> QED
    BY <1>2, <1>4, <1>5, <1>6, <1>7, <1>10, <2>1 DEF FollowsPlan, Over
<1>11. CASE s.kind = "ramp-up"
  <2>1. LET left == s.rampUp + s.hold + s.rampDown - u
        IN  /\ u < s.rampUp + s.hold => users' >= users
            /\ t >= s.rampUp => users' <= users
            /\ users' = Stop => left <= 0 \/ s.targetUsers * left < s.rampDown
    BY <1>3, <1>4, <1>11, RampFollowsPlan DEF UsersAt
  <2> QED
    BY <1>2, <1>4, <1>5, <1>6, <1>7, <1>11, <2>1 DEF FollowsPlan, Over
<1>12. CASE s.kind = "spike"
  <2> DEFINE low == s.baselineUsers
             high == s.spikeUsers
  <2>1. low \in Nat \ {0} /\ high \in Nat \ {0}
    BY <1>3, <1>12 DEF ShapeType
  <2>2. Min({low, high}) = IF low <= high THEN low ELSE high
    BY <2>1, LesserOfTwo
  <2>3. users' # Stop /\ users' >= IF low <= high THEN low ELSE high
    BY <1>3, <1>4, <1>12, <2>1, SpikeFollowsPlan DEF UsersAt, Stop
  <2>4. users' >= Min({low, high}) /\ users' # Stop
    BY <2>2, <2>3
  <2> QED
    BY <1>2, <1>4, <1>5, <1>6, <1>7, <1>12, <2>4 DEF FollowsPlan
<1> QED
  BY <1>8, <1>9, <1>10, <1>11, <1>12

-----------------------------------------------------------------------------
(* RunAnalysis: the spikes.                                                *)

(* The smoothed rates exist.                                               *)
LEMMA EwmaOfRates ==
  ASSUME NEW series \in Seq(Nat), series # <<>>
  PROVE  Ewma(series) \in [1 .. Len(series) -> Nat]
<1> DEFINE N == Len(series)
           Smoothed(x, y) == (3 * Scale * x + 7 * y) \div 10
           Round(f, i) == IF i = 1 THEN Scale * series[1] ELSE Smoothed(series[i], f[i - 1])
           Loop(f) == f = [i \in 1 .. N |-> Round(f, i)]
           step == [p \in (1 .. N - 1) \X Nat |-> Smoothed(series[p[1] + 1], p[2])]
<1>1. N \in Nat \ {0} /\ \A i \in 1 .. N : series[i] \in Nat
  OBVIOUS
<1>2. ASSUME NEW x \in Nat, NEW y \in Nat PROVE Smoothed(x, y) \in Nat
  BY DEF Scale
<1>3. Scale * series[1] \in Nat
  BY <1>1 DEF Scale
<1> HIDE DEF N, Smoothed
<1>4. \A n \in 1 .. N - 1, y \in Nat : step[<<n, y>>] = Smoothed(series[n + 1], y)
  OBVIOUS
<1> HIDE DEF step
<1>5. N - 1 \in Nat /\ IsStep(step, N - 1, Nat)
  <2>1. ASSUME NEW n \in 1 .. N - 1, NEW y \in Nat PROVE step[<<n, y>>] \in Nat
    <3>1. n + 1 \in 1 .. N
      BY <1>1
    <3>2. series[n + 1] \in Nat
      BY <1>1, <3>1
    <3>3. Smoothed(series[n + 1], y) \in Nat
      BY <1>2, <3>2
    <3> QED
      BY <1>4, <3>3
  <2> QED
    BY <1>1, <2>1 DEF IsStep
<1>6. PICK f : Unfolds(f, N - 1, Nat, Scale * series[1], step)
  <2> DEFINE K == N - 1
             first == Scale * series[1]
  <2>1. K \in Nat /\ first \in Nat /\ IsStep(step, K, Nat)
    BY <1>3, <1>5
  <2> HIDE DEF K, first
  <2>2. \E f : Unfolds(f, K, Nat, first, step)
    BY <2>1, RecursionHasSolution
  <2> QED
    BY <2>2 DEF K, first
<1> DEFINE g == [i \in 1 .. N |-> f[i - 1]]
<1>7. ASSUME NEW i \in 1 .. N PROVE g[i] = Round(g, i)
  <2>1. CASE i = 1
    BY <1>1, <1>6, <2>1 DEF Unfolds
  <2>2. CASE i # 1
    <3>1. i - 1 \in 1 .. N - 1 /\ (i - 1) + 1 = i /\ g[i] = f[i - 1] /\ g[i - 1] = f[i - 2]
      BY <1>1, <2>2
    <3>2. f[i - 1] = step[<<i - 1, f[i - 2]>>] /\ f[i - 2] \in Nat
      BY <1>1, <1>6, <3>1 DEF Unfolds
    <3> HIDE DEF g
    <3> QED
      BY <1>4, <2>2, <3>1, <3>2
  <2> QED
    BY <2>1, <2>2
<1>8. Loop(g)
  <2> HIDE DEF Round
  <2>1. \A i \in 1 .. N : g[i] = Round(g, i)
    BY <1>7
  <2>2. g = [i \in 1 .. N |-> g[i]]
    OBVIOUS
  <2> HIDE DEF g
  <2> QED
    BY <2>1, <2>2
<1>9. PICK h : Loop(h) /\ Ewma(series) = h
  <2> HIDE DEF g
  <2> QED
    BY <1>8 DEF Ewma, N, Smoothed
<1>10. h[1] = Scale * series[1] /\ \A i \in 2 .. N : h[i] = Smoothed(series[i], h[i - 1])
  BY <1>1, <1>9
<1> DEFINE T == {n \in 0 .. N - 1 : h[n + 1] \in Nat}
<1>11. 0 \in T
  BY <1>1, <1>3, <1>10
<1>12. ASSUME NEW n \in 1 .. N - 1, n - 1 \in T PROVE n \in T
  <2>1. n + 1 \in 2 .. N /\ (n + 1) - 1 = n /\ (n - 1) + 1 = n
    BY <1>1
  <2>2. h[n] \in Nat
    BY <1>12, <2>1
  <2>3. h[n + 1] = Smoothed(series[n + 1], h[n])
    BY <1>10, <2>1
  <2>4. series[n + 1] \in Nat
    BY <1>1, <2>1
  <2>5. h[n + 1] \in Nat
    BY <1>2, <2>2, <2>3, <2>4
  <2> QED
    BY <1>1, <2>5
<1>13. 0 .. N - 1 \subseteq T
  <2> HIDE DEF T
  <2> QED
    BY <1>5, <1>11, <1>12, UpwardInduction
<1>14. ASSUME NEW i \in 1 .. N PROVE h[i] \in Nat
  <2>1. i - 1 \in 0 .. N - 1 /\ (i - 1) + 1 = i
    BY <1>1
  <2> QED
    BY <1>13, <2>1
<1> HIDE DEF Round
<1> QED
  BY <1>9, <1>14 DEF N

(* The threshold of a row is that of the background before it, which a     *)
(* flagged row leaves as it is.                                            *)
LEMMA ScanFlags ==
  ASSUME NEW rates \in Seq(Nat), rates # <<>>
  PROVE  \E background \in [0 .. Len(rates) -> Nat] :
           /\ Scan(rates) = {i \in 1 .. Len(rates) :
                               Scale * rates[i] > SpikeThreshold(background[i - 1])}
           /\ \A i \in Scan(rates) : background[i] = background[i - 1]
<1> DEFINE N == Len(rates)
           State == [background : Nat, running : BOOLEAN, flagged : SUBSET (1 .. N)]
           smooth == Ewma(rates)
           start == [background |-> smooth[1], running |-> FALSE, flagged |-> {}]
           Above(s, i) == Scale * rates[i] > SpikeThreshold(s.background)
           Row(s, i) == IF Above(s, i)
                        THEN [background |-> IF s.running THEN s.background
                                             ELSE smooth[Max({i - 1, 1})],
                              running |-> TRUE, flagged |-> s.flagged \cup {i}]
                        ELSE [background |-> smooth[i], running |-> FALSE,
                              flagged |-> s.flagged]
           Round(f, i) == IF i = 0 THEN start ELSE Row(f[i - 1], i)
           Loop(f) == f = [i \in 0 .. N |-> Round(f, i)]
           step == [p \in (1 .. N) \X State |-> Row(p[2], p[1])]
<1>1. N \in Nat \ {0} /\ smooth \in [1 .. N -> Nat]
  BY EwmaOfRates
<1>2. \A n \in 0 .. N : Max({n, 1}) = IF n = 0 THEN 1 ELSE n
  <2>1. ASSUME NEW n \in 0 .. N PROVE Max({n, 1}) = IF n = 0 THEN 1 ELSE n
    BY <1>1, GreaterOfTwo
  <2> QED
    BY <2>1
<1> HIDE DEF N, smooth, Above
<1>3. start \in State
  BY <1>1
<1>4. ASSUME NEW s \in State, NEW i \in 1 .. N PROVE Row(s, i) \in State
  <2>1. i - 1 \in 0 .. N /\ (IF i - 1 = 0 THEN 1 ELSE i - 1) \in 1 .. N
    BY <1>1
  <2>2. smooth[Max({i - 1, 1})] \in Nat /\ smooth[i] \in Nat
    BY <1>1, <1>2, <2>1
  <2> QED
    BY <2>2
<1>5. ASSUME NEW s \in State, NEW i \in 1 .. N
      PROVE  /\ Row(s, i).running <=> Above(s, i)
             /\ Row(s, i).flagged = IF Above(s, i) THEN s.flagged \cup {i} ELSE s.flagged
             /\ Row(s, i).background = IF ~Above(s, i) THEN smooth[i]
                                       ELSE IF s.running THEN s.background
                                       ELSE smooth[IF i = 1 THEN 1 ELSE i - 1]
  <2>1. smooth[Max({i - 1, 1})] = smooth[IF i = 1 THEN 1 ELSE i - 1]
    <3>1. i - 1 \in 0 .. N /\ (i - 1 = 0 <=> i = 1)
      BY <1>1
    <3> QED
      BY <1>2, <3>1
  <2> QED
    BY <2>1
<1>6. start.background = smooth[1] /\ start.running = FALSE /\ start.flagged = {}
  OBVIOUS
<1> HIDE DEF start, Row
<1>7. IsStep(step, N, State)
  <2>1. \A n \in 1 .. N, s \in State : step[<<n, s>>] = Row(s, n)
    OBVIOUS
  <2> HIDE DEF step, State
  <2> QED
    BY <1>4, <2>1 DEF IsStep
<1> HIDE DEF State
<1>8. PICK f : Unfolds(f, N, State, start, step)
  <2> HIDE DEF step
  <2> QED
    BY <1>1, <1>3, <1>7, RecursionHasSolution
<1>9. \A i \in 0 .. N : f[i] = Round(f, i)
  <2>1. ASSUME NEW i \in 1 .. N PROVE f[i] = Row(f[i - 1], i)
    <3>1. i - 1 \in 0 .. N
      BY <1>1
    <3>2. f[i - 1] \in State /\ f[i] = step[<<i, f[i - 1]>>]
      BY <1>8, <3>1 DEF Unfolds
    <3> QED
      BY <3>2
  <2> HIDE DEF step
  <2>2. ASSUME NEW i \in 0 .. N PROVE f[i] = Round(f, i)
    <3>1. CASE i = 0
      BY <1>8, <3>1 DEF Unfolds
    <3>2. CASE i # 0
      <4>1. i \in 1 .. N
        BY <1>1, <3>2
      <4> QED
        BY <2>1, <3>2, <4>1
    <3> QED
      BY <3>1, <3>2
  <2> HIDE DEF Round
  <2> QED
    BY <2>2
<1>10. Loop(f)
  <2> HIDE DEF Round, step
  <2> QED
    BY <1>8, <1>9 DEF Unfolds
<1>11. PICK scan : Loop(scan) /\ Scan(rates) = scan[N].flagged
  BY <1>10 DEF Scan, N, smooth, Above, Row, start
<1>12. scan[0] = start /\ \A i \in 1 .. N : scan[i] = Row(scan[i - 1], i)
  <2>1. \A i \in 0 .. N : scan[i] = Round(scan, i)
    <3> HIDE DEF Round
    <3> QED
      BY <1>11
  <2> QED
    BY <1>1, <2>1
<1> HIDE DEF Loop, Round
<1> DEFINE Good(n) ==
             /\ scan[n] \in State
             /\ ~scan[n].running => scan[n].background = smooth[IF n = 0 THEN 1 ELSE n]
             /\ scan[n].flagged = {i \in 1 .. n : Above(scan[i - 1], i)}
           T == {n \in 0 .. N : Good(n)}
<1>13. Good(0)
  BY <1>1, <1>3, <1>6, <1>12
<1>14. ASSUME NEW n \in 1 .. N, Good(n - 1) PROVE Good(n)
  <2>1. scan[n] = Row(scan[n - 1], n) /\ scan[n] \in State
    BY <1>4, <1>12, <1>14
  <2> DEFINE last == scan[n - 1]
  <2>2. /\ scan[n].running <=> Above(last, n)
        /\ scan[n].flagged = IF Above(last, n) THEN last.flagged \cup {n} ELSE last.flagged
        /\ ~Above(last, n) => scan[n].background = smooth[n]
    <3>1. last \in State
      BY <1>14
    <3> HIDE DEF last
    <3>2. /\ Row(last, n).running <=> Above(last, n)
          /\ Row(last, n).flagged = IF Above(last, n) THEN last.flagged \cup {n}
                                    ELSE last.flagged
          /\ ~Above(last, n) => Row(last, n).background = smooth[n]
      BY <1>5, <3>1
    <3>3. scan[n] = Row(last, n)
      BY <2>1 DEF last
    <3> QED
      BY <3>2, <3>3
  <2>3. ~scan[n].running => scan[n].background = smooth[IF n = 0 THEN 1 ELSE n]
    <3>1. n # 0
      BY <1>1
    <3> HIDE DEF last
    <3> QED
      BY <2>2, <3>1
  <2>4. 1 .. n = (1 .. n - 1) \cup {n}
    BY <1>1
  <2>5. scan[n].flagged = IF Above(scan[n - 1], n) THEN scan[n - 1].flagged \cup {n}
                          ELSE scan[n - 1].flagged
    BY <2>2
  <2>6. scan[n].flagged = {i \in 1 .. n : Above(scan[i - 1], i)}
    BY <1>14, <2>4, <2>5
  <2> QED
    BY <2>1, <2>3, <2>6
<1>15. 0 .. N \subseteq T
  <2> HIDE DEF Good
  <2>1. 0 \in T /\ \A n \in 1 .. N : n - 1 \in T => n \in T
    BY <1>1, <1>13, <1>14
  <2> HIDE DEF T
  <2> QED
    BY <1>1, <2>1, UpwardInduction
<1>16. \A n \in 0 .. N : Good(n)
  <2> HIDE DEF Good
  <2> QED
    BY <1>15
<1> DEFINE background == [n \in 0 .. N |-> scan[n].background]
<1>17. background \in [0 .. N -> Nat]
  BY <1>16 DEF State
<1>18. Scan(rates) = {i \in 1 .. N : Scale * rates[i] > SpikeThreshold(background[i - 1])}
  <2>1. \A i \in 1 .. N : Above(scan[i - 1], i)
                            <=> Scale * rates[i] > SpikeThreshold(background[i - 1])
    BY <1>1 DEF Above
  <2>2. Scan(rates) = {i \in 1 .. N : Above(scan[i - 1], i)}
    BY <1>1, <1>11, <1>16
  <2> HIDE DEF background
  <2> QED
    BY <2>1, <2>2
<1>19. ASSUME NEW i \in Scan(rates) PROVE background[i] = background[i - 1]
  <2>1. i \in 1 .. N /\ i - 1 \in 0 .. N /\ Above(scan[i - 1], i)
    BY <1>1, <1>11, <1>16
  <2>2. Good(i - 1) /\ scan[i] = Row(scan[i - 1], i)
    BY <1>12, <1>16, <2>1
  <2>3. i - 1 = 0 <=> i = 1
    BY <2>1
  <2>4. scan[i].background = scan[i - 1].background
    <3> DEFINE last == scan[i - 1]
    <3>1. /\ last \in State /\ Above(last, i)
          /\ ~last.running => last.background = smooth[IF i = 1 THEN 1 ELSE i - 1]
      BY <2>1, <2>2, <2>3
    <3>2. scan[i] = Row(last, i)
      BY <2>2
    <3> HIDE DEF last
    <3>3. Row(last, i).background = IF last.running THEN last.background
                                    ELSE smooth[IF i = 1 THEN 1 ELSE i - 1]
      BY <1>5, <2>1, <3>1
    <3>4. scan[i].background = last.background
      BY <3>1, <3>2, <3>3
    <3> QED
      BY <3>4 DEF last
  <2> QED
    BY <2>1, <2>4
<1> HIDE DEF background
<1> QED
  BY <1>17, <1>18, <1>19 DEF N

(* So as long as no later rate is lower, every row after a flagged one is  *)
(* flagged.                                                                *)
LEMMA SpikesAreSustained ==
  ASSUME NEW rates \in Seq(Nat), rates # <<>>, NEW i \in Scan(rates),
         NEW j \in i .. Len(rates), \A k \in i .. j : rates[k] >= rates[i]
  PROVE  i .. j \subseteq Scan(rates)
<1> DEFINE N == Len(rates)
<1>1. PICK background \in [0 .. N -> Nat] :
           /\ Scan(rates) = {k \in 1 .. N :
                               Scale * rates[k] > SpikeThreshold(background[k - 1])}
           /\ \A k \in Scan(rates) : background[k] = background[k - 1]
  BY ScanFlags
<1>2. N \in Nat /\ i \in 1 .. N /\ j \in 1 .. N /\ \A k \in 1 .. N : rates[k] \in Nat
  BY <1>1
<1>3. SpikeThreshold(background[i - 1]) \in Int
  <2>1. background[i - 1] \in Nat
    BY <1>1, <1>2
  <2>2. 3 * background[i - 1] \in Int /\ Scale \in Int
    BY <2>1 DEF Scale
  <2> DEFINE x == 3 * background[i - 1]
  <2>3. x \in Int
    BY <2>2
  <2> HIDE DEF x
  <2>4. Max({x, Scale}) \in Int
    BY <2>2, <2>3, GreaterOfTwo
  <2> QED
    BY <2>4 DEF SpikeThreshold, x
<1>4. Scale * rates[i] > SpikeThreshold(background[i - 1])
  BY <1>1
<1> HIDE DEF N
<1>5. ASSUME NEW k \in i .. j, background[k - 1] = background[i - 1]
      PROVE  k \in Scan(rates) /\ background[k] = background[i - 1]
  <2>1. k \in 1 .. N /\ rates[k] >= rates[i] /\ rates[k] \in Nat /\ rates[i] \in Nat
    BY <1>2
  <2>2. Scale * rates[k] >= Scale * rates[i] /\ Scale * rates[k] \in Int
        /\ Scale * rates[i] \in Int
    BY <2>1 DEF Scale
  <2>3. Scale * rates[k] > SpikeThreshold(background[k - 1])
    BY <1>3, <1>4, <1>5, <2>2
  <2>4. k \in Scan(rates)
    BY <1>1, <2>1, <2>3
  <2> QED
    BY <1>1, <1>5, <2>4
<1> DEFINE T == {n \in 0 .. j - i : i + n \in Scan(rates)
                                    /\ background[i + n] = background[i - 1]}
<1>6. 0 \in T
  <2>1. i + 0 = i /\ i \in i .. j
    BY <1>2
  <2>2. i \in Scan(rates) /\ background[i] = background[i - 1]
    BY <1>5, <2>1
  <2> QED
    BY <1>2, <2>1, <2>2
<1>7. ASSUME NEW n \in 1 .. j - i, n - 1 \in T PROVE n \in T
  <2>1. i + n \in i .. j /\ i + (n - 1) = (i + n) - 1
    BY <1>2
  <2>2. background[(i + n) - 1] = background[i - 1]
    BY <1>7, <2>1
  <2> QED
    BY <1>2, <1>5, <2>1, <2>2
<1>8. 0 .. j - i \subseteq T
  <2>1. j - i \in Nat
    BY <1>2
  <2> HIDE DEF T
  <2> QED
    BY <1>6, <1>7, <2>1, UpwardInduction
<1>9. ASSUME NEW k \in i .. j PROVE k \in Scan(rates)
  <2>1. k - i \in 0 .. j - i /\ i + (k - i) = k
    BY <1>2
  <2> QED
    BY <1>8, <2>1
<1> QED
  BY <1>9

(* The windows that ErrorSpikes makes of the flagged rows F of a history   *)
(* M: where they may start and end, and where one ends.                    *)
Near(M, i, j) == M[j].time - M[i].time <= 2 * SpikeMinDuration

Before(F, j) == {i \in F : i < j}

After(F, i) == {j \in F : j > i}

Starts(M, F) == {j \in F : Before(F, j) = {} \/ ~Near(M, Max(Before(F, j)), j)}

Ends(M, F) == {i \in F : After(F, i) = {} \/ ~Near(M, i, Min(After(F, i)))}

EndOf(M, F, i) == Min({k \in Ends(M, F) : k >= i})

AreWindows(window, M, F) ==
  /\ ErrorSpikes(M) = {spike \in {window[i] : i \in Starts(M, F)} :
                         spike.end - spike.start >= SpikeMinDuration}
  /\ \A i \in Starts(M, F) : /\ window[i].start = M[i].time
                             /\ window[i].end = M[EndOf(M, F, i)].time

LEMMA SpikesAreWindows ==
  ASSUME NEW M, M # <<>>, NEW F, F = Scan([i \in DOMAIN M |-> M[i].rate])
  PROVE  \E window : AreWindows(window, M, F)
<1> DEFINE rates == [i \in DOMAIN M |-> M[i].rate]
           Window(i) ==
             LET j == EndOf(M, F, i)
                 peak == Max({rates[k] : k \in F \cap (i..j)})
                 lasts == M[j].time - M[i].time
             IN  [start |-> M[i].time, end |-> M[j].time, peak |-> peak,
                  severity |-> IF peak >= 5 \/ lasts >= CriticalDuration
                               THEN "critical" ELSE "warning"]
           window == [i \in Starts(M, F) |-> Window(i)]
<1>1. ErrorSpikes(M) = {spike \in {Window(i) : i \in Starts(M, F)} :
                         spike.end - spike.start >= SpikeMinDuration}
  BY DEF ErrorSpikes, Starts, Ends, EndOf, Near, Before, After
<1>2. \A i : Window(i).start = M[i].time /\ Window(i).end = M[EndOf(M, F, i)].time
  OBVIOUS
<1> HIDE DEF Window
<1>3. \A i \in Starts(M, F) : window[i] = Window(i)
  OBVIOUS
<1> HIDE DEF window
<1>4. {Window(i) : i \in Starts(M, F)} = {window[i] : i \in Starts(M, F)}
  BY <1>3
<1>5. PICK w : w = window
  OBVIOUS
<1>6. ErrorSpikes(M) = {spike \in {w[i] : i \in Starts(M, F)} :
                         spike.end - spike.start >= SpikeMinDuration}
  BY <1>1, <1>4, <1>5
<1>7. \A i \in Starts(M, F) : w[i].start = M[i].time /\ w[i].end = M[EndOf(M, F, i)].time
  BY <1>2, <1>3, <1>5
<1> QED
  BY <1>6, <1>7 DEF AreWindows

LEMMA LeastMember ==
  ASSUME NEW S \in SUBSET Nat, S # {}
  PROVE  Min(S) \in S /\ \A n \in S : Min(S) <= n
BY LeastNumber DEF Min

LEMMA GreatestMember ==
  ASSUME NEW N \in Nat, NEW S \in SUBSET (0 .. N), S # {}
  PROVE  Max(S) \in S /\ \A n \in S : Max(S) >= n
BY GreatestNumber DEF Max

LEMMA FlaggedRows ==
  ASSUME NEW N \in Nat, NEW F \in SUBSET (1 .. N), NEW i \in F
  PROVE  /\ F \in SUBSET (0 .. N) /\ F \in SUBSET Nat /\ i \in Nat /\ i \in 1 .. N
         /\ Before(F, i) \in SUBSET (0 .. N)
         /\ After(F, i) \in SUBSET Nat
         /\ \A k \in Before(F, i) : k \in F /\ k \in Nat /\ k < i
         /\ \A k \in After(F, i) : k \in F /\ k \in Nat /\ k > i
         /\ \A k \in F : /\ k < i => k \in Before(F, i)
                         /\ k > i => k \in After(F, i)
<1>1. F \in SUBSET (0 .. N) /\ F \in SUBSET Nat /\ i \in Nat /\ i \in 1 .. N
  <2>1. 1 .. N \subseteq 0 .. N /\ 1 .. N \subseteq Nat
    OBVIOUS
  <2> QED
    BY <2>1
<1>2. Before(F, i) \subseteq F /\ After(F, i) \subseteq F
  BY DEF Before, After
<1>3. /\ \A k \in Before(F, i) : k < i
      /\ \A k \in After(F, i) : k > i
      /\ \A k \in F : /\ k < i => k \in Before(F, i)
                      /\ k > i => k \in After(F, i)
  BY DEF Before, After
<1> QED
  BY <1>1, <1>2, <1>3

LEMMA WindowRows ==
  ASSUME NEW M, NEW F
  PROVE  Starts(M, F) \subseteq F /\ Ends(M, F) \subseteq F
BY DEF Starts, Ends

(* Two flagged rows with none between them that are not near are the end   *)
(* of one window and the start of the next.                                *)
LEMMA GapsPartWindows ==
  ASSUME NEW M, NEW N \in Nat, NEW F \in SUBSET (1 .. N),
         NEW i \in F, NEW j \in F, i < j, \A k \in F : k <= i \/ k >= j
  PROVE  /\ j \in Starts(M, F) <=> ~Near(M, i, j)
         /\ i \in Ends(M, F) <=> ~Near(M, i, j)
<1>1. Before(F, j) \in SUBSET (0 .. N) /\ i \in Before(F, j)
  BY FlaggedRows
<1>2. Max(Before(F, j)) = i
  <2>1. PICK k : k = Max(Before(F, j))
    OBVIOUS
  <2>2. k \in Before(F, j) /\ k >= i
    BY <1>1, <2>1, GreatestMember
  <2>3. k \in F /\ k < j /\ k \in Nat /\ i \in Nat /\ j \in Nat
    BY <2>2, FlaggedRows
  <2> QED
    BY <2>1, <2>2, <2>3
<1>3. After(F, i) \in SUBSET Nat /\ j \in After(F, i)
  BY FlaggedRows
<1>4. Min(After(F, i)) = j
  <2>1. Min(After(F, i)) \in After(F, i) /\ Min(After(F, i)) <= j
    BY <1>3, LeastMember
  <2>2. PICK k : k = Min(After(F, i))
    OBVIOUS
  <2>3. k \in F /\ k > i /\ k <= j /\ k \in Nat /\ i \in Nat /\ j \in Nat
    BY <2>1, <2>2, FlaggedRows
  <2> QED
    BY <2>2, <2>3
<1> QED
  BY <1>1, <1>2, <1>3, <1>4 DEF Starts, Ends

(* A window ends at a flagged row from its start on.                       *)
LEMMA WindowsEnd ==
  ASSUME NEW M, NEW N \in Nat, NEW F \in SUBSET (1 .. N), NEW i \in F
  PROVE  /\ EndOf(M, F, i) \in Ends(M, F)
         /\ EndOf(M, F, i) >= i
         /\ \A k \in Ends(M, F) : k >= i => EndOf(M, F, i) <= k
<1>1. PICK high \in F : \A k \in F : high >= k
  BY FlaggedRows, GreatestMember
<1>2. After(F, high) = {}
  <2>1. ASSUME NEW k \in After(F, high) PROVE FALSE
    <3>1. k \in F /\ k > high /\ k \in Nat /\ high \in Nat
      BY <2>1, FlaggedRows
    <3> QED
      BY <1>1, <3>1
  <2> QED
    BY <2>1
<1>3. high \in Ends(M, F)
  BY <1>1, <1>2 DEF Ends
<1> DEFINE S == {k \in Ends(M, F) : k >= i}
<1>4. S \in SUBSET Nat /\ high \in S
  <2>1. Ends(M, F) \subseteq Nat /\ high >= i
    BY <1>1, FlaggedRows, WindowRows
  <2> QED
    BY <1>3, <2>1
<1>5. Min(S) \in S /\ \A k \in S : Min(S) <= k
  <2> HIDE DEF S
  <2> QED
    BY <1>4, LeastMember
<1>6. EndOf(M, F, i) = Min(S)
  BY DEF EndOf
<1> QED
  BY <1>5, <1>6

(* Rows of which each is flagged and near the next are in one window.      *)
LEMMA RunsAreInOneWindow ==
  ASSUME NEW M, NEW N \in Nat, NEW F \in SUBSET (1 .. N),
         NEW i \in F, NEW j \in F, i <= j, i .. j \subseteq F,
         \A k \in i .. j - 1 : Near(M, k, k + 1)
  PROVE  \E start \in Starts(M, F) : start <= i /\ EndOf(M, F, start) >= j
<1> DEFINE S == {k \in Starts(M, F) : k <= i}
<1>1. S \in SUBSET (0 .. N) /\ S # {}
  <2>1. PICK low \in F : \A k \in F : low <= k
    BY FlaggedRows, LeastNumber
  <2>2. ASSUME NEW k \in Before(F, low) PROVE FALSE
    <3>1. k \in F /\ k < low /\ k \in Nat /\ low \in Nat
      BY <2>2, FlaggedRows
    <3> QED
      BY <2>1, <3>1
  <2>3. low \in Starts(M, F) /\ low <= i
    BY <2>1, <2>2 DEF Starts
  <2>4. Starts(M, F) \subseteq 0 .. N
    BY FlaggedRows, WindowRows
  <2> QED
    BY <2>3, <2>4
<1>2. PICK start \in S : \A k \in S : k <= start
  <2> HIDE DEF S
  <2> QED
    BY <1>1, GreatestNumber
<1>3. start \in Starts(M, F) /\ start \in F /\ start <= i
  BY DEF Starts
<1> DEFINE end == EndOf(M, F, start)
<1>4. end \in Ends(M, F) /\ end \in F /\ end >= start
  BY <1>3, WindowsEnd DEF Ends
<1> HIDE DEF end
<1>5. end \in Nat /\ i \in Nat /\ j \in Nat /\ start \in Nat
  BY <1>3, <1>4, FlaggedRows, WindowRows
<1>6. ASSUME end < j PROVE FALSE
  <2>1. After(F, end) \in SUBSET Nat /\ j \in After(F, end)
    BY <1>4, <1>6, FlaggedRows, WindowRows
  <2>2. PICK next : next = Min(After(F, end))
    OBVIOUS
  <2>3. next \in After(F, end) /\ \A k \in After(F, end) : next <= k
    BY <2>1, <2>2, LeastMember
  <2>4. next \in F /\ end < next /\ next <= j /\ \A k \in F : k <= end \/ k >= next
    <3>1. next \in F /\ next > end /\ next \in Nat
      BY <1>4, <2>3, FlaggedRows, WindowRows
    <3>2. \A k \in F : k \in Nat /\ (k > end => next <= k)
      BY <1>4, <2>3, FlaggedRows, WindowRows
    <3> QED
      BY <1>5, <2>1, <2>3, <3>1, <3>2
  <2>5. ~Near(M, end, next) /\ next \in Starts(M, F)
    BY <1>4, <2>4, GapsPartWindows
  <2>6. next > i
    <3>1. next \in Nat
      BY <2>4, FlaggedRows, WindowRows
    <3> QED
      BY <1>2, <1>4, <1>5, <2>4, <2>5, <3>1
  <2>7. end >= i
    BY <1>5, <2>4, <2>6
  <2>8. next = end + 1
    <3>1. end + 1 \in F
      BY <1>5, <1>6, <2>7
    <3> QED
      <4>1. next \in Nat
        BY <2>4, FlaggedRows, WindowRows
      <4> QED
        BY <1>5, <2>4, <3>1, <4>1
  <2>9. end \in i .. j - 1
    BY <1>5, <1>6, <2>7
  <2> QED
    BY <2>5, <2>8, <2>9
<1>7. end >= j
  BY <1>5, <1>6
<1> QED
  BY <1>3, <1>7 DEF end

(* A window ends before the next starts, and not near it.                  *)
LEMMA WindowsAreApart ==
  ASSUME NEW M, NEW N \in Nat, NEW F \in SUBSET (1 .. N),
         \A k \in 1 .. N : M[k].time \in Nat,
         \A k, n \in 1 .. N : k <= n => M[k].time <= M[n].time,
         NEW i \in Starts(M, F), NEW j \in Starts(M, F), i < j
  PROVE  M[EndOf(M, F, i)].time + 2 * SpikeMinDuration < M[j].time
<1>1. i \in F /\ j \in F
  BY DEF Starts
<1>2. Before(F, j) \in SUBSET (0 .. N) /\ i \in Before(F, j)
  BY <1>1, FlaggedRows, WindowRows
<1>3. PICK last : last = Max(Before(F, j))
  OBVIOUS
<1>4. last \in Before(F, j) /\ \A k \in Before(F, j) : last >= k
  BY <1>2, <1>3, GreatestMember
<1>5. last \in F /\ last < j /\ last >= i /\ \A k \in F : k <= last \/ k >= j
  <2>1. last \in F /\ last < j /\ last >= i
    BY <1>1, <1>2, <1>4, FlaggedRows, WindowRows
  <2>2. ASSUME NEW k \in F PROVE k <= last \/ k >= j
    <3>1. k \in Nat /\ last \in Nat /\ j \in Nat /\ (k < j => last >= k)
      BY <1>1, <1>4, <2>1, FlaggedRows, WindowRows
    <3> QED
      BY <3>1
  <2> QED
    BY <2>1, <2>2
<1>6. ~Near(M, last, j) /\ last \in Ends(M, F)
  BY <1>1, <1>5, GapsPartWindows
<1>7. PICK end : end = EndOf(M, F, i)
  OBVIOUS
<1>8. end \in F /\ end <= last
  BY <1>1, <1>5, <1>6, <1>7, WindowsEnd, FlaggedRows, WindowRows
<1>9. /\ M[end].time \in Nat /\ M[last].time \in Nat /\ M[j].time \in Nat
      /\ M[end].time <= M[last].time
  BY <1>1, <1>5, <1>8
<1> QED
  BY <1>6, <1>7, <1>9, AnalysisAssumption DEF Near

-----------------------------------------------------------------------------
(* RunAnalysis: lists and sums.                                            *)

LEMMA FiniteImage ==
  ASSUME NEW S, IsFiniteSet(S), NEW f
  PROVE  IsFiniteSet({f[x] : x \in S})
<1> DEFINE T == {f[x] : x \in S}
           g == [x \in S |-> f[x]]
<1>1. g \in Surjection(S, T)
  BY DEF Surjection
<1> HIDE DEF g, T
<1>2. IsFiniteSet(T)
  BY <1>1, FS_Surjection
<1> QED
  BY <1>2 DEF T

LEMMA FiniteSetHasGreatest ==
  ASSUME NEW S \in SUBSET Nat, IsFiniteSet(S), S # {}
  PROVE  \E n \in S : \A m \in S : m <= n
<1> DEFINE HasGreatest(X) == \E n \in X : \A m \in X : m <= n
           T == {k \in Nat : \A X \in SUBSET Nat :
                  IsFiniteSet(X) /\ Cardinality(X) = k + 1 => HasGreatest(X)}
<1>1. 0 \in T
  <2> SUFFICES ASSUME NEW X \in SUBSET Nat, IsFiniteSet(X), Cardinality(X) = 0 + 1
               PROVE  HasGreatest(X)
    OBVIOUS
  <2>1. \E x : X = {x}
    <3>1. Cardinality(X) = 1
      OBVIOUS
    <3> QED
      BY <3>1, FS_Singleton
  <2> QED
    BY <2>1
<1>2. ASSUME NEW k \in Nat, k \in T PROVE k + 1 \in T
  <2> SUFFICES ASSUME NEW X \in SUBSET Nat, IsFiniteSet(X), Cardinality(X) = (k + 1) + 1
               PROVE  HasGreatest(X)
    OBVIOUS
  <2>1. PICK x \in X : TRUE
    <3>1. Cardinality(X) # 0
      OBVIOUS
    <3>2. X # {}
      BY <3>1, FS_EmptySet
    <3> QED
      BY <3>2
  <2>2. IsFiniteSet(X \ {x}) /\ Cardinality(X \ {x}) = k + 1
    <3>1. IsFiniteSet(X \ {x}) /\ Cardinality(X \ {x}) = Cardinality(X) - 1
      BY FS_RemoveElement
    <3> QED
      BY <3>1
  <2>3. PICK n \in X \ {x} : \A m \in X \ {x} : m <= n
    BY <1>2, <2>2
  <2>4. n \in Nat /\ x \in Nat
    OBVIOUS
  <2>5. CASE x <= n
    BY <2>3, <2>5
  <2>6. CASE n <= x
    <3>1. ASSUME NEW m \in X PROVE m <= x
      BY <2>3, <2>4, <2>6
    <3> QED
      BY <3>1
  <2> QED
    BY <2>4, <2>5, <2>6
<1>3. Nat \subseteq T
  <2> HIDE DEF T
  <2> QED
    BY <1>1, <1>2, NatSetInduction
<1>4. Cardinality(S) \in Nat /\ Cardinality(S) # 0
  BY FS_CardinalityType, FS_EmptySet
<1>5. Cardinality(S) - 1 \in T /\ Cardinality(S) = (Cardinality(S) - 1) + 1
  BY <1>3, <1>4
<1> QED
  BY <1>5

LEMMA GreatestOfFinite ==
  ASSUME NEW S \in SUBSET Nat, IsFiniteSet(S), S # {}
  PROVE  Max(S) \in S /\ \A n \in S : Max(S) >= n
BY FiniteSetHasGreatest DEF Max

(* Every place of the ascending list is taken by a number of the set.      *)
HasRank(S, x, k) == Cardinality({y \in S : y < x}) = k - 1

LEMMA RanksAreTaken ==
  ASSUME NEW S \in SUBSET Nat, IsFiniteSet(S), NEW k \in 1 .. Cardinality(S)
  PROVE  \E x \in S : HasRank(S, x, k)
<1> DEFINE Ranked(X) == \A n \in 1 .. Cardinality(X) : \E x \in X : HasRank(X, x, n)
           T == {c \in Nat : \A X \in SUBSET Nat :
                  IsFiniteSet(X) /\ Cardinality(X) = c => Ranked(X)}
<1>1. 0 \in T
  OBVIOUS
<1>2. ASSUME NEW c \in Nat, c \in T PROVE c + 1 \in T
  <2> SUFFICES ASSUME NEW X \in SUBSET Nat, IsFiniteSet(X), Cardinality(X) = c + 1
               PROVE  Ranked(X)
    OBVIOUS
  <2>1. X # {}
    BY FS_EmptySet
  <2>2. PICK high \in X : \A x \in X : x <= high
    BY <2>1, FiniteSetHasGreatest
  <2> DEFINE Y == X \ {high}
  <2>3. Y \in SUBSET Nat /\ IsFiniteSet(Y) /\ Cardinality(Y) = c
    <3>1. IsFiniteSet(Y) /\ Cardinality(Y) = Cardinality(X) - 1
      BY FS_RemoveElement
    <3> QED
      BY <3>1
  <2>4. {y \in X : y < high} = Y
    <3>1. ASSUME NEW y \in X PROVE y < high <=> y # high
      <4>1. y \in Nat /\ high \in Nat /\ y <= high
        BY <2>2
      <4> QED
        BY <4>1
    <3> QED
      BY <3>1
  <2>5. ASSUME NEW x \in Y PROVE {y \in X : y < x} = {y \in Y : y < x}
    <3>1. x \in Nat /\ high \in Nat /\ x <= high
      BY <2>2
    <3> QED
      BY <3>1
  <2>6. Ranked(Y)
    BY <1>2, <2>3
  <2> SUFFICES ASSUME NEW n \in 1 .. c + 1 PROVE \E x \in X : HasRank(X, x, n)
    OBVIOUS
  <2>7. CASE n = c + 1
    <3>1. Cardinality({y \in X : y < high}) = n - 1
      BY <2>3, <2>4, <2>7
    <3> QED
      BY <3>1 DEF HasRank
  <2>8. CASE n # c + 1
    <3>1. n \in 1 .. Cardinality(Y)
      BY <2>3, <2>8
    <3>2. PICK x \in Y : HasRank(Y, x, n)
      BY <2>6, <3>1
    <3> QED
      BY <2>5, <3>2 DEF HasRank
  <2> QED
    BY <2>7, <2>8
<1>3. Nat \subseteq T
  <2> HIDE DEF T
  <2> QED
    BY <1>1, <1>2, NatSetInduction
<1>4. Cardinality(S) \in T
  BY <1>3, FS_CardinalityType
<1> QED
  BY <1>4

LEMMA AscendingListsMembers ==
  ASSUME NEW S \in SUBSET Nat, IsFiniteSet(S)
  PROVE  /\ Cardinality(S) \in Nat
         /\ Ascending(S) \in [1 .. Cardinality(S) -> S]
         /\ \A k \in 1 .. Cardinality(S) : HasRank(S, Ascending(S)[k], k)
<1>1. ASSUME NEW k \in 1 .. Cardinality(S)
      PROVE  Ascending(S)[k] \in S /\ HasRank(S, Ascending(S)[k], k)
  <2>1. \E x \in S : HasRank(S, x, k)
    BY RanksAreTaken
  <2>2. Ascending(S)[k] = CHOOSE x \in S : HasRank(S, x, k)
    BY DEF Ascending, HasRank
  <2> QED
    BY <2>1, <2>2
<1>2. Cardinality(S) \in Nat
  BY FS_CardinalityType
<1>3. Ascending(S) = [k \in 1 .. Cardinality(S) |-> Ascending(S)[k]]
  <2> DEFINE At(k) == CHOOSE x \in S : Cardinality({y \in S : y < x}) = k - 1
  <2>1. Ascending(S) = [k \in 1 .. Cardinality(S) |-> At(k)]
    BY DEF Ascending
  <2> HIDE DEF At
  <2> QED
    BY <2>1
<1> QED
  BY <1>1, <1>2, <1>3

(* The ascending list climbs.                                              *)
LEMMA AscendingListClimbs ==
  ASSUME NEW S \in SUBSET Nat, IsFiniteSet(S)
  PROVE  \A i \in 1 .. Cardinality(S) - 1 : Ascending(S)[i] < Ascending(S)[i + 1]
<1>1. PICK list, n : list = Ascending(S) /\ n = Cardinality(S)
  OBVIOUS
<1>2. /\ n \in Nat /\ \A i \in 1 .. n : list[i] \in S /\ HasRank(S, list[i], i)
  BY <1>1, AscendingListsMembers
<1>3. ASSUME NEW i \in 1 .. n - 1 PROVE list[i] < list[i + 1]
  <2>1. i \in 1 .. n /\ i + 1 \in 1 .. n
    BY <1>2
  <2>2. PICK x, y : x = list[i] /\ y = list[i + 1]
    OBVIOUS
  <2>3. x \in Nat /\ y \in Nat
    BY <1>2, <2>1, <2>2
  <2> DEFINE Below(z) == {m \in S : m < z}
  <2>4. Cardinality(Below(x)) = i - 1 /\ Cardinality(Below(y)) = (i + 1) - 1
    BY <1>2, <2>1, <2>2 DEF HasRank
  <2>5. ASSUME y <= x PROVE FALSE
    <3>1. ASSUME NEW m \in S, m < y PROVE m < x
      <4>1. m \in Nat
        OBVIOUS
      <4> QED
        BY <2>3, <2>5, <3>1, <4>1
    <3>2. Below(y) \subseteq Below(x)
      BY <3>1
    <3>3. IsFiniteSet(Below(x))
      BY FS_Subset
    <3>4. Cardinality(Below(y)) <= Cardinality(Below(x))
      BY <3>2, <3>3, FS_Subset
    <3> QED
      BY <2>4, <3>4
  <2> QED
    BY <2>2, <2>3, <2>5
<1> QED
  BY <1>1, <1>3

LEMMA AggregatedRows ==
  ASSUME NEW M \in Seq(HistoryRow)
  PROVE  Aggregated(M) \in Seq(HistoryRow)
<1> DEFINE S == {i \in DOMAIN M : M[i].name = "Aggregated"}
<1>1. S \in SUBSET Nat /\ IsFiniteSet(S) /\ S \subseteq 1 .. Len(M)
  <2>1. Len(M) \in Nat /\ DOMAIN M = 1 .. Len(M)
    OBVIOUS
  <2>2. IsFiniteSet(1 .. Len(M))
    BY <2>1, FS_Interval
  <2> QED
    BY <2>1, <2>2, FS_Subset
<1>2. Aggregated(M) = [k \in DOMAIN Ascending(S) |-> M[Ascending(S)[k]]]
  BY DEF Aggregated
<1> HIDE DEF S
<1>3. Cardinality(S) \in Nat /\ Ascending(S) \in [1 .. Cardinality(S) -> S]
  BY <1>1, AscendingListsMembers
<1>4. PICK n, pos : n = Cardinality(S) /\ pos = Ascending(S)
  OBVIOUS
<1>5. n \in Nat /\ \A k \in 1 .. n : M[pos[k]] \in HistoryRow
  <2>1. ASSUME NEW k \in 1 .. n PROVE M[pos[k]] \in HistoryRow
    <3>1. pos[k] \in 1 .. Len(M)
      BY <1>1, <1>3, <1>4
    <3> QED
      BY <3>1
  <2> QED
    BY <1>3, <1>4, <2>1
<1>6. Aggregated(M) = [k \in 1 .. n |-> M[pos[k]]]
  BY <1>2, <1>3, <1>4
<1> QED
  BY <1>5, <1>6

(* What SumOf adds up.                                                     *)
AddsUp(sum, series) ==
  /\ sum \in [0 .. Len(series) -> Int]
  /\ sum[0] = 0
  /\ \A i \in 1 .. Len(series) : sum[i] = sum[i - 1] + series[i]
  /\ SumOf(series) = sum[Len(series)]

LEMMA SumsAddUp ==
  ASSUME NEW series \in Seq(Int)
  PROVE  \E sum : AddsUp(sum, series)
<1> DEFINE N == Len(series)
           Round(f, i) == IF i = 0 THEN 0 ELSE f[i - 1] + series[i]
           Loop(f) == f = [i \in 0 .. N |-> Round(f, i)]
           step == [p \in (1 .. N) \X Int |-> p[2] + series[p[1]]]
<1>1. N \in Nat /\ \A i \in 1 .. N : series[i] \in Int
  OBVIOUS
<1> HIDE DEF N
<1>2. \A n \in 1 .. N, x \in Int : step[<<n, x>>] = x + series[n]
  OBVIOUS
<1> HIDE DEF step
<1>3. IsStep(step, N, Int)
  <2>1. ASSUME NEW n \in 1 .. N, NEW x \in Int PROVE step[<<n, x>>] \in Int
    BY <1>1, <1>2
  <2> QED
    BY <2>1 DEF IsStep
<1>4. PICK f : Unfolds(f, N, Int, 0, step)
  <2>1. PICK Z, zero : Z = Int /\ zero = 0
    OBVIOUS
  <2>2. zero \in Z /\ IsStep(step, N, Z)
    BY <1>3, <2>1
  <2>3. \E f : Unfolds(f, N, Z, zero, step)
    BY <1>1, <2>2, RecursionHasSolution
  <2> QED
    BY <2>1, <2>3
<1>5. ASSUME NEW i \in 0 .. N PROVE f[i] = Round(f, i)
  <2>1. CASE i = 0
    BY <1>4, <2>1 DEF Unfolds
  <2>2. CASE i # 0
    <3>1. i \in 1 .. N /\ i - 1 \in 0 .. N
      BY <1>1, <2>2
    <3>2. f[i - 1] \in Int /\ f[i] = step[<<i, f[i - 1]>>]
      BY <1>4, <3>1 DEF Unfolds
    <3> QED
      BY <1>2, <2>2, <3>1, <3>2
  <2> QED
    BY <2>1, <2>2
<1>6. Loop(f)
  <2> HIDE DEF Round
  <2> QED
    BY <1>4, <1>5 DEF Unfolds
<1>7. PICK sum : Loop(sum) /\ SumOf(series) = sum[N]
  BY <1>6 DEF SumOf, N
<1>8. sum[0] = 0 /\ \A i \in 1 .. N : sum[i] = sum[i - 1] + series[i]
  <2>1. \A i \in 0 .. N : sum[i] = Round(sum, i)
    <3> HIDE DEF Round
    <3> QED
      BY <1>7
  <2> QED
    BY <1>1, <2>1
<1> DEFINE T == {i \in 0 .. N : sum[i] \in Int}
<1>9. 0 .. N \subseteq T
  <2>1. 0 \in T /\ \A i \in 1 .. N : i - 1 \in T => i \in T
    BY <1>1, <1>8
  <2> HIDE DEF T
  <2> QED
    BY <1>1, <2>1, UpwardInduction
<1>10. sum \in [0 .. N -> Int]
  <2>1. \A i \in 0 .. N : sum[i] \in Int
    BY <1>9
  <2> HIDE DEF Round
  <2> QED
    BY <1>7, <2>1
<1> HIDE DEF Loop
<1> QED
  BY <1>7, <1>8, <1>10 DEF AddsUp, N

LEMMA SumIsAnInteger ==
  ASSUME NEW series \in Seq(Int)
  PROVE  SumOf(series) \in Int
<1>1. PICK sum : AddsUp(sum, series)
  BY SumsAddUp
<1>2. Len(series) \in 0 .. Len(series)
  OBVIOUS
<1> QED
  BY <1>1, <1>2 DEF AddsUp

IsCombination(z, a, x, b, y) ==
  /\ x \in Seq(Int) /\ y \in Seq(Int) /\ z \in Seq(Int)
  /\ Len(x) = Len(z) /\ Len(y) = Len(z)
  /\ \A i \in 1 .. Len(z) : z[i] = a * x[i] + b * y[i]

LEMMA SumIsLinear ==
  ASSUME NEW x, NEW y, NEW z, NEW a \in Int, NEW b \in Int, IsCombination(z, a, x, b, y)
  PROVE  SumOf(z) = a * SumOf(x) + b * SumOf(y)
<1>1. PICK N : N = Len(z)
  OBVIOUS
<1>2. /\ N \in Nat /\ N = Len(x) /\ N = Len(y)
      /\ \A i \in 1 .. N : x[i] \in Int /\ y[i] \in Int /\ z[i] = a * x[i] + b * y[i]
  BY <1>1 DEF IsCombination
<1>3. PICK sx, sy, sz : AddsUp(sx, x) /\ AddsUp(sy, y) /\ AddsUp(sz, z)
  BY SumsAddUp DEF IsCombination
<1> DEFINE T == {i \in 0 .. N : sz[i] = a * sx[i] + b * sy[i]}
<1>4. 0 \in T
  BY <1>2, <1>3 DEF AddsUp
<1>5. ASSUME NEW i \in 1 .. N, i - 1 \in T PROVE i \in T
  <2>1. PICK p, q : p = sx[i - 1] /\ q = sy[i - 1]
    OBVIOUS
  <2>2. i - 1 \in 0 .. N /\ i \in 0 .. N
    BY <1>2
  <2>3. p \in Int /\ q \in Int /\ sz[i - 1] = a * p + b * q
    BY <1>1, <1>2, <1>3, <1>5, <2>1, <2>2 DEF AddsUp
  <2>4. sx[i] = p + x[i] /\ sy[i] = q + y[i] /\ sz[i] = sz[i - 1] + z[i]
    BY <1>1, <1>2, <1>3, <2>1 DEF AddsUp
  <2>5. x[i] \in Int /\ y[i] \in Int /\ z[i] = a * x[i] + b * y[i]
    BY <1>2
  <2>6. PICK u, v : u = x[i] /\ v = y[i]
    OBVIOUS
  <2>7. u \in Int /\ v \in Int
    BY <2>5, <2>6
  <2>8. a * (p + u) + b * (q + v) = (a * p + b * q) + (a * u + b * v)
    BY <2>3, <2>7
  <2> QED
    BY <2>2, <2>3, <2>4, <2>5, <2>6, <2>8
<1>6. 0 .. N \subseteq T
  <2> HIDE DEF T
  <2> QED
    BY <1>2, <1>4, <1>5, UpwardInduction
<1>7. sz[N] = a * sx[N] + b * sy[N]
  BY <1>2, <1>6
<1> QED
  BY <1>1, <1>2, <1>3, <1>7 DEF AddsUp

LEMMA SumOfOnes ==
  ASSUME NEW N \in Nat
  PROVE  SumOf([i \in 1 .. N |-> 1]) = N
<1> DEFINE ones == [i \in 1 .. N |-> 1]
<1>1. ones \in Seq(Int) /\ Len(ones) = N /\ \A i \in 1 .. N : ones[i] = 1
  OBVIOUS
<1> HIDE DEF ones
<1>2. PICK sum : AddsUp(sum, ones)
  BY <1>1, SumsAddUp
<1> DEFINE T == {i \in 0 .. N : sum[i] = i}
<1>3. 0 \in T /\ \A i \in 1 .. N : i - 1 \in T => i \in T
  BY <1>1, <1>2 DEF AddsUp
<1>4. 0 .. N \subseteq T
  <2> HIDE DEF T
  <2> QED
    BY <1>3, UpwardInduction
<1>5. SumOf(ones) = N
  BY <1>1, <1>2, <1>4 DEF AddsUp
<1> QED
  BY <1>5 DEF ones

-----------------------------------------------------------------------------
(* RunAnalysis: the knee and the capacity.                                 *)

(* The curve goes through the aggregated rows, from left to right.         *)
IsCurve(curve, M) ==
  /\ Len(curve) \in Nat
  /\ DOMAIN curve = 1 .. Len(curve)
  /\ \A i \in 1 .. Len(curve) - 1 : curve[i].rps < curve[i + 1].rps
  /\ \A i \in 1 .. Len(curve) :
       /\ curve[i].rps \in Nat
       /\ curve[i].p95 \in Nat
       /\ \E k \in DOMAIN Aggregated(M) : curve[i].rps = Aggregated(M)[k].rps

LEMMA CurveIsOfRows ==
  ASSUME NEW M \in Seq(HistoryRow)
  PROVE  IsCurve(Curve(M), M)
<1> DEFINE points == Range(Aggregated(M))
           loads == {point.rps : point \in points}
           At(x) == {point.p95 : point \in {p \in points : p.rps = x}}
<1>1. PICK agg : agg = Aggregated(M)
  OBVIOUS
<1>2. agg \in Seq(HistoryRow) /\ Len(agg) \in Nat /\ DOMAIN agg = 1 .. Len(agg)
  BY <1>1, AggregatedRows
<1>3. points = {agg[k] : k \in 1 .. Len(agg)}
  BY <1>1, <1>2 DEF Range
<1>4. IsFiniteSet(points) /\ points \subseteq HistoryRow
  <2>1. IsFiniteSet(1 .. Len(agg))
    BY <1>2, FS_Interval
  <2>2. \A k \in 1 .. Len(agg) : agg[k] \in HistoryRow
    BY <1>2
  <2> QED
    BY <1>3, <2>1, <2>2, FiniteImage
<1> HIDE DEF points
<1>5. \A point \in points : point.rps \in Nat /\ point.p95 \in Nat
  BY <1>4 DEF HistoryRow
<1>6. loads \in SUBSET Nat /\ IsFiniteSet(loads)
  <2> DEFINE rps == [point \in points |-> point.rps]
  <2>1. loads = {rps[point] : point \in points}
    OBVIOUS
  <2> HIDE DEF rps
  <2>2. IsFiniteSet(loads)
    BY <1>4, <2>1, FiniteImage
  <2> QED
    BY <1>5, <2>2
<1>7. ASSUME NEW x \in loads PROVE Max(At(x)) \in Nat
  <2> DEFINE p95 == [point \in points |-> point.p95]
             same == {p \in points : p.rps = x}
  <2>1. At(x) = {p95[point] : point \in same}
    OBVIOUS
  <2>2. IsFiniteSet(same)
    BY <1>4, FS_Subset
  <2>3. At(x) \in SUBSET Nat /\ At(x) # {}
    BY <1>5
  <2>4. IsFiniteSet(At(x))
    <3> HIDE DEF p95, same, At
    <3> QED
      BY <2>1, <2>2, FiniteImage
  <2> HIDE DEF At
  <2>5. Max(At(x)) \in At(x)
    BY <2>3, <2>4, GreatestOfFinite
  <2> QED
    BY <2>3, <2>5
<1>8. PICK rates, n : rates = Ascending(loads) /\ n = Cardinality(loads)
  OBVIOUS
<1>9. n \in Nat /\ rates \in [1 .. n -> loads]
  <2> HIDE DEF loads
  <2> QED
    BY <1>6, <1>8, AscendingListsMembers
<1>10. Curve(M) = [i \in DOMAIN rates |-> [rps |-> rates[i], p95 |-> Max(At(rates[i]))]]
  BY <1>8 DEF Curve, points
<1> HIDE DEF At, loads
<1>11. PICK curve : curve = Curve(M)
  OBVIOUS
<1>12. DOMAIN curve = 1 .. n /\ Len(curve) = n
  BY <1>9, <1>10, <1>11
<1>13. ASSUME NEW i \in 1 .. n
       PROVE  /\ curve[i].rps \in Nat
              /\ curve[i].p95 \in Nat
              /\ \E k \in DOMAIN agg : curve[i].rps = agg[k].rps
  <2>1. rates[i] \in loads /\ curve[i].rps = rates[i] /\ curve[i].p95 = Max(At(rates[i]))
    BY <1>9, <1>10, <1>11
  <2>2. PICK point \in points : rates[i] = point.rps
    BY <2>1 DEF loads
  <2> QED
    BY <1>2, <1>3, <1>5, <1>7, <2>1, <2>2
<1>14. ASSUME NEW i \in 1 .. n - 1 PROVE curve[i].rps < curve[i + 1].rps
  <2>1. rates[i] < rates[i + 1]
    BY <1>6, <1>8, AscendingListClimbs
  <2>2. i \in 1 .. n /\ i + 1 \in 1 .. n
    BY <1>9
  <2>3. curve[i].rps = rates[i] /\ curve[i + 1].rps = rates[i + 1]
    BY <1>9, <1>10, <1>11, <2>2
  <2> QED
    BY <2>1, <2>3
<1> QED
  BY <1>1, <1>9, <1>11, <1>12, <1>13, <1>14 DEF IsCurve

(* The bend of a curve: the first of its points farthest from the chord.   *)
BendOf(curve) ==
  LET inner == 2 .. Len(curve) - 1
      farthest == Max({FromChord(curve, i) : i \in inner})
  IN  Min({i \in inner : FromChord(curve, i) = farthest})

LEMMA BendIsFarthest ==
  ASSUME NEW M, NEW curve, IsCurve(curve, M), Len(curve) >= 5
  PROVE  /\ BendOf(curve) \in 2 .. Len(curve) - 1
         /\ \A i \in 2 .. Len(curve) - 1 : /\ FromChord(curve, i) \in Nat
                                           /\ FromChord(curve, i) <= FromChord(curve, BendOf(curve))
<1> DEFINE inner == 2 .. Len(curve) - 1
           farthest == Max({FromChord(curve, i) : i \in inner})
           bends == {i \in inner : FromChord(curve, i) = farthest}
<1>1. BendOf(curve) = Min(bends)
  BY DEF BendOf
<1>3. Len(curve) \in Nat
  BY DEF IsCurve
<1>4. inner = 2 .. Len(curve) - 1
  OBVIOUS
<1> HIDE DEF inner
<1>5. 2 \in inner /\ inner \in SUBSET (1 .. Len(curve)) /\ inner \in SUBSET Nat
  BY <1>3, <1>4
<1>6. ASSUME NEW i \in inner PROVE FromChord(curve, i) \in Nat
  <2>1. 1 \in 1 .. Len(curve) /\ Len(curve) \in 1 .. Len(curve) /\ i \in 1 .. Len(curve)
    BY <1>3, <1>4, <1>5
  <2>2. PICK x1, y1, xn, yn, x, y :
             /\ x1 = curve[1].rps /\ xn = curve[Len(curve)].rps /\ x = curve[i].rps
             /\ y1 = curve[1].p95 /\ yn = curve[Len(curve)].p95 /\ y = curve[i].p95
    OBVIOUS
  <2>3. /\ x1 \in Int /\ xn \in Int /\ x \in Int
        /\ y1 \in Int /\ yn \in Int /\ y \in Int
    BY <2>1, <2>2 DEF IsCurve
  <2>4. PICK d : d = (yn - y1) * (x - x1) - (xn - x1) * (y - y1)
    OBVIOUS
  <2>5. d \in Int
    BY <2>3, <2>4
  <2>6. FromChord(curve, i) = IF d < 0 THEN -d ELSE d
    BY <2>2, <2>4 DEF FromChord
  <2> QED
    BY <2>5, <2>6
<1> DEFINE far == [i \in inner |-> FromChord(curve, i)]
<1>7. /\ \E i \in inner : FromChord(curve, i) = farthest
      /\ \A i \in inner : FromChord(curve, i) <= farthest
  <2>1. {FromChord(curve, i) : i \in inner} = {far[i] : i \in inner}
    OBVIOUS
  <2>2. IsFiniteSet(inner)
    BY <1>3, <1>4, FS_Interval
  <2> HIDE DEF far
  <2> DEFINE S == {far[i] : i \in inner}
  <2>3. IsFiniteSet(S)
    BY <2>2, FiniteImage
  <2>4. S \in SUBSET Nat /\ S # {}
    BY <1>5, <1>6 DEF far
  <2> HIDE DEF S
  <2>5. Max(S) \in S /\ \A n \in S : Max(S) >= n
    BY <2>3, <2>4, GreatestOfFinite
  <2>6. farthest = Max(S)
    BY <2>1 DEF S
  <2>7. ASSUME NEW i \in inner PROVE FromChord(curve, i) <= farthest
    <3>1. FromChord(curve, i) \in S
      BY DEF S, far
    <3> QED
      BY <2>4, <2>5, <2>6, <3>1
  <2>8. \E i \in inner : FromChord(curve, i) = farthest
    BY <2>5, <2>6 DEF S, far
  <2> QED
    BY <2>7, <2>8
<1>8. bends \in SUBSET Nat /\ bends # {} /\ bends \subseteq inner
  <2> HIDE DEF farthest
  <2> QED
    BY <1>5, <1>7
<1>9. Min(bends) \in bends
  <2> HIDE DEF bends
  <2> QED
    BY <1>8, LeastMember
<1>10. BendOf(curve) \in inner /\ FromChord(curve, BendOf(curve)) = farthest
  <2> HIDE DEF farthest
  <2> QED
    BY <1>1, <1>9
<1> QED
  BY <1>4, <1>6, <1>7, <1>10

(* What Knee makes of the curve.                                           *)
SlopeWithin(curve, from, to) ==
  Slope(SubSeq([i \in DOMAIN curve |-> curve[i].rps], from, to),
        SubSeq([i \in DOMAIN curve |-> curve[i].p95], from, to))

TurnsUp(before, after) ==
  IF before.num <= 0 THEN after.num > 0
  ELSE after.num * before.den >= 2 * before.num * after.den

LEMMA KneeIsTheFarthest ==
  ASSUME NEW M, NEW curve, curve = Curve(M), NEW bend, bend = BendOf(curve),
         Len(curve) >= 5, Len(curve) \in Nat
  PROVE  Knee(M) = IF /\ Cardinality({curve[i].p95 : i \in DOMAIN curve}) # 1
                      /\ TurnsUp(SlopeWithin(curve, 1, bend),
                                 SlopeWithin(curve, bend, Len(curve)))
                   THEN curve[bend] ELSE NoKnee
BY DEF Knee, BendOf, TurnsUp, SlopeWithin

(* A knee is a point of the curve.                                         *)
LEMMA KneeIsOfCurve ==
  ASSUME NEW M \in Seq(HistoryRow), Knee(M) # NoKnee
  PROVE  \E i \in 1 .. Len(Curve(M)) : Knee(M) = Curve(M)[i]
<1>1. PICK curve, bend : curve = Curve(M) /\ bend = BendOf(curve)
  OBVIOUS
<1>2. IsCurve(curve, M) /\ Len(curve) \in Nat
  BY <1>1, CurveIsOfRows DEF IsCurve
<1>3. Len(curve) >= 5
  BY <1>1, <1>2 DEF Knee
<1>4. bend \in 2 .. Len(curve) - 1
  BY <1>1, <1>2, <1>3, BendIsFarthest
<1>5. Knee(M) = curve[bend]
  BY <1>1, <1>2, <1>3, KneeIsTheFarthest
<1> QED
  BY <1>1, <1>2, <1>4, <1>5

LEMMA FittedIsASeries ==
  ASSUME NEW values \in Seq(Nat), values # <<>>
  PROVE  Fitted(values) \in Seq(Int) /\ Len(Fitted(values)) = Len(values)
<1>1. \/ Fitted(values) = Ewma(values)
      \/ Fitted(values) = [i \in DOMAIN values |-> Scale * values[i]]
  BY DEF Fitted
<1>2. Len(values) \in Nat /\ DOMAIN values = 1 .. Len(values)
  OBVIOUS
<1>3. CASE Fitted(values) = Ewma(values)
  <2>1. Fitted(values) \in [1 .. Len(values) -> Nat]
    BY <1>3, EwmaOfRates
  <2> QED
    BY <1>2, <2>1
<1>4. CASE Fitted(values) = [i \in DOMAIN values |-> Scale * values[i]]
  <2>1. ASSUME NEW i \in 1 .. Len(values) PROVE Scale * values[i] \in Int
    <3>1. values[i] \in Nat
      OBVIOUS
    <3> QED
      BY <3>1 DEF Scale
  <2> QED
    BY <1>2, <1>4, <2>1
<1> QED
  BY <1>1, <1>3, <1>4

LEMMA ProductsAreASeries ==
  ASSUME NEW x \in Seq(Int), NEW y \in Seq(Int), Len(x) = Len(y)
  PROVE  /\ Products(x, y) \in Seq(Int)
         /\ Len(Products(x, y)) = Len(x)
         /\ \A i \in 1 .. Len(x) : Products(x, y)[i] = x[i] * y[i]
<1>1. Len(x) \in Nat /\ DOMAIN x = 1 .. Len(x)
  OBVIOUS
<1>2. ASSUME NEW i \in 1 .. Len(x) PROVE x[i] * y[i] \in Int
  <2>1. x[i] \in Int /\ y[i] \in Int
    OBVIOUS
  <2> QED
    BY <2>1
<1> QED
  BY <1>1, <1>2 DEF Products

(* The slope of a line is its slope, whatever the points on it.            *)
IsLine(y, a, b, x) ==
  /\ x \in Seq(Int) /\ y \in Seq(Int) /\ Len(x) = Len(y)
  /\ \A i \in 1 .. Len(x) : y[i] = a + b * x[i]

LEMMA SlopeOfLine ==
  ASSUME NEW x, NEW y, NEW a \in Int, NEW b \in Int, IsLine(y, a, b, x)
  PROVE  /\ SumOf(y) = Len(x) * a + b * SumOf(x)
         /\ Slope(x, y).den \in Int
         /\ Slope(x, y).num = b * Slope(x, y).den
<1>1. PICK n : n = Len(x)
  OBVIOUS
<1>2. /\ x \in Seq(Int) /\ y \in Seq(Int) /\ n \in Nat /\ Len(y) = n
      /\ \A i \in 1 .. n : x[i] \in Int /\ y[i] \in Int /\ y[i] = a + b * x[i]
  BY <1>1 DEF IsLine
<1>3. PICK ones : ones = [i \in 1 .. n |-> 1]
  OBVIOUS
<1>4. /\ ones \in Seq(Int) /\ Len(ones) = n /\ SumOf(ones) = n
      /\ \A i \in 1 .. n : ones[i] = 1
  BY <1>2, <1>3, SumOfOnes
<1>5. PICK xx, xy : xx = Products(x, x) /\ xy = Products(x, y)
  OBVIOUS
<1>6. /\ xx \in Seq(Int) /\ Len(xx) = n /\ \A i \in 1 .. n : xx[i] = x[i] * x[i]
      /\ xy \in Seq(Int) /\ Len(xy) = n /\ \A i \in 1 .. n : xy[i] = x[i] * y[i]
  BY <1>1, <1>2, <1>5, ProductsAreASeries
<1>7. SumOf(y) = a * SumOf(ones) + b * SumOf(x)
  <2>1. \A i \in 1 .. Len(y) : y[i] = a * ones[i] + b * x[i]
    BY <1>1, <1>2, <1>4
  <2>2. Len(ones) = Len(y) /\ Len(x) = Len(y)
    BY <1>1, <1>2, <1>4
  <2>3. IsCombination(y, a, ones, b, x)
    BY <1>2, <1>4, <2>1, <2>2 DEF IsCombination
  <2> QED
    BY <2>3, SumIsLinear
<1>8. SumOf(xy) = a * SumOf(x) + b * SumOf(xx)
  <2>1. ASSUME NEW i \in 1 .. n PROVE xy[i] = a * x[i] + b * xx[i]
    <3>1. PICK u : u = x[i]
      OBVIOUS
    <3>2. u \in Int /\ xy[i] = u * (a + b * u) /\ xx[i] = u * u
      BY <1>1, <1>2, <1>6, <3>1
    <3>3. u * (a + b * u) = a * u + b * (u * u)
      BY <3>2
    <3> QED
      BY <3>1, <3>2, <3>3
  <2>2. /\ Len(x) = Len(xy) /\ Len(xx) = Len(xy)
        /\ \A i \in 1 .. Len(xy) : xy[i] = a * x[i] + b * xx[i]
    BY <1>1, <1>6, <2>1
  <2>3. IsCombination(xy, a, x, b, xx)
    BY <1>2, <1>6, <2>2 DEF IsCombination
  <2> QED
    BY <2>3, SumIsLinear
<1>9. PICK X, Q : X = SumOf(x) /\ Q = SumOf(xx)
  OBVIOUS
<1>10. X \in Int /\ Q \in Int
  BY <1>2, <1>6, <1>9, SumIsAnInteger
<1>11. Slope(x, y) = [num |-> n * SumOf(xy) - X * SumOf(y), den |-> n * Q - X * X]
  BY <1>1, <1>5, <1>9 DEF Slope
<1>12. n * (a * X + b * Q) - X * (a * n + b * X) = b * (n * Q - X * X)
  BY <1>2, <1>10
<1>13. a * n + b * X = n * a + b * X /\ n * Q - X * X \in Int
  BY <1>2, <1>10
<1> QED
  BY <1>1, <1>4, <1>7, <1>8, <1>9, <1>11, <1>12, <1>13

LEMMA SlopeIsOfIntegers ==
  ASSUME NEW x \in Seq(Int), NEW y \in Seq(Int), Len(x) = Len(y)
  PROVE  Slope(x, y).num \in Int /\ Slope(x, y).den \in Int
<1>1. PICK n, sx, sy, sxx, sxy :
           /\ n = Len(x) /\ sx = SumOf(x) /\ sy = SumOf(y)
           /\ sxx = SumOf(Products(x, x)) /\ sxy = SumOf(Products(x, y))
  OBVIOUS
<1>2. n \in Int /\ sx \in Int /\ sy \in Int /\ sxx \in Int /\ sxy \in Int
  BY <1>1, SumIsAnInteger, ProductsAreASeries
<1>3. Slope(x, y) = [num |-> n * sxy - sx * sy, den |-> n * sxx - sx * sx]
  BY <1>1 DEF Slope
<1> QED
  BY <1>2, <1>3

(* What Capacity is made of: the loads x, the line fitted to f, where it   *)
(* meets the SLO, and the highest load.                                    *)
AreLoads(x, values, M) ==
  LET points == Aggregated(M)
  IN  /\ points \in Seq(HistoryRow)
      /\ x \in Seq(Nat) /\ x = [i \in DOMAIN points |-> points[i].rps]
      /\ values \in Seq(Nat) /\ values = [i \in DOMAIN points |-> points[i].p95]
      /\ Fitted(values) \in Seq(Int) /\ Len(Fitted(values)) = Len(points)

Meets(D, S, X, Z, n, tested, x, values, M) ==
  LET f == Fitted(values)
      num == D * (n * Slo * Scale - Z) + S * X
  IN  /\ n = Len(Aggregated(M)) /\ n >= 5
      /\ S = Slope(x, f).num /\ D = Slope(x, f).den /\ S > 0
      /\ X = SumOf(x) /\ Z = SumOf(f)
      /\ \A i \in 1 .. n : x[i] <= tested
      /\ \E i \in 1 .. n : x[i] = tested
      /\ Capacity(M) = IF num < tested * (n * S) THEN [num |-> tested, den |-> 1]
                      ELSE [num |-> num, den |-> n * S]

LEMMA CapacityIsOfLoads ==
  ASSUME NEW M \in Seq(HistoryRow), Capacity(M) # NoBreach
  PROVE  \E x, values : /\ AreLoads(x, values, M)
                        /\ \E D, S, X, Z, n, tested \in Int :
                             Meets(D, S, X, Z, n, tested, x, values, M)
<1>1. PICK points, n : points = Aggregated(M) /\ n = Len(points)
  OBVIOUS
<1>2. points \in Seq(HistoryRow) /\ n \in Nat /\ DOMAIN points = 1 .. n
  BY <1>1, AggregatedRows
<1>3. \A i \in 1 .. n : points[i].rps \in Nat /\ points[i].p95 \in Nat
  <2>1. \A i \in 1 .. n : points[i] \in HistoryRow
    BY <1>2
  <2> QED
    BY <2>1 DEF HistoryRow
<1>4. PICK x, values : /\ x = [i \in DOMAIN points |-> points[i].rps]
                       /\ values = [i \in DOMAIN points |-> points[i].p95]
  OBVIOUS
<1>5. /\ x \in Seq(Nat) /\ x \in Seq(Int) /\ Len(x) = n
      /\ values \in Seq(Nat) /\ Len(values) = n
      /\ DOMAIN x = 1 .. n /\ \A i \in 1 .. n : x[i] \in Nat
  BY <1>2, <1>3, <1>4
<1>6. PICK f, S, D : f = Fitted(values) /\ S = Slope(x, f).num /\ D = Slope(x, f).den
  OBVIOUS
<1>7. PICK X, Z, tested : X = SumOf(x) /\ Z = SumOf(f) /\ tested = Max(Range(x))
  OBVIOUS
<1>8. Capacity(M) =
        LET num == D * (n * Slo * Scale - Z) + S * X
        IN  IF n < 5 \/ S <= 0 \/ D = 0 THEN NoBreach
            ELSE IF num < tested * (n * S) THEN [num |-> tested, den |-> 1]
            ELSE [num |-> num, den |-> n * S]
  BY <1>1, <1>4, <1>6, <1>7 DEF Capacity
<1>9. ~(n < 5) /\ ~(S <= 0)
  BY <1>8
<1>10. values # <<>>
  BY <1>2, <1>5, <1>9
<1>11. f \in Seq(Int) /\ Len(f) = n
  BY <1>5, <1>6, <1>10, FittedIsASeries
<1>12. S \in Int /\ D \in Int /\ X \in Int /\ Z \in Int
  BY <1>5, <1>6, <1>7, <1>11, SlopeIsOfIntegers, SumIsAnInteger
<1>13. tested \in Range(x) /\ \A load \in Range(x) : tested >= load
  <2>1. Range(x) = {x[i] : i \in 1 .. n}
    BY <1>5 DEF Range
  <2>2. IsFiniteSet(1 .. n)
    BY <1>2, FS_Interval
  <2>3. IsFiniteSet({x[i] : i \in 1 .. n})
    BY <2>2, FiniteImage
  <2>4. Range(x) \in SUBSET Nat /\ Range(x) # {}
    <3>1. 1 \in 1 .. n
      BY <1>2, <1>9
    <3> QED
      BY <1>5, <2>1, <3>1
  <2> QED
    BY <1>7, <2>1, <2>3, <2>4, GreatestOfFinite
<1>14. PICK k \in 1 .. n : x[k] = tested
  BY <1>5, <1>13 DEF Range
<1>15. \A i \in 1 .. n : x[i] \in Range(x)
  BY <1>5 DEF Range
<1>16. tested \in Int /\ \A i \in 1 .. n : x[i] <= tested
  BY <1>5, <1>13, <1>14, <1>15
<1>17. n \in Int /\ n >= 5 /\ S > 0
  BY <1>2, <1>9, <1>12
<1>18. Capacity(M) = LET num == D * (n * Slo * Scale - Z) + S * X
                     IN  IF num < tested * (n * S) THEN [num |-> tested, den |-> 1]
                         ELSE [num |-> num, den |-> n * S]
  <2> DEFINE num == D * (n * Slo * Scale - Z) + S * X
  <2> HIDE DEF num
  <2>1. Capacity(M) = IF n < 5 \/ S <= 0 \/ D = 0 THEN NoBreach
                      ELSE IF num < tested * (n * S) THEN [num |-> tested, den |-> 1]
                      ELSE [num |-> num, den |-> n * S]
    BY <1>8 DEF num
  <2> QED
    BY <2>1 DEF num
<1>19. AreLoads(x, values, M)
  BY <1>1, <1>2, <1>4, <1>5, <1>6, <1>11 DEF AreLoads
<1>20. Meets(D, S, X, Z, n, tested, x, values, M)
  BY <1>1, <1>6, <1>7, <1>14, <1>16, <1>17, <1>18 DEF Meets
<1> QED
  BY <1>12, <1>16, <1>17, <1>19, <1>20

(* The algebra of a line that meets a level.                               *)
LEMMA LineMeetsLevel ==
  ASSUME NEW n \in Nat, n > 0, NEW c \in Nat, c > 0, NEW beta \in Nat, beta > 0,
         NEW alpha \in Int, NEW slo \in Int, NEW D \in Int, NEW X \in Int,
         NEW tested \in Int, (c * beta) * D > 0, alpha + beta * tested <= slo
  PROVE  LET S == (c * beta) * D
             num == D * (n * slo * c - (n * (c * alpha) + (c * beta) * X)) + S * X
         IN  /\ ~(num < tested * (n * S))
             /\ beta * num = (slo - alpha) * (n * S)
<1>1. PICK e : e = slo - alpha
  OBVIOUS
<1>2. e \in Int /\ slo = e + alpha /\ e >= beta * tested
  BY <1>1
<1>3. PICK k : k = n * c
  OBVIOUS
<1>4. k \in Nat /\ k > 0
  BY <1>3
<1>5. D > 0
  <2>1. c * beta \in Nat /\ c * beta > 0
    OBVIOUS
  <2>2. PICK w : w = c * beta
    OBVIOUS
  <2>3. w \in Nat /\ w > 0 /\ w * D > 0
    BY <2>1, <2>2
  <2> QED
    BY <2>3
<1>6. D * (n * slo * c - (n * (c * alpha) + (c * beta) * X)) + ((c * beta) * D) * X
        = (k * D) * e
  <2>1. n * slo * c = k * e + k * alpha
    BY <1>2, <1>3
  <2>2. n * (c * alpha) = k * alpha
    BY <1>3
  <2>3. PICK u, v : u = k * alpha /\ v = (c * beta) * X
    OBVIOUS
  <2>4. u \in Int /\ v \in Int /\ k * e \in Int
    BY <1>2, <1>4, <2>3
  <2>5. D * ((k * e + u) - (u + v)) + D * v = (k * D) * e
    BY <1>2, <1>4, <2>4
  <2>6. ((c * beta) * D) * X = D * v
    BY <2>3
  <2> QED
    BY <2>1, <2>2, <2>3, <2>5, <2>6
<1>7. n * ((c * beta) * D) = (k * D) * beta
  BY <1>3
<1>8. PICK m : m = k * D
  OBVIOUS
<1>9. m \in Nat /\ m > 0
  BY <1>4, <1>5, <1>8
<1>10. ~(m * e < tested * (m * beta))
  <2>1. m * e >= m * (beta * tested)
    <3>1. PICK g : g = beta * tested
      OBVIOUS
    <3>2. g \in Int /\ e >= g
      BY <1>2, <3>1
    <3>3. m * e >= m * g
      BY <1>2, <1>9, <3>2
    <3> QED
      BY <3>1, <3>3
  <2>2. tested * (m * beta) = m * (beta * tested) /\ m * (beta * tested) \in Int /\ m * e \in Int
    BY <1>2, <1>9
  <2> QED
    BY <2>1, <2>2
<1>11. beta * (m * e) = e * (m * beta)
  BY <1>2, <1>9
<1> QED
  BY <1>1, <1>6, <1>7, <1>8, <1>10, <1>11

(* The capacity of a history: beyond every load, and where the line meets  *)
(* the SLO if the latencies are on one.                                    *)
LEMMA CapacityIsBeyond ==
  ASSUME NEW M \in Seq(HistoryRow), NEW points, points = Aggregated(M),
         NEW breach, breach = Capacity(M), breach # NoBreach
  PROVE  \A i \in DOMAIN points : points[i].rps * breach.den <= breach.num
<1>1. PICK x, values : /\ AreLoads(x, values, M)
                       /\ \E D, S, X, Z, n, tested \in Int :
                            Meets(D, S, X, Z, n, tested, x, values, M)
  BY CapacityIsOfLoads
<1>2. PICK D, S, X, Z, n, tested \in Int : Meets(D, S, X, Z, n, tested, x, values, M)
  BY <1>1
<1>3. /\ x \in Seq(Nat) /\ x = [i \in DOMAIN points |-> points[i].rps]
      /\ points \in Seq(HistoryRow) /\ n = Len(points)
  BY <1>1, <1>2 DEF AreLoads, Meets
<1>4. DOMAIN points = 1 .. n /\ \A i \in 1 .. n : x[i] = points[i].rps /\ x[i] \in Nat
  BY <1>3
<1>5. n >= 5 /\ S > 0 /\ \A i \in 1 .. n : x[i] <= tested
  BY <1>2 DEF Meets
<1>6. PICK num : num = D * (n * Slo * Scale - Z) + S * X
  OBVIOUS
<1>7. num \in Int
  BY <1>6, AnalysisAssumption DEF Scale
<1>8. breach = IF num < tested * (n * S) THEN [num |-> tested, den |-> 1]
               ELSE [num |-> num, den |-> n * S]
  BY <1>2, <1>6 DEF Meets
<1> SUFFICES ASSUME NEW i \in 1 .. n PROVE x[i] * breach.den <= breach.num
  BY <1>4
<1>9. PICK load, den : load = x[i] /\ den = n * S
  OBVIOUS
<1>10. load \in Nat /\ load <= tested /\ den \in Int /\ den > 0
  BY <1>4, <1>5, <1>9
<1>11. CASE num < tested * den
  BY <1>8, <1>9, <1>10, <1>11
<1>12. CASE ~(num < tested * den)
  <2>1. load * den <= tested * den /\ load * den \in Int /\ tested * den \in Int
    BY <1>10
  <2>2. load * den <= num
    BY <1>7, <1>12, <2>1
  <2> QED
    BY <1>8, <1>9, <1>12, <2>2
<1> QED
  BY <1>11, <1>12

LEMMA CapacityIsOnTheLine ==
  ASSUME NEW M \in Seq(HistoryRow), NEW points, points = Aggregated(M),
         NEW breach, breach = Capacity(M), breach # NoBreach,
         NEW values, values = [i \in DOMAIN points |-> points[i].p95],
         NEW beta \in Nat, beta > 0, NEW alpha \in Nat,
         \A i \in DOMAIN points : points[i].p95 = alpha + beta * points[i].rps,
         Fitted(values) = [i \in DOMAIN values |-> Scale * values[i]],
         \A i \in DOMAIN points : points[i].p95 <= Slo
  PROVE  beta * breach.num = (Slo - alpha) * breach.den
<1>1. PICK x : /\ AreLoads(x, values, M)
               /\ \E D, S, X, Z, n, tested \in Int :
                    Meets(D, S, X, Z, n, tested, x, values, M)
  <2>1. PICK x, v : /\ AreLoads(x, v, M)
                    /\ \E D, S, X, Z, n, tested \in Int :
                         Meets(D, S, X, Z, n, tested, x, v, M)
    BY CapacityIsOfLoads
  <2>2. v = values
    BY <2>1 DEF AreLoads
  <2> QED
    BY <2>1, <2>2
<1>2. PICK D, S, X, Z, n, tested \in Int : Meets(D, S, X, Z, n, tested, x, values, M)
  BY <1>1
<1>3. PICK f : f = Fitted(values)
  OBVIOUS
<1>4. /\ x \in Seq(Nat) /\ x = [i \in DOMAIN points |-> points[i].rps]
      /\ points \in Seq(HistoryRow) /\ n = Len(points)
      /\ f \in Seq(Int) /\ Len(f) = n
  BY <1>1, <1>2, <1>3 DEF AreLoads, Meets
<1>5. /\ DOMAIN points = 1 .. n /\ n \in Nat /\ n > 0
      /\ x \in Seq(Int) /\ Len(x) = n
      /\ \A i \in 1 .. n : x[i] = points[i].rps /\ x[i] \in Nat
  <2>1. n >= 5 /\ n \in Nat
    <3>1. n >= 5
      BY <1>2 DEF Meets
    <3> QED
      BY <1>2, <3>1
  <2>2. DOMAIN points = 1 .. n
    BY <1>4
  <2>3. \A i \in 1 .. n : x[i] = points[i].rps
    BY <1>4, <2>2
  <2>4. Len(x) = n
    BY <1>4, <2>1, <2>2
  <2>5. x \in Seq(Nat)
    BY <1>4
  <2>6. x \in Seq(Int) /\ \A i \in 1 .. n : x[i] \in Nat
    BY <2>4, <2>5
  <2> QED
    BY <2>1, <2>2, <2>3, <2>4, <2>5, <2>6
<1>6. PICK c : c = Scale
  OBVIOUS
<1>7. c \in Nat /\ c > 0 /\ c * alpha \in Int /\ c * beta \in Int
  BY <1>6 DEF Scale
<1>8. ASSUME NEW i \in 1 .. n PROVE f[i] = c * alpha + (c * beta) * x[i]
  <2>1. PICK load : load = x[i]
    OBVIOUS
  <2>2. load \in Nat /\ points[i].p95 = alpha + beta * load
    <3>1. load \in Nat /\ load = points[i].rps /\ i \in DOMAIN points
      BY <1>5, <2>1
    <3> QED
      BY <3>1
  <2>3. f[i] = c * (alpha + beta * load)
    BY <1>3, <1>5, <1>6, <2>2
  <2>4. c * (alpha + beta * load) = c * alpha + (c * beta) * load
    BY <1>7, <2>2
  <2> QED
    BY <2>1, <2>3, <2>4
<1>9. /\ SumOf(f) = Len(x) * (c * alpha) + (c * beta) * SumOf(x)
      /\ Slope(x, f).den \in Int
      /\ Slope(x, f).num = (c * beta) * Slope(x, f).den
  <2>1. PICK a, b : a = c * alpha /\ b = c * beta
    OBVIOUS
  <2>2. a \in Int /\ b \in Int /\ \A i \in 1 .. Len(x) : f[i] = a + b * x[i]
    BY <1>5, <1>7, <1>8, <2>1
  <2>3. Len(x) = Len(f)
    BY <1>4, <1>5
  <2>4. IsLine(f, a, b, x)
    BY <1>4, <1>5, <2>2, <2>3 DEF IsLine
  <2>5. /\ SumOf(f) = Len(x) * a + b * SumOf(x)
        /\ Slope(x, f).den \in Int
        /\ Slope(x, f).num = b * Slope(x, f).den
    BY <2>2, <2>4, SlopeOfLine
  <2> QED
    BY <2>1, <2>5
<1>10. Z = n * (c * alpha) + (c * beta) * X /\ S = (c * beta) * D /\ S > 0
  BY <1>2, <1>3, <1>5, <1>9 DEF Meets
<1>11. alpha + beta * tested <= Slo
  <2>1. PICK i \in 1 .. n : x[i] = tested
    BY <1>2 DEF Meets
  <2>2. i \in DOMAIN points /\ points[i].rps = tested
    BY <1>5, <2>1
  <2>3. points[i].p95 = alpha + beta * tested /\ points[i].p95 <= Slo
    BY <2>2
  <2> QED
    BY <2>3
<1>12. PICK num : num = D * (n * Slo * Scale - Z) + S * X
  OBVIOUS
<1>13. breach = IF num < tested * (n * S) THEN [num |-> tested, den |-> 1]
                ELSE [num |-> num, den |-> n * S]
  BY <1>2, <1>12 DEF Meets
<1>14. ~(num < tested * (n * S)) /\ beta * num = (Slo - alpha) * (n * S)
  <2>1. Slo \in Int
    BY AnalysisAssumption
  <2>2. (c * beta) * D > 0
    BY <1>10
  <2>3. LET s == (c * beta) * D
            num_ == D * (n * Slo * c - (n * (c * alpha) + (c * beta) * X)) + s * X
        IN  /\ ~(num_ < tested * (n * s))
            /\ beta * num_ = (Slo - alpha) * (n * s)
    BY <1>5, <1>7, <1>11, <2>1, <2>2, LineMeetsLevel
  <2>4. num = D * (n * Slo * c - (n * (c * alpha) + (c * beta) * X)) + ((c * beta) * D) * X
    BY <1>6, <1>10, <1>12
  <2> QED
    BY <1>10, <2>3, <2>4
<1> QED
  BY <1>13, <1>14

-----------------------------------------------------------------------------
(* RunAnalysis: where the curve bends.                                     *)

(* Sums of products: for two series that climb, the sum of the products is *)
(* no less than the product of the sums divided by their number.           *)
Climbs(z) == z \in Seq(Int) /\ \A i \in 1 .. Len(z) - 1 : z[i] <= z[i + 1]

LEMMA OneMore ==
  ASSUME NEW m \in Nat \ {0}, NEW P \in Int, NEW S \in Int, NEW R \in Int,
         NEW u \in Int, NEW v \in Int, S * R <= m * P, S <= m * u, R <= m * v
  PROVE  /\ (S + u) * (R + v) <= (m + 1) * (P + u * v)
         /\ S < m * u /\ R < m * v => (S + u) * (R + v) < (m + 1) * (P + u * v)
<1> DEFINE more == P + m * (u * v) - S * v - u * R
<1>1. more \in Int
  OBVIOUS
<1>2. (m + 1) * (P + u * v) - (S + u) * (R + v) = (m * P - S * R) + more
  OBVIOUS
<1>3. m * more = (m * P - S * R) + (m * u - S) * (m * v - R)
  OBVIOUS
<1>4. PICK x, y : x = m * u - S /\ y = m * v - R
  OBVIOUS
<1>5. x \in Nat /\ y \in Nat /\ x * y \in Nat /\ (x > 0 /\ y > 0 => x * y > 0)
  <2>1. x \in Nat /\ y \in Nat
    BY <1>4
  <2> QED
    BY <2>1
<1> HIDE DEF more
<1>6. m * more >= 0 /\ (x > 0 /\ y > 0 => m * more > 0)
  BY <1>3, <1>4, <1>5
<1>7. more >= 0 /\ (x > 0 /\ y > 0 => more > 0)
  BY <1>1, <1>6
<1> QED
  BY <1>1, <1>2, <1>4, <1>7

(* The sum so far is at most as if all had been what the last is.          *)
LEMMA SumOfClimbing ==
  ASSUME NEW z, Climbs(z), NEW sum, AddsUp(sum, z)
  PROVE  \A i \in 1 .. Len(z) : sum[i] <= i * z[i]
<1>1. PICK n : n = Len(z)
  OBVIOUS
<1>2. /\ n \in Nat
      /\ \A i \in 1 .. n : z[i] \in Int /\ sum[i] = sum[i - 1] + z[i]
      /\ \A i \in 0 .. n : sum[i] \in Int
      /\ sum[0] = 0
  BY <1>1 DEF Climbs, AddsUp
<1>3. \A i \in 1 .. n - 1 : z[i] <= z[i + 1]
  BY <1>1 DEF Climbs
<1> DEFINE T == {i \in 0 .. n : i > 0 => sum[i] <= i * z[i]}
<1>4. 0 \in T
  BY <1>2
<1>5. ASSUME NEW i \in 1 .. n, i - 1 \in T PROVE i \in T
  <2>1. PICK m, u : m = i - 1 /\ u = z[i]
    OBVIOUS
  <2>2. m \in Nat /\ m \in 0 .. n /\ u \in Int /\ i = m + 1 /\ sum[i] = sum[m] + u
    BY <1>2, <2>1
  <2>3. CASE m = 0
    BY <1>2, <2>1, <2>2, <2>3
  <2>4. CASE m > 0
    <3>1. PICK w, s : w = z[m] /\ s = sum[m]
      OBVIOUS
    <3>2. w \in Int /\ s \in Int /\ s <= m * w /\ w <= u
      BY <1>2, <1>3, <1>5, <2>1, <2>2, <2>4, <3>1
    <3>3. m * w <= m * u
      BY <2>2, <3>2
    <3>4. s + u <= (m + 1) * u
      BY <2>2, <3>2, <3>3
    <3> QED
      BY <2>1, <2>2, <3>1, <3>4
  <2> QED
    BY <2>2, <2>3, <2>4
<1>6. 0 .. n \subseteq T
  <2> HIDE DEF T
  <2> QED
    BY <1>2, <1>4, <1>5, UpwardInduction
<1>7. ASSUME NEW i \in 1 .. n PROVE sum[i] <= i * z[i]
  BY <1>2, <1>6
<1> QED
  BY <1>1, <1>7

LEMMA SumsOfClimbing ==
  ASSUME NEW x, NEW z, Climbs(x), Climbs(z), Len(x) = Len(z), Len(x) >= 2
  PROVE  LET n == Len(x)
         IN  /\ SumOf(x) * SumOf(z) <= n * SumOf(Products(x, z))
             /\ x[n - 1] < x[n] /\ z[n - 1] < z[n]
                  => SumOf(x) * SumOf(z) < n * SumOf(Products(x, z))
<1>1. PICK n, y : n = Len(x) /\ y = Products(x, z)
  OBVIOUS
<1>2. /\ n \in Nat /\ n >= 2 /\ Len(z) = n
      /\ \A i \in 1 .. n : x[i] \in Int /\ z[i] \in Int
      /\ x \in Seq(Int) /\ z \in Seq(Int)
  BY <1>1 DEF Climbs
<1>3. y \in Seq(Int) /\ Len(y) = n /\ \A i \in 1 .. n : y[i] = x[i] * z[i]
  BY <1>1, <1>2, ProductsAreASeries
<1>4. PICK sx, sz, sy : AddsUp(sx, x) /\ AddsUp(sz, z) /\ AddsUp(sy, y)
  BY <1>2, <1>3, SumsAddUp
<1>5. /\ \A i \in 0 .. n : sx[i] \in Int /\ sz[i] \in Int /\ sy[i] \in Int
      /\ sx[0] = 0 /\ sz[0] = 0 /\ sy[0] = 0
      /\ \A i \in 1 .. n : /\ sx[i] = sx[i - 1] + x[i]
                           /\ sz[i] = sz[i - 1] + z[i]
                           /\ sy[i] = sy[i - 1] + x[i] * z[i]
      /\ SumOf(x) = sx[n] /\ SumOf(z) = sz[n] /\ SumOf(y) = sy[n]
  BY <1>1, <1>2, <1>3, <1>4 DEF AddsUp
<1>6. \A i \in 1 .. n : sx[i] <= i * x[i] /\ sz[i] <= i * z[i]
  BY <1>1, <1>2, <1>4, SumOfClimbing
<1>7. \A i \in 1 .. n - 1 : x[i] <= x[i + 1] /\ z[i] <= z[i + 1]
  BY <1>1, <1>2 DEF Climbs
<1> DEFINE Less(i) == sx[i] * sz[i] <= i * sy[i]
           Apart(i) == x[i - 1] < x[i] /\ z[i - 1] < z[i]
<1>8. ASSUME NEW i \in 2 .. n, Less(i - 1)
      PROVE  Less(i) /\ (Apart(i) => sx[i] * sz[i] < i * sy[i])
  <2>1. PICK m, S, R, P, u, v, a, b :
             /\ m = i - 1 /\ S = sx[m] /\ R = sz[m] /\ P = sy[m] /\ u = x[i] /\ v = z[i]
             /\ a = x[m] /\ b = z[m]
    OBVIOUS
  <2>2. m \in Nat \ {0} /\ m \in 1 .. n - 1 /\ m \in 0 .. n /\ i = m + 1 /\ i \in 1 .. n
        /\ m \in 1 .. n
    BY <1>2, <2>1
  <2>3. /\ S \in Int /\ R \in Int /\ P \in Int /\ u \in Int /\ v \in Int /\ a \in Int /\ b \in Int
        /\ S <= m * a /\ R <= m * b /\ a <= u /\ b <= v /\ S * R <= m * P
    BY <1>2, <1>5, <1>6, <1>7, <1>8, <2>1, <2>2
  <2>4. m * a <= m * u /\ m * b <= m * v /\ (a < u => m * a < m * u) /\ (b < v => m * b < m * v)
    BY <2>2, <2>3
  <2>5. S <= m * u /\ R <= m * v /\ (a < u => S < m * u) /\ (b < v => R < m * v)
    <3>1. PICK ma, mb, mu, mv : ma = m * a /\ mb = m * b /\ mu = m * u /\ mv = m * v
      OBVIOUS
    <3>2. ma \in Int /\ mb \in Int /\ mu \in Int /\ mv \in Int
      BY <2>2, <2>3, <3>1
    <3>3. /\ S <= ma /\ R <= mb /\ ma <= mu /\ mb <= mv
          /\ a < u => ma < mu
          /\ b < v => mb < mv
      BY <2>3, <2>4, <3>1
    <3>4. S <= mu /\ R <= mv /\ (a < u => S < mu) /\ (b < v => R < mv)
      <4>1. S \in Int /\ R \in Int
        BY <2>3
      <4> QED
        BY <3>2, <3>3, <4>1
    <3> QED
      BY <3>1, <3>4
  <2>6. /\ (S + u) * (R + v) <= (m + 1) * (P + u * v)
        /\ S < m * u /\ R < m * v => (S + u) * (R + v) < (m + 1) * (P + u * v)
    BY <2>2, <2>3, <2>5, OneMore
  <2>7. sx[i] = S + u /\ sz[i] = R + v /\ sy[i] = P + u * v
    BY <1>5, <2>1, <2>2
  <2> QED
    BY <2>1, <2>2, <2>5, <2>6, <2>7
<1> DEFINE T == {i \in 0 .. n : Less(i)}
<1>9. 0 \in T
  <2>1. 0 \in 0 .. n /\ 0 * 0 <= 0 * 0
    BY <1>2
  <2>2. sx[0] * sz[0] <= 0 * sy[0]
    BY <1>5, <2>1
  <2> QED
    BY <2>1, <2>2
<1>10. ASSUME NEW i \in 1 .. n, i - 1 \in T PROVE i \in T
  <2>1. CASE i = 1
    <3>1. PICK u, v : u = x[1] /\ v = z[1]
      OBVIOUS
    <3>a. 1 \in 1 .. n /\ 1 - 1 = 0
      BY <1>2
    <3>b. u \in Int /\ v \in Int /\ u * v \in Int
      BY <1>2, <3>a, <3>1
    <3>c. sx[1] = 0 + u /\ sz[1] = 0 + v /\ sy[1] = 0 + u * v
      BY <1>5, <3>a, <3>1
    <3>2. u \in Int /\ v \in Int /\ sx[1] = u /\ sz[1] = v /\ sy[1] = u * v
      BY <3>b, <3>c
    <3>3. u * v <= 1 * (u * v)
      BY <3>2
    <3> QED
      BY <2>1, <3>2, <3>3
  <2>2. CASE i # 1
    <3>1. i \in 2 .. n /\ Less(i - 1)
      BY <1>10, <2>2
    <3> HIDE DEF Less, Apart
    <3> QED
      BY <1>8, <3>1
  <2> QED
    BY <2>1, <2>2
<1>11. 0 .. n \subseteq T
  <2> HIDE DEF T
  <2> QED
    BY <1>2, <1>9, <1>10, UpwardInduction
<1>12. n \in 2 .. n /\ n - 1 \in 0 .. n
  BY <1>2
<1>13. Less(n - 1)
  BY <1>11, <1>12
<1>14. Less(n) /\ (Apart(n) => sx[n] * sz[n] < n * sy[n])
  <2> HIDE DEF Less, Apart
  <2> QED
    BY <1>8, <1>12, <1>13
<1> QED
  BY <1>1, <1>5, <1>14

(* A fitted line through points whose loads are apart is no flatter than   *)
(* the flattest step between them, a / b: and no steeper than the steepest *)
(* (with -a and -b).                                                       *)
StepsUp(x, y, a, b) ==
  /\ x \in Seq(Int) /\ y \in Seq(Int) /\ Len(x) = Len(y) /\ Len(x) >= 2
  /\ \A i \in 1 .. Len(x) - 1 : /\ x[i] < x[i + 1]
                                /\ a * (x[i + 1] - x[i]) <= b * (y[i + 1] - y[i])

LEMMA SlopeIsNoFlatter ==
  ASSUME NEW x, NEW y, NEW a \in Int, NEW b \in Int, StepsUp(x, y, a, b)
  PROVE  /\ Slope(x, y).num \in Int
         /\ Slope(x, y).den \in Int /\ Slope(x, y).den > 0
         /\ a * Slope(x, y).den <= b * Slope(x, y).num
<1>1. PICK n, c : n = Len(x) /\ c = -a
  OBVIOUS
<1>2. /\ x \in Seq(Int) /\ y \in Seq(Int) /\ n \in Nat /\ n >= 2 /\ Len(y) = n /\ c \in Int
      /\ \A i \in 1 .. n : x[i] \in Int /\ y[i] \in Int
      /\ \A i \in 1 .. n - 1 : x[i] < x[i + 1] /\ a * (x[i + 1] - x[i]) <= b * (y[i + 1] - y[i])
  BY <1>1 DEF StepsUp
<1>3. PICK z : z = [i \in 1 .. n |-> b * y[i] + c * x[i]]
  OBVIOUS
<1>4. z \in Seq(Int) /\ Len(z) = n /\ \A i \in 1 .. n : z[i] = b * y[i] + c * x[i]
  <2>1. \A i \in 1 .. n : b * y[i] + c * x[i] \in Int
    BY <1>2
  <2> QED
    BY <1>2, <1>3, <2>1
<1>5. Climbs(z)
  <2>1. ASSUME NEW i \in 1 .. n - 1 PROVE z[i] <= z[i + 1]
    <3>1. PICK p, q, s, t : p = x[i] /\ q = x[i + 1] /\ s = y[i] /\ t = y[i + 1]
      OBVIOUS
    <3>2. i \in 1 .. n /\ i + 1 \in 1 .. n
      BY <1>2
    <3>3. /\ p \in Int /\ q \in Int /\ s \in Int /\ t \in Int
          /\ a * (q - p) <= b * (t - s)
      BY <1>2, <3>1, <3>2
    <3>4. z[i] = b * s + c * p /\ z[i + 1] = b * t + c * q
      BY <1>4, <3>1, <3>2
    <3>5. b * s + c * p <= b * t + c * q
      BY <1>1, <3>3
    <3> QED
      BY <3>4, <3>5
  <2> QED
    BY <1>4, <2>1 DEF Climbs
<1>6. Climbs(x)
  BY <1>1, <1>2 DEF Climbs
<1>7. PICK xx, xy, xz : xx = Products(x, x) /\ xy = Products(x, y) /\ xz = Products(x, z)
  OBVIOUS
<1>8. /\ xx \in Seq(Int) /\ Len(xx) = n /\ \A i \in 1 .. n : xx[i] = x[i] * x[i]
      /\ xy \in Seq(Int) /\ Len(xy) = n /\ \A i \in 1 .. n : xy[i] = x[i] * y[i]
      /\ xz \in Seq(Int) /\ Len(xz) = n /\ \A i \in 1 .. n : xz[i] = x[i] * z[i]
  <2>1. xx \in Seq(Int) /\ Len(xx) = n /\ \A i \in 1 .. n : xx[i] = x[i] * x[i]
    BY <1>1, <1>2, <1>7, ProductsAreASeries
  <2>2. xy \in Seq(Int) /\ Len(xy) = n /\ \A i \in 1 .. n : xy[i] = x[i] * y[i]
    BY <1>1, <1>2, <1>7, ProductsAreASeries
  <2>3. xz \in Seq(Int) /\ Len(xz) = n /\ \A i \in 1 .. n : xz[i] = x[i] * z[i]
    BY <1>1, <1>2, <1>4, <1>7, ProductsAreASeries
  <2> QED
    BY <2>1, <2>2, <2>3
<1>9. SumOf(z) = b * SumOf(y) + c * SumOf(x)
  <2>1. IsCombination(z, b, y, c, x)
    BY <1>1, <1>2, <1>4 DEF IsCombination
  <2> QED
    BY <1>2, <2>1, SumIsLinear
<1>10. SumOf(xz) = b * SumOf(xy) + c * SumOf(xx)
  <2>1. ASSUME NEW i \in 1 .. n PROVE xz[i] = b * xy[i] + c * xx[i]
    <3>1. PICK p, s : p = x[i] /\ s = y[i]
      OBVIOUS
    <3>2. p \in Int /\ s \in Int
      BY <1>2, <3>1
    <3>3. p * (b * s + c * p) = b * (p * s) + c * (p * p)
      BY <1>2, <3>2
    <3> QED
      BY <1>4, <1>8, <3>1, <3>3
  <2>2. IsCombination(xz, b, xy, c, xx)
    BY <1>8, <2>1 DEF IsCombination
  <2> QED
    BY <1>2, <2>2, SumIsLinear
<1>11. PICK sx, sy, sxx, sxy : /\ sx = SumOf(x) /\ sy = SumOf(y)
                               /\ sxx = SumOf(xx) /\ sxy = SumOf(xy)
  OBVIOUS
<1>12. sx \in Int /\ sy \in Int /\ sxx \in Int /\ sxy \in Int
  BY <1>2, <1>8, <1>11, SumIsAnInteger
<1>13. PICK num, den : num = n * sxy - sx * sy /\ den = n * sxx - sx * sx
  OBVIOUS
<1>14. num \in Int /\ den \in Int /\ Slope(x, y) = [num |-> num, den |-> den]
  <2>1. num \in Int /\ den \in Int
    BY <1>2, <1>12, <1>13
  <2>2. Slope(x, y) = [num |-> n * SumOf(xy) - SumOf(x) * SumOf(y),
                       den |-> n * SumOf(xx) - SumOf(x) * SumOf(x)]
    BY <1>1, <1>7 DEF Slope
  <2> QED
    BY <1>11, <1>13, <2>1, <2>2
<1>15. den > 0
  <2>1. x[n - 1] < x[n]
    <3>1. n - 1 \in 1 .. n - 1 /\ (n - 1) + 1 = n
      BY <1>2
    <3> QED
      BY <1>2, <3>1
  <2>2. sx * sx < n * sxx
    BY <1>1, <1>2, <1>6, <1>7, <1>11, <2>1, SumsOfClimbing
  <2>3. n * sxx \in Int /\ sx * sx \in Int
    BY <1>2, <1>12
  <2> QED
    BY <1>13, <2>2, <2>3
<1>16. a * den <= b * num
  <2>1. SumOf(x) * SumOf(z) <= n * SumOf(xz)
    BY <1>1, <1>2, <1>4, <1>5, <1>6, <1>7, SumsOfClimbing
  <2>2. sx * (b * sy + c * sx) <= n * (b * sxy + c * sxx)
    BY <1>9, <1>10, <1>11, <2>1
  <2>3. n * (b * sxy + c * sxx) - sx * (b * sy + c * sx) = b * num - a * den
    BY <1>1, <1>2, <1>12, <1>13
  <2>4. PICK f, g, h, k : /\ f = sx * (b * sy + c * sx) /\ g = n * (b * sxy + c * sxx)
                          /\ h = b * num /\ k = a * den
    OBVIOUS
  <2>5. f \in Int /\ g \in Int /\ h \in Int /\ k \in Int
    BY <1>2, <1>12, <1>14, <2>4
  <2> QED
    BY <2>2, <2>3, <2>4, <2>5
<1> QED
  BY <1>14, <1>15, <1>16

(* The same for a stretch of a curve from one of its points to a later.    *)
IsClimb(N, f, g, from, to, a, b) ==
  /\ f \in Seq(Int) /\ g \in Seq(Int) /\ Len(f) = N /\ Len(g) = N
  /\ from \in 1 .. N /\ to \in 1 .. N /\ from < to
  /\ \A i \in from .. to - 1 : /\ f[i] < f[i + 1]
                               /\ a * (f[i + 1] - f[i]) <= b * (g[i + 1] - g[i])

LEMMA StretchIsNoFlatter ==
  ASSUME NEW N \in Nat, NEW f, NEW g, NEW from, NEW to, NEW a \in Int, NEW b \in Int,
         IsClimb(N, f, g, from, to, a, b)
  PROVE  LET slope == Slope(SubSeq(f, from, to), SubSeq(g, from, to))
         IN  /\ slope.num \in Int
             /\ slope.den \in Int /\ slope.den > 0
             /\ a * slope.den <= b * slope.num
<1>1. PICK x, y : x = SubSeq(f, from, to) /\ y = SubSeq(g, from, to)
  OBVIOUS
<1>2. /\ f \in Seq(Int) /\ g \in Seq(Int) /\ Len(f) = N /\ Len(g) = N
      /\ from \in Nat \ {0} /\ to \in Nat /\ to <= N /\ from < to
  BY DEF IsClimb
<1>3. /\ x \in Seq(Int) /\ Len(x) = to - from + 1
      /\ \A i \in 1 .. to - from + 1 : x[i] = f[from + i - 1]
      /\ y \in Seq(Int) /\ Len(y) = to - from + 1
      /\ \A i \in 1 .. to - from + 1 : y[i] = g[from + i - 1]
  BY <1>1, <1>2
<1>4. ASSUME NEW i \in 1 .. Len(x) - 1
      PROVE  x[i] < x[i + 1] /\ a * (x[i + 1] - x[i]) <= b * (y[i + 1] - y[i])
  <2>1. PICK j : j = from + i - 1
    OBVIOUS
  <2>2. /\ i \in 1 .. to - from + 1 /\ i + 1 \in 1 .. to - from + 1
        /\ j \in from .. to - 1 /\ from + (i + 1) - 1 = j + 1
    BY <1>2, <1>3, <2>1
  <2>3. x[i] = f[j] /\ x[i + 1] = f[j + 1] /\ y[i] = g[j] /\ y[i + 1] = g[j + 1]
    BY <1>3, <2>1, <2>2
  <2> QED
    BY <2>2, <2>3 DEF IsClimb
<1>5. StepsUp(x, y, a, b)
  BY <1>2, <1>3, <1>4 DEF StepsUp
<1> QED
  BY <1>1, <1>5, SlopeIsNoFlatter

(* On a straight stretch the points lie on one line, and one is to the     *)
(* right of those before it.                                               *)
IsStraight(N, f, g, from, to, a, b) ==
  /\ f \in Seq(Int) /\ g \in Seq(Int) /\ Len(f) = N /\ Len(g) = N
  /\ from \in 1 .. N /\ to \in 1 .. N /\ from < to
  /\ \A i \in from .. to - 1 : /\ f[i] < f[i + 1]
                               /\ a * (f[i + 1] - f[i]) = b * (g[i + 1] - g[i])

OnALine(f, g, i, j, a, b) == a * (f[j] - f[i]) = b * (g[j] - g[i])

LEMMA StraightIsALine ==
  ASSUME NEW N \in Nat, NEW f, NEW g, NEW from, NEW to, NEW a \in Int, NEW b \in Int,
         IsStraight(N, f, g, from, to, a, b)
  PROVE  \A i, j \in from .. to :
           i < j => f[i] < f[j] /\ OnALine(f, g, i, j, a, b)
<1> DEFINE Reaches(j) == \A i \in from .. j - 1 : f[i] < f[j] /\ OnALine(f, g, i, j, a, b)
           T == {k \in 0 .. to - from : Reaches(from + k)}
<1>1. /\ from \in Nat /\ to \in Nat /\ to - from \in Nat
      /\ \A i \in from .. to : i \in 1 .. N /\ f[i] \in Int /\ g[i] \in Int
      /\ \A i \in from .. to - 1 : /\ f[i] < f[i + 1]
                                   /\ a * (f[i + 1] - f[i]) = b * (g[i + 1] - g[i])
  BY DEF IsStraight
<1>2. 0 \in T
  BY <1>1
<1>3. ASSUME NEW k \in 1 .. to - from, k - 1 \in T PROVE k \in T
  <2>1. PICK j : j = from + (k - 1)
    OBVIOUS
  <2>2. j \in from .. to - 1 /\ j \in from .. to /\ from + k = j + 1 /\ j + 1 \in from .. to
    BY <1>1, <2>1
  <2>3. Reaches(j)
    BY <1>3, <2>1
  <2>4. ASSUME NEW i \in from .. j
        PROVE  f[i] < f[j + 1] /\ OnALine(f, g, i, j + 1, a, b)
    <3>1. PICK p, q, r, s, t, u : /\ p = f[i] /\ q = f[j] /\ r = f[j + 1]
                                  /\ s = g[i] /\ t = g[j] /\ u = g[j + 1]
      OBVIOUS
    <3>2. /\ p \in Int /\ q \in Int /\ r \in Int /\ s \in Int /\ t \in Int /\ u \in Int
          /\ q < r /\ a * (r - q) = b * (u - t)
      <4>1. i \in from .. to
        BY <1>1, <2>2
      <4> QED
        BY <1>1, <2>2, <3>1, <4>1
    <3>3. CASE i = j
      BY <3>1, <3>2, <3>3 DEF OnALine
    <3>4. CASE i # j
      <4>1. i \in from .. j - 1
        BY <1>1, <2>2, <3>4
      <4>2. p < q /\ a * (q - p) = b * (t - s)
        BY <2>3, <3>1, <4>1 DEF OnALine
      <4>3. a * (r - p) = a * (r - q) + a * (q - p) /\ b * (u - s) = b * (u - t) + b * (t - s)
        BY <3>2
      <4>4. p < r /\ a * (r - p) = b * (u - s)
        BY <3>2, <4>2, <4>3
      <4> QED
        BY <3>1, <4>4 DEF OnALine
    <3> QED
      BY <3>3, <3>4
  <2>5. from .. (j + 1) - 1 = from .. j
    BY <1>1, <2>2
  <2>6. Reaches(j + 1)
    BY <2>4, <2>5
  <2> HIDE DEF Reaches
  <2> QED
    BY <2>2, <2>6
<1>4. 0 .. to - from \subseteq T
  <2> HIDE DEF T
  <2> QED
    BY <1>1, <1>2, <1>3, UpwardInduction
<1>5. ASSUME NEW i \in from .. to, NEW j \in from .. to, i < j
      PROVE  f[i] < f[j] /\ OnALine(f, g, i, j, a, b)
  <2>1. PICK k : k = j - from
    OBVIOUS
  <2>2. k \in 0 .. to - from /\ from + k = j /\ i \in from .. j - 1
    BY <1>1, <1>5, <2>1
  <2>3. Reaches(from + k)
    BY <1>4, <2>2
  <2> QED
    BY <2>2, <2>3
<1> QED
  BY <1>5

(* A curve that is straight up to a point and straight, and steeper, after *)
(* it is farthest from its chord at that point: the distances, for lines   *)
(* that rise a in b and c in d.                                            *)
ChordBelow(f1, g1, fn, gn, x, y) == (gn - g1) * (x - f1) - (fn - f1) * (y - g1)

LEMMA BendOfTwoLines ==
  ASSUME NEW a \in Nat, NEW b \in Nat \ {0}, NEW c \in Nat \ {0}, NEW d \in Nat \ {0},
         2 * a * d <= c * b,
         NEW f1 \in Int, NEW g1 \in Int, NEW fb \in Int, NEW gb \in Int,
         NEW fn \in Int, NEW gn \in Int,
         f1 < fb, fb < fn, a * (fb - f1) = b * (gb - g1), c * (fn - fb) = d * (gn - gb)
  PROVE  \E G, H \in Nat \ {0} :
           /\ G = b * (gn - g1) - a * (fn - f1)
           /\ H = c * (fn - f1) - d * (gn - g1)
<1>1. PICK a1, a2, b1, b2 : a1 = fb - f1 /\ a2 = fn - fb /\ b1 = gb - g1 /\ b2 = gn - gb
  OBVIOUS
<1>2. /\ a1 \in Nat \ {0} /\ a2 \in Nat \ {0} /\ b1 \in Int /\ b2 \in Int
      /\ fn - f1 = a1 + a2 /\ gn - g1 = b1 + b2
      /\ a * a1 = b * b1 /\ c * a2 = d * b2
  BY <1>1
<1>3. PICK k : k = c * b - a * d
  OBVIOUS
<1>4. k \in Nat \ {0}
  <2>1. PICK ad, cb : ad = a * d /\ cb = c * b
    OBVIOUS
  <2>2. ad \in Nat /\ cb \in Nat \ {0} /\ 2 * ad <= cb
    BY <2>1
  <2> QED
    BY <1>3, <2>1, <2>2
<1>5. PICK G, H : G = b * (b1 + b2) - a * (a1 + a2) /\ H = c * (a1 + a2) - d * (b1 + b2)
  OBVIOUS
<1>6. G \in Int /\ H \in Int
  BY <1>2, <1>5
<1>7. G > 0
  <2>1. G = b * b2 - a * a2
    BY <1>2, <1>5
  <2>2. d * G = b * (d * b2) - (a * d) * a2
    BY <1>2, <2>1
  <2>3. d * G = k * a2
    BY <1>2, <1>3, <2>2
  <2>4. k * a2 > 0
    BY <1>2, <1>4
  <2> QED
    BY <1>6, <2>3, <2>4
<1>8. H > 0
  <2>1. H = c * a1 - d * b1
    BY <1>2, <1>5
  <2>2. b * H = (c * b) * a1 - d * (b * b1)
    BY <1>2, <2>1
  <2>3. b * H = k * a1
    BY <1>2, <1>3, <2>2
  <2>4. k * a1 > 0
    BY <1>2, <1>4
  <2> QED
    BY <1>6, <2>3, <2>4
<1> QED
  BY <1>2, <1>5, <1>6, <1>7, <1>8

(* What is proportional to what is less is less.                           *)
LEMMA Proportional ==
  ASSUME NEW b \in Nat \ {0}, NEW G \in Nat \ {0}, NEW X \in Int, NEW Y \in Int,
         NEW u \in Int, NEW v \in Int, b * u = G * X, b * v = G * Y, X < Y
  PROVE  u < v /\ (X >= 0 => u >= 0)
<1>1. G * X < G * Y /\ (X >= 0 => G * X >= 0)
  OBVIOUS
<1>2. b * u < b * v /\ (X >= 0 => b * u >= 0)
  BY <1>1
<1> QED
  BY <1>2

LEMMA FarthestAtTheBend ==
  ASSUME NEW N \in Nat, NEW f, NEW g, NEW bend \in 2 .. N - 1,
         NEW a \in Nat, NEW b \in Nat \ {0}, NEW c \in Nat \ {0}, NEW d \in Nat \ {0},
         2 * a * d <= c * b,
         IsStraight(N, f, g, 1, bend, a, b), IsStraight(N, f, g, bend, N, c, d)
  PROVE  LET below(i) == ChordBelow(f[1], g[1], f[N], g[N], f[i], g[i])
         IN  \A i \in 1 .. N : /\ below(i) \in Nat
                               /\ i # bend => below(i) < below(bend)
<1> DEFINE below(i) == ChordBelow(f[1], g[1], f[N], g[N], f[i], g[i])
<1>1. /\ \A i \in 1 .. N : f[i] \in Int /\ g[i] \in Int
      /\ 1 \in 1 .. bend /\ bend \in 1 .. bend /\ 1 < bend /\ bend < N
      /\ bend \in bend .. N /\ N \in bend .. N
      /\ 1 \in 1 .. N /\ bend \in 1 .. N /\ N \in 1 .. N
  BY DEF IsStraight
<1>2. \A i, j \in 1 .. bend : i < j => f[i] < f[j] /\ OnALine(f, g, i, j, a, b)
  BY StraightIsALine
<1>3. \A i, j \in bend .. N : i < j => f[i] < f[j] /\ OnALine(f, g, i, j, c, d)
  BY StraightIsALine
<1>4. PICK f1, g1, fb, gb, fn, gn :
           /\ f1 = f[1] /\ fb = f[bend] /\ fn = f[N]
           /\ g1 = g[1] /\ gb = g[bend] /\ gn = g[N]
  OBVIOUS
<1>5. /\ f1 \in Int /\ fb \in Int /\ fn \in Int /\ g1 \in Int /\ gb \in Int /\ gn \in Int
      /\ f1 < fb /\ fb < fn
      /\ a * (fb - f1) = b * (gb - g1) /\ c * (fn - fb) = d * (gn - gb)
  BY <1>1, <1>2, <1>3, <1>4 DEF OnALine
<1>6. PICK G, H : /\ G \in Nat \ {0} /\ H \in Nat \ {0}
                  /\ G = b * (gn - g1) - a * (fn - f1)
                  /\ H = c * (fn - f1) - d * (gn - g1)
  BY <1>5, BendOfTwoLines
<1>7. ASSUME NEW i \in 1 .. N
      PROVE  below(i) \in Int /\ below(i) = ChordBelow(f1, g1, fn, gn, f[i], g[i])
  <2>1. PICK x, y : x = f[i] /\ y = g[i]
    OBVIOUS
  <2>2. x \in Int /\ y \in Int
    BY <1>1, <2>1
  <2>3. below(i) = (gn - g1) * (x - f1) - (fn - f1) * (y - g1)
    BY <1>4, <2>1 DEF ChordBelow
  <2>4. (gn - g1) * (x - f1) - (fn - f1) * (y - g1) \in Int
    BY <1>5, <2>2
  <2> QED
    BY <1>4, <2>3, <2>4
<1>8. ASSUME NEW i \in 1 .. bend PROVE b * below(i) = G * (f[i] - f1)
  <2>1. PICK x, y : x = f[i] /\ y = g[i]
    OBVIOUS
  <2>2. i \in 1 .. N
    BY <1>1
  <2>3. x \in Int /\ y \in Int
    BY <1>1, <2>1, <2>2
  <2>4. a * (x - f1) = b * (y - g1)
    <3>1. CASE i = 1
      BY <1>4, <1>5, <2>1, <3>1
    <3>2. CASE i # 1
      <4>1. 1 < i
        BY <3>2
      <4> QED
        BY <1>1, <1>2, <1>4, <2>1, <4>1 DEF OnALine
    <3> QED
      BY <3>1, <3>2
  <2>5. b * ChordBelow(f1, g1, fn, gn, x, y) = G * (x - f1)
    <3>1. PICK X, Y, F, E : X = x - f1 /\ Y = y - g1 /\ F = fn - f1 /\ E = gn - g1
      OBVIOUS
    <3>2. X \in Int /\ Y \in Int /\ F \in Int /\ E \in Int /\ a * X = b * Y
      BY <1>5, <2>3, <2>4, <3>1
    <3>3. b * (E * X - F * Y) = b * E * X - F * (b * Y)
      BY <3>2
    <3>4. (b * E - a * F) * X = b * E * X - F * (a * X)
      BY <3>2
    <3>5. ChordBelow(f1, g1, fn, gn, x, y) = E * X - F * Y /\ G = b * E - a * F
      BY <1>6, <3>1 DEF ChordBelow
    <3>6. b * (E * X - F * Y) = (b * E - a * F) * X
      BY <3>2, <3>3, <3>4
    <3> QED
      BY <3>1, <3>5, <3>6
  <2> QED
    BY <1>7, <2>1, <2>2, <2>5
<1>9. ASSUME NEW i \in bend .. N PROVE d * below(i) = H * (fn - f[i])
  <2>1. PICK x, y : x = f[i] /\ y = g[i]
    OBVIOUS
  <2>2. i \in 1 .. N
    BY <1>1
  <2>3. x \in Int /\ y \in Int
    BY <1>1, <2>1, <2>2
  <2>4. c * (fn - x) = d * (gn - y)
    <3>1. CASE i = N
      BY <1>4, <1>5, <2>1, <3>1
    <3>2. CASE i # N
      <4>1. i < N
        BY <1>1, <3>2
      <4> QED
        BY <1>1, <1>3, <1>4, <2>1, <4>1 DEF OnALine
    <3> QED
      BY <3>1, <3>2
  <2>5. d * ChordBelow(f1, g1, fn, gn, x, y) = H * (fn - x)
    <3>1. PICK X, Y, F, E : X = fn - x /\ Y = gn - y /\ F = fn - f1 /\ E = gn - g1
      OBVIOUS
    <3>2. /\ X \in Int /\ Y \in Int /\ F \in Int /\ E \in Int /\ c * X = d * Y
          /\ x - f1 = F - X /\ y - g1 = E - Y
      BY <1>5, <2>3, <2>4, <3>1
    <3>3. E * (F - X) - F * (E - Y) = F * Y - E * X
      BY <3>2
    <3>4. d * (F * Y - E * X) = F * (d * Y) - d * E * X
      BY <3>2
    <3>5. (c * F - d * E) * X = F * (c * X) - d * E * X
      BY <3>2
    <3>6. ChordBelow(f1, g1, fn, gn, x, y) = E * (F - X) - F * (E - Y) /\ H = c * F - d * E
      BY <1>6, <3>1, <3>2 DEF ChordBelow
    <3>7. d * (F * Y - E * X) = (c * F - d * E) * X
      BY <3>2, <3>4, <3>5
    <3> QED
      BY <3>1, <3>3, <3>6, <3>7
  <2> QED
    BY <1>7, <2>1, <2>2, <2>5
<1> HIDE DEF below
<1>10. ASSUME NEW i \in 1 .. N, i < bend PROVE below(i) < below(bend) /\ below(i) >= 0
  <2>1. PICK X, Y, u, v : X = f[i] - f1 /\ Y = fb - f1 /\ u = below(i) /\ v = below(bend)
    OBVIOUS
  <2>2. i \in 1 .. bend
    BY <1>10
  <2>3. b * u = G * X /\ b * v = G * Y
    BY <1>1, <1>4, <1>8, <2>1, <2>2
  <2>4. u \in Int /\ v \in Int
    BY <1>1, <1>7, <2>1
  <2>5. f[i] \in Int /\ f[i] < fb /\ f1 <= f[i]
    <3>1. f[i] \in Int /\ f[i] < fb
      BY <1>1, <1>2, <1>4, <1>10, <2>2
    <3>2. CASE i = 1
      BY <1>4, <1>5, <3>1, <3>2
    <3>3. CASE i # 1
      <4>1. 1 < i
        BY <3>3
      <4>2. f1 < f[i]
        BY <1>1, <1>2, <1>4, <2>2, <4>1
      <4> QED
        BY <1>5, <3>1, <4>2
    <3> QED
      BY <3>2, <3>3
  <2>6. X \in Int /\ Y \in Int /\ X < Y /\ X >= 0
    BY <1>5, <2>1, <2>5
  <2>7. u < v /\ u >= 0
    BY <1>6, <2>3, <2>4, <2>6, Proportional
  <2> QED
    BY <2>1, <2>7
<1>11. ASSUME NEW i \in 1 .. N, i > bend PROVE below(i) < below(bend) /\ below(i) >= 0
  <2>1. PICK X, Y, u, v : X = fn - f[i] /\ Y = fn - fb /\ u = below(i) /\ v = below(bend)
    OBVIOUS
  <2>2. i \in bend .. N
    BY <1>11
  <2>3. d * u = H * X /\ d * v = H * Y
    BY <1>1, <1>4, <1>9, <2>1, <2>2
  <2>4. u \in Int /\ v \in Int
    BY <1>1, <1>7, <2>1
  <2>5. f[i] \in Int /\ fb < f[i] /\ f[i] <= fn
    <3>1. f[i] \in Int /\ fb < f[i]
      BY <1>1, <1>3, <1>4, <1>11, <2>2
    <3>2. CASE i = N
      BY <1>4, <1>5, <3>1, <3>2
    <3>3. CASE i # N
      <4>1. i < N
        BY <3>3
      <4>2. f[i] < fn
        BY <1>1, <1>3, <1>4, <2>2, <4>1
      <4> QED
        BY <1>5, <3>1, <4>2
    <3> QED
      BY <3>2, <3>3
  <2>6. X \in Int /\ Y \in Int /\ X < Y /\ X >= 0
    BY <1>5, <2>1, <2>5
  <2>7. u < v /\ u >= 0
    BY <1>6, <2>3, <2>4, <2>6, Proportional
  <2> QED
    BY <2>1, <2>7
<1>12. below(bend) >= 0
  <2>1. below(1) < below(bend) /\ below(1) >= 0
    BY <1>1, <1>10
  <2>2. below(1) \in Int /\ below(bend) \in Int
    BY <1>1, <1>7
  <2> QED
    BY <2>1, <2>2
<1>13. ASSUME NEW i \in 1 .. N
       PROVE  below(i) \in Nat /\ (i # bend => below(i) < below(bend))
  <2>1. below(i) \in Int
    BY <1>7
  <2> QED
    BY <1>10, <1>11, <1>12, <2>1
<1> QED
  BY <1>13 DEF below

(* When the fitted line turns up, and when it does not.                    *)
LEMMA LinesTurnUp ==
  ASSUME NEW a \in Nat, NEW b \in Nat \ {0}, NEW c \in Nat \ {0}, NEW d \in Nat \ {0},
         2 * a * d <= c * b,
         NEW bn \in Int, NEW bd \in Nat \ {0}, NEW an \in Int, NEW ad \in Nat \ {0},
         a * bd = b * bn, c * ad = d * an
  PROVE  an > 0 /\ an * bd >= 2 * bn * ad
<1>1. c * ad > 0
  OBVIOUS
<1>2. an > 0
  BY <1>1
<1>3. PICK k, l, m : k = c * b - 2 * a * d /\ l = bd * ad /\ m = b * d
  OBVIOUS
<1>4. k \in Nat /\ l \in Nat \ {0} /\ m \in Nat \ {0} /\ k * l \in Nat
  <2>1. PICK cb, da : cb = c * b /\ da = 2 * a * d
    OBVIOUS
  <2>2. cb \in Int /\ da \in Int /\ da <= cb
    BY <2>1
  <2>3. k \in Nat
    BY <1>3, <2>1, <2>2
  <2>4. l \in Nat \ {0} /\ m \in Nat \ {0}
    BY <1>3
  <2> QED
    BY <2>3, <2>4
<1>5. m * (an * bd - 2 * bn * ad) = (d * an) * b * bd - 2 * (b * bn) * d * ad
  BY <1>3
<1>6. (c * ad) * b * bd - 2 * (a * bd) * d * ad = k * l
  BY <1>3
<1>7. m * (an * bd - 2 * bn * ad) = k * l
  BY <1>5, <1>6
<1>8. PICK x : x = an * bd - 2 * bn * ad
  OBVIOUS
<1>9. x \in Int /\ m * x >= 0
  BY <1>4, <1>7, <1>8
<1>10. x >= 0
  BY <1>4, <1>9
<1>11. PICK y, z : y = an * bd /\ z = 2 * bn * ad
  OBVIOUS
<1>12. y \in Int /\ z \in Int /\ x = y - z
  BY <1>8, <1>11
<1> QED
  BY <1>2, <1>10, <1>11, <1>12

LEMMA FlatterDoesNotTurnUp ==
  ASSUME NEW a \in Int, NEW b \in Nat \ {0},
         NEW bn \in Int, NEW bd \in Nat \ {0}, NEW an \in Int, NEW ad \in Nat \ {0},
         a * bd <= b * bn, b * an <= a * ad
  PROVE  /\ bn <= 0 => ~(an > 0)
         /\ bn > 0 => ~(an * bd >= 2 * bn * ad)
<1>1. ASSUME bn <= 0 PROVE ~(an > 0)
  <2>1. b * bn <= 0
    BY <1>1
  <2>2. a * bd <= 0
    BY <2>1
  <2>3. a <= 0
    BY <2>2
  <2>4. a * ad <= 0
    BY <2>3
  <2>5. b * an <= 0
    BY <2>4
  <2> QED
    BY <2>5
<1>2. ASSUME bn > 0 PROVE ~(an * bd >= 2 * bn * ad)
  <2>1. PICK x, y : x = an * bd /\ y = bn * ad
    OBVIOUS
  <2>2. x \in Int /\ y \in Int /\ y > 0
    BY <1>2, <2>1
  <2>3. (b * an) * bd <= (a * ad) * bd
    OBVIOUS
  <2>4. (a * bd) * ad <= (b * bn) * ad
    OBVIOUS
  <2>5. (b * an) * bd = b * x /\ (b * bn) * ad = b * y /\ (a * ad) * bd = (a * bd) * ad
    BY <2>1
  <2>6. b * x <= b * y
    <3>1. PICK u, v, w : u = b * x /\ v = b * y /\ w = (a * bd) * ad
      OBVIOUS
    <3>2. u \in Int /\ v \in Int /\ w \in Int
      BY <2>2, <3>1
    <3>3. u <= w /\ w <= v
      BY <2>3, <2>4, <2>5, <3>1
    <3> QED
      BY <3>1, <3>2, <3>3
  <2>7. x <= y
    BY <2>2, <2>6
  <2>8. 2 * bn * ad = 2 * y
    BY <2>1
  <2> QED
    BY <2>1, <2>2, <2>7, <2>8
<1> QED
  BY <1>1, <1>2

(* What is no steeper than something no steeper than a third is no steeper *)
(* than the third.                                                         *)
LEMMA NotSteeperIsTransitive ==
  ASSUME NEW p \in Int, NEW q \in Nat \ {0}, NEW r \in Int, NEW s \in Nat \ {0},
         NEW t \in Int, NEW u \in Nat \ {0},
         p * s <= r * q, r * u <= t * s
  PROVE  p * u <= t * q
<1>1. (p * s) * u <= (r * q) * u
  OBVIOUS
<1>2. (r * u) * q <= (t * s) * q
  OBVIOUS
<1>3. PICK x, y : x = p * u /\ y = t * q
  OBVIOUS
<1>4. x \in Int /\ y \in Int
  BY <1>3
<1>5. (p * s) * u = s * x /\ (t * s) * q = s * y /\ (r * q) * u = (r * u) * q
  BY <1>3
<1>6. s * x <= s * y
  <2>1. PICK v, w, z : v = s * x /\ w = s * y /\ z = (r * u) * q
    OBVIOUS
  <2>2. v \in Int /\ w \in Int /\ z \in Int /\ v <= z /\ z <= w
    BY <1>1, <1>2, <1>4, <1>5, <2>1
  <2> QED
    BY <2>1, <2>2
<1>7. x <= y
  BY <1>4, <1>6
<1> QED
  BY <1>3, <1>7

(* The curve as the two series that Knee fits lines to.                    *)
RpsOf(curve) == [i \in DOMAIN curve |-> curve[i].rps]

P95Of(curve) == [i \in DOMAIN curve |-> curve[i].p95]

AreSeries(N, f, g, curve) ==
  /\ f \in Seq(Int) /\ g \in Seq(Int) /\ Len(f) = N /\ Len(g) = N
  /\ \A i \in 1 .. N : f[i] \in Int /\ g[i] \in Int
  /\ \A i \in 1 .. N - 1 : f[i] < f[i + 1]
  /\ \A i \in 1 .. N - 1 : /\ Rise(curve, i).num = g[i + 1] - g[i]
                           /\ Rise(curve, i).den = f[i + 1] - f[i]
                           /\ Rise(curve, i).num \in Int
                           /\ Rise(curve, i).den \in Nat \ {0}

LEMMA CurveIsSeries ==
  ASSUME NEW M, NEW curve, IsCurve(curve, M)
  PROVE  AreSeries(Len(curve), RpsOf(curve), P95Of(curve), curve)
<1>1. PICK N, f, g : N = Len(curve) /\ f = RpsOf(curve) /\ g = P95Of(curve)
  OBVIOUS
<1>2. /\ N \in Nat /\ DOMAIN curve = 1 .. N
      /\ \A i \in 1 .. N : curve[i].rps \in Nat /\ curve[i].p95 \in Nat
      /\ \A i \in 1 .. N - 1 : curve[i].rps < curve[i + 1].rps
  BY <1>1 DEF IsCurve
<1>3. /\ f = [i \in 1 .. N |-> curve[i].rps] /\ g = [i \in 1 .. N |-> curve[i].p95]
  BY <1>1, <1>2 DEF RpsOf, P95Of
<1>4. \A i \in 1 .. N : /\ f[i] = curve[i].rps /\ f[i] \in Int
                        /\ g[i] = curve[i].p95 /\ g[i] \in Int
  BY <1>2, <1>3
<1>5. f \in Seq(Int) /\ g \in Seq(Int) /\ Len(f) = N /\ Len(g) = N
  BY <1>2, <1>3
<1>6. ASSUME NEW i \in 1 .. N - 1
      PROVE  /\ f[i] < f[i + 1]
             /\ Rise(curve, i).num = g[i + 1] - g[i]
             /\ Rise(curve, i).den = f[i + 1] - f[i]
             /\ Rise(curve, i).num \in Int
             /\ Rise(curve, i).den \in Nat \ {0}
  <2>1. i \in 1 .. N /\ i + 1 \in 1 .. N
    BY <1>2
  <2>2. Rise(curve, i).num = g[i + 1] - g[i] /\ Rise(curve, i).den = f[i + 1] - f[i]
    BY <1>4, <2>1 DEF Rise
  <2>3. f[i] < f[i + 1]
    BY <1>2, <1>4, <2>1
  <2>4. f[i] \in Int /\ f[i + 1] \in Int /\ g[i] \in Int /\ g[i + 1] \in Int
    BY <1>4, <2>1
  <2> QED
    BY <2>2, <2>3, <2>4
<1> QED
  BY <1>1, <1>4, <1>5, <1>6 DEF AreSeries

(* A straight stretch has one rise throughout.                             *)
Straight(curve, from, to) ==
  \A i, j \in from .. to : NotSteeper(Rise(curve, i), 1, Rise(curve, j))

LEMMA StretchIsStraight ==
  ASSUME NEW N \in Nat, NEW f, NEW g, NEW curve, AreSeries(N, f, g, curve),
         NEW from \in 1 .. N, NEW to \in 1 .. N, from < to,
         Straight(curve, from, to - 1), NEW k \in from .. to - 1
  PROVE  IsStraight(N, f, g, from, to, Rise(curve, k).num, Rise(curve, k).den)
<1>1. PICK a, b : a = Rise(curve, k).num /\ b = Rise(curve, k).den
  OBVIOUS
<1>2. a \in Int /\ b \in Int
  <2>1. k \in 1 .. N - 1
    OBVIOUS
  <2> QED
    BY <1>1, <2>1 DEF AreSeries
<1>3. ASSUME NEW i \in from .. to - 1
      PROVE  f[i] < f[i + 1] /\ a * (f[i + 1] - f[i]) = b * (g[i + 1] - g[i])
  <2>1. PICK c, d : c = Rise(curve, i).num /\ d = Rise(curve, i).den
    OBVIOUS
  <2>2. i \in 1 .. N - 1
    OBVIOUS
  <2>3. /\ c \in Int /\ d \in Int /\ f[i] < f[i + 1]
        /\ c = g[i + 1] - g[i] /\ d = f[i + 1] - f[i]
    BY <2>1, <2>2 DEF AreSeries
  <2>4. 1 * a * d <= c * b /\ 1 * c * b <= a * d
    BY <1>1, <2>1 DEF Straight, NotSteeper
  <2>5. a * d = b * c
    <3>1. PICK x, y : x = a * d /\ y = c * b
      OBVIOUS
    <3>2. x \in Int /\ y \in Int /\ 1 * a * d = x /\ 1 * c * b = y /\ b * c = y
      BY <1>2, <2>3, <3>1
    <3> QED
      BY <2>4, <3>1, <3>2
  <2> QED
    BY <2>3, <2>5
<1> QED
  BY <1>1, <1>3 DEF IsStraight, AreSeries

LEMMA StraightIsClimb ==
  ASSUME NEW N \in Nat, NEW f, NEW g, NEW from, NEW to, NEW a \in Int, NEW b \in Int,
         IsStraight(N, f, g, from, to, a, b)
  PROVE  IsClimb(N, f, g, from, to, a, b) /\ IsClimb(N, f, g, from, to, -a, -b)
<1>1. ASSUME NEW i \in from .. to - 1
      PROVE  /\ f[i] < f[i + 1]
             /\ a * (f[i + 1] - f[i]) <= b * (g[i + 1] - g[i])
             /\ (-a) * (f[i + 1] - f[i]) <= (-b) * (g[i + 1] - g[i])
  <2>1. PICK x, y : x = f[i + 1] - f[i] /\ y = g[i + 1] - g[i]
    OBVIOUS
  <2>2. i \in 1 .. N /\ i + 1 \in 1 .. N
    BY DEF IsStraight
  <2>3. x \in Int /\ y \in Int
    <3>1. f[i] \in Int /\ f[i + 1] \in Int /\ g[i] \in Int /\ g[i + 1] \in Int
      BY <2>2 DEF IsStraight
    <3> QED
      BY <2>1, <3>1
  <2>4. f[i] < f[i + 1] /\ a * x = b * y
    BY <2>1 DEF IsStraight
  <2>5. a * x <= b * y /\ (-a) * x <= (-b) * y
    BY <2>3, <2>4
  <2> QED
    BY <2>1, <2>4, <2>5
<1> QED
  BY <1>1 DEF IsStraight, IsClimb

(* The line that is fitted to a straight stretch rises as the stretch does.*)
LEMMA SlopeOfStraight ==
  ASSUME NEW N \in Nat, NEW f, NEW g, NEW from, NEW to, NEW a \in Int, NEW b \in Int,
         IsStraight(N, f, g, from, to, a, b)
  PROVE  LET slope == Slope(SubSeq(f, from, to), SubSeq(g, from, to))
         IN  /\ slope.num \in Int
             /\ slope.den \in Nat \ {0}
             /\ a * slope.den = b * slope.num
<1>1. PICK slope : slope = Slope(SubSeq(f, from, to), SubSeq(g, from, to))
  OBVIOUS
<1>2. /\ slope.num \in Int /\ slope.den \in Int /\ slope.den > 0
      /\ a * slope.den <= b * slope.num
  BY <1>1, StraightIsClimb, StretchIsNoFlatter
<1>3. (-a) * slope.den <= (-b) * slope.num
  <2>1. -a \in Int /\ -b \in Int
    OBVIOUS
  <2>2. IsClimb(N, f, g, from, to, -a, -b)
    BY StraightIsClimb
  <2> QED
    BY <1>1, <2>1, <2>2, StretchIsNoFlatter
<1>4. PICK x, y : x = slope.den /\ y = slope.num
  OBVIOUS
<1>5. x \in Int /\ y \in Int /\ a * x <= b * y /\ (-a) * x <= (-b) * y
  BY <1>2, <1>3, <1>4
<1>6. a * x = b * y
  <2>1. PICK v, w : v = a * x /\ w = b * y
    OBVIOUS
  <2>2. v \in Int /\ w \in Int /\ (-a) * x = -v /\ (-b) * y = -w
    BY <1>5, <2>1
  <2> QED
    BY <1>5, <2>1, <2>2
<1> QED
  BY <1>1, <1>2, <1>4, <1>6

(* The distance from the chord, of points below it.                        *)
LEMMA DistanceFromChord ==
  ASSUME NEW M, NEW curve, IsCurve(curve, M), Len(curve) >= 5,
         NEW f, NEW g, f = RpsOf(curve), g = P95Of(curve), NEW N, N = Len(curve),
         NEW i \in 1 .. N, ChordBelow(f[1], g[1], f[N], g[N], f[i], g[i]) \in Nat
  PROVE  FromChord(curve, i) = ChordBelow(f[1], g[1], f[N], g[N], f[i], g[i])
<1>1. N \in Nat /\ DOMAIN curve = 1 .. N
  BY DEF IsCurve
<1>2. \A j \in 1 .. N : f[j] = curve[j].rps /\ g[j] = curve[j].p95
  BY <1>1 DEF RpsOf, P95Of
<1>3. 1 \in 1 .. N /\ N \in 1 .. N
  BY <1>1
<1>4. PICK d : d = ChordBelow(f[1], g[1], f[N], g[N], f[i], g[i])
  OBVIOUS
<1>5. FromChord(curve, i) = IF d < 0 THEN -d ELSE d
  BY <1>2, <1>3, <1>4 DEF FromChord, ChordBelow
<1>6. d \in Nat
  BY <1>4
<1> QED
  BY <1>4, <1>5, <1>6

(* The knee of a curve of two straight stretches, the second at least      *)
(* twice as steep, is where they meet.                                     *)
LEMMA KneeOfTwoLines ==
  ASSUME NEW M, NEW curve, curve = Curve(M), IsCurve(curve, M),
         NEW N, N = Len(curve), N >= 5, NEW bend \in 2 .. N - 1,
         Straight(curve, 1, bend - 1), Straight(curve, bend, N - 1),
         Rise(curve, 1).num >= 0, Rise(curve, N - 1).num > 0,
         NotSteeper(Rise(curve, 1), 2, Rise(curve, N - 1))
  PROVE  Knee(M) = curve[bend]
<1>1. N \in Nat
  BY DEF IsCurve
<1>2. PICK f, g : f = RpsOf(curve) /\ g = P95Of(curve)
  OBVIOUS
<1>3. AreSeries(N, f, g, curve)
  BY <1>2, CurveIsSeries
<1>4. PICK a, b, c, d : /\ a = Rise(curve, 1).num /\ b = Rise(curve, 1).den
                        /\ c = Rise(curve, N - 1).num /\ d = Rise(curve, N - 1).den
  OBVIOUS
<1>5. /\ 1 \in 1 .. N - 1 /\ N - 1 \in 1 .. N - 1
      /\ 1 \in 1 .. N /\ bend \in 1 .. N /\ N \in 1 .. N /\ 1 < bend /\ bend < N
      /\ 1 \in 1 .. bend - 1 /\ N - 1 \in bend .. N - 1
  BY <1>1
<1>6. a \in Nat /\ b \in Nat \ {0} /\ c \in Nat \ {0} /\ d \in Nat \ {0}
  <2>1. a \in Int /\ b \in Nat \ {0} /\ c \in Int /\ d \in Nat \ {0}
    BY <1>3, <1>4, <1>5 DEF AreSeries
  <2>2. a >= 0 /\ c > 0
    BY <1>4
  <2> QED
    BY <2>1, <2>2
<1>7. 2 * a * d <= c * b
  BY <1>4 DEF NotSteeper
<1>8. IsStraight(N, f, g, 1, bend, a, b)
  BY <1>1, <1>3, <1>4, <1>5, StretchIsStraight
<1>9. IsStraight(N, f, g, bend, N, c, d)
  BY <1>1, <1>3, <1>4, <1>5, StretchIsStraight
<1> DEFINE below(i) == ChordBelow(f[1], g[1], f[N], g[N], f[i], g[i])
<1>10. \A i \in 1 .. N : below(i) \in Nat /\ (i # bend => below(i) < below(bend))
  BY <1>1, <1>6, <1>7, <1>8, <1>9, FarthestAtTheBend
<1>11. \A i \in 1 .. N : FromChord(curve, i) = below(i)
  BY <1>2, <1>10, DistanceFromChord
<1> HIDE DEF below
<1>12. BendOf(curve) = bend
  <2>1. PICK k : k = BendOf(curve)
    OBVIOUS
  <2>2. k \in 2 .. N - 1 /\ FromChord(curve, bend) <= FromChord(curve, k)
    BY <2>1, BendIsFarthest
  <2>3. k \in 1 .. N
    BY <1>1, <2>2
  <2>4. below(bend) <= below(k) /\ below(bend) \in Nat /\ below(k) \in Nat
    BY <1>5, <1>10, <1>11, <2>2, <2>3
  <2>5. k # bend => below(k) < below(bend)
    BY <1>10, <2>3
  <2> QED
    BY <2>1, <2>4, <2>5
<1>13. PICK before, after : /\ before = SlopeWithin(curve, 1, bend)
                            /\ after = SlopeWithin(curve, bend, N)
  OBVIOUS
<1>14. /\ before = Slope(SubSeq(f, 1, bend), SubSeq(g, 1, bend))
       /\ after = Slope(SubSeq(f, bend, N), SubSeq(g, bend, N))
  BY <1>2, <1>13 DEF SlopeWithin, RpsOf, P95Of
<1>15. /\ before.num \in Int /\ before.den \in Nat \ {0}
       /\ a * before.den = b * before.num
  <2>1. a \in Int /\ b \in Int
    BY <1>6
  <2> QED
    BY <1>1, <1>8, <1>14, <2>1, SlopeOfStraight
<1>16. /\ after.num \in Int /\ after.den \in Nat \ {0}
       /\ c * after.den = d * after.num
  <2>1. c \in Int /\ d \in Int
    BY <1>6
  <2> QED
    BY <1>1, <1>9, <1>14, <2>1, SlopeOfStraight
<1>17. TurnsUp(before, after)
  <2>1. PICK bn, bd, an, ad : /\ bn = before.num /\ bd = before.den
                              /\ an = after.num /\ ad = after.den
    OBVIOUS
  <2>2. /\ bn \in Int /\ bd \in Nat \ {0} /\ an \in Int /\ ad \in Nat \ {0}
        /\ a * bd = b * bn /\ c * ad = d * an
    BY <1>15, <1>16, <2>1
  <2>3. an > 0 /\ an * bd >= 2 * bn * ad
    BY <1>6, <1>7, <2>2, LinesTurnUp
  <2> QED
    BY <2>1, <2>3 DEF TurnsUp
<1>18. Cardinality({curve[i].p95 : i \in DOMAIN curve}) # 1
  <2> DEFINE values == {curve[i].p95 : i \in DOMAIN curve}
  <2>1. DOMAIN curve = 1 .. N
    BY DEF IsCurve
  <2>2. IsFiniteSet(values)
    <3>1. IsFiniteSet(1 .. N)
      BY <1>1, FS_Interval
    <3>2. values = {g[i] : i \in 1 .. N}
      BY <1>2, <2>1 DEF P95Of
    <3>3. IsFiniteSet({g[i] : i \in 1 .. N})
      BY <3>1, FiniteImage
    <3> HIDE DEF values
    <3> QED
      BY <3>2, <3>3
  <2>3. g[N - 1] \in values /\ g[N] \in values
    BY <1>1, <1>2, <1>5, <2>1 DEF P95Of
  <2>4. g[N - 1] # g[N]
    <3>1. c = g[(N - 1) + 1] - g[N - 1]
      BY <1>3, <1>4, <1>5 DEF AreSeries
    <3>2. (N - 1) + 1 = N /\ g[N] \in Int
      BY <1>1, <1>3, <1>5 DEF AreSeries
    <3> QED
      BY <1>6, <3>1, <3>2
  <2> HIDE DEF values
  <2>5. Cardinality(values) # 1
    BY <2>2, <2>3, <2>4, FS_Singleton
  <2> QED
    BY <2>5 DEF values
<1> QED
  BY <1>1, <1>12, <1>13, <1>17, <1>18, KneeIsTheFarthest

(* A curve that never gets steeper has no knee.                            *)
Concave(curve, last) ==
  \A i \in 1 .. last - 1 : NotSteeper(Rise(curve, i + 1), 1, Rise(curve, i))

LEMMA LaterIsNotSteeper ==
  ASSUME NEW N \in Nat, NEW f, NEW g, NEW curve, AreSeries(N, f, g, curve),
         Concave(curve, N - 1)
  PROVE  \A i, j \in 1 .. N - 1 :
           i <= j => NotSteeper(Rise(curve, j), 1, Rise(curve, i))
<1> SUFFICES ASSUME NEW i \in 1 .. N - 1
             PROVE  \A j \in 1 .. N - 1 : i <= j => NotSteeper(Rise(curve, j), 1, Rise(curve, i))
  OBVIOUS
<1> DEFINE T == {k \in 0 .. N - 1 - i : NotSteeper(Rise(curve, i + k), 1, Rise(curve, i))}
<1>1. /\ i \in Nat /\ N - 1 - i \in Nat
      /\ \A j \in 1 .. N - 1 : /\ Rise(curve, j).num \in Int
                               /\ Rise(curve, j).den \in Nat \ {0}
  BY DEF AreSeries
<1>2. 0 \in T
  <2>1. Rise(curve, i).num \in Int /\ Rise(curve, i).den \in Nat \ {0} /\ i + 0 = i
    BY <1>1
  <2>2. PICK p, q : p = Rise(curve, i).num /\ q = Rise(curve, i).den
    OBVIOUS
  <2>3. 1 * p * q <= p * q
    BY <2>1, <2>2
  <2> QED
    BY <1>1, <2>1, <2>2, <2>3 DEF NotSteeper
<1>3. ASSUME NEW k \in 1 .. N - 1 - i, k - 1 \in T PROVE k \in T
  <2>1. PICK j : j = i + (k - 1)
    OBVIOUS
  <2>2. j \in 1 .. N - 1 /\ j + 1 \in 1 .. N - 1 /\ j \in 1 .. (N - 1) - 1 /\ i + k = j + 1
    BY <1>1, <2>1
  <2>3. PICK p, q, r, s, t, u : /\ p = Rise(curve, j + 1).num /\ q = Rise(curve, j + 1).den
                                /\ r = Rise(curve, j).num /\ s = Rise(curve, j).den
                                /\ t = Rise(curve, i).num /\ u = Rise(curve, i).den
    OBVIOUS
  <2>4. /\ p \in Int /\ q \in Nat \ {0} /\ r \in Int /\ s \in Nat \ {0}
        /\ t \in Int /\ u \in Nat \ {0}
    BY <1>1, <2>2, <2>3
  <2>5. 1 * p * s <= r * q
    BY <2>2, <2>3 DEF Concave, NotSteeper
  <2>6. 1 * r * u <= t * s
    BY <1>3, <2>1, <2>3 DEF NotSteeper
  <2>7. 1 * p = p /\ 1 * r = r
    BY <2>4
  <2>8. p * u <= t * q
    BY <2>4, <2>5, <2>6, <2>7, NotSteeperIsTransitive
  <2>9. NotSteeper(Rise(curve, j + 1), 1, Rise(curve, i))
    BY <2>3, <2>7, <2>8 DEF NotSteeper
  <2> QED
    BY <2>2, <2>9
<1>4. 0 .. N - 1 - i \subseteq T
  <2> HIDE DEF T
  <2> QED
    BY <1>1, <1>2, <1>3, UpwardInduction
<1>5. ASSUME NEW j \in 1 .. N - 1, i <= j
      PROVE  NotSteeper(Rise(curve, j), 1, Rise(curve, i))
  <2>1. j - i \in 0 .. N - 1 - i /\ i + (j - i) = j
    BY <1>1, <1>5
  <2>2. j - i \in T
    BY <1>4, <2>1
  <2> QED
    BY <2>1, <2>2
<1> QED
  BY <1>5

LEMMA ConcaveHasNoKnee ==
  ASSUME NEW M, NEW curve, curve = Curve(M), IsCurve(curve, M),
         NEW N, N = Len(curve), N >= 5, Concave(curve, N - 1)
  PROVE  Knee(M) = NoKnee
<1>1. N \in Nat
  BY DEF IsCurve
<1>2. PICK f, g : f = RpsOf(curve) /\ g = P95Of(curve)
  OBVIOUS
<1>3. AreSeries(N, f, g, curve)
  BY <1>2, CurveIsSeries
<1>4. PICK bend : bend = BendOf(curve)
  OBVIOUS
<1>5. bend \in 2 .. N - 1
  BY <1>4, BendIsFarthest
<1>6. /\ 1 \in 1 .. N /\ bend \in 1 .. N /\ N \in 1 .. N /\ 1 < bend /\ bend < N
      /\ bend - 1 \in 1 .. N - 1
  BY <1>1, <1>5
<1>7. PICK a, b : a = Rise(curve, bend - 1).num /\ b = Rise(curve, bend - 1).den
  OBVIOUS
<1>8. a \in Int /\ b \in Nat \ {0} /\ b \in Int /\ -a \in Int /\ -b \in Int
  <2>1. a \in Int /\ b \in Nat \ {0}
    BY <1>3, <1>6, <1>7 DEF AreSeries
  <2> QED
    BY <2>1
<1>9. ASSUME NEW i \in 1 .. N - 1
      PROVE  /\ f[i] < f[i + 1]
             /\ i < bend => a * (f[i + 1] - f[i]) <= b * (g[i + 1] - g[i])
             /\ i >= bend => (-a) * (f[i + 1] - f[i]) <= (-b) * (g[i + 1] - g[i])
  <2>1. PICK c, d : c = Rise(curve, i).num /\ d = Rise(curve, i).den
    OBVIOUS
  <2>2. /\ c \in Int /\ d \in Nat \ {0} /\ f[i] < f[i + 1]
        /\ c = g[i + 1] - g[i] /\ d = f[i + 1] - f[i]
    BY <1>3, <2>1 DEF AreSeries
  <2>3. \A h, j \in 1 .. N - 1 : h <= j => NotSteeper(Rise(curve, j), 1, Rise(curve, h))
    BY <1>1, <1>3, LaterIsNotSteeper
  <2>4. PICK x, y : x = a * d /\ y = b * c
    OBVIOUS
  <2>5. /\ x \in Int /\ y \in Int /\ 1 * a * d = x /\ c * b = y
        /\ 1 * c * b = y /\ (-a) * d = -x /\ (-b) * c = -y
    <3>1. d \in Int
      BY <2>2
    <3>2. x \in Int /\ 1 * a * d = x /\ (-a) * d = -x
      BY <1>8, <2>4, <3>1
    <3>3. y \in Int /\ c * b = y /\ 1 * c * b = y /\ (-b) * c = -y
      <4>1. b \in Int /\ c \in Int
        BY <1>8, <2>2
      <4> QED
        BY <2>4, <4>1
    <3> QED
      BY <3>2, <3>3
  <2>6. ASSUME i < bend PROVE a * d <= b * c
    <3>1. i <= bend - 1
      BY <1>5, <2>6
    <3>2. 1 * a * d <= c * b
      BY <1>6, <1>7, <2>1, <2>3, <3>1 DEF NotSteeper
    <3> QED
      BY <2>4, <2>5, <3>2
  <2>7. ASSUME i >= bend PROVE (-a) * d <= (-b) * c
    <3>1. bend - 1 <= i
      BY <1>5, <2>7
    <3>2. 1 * c * b <= a * d
      BY <1>6, <1>7, <2>1, <2>3, <3>1 DEF NotSteeper
    <3>3. y <= x
      BY <2>4, <2>5, <3>2
    <3>4. -x <= -y
      BY <2>5, <3>3
    <3> QED
      BY <2>5, <3>4
  <2> QED
    BY <2>2, <2>6, <2>7
<1>10. IsClimb(N, f, g, 1, bend, a, b)
  <2>1. \A i \in 1 .. bend - 1 : i \in 1 .. N - 1 /\ i < bend
    BY <1>1, <1>5
  <2> QED
    BY <1>3, <1>6, <1>9, <2>1 DEF IsClimb, AreSeries
<1>11. IsClimb(N, f, g, bend, N, -a, -b)
  <2>1. \A i \in bend .. N - 1 : i \in 1 .. N - 1 /\ i >= bend
    BY <1>1, <1>5
  <2> QED
    BY <1>3, <1>6, <1>9, <2>1 DEF IsClimb, AreSeries
<1>12. PICK before, after : /\ before = SlopeWithin(curve, 1, bend)
                            /\ after = SlopeWithin(curve, bend, N)
  OBVIOUS
<1>13. /\ before = Slope(SubSeq(f, 1, bend), SubSeq(g, 1, bend))
       /\ after = Slope(SubSeq(f, bend, N), SubSeq(g, bend, N))
  BY <1>2, <1>12 DEF SlopeWithin, RpsOf, P95Of
<1>14. /\ before.num \in Int /\ before.den \in Int /\ before.den > 0
       /\ a * before.den <= b * before.num
  BY <1>1, <1>8, <1>10, <1>13, StretchIsNoFlatter
<1>15. /\ after.num \in Int /\ after.den \in Int /\ after.den > 0
       /\ (-a) * after.den <= (-b) * after.num
  BY <1>1, <1>8, <1>11, <1>13, StretchIsNoFlatter
<1>16. ~TurnsUp(before, after)
  <2>1. PICK bn, bd, an, ad : /\ bn = before.num /\ bd = before.den
                              /\ an = after.num /\ ad = after.den
    OBVIOUS
  <2>2. /\ bn \in Int /\ bd \in Nat \ {0} /\ an \in Int /\ ad \in Nat \ {0}
        /\ a * bd <= b * bn /\ (-a) * ad <= (-b) * an
    BY <1>14, <1>15, <2>1
  <2>3. b * an <= a * ad
    <3>1. PICK x, y : x = a * ad /\ y = b * an
      OBVIOUS
    <3>2. x \in Int /\ y \in Int /\ (-a) * ad = -x /\ (-b) * an = -y
      BY <1>8, <2>2, <3>1
    <3>3. -x <= -y
      BY <2>2, <3>2
    <3> QED
      BY <3>1, <3>2, <3>3
  <2>4. /\ bn <= 0 => ~(an > 0)
        /\ bn > 0 => ~(an * bd >= 2 * bn * ad)
    BY <1>8, <2>2, <2>3, FlatterDoesNotTurnUp
  <2> QED
    BY <2>1, <2>2, <2>4 DEF TurnsUp
<1> QED
  BY <1>1, <1>4, <1>12, <1>16, KneeIsTheFarthest

-----------------------------------------------------------------------------
(* LoadTest.                                                               *)

(* A load test implements each of its parts: what another does leaves the  *)
(* state of a part as it is.                                               *)
THEOREM LoadTestRunsItsParts ==
  LoadTestSpec => WebSocketSpec /\ GrpcSpec /\ HttpSpec /\ FileSpec /\ Spec
<1>1. LoadTestInit => WebSocketInit /\ GrpcInit /\ HttpInit /\ FileInit /\ Init
  BY DEF LoadTestInit, UserInit, HttpUnused, LiveInit, ObservationInit, CsvInit
<1>2. [LoadTestNext]_<<part, userVars, observationVars>>
        => /\ [WebSocketNext]_wsVars
           /\ [GrpcNext]_grpcVars
           /\ [HttpNext]_httpVars
           /\ [FileNext]_fileVars
           /\ [Next]_vars
  <2>1. UserNext => /\ [WebSocketNext]_wsVars /\ [GrpcNext]_grpcVars
                    /\ [HttpNext]_httpVars /\ [FileNext]_fileVars
    BY DEF UserNext, WebSocketStep, GrpcStep, HttpStep, FileStep
  <2>2. ObservationNext => [Next]_vars
    BY DEF ObservationNext
  <2> QED
    BY <2>1, <2>2 DEF LoadTestNext, userVars, observationVars
<1> QED
  BY <1>1, <1>2, PTL DEF LoadTestSpec, WebSocketSpec, GrpcSpec, HttpSpec, FileSpec, Spec

(* So whatever holds of a part alone holds while the load test runs it.    *)
THEOREM LoadTestIsSafe ==
  LoadTestSpec => /\ [](/\ PoolBound /\ OnlyAStopLeaks /\ OneChannel
                        /\ RefusedForAReason /\ UserIsTheDocuments
                        /\ AlertsMatchBreaches)
                  /\ PointIsBracketed
BY LoadTestRunsItsParts, PoolIsBounded, OnlyStopsLeak, ChannelIsSingle,
   RefusalsAreExplained, UsersAreTheirDocuments, AlertsAreBreaches, PointsAreBracketed, PTL

(* The invariant of a load test that is observed through its history.      *)
LEMMA HistoryIsOrdered ==
  /\ LoadTestInit => HistoryInv
  /\ HistoryInv /\ [LoadTestNext]_<<part, userVars, observationVars>>
       => HistoryInv' /\ [FollowsPlan]_historyVars
<1>1. LoadTestInit => HistoryInv
  <2> SUFFICES ASSUME LoadTestInit PROVE HistoryInv
    OBVIOUS
  <2>1. \/ observer = "live" /\ rows = <<>>
        \/ observer = "csv" /\ HistoryInit
    BY DEF LoadTestInit, LiveInit, ObservationInit, CsvInit
  <2>2. InOrder(<<>>, pace)
    BY DEF InOrder
  <2>3. CASE observer = "csv" /\ HistoryInit
    <3>1. shape \in ShapeType /\ pace \in Nat
      BY <2>3, ShapeAssumption DEF HistoryInit
    <3>2. elapsed = 0 /\ users = UsersAt(shape, elapsed) /\ rows = <<>>
      BY <2>3 DEF HistoryInit
    <3> QED
      BY <2>2, <2>3, <3>1, <3>2 DEF HistoryInv
  <2> QED
    BY <2>1, <2>3 DEF HistoryInv
<1>2. HistoryInv /\ [LoadTestNext]_<<part, userVars, observationVars>>
        => HistoryInv' /\ [FollowsPlan]_historyVars
  <2> SUFFICES ASSUME HistoryInv, [LoadTestNext]_<<part, userVars, observationVars>>
               PROVE  HistoryInv' /\ [FollowsPlan]_historyVars
    OBVIOUS
  <2>1. CASE UNCHANGED <<observer, historyVars>>
    BY <2>1 DEF HistoryInv, historyVars
  <2>2. CASE observer = "csv" /\ HistoryNext /\ UNCHANGED observer
    BY <2>2, TickKeepsHistory
  <2>3. \/ UNCHANGED <<observer, historyVars>>
        \/ observer = "csv" /\ HistoryNext /\ UNCHANGED observer
    BY DEF LoadTestNext, ObservationNext, observationVars
  <2> QED
    BY <2>1, <2>2, <2>3
<1> QED
  BY <1>1, <1>2

(* From one tick to the next, whatever the distance between them, a load   *)
(* test that is observed through its history does what its shape is        *)
(* documented to do: it stays within its peak, rises and falls when it     *)
(* should, and stops no sooner than its course is over, for good.          *)
THEOREM LoadIsAsPlanned == LoadTestSpec => LoadFollowsPlan
BY HistoryIsOrdered, PTL DEF LoadTestSpec, LoadFollowsPlan

(* A spike that lasts is reported as one window, whatever the shape of the *)
(* load and whatever fails: the background against which a row is judged   *)
(* does not follow the spike, and rows of which each is flagged and near   *)
(* the next are never parted; windows that are reported are apart.         *)
THEOREM SpikesAreWhole == LoadTestSpec => []SustainedSpikeIsOneWindow
<1>1. HistoryInv => SustainedSpikeIsOneWindow
  <2> SUFFICES ASSUME HistoryInv, rows # <<>> PROVE SustainedSpikeIsOneWindow
    BY DEF SustainedSpikeIsOneWindow
  <2> DEFINE rates == [i \in DOMAIN rows |-> rows[i].rate]
             N == Len(rows)
             Lasts(i, j) == /\ \A k \in i .. j : rows[k].rate >= rows[i].rate
                            /\ pace <= 2 * SpikeMinDuration
                            /\ rows[j].time - rows[i].time >= SpikeMinDuration
             Covers(spike, i, j) == spike.start <= rows[i].time /\ rows[j].time <= spike.end
             Apart(s, t) == \/ s = t
                            \/ s.end + 2 * SpikeMinDuration < t.start
                            \/ t.end + 2 * SpikeMinDuration < s.start
  <2>1. /\ rows \in Seq(HistoryRow) /\ pace \in Nat
        /\ \A i, j \in 1 .. N : i <= j => rows[i].time <= rows[j].time
        /\ \A i \in 1 .. N - 1 : rows[i + 1].time - rows[i].time <= pace
    BY DEF HistoryInv, InOrder
  <2>2. N \in Nat /\ \A i \in 1 .. N : rows[i].time \in Nat /\ rows[i].rate \in Nat
    <3>1. ASSUME NEW i \in 1 .. N PROVE rows[i].time \in Nat /\ rows[i].rate \in Nat
      <4>1. rows[i] \in HistoryRow
        BY <2>1
      <4> QED
        BY <4>1 DEF HistoryRow
    <3> QED
      BY <2>1, <3>1
  <2>3. /\ rates \in Seq(Nat) /\ Len(rates) = N /\ rates # <<>>
        /\ \A i \in 1 .. N : rates[i] = rows[i].rate
    BY <2>1, <2>2
  <2> HIDE DEF N
  <2>4. PICK F : F = Scan(rates)
    OBVIOUS
  <2>5. F \in SUBSET (1 .. N)
    <3>1. PICK background : F = {i \in 1 .. N :
                                  Scale * rates[i] > SpikeThreshold(background[i - 1])}
      <4> HIDE DEF rates
      <4> QED
        BY <2>3, <2>4, ScanFlags
    <3> QED
      BY <3>1
  <2>6. PICK window : AreWindows(window, rows, F)
    <3>1. PICK M : M = rows
      OBVIOUS
    <3>2. M # <<>> /\ F = Scan([i \in DOMAIN M |-> M[i].rate])
      BY <2>4, <3>1
    <3> HIDE DEF rates
    <3>3. \E window : AreWindows(window, M, F)
      BY <3>2, SpikesAreWindows
    <3> QED
      BY <3>1, <3>3
  <2>7. ASSUME NEW i \in F, NEW j \in i .. N, Lasts(i, j)
        PROVE  \E spike \in ErrorSpikes(rows) : Covers(spike, i, j)
    <3>1. i \in 1 .. N /\ j \in 1 .. N /\ i <= j
      BY <2>2, <2>5
    <3>2. i .. j \subseteq F
      <4>1. \A k \in i .. j : rates[k] >= rates[i]
        BY <2>2, <2>3, <2>7, <3>1
      <4> HIDE DEF rates
      <4> QED
        BY <2>3, <2>4, <2>7, <4>1, SpikesAreSustained
    <3>3. \A k \in i .. j - 1 : Near(rows, k, k + 1)
      <4> SUFFICES ASSUME NEW k \in i .. j - 1 PROVE Near(rows, k, k + 1)
        OBVIOUS
      <4>1. k \in 1 .. N - 1 /\ k \in 1 .. N /\ k + 1 \in 1 .. N
        BY <2>2, <3>1
      <4>2. rows[k + 1].time - rows[k].time <= pace
        BY <2>1, <4>1
      <4>3. rows[k].time \in Nat /\ rows[k + 1].time \in Nat
        BY <2>2, <4>1
      <4> QED
        BY <2>1, <2>7, <4>2, <4>3, AnalysisAssumption DEF Near
    <3>4. j \in F
      BY <3>1, <3>2
    <3>5. PICK start \in Starts(rows, F) : start <= i /\ EndOf(rows, F, start) >= j
      BY <2>2, <2>5, <3>1, <3>2, <3>3, <3>4, RunsAreInOneWindow
    <3>6. PICK end : end = EndOf(rows, F, start)
      OBVIOUS
    <3>7. start \in 1 .. N /\ end \in 1 .. N
      <4>1. start \in F
        BY WindowRows
      <4>2. end \in Ends(rows, F)
        BY <2>2, <2>5, <3>6, <4>1, WindowsEnd
      <4>3. end \in F
        BY <4>2, WindowRows
      <4> QED
        BY <2>5, <4>1, <4>3
    <3>8. rows[start].time <= rows[i].time /\ rows[j].time <= rows[end].time
      BY <2>1, <3>1, <3>5, <3>6, <3>7
    <3>9. window[start].start = rows[start].time /\ window[start].end = rows[end].time
      BY <2>6, <3>5, <3>6 DEF AreWindows
    <3>10. rows[end].time - rows[start].time >= SpikeMinDuration
      BY <2>2, <2>7, <3>1, <3>7, <3>8, AnalysisAssumption
    <3>11. window[start] \in ErrorSpikes(rows)
      BY <2>6, <3>5, <3>9, <3>10 DEF AreWindows
    <3> QED
      BY <3>8, <3>9, <3>11
  <2>8. ASSUME NEW s \in ErrorSpikes(rows), NEW t \in ErrorSpikes(rows)
        PROVE  Apart(s, t)
    <3>1. PICK i \in Starts(rows, F) : s = window[i]
      BY <2>6 DEF AreWindows
    <3>2. PICK j \in Starts(rows, F) : t = window[j]
      BY <2>6 DEF AreWindows
    <3>3. i \in Nat /\ j \in Nat
      <4>1. i \in F /\ j \in F
        BY WindowRows
      <4> QED
        BY <2>5, <4>1
    <3>4. \A m, n \in Starts(rows, F) :
            m < n => window[m].end + 2 * SpikeMinDuration < window[n].start
      BY <2>1, <2>2, <2>5, <2>6, WindowsAreApart DEF AreWindows
    <3>5. i = j \/ i < j \/ j < i
      BY <3>3
    <3> QED
      BY <3>1, <3>2, <3>4, <3>5
  <2> HIDE DEF Lasts, Covers, Apart
  <2>9. /\ \A i \in F : \A j \in i .. N :
             Lasts(i, j) => \E spike \in ErrorSpikes(rows) : Covers(spike, i, j)
        /\ \A s, t \in ErrorSpikes(rows) : Apart(s, t)
    BY <2>7, <2>8
  <2> QED
    BY <2>4, <2>9 DEF SustainedSpikeIsOneWindow, N, Lasts, Covers, Apart
<1> QED
  BY <1>1, HistoryIsOrdered, PTL DEF LoadTestSpec

LEMMA RowsAreRows ==
  ASSUME HistoryInv PROVE rows \in Seq(HistoryRow)
<1>1. CASE observer = "csv"
  BY <1>1 DEF HistoryInv, InOrder
<1>2. CASE observer # "csv"
  BY <1>2 DEF HistoryInv
<1> QED
  BY <1>1, <1>2

(* The knee of a curve that bends once, upwards, is its bend, wherever it  *)
(* is and however many points are on either side; and a curve that never   *)
(* gets steeper has none.                                                  *)
THEOREM KneesAreBends == LoadTestSpec => []KneeIsTheBend
<1>1. HistoryInv => KneeIsTheBend
  <2> SUFFICES ASSUME HistoryInv PROVE KneeIsTheBend
    OBVIOUS
  <2>1. PICK curve, N : curve = Curve(rows) /\ N = Len(curve)
    OBVIOUS
  <2>2. IsCurve(curve, rows)
    BY <2>1, RowsAreRows, CurveIsOfRows
  <2>3. ASSUME N >= 5, NEW bend \in 2 .. N - 1,
               Straight(curve, 1, bend - 1), Straight(curve, bend, N - 1),
               Rise(curve, 1).num >= 0, Rise(curve, N - 1).num > 0,
               NotSteeper(Rise(curve, 1), 2, Rise(curve, N - 1))
        PROVE  Knee(rows) = curve[bend]
    BY <2>1, <2>2, <2>3, KneeOfTwoLines
  <2>4. ASSUME N >= 5, Concave(curve, N - 1) PROVE Knee(rows) = NoKnee
    BY <2>1, <2>2, <2>4, ConcaveHasNoKnee
  <2> QED
    BY <2>1, <2>3, <2>4 DEF KneeIsTheBend, Straight, Concave
<1> QED
  BY <1>1, HistoryIsOrdered, PTL DEF LoadTestSpec

(* A projected capacity lies beyond every load that the test has run, the  *)
(* knee included; where the p95 rises by the same amount with every        *)
(* request per second, and was not smoothed, it is where that line meets   *)
(* the SLO, however many rows there are.                                   *)
THEOREM CapacityIsNotWithin == LoadTestSpec => []CapacityIsBeyondTheLoad
<1>1. HistoryInv => CapacityIsBeyondTheLoad
  <2> SUFFICES ASSUME HistoryInv PROVE CapacityIsBeyondTheLoad
    OBVIOUS
  <2>1. PICK M, points, breach :
             M = rows /\ points = Aggregated(rows) /\ breach = Capacity(rows)
    OBVIOUS
  <2>2. M \in Seq(HistoryRow)
    BY <2>1, RowsAreRows
  <2>3. PICK values : values = [i \in DOMAIN points |-> points[i].p95]
    OBVIOUS
  <2>4. ASSUME breach # NoBreach
        PROVE  \A i \in DOMAIN points : points[i].rps * breach.den <= breach.num
    BY <2>1, <2>2, <2>4, CapacityIsBeyond
  <2>5. ASSUME breach # NoBreach, Knee(rows) # NoKnee
        PROVE  Knee(rows).rps * breach.den <= breach.num
    <3>1. PICK i \in 1 .. Len(Curve(M)) : Knee(M) = Curve(M)[i]
      BY <2>1, <2>2, <2>5, KneeIsOfCurve
    <3>2. PICK k \in DOMAIN points : Curve(M)[i].rps = points[k].rps
      BY <2>1, <2>2, CurveIsOfRows DEF IsCurve
    <3> QED
      BY <2>1, <2>4, <2>5, <3>1, <3>2
  <2>6. ASSUME breach # NoBreach, NEW beta \in 1 .. 2, NEW alpha \in 0 .. 5,
               \A i \in DOMAIN points : points[i].p95 = alpha + beta * points[i].rps,
               Fitted(values) = [i \in DOMAIN values |-> Scale * values[i]],
               \A i \in DOMAIN points : points[i].p95 <= Slo
        PROVE  beta * breach.num = (Slo - alpha) * breach.den
    <3>1. beta \in Nat /\ beta > 0 /\ alpha \in Nat
      OBVIOUS
    <3> QED
      BY <2>1, <2>2, <2>3, <2>6, <3>1, CapacityIsOnTheLine
  <2> QED
    BY <2>1, <2>3, <2>4, <2>5, <2>6 DEF CapacityIsBeyondTheLoad
<1> QED
  BY <1>1, HistoryIsOrdered, PTL DEF LoadTestSpec

=============================================================================
