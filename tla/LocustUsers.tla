---------------------------- MODULE LocustUsers ----------------------------
(***************************************************************************)
(* The users of a Locust process: a WebSocketUser, a GrpcUser, one of the  *)
(* HTTP users, or a user whose class locust-gen has generated.  Users of a *)
(* process share none of the state of these modules but what HttpUser lets *)
(* others change, so a behaviour is that of one user.                      *)
(***************************************************************************)
EXTENDS WebSocketUser, GrpcUser, HttpUser, LocustFile

VARIABLE kind  \* the module that the user is of

userVars == <<kind, wsVars, grpcVars, httpVars, fileVars>>

(* The initial state of HttpUser for a user that is of another module.     *)
HttpUnused ==
  /\ HttpInit
  /\ userClass = CHOOSE c \in UserClass : TRUE
  /\ config = CHOOSE c \in AuthConfig : TRUE
  /\ issued = CHOOSE c \in Credential : TRUE
  /\ envToken = NoToken

UserInit ==
  /\ kind \in {"WebSocketUser", "GrpcUser", "HttpUser", "LocustFile"}
  /\ WebSocketInit
  /\ GrpcInit
  /\ IF kind = "HttpUser" THEN HttpInit ELSE HttpUnused
  /\ FileInit

WebSocketStep ==
  kind = "WebSocketUser" /\ WebSocketNext /\ UNCHANGED <<kind, grpcVars, httpVars, fileVars>>

GrpcStep ==
  kind = "GrpcUser" /\ GrpcNext /\ UNCHANGED <<kind, wsVars, httpVars, fileVars>>

HttpStep ==
  kind = "HttpUser" /\ HttpNext /\ UNCHANGED <<kind, wsVars, grpcVars, fileVars>>

FileStep ==
  kind = "LocustFile" /\ FileNext /\ UNCHANGED <<kind, wsVars, grpcVars, httpVars>>

UserNext == WebSocketStep \/ GrpcStep \/ HttpStep \/ FileStep

UserSpec == UserInit /\ [][UserNext]_userVars

=============================================================================
