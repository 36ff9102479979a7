------------------------------ MODULE GrpcUser ------------------------------
(***************************************************************************)
(* GrpcUser (grpc.py): the channel of one simulated user, the stubs bound  *)
(* to it and the unary calls made through them by the greenlets of the     *)
(* user (LocustUser), which switch where the code waits: authenticate(),   *)
(* get_headers(), a call and the closing of the channel.                   *)
(*                                                                         *)
(* External (grpcio): a channel is open from its creation until close();   *)
(* close() that raises leaves it closed.                                   *)
(***************************************************************************)
EXTENDS LocustUser

CONSTANTS
  Channel,      \* bound: the channels that can be created
  Stub          \* stub classes, by name

ASSUME GrpcAssumption == None \notin Channel

VARIABLES
  channel,        \* _channel
  openChannels,   \* channels that were created and not closed
  created,        \* channels that were created
  stubs,          \* _stub_cache: the channel a stub is bound to
  authenticator,  \* _authenticator is not None
  at,             \* where each greenlet is
  calling         \* the channel of the call it is in

grpcVars == <<channel, openChannels, created, stubs, authenticator, at, calling>>
channelVars == <<channel, openChannels, created, stubs>>

-----------------------------------------------------------------------------
(* A helper is spawned by a task: after on_start.                          *)
GrpcInit ==
  /\ channel = None
  /\ openChannels = {}
  /\ created = {}
  /\ stubs = [s \in Stub |-> None]
  /\ authenticator = FALSE
  /\ at = [g \in Greenlet |-> IF g = Main THEN "starting" ELSE "unborn"]
  /\ calling = [g \in Greenlet |-> None]

Stay(g, there) ==
  /\ at' = [at EXCEPT ![g] = there]
  /\ UNCHANGED calling

(* on_start, _setup_auth: a failure falls back to no authentication.       *)
SetupAuth(ok) ==
  /\ at[Main] = "starting"
  /\ authenticator' = ok
  /\ at' = [g \in Greenlet |-> "ready"]
  /\ UNCHANGED <<channelVars, calling>>

(* Variant of GetChannel: it always creates one.                           *)
GetChannelAnew(g, fresh) ==
  /\ at[g] = "ready"
  /\ fresh \notin created
  /\ channel' = fresh
  /\ created' = created \cup {fresh}
  /\ openChannels' = openChannels \cup {fresh}
  /\ UNCHANGED <<stubs, authenticator, at, calling>>

(* _get_channel, when there is none: with one, it changes nothing.         *)
GetChannel(g, fresh) ==
  /\ at[g] = "ready"
  /\ channel = None
  /\ fresh \notin created
  /\ channel' = fresh
  /\ created' = created \cup {fresh}
  /\ openChannels' = openChannels \cup {fresh}
  /\ UNCHANGED <<stubs, authenticator, at, calling>>

(* _get_stub, when the stub is not cached; RuntimeError without a channel. *)
GetStub(g, s) ==
  /\ at[g] = "ready"
  /\ stubs[s] = None
  /\ channel # None
  /\ stubs' = [stubs EXCEPT ![s] = channel]
  /\ UNCHANGED <<channel, openChannels, created, authenticator, at, calling>>

(* _call_rpc on a method of a cached stub, up to the call itself.  It      *)
(* waits for get_headers() before it if the user is authenticated, and the *)
(* answer to either makes one event.                                       *)
CallRpc(g, s) ==
  /\ at[g] = "ready"
  /\ stubs[s] # None
  /\ at' = [at EXCEPT ![g] = IF authenticator THEN "metadata" ELSE "calling"]
  /\ calling' = [calling EXCEPT ![g] = stubs[s]]
  /\ UNCHANGED <<channelVars, authenticator>>

GetAuthMetadata(g) ==
  /\ at[g] = "metadata"
  /\ Stay(g, "calling")
  /\ UNCHANGED <<channelVars, authenticator>>

(* The call answers or raises, or get_headers() raises.                    *)
CallEnds(g) ==
  /\ at[g] \in {"metadata", "calling"}
  /\ at' = [at EXCEPT ![g] = "ready"]
  /\ calling' = [calling EXCEPT ![g] = None]
  /\ UNCHANGED <<channelVars, authenticator>>

(* Variant of StopGrpcUser: the channel is dropped before it is closed.    *)
StopDropsFirst ==
  /\ at[Main] \in {"starting", "ready", "metadata", "calling"}
  /\ at' = [at EXCEPT ![Main] = IF channel = None THEN "stopped" ELSE "stopping"]
  /\ calling' = [calling EXCEPT ![Main] = channel]
  /\ channel' = None
  /\ UNCHANGED <<openChannels, created, stubs, authenticator>>

(* GreenletExit reaches Main; on_stop, up to the closing of the channel.   *)
StopGrpcUser ==
  /\ at[Main] \in {"starting", "ready", "metadata", "calling"}
  /\ at' = [at EXCEPT ![Main] = IF channel = None THEN "stopped" ELSE "stopping"]
  /\ calling' = [calling EXCEPT ![Main] = channel]
  /\ UNCHANGED <<channelVars, authenticator>>

(* The channel is closed, then dropped; the stubs stay cached.             *)
StopGrpcEnds ==
  /\ at[Main] = "stopping"
  /\ openChannels' = openChannels \ {calling[Main]}
  /\ channel' = None
  /\ at' = [at EXCEPT ![Main] = "stopped"]
  /\ calling' = [calling EXCEPT ![Main] = None]
  /\ UNCHANGED <<created, stubs, authenticator>>

(* GreenletExit reaches on_stop while the channel is being closed.         *)
StopGrpcKilled ==
  /\ at[Main] = "stopping"
  /\ at' = [at EXCEPT ![Main] = "stopped"]
  /\ calling' = [calling EXCEPT ![Main] = None]
  /\ UNCHANGED <<channelVars, authenticator>>

GrpcNext ==
  \/ \E ok \in BOOLEAN : SetupAuth(ok)
  \/ \E g \in Greenlet :
       \/ \E fresh \in Channel : GetChannel(g, fresh)
       \/ \E s \in Stub : GetStub(g, s) \/ CallRpc(g, s)
       \/ GetAuthMetadata(g)
       \/ CallEnds(g)
  \/ StopGrpcUser
  \/ StopGrpcEnds
  \/ StopGrpcKilled

GrpcSpec == GrpcInit /\ [][GrpcNext]_grpcVars

-----------------------------------------------------------------------------
GrpcPlace == {"unborn", "starting", "ready", "metadata", "calling", "stopping", "stopped"}

GrpcTypeOK ==
  /\ channel \in Channel \cup {None}
  /\ openChannels \subseteq created
  /\ created \subseteq Channel
  /\ stubs \in [Stub -> Channel \cup {None}]
  /\ authenticator \in BOOLEAN
  /\ at \in [Greenlet -> GrpcPlace]
  /\ calling \in [Greenlet -> Channel \cup {None}]

(* The class docstring (grpc.py, line 39): "Manages a single gRPC channel  *)
(* per user instance."  No channel but _channel is ever open, also while   *)
(* on_stop closes it and other greenlets ask for one; and until the user   *)
(* stops, every cached stub and every call is on it.  (After on_stop the   *)
(* stubs of the closed channel stay cached, grpc.py, line 187.)            *)
OneChannel ==
  /\ openChannels \subseteq {channel}
  /\ at[Main] \notin {"stopping", "stopped"} =>
       /\ \A s \in Stub : stubs[s] \in {None} \cup openChannels
       /\ \A g \in Greenlet : calling[g] \in {None} \cup openChannels

=============================================================================
