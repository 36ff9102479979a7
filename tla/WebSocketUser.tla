--------------------------- MODULE WebSocketUser ---------------------------
(***************************************************************************)
(* WebSocketUser (websocket.py): the pool of WebSocket connections of one  *)
(* simulated user (LocustUser).  Its greenlets switch where the code waits *)
(* for a socket: create_connection, send, recv and close.  All else is one *)
(* step.                                                                   *)
(*                                                                         *)
(* External (websocket-client): create_connection leaves no socket open    *)
(* when it raises, and close none when it returns or raises.               *)
(***************************************************************************)
EXTENDS LocustUser, Naturals, FiniteSets

CONSTANTS
  Connection,      \* bound: the connection ids that uuid4 yields
  MaxConnections   \* max_connections

ASSUME WebSocketAssumption ==
  /\ IsFiniteSet(Connection)
  /\ MaxConnections \in Nat
  /\ None \notin Connection

VARIABLES
  pool,      \* the keys of _connections and _connection_states
  sockets,   \* connections whose socket is open
  used,      \* ids that uuid4 has yielded
  place,     \* where each greenlet is
  on,        \* the connection it is working on
  rest,      \* the keys that on_stop has still to close
  late       \* history variable: registered while on_stop was closing

wsVars == <<pool, sockets, used, place, on, rest, late>>

-----------------------------------------------------------------------------
InOperation == {"connecting", "using", "closing"}

WebSocketInit ==
  /\ pool = {}
  /\ sockets = {}
  /\ used = {}
  /\ place = [g \in Greenlet |-> "ready"]
  /\ on = [g \in Greenlet |-> None]
  /\ rest = {}
  /\ late = {}

Go(g, there, c) ==
  /\ place' = [place EXCEPT ![g] = there]
  /\ on' = [on EXCEPT ![g] = c]

(* Variant of Connect: the pool may always grow.                           *)
ConnectUnchecked(g) ==
  /\ place[g] = "ready"
  /\ Go(g, "connecting", None)
  /\ UNCHANGED <<pool, sockets, used, rest, late>>

(* connect, up to create_connection; WebSocketError when the pool is full. *)
Connect(g) ==
  /\ place[g] = "ready"
  /\ Cardinality(pool) < MaxConnections
  /\ Go(g, "connecting", None)
  /\ UNCHANGED <<pool, sockets, used, rest, late>>

(* Variant of Connected: an id is yielded more than once.                  *)
ConnectedAgain(g, c) ==
  /\ place[g] = "connecting"
  /\ sockets' = sockets \cup {c}
  /\ pool' = pool \cup {c}
  /\ Go(g, "ready", None)
  /\ UNCHANGED <<used, rest, late>>

(* create_connection returns: the event is fired and the new connection is *)
(* entered, without a switch.                                              *)
Connected(g, c) ==
  /\ place[g] = "connecting"
  /\ c \notin used
  /\ used' = used \cup {c}
  /\ sockets' = sockets \cup {c}
  /\ pool' = pool \cup {c}
  /\ late' = IF place[Main] = "stopping" THEN late \cup {c} ELSE late
  /\ Go(g, "ready", None)
  /\ UNCHANGED rest

(* create_connection raises: the event is fired, and connect raises.       *)
ConnectFailed(g) ==
  /\ place[g] = "connecting"
  /\ Go(g, "ready", None)
  /\ UNCHANGED <<pool, sockets, used, rest, late>>

(* send and receive, up to the socket; the id must be in the pool.         *)
Use(g, c) ==
  /\ place[g] = "ready"
  /\ c \in pool
  /\ Go(g, "using", c)
  /\ UNCHANGED <<pool, sockets, used, rest, late>>

(* The socket answers, or raises (a timeout, or another greenlet closed    *)
(* it): the event is fired.                                                *)
Used(g) ==
  /\ place[g] = "using"
  /\ Go(g, "ready", None)
  /\ UNCHANGED <<pool, sockets, used, rest, late>>

(* Variant of Close: the connection leaves the pool first.                 *)
CloseForgets(g, c) ==
  /\ place[g] = "ready"
  /\ c \in pool
  /\ Go(g, "closing", c)
  /\ pool' = pool \ {c}
  /\ UNCHANGED <<sockets, used, rest, late>>

(* close, up to the socket.                                                *)
Close(g, c) ==
  /\ place[g] = "ready"
  /\ c \in pool
  /\ Go(g, "closing", c)
  /\ UNCHANGED <<pool, sockets, used, rest, late>>

(* The socket is closed; the connection leaves the pool, if no one else    *)
(* has taken it out, even when ws.close() raised.                          *)
Closed(g) ==
  /\ place[g] = "closing"
  /\ sockets' = sockets \ {on[g]}
  /\ pool' = pool \ {on[g]}
  /\ Go(g, "ready", None)
  /\ UNCHANGED <<used, rest, late>>

(* GreenletExit reaches Main, between two operations or inside one, whose  *)
(* remaining statements do not run; on_stop copies the keys.               *)
StopUser ==
  /\ place[Main] \in InOperation \cup {"ready"}
  /\ Go(Main, "stopping", None)
  /\ rest' = pool
  /\ UNCHANGED <<pool, sockets, used, late>>

(* on_stop takes the next key; one that is gone is a KeyError, swallowed.  *)
StopNext(c) ==
  /\ place[Main] = "stopping"
  /\ on[Main] = None
  /\ c \in rest
  /\ rest' = rest \ {c}
  /\ Go(Main, "stopping", IF c \in pool THEN c ELSE None)
  /\ UNCHANGED <<pool, sockets, used, late>>

StopClosed ==
  /\ place[Main] = "stopping"
  /\ on[Main] # None
  /\ sockets' = sockets \ {on[Main]}
  /\ Go(Main, "stopping", None)
  /\ UNCHANGED <<pool, used, rest, late>>

(* The last statements of on_stop: both dictionaries are cleared.          *)
StopClears ==
  /\ place[Main] = "stopping"
  /\ on[Main] = None
  /\ rest = {}
  /\ pool' = {}
  /\ Go(Main, "stopped", None)
  /\ UNCHANGED <<sockets, used, rest, late>>

(* GreenletExit reaches on_stop while it waits for a socket.               *)
StopKilled ==
  /\ place[Main] = "stopping"
  /\ on[Main] # None
  /\ rest' = {}
  /\ Go(Main, "stopped", None)
  /\ UNCHANGED <<pool, sockets, used, late>>

WebSocketNext ==
  \/ \E g \in Greenlet :
       \/ Connect(g)
       \/ ConnectFailed(g)
       \/ Used(g)
       \/ Closed(g)
       \/ \E c \in Connection : Connected(g, c) \/ Use(g, c) \/ Close(g, c)
  \/ StopUser
  \/ \E c \in Connection : StopNext(c)
  \/ StopClosed
  \/ StopClears
  \/ StopKilled

WebSocketSpec == WebSocketInit /\ [][WebSocketNext]_wsVars

-----------------------------------------------------------------------------
Place == InOperation \cup {"ready", "stopping", "stopped"}

(* Types; only Main stops, and a greenlet has a connection in hand exactly *)
(* while it waits for that connection's socket.                            *)
WebSocketTypeOK ==
  /\ pool \subseteq used
  /\ sockets \subseteq used
  /\ used \subseteq Connection
  /\ place \in [Greenlet -> Place]
  /\ on \in [Greenlet -> Connection \cup {None}]
  /\ rest \subseteq used
  /\ late \subseteq used
  /\ \A g \in Greenlet :
       /\ place[g] \in {"stopping", "stopped"} => g = Main
       /\ place[g] \in {"using", "closing"} => on[g] # None
       /\ place[g] \in {"ready", "connecting", "stopped"} => on[g] = None

Connecting == {g \in Greenlet : place[g] = "connecting"}

(* What the docs promise of max_connections (docs/websocket-testing.md,    *)
(* line 22: "each user instance manages up to max_connections simultaneous *)
(* WebSocket connections"; websocket.py, line 90: an error "if             *)
(* max_connections would be exceeded").  MCWebSocketMaximum.cfg shows that *)
(* two greenlets of a user exceed it.                                      *)
PoolWithinMaximum == Cardinality(pool) <= MaxConnections

(* How far the pool may outgrow max_connections (websocket.py, line 94),   *)
(* given that PoolWithinMaximum does not hold: the limit is checked before *)
(* the socket is opened and the connection is entered after, so each other *)
(* greenlet can add one, and none when Main is alone; connections being    *)
(* opened are counted in.                                                  *)
PoolBound ==
  Cardinality(pool) + Cardinality(Connecting)
    <= MaxConnections + Cardinality(Greenlet) - 1

(* A socket is open outside the pool only if it was entered while on_stop  *)
(* was closing the others and lost when on_stop cleared the pool           *)
(* (websocket.py, line 272).  Operations that are killed, that fail or     *)
(* that overlap on one connection lose none.                               *)
OnlyAStopLeaks == sockets \ pool \subseteq late

=============================================================================
