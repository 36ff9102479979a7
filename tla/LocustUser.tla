----------------------------- MODULE LocustUser -----------------------------
(***************************************************************************)
(* The greenlets of one simulated user.  Locust runs the tasks of a user   *)
(* in one greenlet, Main; tasks may spawn others that use the same object  *)
(* (none in the documented use: Greenlet = {Main}).                        *)
(*                                                                         *)
(* Locust stops a user by raising GreenletExit where Main waits, which no  *)
(* "except Exception" catches, and then calls on_stop in Main; it raises   *)
(* GreenletExit once more when on_stop takes too long.  The other          *)
(* greenlets go on.                                                        *)
(***************************************************************************)
EXTENDS FiniteSets

CONSTANTS
  Greenlet,  \* the greenlets of the user
  Main,      \* the one that Locust runs it in
  None       \* no connection, channel or stub

ASSUME GreenletAssumption == Main \in Greenlet /\ IsFiniteSet(Greenlet)

=============================================================================
