-------------------------- MODULE MCSharedServices --------------------------
(***************************************************************************)
(* Small instance of SharedServices.  Token cache: two callers, a short    *)
(* and a long lifetime, and enough seconds for the long one to run out.    *)
(* Correlator: two senders; one names the user a, the other a or b, so     *)
(* that requests of two users and of one overlap.                          *)
(***************************************************************************)
EXTENDS SharedServices

CONSTANTS u1, u2, s1, s2, a, b

MCUsersOf == (s1 :> {a}) @@ (s2 :> {a, b})
=============================================================================
