--------------------------- MODULE SharedServices ---------------------------
(***************************************************************************)
(* What the users of a Locust process share: the token cache of an         *)
(* OAuth2Authenticator (TokenCache) and a RequestCorrelator, each with a   *)
(* lock of its own.  Neither calls the other or reads what it keeps, so a  *)
(* behaviour is of one or the other.                                       *)
(***************************************************************************)
EXTENDS TokenCache, RequestCorrelator

VARIABLE service  \* "authenticator" or "correlator"

ServicesInit ==
  /\ service \in {"authenticator", "correlator"}
  /\ Init
  /\ CorrelatorInit

ServicesNext ==
  \/ service = "authenticator" /\ Next /\ UNCHANGED <<service, correlatorVars>>
  \/ service = "correlator" /\ CorrelatorNext /\ UNCHANGED <<service, vars>>

(* The fairness is that of the token cache.                                *)
ServicesSpec ==
  /\ ServicesInit
  /\ [][ServicesNext]_<<service, vars, correlatorVars>>
  /\ \A u \in Caller : WF_vars(Step(u))

=============================================================================
