----------------------------- MODULE TokenCache -----------------------------
(***************************************************************************)
(* The OAuth2 token cache of auth.py (OAuth2ClientCredentialsAuthenticator):*)
(* two class attributes, _shared_token and _shared_expires_at, shared by   *)
(* every instance of the process.  Callers (Locust users, or threads) run  *)
(* authenticate() and get_headers():                                       *)
(*                                                                         *)
(*   _is_token_valid()   reads the token, then the expiry, without a lock; *)
(*   _request_token()    POSTs without the lock, then takes it to store    *)
(*                       the token and the expiry, one after the other;    *)
(*   get_headers()       reads the token once more for the header.         *)
(*                                                                         *)
(* Time is counted in seconds.  The steps of a caller take none: a second  *)
(* passes only while every caller is outside a call or waiting for its     *)
(* POST.  They interleave all the same, as threads do (greenlets switch at *)
(* the POST only, which is a subset of these behaviours).  The token       *)
(* endpoint answers at most Timeout seconds after it has issued a token,   *)
(* the timeout requests.post is given, and expires_in is the lifetime it   *)
(* enforces.                                                               *)
(***************************************************************************)
EXTENDS Naturals, FiniteSets

CONSTANTS
  Caller,         \* concurrent callers
  Lifetimes,      \* values of expires_in
  Timeout,        \* timeout of the POST (10 s by default)
  SafetyMargin,   \* how long before its expiry a token is refreshed (30 s)
  MaxTime,        \* bound: how many seconds a behaviour lasts
  None            \* no token, no answer

(* The defaults 10 and 30 satisfy the first two; a server whose expires_in *)
(* is not above the margin makes every call POST.                          *)
ASSUME TimingAssumption ==
  /\ Timeout \in Nat
  /\ SafetyMargin \in Nat
  /\ Timeout <= SafetyMargin
  /\ Lifetimes \subseteq Nat
  /\ \A life \in Lifetimes : SafetyMargin < life
  /\ MaxTime \in Nat

(* A token is known by when the endpoint issued it and for how long.       *)
Token == [issued : Nat, life : Nat]

ASSUME NoneAssumption == None \notin Token

VARIABLES
  sharedToken,      \* _shared_token
  sharedExpiresAt,  \* _shared_expires_at
  now,              \* time.monotonic()
  pc,               \* where each caller is
  checks,           \* calls of _is_token_valid still to make
  answer,           \* the answer to the caller's POST, once issued
  reusable          \* history variable: the cache was valid when called

vars == <<sharedToken, sharedExpiresAt, now, pc, checks, answer, reusable>>
cache == <<sharedToken, sharedExpiresAt>>

-----------------------------------------------------------------------------
Accepted(token) == now < token.issued + token.life

Fresh == now + SafetyMargin < sharedExpiresAt

IsTokenValid == sharedToken # None /\ Fresh

(* The lock, held by the caller that is storing.                           *)
Storing == {"storeToken", "storeExpiry"}
LockFree == \A u \in Caller : pc[u] \notin Storing

Init ==
  /\ sharedToken = None
  /\ sharedExpiresAt = 0
  /\ now = 0
  /\ pc = [u \in Caller |-> "idle"]
  /\ checks = [u \in Caller |-> 0]
  /\ answer = [u \in Caller |-> None]
  /\ reusable = [u \in Caller |-> FALSE]

Goto(u, place) == pc' = [pc EXCEPT ![u] = place]

(* authenticate() checks twice, the second time inside get_headers().      *)
Call(u) ==
  /\ pc[u] = "idle"
  /\ Goto(u, "check")
  /\ \E n \in {1, 2} : checks' = [checks EXCEPT ![u] = n]
  /\ reusable' = [reusable EXCEPT ![u] = IsTokenValid]
  /\ UNCHANGED <<cache, now, answer>>

(* _is_token_valid, first read.                                            *)
CheckToken(u) ==
  /\ pc[u] = "check"
  /\ Goto(u, IF sharedToken = None THEN "post" ELSE "checkExpiry")
  /\ UNCHANGED <<cache, now, checks, answer, reusable>>

(* Variant of Proceed: one check too many.                                 *)
ProceedTooFar(u) ==
  /\ checks' = [checks EXCEPT ![u] = @ - 1]
  /\ Goto(u, IF checks[u] = 0 THEN "header" ELSE "check")

(* After a check that passed, or a token that was stored: the next check,  *)
(* or the header.                                                          *)
Proceed(u) ==
  /\ checks' = [checks EXCEPT ![u] = @ - 1]
  /\ Goto(u, IF checks[u] = 1 THEN "header" ELSE "check")

(* _is_token_valid, second read.                                           *)
CheckExpiry(u) ==
  /\ pc[u] = "checkExpiry"
  /\ IF Fresh THEN Proceed(u) ELSE Goto(u, "post") /\ UNCHANGED checks
  /\ UNCHANGED <<cache, now, answer, reusable>>

(* _request_token: the POST leaves, and nothing is locked.                 *)
Post(u) ==
  /\ pc[u] = "post"
  /\ Goto(u, "wait")
  /\ UNCHANGED <<cache, now, checks, answer, reusable>>

(* The endpoint issues a token.                                            *)
Issue(u, life) ==
  /\ pc[u] = "wait"
  /\ answer[u] = None
  /\ answer' = [answer EXCEPT ![u] = [issued |-> now, life |-> life]]
  /\ UNCHANGED <<cache, now, pc, checks, reusable>>

Receive(u) ==
  /\ pc[u] = "wait"
  /\ answer[u] # None
  /\ Goto(u, "lock")
  /\ UNCHANGED <<cache, now, checks, answer, reusable>>

(* Variant of Fail: a failed POST is repeated.                             *)
Retry(u) ==
  /\ pc[u] = "wait"
  /\ Goto(u, "post")
  /\ answer' = [answer EXCEPT ![u] = None]
  /\ UNCHANGED <<cache, now, checks, reusable>>

(* No answer in time, a status other than 200, or a body without a token:  *)
(* AuthenticationError, and the cache stays as it is.                      *)
Fail(u) ==
  /\ pc[u] = "wait"
  /\ Goto(u, "idle")
  /\ answer' = [answer EXCEPT ![u] = None]
  /\ UNCHANGED <<cache, now, checks, reusable>>

(* Variant of Acquire: the two assignments are not locked.                 *)
EnterUnlocked(u) ==
  /\ pc[u] = "lock"
  /\ Goto(u, "storeToken")
  /\ UNCHANGED <<cache, now, checks, answer, reusable>>

Acquire(u) ==
  /\ pc[u] = "lock"
  /\ LockFree
  /\ Goto(u, "storeToken")
  /\ UNCHANGED <<cache, now, checks, answer, reusable>>

(* Variant of StoreToken: the cache is invalidated first.                  *)
InvalidateAndStore(u) ==
  /\ pc[u] = "storeToken"
  /\ sharedToken' = answer[u]
  /\ sharedExpiresAt' = 0
  /\ Goto(u, "storeExpiry")
  /\ UNCHANGED <<now, checks, answer, reusable>>

(* The token of the last POST to be answered is stored, also over a token  *)
(* that was issued after it.                                               *)
StoreToken(u) ==
  /\ pc[u] = "storeToken"
  /\ sharedToken' = answer[u]
  /\ Goto(u, "storeExpiry")
  /\ UNCHANGED <<sharedExpiresAt, now, checks, answer, reusable>>

(* The expiry, counted from when it is stored, and the release.            *)
StoreExpiry(u) ==
  /\ pc[u] = "storeExpiry"
  /\ sharedExpiresAt' = now + answer[u].life
  /\ answer' = [answer EXCEPT ![u] = None]
  /\ Proceed(u)
  /\ UNCHANGED <<sharedToken, now, reusable>>

(* The end of get_headers: the header is built from sharedToken.           *)
Return(u) ==
  /\ pc[u] = "header"
  /\ Goto(u, "idle")
  /\ UNCHANGED <<cache, now, checks, answer, reusable>>

Tick ==
  /\ now < MaxTime
  /\ \A u \in Caller : pc[u] \in {"idle", "wait"}
  /\ \A u \in Caller : answer[u] # None => now < answer[u].issued + Timeout
  /\ now' = now + 1
  /\ UNCHANGED <<cache, pc, checks, answer, reusable>>

Step(u) ==
  \/ CheckToken(u) \/ CheckExpiry(u) \/ Post(u)
  \/ \E life \in Lifetimes : Issue(u, life)
  \/ Receive(u) \/ Fail(u)
  \/ Acquire(u) \/ StoreToken(u) \/ StoreExpiry(u) \/ Return(u)

Next == Tick \/ \E u \in Caller : Call(u) \/ Step(u)

(* A call that has begun goes on, and its POST ends (it has a timeout); no *)
(* fairness is asked of new calls, and none of the order in which waiting  *)
(* callers get the lock.                                                   *)
Spec == Init /\ [][Next]_vars /\ \A u \in Caller : WF_vars(Step(u))

-----------------------------------------------------------------------------
Places == {"idle", "check", "checkExpiry", "post", "wait", "lock", "header"}
            \cup Storing

(* Types of every variable: inside a call there is a check to make, and a  *)
(* caller that stores has an answer.                                       *)
TypeOK ==
  /\ sharedToken \in Token \cup {None}
  /\ sharedExpiresAt \in Nat
  /\ now \in Nat
  /\ pc \in [Caller -> Places]
  /\ checks \in [Caller -> {0, 1, 2}]
  /\ answer \in [Caller -> Token \cup {None}]
  /\ reusable \in [Caller -> BOOLEAN]
  /\ \A u \in Caller :
       /\ pc[u] \notin {"idle", "header"} => checks[u] # 0
       /\ pc[u] \in {"lock"} \cup Storing => answer[u] # None

(* Every header a call returns carries a token, never the empty string     *)
(* that get_headers falls back to, and the endpoint still accepts it: the  *)
(* unlocked reads, the answers stored out of order and the expiry counted  *)
(* from the arrival of the answer never let an expired token through.      *)
HeadersAreAccepted ==
  \A u \in Caller :
    pc[u] = "header" => sharedToken # None /\ Accepted(sharedToken)

(* auth.py, line 336: "If the shared token is still valid, no HTTP call is *)
(* made", also when another caller is replacing that token meanwhile.      *)
ValidTokenIsReused ==
  \A u \in Caller : reusable[u] => pc[u] \notin {"post", "wait"}

(* Every call ends, with a header or an AuthenticationError.               *)
CallsReturn == \A u \in Caller : pc[u] # "idle" ~> pc[u] = "idle"

(* docs/auth-providers.md, line 120: "A `threading.Lock` protects the      *)
(* token refresh, ensuring that concurrent Locust users do not trigger     *)
(* duplicate token requests."  The POST is outside the lock.               *)
NoDuplicateRequest == Cardinality({u \in Caller : pc[u] = "wait"}) <= 1

-----------------------------------------------------------------------------
(* The inductive invariant behind HeadersAreAccepted.  While nobody is     *)
(* between the two assignments, the stored expiry exceeds the true one by  *)
(* the Timeout at most, which the margin makes up for; in between, the     *)
(* token is one that was issued at most Timeout ago.                       *)
AnswersAreRecent ==
  \A u \in Caller :
    answer[u] # None =>
      /\ answer[u].life \in Lifetimes
      /\ answer[u].issued <= now
      /\ now <= answer[u].issued + Timeout

OneHolder ==
  \A u, v \in Caller : pc[u] \in Storing /\ pc[v] \in Storing => u = v

StoredExpiryIsClose ==
  /\ sharedToken = None => sharedExpiresAt = 0
  /\ \A u \in Caller : pc[u] = "storeExpiry" => sharedToken = answer[u]
  /\ \/ sharedToken = None
     \/ \E u \in Caller : pc[u] = "storeExpiry"
     \/ sharedExpiresAt <= sharedToken.issued + sharedToken.life + Timeout

CheckedHaveToken ==
  \A u \in Caller : pc[u] = "checkExpiry" => sharedToken # None

HeaderInv ==
  /\ TypeOK
  /\ AnswersAreRecent
  /\ OneHolder
  /\ StoredExpiryIsClose
  /\ CheckedHaveToken
  /\ HeadersAreAccepted

=============================================================================
