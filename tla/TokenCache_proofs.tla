------------------------- MODULE TokenCache_proofs -------------------------
(***************************************************************************)
(* Proofs about TokenCache, for every number of callers and every timeout, *)
(* safety margin and set of lifetimes that meet TimingAssumption.          *)
(***************************************************************************)
EXTENDS SharedServices, TLAPS

(* What holds of a caller about to store: its answer is recent, so its     *)
(* token is still accepted.                                                *)
LEMMA RecentIsAccepted ==
  ASSUME TypeOK, AnswersAreRecent, NEW u \in Caller, answer[u] # None
  PROVE  /\ answer[u] \in Token
         /\ answer[u].life \in Nat
         /\ Accepted(answer[u])
         /\ now + answer[u].life <= answer[u].issued + answer[u].life + Timeout
<1>1. answer[u] \in Token /\ answer[u].life \in Lifetimes
  BY DEF TypeOK, AnswersAreRecent
<1>2. /\ answer[u].life \in Nat /\ answer[u].issued \in Nat /\ now \in Nat
      /\ Timeout < answer[u].life /\ Timeout \in Nat
  BY <1>1, TimingAssumption DEF TypeOK, Token
<1>3. now <= answer[u].issued + Timeout
  BY DEF AnswersAreRecent
<1> QED
  BY <1>1, <1>2, <1>3 DEF Accepted

(* A check that passes when nobody is between the two assignments finds a  *)
(* token that is still accepted: the margin makes up for the time the      *)
(* answer took.  In between, the token has just been received.             *)
LEMMA FreshIsAccepted ==
  ASSUME HeaderInv, sharedToken # None, Fresh
  PROVE  Accepted(sharedToken)
<1>1. CASE \E u \in Caller : pc[u] = "storeExpiry"
  <2>1. PICK u \in Caller : pc[u] = "storeExpiry"
    BY <1>1
  <2>2. answer[u] # None /\ sharedToken = answer[u]
    BY <2>1 DEF HeaderInv, TypeOK, Storing, StoredExpiryIsClose
  <2> QED
    BY <2>2, RecentIsAccepted DEF HeaderInv
<1>2. CASE ~ \E u \in Caller : pc[u] = "storeExpiry"
  <2>1. sharedExpiresAt <= sharedToken.issued + sharedToken.life + Timeout
    BY <1>2 DEF HeaderInv, StoredExpiryIsClose
  <2>2. /\ sharedToken.issued \in Nat /\ sharedToken.life \in Nat
        /\ sharedExpiresAt \in Nat /\ now \in Nat
    BY DEF HeaderInv, TypeOK, Token
  <2> QED
    BY <2>1, <2>2, TimingAssumption DEF Fresh, Accepted
<1> QED
  BY <1>1, <1>2

(* The header invariant holds initially.                                   *)
LEMMA InitHeader == Init => HeaderInv
BY DEF Init, HeaderInv, TypeOK, Places, Storing, AnswersAreRecent, OneHolder,
   StoredExpiryIsClose, CheckedHaveToken, HeadersAreAccepted

(* Only the caller that moves changes its place and its local variables.   *)
Others(u) ==
  \A v \in Caller \ {u} : pc'[v] = pc[v] /\ answer'[v] = answer[v]

(* A step of one caller that touches neither the cache nor the clock keeps *)
(* the invariant, given what it does to that caller.                       *)
LEMMA LocalStep ==
  ASSUME HeaderInv, NEW u \in Caller, TypeOK', Others(u),
         UNCHANGED <<sharedToken, sharedExpiresAt, now>>,
         pc[u] # "storeExpiry", pc'[u] # "storeExpiry",
         pc'[u] = "storeToken" => LockFree,
         answer'[u] # None =>
           /\ answer'[u].life \in Lifetimes
           /\ answer'[u].issued <= now
           /\ now <= answer'[u].issued + Timeout,
         pc'[u] = "checkExpiry" => sharedToken # None,
         pc'[u] = "header" => sharedToken # None /\ Accepted(sharedToken)
  PROVE  HeaderInv'
<1> USE DEF HeaderInv
<1>1. AnswersAreRecent'
  BY DEF AnswersAreRecent, Others, Storing
<1>2. OneHolder'
  BY DEF OneHolder, Others, Storing, LockFree
<1>3. StoredExpiryIsClose'
  BY DEF StoredExpiryIsClose, Others
<1>4. CheckedHaveToken'
  BY DEF CheckedHaveToken, Others
<1>5. HeadersAreAccepted'
  BY DEF HeadersAreAccepted, Others, Accepted
<1> QED
  BY <1>1, <1>2, <1>3, <1>4, <1>5

(* One step keeps the types.                                               *)
LEMMA StepKeepsTypes == TypeOK /\ [Next]_vars => TypeOK'
<1> SUFFICES ASSUME TypeOK, [Next]_vars
             PROVE  TypeOK'
  OBVIOUS
<1> USE DEF TypeOK, Goto, cache, Places, Storing
<1>1. CASE Tick
  BY <1>1 DEF Tick
<1>2. ASSUME NEW u \in Caller, Call(u)
      PROVE  TypeOK'
  BY <1>2 DEF Call, IsTokenValid, Fresh
<1>3. ASSUME NEW u \in Caller, Step(u)
      PROVE  TypeOK'
  <2>1. CASE CheckToken(u)
    BY <2>1 DEF CheckToken
  <2>2. CASE CheckExpiry(u)
    BY <2>2 DEF CheckExpiry, Proceed
  <2>3. CASE Post(u) \/ Receive(u) \/ Fail(u) \/ Acquire(u) \/ Return(u)
    BY <2>3, NoneAssumption DEF Post, Receive, Fail, Acquire, Return
  <2>4. ASSUME NEW life \in Lifetimes, Issue(u, life)
        PROVE  TypeOK'
    BY <2>4, TimingAssumption, NoneAssumption DEF Issue, Token
  <2>5. CASE StoreToken(u)
    BY <2>5 DEF StoreToken
  <2>6. CASE StoreExpiry(u)
    <3>1. answer[u] \in Token /\ checks[u] \in {1, 2}
      BY <2>6 DEF StoreExpiry
    <3> QED
      BY <2>6, <3>1 DEF StoreExpiry, Proceed, Token
  <2> QED
    BY <1>3, <2>1, <2>2, <2>3, <2>4, <2>5, <2>6 DEF Step
<1>4. CASE UNCHANGED vars
  BY <1>4 DEF vars
<1> QED
  BY <1>1, <1>2, <1>3, <1>4 DEF Next

(* Every variable keeps its type and each caller's local variables fit its *)
(* place in the call.                                                      *)
THEOREM TypeCorrect == Spec => []TypeOK
<1>1. Init => TypeOK
  BY InitHeader DEF HeaderInv
<1> QED
  BY <1>1, StepKeepsTypes, PTL DEF Spec

(* One step keeps the invariant behind HeadersAreAccepted.                 *)
LEMMA StepKeepsHeaders == HeaderInv /\ [Next]_vars => HeaderInv'
<1> SUFFICES ASSUME HeaderInv, [Next]_vars
             PROVE  HeaderInv'
  OBVIOUS
<1>0. TypeOK /\ TypeOK'
  BY StepKeepsTypes DEF HeaderInv
<1>1. CASE Tick
  <2>1. /\ UNCHANGED <<sharedToken, sharedExpiresAt, pc, answer>>
        /\ now' = now + 1 /\ now \in Nat
        /\ \A u \in Caller : pc[u] \in {"idle", "wait"}
        /\ \A u \in Caller : answer[u] # None => now < answer[u].issued + Timeout
    BY <1>0, <1>1 DEF Tick, cache, TypeOK
  <2>2. AnswersAreRecent'
    <3>1. \A u \in Caller : answer[u] # None => answer[u].issued \in Nat
      BY <1>0 DEF TypeOK, Token
    <3> QED
      BY <2>1, <3>1, TimingAssumption DEF HeaderInv, AnswersAreRecent
  <2>3. OneHolder' /\ CheckedHaveToken' /\ HeadersAreAccepted'
    BY <2>1 DEF OneHolder, CheckedHaveToken, HeadersAreAccepted, Storing
  <2>4. StoredExpiryIsClose'
    BY <2>1 DEF HeaderInv, StoredExpiryIsClose
  <2> QED
    BY <1>0, <2>2, <2>3, <2>4 DEF HeaderInv
<1>2. ASSUME NEW u \in Caller, Call(u)
      PROVE  HeaderInv'
  BY <1>0, <1>2, LocalStep
  DEF Call, cache, Goto, Others, TypeOK, HeaderInv, AnswersAreRecent
<1>3. ASSUME NEW u \in Caller, Step(u)
      PROVE  HeaderInv'
  <2>1. CASE CheckToken(u)
    BY <1>0, <2>1, LocalStep
    DEF CheckToken, cache, Goto, Others, TypeOK, HeaderInv, AnswersAreRecent
  <2>2. CASE CheckExpiry(u)
    <3>1. sharedToken # None
      BY <2>2 DEF CheckExpiry, HeaderInv, CheckedHaveToken
    <3>2. Fresh => Accepted(sharedToken)
      BY <3>1, FreshIsAccepted
    <3> QED
      BY <1>0, <2>2, <3>1, <3>2, LocalStep
      DEF CheckExpiry, Proceed, cache, Goto, Others, TypeOK, HeaderInv, AnswersAreRecent
  <2>3. CASE Post(u) \/ Receive(u) \/ Fail(u) \/ Acquire(u) \/ Return(u)
    BY <1>0, <2>3, LocalStep
    DEF Post, Receive, Fail, Acquire, Return, cache, Goto, Others, TypeOK,
        HeaderInv, AnswersAreRecent
  <2>4. ASSUME NEW life \in Lifetimes, Issue(u, life)
        PROVE  HeaderInv'
    <3>1. /\ answer'[u].life \in Lifetimes
          /\ answer'[u].issued <= now
          /\ now <= answer'[u].issued + Timeout
      BY <1>0, <2>4, TimingAssumption DEF Issue, TypeOK
    <3> QED
      BY <1>0, <2>4, <3>1, LocalStep DEF Issue, cache, Others, TypeOK
  <2>5. CASE StoreToken(u)
    <3>1. /\ pc[u] = "storeToken" /\ pc'[u] = "storeExpiry" /\ Others(u)
          /\ sharedToken' = answer[u] /\ answer[u] # None
          /\ UNCHANGED <<now, answer, sharedExpiresAt>>
      BY <1>0, <2>5 DEF StoreToken, Goto, Others, TypeOK, Storing
    <3>2. Accepted(answer[u])
      BY <1>0, <3>1, RecentIsAccepted DEF HeaderInv
    <3>3. \A v \in Caller \ {u} : pc[v] \notin Storing
      BY <3>1 DEF HeaderInv, OneHolder, Storing
    <3>4. AnswersAreRecent' /\ OneHolder'
      BY <3>1, <3>3 DEF HeaderInv, AnswersAreRecent, OneHolder, Others, Storing
    <3>5. StoredExpiryIsClose' /\ CheckedHaveToken'
      BY <3>1, <3>3 DEF HeaderInv, StoredExpiryIsClose, CheckedHaveToken, Others, Storing
    <3>6. HeadersAreAccepted'
      BY <3>1, <3>2 DEF HeaderInv, HeadersAreAccepted, Accepted, Others
    <3> QED
      BY <1>0, <3>4, <3>5, <3>6 DEF HeaderInv
  <2>6. CASE StoreExpiry(u)
    <3>1. /\ pc[u] = "storeExpiry" /\ pc'[u] \in {"header", "check"} /\ Others(u)
          /\ sharedExpiresAt' = now + answer[u].life /\ answer[u] # None
          /\ answer'[u] = None
          /\ UNCHANGED <<now, sharedToken>>
      BY <1>0, <2>6 DEF StoreExpiry, Proceed, Goto, Others, TypeOK, Storing
    <3>2. /\ sharedToken = answer[u] /\ Accepted(answer[u])
          /\ now + answer[u].life <= answer[u].issued + answer[u].life + Timeout
      BY <1>0, <3>1, RecentIsAccepted DEF HeaderInv, StoredExpiryIsClose
    <3>3. \A v \in Caller \ {u} : pc[v] \notin Storing
      BY <3>1 DEF HeaderInv, OneHolder, Storing
    <3>4. AnswersAreRecent' /\ OneHolder'
      BY <3>1, <3>3 DEF HeaderInv, AnswersAreRecent, OneHolder, Others, Storing
    <3>5. StoredExpiryIsClose' /\ CheckedHaveToken'
      BY <3>1, <3>2, <3>3 DEF HeaderInv, StoredExpiryIsClose, CheckedHaveToken, Others, Storing
    <3>6. HeadersAreAccepted'
      BY <3>1, <3>2 DEF HeaderInv, HeadersAreAccepted, Accepted, Others
    <3> QED
      BY <1>0, <3>4, <3>5, <3>6 DEF HeaderInv
  <2> QED
    BY <1>3, <2>1, <2>2, <2>3, <2>4, <2>5, <2>6 DEF Step
<1>4. CASE UNCHANGED vars
  BY <1>4 DEF vars, HeaderInv, TypeOK, AnswersAreRecent, OneHolder, StoredExpiryIsClose,
              CheckedHaveToken, HeadersAreAccepted, Accepted
<1> QED
  BY <1>1, <1>2, <1>3, <1>4 DEF Next

(* No header ever carries an expired token or no token, for every number   *)
(* of callers, as long as the timeout does not exceed the safety margin    *)
(* and the margin is below every lifetime (_is_token_valid, _request_token,*)
(* get_headers).                                                           *)
THEOREM HeadersStayAccepted == Spec => []HeadersAreAccepted
<1>1. HeaderInv => HeadersAreAccepted
  BY DEF HeaderInv
<1> QED
  BY <1>1, InitHeader, StepKeepsHeaders, PTL DEF Spec

-----------------------------------------------------------------------------
(* The inductive invariant behind ValidTokenIsReused: until it returns, a  *)
(* caller that found the cache valid when it called finds it valid, at     *)
(* whatever place it is, and so never gets to the POST.                    *)
ReuseInv ==
  \A u \in Caller : reusable[u] /\ pc[u] # "idle" =>
    pc[u] \in {"check", "checkExpiry", "header"} /\ IsTokenValid

(* No step that a caller makes invalidates the cache: a token that is      *)
(* stored is one, and its expiry is beyond the margin.  Only time does.    *)
LEMMA StoredIsValid ==
  ASSUME HeaderInv, IsTokenValid, NEW u \in Caller, Call(u) \/ Step(u)
  PROVE  IsTokenValid'
<1>1. CASE StoreToken(u)
  BY <1>1 DEF StoreToken, IsTokenValid, Fresh, HeaderInv, TypeOK, Storing
<1>2. CASE StoreExpiry(u)
  <2>1. answer[u].life \in Lifetimes /\ now \in Nat
    BY <1>2 DEF StoreExpiry, HeaderInv, TypeOK, Storing, AnswersAreRecent
  <2>2. answer[u].life \in Nat /\ SafetyMargin \in Nat /\ SafetyMargin < answer[u].life
    BY <2>1, TimingAssumption
  <2>3. now + SafetyMargin < now + answer[u].life
    BY <2>1, <2>2
  <2> QED
    BY <1>2, <2>3 DEF StoreExpiry, IsTokenValid, Fresh
<1>3. CASE UNCHANGED <<cache, now>>
  BY <1>3 DEF cache, IsTokenValid, Fresh
<1> QED
  BY <1>1, <1>2, <1>3
  DEF Call, Step, CheckToken, CheckExpiry, Post, Issue, Receive, Fail, Acquire, Return

(* What a step of u does to u keeps ReuseInv if nobody else moves.         *)
LEMMA StepKeepsReuse ==
  ASSUME HeaderInv, ReuseInv, NEW u \in Caller, Call(u) \/ Step(u)
  PROVE  ReuseInv'
<1> SUFFICES ASSUME NEW v \in Caller, reusable'[v], pc'[v] # "idle"
             PROVE  pc'[v] \in {"check", "checkExpiry", "header"} /\ IsTokenValid'
  BY DEF ReuseInv
<1>t. /\ pc \in [Caller -> Places] /\ reusable \in [Caller -> BOOLEAN]
      /\ checks \in [Caller -> {0, 1, 2}]
  BY DEF HeaderInv, TypeOK
<1>1. CASE Call(u)
  <2>1. v = u => IsTokenValid /\ pc'[v] = "check"
    BY <1>t, <1>1 DEF Call, Goto
  <2>2. v # u => reusable[v] /\ pc'[v] = pc[v]
    BY <1>t, <1>1 DEF Call, Goto
  <2>3. IsTokenValid /\ pc'[v] \in {"check", "checkExpiry", "header"}
    BY <2>1, <2>2 DEF ReuseInv
  <2> QED
    BY <2>3, StoredIsValid
<1>2. CASE Step(u)
  <2>1. reusable[v] /\ pc[u] # "idle"
    BY <1>2 DEF Step, CheckToken, CheckExpiry, Post, Issue, Receive, Fail, Acquire,
                StoreToken, StoreExpiry, Return
  <2>2. CASE v # u
    <3>1. pc'[v] = pc[v]
      BY <1>t, <1>2, <2>2
      DEF Step, Goto, Proceed, CheckToken, CheckExpiry, Post, Issue, Receive, Fail, Acquire,
          StoreToken, StoreExpiry, Return
    <3> QED
      BY <2>1, <3>1, StoredIsValid DEF ReuseInv
  <2>3. CASE v = u
    <3>1. pc[u] \in {"check", "checkExpiry", "header"} /\ IsTokenValid
      BY <2>1, <2>3 DEF ReuseInv
    <3>2. CheckToken(u) \/ CheckExpiry(u) \/ Return(u)
      BY <1>2, <3>1 DEF Step, Post, Issue, Receive, Fail, Acquire, StoreToken, StoreExpiry
    <3>3. pc'[u] \in {"check", "checkExpiry", "header", "idle"}
      BY <1>t, <3>1, <3>2
      DEF CheckToken, CheckExpiry, Return, Goto, Proceed, IsTokenValid
    <3> QED
      BY <2>3, <3>1, <3>3, StoredIsValid
  <2> QED
    BY <2>2, <2>3
<1> QED
  BY <1>1, <1>2

(* A call that finds a token which is still valid makes no POST, whoever   *)
(* replaces that token, or its expiry, while the call looks at them        *)
(* (auth.py, line 336).  Lifetimes above the margin are needed for it.     *)
THEOREM ValidTokensAreReused == Spec => []ValidTokenIsReused
<1>1. Init => ReuseInv
  BY DEF Init, ReuseInv
<1>2. HeaderInv /\ ReuseInv /\ [Next]_vars => ReuseInv'
  <2> SUFFICES ASSUME HeaderInv, ReuseInv, [Next]_vars
               PROVE  ReuseInv'
    OBVIOUS
  <2>1. CASE Tick
    <3>1. \A u \in Caller : reusable'[u] => pc'[u] = "idle"
      BY <2>1 DEF Tick, ReuseInv
    <3> QED
      BY <3>1 DEF ReuseInv
  <2>2. CASE UNCHANGED vars
    BY <2>2 DEF vars, ReuseInv, IsTokenValid, Fresh
  <2> QED
    BY <2>1, <2>2, StepKeepsReuse DEF Next
<1>3. ReuseInv => ValidTokenIsReused
  BY DEF ReuseInv, ValidTokenIsReused
<1> QED
  BY <1>1, <1>2, <1>3, InitHeader, StepKeepsHeaders, PTL DEF Spec

-----------------------------------------------------------------------------
(* SharedServices.                                                         *)

(* A process implements both of the services that its users share, with    *)
(* the fairness of the token cache: what holds of one alone holds there.   *)
THEOREM ServicesRunTheirParts == ServicesSpec => Spec /\ CorrelatorSpec
<1>1. ServicesInit => Init /\ CorrelatorInit
  BY DEF ServicesInit
<1>2. [ServicesNext]_<<service, vars, correlatorVars>>
        => [Next]_vars /\ [CorrelatorNext]_correlatorVars
  BY DEF ServicesNext
<1> QED
  BY <1>1, <1>2, PTL DEF ServicesSpec, Spec, CorrelatorSpec

=============================================================================
