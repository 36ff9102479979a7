---------------------- MODULE RequestCorrelator_proofs ----------------------
(***************************************************************************)
(* Proofs about RequestCorrelator, for any senders, users, window and      *)
(* number of events, and for any order in which requests complete.         *)
(***************************************************************************)
EXTENDS RequestCorrelator, InductionLemmas, SequenceTheorems

-----------------------------------------------------------------------------
(* Types.                                                                  *)

Remembered == [ts : Nat, failed : BOOLEAN, depth : Nat]

CorrelatorTypeOK ==
  /\ clock \in Nat
  /\ sent \in [Sender -> Nat \cup {Nothing}]
  /\ events \in Seq(Event)
  /\ history \in [User -> Seq(Remembered)]
  /\ counted \in Nat \cup {Nothing}

(* What is recorded of a request is an event.                              *)
LEMMA RecordedIsEvent ==
  ASSUME CorrelatorTypeOK, NEW s \in Sender, NEW u \in UsersOf[s], NEW ts \in Nat,
         NEW failed \in BOOLEAN
  PROVE  u \in User \cup {NoUser} /\ Recorded(u, ts, failed) \in Event
<1>1. u \in User \cup {NoUser}
  BY DEF User
<1>2. u # NoUser /\ history[u] # <<>> => Last(history[u]) \in Remembered
  BY <1>1 DEF CorrelatorTypeOK, Last
<1> QED
  BY <1>1, <1>2 DEF Recorded, Event, InWindow, Remembered

(* Counting the cascades of a log.                                         *)
LEMMA CascadesAreCounted ==
  ASSUME NEW log \in Seq(Event)
  PROVE  /\ IsFiniteSet({i \in 1 .. Len(log) : log[i].cascade})
         /\ Cascades(log) \in Nat
<1>1. IsFiniteSet(1 .. Len(log))
  BY FS_Interval
<1>2. IsFiniteSet({i \in 1 .. Len(log) : log[i].cascade})
  BY <1>1, FS_Subset
<1> QED
  BY <1>2, FS_CardinalityType DEF Cascades

(* A request is recorded behind the others, whatever it is.                *)
LEMMA OnRequestAppends ==
  ASSUME CorrelatorTypeOK, NEW s \in Sender, NEW u \in UsersOf[s],
         NEW failed \in BOOLEAN, OnRequest(s, u, failed)
  PROVE  LET n == Len(events)
             event == Recorded(u, sent[s], failed)
         IN  /\ u \in User \cup {NoUser} /\ sent[s] \in Nat
             /\ n \in Nat
             /\ event \in Event
             /\ events' \in Seq(Event)
             /\ Len(events') = n + 1
             /\ events'[n + 1] = event
             /\ \A i \in 1 .. n : events'[i] = events[i]
<1>1. sent[s] \in Nat
  BY DEF OnRequest, CorrelatorTypeOK
<1>2. u \in User \cup {NoUser} /\ Recorded(u, sent[s], failed) \in Event
  BY <1>1, RecordedIsEvent
<1>3. events \in Seq(Event) /\ events' = Append(events, Recorded(u, sent[s], failed))
  BY DEF OnRequest, CorrelatorTypeOK
<1> HIDE DEF Event
<1> QED
  BY <1>1, <1>2, <1>3

LEMMA TypesAreKept ==
  ASSUME CorrelatorTypeOK, [CorrelatorNext]_correlatorVars
  PROVE  CorrelatorTypeOK'
<1> USE DEF CorrelatorTypeOK
<1>1. CASE ClockTicks
  BY <1>1 DEF ClockTicks
<1>2. ASSUME NEW s \in Sender, Send(s) PROVE CorrelatorTypeOK'
  BY <1>2 DEF Send
<1>3. ASSUME NEW s \in Sender, NEW u \in UsersOf[s], NEW failed \in BOOLEAN,
             OnRequest(s, u, failed)
      PROVE  CorrelatorTypeOK'
  <2> DEFINE event == Recorded(u, sent[s], failed)
  <2>1. u \in User \cup {NoUser} /\ event \in Event /\ events' \in Seq(Event)
    BY <1>3, OnRequestAppends
  <2>2. [ts |-> event.ts, failed |-> event.failed, depth |-> event.depth] \in Remembered
    BY <2>1 DEF Event, Remembered
  <2>3. event.user = u
    BY DEF Recorded
  <2> HIDE DEF event
  <2>4. history' \in [User -> Seq(Remembered)]
    BY <1>3, <2>1, <2>2, <2>3 DEF OnRequest, Remember, event
  <2> QED
    BY <1>3, <2>1, <2>4 DEF OnRequest
<1>4. CASE SummaryCounts
  BY <1>4, CascadesAreCounted DEF SummaryCounts
<1>5. CASE SummaryChains
  BY <1>5 DEF SummaryChains
<1>6. CASE UNCHANGED correlatorVars
  BY <1>6 DEF correlatorVars
<1> QED
  BY <1>1, <1>2, <1>3, <1>4, <1>5, <1>6 DEF CorrelatorNext

THEOREM CorrelatorTypeCorrect == CorrelatorSpec => []CorrelatorTypeOK
<1>1. CorrelatorInit => CorrelatorTypeOK
  BY DEF CorrelatorInit, CorrelatorTypeOK
<1> QED
  BY <1>1, TypesAreKept, PTL DEF CorrelatorSpec

-----------------------------------------------------------------------------
(* Positions of a log, and their ranks among those of a user.              *)

LEMMA PositionsAreFinite ==
  ASSUME NEW log \in Seq(Event), NEW P \in SUBSET (1 .. Len(log)), NEW i
  PROVE  /\ IsFiniteSet(P) /\ Cardinality(P) \in Nat
         /\ IsFiniteSet({j \in P : j <= i}) /\ Rank(P, i) \in Nat
         /\ Rank(P, i) <= Cardinality(P)
<1>1. IsFiniteSet(1 .. Len(log))
  BY FS_Interval
<1>2. IsFiniteSet(P)
  BY <1>1, FS_Subset
<1>3. IsFiniteSet({j \in P : j <= i}) /\ Rank(P, i) <= Cardinality(P)
  BY <1>2, FS_Subset DEF Rank
<1> QED
  BY <1>2, <1>3, FS_CardinalityType DEF Rank

(* The rank of a position is positive, that of the last is the number of   *)
(* positions.                                                              *)
LEMMA RankOfLast ==
  ASSUME NEW log \in Seq(Event), NEW P \in SUBSET (1 .. Len(log)), NEW i \in P
  PROVE  /\ Rank(P, i) \in 1 .. Cardinality(P)
         /\ (\A j \in P : j <= i) => Rank(P, i) = Cardinality(P)
<1>1. {j \in P : j <= i} # {}
  OBVIOUS
<1>2. Rank(P, i) # 0
  BY <1>1, PositionsAreFinite, FS_EmptySet DEF Rank
<1>3. (\A j \in P : j <= i) => {j \in P : j <= i} = P
  OBVIOUS
<1>4. Rank(P, i) \in Nat /\ Cardinality(P) \in Nat /\ Rank(P, i) <= Cardinality(P)
  BY PositionsAreFinite
<1>5. (\A j \in P : j <= i) => Rank(P, i) = Cardinality(P)
  BY <1>3 DEF Rank
<1> QED
  BY <1>2, <1>4, <1>5

(* A new event is the last of its user, and moves no other.                *)
LEMMA OfUserGrows ==
  ASSUME NEW log \in Seq(Event), NEW longer \in Seq(Event), NEW u,
         Len(longer) = Len(log) + 1, \A i \in 1 .. Len(log) : longer[i] = log[i]
  PROVE  LET P == OfUser(log, u)
             Q == OfUser(longer, u)
             n == Len(log) + 1
         IN  /\ Q = IF longer[n].user = u THEN P \cup {n} ELSE P
             /\ \A i \in P : Rank(Q, i) = Rank(P, i)
             /\ longer[n].user = u => /\ Cardinality(Q) = Cardinality(P) + 1
                                      /\ Rank(Q, n) = Cardinality(P) + 1
<1> DEFINE P == OfUser(log, u)
           Q == OfUser(longer, u)
           n == Len(log) + 1
<1>1. Q = IF longer[n].user = u THEN P \cup {n} ELSE P
  BY DEF OfUser
<1>2. P \in SUBSET (1 .. Len(log)) /\ Q \in SUBSET (1 .. Len(longer)) /\ n \notin P
  BY DEF OfUser
<1> HIDE DEF P, Q
<1>3. ASSUME NEW i \in P PROVE Rank(Q, i) = Rank(P, i)
  <2>1. {j \in Q : j <= i} = {j \in P : j <= i}
    BY <1>1, <1>2
  <2> QED
    BY <2>1 DEF Rank
<1>4. ASSUME longer[n].user = u
      PROVE  Cardinality(Q) = Cardinality(P) + 1 /\ Rank(Q, n) = Cardinality(P) + 1
  <2>1. Cardinality(Q) = Cardinality(P) + 1
    BY <1>1, <1>2, <1>4, PositionsAreFinite, FS_AddElement
  <2>2. n \in Q /\ \A j \in Q : j <= n
    BY <1>1, <1>2, <1>4
  <2> QED
    BY <1>2, <2>1, <2>2, RankOfLast
<1> QED
  BY <1>1, <1>3, <1>4 DEF P, Q

-----------------------------------------------------------------------------
(* Cascades.                                                               *)

Trace(event) == [ts |-> event.ts, failed |-> event.failed, depth |-> event.depth]

(* The history of a user has the traces of its events, in their order.     *)
HistoryIsTrace ==
  \A u \in User :
    /\ Len(history[u]) = Cardinality(OfUser(events, u))
    /\ \A i \in OfUser(events, u) :
         history[u][Rank(OfUser(events, u), i)] = Trace(events[i])

Follows(i) ==
  \E j \in 1 .. i - 1 :
    /\ PrecededBy(i, j)
    /\ events[j].failed
    /\ events[i].ts - events[j].ts <= Window

Caused(i) ==
  \E j \in 1 .. i - 1 :
    /\ PrecededBy(i, j)
    /\ events[j].failed
    /\ events[i].ts - events[j].ts <= Window
    /\ events[i].depth = events[j].depth + 1

MarkedByCause ==
  \A i \in 1 .. Len(events) :
    /\ events[i].cascade <=> events[i].failed /\ events[i].user # NoUser /\ Caused(i)
    /\ events[i].failed /\ events[i].user # NoUser /\ Follows(i) => events[i].cascade
    /\ IsRoot(events[i]) => events[i].depth = 0

CascadeInv == CorrelatorTypeOK /\ HistoryIsTrace /\ MarkedByCause

(* By its history a user is known to have completed nothing yet, or what   *)
(* it completed last.                                                      *)
LEMMA LastOfHistory ==
  ASSUME CorrelatorTypeOK, HistoryIsTrace, NEW u \in User
  PROVE  \/ history[u] = <<>> /\ OfUser(events, u) = {}
         \/ \E p \in OfUser(events, u) :
              /\ \A j \in OfUser(events, u) : j <= p
              /\ history[u] # <<>>
              /\ Last(history[u]) = Trace(events[p])
<1> DEFINE P == OfUser(events, u)
<1>1. events \in Seq(Event) /\ history[u] \in Seq(Remembered)
  BY DEF CorrelatorTypeOK
<1>2. P \in SUBSET (1 .. Len(events)) /\ P \in SUBSET (0 .. Len(events))
  BY <1>1 DEF OfUser
<1>3. Len(history[u]) = Cardinality(P)
  BY DEF HistoryIsTrace
<1> HIDE DEF P
<1>4. CASE P = {}
  BY <1>1, <1>3, <1>4, FS_EmptySet DEF P
<1>5. CASE P # {}
  <2>1. PICK p \in P : \A j \in P : j <= p
    <3>1. Len(events) \in Nat
      BY <1>1
    <3> QED
      BY <1>2, <1>5, <3>1, GreatestNumber
  <2>2. Rank(P, p) = Len(history[u]) /\ Len(history[u]) # 0
    BY <1>1, <1>2, <1>3, <2>1, RankOfLast
  <2>3. history[u][Rank(P, p)] = Trace(events[p])
    BY <2>1 DEF HistoryIsTrace, P
  <2> QED
    BY <1>1, <2>1, <2>2, <2>3 DEF Last, P
<1> QED
  BY <1>4, <1>5

LEMMA HistoryIsKept ==
  ASSUME CorrelatorTypeOK, HistoryIsTrace, NEW s \in Sender, NEW u \in UsersOf[s],
         NEW failed \in BOOLEAN, OnRequest(s, u, failed)
  PROVE  HistoryIsTrace'
<1> DEFINE n == Len(events) + 1
           event == Recorded(u, sent[s], failed)
<1>1. /\ events \in Seq(Event) /\ events' \in Seq(Event)
      /\ Len(events') = Len(events) + 1
      /\ events'[n] = event
      /\ \A i \in 1 .. Len(events) : events'[i] = events[i]
  BY OnRequestAppends DEF CorrelatorTypeOK
<1>2. event.user = u
  BY DEF Recorded
<1>3. history' = IF u = NoUser THEN history
                 ELSE [history EXCEPT ![u] = Append(@, Trace(event))]
  BY <1>2 DEF OnRequest, Remember, Trace
<1> HIDE DEF event
<1> SUFFICES ASSUME NEW v \in User
             PROVE  /\ Len(history'[v]) = Cardinality(OfUser(events', v))
                    /\ \A i \in OfUser(events', v) :
                         history'[v][Rank(OfUser(events', v), i)] = Trace(events'[i])
  BY DEF HistoryIsTrace
<1> DEFINE P == OfUser(events, v)
           Q == OfUser(events', v)
<1>4. /\ Q = IF u = v THEN P \cup {n} ELSE P
      /\ \A i \in P : Rank(Q, i) = Rank(P, i)
      /\ u = v => Cardinality(Q) = Cardinality(P) + 1 /\ Rank(Q, n) = Cardinality(P) + 1
  BY <1>1, <1>2, OfUserGrows
<1>5. P \in SUBSET (1 .. Len(events))
  BY <1>1 DEF OfUser
<1>6. /\ history[v] \in Seq(Remembered)
      /\ Len(history[v]) = Cardinality(P)
      /\ \A i \in P : history[v][Rank(P, i)] = Trace(events[i])
  BY DEF CorrelatorTypeOK, HistoryIsTrace
<1>7. \A i \in P : Rank(P, i) \in 1 .. Cardinality(P) /\ events'[i] = events[i]
  BY <1>1, <1>5, RankOfLast
<1> HIDE DEF P, Q, n
<1>8. CASE u # v
  <2>1. history'[v] = history[v]
    BY <1>3, <1>8 DEF CorrelatorTypeOK
  <2> QED
    BY <1>4, <1>6, <1>7, <1>8, <2>1 DEF P, Q
<1>9. CASE u = v
  <2>1. history'[v] = Append(history[v], Trace(event))
    BY <1>3, <1>9 DEF CorrelatorTypeOK, User
  <2>2. /\ Len(history'[v]) = Cardinality(P) + 1
        /\ history'[v][Cardinality(P) + 1] = Trace(event)
        /\ \A k \in 1 .. Cardinality(P) : history'[v][k] = history[v][k]
    BY <1>6, <2>1
  <2>3. Trace(events'[n]) = Trace(event)
    BY <1>1
  <2>4. \A i \in P : history'[v][Rank(Q, i)] = Trace(events'[i])
    BY <1>4, <1>6, <1>7, <2>2
  <2> QED
    BY <1>4, <1>9, <2>2, <2>3, <2>4 DEF P, Q
<1> QED
  BY <1>8, <1>9

LEMMA MarksAreKept ==
  ASSUME CascadeInv, NEW s \in Sender, NEW u \in UsersOf[s],
         NEW failed \in BOOLEAN, OnRequest(s, u, failed)
  PROVE  MarkedByCause'
<1> USE DEF CascadeInv
<1> DEFINE event == Recorded(u, sent[s], failed)
           P == OfUser(events, u)
<1>0. PICK n \in Nat : n = Len(events) + 1
  BY DEF CorrelatorTypeOK
<1>1. /\ u \in User \cup {NoUser} /\ sent[s] \in Nat
      /\ Len(events) \in Nat
      /\ Len(events') = n
      /\ events'[n] = event
      /\ \A i \in 1 .. Len(events) : events'[i] = events[i]
  BY <1>0, OnRequestAppends
<1>2. /\ event.user = u /\ event.ts = sent[s] /\ event.failed = failed
      /\ event.cascade <=> /\ u # NoUser /\ InWindow(u, sent[s])
                           /\ Last(history[u]).failed /\ failed
      /\ event.depth = IF u # NoUser /\ InWindow(u, sent[s]) /\ Last(history[u]).failed
                       THEN Last(history[u]).depth + 1 ELSE 0
  BY DEF Recorded
<1> HIDE DEF event
<1>3. ASSUME NEW i \in 1 .. Len(events)
      PROVE  /\ events'[i] = events[i]
             /\ Caused(i)' <=> Caused(i)
             /\ Follows(i)' <=> Follows(i)
  <2>1. \A j \in 1 .. i : events'[j] = events[j]
    BY <1>1
  <2>2. \A j \in 1 .. i - 1 : PrecededBy(i, j)' <=> PrecededBy(i, j)
    <3> SUFFICES ASSUME NEW j \in 1 .. i - 1 PROVE PrecededBy(i, j)' <=> PrecededBy(i, j)
      OBVIOUS
    <3>1. \A k \in j + 1 .. i - 1 : events'[k] = events[k]
      BY <1>1, <2>1
    <3> QED
      BY <2>1, <3>1 DEF PrecededBy
  <2> HIDE DEF PrecededBy
  <2> QED
    BY <2>1, <2>2 DEF Caused, Follows
<1>4. /\ event.cascade <=> failed /\ u # NoUser /\ Caused(n)'
      /\ failed /\ u # NoUser /\ Follows(n)' => event.cascade
      /\ failed /\ ~event.cascade => event.depth = 0
  <2>1. CASE u = NoUser
    BY <1>2, <2>1
  <2>2. CASE u # NoUser /\ history[u] = <<>> /\ P = {}
    <3>1. \A j \in 1 .. Len(events) : events'[j].user # u
      BY <1>1, <2>2 DEF OfUser
    <3>2. ~Caused(n)' /\ ~Follows(n)'
      BY <1>0, <1>1, <1>2, <3>1 DEF Caused, Follows, PrecededBy
    <3> QED
      BY <1>2, <2>2, <3>2 DEF InWindow
  <2>3. ASSUME u # NoUser, history[u] # <<>>,
               NEW p \in P, \A j \in P : j <= p, Last(history[u]) = Trace(events[p])
        PROVE  /\ event.cascade <=> failed /\ u # NoUser /\ Caused(n)'
               /\ failed /\ u # NoUser /\ Follows(n)' => event.cascade
               /\ failed /\ ~event.cascade => event.depth = 0
    <3>1. p \in 1 .. Len(events) /\ events'[p] = events[p] /\ events[p].user = u
      BY <1>1 DEF OfUser
    <3>2. \A j \in 1 .. Len(events) : PrecededBy(n, j)' <=> j = p
      <4>1. \A k \in 1 .. Len(events) : events'[k].user = u => k \in P
        BY <1>1 DEF OfUser
      <4> QED
        BY <1>0, <1>1, <1>2, <2>3, <3>1, <4>1 DEF PrecededBy
    <3>3. Caused(n)' <=> /\ events[p].failed
                         /\ sent[s] - events[p].ts <= Window
                         /\ event.depth = events[p].depth + 1
      <4> HIDE DEF PrecededBy
      <4> QED
        BY <1>0, <1>1, <1>2, <3>1, <3>2 DEF Caused
    <3>5. Follows(n)' <=> events[p].failed /\ sent[s] - events[p].ts <= Window
      <4> HIDE DEF PrecededBy
      <4> QED
        BY <1>0, <1>1, <1>2, <3>1, <3>2 DEF Follows
    <3>4. /\ Last(history[u]).failed = events[p].failed
          /\ Last(history[u]).ts = events[p].ts
          /\ Last(history[u]).depth = events[p].depth
      BY <2>3 DEF Trace
    <3> QED
      BY <1>2, <2>3, <3>3, <3>4, <3>5 DEF InWindow
  <2> QED
    BY <1>1, <2>1, <2>2, <2>3, LastOfHistory
<1> SUFFICES ASSUME NEW i \in 1 .. n
             PROVE  /\ events'[i].cascade <=> /\ events'[i].failed
                                              /\ events'[i].user # NoUser
                                              /\ Caused(i)'
                    /\ /\ events'[i].failed
                       /\ events'[i].user # NoUser
                       /\ Follows(i)'
                       => events'[i].cascade
                    /\ IsRoot(events'[i]) => events'[i].depth = 0
  BY <1>1 DEF MarkedByCause
<1>5. CASE i = n
  <2>1. /\ event.cascade <=> event.failed /\ event.user # NoUser /\ Caused(n)'
        /\ event.failed /\ event.user # NoUser /\ Follows(n)' => event.cascade
        /\ IsRoot(event) => event.depth = 0
    BY <1>2, <1>4 DEF IsRoot
  <2> QED
    BY <1>1, <1>5, <2>1
<1>6. CASE i \in 1 .. Len(events)
  BY <1>3, <1>6 DEF MarkedByCause
<1> QED
  BY <1>0, <1>1, <1>5, <1>6

(* A step of another kind leaves log and histories as they are.            *)
LEMMA CascadeInvIsKept ==
  ASSUME CascadeInv, [CorrelatorNext]_correlatorVars
  PROVE  CascadeInv'
<1>1. CorrelatorTypeOK'
  BY TypesAreKept DEF CascadeInv
<1>2. ASSUME NEW s \in Sender, NEW u \in UsersOf[s], NEW failed \in BOOLEAN,
             OnRequest(s, u, failed)
      PROVE  CascadeInv'
  BY <1>1, <1>2, HistoryIsKept, MarksAreKept DEF CascadeInv
<1>3. CASE UNCHANGED <<events, history>>
  BY <1>1, <1>3 DEF CascadeInv, HistoryIsTrace, MarkedByCause, Caused, Follows,
                    PrecededBy
<1> QED
  BY <1>2, <1>3 DEF CorrelatorNext, ClockTicks, Send, SummaryCounts, SummaryChains, correlatorVars

LEMMA CascadeInvHolds == CorrelatorSpec => []CascadeInv
<1>1. CorrelatorInit => CascadeInv
  <2> SUFFICES ASSUME CorrelatorInit PROVE CascadeInv
    OBVIOUS
  <2>1. CorrelatorTypeOK
    BY DEF CorrelatorInit, CorrelatorTypeOK
  <2>2. \A u \in User : history[u] = <<>> /\ OfUser(events, u) = {}
    BY DEF CorrelatorInit, OfUser
  <2>3. HistoryIsTrace
    <3>1. Cardinality({}) = 0 /\ Len(<<>>) = 0
      BY FS_EmptySet
    <3> QED
      BY <2>2, <3>1 DEF HistoryIsTrace
  <2> QED
    BY <2>1, <2>3 DEF CorrelatorInit, CascadeInv, MarkedByCause
<1> QED
  BY <1>1, CascadeInvIsKept, PTL DEF CorrelatorSpec

(* A cascade follows a failure of its user within the window, and a        *)
(* failure is a cascade if the request of its user just before it was such *)
(* a failure, whatever completes in between and in whatever order.         *)
THEOREM CascadesAreCaused == CorrelatorSpec => []CascadesHaveCause
<1>1. CascadeInv => CascadesHaveCause
  <2> SUFFICES ASSUME CascadeInv PROVE CascadesHaveCause
    OBVIOUS
  <2>1. ASSUME NEW i \in 1 .. Len(events), events[i].user # NoUser
        PROVE  history[events[i].user][Rank(OfUser(events, events[i].user), i)].ts
                 = events[i].ts
    <3>1. events[i] \in Event
      BY DEF CascadeInv, CorrelatorTypeOK
    <3>2. events[i].user \in User /\ i \in OfUser(events, events[i].user)
      BY <2>1, <3>1 DEF Event, OfUser
    <3>3. history[events[i].user][Rank(OfUser(events, events[i].user), i)] = Trace(events[i])
      BY <3>2 DEF CascadeInv, HistoryIsTrace
    <3> QED
      BY <3>3 DEF Trace
  <2>2. ASSUME NEW i \in 1 .. Len(events), events[i].cascade
        PROVE  /\ events[i].failed
               /\ events[i].user # NoUser
               /\ \E j \in OfUser(events, events[i].user) :
                    /\ j < i
                    /\ events[j].failed
                    /\ events[i].ts - events[j].ts <= Window
    <3>1. events[i].failed /\ events[i].user # NoUser /\ Caused(i)
      BY <2>2 DEF CascadeInv, MarkedByCause
    <3>2. PICK j \in 1 .. i - 1 : /\ PrecededBy(i, j)
                                  /\ events[j].failed
                                  /\ events[i].ts - events[j].ts <= Window
      BY <3>1 DEF Caused
    <3>3. j \in OfUser(events, events[i].user) /\ j < i
      BY <3>2 DEF PrecededBy, OfUser, CascadeInv, CorrelatorTypeOK
    <3> QED
      BY <3>1, <3>2, <3>3
  <2>3. ASSUME NEW i \in 1 .. Len(events), NEW j \in 1 .. i - 1,
               PrecededBy(i, j), events[j].failed, events[i].failed,
               events[i].user # NoUser, events[i].ts - events[j].ts <= Window
        PROVE  events[i].cascade
    BY <2>3 DEF CascadeInv, MarkedByCause, Follows
  <2> QED
    BY <2>1, <2>2, <2>3 DEF CascadesHaveCause, CascadeInv, CorrelatorTypeOK, HistoryIsTrace
<1> QED
  BY <1>1, CascadeInvHolds, PTL

-----------------------------------------------------------------------------
(* Chains.                                                                 *)

ChainRoots ==
  {r \in 1 .. Len(events) : events[r].user # NoUser /\ IsRoot(events[r])}

LEMMA DependentsUnfold ==
  ASSUME NEW r, NEW i
  PROVE  i \in Dependents(events, r) <=>
           /\ i \in 1 .. Len(events) /\ i > r /\ events[i].user = events[r].user
           /\ \A k \in 1 .. Len(events) :
                k > r /\ k <= i /\ events[k].user = events[r].user => IsDependent(events[k])
BY DEF Dependents, OfUser

(* No two roots have a dependent in common.                                *)
LEMMA RootIsUnique ==
  ASSUME CascadeInv, NEW q \in ChainRoots, NEW r \in ChainRoots, NEW i,
         i \in Dependents(events, q), i \in Dependents(events, r)
  PROVE  q = r
<1>1. ASSUME NEW a \in ChainRoots, NEW b \in ChainRoots, a < b,
             i \in Dependents(events, a), i \in Dependents(events, b)
      PROVE  FALSE
  <2>1. b \in 1 .. Len(events) /\ i > b /\ events[b].user = events[a].user
    BY <1>1, DependentsUnfold DEF ChainRoots
  <2>2. IsDependent(events[b])
    BY <1>1, <2>1, DependentsUnfold
  <2> QED
    BY <1>1, <2>2 DEF ChainRoots, IsRoot, IsDependent
<1> QED
  BY <1>1 DEF ChainRoots

(* Every cascade depends on a root, as many places behind it as it is      *)
(* deep: on the cause of its cause.                                        *)
LEMMA CascadeHasRoot ==
  ASSUME CascadeInv
  PROVE  \A i \in 1 .. Len(events) :
           events[i].cascade => \E r \in ChainRoots :
             i \in Dependents(events, r) /\ events[i].depth = Rank(Dependents(events, r), i)
<1> DEFINE N == Len(events)
           Rooted(i) == \E r \in ChainRoots :
                          /\ i \in Dependents(events, r)
                          /\ events[i].depth = Rank(Dependents(events, r), i)
           T == {n \in 0 .. N : \A i \in 1 .. n : events[i].cascade => Rooted(i)}
<1>1. N \in Nat /\ events \in Seq(Event) /\ \A i \in 1 .. N : events[i] \in Event
  BY DEF CascadeInv, CorrelatorTypeOK
<1>2. 0 \in T
  OBVIOUS
<1>3. ASSUME NEW n \in 1 .. N, n - 1 \in T PROVE n \in T
  <2> SUFFICES ASSUME events[n].cascade PROVE Rooted(n)
    BY <1>3
  <2>1. events[n].failed /\ events[n].user # NoUser /\ Caused(n)
    BY DEF CascadeInv, MarkedByCause
  <2>2. PICK j \in 1 .. n - 1 : /\ PrecededBy(n, j)
                               /\ events[j].failed
                               /\ events[n].depth = events[j].depth + 1
    BY <2>1 DEF Caused
  <2>3. /\ j \in 1 .. N /\ j < n /\ events[j].user = events[n].user
        /\ \A k \in 1 .. N : k > j /\ k < n => events[k].user # events[n].user
    BY <2>2 DEF PrecededBy
  <2>4. IsDependent(events[n])
    BY <2>1 DEF IsDependent
  <2>5. CASE ~events[j].cascade
    <3>1. j \in ChainRoots /\ events[j].depth = 0
      BY <2>1, <2>2, <2>3, <2>5 DEF ChainRoots, IsRoot, CascadeInv, MarkedByCause
    <3>2. n \in Dependents(events, j)
      BY <2>3, <2>4, DependentsUnfold
    <3>3. \A k \in Dependents(events, j) : k <= n => k = n
      BY <2>3, DependentsUnfold
    <3>4. {k \in Dependents(events, j) : k <= n} = {n}
      <4>1. n <= n
        BY <1>1
      <4> QED
        BY <3>2, <3>3, <4>1
    <3>5. Rank(Dependents(events, j), n) = 1
      BY <3>4, FS_Singleton DEF Rank
    <3> QED
      BY <2>2, <3>1, <3>2, <3>5
  <2>6. CASE events[j].cascade
    <3>1. PICK r \in ChainRoots : /\ j \in Dependents(events, r)
                                 /\ events[j].depth = Rank(Dependents(events, r), j)
      BY <1>3, <2>2, <2>6
    <3> DEFINE D == Dependents(events, r)
    <3>2. r < j /\ events[r].user = events[n].user
      BY <2>3, <3>1, DependentsUnfold
    <3>3. \A k \in 1 .. N : k > r /\ k <= n /\ events[k].user = events[r].user
             => k <= j \/ k = n
      BY <2>3, <3>2
    <3>4. n \in D
      BY <2>3, <2>4, <3>1, <3>2, <3>3, DependentsUnfold DEF ChainRoots
    <3>5. {k \in D : k <= n} = {k \in D : k <= j} \cup {n}
      <4>1. \A k \in D : k \in 1 .. N /\ k > r /\ events[k].user = events[r].user
        BY DependentsUnfold
      <4>2. \A k \in D : k <= n <=> k <= j \/ k = n
        BY <1>1, <2>3, <3>3, <4>1
      <4> HIDE DEF D
      <4> QED
        BY <3>4, <4>2
    <3>6. D \in SUBSET (1 .. N)
      BY DependentsUnfold
    <3>7. IsFiniteSet({k \in D : k <= j}) /\ Rank(D, j) \in Nat
      BY <1>1, <3>6, PositionsAreFinite
    <3> HIDE DEF D
    <3>8. Rank(D, n) = Rank(D, j) + 1
      <4> DEFINE E == {k \in D : k <= j}
      <4>1. n \notin E
        BY <2>3
      <4>2. IsFiniteSet(E) /\ Cardinality(E) = Rank(D, j)
        BY <3>7 DEF Rank
      <4> HIDE DEF E
      <4>3. Cardinality(E \cup {n}) = Cardinality(E) + 1
        BY <4>1, <4>2, FS_AddElement
      <4> QED
        BY <3>5, <4>2, <4>3 DEF E, Rank
    <3> QED
      BY <2>2, <3>1, <3>4, <3>8 DEF D
  <2> QED
    BY <2>5, <2>6
<1>4. 0 .. N \subseteq T
  <2> HIDE DEF T
  <2> QED
    BY <1>1, <1>2, <1>3, UpwardInduction
<1>5. N \in T
  BY <1>1, <1>4
<1> QED
  BY <1>5

(* The list of chains has every chain once.                                *)
LEMMA ChainsAreListed ==
  ASSUME CascadeInv
  PROVE  LET n == Cardinality(Chains(events))
             list == FailureChains(events)
         IN  /\ n \in Nat
             /\ list \in [1 .. n -> Chains(events)]
             /\ \A c, d \in 1 .. n : list[c] = list[d] => c = d
             /\ \A chain \in Chains(events) : \E c \in 1 .. n : list[c] = chain
<1> DEFINE C == Chains(events)
           n == Cardinality(C)
           R == {r \in 1 .. Len(events) : /\ events[r].user # NoUser
                                          /\ IsRoot(events[r])
                                          /\ Dependents(events, r) # {}}
           f == [r \in R |-> [root |-> r, dependents |-> Dependents(events, r)]]
           weight == [chain \in C |-> Cardinality(chain.dependents)]
           Listing(list) == /\ list \in [1 .. n -> C]
                            /\ IsInjective(list)
                            /\ \A c, d \in DOMAIN list :
                                 c < d => Cardinality(list[c].dependents)
                                            >= Cardinality(list[d].dependents)
<1>1. events \in Seq(Event) /\ Len(events) \in Nat
  BY DEF CascadeInv, CorrelatorTypeOK
<1>2. IsFiniteSet(R)
  <2>1. R \in SUBSET (1 .. Len(events))
    OBVIOUS
  <2> QED
    BY <1>1, <2>1, PositionsAreFinite
<1>3. f \in Surjection(R, C)
  BY DEF Surjection, Chains
<1>4. IsFiniteSet(C) /\ n \in Nat
  BY <1>2, <1>3, FS_Surjection, FS_CardinalityType
<1>5. ASSUME NEW chain \in C PROVE weight[chain] \in Nat
  <2>1. chain.dependents \in SUBSET (1 .. Len(events))
    BY DependentsUnfold DEF Chains
  <2> QED
    BY <1>1, <2>1, PositionsAreFinite
<1>6. PICK list : IsDescending(list, n, C, weight)
  <2> HIDE DEF C, weight
  <2> QED
    BY <1>4, <1>5, DescendingListExists
<1>7. Listing(list)
  BY <1>6 DEF IsDescending
<1>8. FailureChains(events) = CHOOSE l \in [1 .. n -> C] : Listing(l)
  BY DEF FailureChains
<1> DEFINE chosen == FailureChains(events)
<1>9. Listing(chosen)
  <2> HIDE DEF n, C
  <2> QED
    BY <1>7, <1>8
<1>10. chosen \in Injection(1 .. n, C)
  BY <1>9 DEF Injection
<1>11. IsFiniteSet(1 .. n) /\ Cardinality(1 .. n) = n
  BY <1>4, FS_Interval
<1>12. chosen \in Surjection(1 .. n, C)
  <2> HIDE DEF n, C, chosen
  <2>1. Cardinality(1 .. n) = Cardinality(C)
    BY <1>11 DEF n
  <2> QED
    BY <1>4, <1>10, <2>1, FS_Injection
<1> QED
  BY <1>4, <1>9, <1>12 DEF IsInjective, Surjection

LEMMA ChainsAccount ==
  ASSUME CascadeInv
  PROVE  ChainsAccountForCascades /\ DependentsIn(FailureChains(events)) \in Nat
<1> DEFINE list == FailureChains(events)
           n == Cardinality(Chains(events))
           Pairs == UNION {{c} \X list[c].dependents : c \in DOMAIN list}
           Marked == {i \in 1 .. Len(events) : events[i].cascade}
           f == [p \in Pairs |-> p[2]]
<1>1. /\ n \in Nat
      /\ list \in [1 .. n -> Chains(events)]
      /\ \A c, d \in 1 .. n : list[c] = list[d] => c = d
      /\ \A chain \in Chains(events) : \E c \in 1 .. n : list[c] = chain
  BY ChainsAreListed
<1>2. events \in Seq(Event) /\ Len(events) \in Nat
  BY DEF CascadeInv, CorrelatorTypeOK
<1> HIDE DEF list, n
<1>3. ASSUME NEW c \in 1 .. n
      PROVE  /\ list[c].root \in ChainRoots
             /\ list[c].dependents = Dependents(events, list[c].root)
             /\ list[c] = [root |-> list[c].root, dependents |-> list[c].dependents]
  BY <1>1 DEF Chains, ChainRoots
<1>4. ASSUME NEW i \in 1 .. Len(events), events[i].cascade
      PROVE  \E c \in 1 .. n : i \in list[c].dependents
  <2>1. PICK r \in ChainRoots : i \in Dependents(events, r)
    BY <1>4, CascadeHasRoot
  <2>2. [root |-> r, dependents |-> Dependents(events, r)] \in Chains(events)
    BY <2>1 DEF Chains, ChainRoots
  <2> QED
    BY <1>1, <2>1, <2>2
<1>5. ASSUME NEW c \in 1 .. n, NEW i \in list[c].dependents
      PROVE  /\ i \in Marked
             /\ events[i].user = events[list[c].root].user
             /\ events[i].depth = Rank(list[c].dependents, i)
             /\ events[i].depth >= 1
  <2> DEFINE q == list[c].root
  <2>1. q \in ChainRoots /\ i \in Dependents(events, q)
    BY <1>3, <1>5
  <2>2. /\ i \in 1 .. Len(events) /\ i > q /\ events[i].user = events[q].user
        /\ i <= i => IsDependent(events[i])
    BY <2>1, DependentsUnfold
  <2>3. i \in Marked
    BY <1>2, <2>2 DEF IsDependent
  <2>4. PICK r \in ChainRoots : /\ i \in Dependents(events, r)
                               /\ events[i].depth = Rank(Dependents(events, r), i)
    BY <2>3, CascadeHasRoot
  <2>5. r = q
    BY <2>1, <2>4, RootIsUnique
  <2>6. events[i].depth >= 1
    <3>1. PICK j \in 1 .. i - 1 : events[i].depth = events[j].depth + 1
      BY <2>2, <2>3 DEF CascadeInv, MarkedByCause, Caused
    <3>2. events[j] \in Event
      BY <1>2, <2>2
    <3> QED
      BY <3>1, <3>2 DEF Event
  <2> QED
    BY <1>3, <2>2, <2>3, <2>4, <2>5, <2>6
<1>6. \A p : p \in Pairs <=> \E c \in 1 .. n : \E i \in list[c].dependents : p = <<c, i>>
  BY <1>1
<1>7. f \in Injection(Pairs, Marked)
  <2> HIDE DEF Pairs, Marked
  <2>1. f \in [Pairs -> Marked]
    BY <1>5, <1>6
  <2>2. ASSUME NEW p1 \in Pairs, NEW p2 \in Pairs, f[p1] = f[p2] PROVE p1 = p2
    <3>1. PICK c1 \in 1 .. n : \E i \in list[c1].dependents : p1 = <<c1, i>>
      BY <1>6
    <3>2. PICK i1 \in list[c1].dependents : p1 = <<c1, i1>>
      BY <3>1
    <3>3. PICK c2 \in 1 .. n : \E i \in list[c2].dependents : p2 = <<c2, i>>
      BY <1>6
    <3>4. PICK i2 \in list[c2].dependents : p2 = <<c2, i2>>
      BY <3>3
    <3>5. i1 = i2
      BY <2>2, <3>2, <3>4
    <3>6. list[c1].root = list[c2].root
      BY <1>3, <3>2, <3>4, <3>5, RootIsUnique
    <3>7. list[c1] = list[c2]
      BY <1>3, <3>6
    <3> QED
      BY <1>1, <3>2, <3>4, <3>5, <3>7
  <2> QED
    BY <2>1, <2>2 DEF Injection, IsInjective
<1>8. f \in Surjection(Pairs, Marked)
  <2>1. f \in [Pairs -> Marked]
    BY <1>7 DEF Injection
  <2>2. ASSUME NEW i \in Marked PROVE \E p \in Pairs : f[p] = i
    <3>1. PICK c \in 1 .. n : i \in list[c].dependents
      BY <1>4
    <3>2. <<c, i>> \in Pairs
      BY <1>6, <3>1
    <3> QED
      BY <3>2
  <2> QED
    BY <2>1, <2>2 DEF Surjection
<1>9. IsFiniteSet(Marked)
  BY <1>2, CascadesAreCounted
<1>10. Cardinality(Pairs) = Cardinality(Marked)
  <2> HIDE DEF Pairs, Marked, f
  <2> QED
    BY <1>7, <1>8, <1>9, FS_Injection
<1>11. DependentsIn(list) = Cascades(events) /\ Cascades(events) \in Nat
  BY <1>2, <1>10, CascadesAreCounted DEF DependentsIn, Cascades
<1>12. \A c \in 1 .. n : events[list[c].root].depth = 0
  BY <1>3 DEF ChainRoots, CascadeInv, MarkedByCause
<1> HIDE DEF Pairs, Marked, f
<1>13. DOMAIN list = 1 .. n
  BY <1>1
<1>14. ASSUME NEW c \in DOMAIN list, NEW i \in list[c].dependents
       PROVE  /\ events[i].user = events[list[c].root].user
              /\ events[i].depth >= 1
              /\ Rank(list[c].dependents, i) = 1 => events[i].depth = 1
  BY <1>5, <1>13
<1> QED
  BY <1>4, <1>11, <1>12, <1>13, <1>14 DEF ChainsAccountForCascades, list

(* The chains that are computed from the log account for exactly the       *)
(* cascades that were marked while it was written.                         *)
THEOREM ChainsAreAccounts == CorrelatorSpec => []ChainsAccountForCascades
BY ChainsAccount, CascadeInvHolds, PTL

-----------------------------------------------------------------------------
(* The summary.                                                            *)

(* What was counted is still there, and what was summarised too.           *)
SummaryInv ==
  /\ counted # Nothing => counted <= Cascades(events)
  /\ summary # Nothing /\ Len(summary.top) < TopChains =>
       /\ summary.cascades \in Nat
       /\ DependentsIn(summary.top) \in Nat
       /\ summary.cascades <= DependentsIn(summary.top)
       /\ DependentsIn(summary.top) <= Cascades(events)

LEMMA CascadesGrow ==
  ASSUME CorrelatorTypeOK, NEW s \in Sender, NEW u \in UsersOf[s],
         NEW failed \in BOOLEAN, OnRequest(s, u, failed)
  PROVE  Cascades(events) <= Cascades(events')
<1> DEFINE Before == {i \in 1 .. Len(events) : events[i].cascade}
           After == {i \in 1 .. Len(events') : events'[i].cascade}
<1>1. Before \in SUBSET After
  BY OnRequestAppends
<1>2. events' \in Seq(Event)
  BY OnRequestAppends
<1>3. IsFiniteSet(After)
  BY <1>2, CascadesAreCounted
<1>4. Cardinality(Before) <= Cardinality(After)
  <2> HIDE DEF Before, After
  <2> QED
    BY <1>1, <1>3, FS_Subset
<1> QED
  BY <1>4 DEF Cascades

(* A summary lists all chains, unless there are more than it may list.     *)
LEMMA ShortSummaryIsWhole ==
  ASSUME CascadeInv, SummaryChains, Len(summary'.top) < TopChains
  PROVE  summary'.top = FailureChains(events)
<1> DEFINE chains == FailureChains(events)
<1>1. PICK n \in Nat : chains \in [1 .. n -> Chains(events)]
  BY ChainsAreListed
<1>2. chains \in Seq(Chains(events)) /\ Len(chains) = n
  BY <1>1
<1>3. summary'.top = SubSeq(chains, 1, IF Len(chains) < TopChains
                                       THEN Len(chains) ELSE TopChains)
  BY DEF SummaryChains
<1> HIDE DEF chains
<1>4. n < TopChains
  BY <1>2, <1>3, ConstantsAssumption
<1> QED
  BY <1>2, <1>3, <1>4 DEF chains

(* However many requests complete between the two locks of get_summary and *)
(* after them, the listed chains account for the cascades that it counted. *)
THEOREM SummariesAreBracketed == CorrelatorSpec => []SummaryIsBracketed
<1>1. CorrelatorInit => SummaryInv
  BY DEF CorrelatorInit, SummaryInv
<1>2. CascadeInv /\ SummaryInv /\ [CorrelatorNext]_correlatorVars => SummaryInv'
  <2> SUFFICES ASSUME CascadeInv, SummaryInv, [CorrelatorNext]_correlatorVars PROVE SummaryInv'
    OBVIOUS
  <2>1. /\ Cascades(events) \in Nat /\ counted \in Nat \cup {Nothing}
        /\ CorrelatorTypeOK
    BY CascadesAreCounted DEF CascadeInv, CorrelatorTypeOK
  <2>2. ASSUME NEW s \in Sender, NEW u \in UsersOf[s], NEW failed \in BOOLEAN,
               OnRequest(s, u, failed)
        PROVE  SummaryInv'
    <3>1. Cascades(events) <= Cascades(events') /\ Cascades(events') \in Nat
      BY <2>1, <2>2, CascadesGrow, OnRequestAppends, CascadesAreCounted
    <3>2. UNCHANGED <<counted, summary>>
      BY <2>2 DEF OnRequest
    <3> QED
      BY <2>1, <3>1, <3>2 DEF SummaryInv
  <2>3. CASE SummaryCounts
    BY <2>1, <2>3 DEF SummaryCounts, SummaryInv
  <2>4. CASE SummaryChains
    <3>1. /\ DependentsIn(FailureChains(events)) = Cascades(events)
          /\ counted \in Nat /\ counted <= Cascades(events)
      BY <2>1, <2>4, ChainsAccount DEF ChainsAccountForCascades, SummaryInv, SummaryChains
    <3>2. Len(summary'.top) < TopChains => summary'.top = FailureChains(events)
      BY <2>4, ShortSummaryIsWhole
    <3>3. summary'.cascades = counted /\ counted' = Nothing /\ events' = events
      BY <2>4 DEF SummaryChains
    <3> QED
      BY <2>1, <3>1, <3>2, <3>3 DEF SummaryInv
  <2>5. CASE UNCHANGED <<events, counted, summary>>
    BY <2>5 DEF SummaryInv, Cascades
  <2> QED
    BY <2>2, <2>3, <2>4, <2>5 DEF CorrelatorNext, ClockTicks, Send, correlatorVars
<1>3. SummaryInv => SummaryIsBracketed
  BY DEF SummaryInv, SummaryIsBracketed
<1> QED
  BY <1>1, <1>2, <1>3, CascadeInvHolds, PTL DEF CorrelatorSpec

=============================================================================
