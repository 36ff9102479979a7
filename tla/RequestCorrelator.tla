------------------------- MODULE RequestCorrelator -------------------------
(***************************************************************************)
(* RequestCorrelator (correlator.py): the listener of Locust's request     *)
(* event that marks a failure as a cascade when the request its user       *)
(* completed before it failed too, and the failure chains and the summary  *)
(* computed from the recorded events while requests go on completing.      *)
(*                                                                         *)
(* A sender is a sequential source of requests (a Locust user); the user   *)
(* of a request is what its context names, so senders may share one, and a *)
(* request may have none.                                                  *)
(* _on_request runs under the lock, one step; it is called on completion   *)
(* with the time the request started.  get_summary takes the lock twice,   *)
(* for the counts and for the chains.                                      *)
(***************************************************************************)
EXTENDS Integers, Sequences, FiniteSets, SequencesExt

CONSTANTS
  Sender,        \* sources of requests
  UsersOf,       \* UsersOf[s]: the users that the contexts of s name
  NoUser,        \* a context with neither user_id nor correlation_id
  Window,        \* cascade_window_s
  TopChains,     \* how many chains a summary lists (10)
  LastSecond,    \* bound: the last second of a behaviour
  MaxEvents,     \* bound: how many requests complete
  Nothing        \* no request or summary under way, no summary returned

User == (UNION {UsersOf[s] : s \in Sender}) \ {NoUser}

ASSUME ConstantsAssumption ==
  /\ Window \in Nat
  /\ TopChains \in Nat
  /\ LastSecond \in Nat
  /\ MaxEvents \in Nat
  /\ Nothing \notin Nat

VARIABLES
  clock,       \* seconds since the start
  sent,        \* sent[s]: when the request under way started
  events,      \* _events
  history,     \* _user_history, by user
  counted,     \* get_summary between its two locks: what it counted
  summary      \* the last summary returned

correlatorVars == <<clock, sent, events, history, counted, summary>>

-----------------------------------------------------------------------------
Event == [user : User \cup {NoUser}, ts : Nat, failed : BOOLEAN,
          parent : BOOLEAN, cascade : BOOLEAN, depth : Nat]

CorrelatorInit ==
  /\ clock = 0
  /\ sent = [s \in Sender |-> Nothing]
  /\ events = <<>>
  /\ history = [u \in User |-> <<>>]
  /\ counted = Nothing
  /\ summary = Nothing

ClockTicks ==
  /\ clock < LastSecond
  /\ clock' = clock + 1
  /\ UNCHANGED <<sent, events, history, counted, summary>>

Send(s) ==
  /\ sent[s] = Nothing
  /\ sent' = [sent EXCEPT ![s] = clock]
  /\ UNCHANGED <<clock, events, history, counted, summary>>

(* Variant of InWindow: the distance is taken the wrong way round.         *)
InWindowReversed(u, ts) ==
  history[u] # <<>> /\ Last(history[u]).ts - ts <= Window

(* The request that u completed last, started at most Window before ts (or *)
(* after it: a request may overtake another).                              *)
InWindow(u, ts) ==
  history[u] # <<>> /\ ts - Last(history[u]).ts <= Window

(* What _on_request records of a request of user u.                        *)
Recorded(u, ts, failed) ==
  LET parent == u # NoUser /\ InWindow(u, ts)
      follows == parent /\ Last(history[u]).failed
  IN  [user |-> u, ts |-> ts, failed |-> failed, parent |-> parent,
       cascade |-> follows /\ failed,
       depth |-> IF follows THEN Last(history[u]).depth + 1 ELSE 0]

(* Variant of Remember: successes are not worth remembering.               *)
RememberFailure(event) ==
  history' = IF event.user = NoUser \/ ~event.failed THEN history
             ELSE [history EXCEPT ![event.user] = Append(@,
                     [ts |-> event.ts, failed |-> event.failed, depth |-> event.depth])]

Remember(event) ==
  history' = IF event.user = NoUser THEN history
             ELSE [history EXCEPT ![event.user] = Append(@,
                     [ts |-> event.ts, failed |-> event.failed, depth |-> event.depth])]

(* _on_request, called when the request of s completes.                    *)
OnRequest(s, u, failed) ==
  LET event == Recorded(u, sent[s], failed)
  IN  /\ sent[s] # Nothing
      /\ Len(events) < MaxEvents
      /\ events' = Append(events, event)
      /\ Remember(event)
      /\ sent' = [sent EXCEPT ![s] = Nothing]
      /\ UNCHANGED <<clock, counted, summary>>

-----------------------------------------------------------------------------
(* get_failure_chains.                                                     *)

(* Events and chains are told apart by their position in the log.          *)
OfUser(log, u) == {i \in 1 .. Len(log) : log[i].user = u}

IsRoot(e) == e.failed /\ ~e.cascade

IsDependent(e) == e.failed /\ e.cascade

(* The inner loop: the dependents of the same user that follow the root    *)
(* without a gap.                                                          *)
Dependents(log, root) ==
  LET later == {i \in OfUser(log, log[root].user) : i > root}
  IN  {j \in later : \A i \in later : i <= j => IsDependent(log[i])}

(* The outer loop meets every root: what it skips are dependents.          *)
Chains(log) ==
  {[root |-> r, dependents |-> Dependents(log, r)] :
     r \in {r \in 1 .. Len(log) : /\ log[r].user # NoUser
                                 /\ IsRoot(log[r])
                                 /\ Dependents(log, r) # {}}}

(* The list that is returned, longest chain first (the code orders ties by *)
(* when their user was first seen; here their order is not specified).     *)
FailureChains(log) ==
  CHOOSE list \in [1 .. Cardinality(Chains(log)) -> Chains(log)] :
    /\ IsInjective(list)
    /\ \A c, d \in DOMAIN list :
         c < d => Cardinality(list[c].dependents) >= Cardinality(list[d].dependents)

Cascades(log) == Cardinality({i \in 1 .. Len(log) : log[i].cascade})

(* Variant of SummaryCounts: every failure is counted as a cascade.        *)
SummaryCountsFailures ==
  /\ counted = Nothing
  /\ counted' = Cardinality({i \in 1 .. Len(events) : events[i].failed})
  /\ UNCHANGED <<clock, sent, events, history, summary>>

(* get_summary: the counts, under the lock (cascade_failures stands for    *)
(* all of them).                                                           *)
SummaryCounts ==
  /\ counted = Nothing
  /\ counted' = Cascades(events)
  /\ UNCHANGED <<clock, sent, events, history, summary>>

(* get_summary: the chains, under the lock once more.                      *)
SummaryChains ==
  /\ counted # Nothing
  /\ summary' = [cascades |-> counted,
                 top |-> LET chains == FailureChains(events)
                         IN  SubSeq(chains, 1, IF Len(chains) < TopChains
                                               THEN Len(chains) ELSE TopChains)]
  /\ counted' = Nothing
  /\ UNCHANGED <<clock, sent, events, history>>

CorrelatorNext ==
  \/ ClockTicks
  \/ \E s \in Sender :
       \/ Send(s)
       \/ \E u \in UsersOf[s], failed \in BOOLEAN : OnRequest(s, u, failed)
  \/ SummaryCounts
  \/ SummaryChains

CorrelatorSpec == CorrelatorInit /\ [][CorrelatorNext]_correlatorVars

-----------------------------------------------------------------------------
(* The event of the same user that was recorded just before position i.    *)
PrecededBy(i, j) ==
  /\ j < i
  /\ events[j].user = events[i].user
  /\ \A k \in j + 1 .. i - 1 : events[k].user # events[i].user

Rank(positions, i) == Cardinality({j \in positions : j <= i})

(* A cascade is a failure whose user had a failure before it within the    *)
(* window (docs/request-correlation.md, line 63), and every failure is one *)
(* if the request of its user just before it failed within the window      *)
(* (lines 139-142), whatever other users do in between.  The two rules     *)
(* differ where a success comes in between: the code then finds no cause   *)
(* (correlator.py, line 195), and nothing is claimed.  The history of a    *)
(* user lists its requests in the order of the log.                        *)
CascadesHaveCause ==
  /\ events \in Seq(Event)
  /\ \A i \in 1 .. Len(events) :
       /\ events[i].cascade =>
            /\ events[i].failed
            /\ events[i].user # NoUser
            /\ \E j \in OfUser(events, events[i].user) :
                 /\ j < i
                 /\ events[j].failed
                 /\ events[i].ts - events[j].ts <= Window
       /\ \A j \in 1 .. i - 1 :
            /\ PrecededBy(i, j)
            /\ events[j].failed
            /\ events[i].failed
            /\ events[i].user # NoUser
            /\ events[i].ts - events[j].ts <= Window
            => events[i].cascade
  /\ \A u \in User : Len(history[u]) = Cardinality(OfUser(events, u))
  /\ \A i \in 1 .. Len(events) :
       LET u == events[i].user
       IN  u # NoUser => history[u][Rank(OfUser(events, u), i)].ts = events[i].ts

DependentsIn(chains) ==
  Cardinality(UNION {{c} \X chains[c].dependents : c \in DOMAIN chains})

(* The chains, computed from the log afterwards, agree with the cascades   *)
(* that were marked one by one: every cascade is in exactly one chain, the *)
(* root of a chain has depth 0, its first dependent depth 1 and no other   *)
(* less (docs/request-correlation.md has two rules for the others: line    *)
(* 144, which the code keeps, and the example of lines 152-155).           *)
ChainsAccountForCascades ==
  LET chains == FailureChains(events)
  IN  /\ DependentsIn(chains) = Cascades(events)
      /\ \A i \in 1 .. Len(events) :
           events[i].cascade => \E c \in DOMAIN chains : i \in chains[c].dependents
      /\ \A c \in DOMAIN chains :
           /\ events[chains[c].root].depth = 0
           /\ \A i \in chains[c].dependents :
                /\ events[i].user = events[chains[c].root].user
                /\ events[i].depth >= 1
                /\ Rank(chains[c].dependents, i) = 1 => events[i].depth = 1

(* A summary mixes two states of the log.  Its chains, unless there are    *)
(* more than it lists, still account for the cascades it counts, and for   *)
(* none that were not recorded by the time it returned.                    *)
SummaryIsBracketed ==
  summary # Nothing /\ Len(summary.top) < TopChains =>
    /\ summary.cascades <= DependentsIn(summary.top)
    /\ DependentsIn(summary.top) <= Cascades(events)

(* docs/request-correlation.md, line 71: get_correlated_events "Returns    *)
(* all recorded `CorrelatedEvent` objects in chronological order."  They   *)
(* are in the order of completion, and their timestamps are the starts.    *)
ChronologicalOrder ==
  \A i \in 1 .. Len(events) - 1 : events[i].ts <= events[i + 1].ts

=============================================================================
