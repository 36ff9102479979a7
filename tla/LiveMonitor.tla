---------------------------- MODULE LiveMonitor ----------------------------
(***************************************************************************)
(* The monitoring of a running test: users record their requests in a      *)
(* MetricsCollector while a reporter takes snapshots of it into a          *)
(* LiveDashboard (live_dashboard.py) and checks the latest one with an     *)
(* AlertEngine (the loop is that of docs/live-dashboard.md, line 170).     *)
(*                                                                         *)
(* record_from_collector takes the collector's lock for the summary and    *)
(* once more for the percentile of each endpoint in it; requests, and a    *)
(* reset, come in between when users and reporter are threads.             *)
(***************************************************************************)
EXTENDS MetricsCollector, AlertEngine

CONSTANTS
  MaxPoints,   \* max_points of the dashboard
  GivenPoints, \* points that are recorded by hand, with record()
  RateScale,   \* error rates are whole numbers of 1 / RateScale
  Nothing      \* no snapshot under way

ASSUME MonitorAssumption ==
  /\ MaxPoints \in Nat \ {0}
  /\ \A n \in 1 .. MaxRequests : RateScale % n = 0

VARIABLES
  history,     \* _history
  taking,      \* record_from_collector between two locks
  undisturbed  \* history variable: no reset since it took the summary

vars == <<metrics, alertVars, history, taking, undisturbed>>
monitorVars == <<history, taking, undisturbed>>

-----------------------------------------------------------------------------
Total(summary, field) == FoldFunction(+, 0, [e \in DOMAIN summary |-> summary[e][field]])

ZeroPoint == [count |-> 0, p95 |-> 0, failures |-> 0]

(* A deque of maxlen MaxPoints drops its oldest point.                     *)
RecordPoint(point) ==
  history' = IF Len(history) < MaxPoints THEN Append(history, point)
             ELSE Append(Tail(history), point)

Init ==
  /\ CollectorInit
  /\ AlertInit
  /\ history = <<>>
  /\ taking = Nothing
  /\ undisturbed = TRUE

UserRecords(e, request) ==
  /\ RecordRequest(e, request)
  /\ UNCHANGED <<alertVars, monitorVars>>

ResetMetrics ==
  /\ Reset
  /\ undisturbed' = (taking = Nothing)
  /\ UNCHANGED <<alertVars, history, taking>>

(* record_from_collector: the summary; one that is empty records zeros.    *)
TakeSummary ==
  /\ taking = Nothing
  /\ IF DOMAIN Summary = {} THEN RecordPoint(ZeroPoint) /\ UNCHANGED <<taking, undisturbed>>
     ELSE /\ taking' = [summary |-> Summary, left |-> DOMAIN Summary, p95 |-> 0]
          /\ UNCHANGED <<history, undisturbed>>
  /\ UNCHANGED <<metrics, alertVars>>

(* The percentile of one endpoint of the summary.                          *)
TakePercentile(e) ==
  LET p == Percentile(metrics[e], 95)
  IN  /\ taking # Nothing
      /\ e \in taking.left
      /\ taking' = [taking EXCEPT !.left = @ \ {e},
                                  !.p95 = IF p > @ THEN p ELSE @]
      /\ UNCHANGED <<metrics, alertVars, history, undisturbed>>

(* The end of record_from_collector: throughput is the total count.        *)
TakePoint ==
  /\ taking # Nothing
  /\ taking.left = {}
  /\ RecordPoint([count |-> Total(taking.summary, "count"),
                  p95 |-> taking.p95,
                  failures |-> Total(taking.summary, "failures")])
  /\ taking' = Nothing
  /\ undisturbed' = TRUE
  /\ UNCHANGED <<metrics, alertVars>>

RecordGiven(point) ==
  /\ taking = Nothing
  /\ RecordPoint(point)
  /\ UNCHANGED <<metrics, alertVars, taking, undisturbed>>

ClearHistory ==
  /\ taking = Nothing
  /\ history' = <<>>
  /\ UNCHANGED <<metrics, alertVars, taking, undisturbed>>

ErrorRate(point) ==
  IF point.count = 0 THEN 0 ELSE (point.failures * RateScale) \div point.count

(* The reporter checks the latest point.                                   *)
CheckLatest(keys) ==
  LET point == Last(history)
      values == [p95 |-> point.p95, throughput |-> point.count,
                 error_rate |-> ErrorRate(point)]
  IN  /\ taking = Nothing
      /\ history # <<>>
      /\ Check([k \in keys |-> values[k]])
      /\ UNCHANGED <<metrics, monitorVars>>

AddAlertRule(rule) == AddRule(rule) /\ UNCHANGED <<metrics, monitorVars>>

ClearAllAlerts == ClearAlerts /\ UNCHANGED <<metrics, monitorVars>>

Next ==
  \/ \E e \in Endpoint, request \in Request : UserRecords(e, request)
  \/ ResetMetrics
  \/ TakeSummary
  \/ \E e \in Endpoint : TakePercentile(e)
  \/ TakePoint
  \/ \E point \in GivenPoints : RecordGiven(point)
  \/ ClearHistory
  \/ \E keys \in {{"p95", "throughput", "error_rate"}, {"throughput", "error_rate"}} :
       CheckLatest(keys)
  \/ \E rule \in MoreRules : AddAlertRule(rule)
  \/ ClearAllAlerts

Spec == Init /\ [][Next]_vars

-----------------------------------------------------------------------------
AtMost(records, t) == Cardinality({i \in DOMAIN records : records[i].time <= t})

(* The record of rank i, from zero, by the number of records around it.    *)
OfRank(records, i) ==
  Min({r.time : r \in {r \in ToSet(records) : AtMost(records, r.time) > i}})

(* 19/20 of the way from the least record to the greatest.                 *)
P95(records) ==
  LET k == 95 * (Len(records) - 1)
      below == OfRank(records, k \div 100)
      above == IF k % 100 = 0 THEN below ELSE OfRank(records, k \div 100 + 1)
  IN  100 * below + (k % 100) * (above - below)

(* A point mixes states of the collector: its counts are those of the      *)
(* summary, its p95 of later states, one for each endpoint                 *)
(* (live_dashboard.py, line 154).  Unless the collector is reset meanwhile *)
(* there is for each endpoint a state of its records, no earlier than the  *)
(* summary and no later than the point, such that p95 is the largest of    *)
(* their 95th percentiles.                                                 *)
PointIsBracketed ==
  [][TakePoint /\ undisturbed =>
       LET counted == taking.summary
           seen(e) == {P95(SubSeq(metrics[e], 1, n)) :
                         n \in counted[e].count .. Len(metrics[e])}
       IN  /\ \A e \in DOMAIN counted : \E p \in seen(e) : p <= taking.p95
           /\ \E e \in DOMAIN counted : taking.p95 \in seen(e)]_vars

=============================================================================
