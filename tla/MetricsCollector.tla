-------------------------- MODULE MetricsCollector --------------------------
(***************************************************************************)
(* MetricsCollector (metrics.py): the requests recorded of each endpoint,  *)
(* and the statistics read from them.  Every method runs under the lock,   *)
(* in one step.  Response times are natural numbers, and percentiles are   *)
(* in hundredths of their unit, in which they are whole.                   *)
(***************************************************************************)
EXTENDS Naturals, Sequences, SequencesExt, Functions

CONSTANTS
  Endpoint,     \* names of endpoints
  Request,      \* bound: the requests there are, each a time and a success
  MaxRequests   \* bound: how many requests are recorded between two resets

ASSUME CollectorAssumption ==
  /\ Request \subseteq [time : Nat, success : BOOLEAN]
  /\ MaxRequests \in Nat

VARIABLE metrics  \* _metrics

CollectorInit == metrics = [e \in Endpoint |-> <<>>]

RequestsRecorded == FoldFunction(LAMBDA records, n : n + Len(records), 0, metrics)

RecordRequest(e, request) ==
  /\ RequestsRecorded < MaxRequests
  /\ metrics' = [metrics EXCEPT ![e] = Append(@, request)]

Reset == metrics' = [e \in Endpoint |-> <<>>]

-----------------------------------------------------------------------------
Failures(records) == Len(SelectSeq(records, LAMBDA r : ~r.success))

(* get_summary: an entry for each endpoint with records (the average,      *)
(* least and greatest time are left out).                                  *)
Summary ==
  [e \in {e \in Endpoint : metrics[e] # <<>>} |->
     [count |-> Len(metrics[e]), failures |-> Failures(metrics[e])]]

(* sorted: the response times in ascending order.                          *)
SortedTimes(records) ==
  LET order == CHOOSE order \in Bijection(DOMAIN records, DOMAIN records) :
                 \A i, j \in DOMAIN records :
                   i < j => records[order[i]].time <= records[order[j]].time
  IN  [i \in DOMAIN records |-> records[order[i]].time]

(* Variant of Percentile: the ranks count from one.                        *)
PercentileFromOne(records, percentile) ==
  LET times == SortedTimes(records)
      n == Len(times)
      k == percentile * n
      f == k \div 100
  IN  IF n = 0 THEN 0
      ELSE IF f + 1 >= n THEN 100 * times[n]
      ELSE 100 * times[f + 1] + (k % 100) * (times[f + 2] - times[f + 1])

(* get_percentile, by linear interpolation between the two records around  *)
(* the rank k, which counts from zero, in hundredths of a record.          *)
Percentile(records, percentile) ==
  LET times == SortedTimes(records)
      n == Len(times)
      k == percentile * (n - 1)
      f == k \div 100
  IN  IF n = 0 THEN 0
      ELSE IF f + 1 >= n THEN 100 * times[n]
      ELSE 100 * times[f + 1] + (k % 100) * (times[f + 2] - times[f + 1])

=============================================================================
