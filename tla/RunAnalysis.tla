----------------------------- MODULE RunAnalysis -----------------------------
(***************************************************************************)
(* What the analysis (intelligence.py) reads out of the history of a run:  *)
(* error spikes, the saturation knee and the projected capacity.  Floats   *)
(* are integers in fixed point where they are smoothed (Scale), and exact  *)
(* fractions elsewhere.                                                    *)
(***************************************************************************)
EXTENDS RunHistory, Functions

CONSTANTS
  SpikeMinDuration,  \* spike_min_duration_s
  CriticalDuration,  \* 60 seconds
  Slo                \* the SLO on p95

ASSUME AnalysisAssumption ==
  SpikeMinDuration \in Nat /\ CriticalDuration \in Nat /\ Slo \in Nat

Scale == 100

-----------------------------------------------------------------------------
(* _ewma_series, alpha = 0.3.                                              *)
Ewma(series) ==
  LET smooth[i \in 1..Len(series)] ==
        IF i = 1 THEN Scale * series[1]
        ELSE (3 * Scale * series[i] + 7 * smooth[i - 1]) \div 10
  IN  smooth

(* The threshold of detect_error_spikes: spike_factor = 3 times the        *)
(* background, at least spike_min_rate = 1%.                               *)
SpikeThreshold(background) == Max({3 * background, Scale})

(* Variant of Scan: the background follows the spike.                      *)
ScanFollowing(rates) ==
  LET smooth == Ewma(rates)
      scan[i \in 0..Len(rates)] ==
        IF i = 0 THEN [background |-> smooth[1], running |-> FALSE, flagged |-> {}]
        ELSE LET s == scan[i - 1]
             IN  IF Scale * rates[i] > SpikeThreshold(s.background)
                 THEN [background |-> smooth[i], running |-> TRUE,
                       flagged |-> s.flagged \cup {i}]
                 ELSE [background |-> smooth[i], running |-> FALSE,
                       flagged |-> s.flagged]
  IN  scan[Len(rates)].flagged

(* The loop of detect_error_spikes over all rows: the rows above the       *)
(* threshold.  While they follow each other the background stays what it   *)
(* was before the first.                                                   *)
Scan(rates) ==
  LET smooth == Ewma(rates)
      scan[i \in 0..Len(rates)] ==
        IF i = 0 THEN [background |-> smooth[1], running |-> FALSE, flagged |-> {}]
        ELSE LET s == scan[i - 1]
             IN  IF Scale * rates[i] > SpikeThreshold(s.background)
                 THEN [background |-> IF s.running THEN s.background
                                      ELSE smooth[Max({i - 1, 1})],
                       running |-> TRUE, flagged |-> s.flagged \cup {i}]
                 ELSE [background |-> smooth[i], running |-> FALSE,
                       flagged |-> s.flagged]
  IN  scan[Len(rates)].flagged

(* Flagged rows at most 2 * spike_min_duration_s apart are one window, and *)
(* the windows that last long enough are reported.                         *)
ErrorSpikes(measured) ==
  LET rates == [i \in DOMAIN measured |-> measured[i].rate]
      flagged == IF measured = <<>> THEN {} ELSE Scan(rates)
      near(i, j) == measured[j].time - measured[i].time <= 2 * SpikeMinDuration
      before(j) == {i \in flagged : i < j}
      after(i) == {j \in flagged : j > i}
      starts == {j \in flagged : before(j) = {} \/ ~near(Max(before(j)), j)}
      ends == {i \in flagged : after(i) = {} \/ ~near(i, Min(after(i)))}
      window(i) ==
        LET j == Min({k \in ends : k >= i})
            peak == Max({rates[k] : k \in flagged \cap (i..j)})
            lasts == measured[j].time - measured[i].time
        IN  [start |-> measured[i].time, end |-> measured[j].time, peak |-> peak,
             severity |-> IF peak >= 5 \/ lasts >= CriticalDuration
                          THEN "critical" ELSE "warning"]
  IN  {spike \in {window(i) : i \in starts} : spike.end - spike.start >= SpikeMinDuration}

-----------------------------------------------------------------------------
(* The numbers of a set in ascending order.                                *)
Ascending(S) ==
  [k \in 1..Cardinality(S) |-> CHOOSE x \in S : Cardinality({y \in S : y < x}) = k - 1]

Aggregated(measured) ==
  LET at == Ascending({i \in DOMAIN measured : measured[i].name = "Aggregated"})
  IN  [k \in DOMAIN at |-> measured[at[k]]]

SumOf(series) ==
  LET sum[i \in 0..Len(series)] == IF i = 0 THEN 0 ELSE sum[i - 1] + series[i]
  IN  sum[Len(series)]

Products(xs, ys) == [i \in DOMAIN xs |-> xs[i] * ys[i]]

(* _ols_slope and _ols: the slope as a fraction whose denominator is not   *)
(* negative.                                                               *)
Slope(xs, ys) ==
  LET n == Len(xs)
  IN  [num |-> n * SumOf(Products(xs, ys)) - SumOf(xs) * SumOf(ys),
       den |-> n * SumOf(Products(xs, xs)) - SumOf(xs) * SumOf(xs)]

NoKnee == [rps |-> -1]

(* The curve of detect_rps_saturation_knee: one point, the slowest, for    *)
(* every rate of requests, in ascending order.                             *)
Curve(measured) ==
  LET points == Range(Aggregated(measured))
      rates == Ascending({point.rps : point \in points})
  IN  [i \in DOMAIN rates |->
         [rps |-> rates[i],
          p95 |-> Max({point.p95 : point \in {p \in points : p.rps = rates[i]}})]]

(* Distance of a point of the curve from its chord, times a constant.      *)
FromChord(curve, i) ==
  LET first == curve[1]
      last == curve[Len(curve)]
      d == (last.p95 - first.p95) * (curve[i].rps - first.rps)
             - (last.rps - first.rps) * (curve[i].p95 - first.p95)
  IN  IF d < 0 THEN -d ELSE d

(* Variant of Knee: the point next to the one farthest from the chord.     *)
KneeAfter(measured) ==
  LET curve == Curve(measured)
      inner == 2..Len(curve) - 1
      farthest == Max({FromChord(curve, i) : i \in inner})
      bend == Min({i \in inner : FromChord(curve, i) = farthest}) + 1
  IN  IF Len(curve) < 5 \/ Cardinality({curve[i].p95 : i \in DOMAIN curve}) = 1
      THEN NoKnee ELSE curve[bend]

(* The point farthest from the chord, if the curve rises after it at least *)
(* twice as steeply (knee_slope_ratio) as before it.                       *)
Knee(measured) ==
  LET curve == Curve(measured)
      rps == [i \in DOMAIN curve |-> curve[i].rps]
      p95 == [i \in DOMAIN curve |-> curve[i].p95]
      inner == 2..Len(curve) - 1
      farthest == Max({FromChord(curve, i) : i \in inner})
      bend == Min({i \in inner : FromChord(curve, i) = farthest})
      before == Slope(SubSeq(rps, 1, bend), SubSeq(p95, 1, bend))
      after == Slope(SubSeq(rps, bend, Len(curve)), SubSeq(p95, bend, Len(curve)))
  IN  IF Len(curve) < 5 \/ Cardinality({curve[i].p95 : i \in DOMAIN curve}) = 1
      THEN NoKnee
      ELSE IF IF before.num <= 0 THEN after.num > 0
              ELSE after.num * before.den >= 2 * before.num * after.den
      THEN curve[bend] ELSE NoKnee

-----------------------------------------------------------------------------
(* The values that _project_metric fits a line to: smoothed if their       *)
(* deviation is more than a quarter (noise_ratio) of their mean.           *)
Fitted(values) ==
  LET sum == SumOf(values)
      noisy == 16 * (Len(values) * SumOf(Products(values, values)) - sum * sum) > sum * sum
  IN  IF noisy THEN Ewma(values) ELSE [i \in DOMAIN values |-> Scale * values[i]]

NoBreach == [num |-> -1, den |-> 1]

(* Variant of Capacity: the projection may lie within the tested load.     *)
CapacityWithin(measured) ==
  LET points == Aggregated(measured)
      fitted == Fitted([i \in DOMAIN points |-> points[i].p95])
      rps == [i \in DOMAIN points |-> points[i].rps]
      slope == Slope(rps, fitted)
  IN  IF Len(points) < 5 \/ slope.num <= 0 \/ slope.den = 0 THEN NoBreach
      ELSE [num |-> slope.den * (Len(points) * Slo * Scale - SumOf(fitted))
                      + slope.num * SumOf(rps),
            den |-> Len(points) * slope.num]

(* _project_metric for p95: the rate of requests at which the fitted line  *)
(* meets the SLO, but at least the highest that was tested.                *)
Capacity(measured) ==
  LET points == Aggregated(measured)
      fitted == Fitted([i \in DOMAIN points |-> points[i].p95])
      rps == [i \in DOMAIN points |-> points[i].rps]
      slope == Slope(rps, fitted)
      breach == [num |-> slope.den * (Len(points) * Slo * Scale - SumOf(fitted))
                           + slope.num * SumOf(rps),
                 den |-> Len(points) * slope.num]
      tested == Max(Range(rps))
  IN  IF Len(points) < 5 \/ slope.num <= 0 \/ slope.den = 0 THEN NoBreach
      ELSE IF breach.num < tested * breach.den THEN [num |-> tested, den |-> 1]
      ELSE breach

-----------------------------------------------------------------------------
(* A spike that lasts is reported as one window (the comment at lines      *)
(* 441-442 of intelligence.py): once a row is above the threshold, as long *)
(* as no later rate is lower and the rows are not far apart, they are all  *)
(* in one window, however high the smoothed rate climbs meanwhile; and     *)
(* reported windows are apart.                                             *)
SustainedSpikeIsOneWindow ==
  rows # <<>> =>
    LET spikes == ErrorSpikes(rows)
        flagged == Scan([i \in DOMAIN rows |-> rows[i].rate])
    IN  /\ \A i \in flagged : \A j \in i..Len(rows) :
             /\ \A k \in i..j : rows[k].rate >= rows[i].rate
             /\ pace <= 2 * SpikeMinDuration
             /\ rows[j].time - rows[i].time >= SpikeMinDuration
             => \E spike \in spikes : spike.start <= rows[i].time /\ rows[j].time <= spike.end
        /\ \A s, t \in spikes :
             s = t \/ s.end + 2 * SpikeMinDuration < t.start
                   \/ t.end + 2 * SpikeMinDuration < s.start

(* How steeply the curve rises from one point to the next.                 *)
Rise(curve, i) == [num |-> curve[i + 1].p95 - curve[i].p95,
                   den |-> curve[i + 1].rps - curve[i].rps]

(* a * factor <= b for fractions.                                          *)
NotSteeper(a, factor, b) == factor * a.num * b.den <= b.num * a.den

(* The knee of a curve that is straight, then bends up and is straight     *)
(* again, at least twice as steep, is its bend; a curve that never gets    *)
(* steeper has none (detect_rps_saturation_knee).                          *)
KneeIsTheBend ==
  LET curve == Curve(rows)
      last == Len(curve) - 1
      straight(from, to) ==
        \A i, j \in from..to : NotSteeper(Rise(curve, i), 1, Rise(curve, j))
  IN  Len(curve) >= 5 =>
        /\ \A bend \in 2..last :
             /\ straight(1, bend - 1) /\ straight(bend, last)
             /\ Rise(curve, 1).num >= 0 /\ Rise(curve, last).num > 0
             /\ NotSteeper(Rise(curve, 1), 2, Rise(curve, last))
             => Knee(rows) = curve[bend]
        /\ (\A i \in 1..last - 1 : NotSteeper(Rise(curve, i + 1), 1, Rise(curve, i)))
             => Knee(rows) = NoKnee

(* A projected capacity lies beyond every load that was tested, the knee   *)
(* included; and if the p95 rises by the same amount with every request    *)
(* per second and was not smoothed, it is where that line meets the SLO    *)
(* (_project_metric).                                                      *)
CapacityIsBeyondTheLoad ==
  LET breach == Capacity(rows)
      points == Aggregated(rows)
      values == [i \in DOMAIN points |-> points[i].p95]
      onLine(beta, alpha) ==
        \A i \in DOMAIN points : points[i].p95 = alpha + beta * points[i].rps
  IN  breach # NoBreach =>
        /\ \A i \in DOMAIN points : points[i].rps * breach.den <= breach.num
        /\ Knee(rows) # NoKnee => Knee(rows).rps * breach.den <= breach.num
        /\ \A beta \in 1..2, alpha \in 0..5 :
             /\ onLine(beta, alpha)
             /\ Fitted(values) = [i \in DOMAIN values |-> Scale * values[i]]
             /\ \A i \in DOMAIN points : points[i].p95 <= Slo
             => beta * breach.num = (Slo - alpha) * breach.den

=============================================================================
