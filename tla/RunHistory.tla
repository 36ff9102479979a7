----------------------------- MODULE RunHistory -----------------------------
(***************************************************************************)
(* A load test as its history file sees it: at every tick the shape        *)
(* (LoadShape) sets the number of users and Locust writes a row for all    *)
(* requests and, with --csv-full-history, one for the endpoint (there is   *)
(* one) before it.  Every user makes one request in a unit of time; what   *)
(* the system under test answers is not known.                             *)
(***************************************************************************)
EXTENDS LoadShape, Sequences, FiniteSets

CONSTANTS
  Shape,    \* the shapes that are run
  Pace,     \* the distances between ticks
  Sample,   \* what a tick may measure: a p95, its growth per user, who fails
  MaxTicks  \* bound: rows of a test

ASSUME SampleAssumption ==
  Sample \subseteq [p95 : Nat, perUser : Nat, failing : {"none", "one", "all"}]

(* Durations, and numbers of users, that a shape can be made with.  A step *)
(* must last and a cycle must take time, or tick divides by zero.          *)
ShapeType ==
  [kind : {"step"}, stepDuration : Nat \ {0}, stepUsers : Nat \ {0}, maxUsers : Nat \ {0}]
  \cup [kind : {"constant"}, steadyUsers : Nat \ {0}, duration : Nat]
  \cup [kind : {"ramp-up"}, targetUsers : Nat \ {0}, rampUp : Nat, hold : Nat, rampDown : Nat]
  \cup {s \in [kind : {"spike"}, baselineUsers : Nat \ {0}, spikeUsers : Nat \ {0},
                baselineDuration : Nat, spikeDuration : Nat, recoveryDuration : Nat] :
          s.baselineDuration + s.spikeDuration + s.recoveryDuration > 0}

ASSUME ShapeAssumption == Shape \subseteq ShapeType /\ Pace \subseteq Nat /\ MaxTicks \in Nat

VARIABLES
  shape, pace,
  full,     \* --csv-full-history
  elapsed,  \* the time since the shape was made
  users,    \* the users that the shape asked for
  rows      \* the history file

historyVars == <<shape, pace, full, elapsed, users, rows>>

HistoryInit ==
  /\ shape \in Shape
  /\ pace \in Pace
  /\ full \in BOOLEAN
  /\ elapsed = 0
  /\ users = UsersAt(shape, 0)
  /\ rows = <<>>

FailuresPerSecond(sample, n) ==
  CASE sample.failing = "none" -> 0 [] sample.failing = "one" -> 1
    [] sample.failing = "all" -> n

(* _history_point: the failures are added to the requests, which contain   *)
(* them already, and the rate is a share of that sum (in percent here).    *)
HistoryPoint(name, time, n, sample) ==
  LET failures == FailuresPerSecond(sample, n)
  IN  [name |-> name, time |-> time, rps |-> n, users |-> n,
       p95 |-> sample.p95 + sample.perUser * n,
       rate |-> (100 * failures) \div (n + failures)]

Tick(sample) ==
  LET now == elapsed + pace
      n == UsersAt(shape, now)
      point(name) == HistoryPoint(name, now, n, sample)
  IN  /\ users # Stop
      /\ elapsed < MaxTicks * pace
      /\ elapsed' = now
      /\ users' = n
      /\ rows' = IF n = Stop THEN rows
                 ELSE rows \o (IF full THEN <<point("endpoint")>> ELSE <<>>)
                           \o <<point("Aggregated")>>
      /\ UNCHANGED <<shape, pace, full>>

HistoryNext == \E sample \in Sample : Tick(sample)

-----------------------------------------------------------------------------
(* The shape has run its course at a time: for a ramp, less than one user  *)
(* would be left; for a step load, the step of max_users has come.         *)
Over(time) ==
  CASE shape.kind = "step" -> time * shape.stepUsers
                                >= (shape.maxUsers - shape.stepUsers) * shape.stepDuration
    [] shape.kind = "constant" -> time >= shape.duration
    [] shape.kind = "ramp-up" ->
         LET left == shape.rampUp + shape.hold + shape.rampDown - time
         IN  left <= 0 \/ shape.targetUsers * left < shape.rampDown
    [] shape.kind = "spike" -> FALSE

(* From one tick to the next, whatever the distance between them, a test   *)
(* does what its shape is documented to do (shapes.py): it never exceeds   *)
(* its peak, a step load never falls, a ramp never falls before the end of *)
(* its hold nor rises after it, a spike load stays between its baseline    *)
(* and its spike, whichever is higher; it stops no sooner than its course  *)
(* is over, and what has stopped would not start again.                    *)
FollowsPlan ==
  /\ users' <= Peak(shape)
  /\ shape.kind \in {"step", "constant"} /\ users' # Stop => users' >= users
  /\ shape.kind = "ramp-up" =>
       /\ elapsed' < shape.rampUp + shape.hold => users' >= users
       /\ elapsed >= shape.rampUp => users' <= users
  /\ shape.kind = "spike" => users' >= Min({shape.baselineUsers, shape.spikeUsers})
  /\ users' = Stop =>
       /\ Over(elapsed')
       /\ \A later \in 1..10 : UsersAt(shape, elapsed' + later) = Stop

LoadFollowsPlan == [][FollowsPlan]_historyVars

=============================================================================
