------------------------------ MODULE LoadShape ------------------------------
(***************************************************************************)
(* The load shapes (shapes.py): the number of users at a given time of the *)
(* test, or Stop.  The spawn rate is left out.  A pattern of the generator *)
(* (load_patterns.py, resolve_pattern) names one of them.                  *)
(***************************************************************************)
EXTENDS Integers, FiniteSetsExt

CONSTANT DefaultPhase   \* baseline_duration and recovery_duration

(* tick returns None.                                                      *)
Stop == 0

(* StepLoadShape.tick: max_users are run only if the first step has them.  *)
StepUsers(shape, time) ==
  LET target == Min({(time \div shape.stepDuration + 1) * shape.stepUsers,
                     shape.maxUsers})
  IN  IF target = shape.maxUsers /\ time > shape.stepDuration THEN Stop ELSE target

(* SpikeLoadShape.tick; it never stops.                                    *)
SpikeUsers(shape, time) ==
  LET cycle == time % (shape.baselineDuration + shape.spikeDuration + shape.recoveryDuration)
      recovering == cycle - shape.baselineDuration - shape.spikeDuration
  IN  IF cycle < shape.baselineDuration THEN shape.baselineUsers
      ELSE IF recovering < 0 THEN shape.spikeUsers
      ELSE Max({(shape.spikeUsers * shape.recoveryDuration
                   - (shape.spikeUsers - shape.baselineUsers) * recovering)
                  \div shape.recoveryDuration,
                shape.baselineUsers})

(* ConstantLoadShape.tick.                                                 *)
ConstantUsers(shape, time) == IF time >= shape.duration THEN Stop ELSE shape.steadyUsers

(* Variant of RampUsers: the ramp down is counted from the end of the ramp *)
(* up.                                                                     *)
RampUsersForgetHold(shape, time) ==
  LET rampingDown == time - shape.rampUp
  IN  IF time < shape.rampUp
      THEN Max({1, (shape.targetUsers * time) \div shape.rampUp})
      ELSE IF time < shape.rampUp + shape.hold THEN shape.targetUsers
      ELSE IF time < shape.rampUp + shape.hold + shape.rampDown
      THEN Max({0, (shape.targetUsers * (shape.rampDown - rampingDown)) \div shape.rampDown})
      ELSE Stop

(* RampUpLoadShape.tick; no users left is a stop as well.                  *)
RampUsers(shape, time) ==
  LET rampingDown == time - shape.rampUp - shape.hold
  IN  IF time < shape.rampUp
      THEN Max({1, (shape.targetUsers * time) \div shape.rampUp})
      ELSE IF rampingDown < 0 THEN shape.targetUsers
      ELSE IF rampingDown < shape.rampDown
      THEN (shape.targetUsers * (shape.rampDown - rampingDown)) \div shape.rampDown
      ELSE Stop

UsersAt(shape, time) ==
  CASE shape.kind = "step" -> StepUsers(shape, time)
    [] shape.kind = "spike" -> SpikeUsers(shape, time)
    [] shape.kind = "constant" -> ConstantUsers(shape, time)
    [] shape.kind = "ramp-up" -> RampUsers(shape, time)

(* The shape that the generated file makes of a pattern: what the snippet  *)
(* leaves out has its default.                                             *)
Resolve(config) ==
  CASE config.pattern = "constant" ->
         [kind |-> "constant", steadyUsers |-> config.users, duration |-> config.runtime]
    [] config.pattern = "ramp-up" ->
         [kind |-> "ramp-up", targetUsers |-> config.users, rampUp |-> config.rampUp,
          hold |-> config.hold, rampDown |-> config.rampDown]
    [] config.pattern = "spike" ->
         [kind |-> "spike", baselineUsers |-> config.users,
          spikeUsers |-> config.spikeUsers, spikeDuration |-> config.spikeDuration,
          baselineDuration |-> DefaultPhase, recoveryDuration |-> DefaultPhase]

Peak(shape) ==
  CASE shape.kind = "step" -> shape.maxUsers
    [] shape.kind = "spike" -> Max({shape.spikeUsers, shape.baselineUsers})
    [] shape.kind = "constant" -> shape.steadyUsers
    [] shape.kind = "ramp-up" -> shape.targetUsers

=============================================================================
