---------------------------- MODULE AlertEngine ----------------------------
(***************************************************************************)
(* AlertEngine (alerts.py): threshold rules checked, in order, against the *)
(* metrics of a running test, with or without the suppression of repeated  *)
(* alerts (dedup).  A check is one step.  Metric values are integers.      *)
(***************************************************************************)
EXTENDS Naturals, Sequences, SequencesExt

CONSTANTS
  RuleTables,  \* the rule lists an engine is made with
  MoreRules,   \* rules that add_rule may add
  MaxAlerts    \* bound: no check is made while there are that many

AlertRule == (UNION {ToSet(table) : table \in RuleTables}) \cup MoreRules

ASSUME RuleAssumption == RuleTables \subseteq Seq(AlertRule)

VARIABLES
  rules,       \* _rules
  dedup,       \* _dedup; FALSE in an engine that from_config makes
  active,      \* _active: names of the rules in breach
  alerts,      \* _alerts, each by its rule
  breached,    \* history variable: with dedup, the rules in breach at the
               \* last check
  due,         \* history variable: the alerts due since the last clear
  missed       \* history variable: since then a check was not given the
               \* metric of a rule in breach

alertVars == <<rules, dedup, active, alerts, breached, due, missed>>

-----------------------------------------------------------------------------
AlertInit ==
  /\ rules \in RuleTables
  /\ dedup \in BOOLEAN
  /\ active = {}
  /\ alerts = <<>>
  /\ breached = {}
  /\ due = <<>>
  /\ missed = FALSE

(* _compare.                                                               *)
Compare(value, operator, threshold) ==
  CASE operator = ">"  -> value > threshold
    [] operator = ">=" -> value >= threshold
    [] operator = "<"  -> value < threshold
    [] operator = "<=" -> value <= threshold
    [] operator = "==" -> value = threshold

(* The rule is breached by the metrics; a metric that is not given         *)
(* breaches nothing.                                                       *)
Breached(rule, given) ==
  /\ rule.metric \in DOMAIN given
  /\ Compare(given[rule.metric], rule.operator, rule.threshold)

(* Variant of CheckRule: a rule that is active stays so.                   *)
CheckRuleStaysActive(state, rule, given) ==
  IF ~Breached(rule, given) THEN state
  ELSE IF dedup /\ rule.name \in state.active THEN state
  ELSE [active |-> IF dedup THEN state.active \cup {rule.name} ELSE state.active,
        alerts |-> Append(state.alerts, rule)]

(* One round of the loop of check.                                         *)
CheckRule(state, rule, given) ==
  IF ~Breached(rule, given)
    THEN [state EXCEPT !.active = IF dedup THEN @ \ {rule.name} ELSE @]
  ELSE IF dedup /\ rule.name \in state.active THEN state
  ELSE [active |-> IF dedup THEN state.active \cup {rule.name} ELSE state.active,
        alerts |-> Append(state.alerts, rule)]

(* check, the loop over the rules in their order; and the rules that it    *)
(* should find to have come into breach, in that order.                    *)
Check(given) ==
  LET fires(rule) == Breached(rule, given) /\ ~(dedup /\ rule \in breached)
      upTo[n \in 0 .. Len(rules)] ==
        IF n = 0 THEN [active |-> active, alerts |-> alerts]
        ELSE CheckRule(upTo[n - 1], rules[n], given)
      dueTo[n \in 0 .. Len(rules)] ==
        IF n = 0 THEN due
        ELSE IF fires(rules[n]) THEN Append(dueTo[n - 1], rules[n])
        ELSE dueTo[n - 1]
  IN  /\ Len(alerts) < MaxAlerts
      /\ active' = upTo[Len(rules)].active
      /\ alerts' = upTo[Len(rules)].alerts
      /\ breached' = IF dedup THEN {rule \in ToSet(rules) : Breached(rule, given)} ELSE {}
      /\ due' = dueTo[Len(rules)]
      /\ missed' = (missed \/ \E rule \in breached : rule.metric \notin DOMAIN given)
      /\ UNCHANGED <<rules, dedup>>

AddRule(rule) ==
  /\ rule \notin ToSet(rules)
  /\ rules' = Append(rules, rule)
  /\ UNCHANGED <<dedup, active, alerts, breached, due, missed>>

ClearAlerts ==
  /\ alerts' = <<>>
  /\ active' = {}
  /\ breached' = {}
  /\ due' = <<>>
  /\ missed' = FALSE
  /\ UNCHANGED <<rules, dedup>>

-----------------------------------------------------------------------------
UniqueNames ==
  \A i, j \in DOMAIN rules : rules[i].name = rules[j].name => i = j

(* The alerts since the last clear are, in order, the breaches found by    *)
(* the checks; with dedup only the first of every stretch of checks in     *)
(* breach, whatever rules are added in between, until a check is not given *)
(* the metric of a rule in breach.  From then on nothing is claimed: the   *)
(* code takes the stretch for ended (alerts.py, lines 149-152), the docs   *)
(* say that only a return below the threshold ends it (alerts.py, lines    *)
(* 120-123; docs/live-dashboard.md, line 127).  Nor is anything of rules   *)
(* that share a name: they share their place in _active.                   *)
AlertsMatchBreaches == UniqueNames /\ ~missed => alerts = due

=============================================================================
