----------------------------- MODULE Assessment -----------------------------
(***************************************************************************)
(* The assessment engine of the app: a function of a scenario, a variant   *)
(* and an event log.  A rule is a record that names its step or steps by   *)
(* position (0: none).  Times are those of the log; a log is recorded in   *)
(* the order of a monotonic clock, so sortByTime leaves it as it is.       *)
(***************************************************************************)
EXTENDS Session

RuleRunsIn(rule, variant) == variant \in rule.variants

Scored(scenario, variant) == {r \in scenario.rules : RuleRunsIn(r, variant)}

-----------------------------------------------------------------------------
(* Reading the log *)

InStep(log, step, type) == {k \in DOMAIN log : log[k].step = step /\ log[k].type = type}

Happened(log, step, type) == \E k \in DOMAIN log : log[k].step = step /\ log[k].type = type

First(log, step, type) == log[Min(InStep(log, step, type))]

Aborted(log) == \E k \in DOMAIN log : log[k].type = "attempt_aborted"

\* Steps that run in this variant and were skipped all the same.
WorkerSkipped(scenario, log) ==
    {i \in DOMAIN scenario.steps :
        scenario.steps[i].runs /\ Happened(log, i, "step_skipped")}

OffersTag(step, tag) == \E k \in DOMAIN step.options : step.options[k].tag = tag

\* Mutants: a skipped question still earns "no forbidden act"; the pin has to be the
\* first thing that happens in its step.
NamesSkippedStep(scenario, rule, skipped) ==
    {rule.step, rule.before, rule.after} \cap skipped # {}
PinFirst(rule, log) ==
    \E p \in 2..Len(log) :
       /\ log[p].step = rule.step /\ log[p].type = "pin_pulled"
       /\ log[p - 1].type = "step_started"

ScoresSkippedStep(scenario, rule, skipped) ==
    \/ {rule.step, rule.before, rule.after} \cap skipped # {}
    \/ /\ rule.type = "no_forbidden"
       /\ \E i \in skipped : OffersTag(scenario.steps[i], rule.tag)

ForbiddenInStep(rule, log) == Happened(log, rule.step, "forbidden_action")

-----------------------------------------------------------------------------
(* Points *)

Half(rule) == rule.points \div 2

CompletedPoints(rule, log) ==
    IF \E k \in DOMAIN log :
          /\ log[k].step = rule.step
          /\ log[k].type = "step_completed"
          /\ rule.where # None => log[k].data = rule.where
    THEN rule.points ELSE 0

OrderPoints(rule, log) ==
    IF /\ Happened(log, rule.before, "step_completed")
       /\ Happened(log, rule.after, "step_started")
       /\ First(log, rule.before, "step_completed").t < First(log, rule.after, "step_started").t
    THEN rule.points ELSE 0

TimeLimitPoints(rule, log) ==
    IF /\ Happened(log, rule.step, "step_started")
       /\ Happened(log, rule.step, "step_completed")
       /\ First(log, rule.step, "step_completed").t
            <= First(log, rule.step, "step_started").t + rule.seconds
    THEN rule.points ELSE 0

\* One wrong option cancels a right one if the rule pays partially.
CorrectChoicePoints(scenario, rule, log) ==
    LET picked == First(log, rule.step, "choice_made").data
        correct == rule.correct
        right == Cardinality(picked \cap correct)
        wrong == Cardinality(picked \ correct)
        several == scenario.steps[rule.step].interaction \in MultiSelect
    IN  IF ~Happened(log, rule.step, "choice_made") THEN 0
        ELSE
        CASE ~several -> IF picked \subseteq correct THEN rule.points ELSE 0
          [] several /\ rule.partial ->
                (rule.points * (IF right > wrong THEN right - wrong ELSE 0))
                   \div Cardinality(correct)
          [] several /\ ~rule.partial -> IF picked = correct THEN rule.points ELSE 0

NoForbiddenPoints(rule, log) ==
    IF \E k \in DOMAIN log : log[k].type = "forbidden_action" /\ log[k].data = rule.tag
    THEN 0 ELSE rule.points

SwingDegrees == 4

Apart(a, b) == a - b >= SwingDegrees \/ b - a >= SwingDegrees

\* Side-to-side reversals of the aim, with hysteresis.
SweepReversals(aims) ==
    LET Swing(state, x) ==
          CASE state.direction = 0 ->
                 IF Apart(x, state.extreme)
                 THEN [state EXCEPT !.direction = IF x > state.extreme THEN 1 ELSE -1,
                                    !.extreme = x]
                 ELSE state
            [] state.direction * (x - state.extreme) > 0 -> [state EXCEPT !.extreme = x]
            [] OTHER ->
                 IF Apart(x, state.extreme)
                 THEN [reversals |-> state.reversals + 1,
                       direction |-> -state.direction, extreme |-> x]
                 ELSE state
    IN  IF aims = <<>> THEN 0
        ELSE FoldLeft(Swing, [direction |-> 0, extreme |-> aims[1], reversals |-> 0],
                      aims).reversals

PinBeforeSpray(rule, log) ==
    \E p \in DOMAIN log :
       /\ log[p].step = rule.step /\ log[p].type = "pin_pulled"
       /\ \A q \in 1..p : ~(log[q].step = rule.step /\ log[q].type = "hold_progress")

\* PASS: enough samples on the base, few off it, the pin first, and a sweep.
HoldPoints(rule, log) ==
    LET samples == InStep(log, rule.step, "hold_progress")
        off == {k \in samples : log[k].data.zone = "tops"}
        onBase == InOrder(log, {k \in samples : log[k].data.zone = "base" /\ log[k].data.aim # None})
        aims == [n \in DOMAIN onBase |-> onBase[n].data.aim]
        onMet == \/ rule.minOnTarget = 0
                 \/ \E k \in samples : log[k].data.onTarget >= rule.minOnTarget
        offMet == IF samples = {} THEN rule.maxOffPercent >= 100
                  ELSE 100 * Cardinality(off) <= rule.maxOffPercent * Cardinality(samples)
        pinMet == rule.requirePin => PinBeforeSpray(rule, log)
        sweepMet == rule.minSweeps > 0 => SweepReversals(aims) >= rule.minSweeps
    IN  CASE onMet /\ offMet /\ pinMet /\ sweepMet -> rule.points
          [] onMet /\ ~(offMet /\ pinMet /\ sweepMet) -> Half(rule)
          [] OTHER -> 0

\* zone_marked carries the error of the marked radius, in tolerances rounded up.
ZonePoints(rule, log) ==
    IF ~Happened(log, rule.step, "zone_marked") THEN 0
    ELSE LET error == First(log, rule.step, "zone_marked").data
         IN  CASE error <= 1 -> rule.points
               [] error = 2 -> Half(rule)
               [] OTHER -> 0

EarnedPoints(scenario, rule, log) ==
    CASE rule.type = "completed" -> CompletedPoints(rule, log)
      [] rule.type = "order" -> OrderPoints(rule, log)
      [] rule.type = "time_limit" -> TimeLimitPoints(rule, log)
      [] rule.type = "correct_choice" -> CorrectChoicePoints(scenario, rule, log)
      [] rule.type = "no_forbidden" -> NoForbiddenPoints(rule, log)
      [] rule.type = "hold" -> HoldPoints(rule, log)
      [] rule.type = "zone_accuracy" -> ZonePoints(rule, log)

-----------------------------------------------------------------------------
(* The verdict *)

\* A critical rule fails if its step saw a forbidden act and, unless it says
\* criticalOn "forbidden", also if it earned nothing.
IsCriticalFailure(rule, earned, log) ==
    ForbiddenInStep(rule, log) \/ (~rule.onForbiddenOnly /\ earned = 0)

\* round(100 * earned / max), half away from zero, in integers.
RoundPercent(earned, max) ==
    IF max <= 0 THEN 0 ELSE (200 * earned + max) \div (2 * max)

RuleResult(scenario, rule, log) ==
    LET failed == ScoresSkippedStep(scenario, rule, WorkerSkipped(scenario, log))
        earned == IF failed THEN 0 ELSE EarnedPoints(scenario, rule, log)
        critical == rule.critical /\ (failed \/ IsCriticalFailure(rule, earned, log))
    IN  [id |-> rule.id, earned |-> earned, max |-> rule.points,
         critical |-> rule.critical,
         passed |-> IF rule.critical THEN ~critical ELSE earned = rule.points]

Total(results, field) == MapThenSumSet(LAMBDA r : r[field], results)
EarnedOf(results) == Total(results, "earned")
MaxOf(results) == Total(results, "max")

Evaluate(scenario, variant, log) ==
    LET results == {RuleResult(scenario, r, log) : r \in Scored(scenario, variant)}
        failures == {r.id : r \in {x \in results : x.critical /\ ~x.passed}}
        score == RoundPercent(EarnedOf(results), MaxOf(results))
    IN  [score |-> score,
         passed |-> failures = {} /\ ~Aborted(log) /\ score >= scenario.threshold,
         criticalFailures |-> failures,
         rules |-> results]
=============================================================================
