------------------------------ MODULE Recheck ------------------------------
(***************************************************************************)
(* The server's recheck of a result that a device reports: it has no engine *)
(* for events, takes each rule's points as reported, and recomputes totals, *)
(* critical failures and the verdict against its own scenario file.  Every *)
(* disagreement is a reason to flag the attempt; it is stored regardless,  *)
(* with the server's values.                                               *)
(*                                                                         *)
(* A report is what the app's Evaluate returns: one result per rule id.    *)
(***************************************************************************)
EXTENDS Assessment, Catalog

RulesFor(scenario, variant) ==
    {r \in scenario.rules : r.variants # None => variant \in r.variants}

SpecOf(specs, id) == CHOOSE r \in specs : r.id = id

Ids(set) == {r.id : r \in set}

\* Mutant: criticalOn is not read, so zero points fail every critical rule.
AnyZeroFails(spec, result) == result.earned = 0

\* round_half_away_from_zero: the floor of the fraction plus one half.
ScorePercent(earned, max) ==
    IF max = 0 THEN 0 ELSE (2 * 100 * earned + max) \div (2 * max)

\* A critical rule that earned nothing fails even if it is reported passed.
ZeroFails(spec, result) == spec.critical_on = None /\ result.earned = 0

ServerFailures(specs, known) ==
    {r.id : r \in {x \in known : LET spec == SpecOf(specs, x.id)
                                 IN  spec.critical /\ (ZeroFails(spec, x) \/ ~x.passed)}}

\* What is wrong with the result of one rule that the scenario does score.
RuleReasons(spec, result) ==
    {reason \in {"max", "earned", "critical", "zero_passed"} :
        \/ reason = "max" /\ result.max # spec.points
        \/ reason = "earned" /\ result.earned \notin 0..result.max
        \/ reason = "critical" /\ result.critical # spec.critical
        \/ reason = "zero_passed" /\ spec.critical /\ ZeroFails(spec, result) /\ result.passed}

RecheckAttempt(scenario, variant, report, log) ==
    LET specs == RulesFor(scenario, variant)
        known == {r \in report.rules : r.id \in Ids(specs)}
        failures == ServerFailures(specs, known)
        score == ScorePercent(EarnedOf(known), MaxOf(known))
        aborted == \E k \in DOMAIN log : log[k].type = "attempt_aborted"
        passed == failures = {} /\ ~aborted /\ score >= scenario.threshold
        ruleReasons == UNION {RuleReasons(SpecOf(specs, r.id), r) : r \in known}
        totals == {reason \in {"not_scored", "missing", "score", "passed", "failures"} :
                     \/ reason = "not_scored" /\ known # report.rules
                     \/ reason = "missing" /\ Ids(specs) \ Ids(known) # {}
                     \/ reason = "score" /\ report.score # score
                     \/ reason = "passed" /\ report.passed # passed
                     \/ reason = "failures" /\ report.criticalFailures # failures}
    IN  [score |-> score, passed |-> passed, criticalFailures |-> failures,
         reasons |-> ruleReasons \cup totals]
=============================================================================
