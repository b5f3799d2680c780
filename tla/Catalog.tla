------------------------------- MODULE Catalog -------------------------------
(***************************************************************************)
(* The server's view of the same scenario files: only what the recheck of  *)
(* a score and its own derivation of the refresher need, not validated.    *)
(***************************************************************************)
EXTENDS Scenarios

\* JSON null is no name of a step, a marker or a tag, and no list of variants.
ASSUME ValuesAssumption ==
    /\ None # "forbidden"
    /\ \A name \in DOMAIN Files :
          /\ \A step \in ToSet(Files[name].steps) :
                /\ Has(step.params, "agentFrom") => step.params.agentFrom # None
                /\ Has(step.params, "exitBehind") => step.params.exitBehind.marker # None
                /\ \A o \in ToSet(stepOptions(step)) : Has(o, "tag") => o.tag # None
          /\ \A rule \in ToSet(Files[name].rules) :
                None \notin StepRefs(rule) /\ (Has(rule, "variants") => rule.variants # None)

Text(params, key) == Field(params, key, None)

\* Truthy: the empty list counts as none.
Variants(rule) == IF Field(rule, "variants", {}) = {} THEN None ELSE rule.variants

ServerStep(raw) ==
    [id |-> raw.id, interaction |-> raw.interaction,
     option_tags |-> {o.tag : o \in {p \in ToSet(stepOptions(raw)) : Has(p, "tag")}},
     agent_from |-> Text(raw.params, "agentFrom"),
     exit_marker |-> IF Has(raw.params, "exitBehind") THEN raw.params.exitBehind.marker ELSE None,
     marker |-> Text(raw.params, "marker")]

ServerRule(raw) ==
    [id |-> raw.id, points |-> raw.points, critical |-> raw.critical,
     critical_on |-> Field(raw, "criticalOn", None),
     variants |-> Variants(raw),
     type |-> raw.type,
     step_refs |-> {Text(raw.params, k) : k \in {"step", "before", "after"}} \ {None},
     tag |-> Text(raw.params, "tag")]

ServerScenario(raw) ==
    [threshold |-> raw.threshold,
     rules |-> {ServerRule(r) : r \in ToSet(raw.rules)},
     steps |-> [i \in DOMAIN raw.steps |-> ServerStep(raw.steps[i])]]

-----------------------------------------------------------------------------
(* The derivation *)

rule_steps(rule, steps) ==
    rule.step_refs \cup
    {s.id : s \in {t \in ToSet(steps) : rule.type = "no_forbidden" /\ rule.tag \in t.option_tags}}

needs(step, steps) ==
    ({step.agent_from} \ {None}) \cup
    {s.id : s \in {t \in ToSet(steps) : /\ step.exit_marker # None
                                        /\ t.interaction = "find_marker"
                                        /\ t.marker = step.exit_marker}}

\* Mutant: what a kept step needs is not kept with it.
KeptOnce(first, steps) == first

Grow(kept, steps) == kept \cup UNION {needs(s, steps) : s \in {t \in ToSet(steps) : t.id \in kept}}

\* while grew: the steps that the kept ones need, and those they need.
Grown(first, steps) ==
    LET kept[n \in 0..Len(steps)] == IF n = 0 THEN first ELSE Grow(kept[n - 1], steps)
    IN  kept[Len(steps)]

refresher_step_ids(scenario) ==
    LET steps == scenario.steps
        critical == {r \in scenario.rules : r.critical}
        placements == {s \in ToSet(steps) : s.interaction = "place_on_plane"}
    IN  Grown((UNION {rule_steps(r, steps) : r \in critical}) \cup {s.id : s \in placements}, steps)
           \cap IdsIn(steps)

refresher_scenario(scenario) ==
    LET kept == refresher_step_ids(scenario)
    IN  [scenario EXCEPT
            !.rules = {r \in @ : LET tied == rule_steps(r, scenario.steps)
                                 IN  tied # {} /\ tied \subseteq kept},
            !.steps = InOrder(@, {i \in DOMAIN @ : @[i].id \in kept})]

\* The scenario that an attempt of a kind is rechecked against.
Rechecked ==
    [name \in DOMAIN Files |->
        [training |-> ServerScenario(Files[name]),
         refresher |-> refresher_scenario(ServerScenario(Files[name]))]]
=============================================================================
