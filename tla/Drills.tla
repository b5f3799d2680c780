------------------------------- MODULE Drills -------------------------------
(***************************************************************************)
(* The drills the app plays: every file that loads, in full or shortened   *)
(* to its refresher, in the form the modules about a running drill use.    *)
(*                                                                         *)
(* Step ids are unique in a file, so there a step is named by its position *)
(* and position 0 stands for "no step"; defaults are filled in, and params *)
(* that a variant sets have their value.                                   *)
(***************************************************************************)
EXTENDS Scenarios

CONSTANT Paths  \* prefabs: marks of the path to an anchor

-----------------------------------------------------------------------------
(* refresherScenario *)

Tagged(steps, tag) ==
    {s.id : s \in {t \in ToSet(steps) : \E o \in ToSet(stepOptions(t)) : Field(o, "tag", None) = tag}}

ruleSteps(rule, steps) ==
    StepRefs(rule) \cup
    IF rule.type = "no_forbidden" THEN Tagged(steps, rule.params.tag) ELSE {}

stepNeeds(step, steps) ==
    (IF Has(step.params, "agentFrom") THEN {step.params.agentFrom} ELSE {}) \cup
    (IF Has(step.params, "exitBehind")
     THEN {s.id : s \in {t \in ToSet(steps) :
              /\ t.interaction = "find_marker"
              /\ Field(t.params, "marker", None) = step.params.exitBehind.marker}}
     ELSE {})

\* Whatever a step needs is there too.
Closed(ids, steps) == \A s \in ToSet(steps) : s.id \in ids => stepNeeds(s, steps) \subseteq ids

\* What critical rules score, every placement, and whatever those need.  Names of steps that
\* the file does not have are kept like others.
KeptSteps(file) ==
    LET steps == file.steps
        first == (UNION {ruleSteps(r, steps) : r \in {q \in ToSet(file.rules) : q.critical}}) \cup
                 {s.id : s \in {t \in ToSet(steps) : t.interaction = "place_on_plane"}}
        named == first \cup UNION {stepNeeds(s, steps) : s \in ToSet(steps)}
        candidates == {ids \in SUBSET named : first \subseteq ids /\ Closed(ids, steps)}
    IN  {id \in named : \A ids \in candidates : id \in ids}

\* Every rule, critical or not, whose steps are all kept.
refresherScenario(file) ==
    LET kept == KeptSteps(file)
        Tied(rule) == ruleSteps(rule, file.steps)
    IN  [file EXCEPT !.steps = InOrder(@, {i \in DOMAIN @ : @[i].id \in kept}),
                     !.rules = InOrder(@, {k \in DOMAIN @ : Tied(@[k]) # {} /\ Tied(@[k]) \subseteq kept})]

-----------------------------------------------------------------------------
(* What a session plays *)

\* 0 if there is none.
Position(file, id) ==
    Max({0} \cup {i \in DOMAIN file.steps : file.steps[i].id = id})

Options(step, variant) ==
    [k \in DOMAIN stepOptions(step) |->
        LET o == stepOptions(step)[k]
        IN  [id |-> o.id, tag |-> Field(o, "tag", None),
             forbidden |-> optionForbiddenIn(o, variant.id)]]

PlayedStep(file, step, variant) ==
    LET p == IF stepRunsIn(step, variant.id) THEN resolveParams(step, variant) ELSE step.params
    IN  [interaction |-> step.interaction,
         runs |-> stepRunsIn(step, variant.id),
         options |-> Options(step, variant),
         duration |-> Field(p, "durationSec", 0),
         capacity |-> Field(p, "dischargeSec", 0),
         anchorMarker |-> Has(p, "anchorMarker"),
         byMarker |-> Has(p, "marker") \/ Field(p, "anchor", None) \in file.markers,
         path |-> IF Has(p, "anchor") /\ p.anchor \in DOMAIN Paths THEN Paths[p.anchor] ELSE 0,
         exitBehind |-> Has(p, "exitBehind"),
         minCones |-> IF step.interaction = "mark_zone" THEN Field(p, "minCones", 0) ELSE 0,
         agentFrom |-> Position(file, Field(p, "agentFrom", None))]

PlayedRule(file, rule, variant) ==
    LET p == rule.params
    IN  [id |-> rule.id, type |-> rule.type, points |-> rule.points, critical |-> rule.critical,
         onForbiddenOnly |-> Has(rule, "criticalOn"),
         variants |-> Field(rule, "variants", IdsIn(file.variants)),
         step |-> Position(file, Field(p, "step", None)),
         before |-> Position(file, Field(p, "before", None)),
         after |-> Position(file, Field(p, "after", None)),
         tag |-> Field(p, "tag", None), where |-> Field(p, "where", None),
         seconds |-> IF rule.type = "time_limit" THEN Field(p, "seconds", 0) ELSE 0,
         partial |-> Field(p, "partial", FALSE),
         correct |-> IF Has(p, "correctIn") THEN Field(p.correctIn, variant.id, {})
                     ELSE Field(p, "correct", {}),
         minOnTarget |-> Field(p, "minOnTargetSec", 0),
         maxOffPercent |-> Field(p, "maxOffTargetRatio", 0),
         requirePin |-> Field(p, "requirePinPulled", FALSE),
         minSweeps |-> Field(p, "minSweeps", 0)]

Played(file, variant) ==
    [steps |-> [i \in DOMAIN file.steps |-> PlayedStep(file, file.steps[i], variant)],
     rules |-> {PlayedRule(file, r, variant) : r \in ToSet(file.rules)},
     threshold |-> file.threshold]

\* ALL: a file with any problem is never played.
Loaded == {name \in DOMAIN Files : Problems(Files[name]) = {}}

Kinds == {"training", "refresher"}

FileOf(name, kind) == IF kind = "refresher" THEN refresherScenario(Files[name]) ELSE Files[name]

Scenario ==
    [name \in Loaded |-> [kind \in Kinds |->
        LET file == FileOf(name, kind)
        IN  [v \in IdsIn(file.variants) |-> Played(file, ById(file.variants, v))]]]

\* What the loader lets through where it wants a number is one, and so are lengths of
\* paths; a question has a list of options.
ASSUME LoadedIsTyped ==
    \A name \in Loaded, kind \in Kinds : \A v \in DOMAIN Scenario[name][kind] :
       LET drill == Scenario[name][kind][v]
       IN  /\ \A i \in DOMAIN drill.steps :
                 /\ drill.steps[i].path \in Nat /\ drill.steps[i].minCones \in Nat
                 /\ IsFiniteSet(DOMAIN drill.steps[i].options)
           /\ \A rule \in drill.rules : rule.seconds \in Nat /\ rule.points \in Nat
=============================================================================
