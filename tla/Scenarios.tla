------------------------------ MODULE Scenarios ------------------------------
(***************************************************************************)
(* Scenario files as the app reads them: what loadScenario refuses to play *)
(* and how a variant fills in a step's parameters.                         *)
(*                                                                         *)
(* An object is a record with the fields its file gives it.  A param that  *)
(* the file writes as "$name" is in the step's refs, not in its params.    *)
(* The answers to a question are the rule's correct, or its correctIn for  *)
(* each variant.  Keys of texts and sounds, and values of a wrong JSON     *)
(* type, are left out; a missing field is the same to the loader.          *)
(***************************************************************************)
EXTENDS Integers, SequencesExt, Sublists

CONSTANTS None,   \* a value that is absent
          Files   \* the scenario files, by name

\* A file has all its parts, steps and rules as lists.  A step has an id, and a param is
\* written out or names one of the variant's, not both.
ASSUME FilesAreLists ==
    \A name \in DOMAIN Files :
       LET steps == Files[name].steps
           rules == Files[name].rules
       IN  /\ {"threshold", "variants", "steps", "rules"} \subseteq DOMAIN Files[name]
           /\ Len(steps) \in Nat /\ DOMAIN steps = 1..Len(steps)
           /\ Len(rules) \in Nat /\ DOMAIN rules = 1..Len(rules)
           /\ \A i \in DOMAIN steps :
                 steps[i].id # None /\ DOMAIN steps[i].params \cap DOMAIN steps[i].refs = {}

Interactions ==
    {"narration", "place_on_plane", "tap_target", "choose_one", "choose_many",
     "aim_and_hold", "find_marker", "move_to", "mark_zone", "checklist",
     "decision", "operate_extinguisher"}

MultiSelect == {"choose_many", "checklist"}
HoldInteractions == {"aim_and_hold", "operate_extinguisher"}
WithOptions == {"choose_one", "choose_many", "checklist", "decision"}

RuleTypes ==
    {"completed", "order", "time_limit", "correct_choice", "no_forbidden", "hold", "zone_accuracy"}

Has(object, key) == key \in DOMAIN object

Field(object, key, default) == IF Has(object, key) THEN object[key] ELSE default

IdsIn(list) == {list[k].id : k \in DOMAIN list}

HasDuplicates(list) == Cardinality(IdsIn(list)) < Len(list)

ById(list, id) == list[CHOOSE k \in DOMAIN list : list[k].id = id]

-----------------------------------------------------------------------------
(* Variants *)

stepRunsIn(step, variant) == Has(step, "variants") => variant \in step.variants

optionForbiddenIn(option, variant) ==
    /\ Field(option, "forbidden", FALSE)
    /\ Has(option, "forbiddenVariants") => variant \in option.forbiddenVariants

stepOptions(step) == Field(step.params, "options", <<>>)

Resolvable(step, variant) == {step.refs[k] : k \in DOMAIN step.refs} \subseteq DOMAIN variant.params

resolveParams(step, variant) ==
    [k \in DOMAIN step.params \cup DOMAIN step.refs |->
        IF Has(step.refs, k) THEN variant.params[step.refs[k]] ELSE step.params[k]]

-----------------------------------------------------------------------------
(* loadScenario: the problems of a file, by what is wrong *)

RequiredParams(interaction) ==
    CASE interaction = "narration" -> {}
      [] interaction = "place_on_plane" -> {"prefab"}
      [] interaction = "tap_target" -> {"target"}
      [] interaction \in WithOptions -> {"options"}
      [] interaction = "aim_and_hold" -> {"targetZone", "offTargetZones", "durationSec"}
      [] interaction = "operate_extinguisher" ->
            {"agentFrom", "targetZone", "offTargetZones", "dischargeSec"}
      [] interaction = "find_marker" -> {"marker"}
      [] interaction = "move_to" -> {"anchor", "radiusM"}
      [] interaction = "mark_zone" -> {"hazard", "trueRadiusM", "minCones"}

Positive == {"durationSec", "dischargeSec", "radiusM", "trueRadiusM", "minCones"}

OptionProblems(options, variantIds) ==
    {problem \in {"no options", "tag", "unknown variant", "duplicate option"} :
        \/ problem = "no options" /\ options = <<>>
        \/ problem = "duplicate option" /\ HasDuplicates(options)
        \/ \E k \in DOMAIN options :
              LET o == options[k]
              IN  \/ /\ problem = "tag"
                     /\ IF Field(o, "forbidden", FALSE) THEN ~Has(o, "tag")
                        ELSE Has(o, "tag") \/ Has(o, "forbiddenVariants")
                  \/ /\ problem = "unknown variant"
                     /\ ~(Field(o, "forbiddenVariants", {}) \subseteq variantIds)}

\* The markers that a step's params name: all of them have to be printed.
NamedMarkers(interaction, p) ==
    CASE interaction = "place_on_plane" /\ Has(p, "anchorMarker") -> {p.anchorMarker}
      [] interaction = "find_marker" /\ Has(p, "marker") -> {p.marker}
      [] interaction = "move_to" /\ Has(p, "exitBehind") -> {p.exitBehind.marker}
      [] OTHER -> {}

ParamProblems(file, interaction, p) ==
    {problem \in {"missing param", "out of range", "unknown marker"} :
        \/ problem = "missing param" /\ ~(RequiredParams(interaction) \subseteq DOMAIN p)
        \/ problem = "out of range"
           /\ \E k \in DOMAIN p \cap Positive \cap RequiredParams(interaction) : p[k] < 1
        \/ problem = "unknown marker" /\ ~(NamedMarkers(interaction, p) \subseteq file.markers)}
    \cup IF interaction \in WithOptions /\ Has(p, "options")
         THEN OptionProblems(p.options, IdsIn(file.variants)) ELSE {}

\* Mutant: the agent's step may be anywhere in the file.
AnyChoice(file, i, id) ==
    \E j \in DOMAIN file.steps : file.steps[j].id = id /\ file.steps[j].interaction = "choose_one"

EarlierChoice(file, i, id) ==
    \E j \in 1..i - 1 : file.steps[j].id = id /\ file.steps[j].interaction = "choose_one"

StepProblems(file, i) ==
    LET step == file.steps[i]
        known == step.interaction \in Interactions
        running == {v \in ToSet(file.variants) : stepRunsIn(step, v.id)}
    IN  {problem \in {"unknown interaction", "unknown variant", "agentFrom", "unknown reference"} :
            \/ problem = "unknown interaction" /\ ~known
            \/ problem = "unknown variant"
               /\ ~(Field(step, "variants", {}) \subseteq IdsIn(file.variants))
            \/ problem = "agentFrom" /\ step.interaction = "operate_extinguisher"
               /\ ~EarlierChoice(file, i, Field(step.params, "agentFrom", None))
            \/ problem = "unknown reference" /\ \E v \in running : ~Resolvable(step, v)}
        \cup UNION {ParamProblems(file, step.interaction, resolveParams(step, v)) :
                      v \in {w \in running : known /\ Resolvable(step, w)}}

ForbiddenTags(steps) ==
    {o.tag : o \in {p \in UNION {ToSet(stepOptions(s)) : s \in ToSet(steps)} :
                      Field(p, "forbidden", FALSE) /\ Has(p, "tag")}}

RequiredRuleParams(type) ==
    CASE type = "completed" -> {"step"}
      [] type = "order" -> {"before", "after"}
      [] type = "time_limit" -> {"step", "seconds"}
      [] type = "correct_choice" -> {"step"}
      [] type = "no_forbidden" -> {"tag"}
      [] type = "hold" -> {"step", "minOnTargetSec", "maxOffTargetRatio"}
      [] type = "zone_accuracy" -> {"step", "toleranceM"}

PositiveInRules == {"seconds", "toleranceM"}

\* The interactions that a rule of this type can score.
Scorable(type) ==
    CASE type = "correct_choice" -> WithOptions
      [] type = "hold" -> HoldInteractions
      [] type = "zone_accuracy" -> {"mark_zone"}
      [] OTHER -> Interactions

\* The steps that a rule names, whatever its type: its params may hold more than it uses.
StepRefs(rule) == {rule.params[k] : k \in DOMAIN rule.params \cap {"step", "before", "after"}}

\* stepRef: the params that a rule of this type names its steps in.
StepParams(type) ==
    CASE type = "order" -> {"before", "after"}
      [] type = "no_forbidden" -> {}
      [] OTHER -> {"step"}

\* Only those are looked up when the file is loaded.
CheckedRefs(rule) == {rule.params[k] : k \in DOMAIN rule.params \cap StepParams(rule.type)}

\* Mutant: a rule may apply where its step never runs.
AnyScope(rule, step, appliesIn) == TRUE

ScopeFits(rule, step, appliesIn) == \A v \in appliesIn : stepRunsIn(step, v)

\* The answer lists of a rule: one, or one for each variant it applies in.
AnswerLists(rule, appliesIn) ==
    IF Has(rule.params, "correctIn")
    THEN {Field(rule.params.correctIn, v, {}) : v \in appliesIn}
    ELSE {Field(rule.params, "correct", {})}

AnswerProblems(rule, step, appliesIn) ==
    {problem \in {"partial", "no correct options", "unknown option"} :
        \/ problem = "partial" /\ Field(rule.params, "partial", FALSE)
           /\ step.interaction \notin MultiSelect
        \/ problem = "no correct options" /\ {} \in AnswerLists(rule, appliesIn)
        \/ problem = "unknown option"
           /\ ~(UNION AnswerLists(rule, appliesIn) \subseteq IdsIn(stepOptions(step)))}

PassProblems(rule, step) ==
    {problem \in {"out of range", "PASS"} :
        \/ problem = "out of range"
           /\ \/ rule.params.maxOffTargetRatio \notin 0..100 \/ rule.params.minOnTargetSec < 0
              \/ Field(rule.params, "minSweeps", 0) < 0
        \/ problem = "PASS" /\ DOMAIN rule.params \cap {"requirePinPulled", "minSweeps"} # {}
           /\ step.interaction # "operate_extinguisher"}

RuleProblems(file, rule) ==
    LET variantIds == IdsIn(file.variants)
        appliesIn == Field(rule, "variants", variantIds)
        known == rule.type \in RuleTypes
        complete == known /\ RequiredRuleParams(rule.type) \subseteq DOMAIN rule.params
        named == {s \in ToSet(file.steps) : known /\ s.id \in CheckedRefs(rule)}
    IN  {problem \in {"unknown rule type", "criticalOn", "unknown variant", "missing param",
                      "unknown step", "wrong interaction", "scope", "unknown tag",
                      "out of range"} :
            \/ problem = "unknown rule type" /\ ~known
            \/ problem = "out of range"
               /\ \/ rule.points < 0
                  \/ complete /\ \E k \in PositiveInRules \cap RequiredRuleParams(rule.type) :
                                    rule.params[k] < 1
            \/ problem = "criticalOn" /\ Has(rule, "criticalOn")
               /\ (rule.criticalOn # "forbidden" \/ ~rule.critical)
            \/ problem = "unknown variant" /\ ~(appliesIn \subseteq variantIds)
            \/ problem = "missing param" /\ known /\ ~complete
            \/ problem = "unknown step" /\ known /\ ~(CheckedRefs(rule) \subseteq IdsIn(file.steps))
            \/ problem = "wrong interaction"
               /\ \E s \in named : s.interaction \notin Scorable(rule.type)
            \/ problem = "scope" /\ \E s \in named : ~ScopeFits(rule, s, appliesIn)
            \/ problem = "unknown tag" /\ rule.type = "no_forbidden"
               /\ Field(rule.params, "tag", None) \notin ForbiddenTags(file.steps)}
        \cup UNION {CASE rule.type = "correct_choice" -> AnswerProblems(rule, s, appliesIn)
                      [] rule.type = "hold" /\ complete -> PassProblems(rule, s)
                      [] OTHER -> {} : s \in named}

TotalPoints == 100

Points(rules) == FoldLeft(LAMBDA sum, rule : sum + rule.points, 0, rules)

Problems(file) ==
    {problem \in {"threshold", "no variants", "duplicate variant", "no steps", "duplicate step",
                  "no rules", "duplicate rule", "points"} :
        \/ problem = "threshold" /\ file.threshold \notin 0..100
        \/ problem = "no variants" /\ file.variants = <<>>
        \/ problem = "duplicate variant" /\ HasDuplicates(file.variants)
        \/ problem = "no steps" /\ file.steps = <<>>
        \/ problem = "duplicate step" /\ HasDuplicates(file.steps)
        \/ problem = "no rules" /\ file.rules = <<>>
        \/ problem = "duplicate rule" /\ HasDuplicates(file.rules)
        \/ problem = "points" /\ Points(file.rules) # TotalPoints}
    \cup (UNION {StepProblems(file, i) : i \in DOMAIN file.steps})
    \cup UNION {RuleProblems(file, file.rules[k]) : k \in DOMAIN file.rules}
=============================================================================
