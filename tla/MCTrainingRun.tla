--------------------------- MODULE MCTrainingRun ---------------------------
(***************************************************************************)
(* Small scenario files: four cut from FIRE_01 and GAS_01 so that each     *)
(* kind of step, each type of rule and both uses of variants occur, one    *)
(* with a param that its rule does not use, and two that must not load.    *)
(***************************************************************************)
EXTENDS TrainingRun

Step(id, interaction, params) ==
    [id |-> id, interaction |-> interaction, params |-> params, refs |-> <<>>]

Narration(id) == Step(id, "narration", <<>>)
Place(id) == Step(id, "place_on_plane", [prefab |-> "Workshop"])
Ask(id, interaction, options) == Step(id, interaction, [options |-> options])

Option(id) == [id |-> id]
Forbidden(id, tag) == [id |-> id, forbidden |-> TRUE, tag |-> tag]

Rule(id, type, points, critical, params) ==
    [id |-> id, type |-> type, points |-> points, critical |-> critical, params |-> params]

Variant(id, params) == [id |-> id, params |-> params]
One == <<Variant("v1", <<>>)>>

File(variants, steps, rules) ==
    [threshold |-> 70, markers |-> {"EXIT_A", "HAZARD_A"},
     variants |-> variants, steps |-> steps, rules |-> rules]

MCPaths == [AttackSpot |-> 2]

\* FIRE_01 up to the extinguisher: alarm before the fire is approached, exit behind.
Approach ==
    File(One,
         << Narration("brief"),
            Step("place", "place_on_plane", [prefab |-> "Workshop", anchorMarker |-> "HAZARD_A"]),
            Step("alarm", "tap_target", [target |-> "CallPoint"]),
            Step("exit", "find_marker", [marker |-> "EXIT_A"]),
            Step("approach", "move_to",
                 [anchor |-> "AttackSpot", radiusM |-> 1, exitBehind |-> [marker |-> "EXIT_A"]]),
            Step("evacuate", "move_to", [anchor |-> "EXIT_A", radiusM |-> 1]) >>,
         << Rule("alarm_first", "order", 25, TRUE, [before |-> "alarm", after |-> "approach"]),
            Rule("alarm_fast", "time_limit", 10, FALSE, [step |-> "alarm", seconds |-> 5]),
            Rule("exit_found", "completed", 15, FALSE, [step |-> "exit"]),
            Rule("exit_behind", "completed", 25, FALSE, [step |-> "approach", where |-> "behind"]),
            Rule("evacuate", "time_limit", 25, FALSE, [step |-> "evacuate", seconds |-> 5]) >>)

\* FIRE_01 from the choice of the extinguisher: v2 is the oil fire.
Pick ==
    Ask("pick", "choose_one",
        <<Forbidden("water", "water_on_oil") @@ [forbiddenVariants |-> {"v2"}], Option("co2")>>)

Extinguish ==
    Step("extinguish", "operate_extinguisher",
         [agentFrom |-> "pick", targetZone |-> "base", offTargetZones |-> {"tops"},
          dischargeSec |-> 3])

SprayRules ==
    << Rule("right_one", "correct_choice", 40, TRUE,
            [step |-> "pick", correctIn |-> [v1 |-> {"water"}, v2 |-> {"co2"}]])
          @@ [criticalOn |-> "forbidden"],
       Rule("aim_base", "hold", 60, FALSE,
            [step |-> "extinguish", minOnTargetSec |-> 2, maxOffTargetRatio |-> 40,
             requirePinPulled |-> TRUE, minSweeps |-> 1]) >>

Two == <<Variant("v1", <<>>), Variant("v2", <<>>)>>

Spray == File(Two, <<Place("place"), Pick, Extinguish>>, SprayRules)

\* GAS_01: decisions back to back, one of them in the major variant (v2) only.
Confined ==
    File(<<Variant("v1", [cones |-> 2]), Variant("v2", [cones |-> 1])>>,
         << Ask("ppe", "choose_many",
                <<Option("helmet"), Option("radio"), Forbidden("lighter", "ignition")>>),
            Place("place"),
            [Step("zone", "mark_zone", [hazard |-> "Leak", trueRadiusM |-> 2])
                EXCEPT !.refs = [minCones |-> "cones"]],
            Ask("light", "decision", <<Forbidden("switch", "ignition"), Option("leave")>>),
            Ask("rescuer", "decision", <<Option("rescuer"), Option("none")>>)
                @@ [variants |-> {"v2"}],
            Ask("enter", "decision", <<Forbidden("enter", "enter_alone"), Option("retreat")>>) >>,
         << Rule("ppe", "correct_choice", 25, TRUE,
                 [step |-> "ppe", partial |-> TRUE, correct |-> {"helmet", "radio"}])
               @@ [criticalOn |-> "forbidden"],
            Rule("zone", "zone_accuracy", 15, FALSE, [step |-> "zone", toleranceM |-> 1]),
            Rule("no_ignition", "no_forbidden", 20, TRUE, [tag |-> "ignition"]),
            Rule("self_rescuer", "correct_choice", 15, TRUE,
                 [step |-> "rescuer", correct |-> {"rescuer"}]) @@ [variants |-> {"v2"}],
            Rule("retreat", "correct_choice", 25, TRUE,
                 [step |-> "enter", correct |-> {"retreat"}]) >>)

\* The interactions that no shipped scenario combines any more.
Hold ==
    File(One,
         << Place("place"),
            Ask("check", "checklist", <<Option("buddy"), Option("signal")>>),
            Step("aim", "aim_and_hold",
                 [targetZone |-> "base", offTargetZones |-> {"tops"}, durationSec |-> 3]) >>,
         << Rule("check", "correct_choice", 40, TRUE,
                 [step |-> "check", correct |-> {"buddy", "signal"}, after |-> "aim"]),
            Rule("aim", "hold", 60, FALSE,
                 [step |-> "aim", minOnTargetSec |-> 2, maxOffTargetRatio |-> 40]) >>)

\* A rule for a tag that names a step which the file does not have.
Strayed ==
    File(One,
         << Place("place"),
            Ask("gas", "decision", <<Forbidden("spark", "ignition"), Option("wait")>>) >>,
         << Rule("no_spark", "no_forbidden", 60, TRUE, [tag |-> "ignition", step |-> "nosuch"]),
            Rule("wait", "correct_choice", 40, FALSE, [step |-> "gas", correct |-> {"wait"}]) >>)

\* The extinguisher before it is chosen; a rule for a question that v1 does not ask.
Backwards == File(Two, <<Place("place"), Extinguish, Pick>>, SprayRules)

Unasked ==
    File(Two,
         <<Place("place"), Ask("check", "decision", <<Option("stop"), Option("go")>>) @@ [variants |-> {"v2"}]>>,
         <<Rule("check", "correct_choice", 100, TRUE, [step |-> "check", correct |-> {"stop"}])>>)

MCFiles ==
    [Approach |-> Approach, Spray |-> Spray, Confined |-> Confined, Hold |-> Hold,
     Strayed |-> Strayed, Backwards |-> Backwards, Unasked |-> Unasked]

Launch(file, kind, m) == [file |-> file, kind |-> kind, mode |-> m]

MCLaunches ==
    {Launch("Approach", "training", "ar"), Launch("Approach", "training", "tabletop"),
     Launch("Approach", "refresher", "ar"),
     Launch("Spray", "training", "ar"), Launch("Confined", "training", "tabletop"),
     Launch("Confined", "refresher", "tabletop"), Launch("Hold", "training", "tabletop"),
     Launch("Strayed", "training", "tabletop"), Launch("Strayed", "refresher", "ar"),
     Launch("Backwards", "training", "ar"), Launch("Unasked", "training", "ar")}

MCSprays == {<<"base", 6>>, <<"base", -6>>, <<"tops", 0>>, <<"none", 0>>}
=============================================================================
