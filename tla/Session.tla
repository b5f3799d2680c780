------------------------------ MODULE Session ------------------------------
(***************************************************************************)
(* ScenarioSession: one attempt at a scenario, as a value.  Every method of *)
(* the class is an operator from a session to the session it leaves behind, *)
(* so that a handler which calls several of them is their composition.      *)
(*                                                                         *)
(* A session plays one drill, named by its file and kind, in one variant.  *)
(* A step is named by its position, and position 0 stands for "no step".   *)
(*                                                                         *)
(* The clock is injected in the code and is a field here: t is in units of *)
(* the least time between two handlers.  The methods never move it.        *)
(***************************************************************************)
EXTENDS Drills

SingleSelect == {"choose_one", "decision"}

\* A skip says why, one of another variant's step does not, and no fire is put out by
\* a step that says nothing.
ASSUME NoneAssumption == None \notin {"no_progress", "extinguished"}

OptionIds(step) == IdsIn(step.options)

-----------------------------------------------------------------------------
(* A session between two calls *)

SessionFields ==
    {"file", "kind", "variant", "scenario", "t", "index", "done", "events", "held", "onTarget",
     "pinPulled", "discharging"}

\* As the constructor was given it.
ScenarioOf(s) == s.scenario

StepAt(s, i) == ScenarioOf(s).steps[i]

\* The index of current(), or 0 once the attempt is over.
Current(s) == IF s.done THEN 0 ELSE s.index

\* The step answered now is one of these interactions; require() throws if not.
In(s, kinds) == Current(s) # 0 /\ StepAt(s, s.index).interaction \in kinds

Entry(s, type, step, data) == [t |-> s.t, type |-> type, step |-> step, data |-> data]

Emit(s, type, data) == [s EXCEPT !.events = Append(@, Entry(s, type, Current(s), data))]

\* The first step after the current one that runs in this variant.
NextIndex(s) ==
    LET runs == {i \in DOMAIN ScenarioOf(s).steps :
                   i > s.index /\ StepAt(s, i).runs}
    IN  IF runs = {} THEN Len(ScenarioOf(s).steps) + 1 ELSE Min(runs)

\* advance(): the steps of other variants on the way are logged as skipped.
Advance(s) ==
    LET next == NextIndex(s)
        over == next > Len(ScenarioOf(s).steps)
        passedBy == [k \in 1..(next - s.index - 1) |->
                        Entry(s, "step_skipped", s.index + k, None)]
        started == IF over THEN <<>> ELSE <<Entry(s, "step_started", next, None)>>
    IN  [s EXCEPT !.index = next, !.done = over,
                  !.held = 0, !.onTarget = 0, !.pinPulled = FALSE, !.discharging = FALSE,
                  !.events = @ \o passedBy \o started]

\* The constructor and start().
Start(file, kind, variant) ==
    Advance([file |-> file, kind |-> kind, variant |-> variant,
             scenario |-> Scenario[file][kind][variant], t |-> 0, index |-> 0,
             done |-> FALSE, events |-> <<>>, held |-> 0, onTarget |-> 0,
             pinPulled |-> FALSE, discharging |-> FALSE])

Complete(s, data) == Advance(Emit(s, "step_completed", data))

\* One forbidden_action for each picked option this variant forbids, in option order.
EmitForbidden(s, picked) ==
    LET options == StepAt(s, s.index).options
        bad == InOrder(options, {k \in DOMAIN options : options[k].id \in picked /\ options[k].forbidden})
    IN  [s EXCEPT !.events =
           @ \o [k \in DOMAIN bad |-> Entry(s, "forbidden_action", s.index, bad[k].tag)]]

\* choose() and chooseMany() differ only in how many options they take.
Choose(s, picked) == Complete(EmitForbidden(Emit(s, "choice_made", picked), picked), None)

Arrive(s, data) == Complete(Emit(s, "position_reached", None), data)

\* Zones are "base" (the target), "tops" (off target) or "none"; aim is in degrees.
Sample(s, zone, aim) ==
    LET onTarget == s.onTarget + (IF zone = "base" THEN 1 ELSE 0)
    IN  Emit([s EXCEPT !.onTarget = onTarget], "hold_progress",
             [zone |-> zone, onTarget |-> onTarget, aim |-> aim])

\* aim_and_hold: the sample that fills durationSec completes the step.
HoldSample(s, zone) ==
    LET sampled == Sample([s EXCEPT !.held = @ + 1], zone, None)
    IN  IF sampled.held >= StepAt(s, s.index).duration
        THEN Complete(sampled, None)
        ELSE sampled

PullPin(s) ==
    IF s.pinPulled THEN s ELSE Emit([s EXCEPT !.pinPulled = TRUE], "pin_pulled", None)

\* Mutants: the lever is not locked; a skip leaves it pressed.
StartUnlocked(s) ==
    IF ~s.discharging
    THEN Emit([s EXCEPT !.discharging = TRUE], "discharge_started", None)
    ELSE s
SkipPressed(s) == Advance(Emit(s, "step_skipped", "no_progress"))

\* The lever is locked until the pin is out.
StartDischarge(s) ==
    IF s.pinPulled /\ ~s.discharging
    THEN Emit([s EXCEPT !.discharging = TRUE], "discharge_started", None)
    ELSE s

StopDischarge(s) ==
    IF s.discharging
    THEN Emit([s EXCEPT !.discharging = FALSE], "discharge_stopped", None)
    ELSE s

FinishExtinguisher(s, outcome) == Complete(StopDischarge(s), outcome)

Reposition(s) == Emit(s, "anchor_repositioned", None)

\* A worker's skip says why; a step of another variant is skipped without a reason.
Skip(s) == Advance(Emit(StopDischarge(s), "step_skipped", "no_progress"))

Abort(s) ==
    IF s.done THEN s
    ELSE [Emit(StopDischarge(s), "attempt_aborted", None) EXCEPT !.done = TRUE]
=============================================================================
