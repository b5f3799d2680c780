---------------------------- MODULE TrainingRun ----------------------------
(***************************************************************************)
(* The training screen: taps, scans, timers and narration audio that drive *)
(* a ScenarioSession, and the attempt that is stored when it is over.      *)
(*                                                                         *)
(* A handler changes the session at once but the screen only when React    *)
(* renders again, so between the two the worker still sees, and taps, the  *)
(* buttons of the step that was drawn last.  The handlers that guard       *)
(* against this compare the step they were drawn for with current().       *)
(*                                                                         *)
(* Time matters only to a step that has a time_limit rule: its handlers    *)
(* run in time or late.  The "Skip step" offer needs 30 s without progress, *)
(* which may have passed in any state.                                     *)
(***************************************************************************)
EXTENDS Recheck

CONSTANTS Launches,           \* [file, kind, mode] of the drills a worker may start
          Sprays,             \* <<zone, aim>> pairs the camera may be at
          WrongAgentSamples,  \* samples of useless spray before the step says so
          MaxRepositions,     \* bound: repositions in one attempt
          MaxPresses          \* bound: times the lever is pressed in one attempt

ASSUME LaunchAssumption ==
    \A l \in Launches : l.kind \in Kinds /\ l.mode \in {"ar", "tabletop"}

VARIABLES session,  \* the ScenarioSession
          screen,   \* the component's refs and state
          stored,   \* rows of attempts, each with its outbox row
          mode

vars == <<session, screen, stored, mode>>

NewScreen ==
    [step |-> 0,            \* the step that is drawn, 0 for none
     placed |-> FALSE,      \* placedAnchor # null
     exitKnown |-> FALSE,   \* the exit's direction was captured
     outcome |-> None,      \* of the simulated fire
     spent |-> 0,           \* discharge used, in samples
     waypoint |-> 0,        \* path marks reached
     cones |-> 0,
     repositioning |-> FALSE,
     saved |-> FALSE]

\* pickVariant: any variant, for some seed.
Init ==
    /\ \E launch \in {l \in Launches : l.file \in Loaded} :
          /\ \E variant \in DOMAIN Scenario[launch.file][launch.kind] :
                session = Start(launch.file, launch.kind, variant)
          /\ mode = launch.mode
    /\ screen = NewScreen
    /\ stored = <<>>

-----------------------------------------------------------------------------
Steps == ScenarioOf(session).steps

\* The step whose buttons are on the screen, and the one a call would answer.
Drawn(kinds) == screen.step # 0 /\ Steps[screen.step].interaction \in kinds
Answers(kinds) == In(session, kinds)

\* Mutants: a handler answers whatever step is current; every render
\* stores; a new step keeps the marks of the last one.
AnyDrawn == screen.step # 0 /\ Current(session) # 0
DoneAtRender == session.done
KeepMarks(i) == [screen EXCEPT !.step = i]

\* session.current()?.index === index
DrawnIsCurrent == screen.step # 0 /\ Current(session) = screen.step

Timed(step) == {r \in ScenarioOf(session).rules : r.type = "time_limit" /\ r.step = step}

Delays == {1} \cup {r.seconds + 1 : r \in Timed(session.index)}

\* The session as the next handler finds it, and as it leaves it; a call that logs
\* nothing changes nothing.
Call(delay) == [session EXCEPT !.t = @ + delay]
Becomes(next) == session' = IF next.events = session.events THEN session ELSE next

\* For the bounds.
Logged(type) == Cardinality({k \in DOMAIN session.events : session.events[k].type = type})

UIUnchanged == UNCHANGED <<screen, stored, mode>>
Kept == UNCHANGED <<stored, mode>>

-----------------------------------------------------------------------------
(* narration and placement *)

\* The Continue button of a narration step calls complete() without looking.
PressContinue ==
    /\ Drawn({"narration"})
    /\ Current(session) # 0
    /\ Becomes(Complete(Call(1), None))
    /\ UIUnchanged

\* The audio callback of a drawn narration step; it never runs when muted.
AudioEnds ==
    /\ Drawn({"narration"})
    /\ DrawnIsCurrent
    /\ Becomes(Complete(Call(1), None))
    /\ UIUnchanged

PlaceOverlay ==
    /\ Answers({"place_on_plane"})
    /\ Becomes(Complete(Call(1), "direction"))
    /\ screen' = [screen EXCEPT !.placed = TRUE]
    /\ Kept

TapPlane == Drawn({"place_on_plane"}) /\ PlaceOverlay

\* The camera scans whatever is drawn.
SeeAnchorMarker ==
    /\ mode = "ar"
    /\ Answers({"place_on_plane"})
    /\ Steps[session.index].anchorMarker
    /\ ~screen.repositioning
    /\ PlaceOverlay

\* The Reposition chip: releases the lever, then the next tap on the view places.
ToggleReposition ==
    /\ screen.step # 0 /\ ~Drawn({"place_on_plane"})
    /\ screen.placed
    /\ Logged("anchor_repositioned") < MaxRepositions
    /\ Becomes(StopDischarge(Call(1)))
    /\ screen' = [screen EXCEPT !.repositioning = ~@]
    /\ Kept

TapNewPlace ==
    /\ screen.repositioning
    /\ Current(session) # 0
    /\ Becomes(Reposition(Call(1)))
    /\ screen' = [screen EXCEPT !.repositioning = FALSE]
    /\ Kept

-----------------------------------------------------------------------------
(* targets, markers and paths: drawn from the placed overlay *)

OverlayTappable == screen.placed /\ ~screen.repositioning

TapTarget(delay) ==
    /\ Drawn({"tap_target"})
    /\ Answers({"tap_target"})
    /\ OverlayTappable
    /\ Becomes(Complete(Emit(Call(delay), "target_hit", None), None))
    /\ UIUnchanged

WantsMarker(i) == i # 0 /\ Steps[i].interaction \in {"find_marker", "move_to"} /\ Steps[i].byMarker

HasAnchorMarker == \E i \in DOMAIN Steps : Steps[i].anchorMarker

MarkerReached(delay) ==
    /\ WantsMarker(Current(session))
    /\ IF Answers({"find_marker"})
       THEN /\ Becomes(Complete(Emit(Call(delay), "marker_found", None), None))
            /\ screen' = [screen EXCEPT !.exitKnown = TRUE]
       ELSE /\ Becomes(Arrive(Call(delay), None))
            /\ UNCHANGED screen
    /\ Kept

ScanMarker(delay) ==
    /\ mode = "ar"
    /\ WantsMarker(screen.step) \/ HasAnchorMarker
    /\ MarkerReached(delay)

TapExitSign(delay) ==
    /\ mode = "tabletop"
    /\ WantsMarker(screen.step)
    /\ OverlayTappable
    /\ MarkerReached(delay)

ExitBearing == screen.exitKnown \/ (mode = "tabletop" /\ screen.placed)

\* position_reached data of the last mark: is the exit behind the worker?
BehindData(step) ==
    CASE ~step.exitBehind -> {None}
      [] step.exitBehind /\ ExitBearing -> {"behind", "in_view"}
      [] OTHER -> {"in_view"}

\* Any mark not yet reached may be tapped; the last one is arrival.
TapWaypoint(mark, delay) ==
    /\ Drawn({"move_to"})
    /\ DrawnIsCurrent
    /\ OverlayTappable
    /\ mark \in screen.waypoint + 1 .. Steps[screen.step].path
    /\ IF mark < Steps[screen.step].path
       THEN /\ screen' = [screen EXCEPT !.waypoint = mark]
            /\ UNCHANGED session
       ELSE /\ \E data \in BehindData(Steps[screen.step]) :
                  Becomes(Arrive(Call(delay), data))
            /\ UNCHANGED screen
    /\ Kept

-----------------------------------------------------------------------------
(* choices, zones and holding *)

PressOption(option) ==
    /\ Drawn(SingleSelect)
    /\ DrawnIsCurrent
    /\ option \in OptionIds(Steps[screen.step])
    /\ Becomes(Choose(Call(1), {option}))
    /\ UIUnchanged

\* Done below the check boxes: any selection, the empty one included.
PressDone(picked) ==
    /\ Drawn(MultiSelect)
    /\ DrawnIsCurrent
    /\ picked \subseteq OptionIds(Steps[screen.step])
    /\ Becomes(Choose(Call(1), picked))
    /\ UIUnchanged

\* Bound: no more cones than minCones, of which only "enough or not" is ever asked.
TapCone ==
    /\ Drawn({"mark_zone"})
    /\ Answers({"mark_zone"})
    /\ OverlayTappable
    /\ screen.cones < Steps[screen.step].minCones
    /\ screen' = [screen EXCEPT !.cones = @ + 1]
    /\ UNCHANGED session
    /\ Kept

RemoveCone ==
    /\ screen.cones > 0
    /\ OverlayTappable
    /\ screen' = [screen EXCEPT !.cones = @ - 1]
    /\ UNCHANGED session
    /\ Kept

\* The mean distance of the cones is off by at most 1, at most 2 or more tolerances.
FinishZone(error) ==
    /\ Drawn({"mark_zone"})
    /\ Answers({"mark_zone"})
    /\ screen.cones >= Steps[session.index].minCones
    /\ Becomes(Complete(Emit(Call(1), "zone_marked", error), None))
    /\ UIUnchanged

SampleHold(zone) ==
    /\ Drawn({"aim_and_hold"})
    /\ Answers({"aim_and_hold"})
    /\ zone # "none" => screen.placed
    /\ Becomes(HoldSample(Call(1), zone))
    /\ UIUnchanged

-----------------------------------------------------------------------------
(* operate_extinguisher *)

\* False only if the extinguisher that was chosen is forbidden in this variant.
AgentEffective ==
    LET from == Steps[session.index].agentFrom
        chosen == UNION {session.events[k].data : k \in {j \in DOMAIN session.events :
                     session.events[j].type = "choice_made" /\ session.events[j].step = from}}
    IN  \A k \in DOMAIN Steps[from].options :
           Steps[from].options[k].id \in chosen =>
              ~Steps[from].options[k].forbidden

\* What one more sample of spray may bring; the simulation itself is not modelled.
Outcomes(zone, spent) ==
    LET goOn == IF spent >= Steps[session.index].capacity THEN {"empty"} ELSE {None}
    IN  CASE ~AgentEffective /\ spent >= WrongAgentSamples -> {"wrong_agent"}
          [] AgentEffective /\ zone = "base" -> {"extinguished"} \cup goOn
          [] OTHER -> {"out_of_control"} \cup goOn

PullPinOut ==
    /\ Drawn({"operate_extinguisher"})
    /\ Answers({"operate_extinguisher"})
    /\ Becomes(PullPin(Call(1)))
    /\ UIUnchanged

SqueezeIn ==
    /\ Drawn({"operate_extinguisher"})
    /\ Answers({"operate_extinguisher"})
    /\ screen.outcome = None
    /\ Logged("discharge_started") < MaxPresses
    /\ Becomes(StartDischarge(Call(1)))
    /\ UIUnchanged

SqueezeOut ==
    /\ Drawn({"operate_extinguisher"})
    /\ session.discharging
    /\ Becomes(StopDischarge(Call(1)))
    /\ UIUnchanged

\* Every 0.25 s: record the sample, step the fire, release the lever at an outcome.
SpraySample(zone, aim) ==
    /\ Drawn({"operate_extinguisher"})
    /\ DrawnIsCurrent
    /\ session.discharging
    /\ screen.outcome = None
    /\ zone # "none" => screen.placed
    /\ LET sampled == Sample(Call(1), zone, aim)
           spent == screen.spent + 1
       IN  \E outcome \in Outcomes(zone, spent) :
              /\ screen' = [screen EXCEPT !.spent = spent, !.outcome = outcome]
              /\ Becomes(IF outcome = None THEN sampled ELSE StopDischarge(sampled))
    /\ Kept

\* The same timer with the lever up: the fire only grows.
FireGrows ==
    /\ Drawn({"operate_extinguisher"})
    /\ DrawnIsCurrent
    /\ ~session.discharging
    /\ screen.outcome = None
    /\ screen' = [screen EXCEPT !.outcome = "out_of_control"]
    /\ UNCHANGED session
    /\ Kept

PressOutcome ==
    /\ Drawn({"operate_extinguisher"})
    /\ DrawnIsCurrent
    /\ screen.outcome # None
    /\ Becomes(FinishExtinguisher(Call(1), screen.outcome))
    /\ UIUnchanged

-----------------------------------------------------------------------------
(* any step *)

\* Mutant: a placement cannot be skipped.
OfferedOncePlaced == DrawnIsCurrent /\ screen.placed

\* canSkip, after 30 s without progress, and onSkip's check of the step it was drawn for.
SkipOffered == DrawnIsCurrent

\* A skipped placement puts the overlay where the camera points.
PressSkip ==
    /\ SkipOffered
    /\ Becomes(Skip(Call(1)))
    /\ screen' = [screen EXCEPT !.placed = @ \/ Drawn({"place_on_plane"})]
    /\ Kept

PressStop ==
    /\ screen.step # 0
    /\ Becomes(Abort(Call(1)))
    /\ UIUnchanged

\* The refs and state that the effect of a new step resets; placement and the exit's
\* direction last for the attempt.
Fresh(i) == [NewScreen EXCEPT !.step = i, !.placed = screen.placed,
                              !.exitKnown = screen.exitKnown]

\* Finished, and not stored by an earlier render.
MustStore == session.done /\ ~screen.saved

\* A render draws the current step; its effects reset what belongs to a new step
\* and store the attempt once it is over.
Render ==
    LET drawn == Current(session)
        shown == IF drawn \in {0, screen.step}
                 THEN [screen EXCEPT !.step = drawn]
                 ELSE Fresh(drawn)
        row == [result |-> Evaluate(ScenarioOf(session), session.variant, session.events),
                events |-> session.events]
    IN  /\ screen' = [shown EXCEPT !.saved = session.done]
        /\ stored' = IF MustStore THEN Append(stored, row) ELSE stored
        /\ UNCHANGED <<session, mode>>

Next ==
    \/ PressContinue \/ AudioEnds \/ TapPlane \/ SeeAnchorMarker
    \/ ToggleReposition \/ TapNewPlace
    \/ \E delay \in Delays :
          \/ TapTarget(delay) \/ ScanMarker(delay) \/ TapExitSign(delay)
          \/ \E i \in DOMAIN Steps : \E mark \in 1..Steps[i].path : TapWaypoint(mark, delay)
    \/ \E i \in DOMAIN Steps :
          \/ \E option \in OptionIds(Steps[i]) : PressOption(option)
          \/ \E picked \in SUBSET OptionIds(Steps[i]) : PressDone(picked)
    \/ TapCone \/ RemoveCone \/ \E error \in 1..3 : FinishZone(error)
    \/ \E spray \in Sprays : SampleHold(spray[1]) \/ SpraySample(spray[1], spray[2])
    \/ PullPinOut \/ SqueezeIn \/ SqueezeOut \/ FireGrows \/ PressOutcome
    \/ PressSkip \/ PressStop \/ Render

Spec == Init /\ [][Next]_vars

\* What enables a render that shows something.
RenderDue == Current(session) # screen.step \/ screen.saved # session.done

\* React renders after every refresh(), and the worker takes a skip that stays on offer.
\* This is WF_vars(Render) /\ WF_vars(PressSkip), with what enables them written out,
\* which TLC evaluates many times faster than ENABLED.
FairSpec ==
    /\ Spec
    /\ []<>~RenderDue \/ []<><<Render>>_vars
    /\ []<>~SkipOffered \/ []<><<PressSkip>>_vars

-----------------------------------------------------------------------------
(* Properties *)

Log == session.events

\* What belongs to the step that is drawn.
IsScreen(steps, x) ==
    /\ DOMAIN x = DOMAIN NewScreen
    /\ x.step \in 0..Len(steps)
    /\ x.outcome \in {None, "extinguished", "wrong_agent", "empty", "out_of_control"}
    /\ x.step # 0 => x.waypoint \in 0..steps[x.step].path /\ x.cones \in 0..steps[x.step].minCones
    /\ {x.placed, x.exitKnown, x.repositioning, x.saved} \subseteq BOOLEAN

\* The session is at a step of its scenario or past the last one; what belongs to the
\* step that is drawn, marks reached and cones laid, stays within what that step has.
TypeOK ==
    /\ session.index \in 1..Len(Steps) + 1
    /\ ~session.done => session.index \in DOMAIN Steps
    /\ IsScreen(Steps, screen)
    /\ \A k \in DOMAIN stored : DOMAIN stored[k] = {"result", "events"}
    /\ mode \in {"ar", "tabletop"}

Ends == {"step_completed", "step_skipped"}

\* What was logged of some types in a step, and of that what came before an entry.
Of(log, step, types) == {j \in DOMAIN log : log[j].step = step /\ log[j].type \in types}

Before(log, k, types) == {j \in Of(log, log[k].step, types) : j < k}

Balanced(presses, releases) == Cardinality(presses) = Cardinality(releases)

Released(log, k) ==
    Balanced(Before(log, k, {"discharge_started"}), Before(log, k, {"discharge_stopped"}))

FitsRun(steps, log, k) ==
    /\ k > 1 => log[k - 1].t <= log[k].t /\ log[k - 1].step <= log[k].step
    /\ Before(log, k, Ends) = {}
    /\ \/ log[k].type = "step_started"
       \/ log[k].type = "step_skipped" /\ log[k].data = None
       \/ Cardinality(Before(log, k, {"step_started"})) = 1
    /\ log[k].type \in Ends \cup {"attempt_aborted"} => Released(log, k)
    /\ log[k].type = "hold_progress" =>
         (Released(log, k) <=> steps[log[k].step].interaction = "aim_and_hold")

\* Whatever was tapped in whatever order, the log reads as a run of the scenario: time
\* and steps never go back, everything that happens in a step happens between its
\* start and its only end, no step ends or is stopped with the lever pressed, and
\* nothing is sprayed with the lever up.
LogIsARun == \A k \in DOMAIN Log : FitsRun(Steps, Log, k)

\* A session as every call leaves it: the log fits, its entries are of steps up to the
\* one that is answered, and that one runs, has begun and has not ended, with the lever as
\* the log says.
IsSession(s) ==
    LET steps == ScenarioOf(s).steps
        log == s.events
        Now(types) == Of(log, s.index, types)
    IN  /\ DOMAIN s = SessionFields
        /\ Len(log) \in Nat /\ log = [k \in 1..Len(log) |-> log[k]]
        /\ s.t \in Nat /\ s.index \in 1..Len(steps) + 1 /\ {s.done, s.discharging} \subseteq BOOLEAN
        /\ \A k \in DOMAIN log :
              /\ FitsRun(steps, log, k)
              /\ log[k].t \in 0..s.t /\ log[k].step \in DOMAIN steps /\ log[k].step <= s.index
              /\ log[k].type = "step_skipped" /\ log[k].data # None => steps[log[k].step].runs
        /\ s.done => ~s.discharging
        /\ ~s.done =>
              /\ s.index \in DOMAIN steps /\ steps[s.index].runs
              /\ Now(Ends) = {} /\ Cardinality(Now({"step_started"})) = 1
              /\ Balanced(Now({"discharge_started"}), Now({"discharge_stopped"})) <=> ~s.discharging
              /\ s.discharging =>
                    /\ Cardinality(Now({"discharge_started"})) = Cardinality(Now({"discharge_stopped"})) + 1
                    /\ steps[s.index].interaction = "operate_extinguisher"

\* The scenario is the one that was launched; the lever is down only below an extinguisher
\* that is drawn; the attempt is stored by the render that finds it over, as it then is.
IInv ==
    /\ session.file \in Loaded /\ session.kind \in Kinds
    /\ session.variant \in DOMAIN Scenario[session.file][session.kind]
    /\ ScenarioOf(session) = Scenario[session.file][session.kind][session.variant]
    /\ IsSession(session) /\ IsScreen(Steps, screen) /\ mode \in {"ar", "tabletop"}
    /\ session.discharging => Drawn({"operate_extinguisher"})
    /\ screen.saved => session.done
    /\ IF screen.saved
       THEN stored = <<[result |-> Evaluate(ScenarioOf(session), session.variant, Log), events |-> Log]>>
       ELSE stored = <<>>

\* A choice or a skip is recorded only for the step whose buttons the worker saw, even
\* if the step changed under the finger.
AnswersTheStepDrawn ==
    [][\A k \in DOMAIN Log' \ DOMAIN Log :
          LET e == Log'[k]
          IN  e.type = "choice_made" \/ (e.type = "step_skipped" /\ e.data # None)
              => e.step = screen.step]_vars

\* A step ends with the fire put out only if the pin was pulled, the base was sprayed
\* while the lever was down, and the extinguisher that was chosen suits the fire.
ExtinguishedForReal ==
    \A k \in DOMAIN Log :
       Log[k].type = "step_completed" /\ Log[k].data = "extinguished" =>
         /\ Before(Log, k, {"pin_pulled"}) # {}
         /\ \E j \in Before(Log, k, {"hold_progress"}) : Log[j].data.zone = "base"
         /\ \A j \in DOMAIN Log :
               ~(/\ Log[j].type = "forbidden_action"
                 /\ Log[j].step = Steps[Log[k].step].agentFrom)

Abstract == INSTANCE Attempt WITH
    log <- session.events, at <- session.index, over <- session.done,
    kept <- [k \in DOMAIN stored |-> stored[k].events]

\* Whatever timers, callbacks, scans and taps do in whatever order, the attempt is what
\* its readers take it for: a log that only grows and moves through the steps, closed
\* once, and stored once with everything it was scored from.
IsAnAttempt == Abstract!Spec

\* A stored pass stands on the log: nothing was stopped, no critical step was skipped,
\* and no forbidden act was committed in a critical rule's step or under its tag.  Only a
\* rule for a tag that fails on forbidden acts in its step has no step, and never fails.
PassedMeansSafe ==
    \A k \in DOMAIN stored : stored[k].result.passed =>
       LET log == stored[k].events
           acts == {j \in DOMAIN log : log[j].type = "forbidden_action"}
           refused == {log[j].step : j \in {i \in DOMAIN log :
                          log[i].type = "step_skipped" /\ log[i].data = "no_progress"}}
       IN  /\ \A j \in DOMAIN log : log[j].type # "attempt_aborted"
           /\ \A rule \in Scored(ScenarioOf(session), session.variant) : rule.critical =>
                 /\ {rule.step, rule.before, rule.after} \cap refused = {}
                 /\ \A j \in acts :
                       /\ log[j].step # rule.step
                       /\ rule.type = "no_forbidden" /\ ~rule.onForbiddenOnly => log[j].data # rule.tag
                 /\ rule.type = "no_forbidden" =>
                       \A i \in refused : ~OffersTag(Steps[i], rule.tag)

\* An exit that a step measures against is scanned if the file has it scanned.
ExitsAreScanned ==
    \A name \in Loaded, kind \in Kinds :
       LET steps == FileOf(name, kind).steps
           Scanned(list, marker) ==
              \E s \in ToSet(list) :
                 s.interaction = "find_marker" /\ Field(s.params, "marker", None) = marker
       IN  \A s \in ToSet(steps) :
              /\ Has(s.params, "exitBehind")
              /\ Scanned(Files[name].steps, s.params.exitBehind.marker)
              => Scanned(steps, s.params.exitBehind.marker)

\* The steps that a rule of this type scores, whatever else its params name.
ScoredSteps(rule) ==
    CASE rule.type = "order" -> {rule.before, rule.after}
      [] rule.type = "no_forbidden" -> {}
      [] OTHER -> {rule.step}

\* A file that loads can be played and scored as it says, in every variant, in full and
\* as a refresher: what is scored is there, runs and can be answered right, the
\* extinguisher was chosen before it is used, an exit to measure against is scanned if the
\* file has it scanned, and the refresher scores every critical rule.
LoadedIsPlayable ==
    LET script == ScenarioOf(session)
        full == Scenario[session.file].training[session.variant]
        Critical(scenario) == {r.id : r \in {q \in scenario.rules : q.critical}}
    IN  /\ \A rule \in Scored(script, session.variant) :
             /\ \A i \in ScoredSteps(rule) : i \in DOMAIN Steps /\ Steps[i].runs
             /\ rule.type = "correct_choice" =>
                   rule.correct # {} /\ rule.correct \subseteq OptionIds(Steps[rule.step])
             /\ rule.type = "no_forbidden" => \E i \in DOMAIN Steps : OffersTag(Steps[i], rule.tag)
        /\ \A i \in DOMAIN Steps :
             Steps[i].interaction = "operate_extinguisher" => Steps[i].agentFrom \in 1..i - 1
        /\ ExitsAreScanned
        /\ Critical(script) = Critical(full)

\* The app and the server read the rules of a file alike unless one has an empty list of
\* variants (the app scores it in none, the server in all) or, for a refresher, names a step
\* that the file does not have in a param that its type does not use (the app keeps such a
\* name with the steps, the server drops it).  Both load.
ReadAlike(file, kind) ==
    \A rule \in ToSet(file.rules) :
       /\ Has(rule, "variants") => rule.variants # {}
       /\ kind = "refresher" => StepRefs(rule) \subseteq IdsIn(file.steps)

\* The server, which never sees an event, comes to the app's verdict and finds
\* nothing to flag in an attempt that the app scored, of a file that they read alike.
ServerAgrees ==
    ReadAlike(Files[session.file], session.kind) =>
    \A k \in DOMAIN stored :
       LET app == stored[k].result
           server == RecheckAttempt(Rechecked[session.file][session.kind], session.variant,
                                   app, stored[k].events)
       IN  server = [score |-> app.score, passed |-> app.passed,
                     criticalFailures |-> app.criticalFailures, reasons |-> {}]

\* (As a tuple, which TLC works out once.)
WithoutRepositions(log) ==
    <<>> \o InOrder(log, {k \in DOMAIN log : log[k].type # "anchor_repositioned"})

\* Moving a drifted overlay is neutral: the result is the one of the log without it.
RepositionIsNeutral ==
    \A k \in DOMAIN stored :
       stored[k].result =
          Evaluate(ScenarioOf(session), session.variant, WithoutRepositions(stored[k].events))

\* D-033: steps can always be finished or skipped, so a drill is never stuck, and one
\* that is over is stored.
EveryDrillIsStored == <>(stored # <<>>)

\* D-033: later steps need the overlay, so no step after the placement is reached
\* without one.  A tap on Continue that comes after the audio has ended reaches it.
PlacedForLaterSteps ==
    \A i \in DOMAIN Steps :
       Steps[i].interaction = "place_on_plane" /\ i < session.index => screen.placed
=============================================================================
