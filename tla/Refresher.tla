----------------------------- MODULE Refresher -----------------------------
(***************************************************************************)
(* When a worker is due a refresher drill (the app), and which attempts    *)
(* the dashboard's retention figures are made of (the backend), from the   *)
(* same attempts.  An attempt's dueDay is 0 for a training.                *)
(***************************************************************************)
EXTENDS Integers, FiniteSetsExt

CONSTANTS DueDays,  \* content/refresher.json
          Day       \* DAY_SECONDS

\* Ascending and unique, which a set is.
parseRefresherConfig(days) == days # {} /\ days \subseteq Nat \ {0}

isRefresher(a) == a.dueDay > 0

Trainings(scenario, attempts) ==
    {a \in attempts : a.scenarioId = scenario /\ a.passed /\ ~isRefresher(a)}

\* Mutant: the interval starts again with every pass.
LatestPass(scenario, attempts) == Max({a.startedAt : a \in Trainings(scenario, attempts)})

\* Of a module that was passed: its first passing training attempt, of any version.
refresherAnchor(scenario, attempts) == Min({a.startedAt : a \in Trainings(scenario, attempts)})

\* The latest stage that a passing refresher covered.
Covered(scenario, attempts) ==
    Max({0} \cup {a.dueDay : a \in {b \in attempts : b.scenarioId = scenario /\ b.passed}})

\* refresherStatus: the stages that are left, and of them the latest one due (0: none) ...
Open(scenario, attempts) == {d \in DueDays : d > Covered(scenario, attempts)}

IsDue(day, scenario, attempts, now) == refresherAnchor(scenario, attempts) + day * Day <= now

due(scenario, attempts, now) ==
    IF Trainings(scenario, attempts) = {} THEN 0
    ELSE Max({0} \cup {d \in Open(scenario, attempts) : IsDue(d, scenario, attempts, now)})

\* ... and the first one not yet due.
next(scenario, attempts, now) ==
    IF Trainings(scenario, attempts) = {} THEN 0
    ELSE LET left == {d \in Open(scenario, attempts) : ~IsDue(d, scenario, attempts, now)}
         IN  IF left = {} THEN 0 ELSE Min(left)

\* refresherNow: the demo clock of Settings moves due dates and nothing else.
refresherNow(now, offsetDays) == now + offsetDays * Day

-----------------------------------------------------------------------------
(* retention, for one worker and module *)

First(attempts) == CHOOSE a \in attempts : \A b \in attempts : a.startedAt <= b.startedAt

refresher_day(a) == IF a.dueDay > 0 THEN a.dueDay ELSE 0

\* The attempts that count for stage 0, or for a refresher stage.
StageAttempts(stage, scenario, attempts) ==
    {a \in attempts : a.scenarioId = scenario /\ refresher_day(a) = stage /\ (stage = 0 => a.passed)}
=============================================================================
