-------------------------- MODULE TrainingRunProofs --------------------------
(***************************************************************************)
(* A drill, for any scenario files, launches and paths: its log, and what  *)
(* is stored of it.                                                        *)
(***************************************************************************)
EXTENDS TrainingRun, FiniteSetTheorems, SequenceTheorems, WellFoundedInduction, TLAPS

-----------------------------------------------------------------------------
(* Numbers and lists *)

\* A set of natural numbers that is not empty has a least one.
LEMMA LeastNumber ==
    ASSUME NEW S \in SUBSET Nat, S # {}
    PROVE  \E m \in S : \A y \in S : m <= y
<1>1. PICK R : R = OpToRel(<, Nat)
  OBVIOUS
<1>2. \A x, y \in Nat : <<x, y>> \in R <=> x < y
  BY <1>1 DEF OpToRel
<1>3. IsWellFoundedOn(R, Nat)
  BY <1>1, NatLessThanWellFounded
<1>4. PICK m \in S : \A y \in S : ~(<<y, m>> \in R)
  BY <1>3, WFMin
<1>5. ASSUME NEW y \in S PROVE m <= y
  <2>1. m \in Nat /\ y \in Nat /\ ~(<<y, m>> \in R)
    BY <1>4
  <2>2. ~(y < m)
    BY <1>2, <2>1
  <2>3. QED BY <2>1, <2>2
<1>6. QED BY <1>5

IsList(list) == Len(list) \in Nat /\ list = [k \in 1..Len(list) |-> list[k]]

\* A function on 1..n is a list.
LEMMA FunctionIsList ==
    ASSUME NEW n \in Nat, NEW f, f = [k \in 1..n |-> f[k]]
    PROVE  IsList(f) /\ Len(f) = n /\ DOMAIN f = 1..n
<1>1. PICK S : S = {f[k] : k \in 1..n}
  OBVIOUS
<1>2. f \in [1..n -> S]
  BY <1>1
<1>3. f \in Seq(S) /\ Len(f) = n
  BY <1>2
<1>4. QED BY <1>3 DEF IsList

\* A list is a sequence of its members.
LEMMA ListIsSeq ==
    ASSUME NEW list, IsList(list)
    PROVE  DOMAIN list = 1..Len(list) /\ \E S : list \in Seq(S)
<1>1. PICK S : S = {list[k] : k \in 1..Len(list)}
  OBVIOUS
<1>2. PICK n \in Nat : n = Len(list)
  BY DEF IsList
<1>3. list = [k \in 1..n |-> list[k]]
  BY <1>2 DEF IsList
<1>4. list \in [1..n -> S]
  BY <1>1, <1>2, <1>3
<1>5. list \in Seq(S) /\ DOMAIN list = 1..n
  BY <1>4
<1>6. QED BY <1>2, <1>5

\* Two lists, one after the other.
LEMMA ListConcat ==
    ASSUME NEW list, IsList(list), NEW tail, IsList(tail)
    PROVE  /\ IsList(list \o tail)
           /\ Len(list \o tail) = Len(list) + Len(tail)
           /\ DOMAIN (list \o tail) = 1..Len(list) + Len(tail)
           /\ \A k \in 1..Len(list) : (list \o tail)[k] = list[k]
           /\ \A k \in 1..Len(tail) : (list \o tail)[Len(list) + k] = tail[k]
           /\ \A k \in Len(list) + 1..Len(list) + Len(tail) : (list \o tail)[k] = tail[k - Len(list)]
<1>1. PICK S : list \in Seq(S)
  BY ListIsSeq
<1>2. PICK T : tail \in Seq(T)
  BY ListIsSeq
<1>3. PICK U : U = S \cup T
  OBVIOUS
<1>4. list \in Seq(U) /\ tail \in Seq(U)
  BY <1>1, <1>2, <1>3
<1>5. PICK both : both = list \o tail
  OBVIOUS
<1>6. /\ both \in Seq(U) /\ Len(both) = Len(list) + Len(tail)
      /\ \A k \in 1..Len(list) + Len(tail) :
            both[k] = IF k <= Len(list) THEN list[k] ELSE tail[k - Len(list)]
  BY <1>4, <1>5, ConcatProperties
<1>7. PICK m \in Nat, n \in Nat : m = Len(list) /\ n = Len(tail)
  BY DEF IsList
<1>8. DOMAIN both = 1..m + n /\ both = [k \in 1..m + n |-> both[k]]
  BY <1>6, <1>7
<1>9. /\ \A k \in 1..m : both[k] = list[k]
      /\ \A k \in m + 1..m + n : both[k] = tail[k - m]
  BY <1>6, <1>7
<1>10. \A k \in 1..n : both[m + k] = tail[k]
  <2>1. ASSUME NEW k \in 1..n PROVE both[m + k] = tail[k]
    <3>1. m + k \in m + 1..m + n /\ (m + k) - m = k
      BY <1>7
    <3>2. QED BY <1>9, <3>1
  <2>2. QED BY <2>1
<1>11. QED BY <1>5, <1>6, <1>7, <1>8, <1>9, <1>10 DEF IsList

\* One more entry.
LEMMA ListAppend ==
    ASSUME NEW list, IsList(list), NEW entry
    PROVE  Append(list, entry) = list \o <<entry>> /\ IsList(<<entry>>) /\ Len(<<entry>>) = 1 /\ <<entry>>[1] = entry
<1>1. PICK S : list \in Seq(S)
  BY ListIsSeq
<1>2. PICK U : U = S \cup {entry}
  OBVIOUS
<1>3. list \in Seq(U) /\ entry \in U
  BY <1>1, <1>2
<1>4. Append(list, entry) = list \o <<entry>>
  BY <1>3, AppendIsConcat
<1>5. IsList(<<entry>>)
  BY DEF IsList
<1>6. QED BY <1>4, <1>5

-----------------------------------------------------------------------------
(* A log that grows *)

\* What a log says of an entry does not depend on what is written after it.
LEMMA LaterEntries ==
    ASSUME NEW steps, NEW log, IsList(log), NEW tail, IsList(tail), NEW k \in DOMAIN log
    PROVE  /\ k \in DOMAIN (log \o tail) /\ (log \o tail)[k] = log[k]
           /\ FitsRun(steps, log \o tail, k) <=> FitsRun(steps, log, k)
<1>1. PICK both : both = log \o tail
  OBVIOUS
<1>2. PICK m \in Nat, n \in Nat : m = Len(log) /\ n = Len(tail)
  BY DEF IsList
<1>3. /\ DOMAIN log = 1..m /\ DOMAIN both = 1..m + n
      /\ \A j \in 1..m : both[j] = log[j]
  BY <1>1, <1>2, ListConcat, ListIsSeq
<1>4. k \in 1..m /\ both[k] = log[k] /\ (k > 1 => k - 1 \in 1..m /\ both[k - 1] = log[k - 1])
  BY <1>2, <1>3
<1>5. ASSUME NEW types PROVE Before(both, k, types) = Before(log, k, types)
  <2>1. ASSUME NEW j PROVE j \in Before(both, k, types) <=> j \in Before(log, k, types)
    <3>1. j \in Before(both, k, types) <=>
            j \in 1..m + n /\ both[j].step = log[k].step /\ both[j].type \in types /\ j < k
      BY <1>3, <1>4 DEF Before, Of
    <3>2. j \in Before(log, k, types) <=>
            j \in 1..m /\ log[j].step = log[k].step /\ log[j].type \in types /\ j < k
      BY <1>3, <1>4 DEF Before, Of
    <3>3. j \in 1..m + n /\ j < k => j \in 1..m
      BY <1>2, <1>4
    <3>4. j \in 1..m => j \in 1..m + n
      BY <1>2
    <3>5. QED BY <1>3, <3>1, <3>2, <3>3, <3>4
  <2>2. QED BY <2>1
<1>6. Released(both, k) <=> Released(log, k)
  BY <1>5 DEF Released
<1>7. FitsRun(steps, both, k) <=> FitsRun(steps, log, k)
  BY <1>4, <1>5, <1>6 DEF FitsRun
<1>8. QED BY <1>1, <1>2, <1>3, <1>4, <1>7

\* Nothing of some types is written of a step.
Lacks(tail, step, types) == \A k \in DOMAIN tail : ~(tail[k].step = step /\ tail[k].type \in types)

LEMMA OfGrown ==
    ASSUME NEW log, IsList(log), NEW tail, IsList(tail), NEW step, NEW types,
           Lacks(tail, step, types)
    PROVE  /\ Of(log \o tail, step, types) = Of(log, step, types)
           /\ \A k \in Len(log) + 1..Len(log) + Len(tail) :
                 (log \o tail)[k].step = step => Before(log \o tail, k, types) = Of(log, step, types)
<1>1. PICK both : both = log \o tail
  OBVIOUS
<1>2. PICK m \in Nat, n \in Nat : m = Len(log) /\ n = Len(tail)
  BY DEF IsList
<1>3. /\ DOMAIN log = 1..m /\ DOMAIN tail = 1..n /\ DOMAIN both = 1..m + n
      /\ \A j \in 1..m : both[j] = log[j]
      /\ \A j \in m + 1..m + n : both[j] = tail[j - m]
  BY <1>1, <1>2, ListConcat, ListIsSeq
<1>4. ASSUME NEW j \in m + 1..m + n PROVE ~(both[j].step = step /\ both[j].type \in types)
  <2>1. j - m \in 1..n
    BY <1>2
  <2>2. QED BY <1>3, <2>1 DEF Lacks
<1>5. ASSUME NEW j PROVE j \in Of(both, step, types) <=> j \in Of(log, step, types)
  <2>1. j \in 1..m + n <=> j \in 1..m \/ j \in m + 1..m + n
    BY <1>2
  <2>2. j \in Of(both, step, types) <=> j \in 1..m + n /\ both[j].step = step /\ both[j].type \in types
    BY <1>3 DEF Of
  <2>3. j \in Of(log, step, types) <=> j \in 1..m /\ log[j].step = step /\ log[j].type \in types
    BY <1>3 DEF Of
  <2>4. QED BY <1>3, <1>4, <2>1, <2>2, <2>3
<1>6. Of(both, step, types) = Of(log, step, types)
  BY <1>5
<1>7. ASSUME NEW k \in m + 1..m + n, both[k].step = step
      PROVE  Before(both, k, types) = Of(log, step, types)
  <2>1. Before(both, k, types) = {j \in Of(log, step, types) : j < k}
    BY <1>6, <1>7 DEF Before
  <2>2. \A j \in Of(log, step, types) : j \in 1..m
    BY <1>3 DEF Of
  <2>3. \A j \in 1..m : j < k
    BY <1>2
  <2>4. QED BY <2>1, <2>2, <2>3
<1>8. QED BY <1>1, <1>2, <1>6, <1>7

\* Every entry fits and is of a step up to the one that is answered.
LogFits(steps, log, t, at) ==
    /\ IsList(log) /\ t \in Nat
    /\ \A k \in DOMAIN log :
          /\ FitsRun(steps, log, k)
          /\ log[k].t \in 0..t /\ log[k].step \in DOMAIN steps /\ log[k].step <= at
          /\ log[k].type = "step_skipped" /\ log[k].data # None => steps[log[k].step].runs

\* The step that is answered runs, has begun and has not ended.
Open(steps, log, at, pressed) ==
    /\ at \in DOMAIN steps /\ steps[at].runs
    /\ Of(log, at, Ends) = {} /\ Cardinality(Of(log, at, {"step_started"})) = 1
    /\ Balanced(Of(log, at, {"discharge_started"}), Of(log, at, {"discharge_stopped"})) <=> ~pressed
    /\ pressed =>
          /\ Cardinality(Of(log, at, {"discharge_started"})) =
               Cardinality(Of(log, at, {"discharge_stopped"})) + 1
          /\ steps[at].interaction = "operate_extinguisher"

LEMMA SessionParts ==
    ASSUME NEW s, DOMAIN s = SessionFields
    PROVE  IsSession(s) <=>
             /\ s.index \in 1..Len(ScenarioOf(s).steps) + 1 /\ s.done \in BOOLEAN /\ s.discharging \in BOOLEAN
             /\ LogFits(ScenarioOf(s).steps, s.events, s.t, s.index)
             /\ s.done => ~s.discharging
             /\ ~s.done => Open(ScenarioOf(s).steps, s.events, s.index, s.discharging)
  BY DEF IsSession, LogFits, Open, IsList

\* New entries that fit, of times and steps that do not go back.
LEMMA FitsGrown ==
    ASSUME NEW steps, NEW log, NEW t, NEW at, NEW tail, NEW now \in Nat, NEW to \in Nat, IsList(steps),
           LogFits(steps, log, t, at), IsList(tail), t <= now, at \in Nat, at <= to,
           \A k \in Len(log) + 1..Len(log) + Len(tail) :
              LET e == (log \o tail)[k]
              IN  /\ FitsRun(steps, log \o tail, k)
                  /\ e.t = now /\ e.step \in DOMAIN steps /\ e.step <= to
                  /\ e.type = "step_skipped" /\ e.data # None => steps[e.step].runs
    PROVE  LogFits(steps, log \o tail, now, to)
<1>1. PICK both : both = log \o tail
  OBVIOUS
<1>2. PICK m \in Nat, n \in Nat : m = Len(log) /\ n = Len(tail)
  BY DEF IsList, LogFits
<1>3. /\ IsList(both) /\ DOMAIN log = 1..m /\ DOMAIN both = 1..m + n
  BY <1>1, <1>2, ListConcat, ListIsSeq DEF LogFits
<1>4. ASSUME NEW k \in DOMAIN both
      PROVE  /\ FitsRun(steps, both, k)
             /\ both[k].t \in 0..now /\ both[k].step \in DOMAIN steps /\ both[k].step <= to
             /\ both[k].type = "step_skipped" /\ both[k].data # None => steps[both[k].step].runs
  <2>1. CASE k \in 1..m
    <3>1. both[k] = log[k] /\ (FitsRun(steps, both, k) <=> FitsRun(steps, log, k))
      BY <1>1, <1>3, <2>1, LaterEntries DEF LogFits
    <3>2. /\ FitsRun(steps, log, k) /\ log[k].t \in 0..t /\ log[k].step \in DOMAIN steps
          /\ log[k].step <= at
          /\ log[k].type = "step_skipped" /\ log[k].data # None => steps[log[k].step].runs
      BY <1>3, <2>1 DEF LogFits
    <3>3. t \in Nat /\ DOMAIN steps \subseteq Nat
      BY ListIsSeq DEF LogFits, IsList
    <3>4. both[k].t \in 0..now /\ both[k].step <= to
      BY <3>1, <3>2, <3>3
    <3>5. QED BY <3>1, <3>2, <3>4
  <2>2. CASE k \in m + 1..m + n
    <3>1. /\ FitsRun(steps, both, k)
          /\ both[k].t = now /\ both[k].step \in DOMAIN steps /\ both[k].step <= to
          /\ both[k].type = "step_skipped" /\ both[k].data # None => steps[both[k].step].runs
      BY <1>1, <1>2, <2>2
    <3>2. QED BY <3>1
  <2>3. QED BY <1>2, <1>3, <2>1, <2>2
<1>5. QED BY <1>1, <1>3, <1>4 DEF LogFits

LEMMA GrownInOrder ==
    ASSUME NEW steps, NEW log, NEW t, NEW at \in Nat, NEW tail, NEW now \in Nat, IsList(steps),
           LogFits(steps, log, t, at), IsList(tail), t <= now,
           \A k \in DOMAIN tail :
              /\ tail[k].t = now /\ tail[k].step \in Nat /\ at <= tail[k].step
              /\ k > 1 => tail[k - 1].step <= tail[k].step
    PROVE  \A k \in Len(log) + 1..Len(log) + Len(tail) :
              k > 1 => /\ (log \o tail)[k - 1].t <= (log \o tail)[k].t
                       /\ (log \o tail)[k - 1].step <= (log \o tail)[k].step
<1>1. PICK both : both = log \o tail
  OBVIOUS
<1>2. PICK m \in Nat, n \in Nat : m = Len(log) /\ n = Len(tail)
  BY DEF IsList, LogFits
<1>3. /\ DOMAIN log = 1..m /\ DOMAIN tail = 1..n
      /\ \A j \in 1..m : both[j] = log[j]
      /\ \A j \in m + 1..m + n : both[j] = tail[j - m]
  BY <1>1, <1>2, ListConcat, ListIsSeq DEF LogFits
<1>4. ASSUME NEW k \in m + 1..m + n, k > 1
      PROVE  both[k - 1].t <= both[k].t /\ both[k - 1].step <= both[k].step
  <2>1. both[k] = tail[k - m] /\ k - m \in 1..n
    BY <1>2, <1>3
  <2>2. tail[k - m].t = now /\ tail[k - m].step \in Nat /\ at <= tail[k - m].step
    BY <1>3, <2>1
  <2>3. CASE k = m + 1
    <3>1. k - 1 \in 1..m /\ both[k - 1] = log[k - 1]
      BY <1>2, <1>3, <1>4, <2>3
    <3>2. log[k - 1].t \in 0..t /\ log[k - 1].step \in DOMAIN steps /\ log[k - 1].step <= at /\ t \in Nat
      BY <1>3, <3>1 DEF LogFits
    <3>3. log[k - 1].step \in Nat
      BY <3>2, ListIsSeq DEF IsList
    <3>4. QED BY <2>1, <2>2, <3>1, <3>2, <3>3
  <2>4. CASE k # m + 1
    <3>1. /\ k - 1 \in m + 1..m + n /\ (k - 1) - m \in 1..n
          /\ (k - m) - 1 = (k - 1) - m /\ k - m > 1
      BY <1>2, <2>4
    <3>2. both[k - 1] = tail[(k - 1) - m]
      BY <1>3, <3>1
    <3>3. tail[(k - m) - 1].step <= tail[k - m].step
      BY <1>3, <2>1, <3>1
    <3>4. tail[(k - 1) - m].t = now
      BY <1>3, <3>1
    <3>5. QED BY <2>1, <2>2, <3>1, <3>2, <3>3, <3>4
  <2>5. QED BY <2>3, <2>4
<1>5. QED BY <1>1, <1>2, <1>4

\* What neither starts nor ends a step and leaves the lever as it is.
Neutral(steps, entry, now, at, pressed) ==
    /\ entry.t = now /\ entry.step = at
    /\ entry.type \notin Ends \cup {"step_started", "discharge_started", "discharge_stopped",
                                   "attempt_aborted"}
    /\ entry.type = "hold_progress" => (~pressed <=> steps[at].interaction = "aim_and_hold")

\* Such entries fit an open step, and it stays open.
LEMMA NeutralFits ==
    ASSUME NEW steps, NEW log, NEW t, NEW at, NEW pressed \in BOOLEAN, NEW tail, NEW now \in Nat,
           IsList(steps), LogFits(steps, log, t, at), Open(steps, log, at, pressed), IsList(tail),
           t <= now, \A k \in DOMAIN tail : Neutral(steps, tail[k], now, at, pressed)
    PROVE  LogFits(steps, log \o tail, now, at) /\ Open(steps, log \o tail, at, pressed)
<1>1. PICK both : both = log \o tail
  OBVIOUS
<1>2. PICK m \in Nat, n \in Nat : m = Len(log) /\ n = Len(tail)
  BY DEF IsList, LogFits
<1>3. /\ DOMAIN tail = 1..n /\ DOMAIN both = 1..m + n
      /\ \A j \in m + 1..m + n : both[j] = tail[j - m]
  BY <1>1, <1>2, ListConcat, ListIsSeq DEF LogFits
<1>4. at \in Nat /\ at \in DOMAIN steps
  BY ListIsSeq DEF Open, IsList
<1>5. IsList(log)
  BY DEF LogFits
<1>6. /\ Lacks(tail, at, Ends) /\ Lacks(tail, at, {"step_started"})
      /\ Lacks(tail, at, {"discharge_started"}) /\ Lacks(tail, at, {"discharge_stopped"})
  BY <1>3 DEF Lacks, Neutral
<1>7. /\ Of(both, at, Ends) = Of(log, at, Ends)
      /\ Of(both, at, {"step_started"}) = Of(log, at, {"step_started"})
      /\ Of(both, at, {"discharge_started"}) = Of(log, at, {"discharge_started"})
      /\ Of(both, at, {"discharge_stopped"}) = Of(log, at, {"discharge_stopped"})
  BY <1>1, <1>5, <1>6, OfGrown
<1>8. Open(steps, both, at, pressed)
  BY <1>7 DEF Open
<1>9. ASSUME NEW k \in m + 1..m + n
      PROVE  /\ FitsRun(steps, both, k)
             /\ both[k].t = now /\ both[k].step \in DOMAIN steps /\ both[k].step <= at
             /\ both[k].type = "step_skipped" /\ both[k].data # None => steps[both[k].step].runs
  <2>1. both[k] = tail[k - m] /\ k - m \in 1..n
    BY <1>2, <1>3
  <2>2. Neutral(steps, both[k], now, at, pressed)
    BY <1>3, <2>1
  <2>3. \A j \in DOMAIN tail :
           /\ tail[j].t = now /\ tail[j].step \in Nat /\ at <= tail[j].step
           /\ j > 1 => tail[j - 1].step <= tail[j].step
    <3>1. ASSUME NEW j \in DOMAIN tail
          PROVE  /\ tail[j].t = now /\ tail[j].step \in Nat /\ at <= tail[j].step
                 /\ j > 1 => tail[j - 1].step <= tail[j].step
      <4>1. tail[j].t = now /\ tail[j].step = at
        BY DEF Neutral
      <4>2. j > 1 => j - 1 \in DOMAIN tail
        BY <1>2, <1>3
      <4>3. j > 1 => tail[j - 1].step = at
        BY <4>2 DEF Neutral
      <4>4. QED BY <1>4, <4>1, <4>3
    <3>2. QED BY <3>1
  <2>4. k > 1 => both[k - 1].t <= both[k].t /\ both[k - 1].step <= both[k].step
    BY <1>1, <1>2, <1>4, <2>3, GrownInOrder
  <2>5. both[k].step = at
    BY <2>2 DEF Neutral
  <2>6. /\ Before(both, k, Ends) = Of(log, at, Ends)
        /\ Before(both, k, {"step_started"}) = Of(log, at, {"step_started"})
        /\ Before(both, k, {"discharge_started"}) = Of(log, at, {"discharge_started"})
        /\ Before(both, k, {"discharge_stopped"}) = Of(log, at, {"discharge_stopped"})
    BY <1>1, <1>2, <1>5, <1>6, <2>5, OfGrown
  <2>7. Released(both, k) <=> ~pressed
    BY <2>6 DEF Released, Open
  <2>8. Before(both, k, Ends) = {} /\ Cardinality(Before(both, k, {"step_started"})) = 1
    BY <2>6 DEF Open
  <2>9. both[k].type \notin Ends \cup {"attempt_aborted"} /\ both[k].type # "step_skipped"
    BY <2>2 DEF Neutral, Ends
  <2>10. both[k].type = "hold_progress" => (~pressed <=> steps[at].interaction = "aim_and_hold")
    BY <2>2 DEF Neutral
  <2>11. FitsRun(steps, both, k)
    BY <2>4, <2>5, <2>7, <2>8, <2>9, <2>10 DEF FitsRun
  <2>12. QED BY <1>4, <2>2, <2>9, <2>11 DEF Neutral
<1>10. LogFits(steps, both, now, at)
  <2>1. \A k \in Len(log) + 1..Len(log) + Len(tail) :
           LET e == (log \o tail)[k]
           IN  /\ FitsRun(steps, log \o tail, k)
               /\ e.t = now /\ e.step \in DOMAIN steps /\ e.step <= at
               /\ e.type = "step_skipped" /\ e.data # None => steps[e.step].runs
    BY <1>1, <1>2, <1>9
  <2>2. at <= at
    BY <1>4
  <2>3. LogFits(steps, log \o tail, now, at)
    BY <1>4, <2>1, <2>2, FitsGrown
  <2>4. QED BY <1>1, <2>3
<1>11. QED BY <1>1, <1>8, <1>10

\* Before the first new entry there is the log.
LEMMA BeforeNext ==
    ASSUME NEW log, IsList(log), NEW one, IsList(one), Len(one) = 1, NEW e, one[1] = e, NEW types
    PROVE  /\ DOMAIN (log \o one) = 1..Len(log) + 1
           /\ (log \o one)[Len(log) + 1] = e
           /\ IsList(log \o one)
           /\ Before(log \o one, Len(log) + 1, types) = Of(log, e.step, types)
           /\ e.type \in types =>
                 \A j : j \in Of(log \o one, e.step, types) <=>
                           j \in Of(log, e.step, types) \/ j = Len(log) + 1
           /\ e.type \notin types => Of(log \o one, e.step, types) = Of(log, e.step, types)
           /\ Len(log) + 1 \notin Of(log, e.step, types)
<1>1. PICK both : both = log \o one
  OBVIOUS
<1>2. PICK step : step = e.step
  OBVIOUS
<1>3. PICK m \in Nat : m = Len(log)
  BY DEF IsList
<1>4. /\ IsList(both) /\ DOMAIN log = 1..m /\ DOMAIN both = 1..m + 1
      /\ \A j \in 1..m : both[j] = log[j]
      /\ both[m + 1] = e
  <2>1. /\ IsList(both) /\ DOMAIN both = 1..Len(log) + 1
        /\ \A j \in 1..Len(log) : both[j] = log[j]
        /\ \A j \in Len(log) + 1..Len(log) + 1 : both[j] = one[j - Len(log)]
    <3>1. /\ IsList(log \o one) /\ DOMAIN (log \o one) = 1..Len(log) + Len(one)
          /\ \A j \in 1..Len(log) : (log \o one)[j] = log[j]
          /\ \A j \in Len(log) + 1..Len(log) + Len(one) : (log \o one)[j] = one[j - Len(log)]
      <4>1. IsList(log \o one) /\ DOMAIN (log \o one) = 1..Len(log) + Len(one)
        BY ListConcat
      <4>2. \A j \in 1..Len(log) : (log \o one)[j] = log[j]
        BY ListConcat
      <4>3. \A j \in Len(log) + 1..Len(log) + Len(one) : (log \o one)[j] = one[j - Len(log)]
        BY ListConcat
      <4>4. QED BY <4>1, <4>2, <4>3
    <3>2. both = log \o one
      BY <1>1
    <3>3. QED BY <3>1, <3>2
  <2>2. both[m + 1] = one[1]
    BY <1>3, <2>1
  <2>3. QED BY <1>3, <2>1, <2>2, ListIsSeq
<1>5. Before(both, m + 1, types) = Of(log, step, types)
  <2>1. ASSUME NEW j PROVE j \in Before(both, m + 1, types) <=> j \in Of(log, step, types)
    <3>1. j \in 1..m + 1 /\ j < m + 1 <=> j \in 1..m
      BY <1>3
    <3>2. j \in Before(both, m + 1, types) <=>
             j \in 1..m + 1 /\ j < m + 1 /\ both[j].step = step /\ both[j].type \in types
      BY <1>2, <1>4 DEF Before, Of
    <3>3. j \in Of(log, step, types) <=> j \in 1..m /\ log[j].step = step /\ log[j].type \in types
      BY <1>2, <1>4 DEF Of
    <3>4. QED BY <1>2, <1>4, <3>1, <3>2, <3>3
  <2>2. QED BY <2>1
<1>6. Of(both, step, types) = Of(log, step, types) \cup (IF e.type \in types THEN {m + 1} ELSE {})
  <2>1. ASSUME NEW j
        PROVE  j \in Of(both, step, types) <=>
                 j \in Of(log, step, types) \/ (e.type \in types /\ j = m + 1)
    <3>1. j \in 1..m + 1 <=> j \in 1..m \/ j = m + 1
      BY <1>3
    <3>2. j \in Of(both, step, types) <=> j \in 1..m + 1 /\ both[j].step = step /\ both[j].type \in types
      BY <1>2, <1>4 DEF Of
    <3>3. j \in Of(log, step, types) <=> j \in 1..m /\ log[j].step = step /\ log[j].type \in types
      BY <1>2, <1>4 DEF Of
    <3>4. QED BY <1>2, <1>4, <3>1, <3>2, <3>3
  <2>2. QED BY <2>1
<1>7. m + 1 \notin Of(log, step, types)
  BY <1>3, <1>4 DEF Of
<1>8. QED BY <1>1, <1>2, <1>3, <1>4, <1>5, <1>6, <1>7

\* One more entry of an open step; none ends it with the lever pressed.
LEMMA EntryFits ==
    ASSUME NEW steps, NEW log, NEW t, NEW at, NEW pressed \in BOOLEAN, NEW e, NEW now \in Nat,
           IsList(steps), LogFits(steps, log, t, at), Open(steps, log, at, pressed), t <= now,
           e.t = now, e.step = at, e.type # "hold_progress",
           e.type \in Ends \cup {"attempt_aborted"} => ~pressed
    PROVE  LogFits(steps, log \o <<e>>, now, at)
<1>1. PICK both : both = log \o <<e>>
  OBVIOUS
<1>2. PICK m \in Nat : m = Len(log)
  BY DEF IsList, LogFits
<1>3. IsList(<<e>>) /\ Len(<<e>>) = 1 /\ <<e>>[1] = e /\ DOMAIN <<e>> = 1..1
  BY ListAppend, ListIsSeq
<1>4. IsList(log) /\ at \in Nat /\ at \in DOMAIN steps
  BY ListIsSeq DEF Open, IsList, LogFits
<1>5. ASSUME NEW types PROVE Before(both, m + 1, types) = Of(log, at, types)
  BY <1>1, <1>2, <1>3, <1>4, BeforeNext
<1>6. both[m + 1] = e
  BY <1>1, <1>2, <1>4, BeforeNext
<1>7. \A k \in DOMAIN <<e>> :
         /\ <<e>>[k].t = now /\ <<e>>[k].step \in Nat /\ at <= <<e>>[k].step
         /\ k > 1 => <<e>>[k - 1].step <= <<e>>[k].step
  <2>1. ASSUME NEW k \in 1..1
        PROVE  /\ <<e>>[k].t = now /\ <<e>>[k].step \in Nat /\ at <= <<e>>[k].step
               /\ k > 1 => <<e>>[k - 1].step <= <<e>>[k].step
    <3>1. k = 1 /\ ~(k > 1)
      OBVIOUS
    <3>2. <<e>>[k].t = now /\ <<e>>[k].step = at
      BY <1>3, <3>1
    <3>3. QED BY <1>4, <3>1, <3>2
  <2>2. QED BY <1>3, <2>1
<1>8. m + 1 > 1 => both[(m + 1) - 1].t <= both[m + 1].t /\ both[(m + 1) - 1].step <= both[m + 1].step
  <2>1. m + 1 \in Len(log) + 1..Len(log) + Len(<<e>>)
    BY <1>2, <1>3
  <2>2. QED BY <1>1, <1>3, <1>4, <1>7, <2>1, GrownInOrder
<1>9. Released(both, m + 1) <=> ~pressed
  BY <1>5, <1>6 DEF Released, Open
<1>10. Before(both, m + 1, Ends) = {} /\ Cardinality(Before(both, m + 1, {"step_started"})) = 1
  BY <1>5 DEF Open
<1>11. FitsRun(steps, both, m + 1)
  BY <1>6, <1>8, <1>9, <1>10 DEF FitsRun
<1>12. \A k \in Len(log) + 1..Len(log) + Len(<<e>>) :
          LET x == (log \o <<e>>)[k]
          IN  /\ FitsRun(steps, log \o <<e>>, k)
              /\ x.t = now /\ x.step \in DOMAIN steps /\ x.step <= at
              /\ x.type = "step_skipped" /\ x.data # None => steps[x.step].runs
  <2>1. ASSUME NEW k \in Len(log) + 1..Len(log) + Len(<<e>>) PROVE k = m + 1
    BY <1>2, <1>3
  <2>2. steps[at].runs /\ at <= at
    BY <1>4 DEF Open
  <2>3. QED BY <1>1, <1>4, <1>6, <1>11, <2>1, <2>2
<1>13. at <= at
  BY <1>4
<1>14. QED BY <1>3, <1>4, <1>12, <1>13, FitsGrown

LEMMA CountOf ==
    ASSUME NEW log, IsList(log), NEW step, NEW types
    PROVE  IsFiniteSet(Of(log, step, types)) /\ Cardinality(Of(log, step, types)) \in Nat
<1>1. PICK m \in Nat : m = Len(log)
  BY DEF IsList
<1>2. DOMAIN log = 1..m
  BY <1>1, ListIsSeq
<1>3. Of(log, step, types) \subseteq 1..m
  BY <1>2 DEF Of
<1>4. IsFiniteSet(1..m)
  BY <1>1, FS_Interval
<1>5. IsFiniteSet(Of(log, step, types))
  BY <1>3, <1>4, FS_Subset
<1>6. QED BY <1>5, FS_CardinalityType

\* The lever goes down, or up again.
LEMMA LeverFits ==
    ASSUME NEW steps, NEW log, NEW t, NEW at, NEW pressed \in BOOLEAN, NEW e, NEW now \in Nat,
           IsList(steps), LogFits(steps, log, t, at), Open(steps, log, at, pressed), t <= now,
           e.t = now, e.step = at,
           e.type = IF pressed THEN "discharge_stopped" ELSE "discharge_started",
           steps[at].interaction = "operate_extinguisher"
    PROVE  LogFits(steps, log \o <<e>>, now, at) /\ Open(steps, log \o <<e>>, at, ~pressed)
<1>1. PICK both : both = log \o <<e>>
  OBVIOUS
<1>2. PICK m \in Nat : m = Len(log)
  BY DEF IsList, LogFits
<1>3. LogFits(steps, log \o <<e>>, now, at)
  BY EntryFits DEF Ends
<1>4. IsList(log)
  BY DEF LogFits
<1>5. ASSUME NEW types
      PROVE  /\ e.type \in types => Of(both, at, types) = Of(log, at, types) \cup {m + 1}
             /\ e.type \notin types => Of(both, at, types) = Of(log, at, types)
             /\ m + 1 \notin Of(log, at, types)
  <2>1. PICK one : one = <<e>>
    OBVIOUS
  <2>2. IsList(one) /\ Len(one) = 1 /\ one[1] = e
    BY <2>1, ListAppend
  <2>3. both = log \o one
    BY <1>1, <2>1
  <2>4. Len(log) + 1 \notin Of(log, e.step, types)
    BY <1>4, <2>2, BeforeNext
  <2>5. ASSUME e.type \in types
        PROVE  Of(log \o one, e.step, types) = Of(log, e.step, types) \cup {m + 1}
    <3>1. \A j : j \in Of(log \o one, e.step, types) <=> j \in Of(log, e.step, types) \/ j = Len(log) + 1
      BY <1>4, <2>2, <2>5, BeforeNext
    <3>2. QED BY <1>2, <3>1
  <2>6. e.type \notin types => Of(log \o one, e.step, types) = Of(log, e.step, types)
    BY <1>4, <2>2, BeforeNext
  <2>7. QED BY <1>2, <2>3, <2>4, <2>5, <2>6
<1>6. PICK S : S = Of(log, at, {"discharge_started"})
  OBVIOUS
<1>7. PICK T : T = Of(log, at, {"discharge_stopped"})
  OBVIOUS
<1>8. /\ IsFiniteSet(S) /\ Cardinality(S) \in Nat /\ IsFiniteSet(T) /\ Cardinality(T) \in Nat
      /\ m + 1 \notin S /\ m + 1 \notin T
  BY <1>4, <1>5, <1>6, <1>7, CountOf
<1>9. Cardinality(S \cup {m + 1}) = Cardinality(S) + 1 /\ Cardinality(T \cup {m + 1}) = Cardinality(T) + 1
  BY <1>8, FS_AddElement
<1>10. /\ Of(both, at, {"step_started"}) = Of(log, at, {"step_started"})
       /\ Of(both, at, Ends) = Of(log, at, Ends)
  BY <1>5 DEF Ends
<1>11. Open(steps, both, at, ~pressed)
  <2>1. CASE pressed
    <3>1. e.type = "discharge_stopped"
      BY <2>1
    <3>2. Of(both, at, {"discharge_started"}) = S
      BY <1>5, <1>6, <3>1
    <3>3. Of(both, at, {"discharge_stopped"}) = T \cup {m + 1}
      BY <1>5, <1>7, <3>1
    <3>4. Cardinality(S) = Cardinality(T) + 1
      BY <1>6, <1>7, <2>1 DEF Open
    <3>5. Balanced(Of(both, at, {"discharge_started"}), Of(both, at, {"discharge_stopped"}))
      BY <1>9, <3>2, <3>3, <3>4 DEF Balanced
    <3>6. QED BY <1>10, <2>1, <3>5 DEF Open
  <2>2. CASE ~pressed
    <3>1. e.type = "discharge_started"
      BY <2>2
    <3>2. Of(both, at, {"discharge_started"}) = S \cup {m + 1}
      BY <1>5, <1>6, <3>1
    <3>3. Of(both, at, {"discharge_stopped"}) = T
      BY <1>5, <1>7, <3>1
    <3>4. Cardinality(S) = Cardinality(T)
      BY <1>6, <1>7, <2>2 DEF Open, Balanced
    <3>5. /\ ~Balanced(Of(both, at, {"discharge_started"}), Of(both, at, {"discharge_stopped"}))
          /\ Cardinality(Of(both, at, {"discharge_started"})) =
               Cardinality(Of(both, at, {"discharge_stopped"})) + 1
      <4>1. PICK c \in Nat : c = Cardinality(S)
        BY <1>8
      <4>2. Cardinality(S \cup {m + 1}) = c + 1 /\ Cardinality(T) = c /\ c + 1 # c
        BY <1>9, <3>4, <4>1
      <4>3. QED BY <3>2, <3>3, <4>2 DEF Balanced
    <3>6. QED BY <1>10, <2>2, <3>5 DEF Open
  <2>3. QED BY <2>1, <2>2
<1>12. QED BY <1>1, <1>3, <1>11

\* From one step to the next that runs: those passed by are skipped without a reason,
\* and that one starts, unless there is none.
PassesBy(tail, t, at, next, starts) ==
    /\ IsList(tail) /\ Len(tail) = next - at - (IF starts THEN 0 ELSE 1)
    /\ \A k \in DOMAIN tail :
          /\ tail[k].t = t /\ tail[k].step = at + k
          /\ k < next - at => tail[k].type = "step_skipped" /\ tail[k].data = None
          /\ k = next - at => tail[k].type = "step_started"

LEMMA AdvanceFits ==
    ASSUME NEW steps, NEW log, NEW t, NEW at \in Nat, NEW tail, NEW next \in Nat, IsList(steps),
           LogFits(steps, log, t, at), next \in at + 1..Len(steps) + 1,
           PassesBy(tail, t, at, next, next \in DOMAIN steps),
           next \in DOMAIN steps => steps[next].runs
    PROVE  /\ LogFits(steps, log \o tail, t, next)
           /\ next \in DOMAIN steps => Open(steps, log \o tail, next, FALSE)
<1>1. PICK both : both = log \o tail
  OBVIOUS
<1>2. PICK m \in Nat, n \in Nat, l \in Nat : m = Len(log) /\ n = Len(tail) /\ l = Len(steps)
  BY DEF IsList, LogFits, PassesBy
<1>3. IsList(log) /\ IsList(tail) /\ t \in Nat
  BY DEF LogFits, PassesBy
<1>4. /\ DOMAIN log = 1..m /\ DOMAIN tail = 1..n /\ DOMAIN both = 1..m + n /\ DOMAIN steps = 1..l
      /\ \A j \in 1..m : both[j] = log[j]
      /\ \A j \in m + 1..m + n : both[j] = tail[j - m]
  BY <1>1, <1>2, <1>3, ListConcat, ListIsSeq
<1>5. n = IF next \in DOMAIN steps THEN next - at ELSE next - at - 1
  BY <1>2 DEF PassesBy
<1>6. ASSUME NEW k \in m + 1..m + n
      PROVE  /\ both[k].t = t /\ both[k].step = at + (k - m) /\ both[k].step \in at + 1..next
             /\ both[k].step \in DOMAIN steps
             /\ \/ both[k].type = "step_skipped" /\ both[k].data = None /\ k - m # next - at
                \/ both[k].type = "step_started" /\ k - m = next - at
  <2>1. k - m \in 1..n /\ both[k] = tail[k - m]
    BY <1>2, <1>4
  <2>2. k - m < next - at \/ k - m = next - at
    BY <1>2, <1>5, <2>1
  <2>3. at + (k - m) \in 1..l /\ at + (k - m) \in at + 1..next
    <3>1. CASE next \in DOMAIN steps
      BY <1>2, <1>4, <1>5, <2>1, <3>1
    <3>2. CASE next \notin DOMAIN steps
      BY <1>2, <1>4, <1>5, <2>1, <3>2
    <3>3. QED BY <3>1, <3>2
  <2>4. /\ tail[k - m].t = t /\ tail[k - m].step = at + (k - m)
        /\ k - m < next - at => tail[k - m].type = "step_skipped" /\ tail[k - m].data = None
        /\ k - m = next - at => tail[k - m].type = "step_started"
    BY <1>4, <2>1 DEF PassesBy
  <2>5. k - m < next - at => k - m # next - at
    BY <1>2
  <2>6. QED BY <1>4, <2>1, <2>2, <2>3, <2>4, <2>5
<1>7. ASSUME NEW j \in 1..m PROVE both[j].step \in Nat /\ both[j].step <= at
  <2>1. log[j].step \in DOMAIN steps /\ log[j].step <= at
    BY <1>4 DEF LogFits
  <2>2. QED BY <1>2, <1>4, <2>1
<1>8. ASSUME NEW k \in m + 1..m + n, NEW j \in 1..m + n, j # k PROVE both[j].step # both[k].step
  <2>1. CASE j \in 1..m
    BY <1>2, <1>6, <1>7, <2>1
  <2>2. CASE j \in m + 1..m + n
    BY <1>2, <1>6, <1>8, <2>2
  <2>3. QED BY <1>2, <2>1, <2>2
<1>9. ASSUME NEW k \in m + 1..m + n, NEW types PROVE Before(both, k, types) = {}
  <2>1. ASSUME NEW j \in Before(both, k, types) PROVE FALSE
    <3>1. j \in 1..m + n /\ both[j].step = both[k].step /\ j < k
      BY <1>4, <2>1 DEF Before, Of
    <3>2. j # k
      BY <1>2, <3>1
    <3>3. QED BY <1>8, <3>1, <3>2
  <2>2. QED BY <2>1
<1>10. \A k \in DOMAIN tail :
          /\ tail[k].t = t /\ tail[k].step \in Nat /\ at <= tail[k].step
          /\ k > 1 => tail[k - 1].step <= tail[k].step
  <2>1. ASSUME NEW k \in 1..n
        PROVE  /\ tail[k].t = t /\ tail[k].step \in Nat /\ at <= tail[k].step
               /\ k > 1 => tail[k - 1].step <= tail[k].step
    <3>1. tail[k].t = t /\ tail[k].step = at + k
      BY <1>4 DEF PassesBy
    <3>2. k > 1 => k - 1 \in 1..n
      BY <1>2
    <3>3. k > 1 => tail[k - 1].step = at + (k - 1)
      BY <1>4, <3>2 DEF PassesBy
    <3>4. QED BY <1>2, <3>1, <3>3
  <2>2. QED BY <1>4, <2>1
<1>11. ASSUME NEW k \in m + 1..m + n
       PROVE  k > 1 => both[k - 1].t <= both[k].t /\ both[k - 1].step <= both[k].step
  <2>1. t <= t
    BY <1>3
  <2>2. k \in Len(log) + 1..Len(log) + Len(tail)
    BY <1>2
  <2>3. k > 1 => /\ (log \o tail)[k - 1].t <= (log \o tail)[k].t
                 /\ (log \o tail)[k - 1].step <= (log \o tail)[k].step
    BY <1>3, <1>10, <2>1, <2>2, GrownInOrder
  <2>4. QED BY <1>1, <2>3
<1>12. ASSUME NEW k \in m + 1..m + n
       PROVE  /\ FitsRun(steps, both, k)
              /\ both[k].t = t /\ both[k].step \in DOMAIN steps /\ both[k].step <= next
              /\ both[k].type = "step_skipped" /\ both[k].data # None => steps[both[k].step].runs
  <2>1. Before(both, k, Ends) = {} /\ Released(both, k)
    BY <1>9 DEF Released, Balanced
  <2>2. \/ both[k].type = "step_started"
        \/ both[k].type = "step_skipped" /\ both[k].data = None
    BY <1>6
  <2>3. both[k].type # "hold_progress"
    BY <2>2
  <2>4. FitsRun(steps, both, k)
    BY <1>11, <2>1, <2>2, <2>3 DEF FitsRun
  <2>5. both[k].t = t /\ both[k].step \in DOMAIN steps /\ both[k].step \in at + 1..next
    BY <1>6
  <2>6. both[k].type = "step_skipped" => both[k].data = None
    BY <2>2
  <2>7. QED BY <2>4, <2>5, <2>6
<1>13. LogFits(steps, both, t, next)
  <2>1. \A k \in Len(log) + 1..Len(log) + Len(tail) :
           LET e == (log \o tail)[k]
           IN  /\ FitsRun(steps, log \o tail, k)
               /\ e.t = t /\ e.step \in DOMAIN steps /\ e.step <= next
               /\ e.type = "step_skipped" /\ e.data # None => steps[e.step].runs
    BY <1>1, <1>2, <1>12
  <2>2. at <= next /\ t <= t
    BY <1>3
  <2>3. LogFits(steps, log \o tail, t, next)
    BY <1>3, <2>1, <2>2, FitsGrown
  <2>4. QED BY <1>1, <2>3
<1>14. ASSUME next \in DOMAIN steps PROVE Open(steps, both, next, FALSE)
  <2>1. n = next - at /\ m + n \in m + 1..m + n
    BY <1>2, <1>5, <1>14
  <2>2. both[m + n].step = next /\ both[m + n].type = "step_started"
    <3>1. (m + n) - m = next - at /\ at + ((m + n) - m) = next
      BY <1>2, <2>1
    <3>2. QED BY <1>6, <2>1, <3>1
  <2>3. ASSUME NEW j, NEW types PROVE j \in Of(both, next, types) <=> j = m + n /\ "step_started" \in types
    <3>1. j \in Of(both, next, types) <=> j \in 1..m + n /\ both[j].step = next /\ both[j].type \in types
      BY <1>4 DEF Of
    <3>2. j \in 1..m + n /\ j # m + n => both[j].step # next
      BY <1>8, <2>1, <2>2
    <3>3. m + n \in 1..m + n
      BY <1>2, <2>1
    <3>4. QED BY <2>2, <3>1, <3>2, <3>3
  <2>4. /\ Of(both, next, Ends) = {} /\ Of(both, next, {"step_started"}) = {m + n}
        /\ Of(both, next, {"discharge_started"}) = {} /\ Of(both, next, {"discharge_stopped"}) = {}
    BY <2>3 DEF Ends
  <2>5. Cardinality({m + n}) = 1
    BY FS_Singleton
  <2>6. QED BY <1>14, <2>4, <2>5 DEF Open, Balanced
<1>15. QED BY <1>1, <1>13, <1>14

-----------------------------------------------------------------------------
(* What the calls leave behind *)

IsRunning(s) == IsSession(s) /\ ~s.done /\ IsList(ScenarioOf(s).steps)

Answering(e) == e.type = "choice_made" \/ (e.type = "step_skipped" /\ e.data # None)

\* The log only grows, by entries of the step that was answered and of those up to the one
\* that is answered now; answers, if any, are of the former.
Follows(s, u, answers) ==
    /\ u.file = s.file /\ u.kind = s.kind /\ u.variant = s.variant /\ u.scenario = s.scenario
    /\ s.index <= u.index
    /\ Len(s.events) <= Len(u.events)
    /\ \A k \in 1..Len(s.events) : u.events[k] = s.events[k]
    /\ \A k \in Len(s.events) + 1..Len(u.events) :
          /\ u.events[k].step \in s.index..u.index
          /\ Answering(u.events[k]) => answers /\ u.events[k].step = s.index

LEMMA RunningParts ==
    ASSUME NEW s, IsRunning(s)
    PROVE  /\ DOMAIN s = SessionFields /\ s.index \in Nat /\ s.index \in DOMAIN ScenarioOf(s).steps
           /\ s.index \in 1..Len(ScenarioOf(s).steps) + 1
           /\ IsList(s.events) /\ s.t \in Nat /\ s.discharging \in BOOLEAN /\ s.done = FALSE
           /\ LogFits(ScenarioOf(s).steps, s.events, s.t, s.index)
           /\ Open(ScenarioOf(s).steps, s.events, s.index, s.discharging)
<1>1. DOMAIN s = SessionFields
  BY DEF IsRunning, IsSession
<1>2. /\ s.index \in 1..Len(ScenarioOf(s).steps) + 1 /\ s.done \in BOOLEAN /\ s.discharging \in BOOLEAN
      /\ LogFits(ScenarioOf(s).steps, s.events, s.t, s.index)
      /\ Open(ScenarioOf(s).steps, s.events, s.index, s.discharging)
  BY <1>1, SessionParts DEF IsRunning
<1>3. IsList(s.events) /\ s.t \in Nat
  BY <1>2 DEF LogFits
<1>4. s.index \in DOMAIN ScenarioOf(s).steps
  BY <1>2 DEF Open
<1>5. s.index \in Nat
  BY <1>4, ListIsSeq DEF IsRunning, IsList
<1>6. QED BY <1>1, <1>2, <1>3, <1>4, <1>5 DEF IsRunning

\* A session that runs is one whose parts fit.
LEMMA RunningIf ==
    ASSUME NEW s, DOMAIN s = SessionFields, IsList(ScenarioOf(s).steps), s.discharging \in BOOLEAN,
           s.done = FALSE,
           LogFits(ScenarioOf(s).steps, s.events, s.t, s.index),
           Open(ScenarioOf(s).steps, s.events, s.index, s.discharging)
    PROVE  IsRunning(s)
<1>1. s.index \in DOMAIN ScenarioOf(s).steps
  BY DEF Open
<1>2. PICK l \in Nat : l = Len(ScenarioOf(s).steps) /\ DOMAIN ScenarioOf(s).steps = 1..l
  BY ListIsSeq DEF IsList
<1>3. s.index \in 1..Len(ScenarioOf(s).steps) + 1
  BY <1>1, <1>2
<1>4. QED BY <1>3, SessionParts DEF IsRunning

\* Fields that no property of the log depends on.
LEMMA RunsAlike ==
    ASSUME NEW s, IsRunning(s), NEW u, DOMAIN u = SessionFields,
           <<u.scenario, u.index, u.done, u.events, u.discharging, u.t>> =
               <<s.scenario, s.index, s.done, s.events, s.discharging, s.t>>
    PROVE  IsRunning(u)
<1>1. /\ u.scenario = s.scenario /\ u.index = s.index /\ u.done = s.done /\ u.events = s.events
      /\ u.discharging = s.discharging /\ u.t = s.t
  OBVIOUS
<1>2. ScenarioOf(u) = ScenarioOf(s)
  BY <1>1 DEF ScenarioOf
<1>3. QED BY <1>1, <1>2, RunningParts, RunningIf DEF IsRunning

\* The clock moves on between calls.
LEMMA RunsLater ==
    ASSUME NEW s, IsRunning(s), NEW u, NEW delay \in Nat, u = [s EXCEPT !.t = @ + delay]
    PROVE  /\ IsRunning(u)
           /\ <<u.file, u.kind, u.variant, u.scenario, u.index, u.done, u.events, u.discharging>> =
                <<s.file, s.kind, s.variant, s.scenario, s.index, s.done, s.events, s.discharging>>
<1>1. DOMAIN s = SessionFields
  BY RunningParts
<1>2. /\ DOMAIN u = SessionFields /\ u.t = s.t + delay
      /\ <<u.file, u.kind, u.variant, u.scenario, u.index, u.done, u.events, u.discharging>> =
           <<s.file, s.kind, s.variant, s.scenario, s.index, s.done, s.events, s.discharging>>
  BY <1>1 DEF SessionFields
<1>3. ScenarioOf(u) = ScenarioOf(s)
  BY <1>2 DEF ScenarioOf
<1>4. LogFits(ScenarioOf(s).steps, s.events, s.t + delay, s.index)
  <2>1. PICK t \in Nat : t = s.t
    BY RunningParts
  <2>2. s.t + delay \in Nat /\ \A x \in 0..s.t : x \in 0..s.t + delay
    BY <2>1
  <2>3. LogFits(ScenarioOf(s).steps, s.events, s.t, s.index)
    BY RunningParts
  <2>4. QED BY <2>2, <2>3 DEF LogFits
<1>5. IsRunning(u)
  BY <1>2, <1>3, <1>4, RunningParts, RunningIf DEF IsRunning
<1>6. QED BY <1>2, <1>5

LEMMA EmitParts ==
    ASSUME NEW s, IsRunning(s), NEW type, NEW data, NEW u, u = Emit(s, type, data)
    PROVE  /\ DOMAIN u = SessionFields
           /\ u.events = s.events \o <<Entry(s, type, s.index, data)>>
           /\ <<u.file, u.kind, u.variant, u.scenario, u.t, u.index, u.done, u.discharging>> =
                <<s.file, s.kind, s.variant, s.scenario, s.t, s.index, s.done, s.discharging>>
           /\ <<u.held, u.onTarget, u.pinPulled>> = <<s.held, s.onTarget, s.pinPulled>>
<1>1. DOMAIN s = SessionFields /\ IsList(s.events) /\ s.done = FALSE
  BY RunningParts
<1>2. PICK e : e = Entry(s, type, s.index, data)
  OBVIOUS
<1>3. u = [s EXCEPT !.events = Append(@, e)]
  BY <1>1, <1>2 DEF Emit, Current
<1>4. Append(s.events, e) = s.events \o <<e>>
  BY <1>1, ListAppend
<1>5. u.events = s.events \o <<e>>
  BY <1>1, <1>3, <1>4 DEF SessionFields
<1>6. /\ DOMAIN u = SessionFields
      /\ u.file = s.file /\ u.kind = s.kind /\ u.variant = s.variant /\ u.scenario = s.scenario
      /\ u.t = s.t /\ u.index = s.index /\ u.done = s.done /\ u.discharging = s.discharging
      /\ u.held = s.held /\ u.onTarget = s.onTarget /\ u.pinPulled = s.pinPulled
  BY <1>1, <1>3 DEF SessionFields
<1>7. QED BY <1>2, <1>5, <1>6

\* A tail of entries of the step that is answered.
LEMMA FollowsTail ==
    ASSUME NEW s, IsList(s.events), NEW u, NEW tail, IsList(tail), u.events = s.events \o tail,
           <<u.file, u.kind, u.variant, u.scenario, u.t>> = <<s.file, s.kind, s.variant, s.scenario, s.t>>,
           u.index \in Nat, s.index <= u.index, NEW answers,
           \A k \in DOMAIN tail : /\ tail[k].step \in s.index..u.index
                                  /\ Answering(tail[k]) => answers /\ tail[k].step = s.index
    PROVE  Follows(s, u, answers)
<1>1. IsList(s.events)
  OBVIOUS
<1>2. PICK m \in Nat, n \in Nat : m = Len(s.events) /\ n = Len(tail)
  BY <1>1 DEF IsList
<1>3. /\ DOMAIN tail = 1..n /\ Len(u.events) = m + n
      /\ \A j \in 1..m : u.events[j] = s.events[j]
      /\ \A j \in m + 1..m + n : u.events[j] = tail[j - m]
  <2>1. PICK log : log = s.events
    OBVIOUS
  <2>2. PICK both : both = log \o tail
    OBVIOUS
  <2>3. IsList(log) /\ m = Len(log)
    BY <1>1, <1>2, <2>1
  <2>4. Len(both) = m + n /\ DOMAIN tail = 1..n
    BY <1>2, <2>2, <2>3, ListConcat, ListIsSeq
  <2>5. \A j \in 1..m : both[j] = log[j]
    BY <2>2, <2>3, ListConcat
  <2>6. \A j \in m + 1..m + n : both[j] = tail[j - m]
    BY <1>2, <2>2, <2>3, ListConcat
  <2>7. QED BY <2>1, <2>2, <2>4, <2>5, <2>6
<1>4. ASSUME NEW j \in m + 1..m + n
      PROVE  /\ u.events[j].step \in s.index..u.index
             /\ Answering(u.events[j]) => answers /\ u.events[j].step = s.index
  <2>1. j - m \in 1..n
    BY <1>2
  <2>2. QED BY <1>3, <2>1
<1>5. m <= m + n
  BY <1>2
<1>6. QED BY <1>2, <1>3, <1>4, <1>5 DEF Follows

LEMMA FollowsTwice ==
    ASSUME NEW s, IsList(s.events), NEW u, IsList(u.events), NEW v, IsList(v.events), NEW answers,
           s.index \in Nat, v.index \in Nat,
           Follows(s, u, answers), u.index = s.index, Follows(u, v, answers)
    PROVE  Follows(s, v, answers)
<1>1. PICK m \in Nat, n \in Nat, o \in Nat : m = Len(s.events) /\ n = Len(u.events) /\ o = Len(v.events)
  BY DEF IsList
<1>2. /\ v.file = s.file /\ v.kind = s.kind /\ v.variant = s.variant /\ v.scenario = s.scenario
      /\ s.index <= v.index /\ m <= n /\ n <= o
  BY <1>1 DEF Follows
<1>3. ASSUME NEW k \in 1..m PROVE v.events[k] = s.events[k]
  <2>1. k \in 1..n
    BY <1>1, <1>2
  <2>2. QED BY <1>1, <2>1 DEF Follows
<1>4. ASSUME NEW k \in m + 1..o
      PROVE  /\ v.events[k].step \in s.index..v.index
             /\ Answering(v.events[k]) => answers /\ v.events[k].step = s.index
  <2>1. CASE k \in 1..n
    <3>1. v.events[k] = u.events[k] /\ k \in m + 1..n
      BY <1>1, <2>1 DEF Follows
    <3>2. /\ u.events[k].step \in s.index..u.index
          /\ Answering(u.events[k]) => answers /\ u.events[k].step = s.index
      BY <1>1, <3>1 DEF Follows
    <3>3. s.index..s.index \subseteq s.index..v.index
      BY <1>2
    <3>4. QED BY <3>1, <3>2, <3>3
  <2>2. CASE k \in n + 1..o
    BY <1>1, <2>2 DEF Follows
  <2>3. QED BY <1>1, <1>2, <2>1, <2>2
<1>5. m <= o
  BY <1>1, <1>2
<1>6. QED BY <1>1, <1>2, <1>3, <1>4, <1>5 DEF Follows

LEMMA OneEntry ==
    ASSUME NEW e, NEW tail, tail = <<e>>
    PROVE  IsList(tail) /\ Len(tail) = 1 /\ DOMAIN tail = 1..1 /\ tail[1] = e
  BY DEF IsList

LEMMA EmitKeeps ==
    ASSUME NEW s, IsRunning(s), NEW type, NEW data, NEW u, u = Emit(s, type, data),
           type \notin Ends \cup {"step_started", "discharge_started", "discharge_stopped",
                                 "attempt_aborted"},
           type = "hold_progress" =>
              (~s.discharging <=> StepAt(s, s.index).interaction = "aim_and_hold")
    PROVE  IsRunning(u) /\ Follows(s, u, type = "choice_made")
<1>1. PICK e : e = Entry(s, type, s.index, data)
  OBVIOUS
<1>2. PICK tail : tail = <<e>>
  OBVIOUS
<1>3. IsList(tail) /\ DOMAIN tail = 1..1 /\ tail[1] = e
  BY <1>2, OneEntry
<1>4. /\ DOMAIN u = SessionFields /\ u.events = s.events \o tail
      /\ u.file = s.file /\ u.kind = s.kind /\ u.variant = s.variant /\ u.scenario = s.scenario
      /\ u.t = s.t /\ u.index = s.index /\ u.done = s.done /\ u.discharging = s.discharging
  BY <1>1, <1>2, EmitParts
<1>5. PICK steps : steps = ScenarioOf(s).steps
  OBVIOUS
<1>6. ScenarioOf(u).steps = steps
  BY <1>4, <1>5 DEF ScenarioOf
<1>7. e.t = s.t /\ e.step = s.index /\ e.type = type /\ e.data = data
  BY <1>1 DEF Entry
<1>8. Neutral(steps, e, s.t, s.index, s.discharging)
  BY <1>5, <1>7 DEF Neutral, StepAt
<1>9. /\ IsList(steps) /\ s.t \in Nat /\ s.discharging \in BOOLEAN /\ s.index \in Nat /\ s.done = FALSE
      /\ LogFits(steps, s.events, s.t, s.index) /\ Open(steps, s.events, s.index, s.discharging)
  BY <1>5, RunningParts DEF IsRunning
<1>10. \A k \in DOMAIN tail : Neutral(steps, tail[k], s.t, s.index, s.discharging)
  BY <1>3, <1>8
<1>11. s.t <= s.t /\ s.index <= s.index /\ s.index \in s.index..s.index
  BY <1>9
<1>12. LogFits(steps, s.events \o tail, s.t, s.index) /\ Open(steps, s.events \o tail, s.index, s.discharging)
  BY <1>3, <1>9, <1>10, <1>11, NeutralFits
<1>13. IsRunning(u)
  BY <1>4, <1>6, <1>9, <1>12, RunningIf
<1>14. \A k \in DOMAIN tail : /\ tail[k].step \in s.index..u.index
                              /\ Answering(tail[k]) => type = "choice_made" /\ tail[k].step = s.index
  BY <1>3, <1>4, <1>7, <1>11 DEF Answering, Ends
<1>15. Follows(s, u, type = "choice_made")
  BY <1>3, <1>4, <1>9, <1>11, <1>14, RunningParts, FollowsTail
<1>16. QED BY <1>13, <1>15

\* A call that ends a step is between that and the next.
IsBetween(s) ==
    /\ DOMAIN s = SessionFields /\ IsList(ScenarioOf(s).steps)
    /\ s.index \in 0..Len(ScenarioOf(s).steps)
    /\ LogFits(ScenarioOf(s).steps, s.events, s.t, s.index)

LEMMA EmitEnd ==
    ASSUME NEW s, IsRunning(s), ~s.discharging, NEW type \in Ends \cup {"attempt_aborted"}, NEW data,
           NEW u, u = Emit(s, type, data)
    PROVE  /\ IsBetween(u)
           /\ u.index = s.index /\ u.discharging = FALSE
           /\ Follows(s, u, type = "step_skipped")
<1>1. PICK e : e = Entry(s, type, s.index, data)
  OBVIOUS
<1>2. PICK tail : tail = <<e>>
  OBVIOUS
<1>3. IsList(tail) /\ DOMAIN tail = 1..1 /\ tail[1] = e
  BY <1>2, OneEntry
<1>4. /\ DOMAIN u = SessionFields /\ u.events = s.events \o tail
      /\ u.file = s.file /\ u.kind = s.kind /\ u.variant = s.variant /\ u.scenario = s.scenario
      /\ u.t = s.t /\ u.index = s.index /\ u.done = s.done /\ u.discharging = s.discharging
  BY <1>1, <1>2, EmitParts
<1>5. PICK steps : steps = ScenarioOf(s).steps
  OBVIOUS
<1>6. ScenarioOf(u).steps = steps
  BY <1>4, <1>5 DEF ScenarioOf
<1>7. e.t = s.t /\ e.step = s.index /\ e.type = type /\ e.data = data
  BY <1>1 DEF Entry
<1>8. /\ IsList(steps) /\ s.t \in Nat /\ s.discharging \in BOOLEAN /\ s.index \in Nat
      /\ s.index \in DOMAIN steps
      /\ LogFits(steps, s.events, s.t, s.index) /\ Open(steps, s.events, s.index, s.discharging)
  BY <1>5, RunningParts DEF IsRunning
<1>9. s.t <= s.t /\ s.index <= s.index /\ s.index \in s.index..s.index
  BY <1>8
<1>10. type # "hold_progress"
  BY DEF Ends
<1>11. LogFits(steps, s.events \o tail, s.t, s.index)
  BY <1>2, <1>7, <1>8, <1>9, <1>10, EntryFits
<1>12. u.index \in 0..Len(ScenarioOf(u).steps)
  BY <1>4, <1>6, <1>8, ListIsSeq DEF IsList
<1>13. IsBetween(u)
  BY <1>4, <1>6, <1>8, <1>11, <1>12 DEF IsBetween
<1>14. \A k \in DOMAIN tail : /\ tail[k].step \in s.index..u.index
                              /\ Answering(tail[k]) => type = "step_skipped" /\ tail[k].step = s.index
  BY <1>3, <1>4, <1>7, <1>9 DEF Answering, Ends
<1>15. Follows(s, u, type = "step_skipped")
  BY <1>3, <1>4, <1>8, <1>9, <1>14, RunningParts, FollowsTail
<1>16. u.discharging = FALSE
  BY <1>4, <1>8
<1>17. QED BY <1>4, <1>13, <1>15, <1>16

LEMMA ListAssoc ==
    ASSUME NEW a, IsList(a), NEW b, IsList(b), NEW c, IsList(c)
    PROVE  (a \o b) \o c = a \o (b \o c)
<1>1. PICK A : a \in Seq(A)
  BY ListIsSeq
<1>2. PICK B : b \in Seq(B)
  BY ListIsSeq
<1>3. PICK C : c \in Seq(C)
  BY ListIsSeq
<1>4. PICK U : U = A \cup B \cup C
  OBVIOUS
<1>5. a \in Seq(U) /\ b \in Seq(U) /\ c \in Seq(U)
  BY <1>1, <1>2, <1>3, <1>4
<1>6. QED BY <1>5, ConcatAssociative

\* The first step after the current one that runs, or one past the last.
LEMMA NextRuns ==
    ASSUME NEW s, IsList(ScenarioOf(s).steps), s.index \in 0..Len(ScenarioOf(s).steps),
           NEW next, next = NextIndex(s)
    PROVE  /\ next \in s.index + 1..Len(ScenarioOf(s).steps) + 1
           /\ next \in DOMAIN ScenarioOf(s).steps => ScenarioOf(s).steps[next].runs
           /\ next > Len(ScenarioOf(s).steps) <=> next \notin DOMAIN ScenarioOf(s).steps
<1>1. PICK steps : steps = ScenarioOf(s).steps
  OBVIOUS
<1>2. PICK l \in Nat, at \in Nat : l = Len(steps) /\ at = s.index /\ at <= l
  BY <1>1 DEF IsList
<1>3. DOMAIN steps = 1..l
  BY <1>1, <1>2, ListIsSeq
<1>4. PICK runs : runs = {i \in DOMAIN steps : i > at /\ steps[i].runs}
  OBVIOUS
<1>5. next = IF runs = {} THEN l + 1 ELSE Min(runs)
  BY <1>1, <1>2, <1>4 DEF NextIndex, StepAt
<1>6. CASE runs = {}
  BY <1>1, <1>2, <1>3, <1>5, <1>6
<1>7. CASE runs # {}
  <2>1. runs \in SUBSET Nat
    BY <1>3, <1>4
  <2>2. \E m \in runs : \A y \in runs : m <= y
    BY <1>7, <2>1, LeastNumber
  <2>3. next \in runs
    BY <1>5, <1>7, <2>2 DEF Min
  <2>4. next \in 1..l /\ next > at /\ steps[next].runs
    BY <1>3, <1>4, <2>3
  <2>5. QED BY <1>1, <1>2, <1>3, <2>4
<1>8. QED BY <1>6, <1>7

LEMMA AdvanceKeeps ==
    ASSUME NEW s, IsBetween(s), NEW u, u = Advance(s)
    PROVE  /\ IsSession(u) /\ s.index < u.index
           /\ DOMAIN u = SessionFields /\ u.discharging = FALSE /\ u.pinPulled = FALSE
           /\ Follows(s, u, FALSE)
           /\ \A k \in Len(s.events) + 1..Len(u.events) : u.events[k].type \in {"step_skipped", "step_started"}
           /\ u.done \/ (u.events # <<>> /\ u.index = u.events[Len(u.events)].step)
<1>1. PICK steps : steps = ScenarioOf(s).steps
  OBVIOUS
<1>2. PICK next : next = NextIndex(s)
  OBVIOUS
<1>3. /\ IsList(steps) /\ s.index \in 0..Len(steps) /\ DOMAIN s = SessionFields
      /\ LogFits(steps, s.events, s.t, s.index)
  BY <1>1 DEF IsBetween
<1>4. PICK l \in Nat, at \in Nat : l = Len(steps) /\ at = s.index /\ at <= l
  BY <1>3 DEF IsList
<1>5. DOMAIN steps = 1..l
  BY <1>3, <1>4, ListIsSeq
<1>6. /\ next \in at + 1..l + 1
      /\ next \in DOMAIN steps => steps[next].runs
      /\ next > l <=> next \notin DOMAIN steps
  BY <1>1, <1>2, <1>3, <1>4, NextRuns
<1>7. PICK passedBy : passedBy = [k \in 1..(next - s.index - 1) |->
                                    Entry(s, "step_skipped", s.index + k, None)]
  OBVIOUS
<1>8. PICK started : started = IF next > Len(steps) THEN <<>>
                               ELSE <<Entry(s, "step_started", next, None)>>
  OBVIOUS
<1>9. u = [s EXCEPT !.index = next, !.done = next > Len(steps),
                    !.held = 0, !.onTarget = 0, !.pinPulled = FALSE, !.discharging = FALSE,
                    !.events = @ \o passedBy \o started]
  BY <1>1, <1>2, <1>7, <1>8 DEF Advance
<1>10. /\ DOMAIN u = SessionFields
       /\ u.index = next /\ u.discharging = FALSE /\ u.pinPulled = FALSE /\ u.done = (next > l)
       /\ u.events = (s.events \o passedBy) \o started
       /\ u.file = s.file /\ u.kind = s.kind /\ u.variant = s.variant /\ u.scenario = s.scenario
       /\ u.t = s.t
  BY <1>3, <1>4, <1>9 DEF SessionFields
<1>11. next \in Nat /\ next - at - 1 \in Nat
  BY <1>6
<1>12. /\ IsList(passedBy) /\ Len(passedBy) = next - at - 1
       /\ DOMAIN passedBy = 1..next - at - 1
       /\ \A k \in 1..next - at - 1 : passedBy[k] = Entry(s, "step_skipped", at + k, None)
  <2>1. PICK n \in Nat : n = next - at - 1
    BY <1>11
  <2>2. passedBy = [k \in 1..n |-> Entry(s, "step_skipped", at + k, None)]
    BY <1>4, <1>7, <2>1
  <2>3. passedBy = [k \in 1..n |-> passedBy[k]]
    BY <2>2
  <2>4. IsList(passedBy) /\ Len(passedBy) = n /\ DOMAIN passedBy = 1..n
    BY <2>3, FunctionIsList
  <2>5. \A k \in 1..n : passedBy[k] = Entry(s, "step_skipped", at + k, None)
    BY <2>2
  <2>6. QED BY <2>1, <2>4, <2>5
<1>13. IsList(started) /\ Len(started) = IF next > l THEN 0 ELSE 1
  <2>1. CASE next > l
    <3>1. started = <<>>
      BY <1>4, <1>8, <2>1
    <3>2. IsList(<<>>) /\ Len(<<>>) = 0
      BY DEF IsList
    <3>3. QED BY <2>1, <3>1, <3>2
  <2>2. CASE ~(next > l)
    <3>1. started = <<Entry(s, "step_started", next, None)>>
      BY <1>4, <1>8, <2>2
    <3>2. QED BY <2>2, <3>1, OneEntry
  <2>3. QED BY <2>1, <2>2
<1>14. ~(next > l) => started[1] = Entry(s, "step_started", next, None)
  <2>1. ASSUME ~(next > l) PROVE started[1] = Entry(s, "step_started", next, None)
    <3>1. started = <<Entry(s, "step_started", next, None)>>
      BY <1>4, <1>8, <2>1
    <3>2. QED BY <3>1, OneEntry
  <2>2. QED BY <2>1
<1>15. PICK tail : tail = passedBy \o started
  OBVIOUS
<1>16. IsList(s.events) /\ u.events = s.events \o tail
  <2>1. IsList(s.events)
    BY <1>3 DEF LogFits
  <2>2. PICK log : log = s.events
    OBVIOUS
  <2>3. IsList(log) /\ IsList(passedBy) /\ IsList(started)
    BY <1>12, <1>13, <2>1, <2>2
  <2>4. (log \o passedBy) \o started = log \o (passedBy \o started)
    BY <2>3, ListAssoc
  <2>5. u.events = (log \o passedBy) \o started
    BY <1>10, <2>2
  <2>6. QED BY <1>15, <2>1, <2>2, <2>4, <2>5
<1>17. /\ IsList(tail) /\ Len(tail) = (next - at - 1) + (IF next > l THEN 0 ELSE 1)
       /\ DOMAIN tail = 1..(next - at - 1) + (IF next > l THEN 0 ELSE 1)
       /\ \A k \in 1..next - at - 1 : tail[k] = passedBy[k]
       /\ \A k \in next - at - 1 + 1..(next - at - 1) + (IF next > l THEN 0 ELSE 1) :
             tail[k] = started[k - (next - at - 1)]
  <2>1. IsList(tail) /\ Len(tail) = Len(passedBy) + Len(started) /\ DOMAIN tail = 1..Len(passedBy) + Len(started)
    BY <1>12, <1>13, <1>15, ListConcat
  <2>2. \A k \in 1..Len(passedBy) : tail[k] = passedBy[k]
    BY <1>12, <1>13, <1>15, ListConcat
  <2>3. \A k \in Len(passedBy) + 1..Len(passedBy) + Len(started) : tail[k] = started[k - Len(passedBy)]
    BY <1>12, <1>13, <1>15, ListConcat
  <2>4. QED BY <1>12, <1>13, <2>1, <2>2, <2>3
<1>18. ASSUME NEW k \in DOMAIN tail
       PROVE  /\ tail[k].t = s.t /\ tail[k].step = at + k
              /\ k < next - at => tail[k].type = "step_skipped" /\ tail[k].data = None
              /\ k = next - at => tail[k].type = "step_started"
              /\ k \in Nat /\ k >= 1 /\ at + k <= next
  <2>1. CASE k \in 1..next - at - 1
    <3>1. tail[k] = Entry(s, "step_skipped", at + k, None)
      BY <1>12, <1>17, <2>1
    <3>2. k < next - at /\ k # next - at /\ k \in Nat /\ k >= 1 /\ at + k <= next
      BY <1>11, <2>1
    <3>3. QED BY <3>1, <3>2 DEF Entry
  <2>2. CASE k \notin 1..next - at - 1
    <3>1. k = next - at /\ ~(next > l) /\ k - (next - at - 1) = 1
          /\ k \in next - at - 1 + 1..(next - at - 1) + 1
      BY <1>11, <1>17, <2>2
    <3>2. tail[k] = Entry(s, "step_started", next, None)
      BY <1>14, <1>17, <3>1
    <3>3. at + k = next /\ ~(k < next - at) /\ k \in Nat /\ k >= 1 /\ at + k <= next
      BY <1>6, <1>11, <3>1
    <3>4. QED BY <3>2, <3>3 DEF Entry
  <2>3. QED BY <2>1, <2>2
<1>19. PassesBy(tail, s.t, at, next, next \in DOMAIN steps)
  <2>1. Len(tail) = next - at - (IF next \in DOMAIN steps THEN 0 ELSE 1)
    BY <1>6, <1>11, <1>17
  <2>2. QED BY <1>17, <1>18, <2>1 DEF PassesBy
<1>20. /\ LogFits(steps, u.events, s.t, next)
       /\ next \in DOMAIN steps => Open(steps, u.events, next, FALSE)
  <2>1. /\ LogFits(steps, s.events \o tail, s.t, next)
        /\ next \in DOMAIN steps => Open(steps, s.events \o tail, next, FALSE)
    BY <1>3, <1>4, <1>6, <1>11, <1>19, AdvanceFits
  <2>2. QED BY <1>16, <2>1
<1>21. IsSession(u)
  <2>1. ScenarioOf(u).steps = steps
    BY <1>1, <1>10 DEF ScenarioOf
  <2>2. u.index \in 1..l + 1 /\ u.done \in BOOLEAN /\ u.discharging \in BOOLEAN
    <3>1. u.index \in 1..l + 1
      BY <1>4, <1>6, <1>10
    <3>2. (next > l) \in BOOLEAN
      OBVIOUS
    <3>3. QED BY <1>10, <3>1, <3>2
  <2>3. ~u.done => Open(steps, u.events, u.index, u.discharging)
    BY <1>6, <1>10, <1>20
  <2>4. QED BY <1>4, <1>10, <1>20, <2>1, <2>2, <2>3, SessionParts
<1>22. s.index < u.index /\ s.index <= u.index /\ u.index \in Nat
  BY <1>4, <1>6, <1>10
<1>23. Follows(s, u, FALSE)
  <2>1. ASSUME NEW k \in DOMAIN tail
        PROVE  tail[k].step \in s.index..u.index /\ ~Answering(tail[k])
    <3>1. tail[k].step \in s.index..u.index
      BY <1>4, <1>10, <1>11, <1>18
    <3>2. k < next - at \/ k = next - at
      BY <1>4, <1>11, <1>18
    <3>3. ~Answering(tail[k])
      BY <1>18, <3>2 DEF Answering
    <3>4. QED BY <3>1, <3>3
  <2>2. QED BY <1>10, <1>16, <1>17, <1>22, <2>1, FollowsTail
<1>24. u.done \/ (u.events # <<>> /\ u.index = u.events[Len(u.events)].step)
  <2>1. ASSUME ~u.done PROVE u.events # <<>> /\ u.index = u.events[Len(u.events)].step
    <3>1. ~(next > l)
      BY <1>10, <2>1
    <3>2. Len(tail) = next - at /\ next - at \in DOMAIN tail /\ next - at >= 1
      BY <1>6, <1>11, <1>17, <3>1
    <3>3. Len(u.events) = Len(s.events) + Len(tail)
      <4>1. PICK log : log = s.events
        OBVIOUS
      <4>2. IsList(log) /\ IsList(tail) /\ u.events = log \o tail
        BY <1>16, <1>17, <4>1
      <4>3. Len(log \o tail) = Len(log) + Len(tail)
        BY <4>2, ListConcat
      <4>4. QED BY <4>1, <4>2, <4>3
    <3>4. PICK m \in Nat : m = Len(s.events)
      BY <1>16 DEF IsList
    <3>5. (s.events \o tail)[m + (next - at)] = tail[next - at]
      <4>1. \A k \in Len(s.events) + 1..Len(s.events) + Len(tail) :
               (s.events \o tail)[k] = tail[k - Len(s.events)]
        BY <1>16, <1>17, ListConcat
      <4>2. m + (next - at) \in m + 1..m + (next - at) /\ (m + (next - at)) - m = next - at
        BY <1>11, <3>2, <3>4
      <4>3. QED BY <3>2, <3>4, <4>1, <4>2
    <3>6. u.events[Len(u.events)] = tail[next - at]
      BY <1>16, <3>2, <3>3, <3>4, <3>5
    <3>7. tail[next - at].step = next
      <4>1. tail[next - at].step = at + (next - at)
        BY <1>18, <3>2
      <4>2. at + (next - at) = next
        BY <1>4, <1>11
      <4>3. QED BY <4>1, <4>2
    <3>8. Len(u.events) # 0
      BY <1>11, <3>2, <3>3, <3>4
    <3>9. u.events # <<>>
      BY <3>8
    <3>10. QED BY <1>10, <3>6, <3>7, <3>9
  <2>2. QED BY <2>1
<1>25. ASSUME NEW k \in Len(s.events) + 1..Len(u.events)
       PROVE  u.events[k].type \in {"step_skipped", "step_started"}
  <2>1. PICK log, both : log = s.events /\ both = log \o tail
    OBVIOUS
  <2>2. PICK m \in Nat, n \in Nat : m = Len(log) /\ n = Len(tail) /\ DOMAIN tail = 1..n
    BY <1>16, <1>17, <2>1, ListIsSeq DEF IsList
  <2>3. IsList(log) /\ IsList(tail)
    BY <1>16, <1>17, <2>1
  <2>4. Len(both) = m + n /\ \A j \in m + 1..m + n : both[j] = tail[j - m]
    BY <2>1, <2>2, <2>3, ListConcat
  <2>5. PICK d \in DOMAIN tail : u.events[k] = tail[d]
    <3>1. k \in m + 1..m + n /\ u.events[k] = both[k]
      BY <1>16, <2>1, <2>2, <2>4
    <3>2. k - m \in 1..n
      BY <3>1
    <3>3. QED BY <2>2, <2>4, <3>1, <3>2
  <2>6. d \in Nat /\ at + d <= next
    BY <1>18
  <2>7. d < next - at \/ d = next - at
    <3>1. next \in Nat /\ at \in Nat
      BY <1>11
    <3>2. QED BY <2>6, <3>1
  <2>8. QED BY <1>18, <2>5, <2>7
<1>26. QED BY <1>10, <1>21, <1>22, <1>23, <1>24, <1>25

-----------------------------------------------------------------------------
(* Calls that stay in the step, and calls that leave it *)

Stays(s, u, answers) ==
    /\ IsRunning(u) /\ Follows(s, u, answers)
    /\ u.index = s.index /\ (u.discharging => s.discharging)

Leaves(s, u, answers) == IsSession(u) /\ Follows(s, u, answers) /\ (u.discharging => s.discharging)

LEMMA FollowsItself ==
    ASSUME NEW s, IsList(s.events), s.index \in Nat, NEW answers
    PROVE  Follows(s, s, answers)
<1>1. PICK m \in Nat : m = Len(s.events)
  BY DEF IsList
<1>2. m <= m /\ \A k \in m + 1..m : FALSE
  OBVIOUS
<1>3. s.index <= s.index
  OBVIOUS
<1>4. QED BY <1>1, <1>2, <1>3 DEF Follows

LEMMA StaysItself ==
    ASSUME NEW s, IsRunning(s), NEW answers
    PROVE  Stays(s, s, answers)
  BY RunningParts, FollowsItself DEF Stays

\* The same session but for fields that the log does not depend on.
LEMMA StaysAlike ==
    ASSUME NEW s, IsRunning(s), NEW u, DOMAIN u = SessionFields,
           <<u.file, u.kind, u.variant, u.scenario, u.index, u.done, u.events, u.discharging, u.t>> =
               <<s.file, s.kind, s.variant, s.scenario, s.index, s.done, s.events, s.discharging, s.t>>,
           NEW answers
    PROVE  Stays(s, u, answers)
<1>1. /\ u.file = s.file /\ u.kind = s.kind /\ u.variant = s.variant /\ u.scenario = s.scenario
      /\ u.index = s.index /\ u.done = s.done /\ u.events = s.events
      /\ u.discharging = s.discharging /\ u.t = s.t
  OBVIOUS
<1>2. IsRunning(u)
  BY <1>1, RunsAlike
<1>3. Follows(s, s, answers)
  BY RunningParts, FollowsItself
<1>4. Follows(s, u, answers)
  BY <1>1, <1>3 DEF Follows
<1>5. QED BY <1>1, <1>2, <1>4 DEF Stays

LEMMA EmitStays ==
    ASSUME NEW s, IsRunning(s), NEW type, NEW data, NEW u, u = Emit(s, type, data),
           type \notin Ends \cup {"step_started", "discharge_started", "discharge_stopped",
                                 "attempt_aborted"},
           type = "hold_progress" =>
              (~s.discharging <=> StepAt(s, s.index).interaction = "aim_and_hold"),
           NEW answers, type = "choice_made" => answers
    PROVE  /\ Stays(s, u, answers) /\ u.discharging = s.discharging
           /\ u.held = s.held /\ u.onTarget = s.onTarget /\ u.pinPulled = s.pinPulled
           /\ u.scenario = s.scenario
<1>1. IsRunning(u) /\ Follows(s, u, type = "choice_made")
  BY EmitKeeps
<1>2. Follows(s, u, answers)
  BY <1>1 DEF Follows
<1>3. /\ u.index = s.index /\ u.discharging = s.discharging /\ u.held = s.held
      /\ u.onTarget = s.onTarget /\ u.pinPulled = s.pinPulled /\ u.scenario = s.scenario
  <2>1. /\ <<u.file, u.kind, u.variant, u.scenario, u.t, u.index, u.done, u.discharging>> =
             <<s.file, s.kind, s.variant, s.scenario, s.t, s.index, s.done, s.discharging>>
        /\ <<u.held, u.onTarget, u.pinPulled>> = <<s.held, s.onTarget, s.pinPulled>>
    <3>1. PICK entry : entry = <<Entry(s, type, s.index, data)>>
      OBVIOUS
    <3>2. QED BY <3>1, EmitParts
  <2>2. QED BY <2>1
<1>4. QED BY <1>1, <1>2, <1>3 DEF Stays

LEMMA StaysTwice ==
    ASSUME NEW s, IsRunning(s), NEW u, NEW v, NEW answers, Stays(s, u, answers), Stays(u, v, answers)
    PROVE  Stays(s, v, answers)
<1>1. IsRunning(u) /\ IsRunning(v) /\ Follows(s, u, answers) /\ Follows(u, v, answers) /\ u.index = s.index
      /\ v.index = u.index
  BY DEF Stays
<1>2. IsList(s.events) /\ IsList(u.events) /\ IsList(v.events) /\ s.index \in Nat /\ v.index \in Nat
  BY <1>1, RunningParts
<1>3. Follows(s, v, answers)
  BY <1>1, <1>2, FollowsTwice
<1>4. QED BY <1>1, <1>3 DEF Stays

LEMMA StaysLeaves ==
    ASSUME NEW s, IsRunning(s), NEW u, NEW answers, Stays(s, u, answers)
    PROVE  Leaves(s, u, answers)
  BY DEF Stays, Leaves, IsRunning

\* What stays, then leaves, leaves.
LEMMA StaysThenLeaves ==
    ASSUME NEW s, IsRunning(s), NEW u, NEW v, NEW answers, Stays(s, u, answers), Leaves(u, v, answers)
    PROVE  Leaves(s, v, answers)
<1>1. IsRunning(u) /\ IsSession(v) /\ Follows(s, u, answers) /\ Follows(u, v, answers) /\ u.index = s.index
  BY DEF Stays, Leaves
<1>2. IsList(s.events) /\ IsList(u.events) /\ s.index \in Nat /\ IsList(ScenarioOf(u).steps)
  BY <1>1, RunningParts DEF IsRunning
<1>3. IsList(v.events) /\ v.index \in Nat
  <2>1. IsList(v.events) /\ v.index \in 1..Len(ScenarioOf(v).steps) + 1
    BY <1>1 DEF IsSession, IsList
  <2>2. v.scenario = u.scenario
    BY <1>1 DEF Follows
  <2>3. Len(ScenarioOf(v).steps) \in Nat
    BY <1>2, <2>2 DEF ScenarioOf, IsList
  <2>4. QED BY <2>1, <2>3
<1>4. Follows(s, v, answers)
  BY <1>1, <1>2, <1>3, FollowsTwice
<1>5. QED BY <1>1, <1>4 DEF Leaves, Stays

\* Ending a step and going on to the next.
LEMMA EndLeaves ==
    ASSUME NEW s, IsRunning(s), ~s.discharging, NEW type \in Ends, NEW data, NEW u,
           u = Advance(Emit(s, type, data)), NEW answers, type = "step_skipped" => answers
    PROVE  Leaves(s, u, answers)
<1>1. PICK ended : ended = Emit(s, type, data)
  OBVIOUS
<1>2. IsBetween(ended) /\ ended.index = s.index /\ Follows(s, ended, type = "step_skipped")
  <2>1. type \in Ends \cup {"attempt_aborted"}
    OBVIOUS
  <2>2. IsBetween(ended)
    BY <1>1, <2>1, EmitEnd
  <2>3. ended.index = s.index
    <3>1. PICK entry : entry = <<Entry(s, type, s.index, data)>>
      OBVIOUS
    <3>2. QED BY <1>1, <3>1, EmitParts
  <2>4. Follows(s, ended, type = "step_skipped")
    BY <1>1, <2>1, EmitEnd
  <2>5. QED BY <2>2, <2>3, <2>4
<1>3. IsSession(u) /\ ended.index < u.index /\ u.discharging = FALSE /\ Follows(ended, u, FALSE)
  BY <1>1, <1>2, AdvanceKeeps
<1>4. Follows(s, ended, answers) /\ Follows(ended, u, answers)
  BY <1>2, <1>3 DEF Follows
<1>5. IsList(s.events) /\ s.index \in Nat /\ IsList(ended.events)
  BY <1>2, RunningParts DEF IsBetween, LogFits
<1>6. IsList(u.events) /\ u.index \in Nat
  <2>1. IsList(u.events) /\ u.index \in 1..Len(ScenarioOf(u).steps) + 1
    BY <1>3 DEF IsSession, IsList
  <2>2. u.scenario = ended.scenario
    BY <1>3 DEF Follows
  <2>3. Len(ScenarioOf(u).steps) \in Nat
    BY <1>2, <2>2 DEF ScenarioOf, IsBetween, IsList
  <2>4. QED BY <2>1, <2>3
<1>7. Follows(s, u, answers)
  BY <1>2, <1>4, <1>5, <1>6, FollowsTwice
<1>8. QED BY <1>3, <1>7 DEF Leaves

LEMMA CompleteLeaves ==
    ASSUME NEW s, IsRunning(s), ~s.discharging, NEW data, NEW answers
    PROVE  Leaves(s, Complete(s, data), answers)
  BY EndLeaves DEF Complete, Ends

LEMMA StopStays ==
    ASSUME NEW s, IsRunning(s), NEW answers
    PROVE  Stays(s, StopDischarge(s), answers) /\ StopDischarge(s).discharging = FALSE
<1>1. PICK u : u = StopDischarge(s)
  OBVIOUS
<1>2. CASE ~s.discharging
  <2>1. u = s /\ s.discharging = FALSE
    BY <1>1, <1>2, RunningParts DEF StopDischarge
  <2>2. QED BY <1>1, <2>1, StaysItself
<1>3. CASE s.discharging
  <2>1. PICK e : e = Entry(s, "discharge_stopped", s.index, None)
    OBVIOUS
  <2>2. PICK tail : tail = <<e>>
    OBVIOUS
  <2>3. DOMAIN s = SessionFields /\ IsList(s.events) /\ s.done = FALSE
    BY RunningParts
  <2>4. u = [[s EXCEPT !.discharging = FALSE] EXCEPT !.events = Append(@, e)]
    BY <1>1, <1>3, <2>1, <2>3 DEF StopDischarge, Emit, Current, Entry, SessionFields
  <2>5. Append(s.events, e) = s.events \o tail
    BY <2>2, <2>3, ListAppend
  <2>6. /\ DOMAIN u = SessionFields /\ u.events = s.events \o tail
        /\ u.file = s.file /\ u.kind = s.kind /\ u.variant = s.variant /\ u.scenario = s.scenario
        /\ u.t = s.t /\ u.index = s.index /\ u.done = s.done /\ u.discharging = FALSE
    BY <2>3, <2>4, <2>5 DEF SessionFields
  <2>7. PICK steps : steps = ScenarioOf(s).steps
    OBVIOUS
  <2>8. ScenarioOf(u).steps = steps
    BY <2>6, <2>7 DEF ScenarioOf
  <2>9. e.t = s.t /\ e.step = s.index /\ e.type = "discharge_stopped"
    BY <2>1 DEF Entry
  <2>10. /\ IsList(steps) /\ s.t \in Nat /\ s.index \in Nat
         /\ LogFits(steps, s.events, s.t, s.index) /\ Open(steps, s.events, s.index, TRUE)
    BY <1>3, <2>7, RunningParts DEF IsRunning, Open
  <2>11. steps[s.index].interaction = "operate_extinguisher"
    BY <2>10 DEF Open
  <2>12. s.t <= s.t /\ s.index <= s.index /\ s.index \in s.index..s.index
    BY <2>10
  <2>13. LogFits(steps, s.events \o <<e>>, s.t, s.index) /\ Open(steps, s.events \o <<e>>, s.index, ~TRUE)
    BY <2>9, <2>10, <2>11, <2>12, LeverFits
  <2>14. IsRunning(u)
    BY <2>2, <2>3, <2>6, <2>8, <2>10, <2>13, RunningIf
  <2>15. IsList(tail) /\ DOMAIN tail = 1..1 /\ tail[1] = e
    BY <2>2, OneEntry
  <2>16. \A k \in DOMAIN tail : /\ tail[k].step \in s.index..u.index
                                /\ Answering(tail[k]) => answers /\ tail[k].step = s.index
    BY <2>6, <2>9, <2>12, <2>15 DEF Answering
  <2>17. Follows(s, u, answers)
    BY <2>3, <2>6, <2>10, <2>12, <2>15, <2>16, FollowsTail
  <2>18. QED BY <1>1, <2>6, <2>14, <2>17 DEF Stays
<1>4. QED BY <1>2, <1>3

LEMMA PressRuns ==
    ASSUME NEW s, IsRunning(s), StepAt(s, s.index).interaction = "operate_extinguisher", NEW answers
    PROVE  /\ IsRunning(StartDischarge(s)) /\ Follows(s, StartDischarge(s), answers)
           /\ StartDischarge(s).index = s.index
<1>1. PICK u : u = StartDischarge(s)
  OBVIOUS
<1>2. CASE ~(s.pinPulled /\ ~s.discharging)
  <2>1. u = s
    BY <1>1, <1>2 DEF StartDischarge
  <2>2. QED BY <1>1, <2>1, StaysItself DEF Stays
<1>3. CASE s.pinPulled /\ ~s.discharging
  <2>1. PICK e : e = Entry(s, "discharge_started", s.index, None)
    OBVIOUS
  <2>2. PICK tail : tail = <<e>>
    OBVIOUS
  <2>3. DOMAIN s = SessionFields /\ IsList(s.events) /\ s.done = FALSE
    BY RunningParts
  <2>4. u = [[s EXCEPT !.discharging = TRUE] EXCEPT !.events = Append(@, e)]
    BY <1>1, <1>3, <2>1, <2>3 DEF StartDischarge, Emit, Current, Entry, SessionFields
  <2>5. Append(s.events, e) = s.events \o tail
    BY <2>2, <2>3, ListAppend
  <2>6. /\ DOMAIN u = SessionFields /\ u.events = s.events \o tail
        /\ u.file = s.file /\ u.kind = s.kind /\ u.variant = s.variant /\ u.scenario = s.scenario
        /\ u.t = s.t /\ u.index = s.index /\ u.done = s.done /\ u.discharging = TRUE
    BY <2>3, <2>4, <2>5 DEF SessionFields
  <2>7. PICK steps : steps = ScenarioOf(s).steps
    OBVIOUS
  <2>8. ScenarioOf(u).steps = steps
    BY <2>6, <2>7 DEF ScenarioOf
  <2>9. e.t = s.t /\ e.step = s.index /\ e.type = "discharge_started"
    BY <2>1 DEF Entry
  <2>10. /\ IsList(steps) /\ s.t \in Nat /\ s.index \in Nat
         /\ LogFits(steps, s.events, s.t, s.index) /\ Open(steps, s.events, s.index, FALSE)
    BY <1>3, <2>7, RunningParts DEF IsRunning, Open
  <2>11. steps[s.index].interaction = "operate_extinguisher"
    BY <2>7 DEF StepAt
  <2>12. s.t <= s.t /\ s.index <= s.index /\ s.index \in s.index..s.index
    BY <2>10
  <2>13. LogFits(steps, s.events \o <<e>>, s.t, s.index) /\ Open(steps, s.events \o <<e>>, s.index, ~FALSE)
    BY <2>9, <2>10, <2>11, <2>12, LeverFits
  <2>14. IsRunning(u)
    BY <2>2, <2>3, <2>6, <2>8, <2>10, <2>13, RunningIf
  <2>15. IsList(tail) /\ DOMAIN tail = 1..1 /\ tail[1] = e
    BY <2>2, OneEntry
  <2>16. \A k \in DOMAIN tail : /\ tail[k].step \in s.index..u.index
                                /\ Answering(tail[k]) => answers /\ tail[k].step = s.index
    BY <2>6, <2>9, <2>12, <2>15 DEF Answering
  <2>17. Follows(s, u, answers)
    BY <2>3, <2>6, <2>10, <2>12, <2>15, <2>16, FollowsTail
  <2>18. QED BY <1>1, <2>6, <2>14, <2>17
<1>4. QED BY <1>2, <1>3

LEMMA SkipLeaves ==
    ASSUME NEW s, IsRunning(s)
    PROVE  Leaves(s, Skip(s), TRUE)
<1>1. PICK u : u = StopDischarge(s)
  OBVIOUS
<1>2. Stays(s, u, TRUE) /\ u.discharging = FALSE /\ IsRunning(u)
  BY <1>1, StopStays DEF Stays
<1>3. Leaves(u, Advance(Emit(u, "step_skipped", "no_progress")), TRUE)
  BY <1>2, EndLeaves DEF Ends
<1>4. Leaves(s, Advance(Emit(u, "step_skipped", "no_progress")), TRUE)
  BY <1>2, <1>3, StaysThenLeaves
<1>5. QED BY <1>1, <1>4 DEF Skip

LEMMA AbortLeaves ==
    ASSUME NEW s, IsRunning(s), NEW answers
    PROVE  Leaves(s, Abort(s), answers)
<1>1. PICK u : u = StopDischarge(s)
  OBVIOUS
<1>2. Stays(s, u, answers) /\ u.discharging = FALSE /\ IsRunning(u)
  BY <1>1, StopStays DEF Stays
<1>3. PICK ended : ended = Emit(u, "attempt_aborted", None)
  OBVIOUS
<1>4. "attempt_aborted" \in Ends \cup {"attempt_aborted"} /\ ~u.discharging
  BY <1>2
<1>5. IsBetween(ended) /\ ended.index = u.index /\ ended.discharging = FALSE /\ Follows(u, ended, FALSE)
  <2>1. PICK type \in Ends \cup {"attempt_aborted"} : type = "attempt_aborted"
    BY <1>4
  <2>2. ended = Emit(u, type, None) /\ ~(type = "step_skipped")
    BY <1>3, <2>1
  <2>3. IsBetween(ended)
    BY <1>2, <1>4, <2>2, EmitEnd
  <2>4. PICK entry : entry = <<Entry(u, type, u.index, None)>>
    OBVIOUS
  <2>5. ended.index = u.index /\ ended.discharging = FALSE
    BY <1>2, <2>2, <2>4, EmitParts
  <2>6. Follows(u, ended, type = "step_skipped")
    BY <1>2, <1>4, <2>2, EmitEnd
  <2>7. QED BY <2>2, <2>3, <2>5, <2>6
<1>6. PICK v : v = [ended EXCEPT !.done = TRUE]
  OBVIOUS
<1>7. DOMAIN ended = SessionFields
  BY <1>5 DEF IsBetween
<1>8. /\ DOMAIN v = SessionFields /\ v.done = TRUE
      /\ v.file = ended.file /\ v.kind = ended.kind /\ v.variant = ended.variant
      /\ v.scenario = ended.scenario /\ v.t = ended.t /\ v.index = ended.index
      /\ v.events = ended.events /\ v.discharging = FALSE
  BY <1>5, <1>6, <1>7 DEF SessionFields
<1>9. Follows(u, v, answers)
  BY <1>5, <1>8 DEF Follows
<1>10. ScenarioOf(v) = ScenarioOf(ended) /\ ScenarioOf(v) = ScenarioOf(u)
  BY <1>5, <1>8 DEF ScenarioOf, Follows
<1>11. v.index \in 1..Len(ScenarioOf(v).steps) + 1
  BY <1>2, <1>5, <1>8, <1>10, RunningParts
<1>12. LogFits(ScenarioOf(v).steps, v.events, v.t, v.index)
  BY <1>5, <1>8, <1>10 DEF IsBetween
<1>13. IsSession(v)
  <2>1. v.done \in BOOLEAN /\ v.discharging \in BOOLEAN /\ (v.done => ~v.discharging) /\ (~v.done => FALSE)
    BY <1>8
  <2>2. QED BY <1>8, <1>11, <1>12, <2>1, SessionParts
<1>14. Leaves(u, v, answers)
  BY <1>8, <1>9, <1>13 DEF Leaves
<1>15. Leaves(s, v, answers)
  BY <1>2, <1>14, StaysThenLeaves
<1>16. Abort(s) = v
  <2>1. s.done = FALSE
    BY RunningParts
  <2>2. QED BY <1>1, <1>3, <1>6, <2>1 DEF Abort
<1>17. QED BY <1>15, <1>16

LEMMA FinishLeaves ==
    ASSUME NEW s, IsRunning(s), NEW outcome, NEW answers
    PROVE  Leaves(s, FinishExtinguisher(s, outcome), answers)
<1>1. PICK u : u = StopDischarge(s)
  OBVIOUS
<1>2. Stays(s, u, answers) /\ u.discharging = FALSE /\ IsRunning(u)
  BY <1>1, StopStays DEF Stays
<1>3. Leaves(u, Complete(u, outcome), answers)
  BY <1>2, CompleteLeaves
<1>4. Leaves(s, Complete(u, outcome), answers)
  BY <1>2, <1>3, StaysThenLeaves
<1>5. QED BY <1>1, <1>4 DEF FinishExtinguisher

\* What is logged of a step before it is completed.
LEMMA NoteThenCompleteLeaves ==
    ASSUME NEW s, IsRunning(s), ~s.discharging, NEW note, NEW noteData, NEW data, NEW answers,
           note \in {"target_hit", "marker_found", "position_reached", "zone_marked"}
    PROVE  Leaves(s, Complete(Emit(s, note, noteData), data), answers)
<1>1. PICK u : u = Emit(s, note, noteData)
  OBVIOUS
<1>2. note \notin Ends \cup {"step_started", "discharge_started", "discharge_stopped", "attempt_aborted"}
      /\ note # "hold_progress" /\ note # "choice_made"
  BY DEF Ends
<1>3. Stays(s, u, answers) /\ u.discharging = s.discharging
  BY <1>1, <1>2, EmitStays
<1>4. Leaves(u, Complete(u, data), answers)
  BY <1>3, CompleteLeaves DEF Stays
<1>5. QED BY <1>1, <1>3, <1>4, StaysThenLeaves

LEMMA PullPinStays ==
    ASSUME NEW s, IsRunning(s), NEW answers
    PROVE  Stays(s, PullPin(s), answers)
<1>1. CASE s.pinPulled
  BY <1>1, StaysItself DEF PullPin
<1>2. CASE ~s.pinPulled
  <2>1. PICK u : u = [s EXCEPT !.pinPulled = TRUE]
    OBVIOUS
  <2>2. DOMAIN s = SessionFields
    BY RunningParts
  <2>3. /\ DOMAIN u = SessionFields
        /\ <<u.file, u.kind, u.variant, u.scenario, u.index, u.done, u.events, u.discharging, u.t>> =
             <<s.file, s.kind, s.variant, s.scenario, s.index, s.done, s.events, s.discharging, s.t>>
    BY <2>1, <2>2 DEF SessionFields
  <2>4. Stays(s, u, answers) /\ IsRunning(u)
    BY <2>3, StaysAlike DEF Stays
  <2>5. PICK v : v = Emit(u, "pin_pulled", None)
    OBVIOUS
  <2>6. "pin_pulled" \notin Ends \cup {"step_started", "discharge_started", "discharge_stopped", "attempt_aborted"}
        /\ "pin_pulled" # "hold_progress" /\ "pin_pulled" # "choice_made"
    BY DEF Ends
  <2>7. Stays(u, v, answers)
    BY <2>4, <2>5, <2>6, EmitStays
  <2>8. PullPin(s) = v
    BY <1>2, <2>1, <2>5 DEF PullPin
  <2>9. QED BY <2>4, <2>7, <2>8, StaysTwice
<1>3. QED BY <1>1, <1>2

LEMMA RepositionStays ==
    ASSUME NEW s, IsRunning(s), NEW answers
    PROVE  Stays(s, Reposition(s), answers)
<1>1. PICK u : u = Emit(s, "anchor_repositioned", None)
  OBVIOUS
<1>2. "anchor_repositioned" \notin Ends \cup {"step_started", "discharge_started", "discharge_stopped", "attempt_aborted"}
      /\ "anchor_repositioned" # "hold_progress" /\ "anchor_repositioned" # "choice_made"
  BY DEF Ends
<1>3. QED BY <1>1, <1>2, EmitStays DEF Reposition

\* A sample of a step that is held, with the lever up, or sprayed, with the lever down.
LEMMA SampleStays ==
    ASSUME NEW s, IsRunning(s), NEW zone, NEW aim, NEW answers,
           ~s.discharging <=> StepAt(s, s.index).interaction = "aim_and_hold"
    PROVE  /\ Stays(s, Sample(s, zone, aim), answers)
           /\ Sample(s, zone, aim).discharging = s.discharging
           /\ Sample(s, zone, aim).held = s.held
           /\ Sample(s, zone, aim).scenario = s.scenario
<1>1. PICK hits : hits = s.onTarget + (IF zone = "base" THEN 1 ELSE 0)
  OBVIOUS
<1>2. PICK u : u = [s EXCEPT !.onTarget = hits]
  OBVIOUS
<1>3. DOMAIN s = SessionFields
  BY RunningParts
<1>4. /\ DOMAIN u = SessionFields /\ u.held = s.held /\ u.scenario = s.scenario /\ u.index = s.index
      /\ u.discharging = s.discharging
      /\ <<u.file, u.kind, u.variant, u.scenario, u.index, u.done, u.events, u.discharging, u.t>> =
           <<s.file, s.kind, s.variant, s.scenario, s.index, s.done, s.events, s.discharging, s.t>>
  BY <1>2, <1>3 DEF SessionFields
<1>5. Stays(s, u, answers) /\ IsRunning(u)
  BY <1>4, StaysAlike DEF Stays
<1>6. PICK data : data = [zone |-> zone, onTarget |-> hits, aim |-> aim]
  OBVIOUS
<1>7. PICK v : v = Emit(u, "hold_progress", data)
  OBVIOUS
<1>8. "hold_progress" \notin Ends \cup {"step_started", "discharge_started", "discharge_stopped", "attempt_aborted"}
      /\ "hold_progress" # "choice_made"
  BY DEF Ends
<1>9. ~u.discharging <=> StepAt(u, u.index).interaction = "aim_and_hold"
  BY <1>4 DEF StepAt, ScenarioOf
<1>10. Stays(u, v, answers) /\ v.discharging = u.discharging /\ v.held = u.held /\ v.scenario = u.scenario
  BY <1>5, <1>7, <1>8, <1>9, EmitStays
<1>11. Sample(s, zone, aim) = v
  BY <1>1, <1>2, <1>6, <1>7 DEF Sample
<1>12. Stays(s, v, answers)
  BY <1>5, <1>10, StaysTwice
<1>13. QED BY <1>4, <1>10, <1>11, <1>12

LEMMA HoldLeaves ==
    ASSUME NEW s, IsRunning(s), NEW zone, NEW answers,
           StepAt(s, s.index).interaction = "aim_and_hold"
    PROVE  Leaves(s, HoldSample(s, zone), answers)
<1>1. DOMAIN s = SessionFields /\ s.discharging = FALSE
  <2>1. /\ DOMAIN s = SessionFields /\ s.discharging \in BOOLEAN
        /\ Open(ScenarioOf(s).steps, s.events, s.index, s.discharging)
    BY RunningParts
  <2>2. QED BY <2>1 DEF Open, StepAt
<1>2. PICK u : u = [s EXCEPT !.held = @ + 1]
  OBVIOUS
<1>3. /\ DOMAIN u = SessionFields /\ u.scenario = s.scenario /\ u.index = s.index
      /\ u.discharging = s.discharging
      /\ <<u.file, u.kind, u.variant, u.scenario, u.index, u.done, u.events, u.discharging, u.t>> =
           <<s.file, s.kind, s.variant, s.scenario, s.index, s.done, s.events, s.discharging, s.t>>
  BY <1>1, <1>2 DEF SessionFields
<1>4. Stays(s, u, answers) /\ IsRunning(u)
  BY <1>3, StaysAlike DEF Stays
<1>5. PICK v : v = Sample(u, zone, None)
  OBVIOUS
<1>6. ~u.discharging <=> StepAt(u, u.index).interaction = "aim_and_hold"
  BY <1>1, <1>3 DEF StepAt, ScenarioOf
<1>7. Stays(u, v, answers) /\ v.discharging = u.discharging
  BY <1>4, <1>5, <1>6, SampleStays
<1>8. Stays(s, v, answers) /\ IsRunning(v) /\ v.discharging = FALSE
  BY <1>1, <1>3, <1>4, <1>7, StaysTwice DEF Stays
<1>9. HoldSample(s, zone) = v \/ HoldSample(s, zone) = Complete(v, None)
  BY <1>2, <1>5 DEF HoldSample
<1>10. Leaves(s, v, answers)
  BY <1>8, StaysLeaves
<1>11. Leaves(v, Complete(v, None), answers)
  BY <1>8, CompleteLeaves
<1>12. Leaves(s, Complete(v, None), answers)
  BY <1>8, <1>11, StaysThenLeaves
<1>13. QED BY <1>9, <1>10, <1>12

\* The forbidden options among those picked, and then the end of the step.
LEMMA ForbiddenStays ==
    ASSUME NEW s, IsRunning(s), NEW picked, NEW answers,
           IsFiniteSet(DOMAIN StepAt(s, s.index).options)
    PROVE  Stays(s, EmitForbidden(s, picked), answers) /\ EmitForbidden(s, picked).discharging = s.discharging
<1>1. PICK options : options = StepAt(s, s.index).options
  OBVIOUS
<1>2. PICK positions : positions = {k \in DOMAIN options : options[k].id \in picked /\ options[k].forbidden}
  OBVIOUS
<1>3. IsFiniteSet(positions) /\ positions \subseteq DOMAIN options
  BY <1>1, <1>2, FS_Subset
<1>4. PICK n \in Nat : n = Cardinality(positions)
  BY <1>3, FS_CardinalityType
<1>5. PICK bad : bad = InOrder(options, positions)
  OBVIOUS
<1>6. DOMAIN bad = 1..n
  BY <1>4, <1>5 DEF InOrder
<1>7. PICK tail : tail = [k \in 1..n |-> Entry(s, "forbidden_action", s.index, bad[k].tag)]
  OBVIOUS
<1>8. IsList(tail) /\ DOMAIN tail = 1..n
  BY <1>7, FunctionIsList
<1>9. ASSUME NEW k \in DOMAIN tail
      PROVE  tail[k].t = s.t /\ tail[k].step = s.index /\ tail[k].type = "forbidden_action"
  BY <1>7, <1>8 DEF Entry
<1>10. PICK u : u = EmitForbidden(s, picked)
  OBVIOUS
<1>11. u = [s EXCEPT !.events = @ \o tail]
  BY <1>1, <1>2, <1>5, <1>6, <1>7, <1>10 DEF EmitForbidden
<1>12. DOMAIN s = SessionFields
  BY RunningParts
<1>13. /\ DOMAIN u = SessionFields /\ u.events = s.events \o tail
       /\ u.file = s.file /\ u.kind = s.kind /\ u.variant = s.variant /\ u.scenario = s.scenario
       /\ u.t = s.t /\ u.index = s.index /\ u.done = s.done /\ u.discharging = s.discharging
  BY <1>11, <1>12 DEF SessionFields
<1>14. PICK steps : steps = ScenarioOf(s).steps
  OBVIOUS
<1>15. ScenarioOf(u).steps = steps
  BY <1>13, <1>14 DEF ScenarioOf
<1>16. /\ IsList(steps) /\ s.t \in Nat /\ s.discharging \in BOOLEAN /\ s.index \in Nat /\ s.done = FALSE
       /\ LogFits(steps, s.events, s.t, s.index) /\ Open(steps, s.events, s.index, s.discharging)
  BY <1>14, RunningParts DEF IsRunning
<1>17. \A k \in DOMAIN tail : Neutral(steps, tail[k], s.t, s.index, s.discharging)
  BY <1>9 DEF Neutral, Ends
<1>18. s.t <= s.t /\ s.index <= s.index /\ s.index \in s.index..s.index
  BY <1>16
<1>19. LogFits(steps, s.events \o tail, s.t, s.index) /\ Open(steps, s.events \o tail, s.index, s.discharging)
  BY <1>8, <1>16, <1>17, <1>18, NeutralFits
<1>20. IsRunning(u)
  BY <1>13, <1>15, <1>16, <1>19, RunningIf
<1>21. \A k \in DOMAIN tail : /\ tail[k].step \in s.index..u.index
                              /\ Answering(tail[k]) => answers /\ tail[k].step = s.index
  BY <1>9, <1>13, <1>18 DEF Answering
<1>22. Follows(s, u, answers)
  BY <1>8, <1>13, <1>16, <1>18, <1>21, RunningParts, FollowsTail
<1>23. QED BY <1>10, <1>13, <1>20, <1>22 DEF Stays

LEMMA ChooseLeaves ==
    ASSUME NEW s, IsRunning(s), ~s.discharging, NEW picked, NEW answers, answers,
           IsFiniteSet(DOMAIN StepAt(s, s.index).options)
    PROVE  Leaves(s, Choose(s, picked), answers)
<1>1. PICK u : u = Emit(s, "choice_made", picked)
  OBVIOUS
<1>2. "choice_made" \notin Ends \cup {"step_started", "discharge_started", "discharge_stopped", "attempt_aborted"}
      /\ "choice_made" # "hold_progress"
  BY DEF Ends
<1>3. Stays(s, u, answers) /\ u.discharging = s.discharging /\ u.scenario = s.scenario
  <2>1. PICK type : type = "choice_made"
    OBVIOUS
  <2>2. /\ u = Emit(s, type, picked) /\ (type = "choice_made" => answers) /\ type # "hold_progress"
        /\ type \notin Ends \cup {"step_started", "discharge_started", "discharge_stopped", "attempt_aborted"}
    BY <1>1, <1>2, <2>1
  <2>3. Stays(s, u, answers)
    BY <2>2, EmitStays
  <2>4. PICK entry : entry = <<Entry(s, type, s.index, picked)>>
    OBVIOUS
  <2>5. u.discharging = s.discharging /\ u.scenario = s.scenario
    BY <2>2, <2>4, EmitParts
  <2>6. QED BY <2>3, <2>5
<1>4. IsRunning(u) /\ u.index = s.index /\ StepAt(u, u.index) = StepAt(s, s.index)
  BY <1>3 DEF Stays, StepAt, ScenarioOf
<1>5. PICK v : v = EmitForbidden(u, picked)
  OBVIOUS
<1>6. Stays(u, v, answers) /\ v.discharging = u.discharging
  BY <1>4, <1>5, ForbiddenStays
<1>7. Stays(s, v, answers) /\ IsRunning(v) /\ ~v.discharging
  BY <1>3, <1>6, StaysTwice DEF Stays
<1>8. Leaves(v, Complete(v, None), answers)
  BY <1>7, CompleteLeaves
<1>9. Leaves(s, Complete(v, None), answers)
  BY <1>7, <1>8, StaysThenLeaves
<1>10. QED BY <1>1, <1>5, <1>9 DEF Choose

-----------------------------------------------------------------------------
(* Handlers *)

\* What a handler does to a drill: to the log it adds what follows, and an answer only if
\* the step that is answered was drawn.
Handles ==
    /\ UNCHANGED <<stored, mode>>
    /\ IsScreen(Steps, screen') /\ screen'.step = screen.step /\ screen'.saved = screen.saved
    /\ session'.discharging => Drawn({"operate_extinguisher"})
    /\ \/ session' = session
       \/ /\ ~session.done /\ session'.events # session.events
          /\ IsSession(session') /\ Follows(session, session', DrawnIsCurrent)

LEMMA StepsAreAList ==
    ASSUME NEW name \in Loaded, NEW kind \in Kinds, NEW v \in DOMAIN Scenario[name][kind]
    PROVE  IsList(Scenario[name][kind][v].steps)
<1>1. PICK file : file = FileOf(name, kind)
  OBVIOUS
<1>2. /\ DOMAIN Scenario[name][kind] = IdsIn(file.variants)
      /\ Scenario[name][kind][v] = Played(file, ById(file.variants, v))
  BY <1>1 DEF Scenario
<1>3. PICK variant : variant = ById(file.variants, v)
  OBVIOUS
<1>4. /\ name \in DOMAIN Files /\ "steps" \in DOMAIN Files[name]
      /\ Len(Files[name].steps) \in Nat /\ DOMAIN Files[name].steps = 1..Len(Files[name].steps)
  BY FilesAreLists DEF Loaded
<1>5. \E n \in Nat : DOMAIN file.steps = 1..n
  <2>1. CASE kind # "refresher"
    BY <1>1, <1>4, <2>1 DEF FileOf
  <2>2. CASE kind = "refresher"
    <3>1. PICK all : all = Files[name].steps
      OBVIOUS
    <3>2. PICK m \in Nat : m = Len(all) /\ DOMAIN all = 1..m
      BY <1>4, <3>1
    <3>3. PICK kept : kept = KeptSteps(Files[name])
      OBVIOUS
    <3>4. PICK positions : positions = {i \in DOMAIN all : all[i].id \in kept}
      OBVIOUS
    <3>5. file.steps = InOrder(all, positions)
      BY <1>1, <1>4, <2>2, <3>1, <3>3, <3>4 DEF FileOf, refresherScenario
    <3>6. IsFiniteSet(1..m) /\ positions \subseteq 1..m
      BY <3>2, <3>4, FS_Interval
    <3>7. Cardinality(positions) \in Nat
      BY <3>6, FS_Subset, FS_CardinalityType
    <3>8. DOMAIN file.steps = 1..Cardinality(positions)
      BY <3>5 DEF InOrder
    <3>9. QED BY <3>7, <3>8
  <2>3. QED BY <2>1, <2>2
<1>6. PICK n \in Nat : DOMAIN file.steps = 1..n
  BY <1>5
<1>7. PICK steps : steps = [i \in 1..n |-> PlayedStep(file, file.steps[i], variant)]
  OBVIOUS
<1>8. Scenario[name][kind][v].steps = steps
  BY <1>2, <1>3, <1>6, <1>7 DEF Played
<1>9. steps = [i \in 1..n |-> steps[i]]
  BY <1>7
<1>10. QED BY <1>8, <1>9, FunctionIsList

LEMMA IInvParts ==
    ASSUME IInv
    PROVE  /\ IsList(Steps) /\ IsList(session.events)
           /\ DOMAIN session = SessionFields /\ session.done \in BOOLEAN /\ session.discharging \in BOOLEAN
           /\ session.index \in Nat /\ session.index # 0
           /\ ~session.done => IsRunning(session)
           /\ Delays \subseteq Nat
           /\ \A i \in DOMAIN Steps : /\ Steps[i].path \in Nat /\ Steps[i].minCones \in Nat
                                      /\ IsFiniteSet(DOMAIN Steps[i].options)
           /\ Current(session) = IF session.done THEN 0 ELSE session.index
<1>1. /\ session.file \in Loaded /\ session.kind \in Kinds
      /\ session.variant \in DOMAIN Scenario[session.file][session.kind]
      /\ ScenarioOf(session) = Scenario[session.file][session.kind][session.variant]
  BY DEF IInv
<1>2. IsList(Steps)
  BY <1>1, StepsAreAList DEF Steps
<1>3. /\ DOMAIN session = SessionFields /\ IsList(session.events)
      /\ session.done \in BOOLEAN /\ session.discharging \in BOOLEAN
      /\ session.index \in 1..Len(Steps) + 1
  BY DEF IInv, IsSession, IsList, Steps
<1>4. session.index \in Nat /\ session.index # 0
  BY <1>2, <1>3 DEF IsList
<1>5. ~session.done => IsRunning(session)
  BY <1>2 DEF IInv, IsRunning, Steps
<1>6. PICK drill : drill = Scenario[session.file][session.kind][session.variant]
  OBVIOUS
<1>7. /\ \A i \in DOMAIN drill.steps :
            /\ drill.steps[i].path \in Nat /\ drill.steps[i].minCones \in Nat
            /\ IsFiniteSet(DOMAIN drill.steps[i].options)
      /\ \A rule \in drill.rules : rule.seconds \in Nat
  BY <1>1, <1>6, LoadedIsTyped
<1>8. Steps = drill.steps /\ ScenarioOf(session).rules = drill.rules
  BY <1>1, <1>6 DEF Steps
<1>9. Delays \subseteq Nat
  BY <1>7, <1>8 DEF Delays, Timed
<1>10. QED BY <1>2, <1>3, <1>4, <1>5, <1>7, <1>8, <1>9 DEF Current

\* The session that a handler finds.
LEMMA CallParts ==
    ASSUME IInv, ~session.done, NEW delay \in Nat, NEW s, s = Call(delay)
    PROVE  /\ IsRunning(s)
           /\ s.index = session.index /\ s.events = session.events /\ s.discharging = session.discharging
           /\ StepAt(s, s.index) = Steps[session.index]
           /\ session.index \in DOMAIN Steps
           /\ s.discharging => Steps[session.index].interaction = "operate_extinguisher"
           /\ IsFiniteSet(DOMAIN StepAt(s, s.index).options)
           /\ s.scenario = session.scenario /\ s.file = session.file /\ s.kind = session.kind
           /\ s.variant = session.variant
<1>1. IsRunning(session)
  BY IInvParts
<1>2. s = [session EXCEPT !.t = @ + delay]
  BY DEF Call
<1>3. /\ IsRunning(s)
      /\ <<s.file, s.kind, s.variant, s.scenario, s.index, s.done, s.events, s.discharging>> =
           <<session.file, session.kind, session.variant, session.scenario, session.index,
             session.done, session.events, session.discharging>>
  BY <1>1, <1>2, RunsLater
<1>4. /\ s.index = session.index /\ s.events = session.events /\ s.discharging = session.discharging
      /\ s.scenario = session.scenario /\ s.file = session.file /\ s.kind = session.kind
      /\ s.variant = session.variant
  BY <1>3
<1>5. StepAt(s, s.index) = Steps[session.index]
  BY <1>4 DEF StepAt, ScenarioOf, Steps
<1>6. session.index \in DOMAIN Steps
  BY <1>1, RunningParts DEF Steps
<1>7. s.discharging => Steps[session.index].interaction = "operate_extinguisher"
  BY <1>1, <1>4, RunningParts DEF Open, Steps
<1>8. QED BY <1>3, <1>4, <1>5, <1>6, <1>7, IInvParts

\* What it leaves behind, and what is drawn meanwhile.
LEMMA BecomesHandles ==
    ASSUME IInv, NEW delay \in Nat, NEW next, Becomes(next), UNCHANGED <<stored, mode>>,
           IsScreen(Steps, screen') /\ screen'.step = screen.step /\ screen'.saved = screen.saved,
           next.events = session.events \/
              (~session.done /\ IsSession(next) /\ Follows(Call(delay), next, DrawnIsCurrent)
                 /\ (next.discharging => Drawn({"operate_extinguisher"})))
    PROVE  Handles
<1>1. CASE next.events = session.events
  <2>1. session' = session
    BY <1>1 DEF Becomes
  <2>2. session.discharging => Drawn({"operate_extinguisher"})
    BY DEF IInv
  <2>3. QED BY <2>1, <2>2 DEF Handles
<1>2. CASE next.events # session.events
  <2>1. session' = next /\ ~session.done /\ IsSession(next)
    BY <1>2 DEF Becomes
  <2>2. PICK s : s = Call(delay)
    OBVIOUS
  <2>3. /\ s.index = session.index /\ s.events = session.events /\ s.scenario = session.scenario
        /\ s.file = session.file /\ s.kind = session.kind /\ s.variant = session.variant
    BY <2>1, <2>2, CallParts
  <2>4. Follows(s, next, DrawnIsCurrent)
    BY <1>2, <2>2
  <2>5. Follows(session, next, DrawnIsCurrent)
    BY <2>3, <2>4 DEF Follows
  <2>6. QED BY <1>2, <2>1, <2>5 DEF Handles
<1>3. QED BY <1>1, <1>2

LEMMA LeavesHandles ==
    ASSUME IInv, ~session.done, NEW delay \in Nat, NEW next, Leaves(Call(delay), next, DrawnIsCurrent),
           Becomes(next), UNCHANGED <<stored, mode>>,
           IsScreen(Steps, screen') /\ screen'.step = screen.step /\ screen'.saved = screen.saved
    PROVE  Handles
<1>1. IsSession(next) /\ Follows(Call(delay), next, DrawnIsCurrent)
      /\ (next.discharging => Call(delay).discharging)
  BY DEF Leaves
<1>2. PICK s : s = Call(delay)
  OBVIOUS
<1>3. s.discharging = session.discharging
  BY <1>2, CallParts
<1>4. next.discharging => Drawn({"operate_extinguisher"})
  BY <1>1, <1>2, <1>3 DEF IInv
<1>5. QED BY <1>1, <1>4, BecomesHandles

\* The lever is up below any other step that is drawn, and in any other that is answered.
LEMMA LeverUp ==
    ASSUME IInv, NEW kinds, "operate_extinguisher" \notin kinds, Drawn(kinds) \/ Answers(kinds)
    PROVE  ~session.discharging
<1>1. CASE Drawn(kinds)
  BY <1>1 DEF Drawn, IInv
<1>2. CASE Answers(kinds)
  <2>1. Current(session) # 0 /\ StepAt(session, session.index).interaction \in kinds
    BY <1>2 DEF Answers, In
  <2>2. ~session.done
    BY <2>1 DEF Current
  <2>3. session.discharging => Steps[session.index].interaction = "operate_extinguisher"
    BY <2>2, IInvParts, RunningParts DEF Open, Steps
  <2>4. QED BY <2>1, <2>3 DEF StepAt, Steps
<1>3. QED BY <1>1, <1>2

LEMMA AnswersRunning ==
    ASSUME IInv, NEW kinds, Answers(kinds)
    PROVE  ~session.done /\ Steps[session.index].interaction \in kinds /\ session.index \in DOMAIN Steps
<1>1. Current(session) # 0 /\ StepAt(session, session.index).interaction \in kinds
  BY DEF Answers, In
<1>2. ~session.done
  BY <1>1 DEF Current
<1>3. session.index \in DOMAIN Steps
  BY <1>2, IInvParts, RunningParts DEF Steps
<1>4. QED BY <1>1, <1>2, <1>3 DEF StepAt, Steps

\* A screen that stays as it is, or changes a mark that no step counts.
LEMMA SameScreen ==
    ASSUME IInv, screen' = screen
    PROVE  IsScreen(Steps, screen') /\ screen'.step = screen.step /\ screen'.saved = screen.saved
  BY DEF IInv

ScreenFits(x) == IsScreen(Steps, x) /\ x.step = screen.step /\ x.saved = screen.saved

LEMMA MarkedScreen ==
    ASSUME IInv
    PROVE  /\ \A on \in BOOLEAN : ScreenFits([screen EXCEPT !.placed = on])
           /\ \A on \in BOOLEAN : ScreenFits([screen EXCEPT !.exitKnown = on])
           /\ \A on \in BOOLEAN : ScreenFits([screen EXCEPT !.repositioning = on])
           /\ \A outcome \in {None, "extinguished", "wrong_agent", "empty", "out_of_control"} :
                 /\ ScreenFits([screen EXCEPT !.outcome = outcome])
                 /\ \A spent : ScreenFits([screen EXCEPT !.spent = spent, !.outcome = outcome])
           /\ \A mark : (screen.step # 0 => mark \in 0..Steps[screen.step].path) =>
                           ScreenFits([screen EXCEPT !.waypoint = mark])
           /\ \A cones : (screen.step # 0 => cones \in 0..Steps[screen.step].minCones) =>
                           ScreenFits([screen EXCEPT !.cones = cones])
<1>1. IsScreen(Steps, screen)
  BY DEF IInv
<1>2. PICK steps : steps = Steps
  OBVIOUS
<1>3. PICK x : x = screen
  OBVIOUS
<1>4. /\ DOMAIN x = {"step", "placed", "exitKnown", "outcome", "spent", "waypoint", "cones",
                     "repositioning", "saved"}
      /\ x.step \in 0..Len(steps)
      /\ x.outcome \in {None, "extinguished", "wrong_agent", "empty", "out_of_control"}
      /\ x.step # 0 => x.waypoint \in 0..steps[x.step].path
      /\ x.step # 0 => x.cones \in 0..steps[x.step].minCones
      /\ x.placed \in BOOLEAN /\ x.exitKnown \in BOOLEAN /\ x.repositioning \in BOOLEAN /\ x.saved \in BOOLEAN
  BY <1>1, <1>2, <1>3 DEF IsScreen, NewScreen
<1>5. ASSUME NEW y,
             /\ DOMAIN y = {"step", "placed", "exitKnown", "outcome", "spent", "waypoint", "cones",
                            "repositioning", "saved"}
             /\ y.step = x.step /\ y.saved = x.saved
             /\ y.outcome \in {None, "extinguished", "wrong_agent", "empty", "out_of_control"}
             /\ x.step # 0 => y.waypoint \in 0..steps[x.step].path
             /\ x.step # 0 => y.cones \in 0..steps[x.step].minCones
             /\ y.placed \in BOOLEAN /\ y.exitKnown \in BOOLEAN /\ y.repositioning \in BOOLEAN
      PROVE  ScreenFits(y)
  BY <1>2, <1>3, <1>4, <1>5 DEF ScreenFits, IsScreen, NewScreen
<1>6. ASSUME NEW on \in BOOLEAN
      PROVE  /\ ScreenFits([x EXCEPT !.placed = on]) /\ ScreenFits([x EXCEPT !.exitKnown = on])
             /\ ScreenFits([x EXCEPT !.repositioning = on])
  <2>1. ScreenFits([x EXCEPT !.placed = on])
    BY <1>4, <1>5
  <2>2. ScreenFits([x EXCEPT !.exitKnown = on])
    BY <1>4, <1>5
  <2>3. ScreenFits([x EXCEPT !.repositioning = on])
    BY <1>4, <1>5
  <2>4. QED BY <2>1, <2>2, <2>3
<1>7. ASSUME NEW outcome \in {None, "extinguished", "wrong_agent", "empty", "out_of_control"}
      PROVE  /\ ScreenFits([x EXCEPT !.outcome = outcome])
             /\ \A spent : ScreenFits([x EXCEPT !.spent = spent, !.outcome = outcome])
  <2>1. ScreenFits([x EXCEPT !.outcome = outcome])
    BY <1>4, <1>5
  <2>2. ASSUME NEW spent PROVE ScreenFits([x EXCEPT !.spent = spent, !.outcome = outcome])
    BY <1>4, <1>5
  <2>3. QED BY <2>1, <2>2
<1>8. ASSUME NEW mark, x.step # 0 => mark \in 0..steps[x.step].path
      PROVE  ScreenFits([x EXCEPT !.waypoint = mark])
  BY <1>4, <1>5, <1>8
<1>9. ASSUME NEW cones, x.step # 0 => cones \in 0..steps[x.step].minCones
      PROVE  ScreenFits([x EXCEPT !.cones = cones])
  BY <1>4, <1>5, <1>9
<1>10. QED BY <1>2, <1>3, <1>6, <1>7, <1>8, <1>9

-----------------------------------------------------------------------------
(* Every handler *)

\* Completing a step, whatever was drawn.
LEMMA CompleteHandles ==
    ASSUME IInv, ~session.done, ~session.discharging, NEW delay \in Nat, NEW data,
           Becomes(Complete(Call(delay), data)), UNCHANGED <<stored, mode>>, ScreenFits(screen')
    PROVE  Handles
<1>1. PICK s : s = Call(delay)
  OBVIOUS
<1>2. IsRunning(s) /\ ~s.discharging
  BY <1>1, CallParts
<1>3. Leaves(s, Complete(s, data), DrawnIsCurrent)
  BY <1>2, CompleteLeaves
<1>4. QED BY <1>1, <1>3, LeavesHandles DEF ScreenFits

LEMMA NoteHandles ==
    ASSUME IInv, ~session.done, ~session.discharging, NEW delay \in Nat, NEW note, NEW noteData, NEW data,
           note \in {"target_hit", "marker_found", "position_reached", "zone_marked"},
           Becomes(Complete(Emit(Call(delay), note, noteData), data)),
           UNCHANGED <<stored, mode>>, ScreenFits(screen')
    PROVE  Handles
<1>1. PICK s : s = Call(delay)
  OBVIOUS
<1>2. IsRunning(s) /\ ~s.discharging
  BY <1>1, CallParts
<1>3. PICK next : next = Complete(Emit(s, note, noteData), data)
  OBVIOUS
<1>4. Leaves(s, next, DrawnIsCurrent)
  BY <1>2, <1>3, NoteThenCompleteLeaves
<1>5. QED BY <1>1, <1>3, <1>4, LeavesHandles DEF ScreenFits

LEMMA SameFits ==
    ASSUME IInv, screen' = screen
    PROVE  ScreenFits(screen')
  BY SameScreen DEF ScreenFits

LEMMA NarrationHandles ==
    ASSUME IInv, PressContinue \/ AudioEnds
    PROVE  Handles
<1>1. Drawn({"narration"}) /\ Current(session) # 0 /\ Becomes(Complete(Call(1), None)) /\ UIUnchanged
  BY DEF PressContinue, AudioEnds, DrawnIsCurrent
<1>2. ~session.done
  BY <1>1 DEF Current
<1>3. ~session.discharging
  BY <1>1, LeverUp
<1>4. UNCHANGED <<stored, mode>> /\ ScreenFits(screen')
  BY <1>1, SameFits DEF UIUnchanged
<1>5. QED BY <1>1, <1>2, <1>3, <1>4, CompleteHandles

LEMMA PlacementHandles ==
    ASSUME IInv, PlaceOverlay
    PROVE  Handles
<1>1. /\ Answers({"place_on_plane"}) /\ Becomes(Complete(Call(1), "direction"))
      /\ screen' = [screen EXCEPT !.placed = TRUE] /\ UNCHANGED <<stored, mode>>
  BY DEF PlaceOverlay, Kept
<1>2. ~session.done
  BY <1>1, AnswersRunning
<1>3. ~session.discharging
  BY <1>1, LeverUp
<1>4. ScreenFits(screen')
  BY <1>1, MarkedScreen
<1>5. QED BY <1>1, <1>2, <1>3, <1>4, CompleteHandles

LEMMA RepositionHandles ==
    ASSUME IInv, ToggleReposition \/ TapNewPlace
    PROVE  Handles
<1>1. screen.repositioning \in BOOLEAN
  BY DEF IInv, IsScreen
<1>2. UNCHANGED <<stored, mode>> /\ ScreenFits(screen')
  <2>1. \/ screen' = [screen EXCEPT !.repositioning = ~screen.repositioning]
        \/ screen' = [screen EXCEPT !.repositioning = FALSE]
    BY DEF ToggleReposition, TapNewPlace
  <2>2. (~screen.repositioning) \in BOOLEAN
    BY <1>1
  <2>3. QED BY <2>1, <2>2, MarkedScreen DEF ToggleReposition, TapNewPlace, Kept
<1>3. PICK s : s = Call(1)
  OBVIOUS
<1>4. CASE ToggleReposition
  <2>1. Becomes(StopDischarge(s))
    BY <1>3, <1>4 DEF ToggleReposition
  <2>2. CASE session.done
    <3>1. ~session.discharging /\ DOMAIN session = SessionFields
      BY <2>2, IInvParts DEF IInv, IsSession
    <3>2. s.events = session.events /\ ~s.discharging
      BY <1>3, <3>1 DEF Call, SessionFields
    <3>3. StopDischarge(s).events = session.events
      BY <3>2 DEF StopDischarge
    <3>4. QED BY <1>2, <2>1, <3>3, BecomesHandles DEF ScreenFits
  <2>3. CASE ~session.done
    <3>1. IsRunning(s)
      BY <1>3, <2>3, CallParts
    <3>2. Leaves(s, StopDischarge(s), DrawnIsCurrent)
      BY <3>1, StopStays, StaysLeaves
    <3>3. QED BY <1>2, <1>3, <2>1, <2>3, <3>2, LeavesHandles DEF ScreenFits
  <2>4. QED BY <2>2, <2>3
<1>5. CASE TapNewPlace
  <2>1. Becomes(Reposition(s)) /\ ~session.done
    BY <1>3, <1>5 DEF TapNewPlace, Current
  <2>2. IsRunning(s)
    BY <1>3, <2>1, CallParts
  <2>3. Leaves(s, Reposition(s), DrawnIsCurrent)
    BY <2>2, RepositionStays, StaysLeaves
  <2>4. QED BY <1>2, <1>3, <2>1, <2>3, LeavesHandles DEF ScreenFits
<1>6. QED BY <1>4, <1>5

LEMMA TargetHandles ==
    ASSUME IInv, NEW delay \in Nat, TapTarget(delay)
    PROVE  Handles
<1>1. Answers({"tap_target"}) /\ Becomes(Complete(Emit(Call(delay), "target_hit", None), None)) /\ UIUnchanged
  BY DEF TapTarget
<1>2. ~session.done /\ ~session.discharging
  BY <1>1, AnswersRunning, LeverUp
<1>3. UNCHANGED <<stored, mode>> /\ ScreenFits(screen')
  BY <1>1, SameFits DEF UIUnchanged
<1>4. QED BY <1>1, <1>2, <1>3, NoteHandles

LEMMA MarkerHandles ==
    ASSUME IInv, NEW delay \in Nat, MarkerReached(delay)
    PROVE  Handles
<1>1. WantsMarker(Current(session)) /\ UNCHANGED <<stored, mode>>
  BY DEF MarkerReached, Kept
<1>2. ~session.done /\ Steps[session.index].interaction \in {"find_marker", "move_to"}
  BY <1>1 DEF WantsMarker, Current
<1>3. Answers({"find_marker", "move_to"})
  BY <1>1, <1>2 DEF WantsMarker, Answers, In, StepAt, Steps
<1>4. ~session.discharging
  BY <1>3, LeverUp
<1>5. CASE Answers({"find_marker"})
  <2>1. Becomes(Complete(Emit(Call(delay), "marker_found", None), None))
        /\ screen' = [screen EXCEPT !.exitKnown = TRUE]
    BY <1>5 DEF MarkerReached
  <2>2. ScreenFits(screen')
    BY <2>1, MarkedScreen
  <2>3. PICK note : note = "marker_found"
    OBVIOUS
  <2>4. Becomes(Complete(Emit(Call(delay), note, None), None))
        /\ note \in {"target_hit", "marker_found", "position_reached", "zone_marked"}
    BY <2>1, <2>3
  <2>5. QED BY <1>1, <1>2, <1>4, <2>2, <2>4, NoteHandles
<1>6. CASE ~Answers({"find_marker"})
  <2>1. Becomes(Complete(Emit(Call(delay), "position_reached", None), None)) /\ screen' = screen
    BY <1>6 DEF MarkerReached, Arrive
  <2>2. ScreenFits(screen')
    BY <2>1, SameFits
  <2>3. QED BY <1>1, <1>2, <1>4, <2>1, <2>2, NoteHandles
<1>7. QED BY <1>5, <1>6

LEMMA WaypointHandles ==
    ASSUME IInv, NEW delay \in Nat, NEW mark, TapWaypoint(mark, delay)
    PROVE  Handles
<1>1. Drawn({"move_to"}) /\ DrawnIsCurrent /\ mark \in screen.waypoint + 1 .. Steps[screen.step].path
      /\ UNCHANGED <<stored, mode>>
  BY DEF TapWaypoint, Kept
<1>2. ~session.discharging
  BY <1>1, LeverUp
<1>3. ~session.done /\ screen.step # 0
  BY <1>1 DEF DrawnIsCurrent, Current
<1>4. CASE mark < Steps[screen.step].path
  <2>1. screen' = [screen EXCEPT !.waypoint = mark] /\ session' = session
    BY <1>4 DEF TapWaypoint
  <2>2. mark \in 0..Steps[screen.step].path
    <3>1. screen.waypoint \in 0..Steps[screen.step].path
      BY <1>3 DEF IInv, IsScreen
    <3>2. Steps[screen.step].path \in Nat
      <4>1. screen.step \in DOMAIN Steps
        BY <1>3, IInvParts, ListIsSeq DEF IInv, IsScreen, IsList
      <4>2. QED BY <4>1, IInvParts
    <3>3. QED BY <1>1, <3>1, <3>2
  <2>3. ScreenFits(screen')
    BY <2>1, <2>2, MarkedScreen
  <2>4. session.discharging => Drawn({"operate_extinguisher"})
    BY DEF IInv
  <2>5. QED BY <1>1, <2>1, <2>3, <2>4 DEF Handles, ScreenFits
<1>5. CASE ~(mark < Steps[screen.step].path)
  <2>1. PICK data : Becomes(Complete(Emit(Call(delay), "position_reached", None), data)) /\ screen' = screen
    BY <1>5 DEF TapWaypoint, Arrive
  <2>2. ScreenFits(screen')
    BY <2>1, SameFits
  <2>3. QED BY <1>1, <1>2, <1>3, <2>1, <2>2, NoteHandles
<1>6. QED BY <1>4, <1>5

LEMMA ChoiceHandles ==
    ASSUME IInv, (\E option : PressOption(option)) \/ (\E picked : PressDone(picked))
    PROVE  Handles
<1>1. PICK picked : /\ Drawn(SingleSelect) \/ Drawn(MultiSelect)
                    /\ DrawnIsCurrent /\ Becomes(Choose(Call(1), picked)) /\ UIUnchanged
  BY DEF PressOption, PressDone
<1>2. ~session.done
  BY <1>1 DEF DrawnIsCurrent, Current
<1>3. ~session.discharging
  <2>1. "operate_extinguisher" \notin SingleSelect /\ "operate_extinguisher" \notin MultiSelect
    BY DEF SingleSelect, MultiSelect
  <2>2. QED BY <1>1, <2>1, LeverUp
<1>4. PICK s : s = Call(1)
  OBVIOUS
<1>5. IsRunning(s) /\ ~s.discharging /\ IsFiniteSet(DOMAIN StepAt(s, s.index).options)
  BY <1>2, <1>3, <1>4, CallParts
<1>6. PICK answers : answers = DrawnIsCurrent
  OBVIOUS
<1>7. Leaves(s, Choose(s, picked), answers)
  BY <1>1, <1>5, <1>6, ChooseLeaves
<1>8. UNCHANGED <<stored, mode>> /\ ScreenFits(screen')
  BY <1>1, SameFits DEF UIUnchanged
<1>9. Leaves(s, Choose(s, picked), DrawnIsCurrent)
  BY <1>6, <1>7
<1>10. QED BY <1>1, <1>2, <1>4, <1>8, <1>9, LeavesHandles DEF ScreenFits

LEMMA ZoneHandles ==
    ASSUME IInv, TapCone \/ RemoveCone \/ (\E error : FinishZone(error))
    PROVE  Handles
<1>1. session.discharging => Drawn({"operate_extinguisher"})
  BY DEF IInv
<1>2. screen.step # 0 => screen.cones \in 0..Steps[screen.step].minCones /\ Steps[screen.step].minCones \in Nat
  <2>1. ASSUME screen.step # 0 PROVE screen.step \in DOMAIN Steps
    BY <2>1, IInvParts, ListIsSeq DEF IInv, IsScreen, IsList
  <2>2. screen.step # 0 => screen.cones \in 0..Steps[screen.step].minCones
    BY DEF IInv, IsScreen
  <2>3. QED BY <2>1, <2>2, IInvParts
<1>3. CASE TapCone
  <2>1. /\ screen.step # 0 /\ screen.cones < Steps[screen.step].minCones
        /\ screen' = [screen EXCEPT !.cones = screen.cones + 1]
        /\ session' = session /\ UNCHANGED <<stored, mode>>
    BY <1>3 DEF TapCone, Drawn, Kept
  <2>2. screen.cones + 1 \in 0..Steps[screen.step].minCones
    BY <1>2, <2>1
  <2>3. ScreenFits(screen')
    BY <2>1, <2>2, MarkedScreen
  <2>4. QED BY <1>1, <2>1, <2>3 DEF Handles, ScreenFits
<1>4. CASE RemoveCone
  <2>1. /\ screen.cones > 0 /\ screen' = [screen EXCEPT !.cones = screen.cones - 1]
        /\ session' = session /\ UNCHANGED <<stored, mode>>
    BY <1>4 DEF RemoveCone, Kept
  <2>2. screen.step # 0 => screen.cones - 1 \in 0..Steps[screen.step].minCones
    BY <1>2, <2>1
  <2>3. ScreenFits(screen')
    BY <2>1, <2>2, MarkedScreen
  <2>4. QED BY <1>1, <2>1, <2>3 DEF Handles, ScreenFits
<1>5. CASE \E error : FinishZone(error)
  <2>1. PICK error : /\ Answers({"mark_zone"}) /\ UIUnchanged
                     /\ Becomes(Complete(Emit(Call(1), "zone_marked", error), None))
    BY <1>5 DEF FinishZone
  <2>2. ~session.done /\ ~session.discharging
    BY <2>1, AnswersRunning, LeverUp
  <2>3. UNCHANGED <<stored, mode>> /\ ScreenFits(screen')
    BY <2>1, SameFits DEF UIUnchanged
  <2>4. QED BY <2>1, <2>2, <2>3, NoteHandles
<1>6. QED BY <1>3, <1>4, <1>5

LEMMA HoldHandles ==
    ASSUME IInv, NEW zone, SampleHold(zone)
    PROVE  Handles
<1>1. Answers({"aim_and_hold"}) /\ Becomes(HoldSample(Call(1), zone)) /\ UIUnchanged
  BY DEF SampleHold
<1>2. ~session.done /\ Steps[session.index].interaction = "aim_and_hold"
  BY <1>1, AnswersRunning
<1>3. PICK s : s = Call(1)
  OBVIOUS
<1>4. IsRunning(s) /\ StepAt(s, s.index).interaction = "aim_and_hold"
  BY <1>2, <1>3, CallParts
<1>5. Leaves(s, HoldSample(s, zone), DrawnIsCurrent)
  BY <1>4, HoldLeaves
<1>6. UNCHANGED <<stored, mode>> /\ ScreenFits(screen')
  BY <1>1, SameFits DEF UIUnchanged
<1>7. QED BY <1>1, <1>2, <1>3, <1>5, <1>6, LeavesHandles DEF ScreenFits

LEMMA LeverHandles ==
    ASSUME IInv, PullPinOut \/ SqueezeIn \/ SqueezeOut \/ PressOutcome
    PROVE  Handles
<1>1. UNCHANGED <<stored, mode>> /\ ScreenFits(screen')
  BY SameFits DEF UIUnchanged, PullPinOut, SqueezeIn, SqueezeOut, PressOutcome
<1>2. Drawn({"operate_extinguisher"}) /\ ~session.done
  <2>1. session.discharging => ~session.done
    BY DEF IInv, IsSession
  <2>2. QED BY <2>1, AnswersRunning
          DEF PullPinOut, SqueezeIn, SqueezeOut, PressOutcome, DrawnIsCurrent, Current
<1>3. PICK s : s = Call(1)
  OBVIOUS
<1>4. IsRunning(s) /\ StepAt(s, s.index) = Steps[session.index]
  BY <1>2, <1>3, CallParts
<1>5. CASE PullPinOut
  <2>1. Leaves(s, PullPin(s), DrawnIsCurrent)
    BY <1>4, PullPinStays, StaysLeaves
  <2>2. QED BY <1>1, <1>2, <1>3, <1>5, <2>1, LeavesHandles DEF PullPinOut, ScreenFits
<1>6. CASE SqueezeIn
  <2>1. Becomes(StartDischarge(s)) /\ Steps[session.index].interaction = "operate_extinguisher"
    BY <1>3, <1>6, AnswersRunning DEF SqueezeIn
  <2>2. PICK next : next = StartDischarge(s)
    OBVIOUS
  <2>3. IsRunning(next) /\ Follows(s, next, DrawnIsCurrent)
    BY <1>4, <2>1, <2>2, PressRuns
  <2>4. IsSession(next)
    BY <2>3 DEF IsRunning
  <2>5. QED BY <1>1, <1>2, <1>3, <2>1, <2>2, <2>3, <2>4, BecomesHandles DEF ScreenFits
<1>7. CASE SqueezeOut
  <2>1. Leaves(s, StopDischarge(s), DrawnIsCurrent)
    BY <1>4, StopStays, StaysLeaves
  <2>2. QED BY <1>1, <1>2, <1>3, <1>7, <2>1, LeavesHandles DEF SqueezeOut, ScreenFits
<1>8. CASE PressOutcome
  <2>1. PICK outcome : Becomes(FinishExtinguisher(s, outcome))
    BY <1>3, <1>8 DEF PressOutcome
  <2>2. Leaves(s, FinishExtinguisher(s, outcome), DrawnIsCurrent)
    BY <1>4, FinishLeaves
  <2>3. QED BY <1>1, <1>2, <1>3, <2>1, <2>2, LeavesHandles DEF ScreenFits
<1>9. QED BY <1>5, <1>6, <1>7, <1>8

LEMMA SprayHandles ==
    ASSUME IInv, (\E zone, aim : SpraySample(zone, aim)) \/ FireGrows
    PROVE  Handles
<1>1. CASE FireGrows
  <2>1. screen' = [screen EXCEPT !.outcome = "out_of_control"] /\ session' = session /\ UNCHANGED <<stored, mode>>
    BY <1>1 DEF FireGrows, Kept
  <2>2. ScreenFits(screen')
    BY <2>1, MarkedScreen
  <2>3. session.discharging => Drawn({"operate_extinguisher"})
    BY DEF IInv
  <2>4. QED BY <2>1, <2>2, <2>3 DEF Handles, ScreenFits
<1>2. CASE \E zone, aim : SpraySample(zone, aim)
  <2>1. PICK zone, aim : SpraySample(zone, aim)
    BY <1>2
  <2>2. /\ Drawn({"operate_extinguisher"}) /\ DrawnIsCurrent /\ session.discharging
        /\ UNCHANGED <<stored, mode>>
    BY <2>1 DEF SpraySample, Kept
  <2>3. PICK spent : spent = screen.spent + 1
    OBVIOUS
  <2>4. PICK s : s = Call(1)
    OBVIOUS
  <2>5. PICK outcome \in Outcomes(zone, spent) :
           /\ screen' = [screen EXCEPT !.spent = spent, !.outcome = outcome]
           /\ Becomes(IF outcome = None THEN Sample(s, zone, aim) ELSE StopDischarge(Sample(s, zone, aim)))
    BY <2>1, <2>3, <2>4 DEF SpraySample
  <2>6. outcome \in {None, "extinguished", "wrong_agent", "empty", "out_of_control"}
    BY <2>5 DEF Outcomes
  <2>7. ScreenFits(screen')
    BY <2>5, <2>6, MarkedScreen
  <2>8. ~session.done
    BY <2>2 DEF DrawnIsCurrent, Current
  <2>9. /\ IsRunning(s) /\ s.discharging
        /\ StepAt(s, s.index).interaction = "operate_extinguisher"
    BY <2>2, <2>4, <2>8, CallParts
  <2>10. PICK sampled : sampled = Sample(s, zone, aim)
    OBVIOUS
  <2>11. Stays(s, sampled, DrawnIsCurrent) /\ IsRunning(sampled)
    BY <2>9, <2>10, SampleStays DEF Stays
  <2>12. Leaves(s, sampled, DrawnIsCurrent)
    BY <2>9, <2>11, StaysLeaves
  <2>13. Leaves(s, StopDischarge(sampled), DrawnIsCurrent)
    BY <2>9, <2>11, StopStays, StaysTwice, StaysLeaves
  <2>14. PICK next : next = IF outcome = None THEN sampled ELSE StopDischarge(sampled)
    OBVIOUS
  <2>15. Becomes(next) /\ Leaves(s, next, DrawnIsCurrent)
    BY <2>5, <2>10, <2>12, <2>13, <2>14
  <2>16. QED BY <2>2, <2>4, <2>7, <2>8, <2>15, LeavesHandles DEF ScreenFits
<1>3. QED BY <1>1, <1>2

LEMMA LeaveHandles ==
    ASSUME IInv, PressSkip \/ PressStop
    PROVE  Handles
<1>1. PICK s : s = Call(1)
  OBVIOUS
<1>2. CASE PressSkip
  <2>1. /\ DrawnIsCurrent /\ Becomes(Skip(s)) /\ UNCHANGED <<stored, mode>>
        /\ screen' = [screen EXCEPT !.placed = screen.placed \/ Drawn({"place_on_plane"})]
    BY <1>1, <1>2 DEF PressSkip, SkipOffered, Kept
  <2>2. (screen.placed \/ Drawn({"place_on_plane"})) \in BOOLEAN
    OBVIOUS
  <2>3. ScreenFits(screen')
    BY <2>1, <2>2, MarkedScreen
  <2>4. ~session.done
    BY <2>1 DEF DrawnIsCurrent, Current
  <2>5. IsRunning(s)
    BY <1>1, <2>4, CallParts
  <2>6. Leaves(s, Skip(s), TRUE)
    BY <2>5, SkipLeaves
  <2>7. Leaves(s, Skip(s), DrawnIsCurrent)
    BY <2>1, <2>6 DEF Leaves, Follows
  <2>8. QED BY <1>1, <2>1, <2>3, <2>4, <2>7, LeavesHandles DEF ScreenFits
<1>3. CASE PressStop
  <2>1. Becomes(Abort(s)) /\ UNCHANGED <<stored, mode>> /\ ScreenFits(screen')
    BY <1>1, <1>3, SameFits DEF PressStop, UIUnchanged
  <2>2. CASE session.done
    <3>1. DOMAIN session = SessionFields
      BY IInvParts
    <3>2. s.done /\ s.events = session.events
      BY <1>1, <2>2, <3>1 DEF Call, SessionFields
    <3>3. Abort(s).events = session.events
      BY <3>2 DEF Abort
    <3>4. QED BY <2>1, <3>3, BecomesHandles DEF ScreenFits
  <2>3. CASE ~session.done
    <3>1. IsRunning(s)
      BY <1>1, <2>3, CallParts
    <3>2. Leaves(s, Abort(s), DrawnIsCurrent)
      BY <3>1, AbortLeaves
    <3>3. QED BY <1>1, <2>1, <2>3, <3>2, LeavesHandles DEF ScreenFits
  <2>4. QED BY <2>2, <2>3
<1>4. QED BY <1>2, <1>3

LEMMA StepHandles ==
    ASSUME IInv, Next, ~Render
    PROVE  Handles
<1>1. Delays \subseteq Nat
  BY IInvParts
<1>2. CASE PressContinue \/ AudioEnds
  BY <1>2, NarrationHandles
<1>3. CASE TapPlane \/ SeeAnchorMarker
  BY <1>3, PlacementHandles DEF TapPlane, SeeAnchorMarker
<1>4. CASE ToggleReposition \/ TapNewPlace
  BY <1>4, RepositionHandles
<1>5. CASE \E delay \in Delays : TapTarget(delay)
  BY <1>1, <1>5, TargetHandles
<1>6. CASE \E delay \in Delays : ScanMarker(delay) \/ TapExitSign(delay)
  BY <1>1, <1>6, MarkerHandles DEF ScanMarker, TapExitSign
<1>7. CASE \E delay \in Delays : \E i \in DOMAIN Steps : \E mark \in 1..Steps[i].path : TapWaypoint(mark, delay)
  BY <1>1, <1>7, WaypointHandles
<1>8. CASE (\E option : PressOption(option)) \/ (\E picked : PressDone(picked))
  BY <1>8, ChoiceHandles
<1>9. CASE TapCone \/ RemoveCone \/ (\E error : FinishZone(error))
  BY <1>9, ZoneHandles
<1>10. CASE \E zone : SampleHold(zone)
  BY <1>10, HoldHandles
<1>11. CASE (\E zone, aim : SpraySample(zone, aim)) \/ FireGrows
  BY <1>11, SprayHandles
<1>12. CASE PullPinOut \/ SqueezeIn \/ SqueezeOut \/ PressOutcome
  BY <1>12, LeverHandles
<1>13. CASE PressSkip \/ PressStop
  BY <1>13, LeaveHandles
<1>14. QED
  <2>1. (\E spray \in Sprays : SampleHold(spray[1]) \/ SpraySample(spray[1], spray[2])) =>
           (\E zone : SampleHold(zone)) \/ (\E zone, aim : SpraySample(zone, aim))
    OBVIOUS
  <2>2. QED BY <1>2, <1>3, <1>4, <1>5, <1>6, <1>7, <1>8, <1>9, <1>10, <1>11, <1>12, <1>13, <2>1 DEF Next

-----------------------------------------------------------------------------
(* A drill begins, goes on and is drawn *)

Begun(u, file, kind, v) ==
    /\ IsSession(u) /\ u.discharging = FALSE
    /\ u.file = file /\ u.kind = kind /\ u.variant = v /\ u.scenario = Scenario[file][kind][v]
    /\ u.done \/ (u.events # <<>> /\ u.index = u.events[Len(u.events)].step)

LEMMA StartKeeps ==
    ASSUME NEW file \in Loaded, NEW kind \in Kinds, NEW v \in DOMAIN Scenario[file][kind],
           NEW u, u = Start(file, kind, v)
    PROVE  Begun(u, file, kind, v)
<1>1. PICK s : s = [file |-> file, kind |-> kind, variant |-> v,
                    scenario |-> Scenario[file][kind][v], t |-> 0, index |-> 0,
                    done |-> FALSE, events |-> <<>>, held |-> 0, onTarget |-> 0,
                    pinPulled |-> FALSE, discharging |-> FALSE]
  OBVIOUS
<1>2. /\ DOMAIN s = SessionFields /\ s.index = 0 /\ s.events = <<>> /\ s.t = 0
      /\ s.file = file /\ s.kind = kind /\ s.variant = v /\ s.scenario = Scenario[file][kind][v]
  BY <1>1 DEF SessionFields
<1>3. ScenarioOf(s) = Scenario[file][kind][v] /\ IsList(ScenarioOf(s).steps)
  BY <1>2, StepsAreAList DEF ScenarioOf
<1>4. LogFits(ScenarioOf(s).steps, s.events, s.t, s.index)
  <2>1. IsList(<<>>) /\ DOMAIN <<>> = {}
    BY DEF IsList
  <2>2. QED BY <1>2, <2>1 DEF LogFits
<1>5. s.index \in 0..Len(ScenarioOf(s).steps)
  BY <1>2, <1>3 DEF IsList
<1>6. IsBetween(s)
  BY <1>2, <1>3, <1>4, <1>5 DEF IsBetween
<1>7. u = Advance(s)
  BY <1>1 DEF Start
<1>8. /\ IsSession(u) /\ u.discharging = FALSE /\ Follows(s, u, FALSE)
      /\ u.done \/ (u.events # <<>> /\ u.index = u.events[Len(u.events)].step)
  BY <1>6, <1>7, AdvanceKeeps
<1>9. u.file = s.file /\ u.kind = s.kind /\ u.variant = s.variant /\ u.scenario = s.scenario
  BY <1>8 DEF Follows
<1>10. QED BY <1>2, <1>8, <1>9 DEF Begun

LEMMA InitKeeps ==
    ASSUME Init
    PROVE  IInv /\ (session.done \/ (Log # <<>> /\ session.index = Log[Len(Log)].step))
<1>1. PICK launch \in {l \in Launches : l.file \in Loaded} :
         /\ \E variant \in DOMAIN Scenario[launch.file][launch.kind] :
               session = Start(launch.file, launch.kind, variant)
         /\ mode = launch.mode
  BY DEF Init
<1>2. PICK variant \in DOMAIN Scenario[launch.file][launch.kind] :
         session = Start(launch.file, launch.kind, variant)
  BY <1>1
<1>3. launch.file \in Loaded /\ launch.kind \in Kinds /\ mode \in {"ar", "tabletop"}
  BY <1>1, LaunchAssumption
<1>4. PICK file \in Loaded, kind \in Kinds : file = launch.file /\ kind = launch.kind
  BY <1>3
<1>5. /\ IsSession(session) /\ session.discharging = FALSE
      /\ session.file = file /\ session.kind = kind /\ session.variant = variant
      /\ session.scenario = Scenario[file][kind][variant]
      /\ session.done \/ (session.events # <<>> /\ session.index = session.events[Len(session.events)].step)
  <2>1. PICK v \in DOMAIN Scenario[file][kind] : v = variant
    BY <1>2, <1>4
  <2>2. PICK u : u = session
    OBVIOUS
  <2>3. u = Start(file, kind, v)
    BY <1>2, <1>4, <2>1, <2>2
  <2>4. /\ IsSession(u) /\ u.discharging = FALSE
        /\ u.file = file /\ u.kind = kind /\ u.variant = v /\ u.scenario = Scenario[file][kind][v]
        /\ u.done \/ (u.events # <<>> /\ u.index = u.events[Len(u.events)].step)
    <3>1. Begun(u, file, kind, v)
      BY <2>3, StartKeeps
    <3>2. QED BY <3>1 DEF Begun
  <2>5. QED BY <2>1, <2>2, <2>4
<1>6. screen = NewScreen /\ stored = <<>>
  BY DEF Init
<1>7. IsList(Steps)
  BY <1>4, <1>5, StepsAreAList DEF Steps, ScenarioOf
<1>8. IsScreen(Steps, screen) /\ screen.saved = FALSE
  BY <1>6, <1>7 DEF IsScreen, NewScreen, IsList
<1>9. QED BY <1>3, <1>4, <1>5, <1>6, <1>8 DEF IInv, ScenarioOf, Log

LEMMA HandlesKeeps ==
    ASSUME IInv, Handles
    PROVE  IInv' /\ Steps' = Steps
<1>1. /\ session'.file = session.file /\ session'.kind = session.kind
      /\ session'.variant = session.variant /\ session'.scenario = session.scenario
  BY DEF Handles, Follows
<1>2. IsSession(session')
  BY DEF Handles, IInv
<1>3. ScenarioOf(session') = ScenarioOf(session) /\ Steps' = Steps
  BY <1>1 DEF ScenarioOf, Steps
<1>4. /\ screen'.step = screen.step /\ screen'.saved = screen.saved /\ IsScreen(Steps, screen')
      /\ stored' = stored /\ mode' = mode /\ (session'.discharging => Drawn({"operate_extinguisher"}))
  BY DEF Handles
<1>5. session'.discharging => Drawn({"operate_extinguisher"})'
  BY <1>3, <1>4 DEF Drawn
<1>6. session' = session \/ ~screen.saved
  BY DEF Handles, IInv
<1>7. screen'.saved => session'.done
  BY <1>4, <1>6 DEF IInv
<1>8. IF screen'.saved
      THEN stored' = <<[result |-> Evaluate(ScenarioOf(session'), session'.variant, Log'), events |-> Log']>>
      ELSE stored' = <<>>
  <2>1. CASE screen.saved
    <3>1. session' = session /\ Log' = Log
      BY <1>6, <2>1 DEF Log
    <3>2. stored = <<[result |-> Evaluate(ScenarioOf(session), session.variant, Log), events |-> Log]>>
      BY <2>1 DEF IInv
    <3>3. QED BY <1>4, <2>1, <3>1, <3>2
  <2>2. CASE ~screen.saved
    BY <1>4, <2>2 DEF IInv
  <2>3. QED BY <2>1, <2>2
<1>9. /\ session'.file \in Loaded /\ session'.kind \in Kinds
      /\ session'.variant \in DOMAIN Scenario[session'.file][session'.kind]
      /\ ScenarioOf(session') = Scenario[session'.file][session'.kind][session'.variant]
  BY <1>1, <1>3 DEF IInv
<1>10. mode' \in {"ar", "tabletop"} /\ IsScreen(Steps', screen')
  BY <1>3, <1>4 DEF IInv
<1>11. QED BY <1>2, <1>3, <1>5, <1>7, <1>8, <1>9, <1>10 DEF IInv

\* A render keeps of the screen what is right for the step it draws.
LEMMA DrawnFits ==
    ASSUME IInv, NEW drawn, drawn = Current(session), NEW saved \in BOOLEAN,
           NEW x, x = [(IF drawn \in {0, screen.step} THEN [screen EXCEPT !.step = drawn] ELSE Fresh(drawn))
                          EXCEPT !.saved = saved]
    PROVE  IsScreen(Steps, x) /\ x.step = drawn /\ x.saved = saved
<1>1. PICK n \in Nat : n = Len(Steps) /\ DOMAIN Steps = 1..n
  BY IInvParts, ListIsSeq DEF IsList
<1>2. drawn \in 0..n
  <2>1. session.done \/ session.index \in 1..n
    BY <1>1 DEF IInv, IsSession, Steps
  <2>2. QED BY <2>1, IInvParts, <1>1
<1>3. /\ DOMAIN screen = DOMAIN NewScreen
      /\ screen.outcome \in {None, "extinguished", "wrong_agent", "empty", "out_of_control"}
      /\ screen.step # 0 => screen.waypoint \in 0..Steps[screen.step].path /\ screen.cones \in 0..Steps[screen.step].minCones
      /\ screen.placed \in BOOLEAN /\ screen.exitKnown \in BOOLEAN /\ screen.repositioning \in BOOLEAN
  BY DEF IInv, IsScreen
<1>4. DOMAIN NewScreen = {"step", "placed", "exitKnown", "outcome", "spent", "waypoint", "cones",
                          "repositioning", "saved"}
  BY DEF NewScreen
<1>5. CASE drawn \in {0, screen.step}
  <2>1. x = [[screen EXCEPT !.step = drawn] EXCEPT !.saved = saved]
    BY <1>5
  <2>2. /\ DOMAIN x = DOMAIN NewScreen /\ x.step = drawn /\ x.saved = saved
        /\ x.outcome = screen.outcome /\ x.waypoint = screen.waypoint /\ x.cones = screen.cones
        /\ x.placed = screen.placed /\ x.exitKnown = screen.exitKnown
        /\ x.repositioning = screen.repositioning
    BY <1>3, <1>4, <2>1
  <2>3. x.step # 0 => x.step = screen.step
    BY <1>5, <2>2
  <2>4. QED BY <1>1, <1>2, <1>3, <2>2, <2>3 DEF IsScreen
<1>6. CASE drawn \notin {0, screen.step}
  <2>1. x = [Fresh(drawn) EXCEPT !.saved = saved]
    BY <1>6
  <2>2. /\ DOMAIN x = DOMAIN NewScreen /\ x.step = drawn /\ x.saved = saved
        /\ x.outcome = None /\ x.waypoint = 0 /\ x.cones = 0
        /\ x.placed = screen.placed /\ x.exitKnown = screen.exitKnown /\ x.repositioning = FALSE
    BY <2>1 DEF Fresh, NewScreen
  <2>3. Steps[drawn].path \in Nat /\ Steps[drawn].minCones \in Nat
    BY <1>1, <1>2, <1>6, IInvParts
  <2>4. x.waypoint \in 0..Steps[x.step].path /\ x.cones \in 0..Steps[x.step].minCones
    BY <2>2, <2>3
  <2>5. x.step \in 0..Len(Steps)
    BY <1>1, <1>2, <2>2
  <2>6. {x.placed, x.exitKnown, x.repositioning, x.saved} \subseteq BOOLEAN
    BY <1>3, <2>2
  <2>7. QED BY <2>2, <2>4, <2>5, <2>6 DEF IsScreen
<1>7. QED BY <1>5, <1>6

LEMMA RenderKeeps ==
    ASSUME IInv, Render
    PROVE  /\ IInv' /\ Steps' = Steps
           /\ UNCHANGED session
           /\ stored' = stored \/ (session.done /\ stored = <<>> /\ \E row : stored' = <<row>> /\ row.events = Log)
<1>1. PICK drawn : drawn = Current(session)
  OBVIOUS
<1>2. PICK x : x = IF drawn \in {0, screen.step} THEN [screen EXCEPT !.step = drawn] ELSE Fresh(drawn)
  OBVIOUS
<1>3. PICK row : row = [result |-> Evaluate(ScenarioOf(session), session.variant, session.events),
                        events |-> session.events]
  OBVIOUS
<1>4. /\ screen' = [x EXCEPT !.saved = session.done]
      /\ stored' = IF MustStore THEN Append(stored, row) ELSE stored
      /\ session' = session /\ mode' = mode
  BY <1>1, <1>2, <1>3 DEF Render
<1>5. Steps' = Steps /\ Log' = Log /\ session.done \in BOOLEAN
  BY <1>4, IInvParts DEF Steps, Log
<1>6. IsScreen(Steps, screen') /\ screen'.step = drawn /\ screen'.saved = session.done
  BY <1>1, <1>2, <1>4, <1>5, DrawnFits
<1>7. session.discharging => Drawn({"operate_extinguisher"})'
  <2>1. ASSUME session.discharging
        PROVE  /\ drawn = session.index /\ drawn # 0
               /\ Steps[drawn].interaction = "operate_extinguisher"
    <3>1. ~session.done
      BY <2>1 DEF IInv, IsSession
    <3>2. Steps[session.index].interaction = "operate_extinguisher"
      BY <2>1, <3>1 DEF IInv, IsSession, Steps
    <3>3. QED BY <1>1, <3>1, <3>2, IInvParts
  <2>2. QED BY <1>5, <1>6, <2>1 DEF Drawn
<1>8. /\ IF screen'.saved THEN stored' = <<row>> ELSE stored' = <<>>
      /\ stored' = stored \/ (session.done /\ stored = <<>> /\ stored' = <<row>>)
  <2>1. CASE screen.saved
    <3>1. session.done /\ stored = <<row>>
      BY <1>3, <2>1 DEF IInv, Log
    <3>2. stored' = stored
      BY <1>4, <2>1 DEF MustStore
    <3>3. QED BY <1>6, <3>1, <3>2
  <2>2. CASE ~screen.saved
    <3>1. stored = <<>>
      BY <2>2 DEF IInv
    <3>2. CASE session.done
      <4>1. stored' = <<row>>
        BY <1>4, <2>2, <3>1, <3>2 DEF MustStore
      <4>2. QED BY <1>6, <3>1, <3>2, <4>1
    <3>3. CASE ~session.done
      BY <1>4, <1>6, <3>1, <3>3 DEF MustStore
    <3>4. QED BY <3>2, <3>3
  <2>3. QED BY <2>1, <2>2
<1>9. IInv'
  <2>1. screen'.saved => session'.done
    BY <1>4, <1>6
  <2>2. IF screen'.saved
        THEN stored' = <<[result |-> Evaluate(ScenarioOf(session'), session'.variant, Log'), events |-> Log']>>
        ELSE stored' = <<>>
    BY <1>3, <1>4, <1>5, <1>8 DEF Log
  <2>3. /\ session'.file \in Loaded /\ session'.kind \in Kinds
        /\ session'.variant \in DOMAIN Scenario[session'.file][session'.kind]
        /\ ScenarioOf(session') = Scenario[session'.file][session'.kind][session'.variant]
        /\ IsSession(session') /\ mode' \in {"ar", "tabletop"}
    BY <1>4 DEF IInv
  <2>4. session'.discharging => Drawn({"operate_extinguisher"})'
    BY <1>4, <1>7
  <2>5. IsScreen(Steps', screen')
    BY <1>5, <1>6
  <2>6. QED BY <2>1, <2>2, <2>3, <2>4, <2>5 DEF IInv
<1>10. row.events = Log
  BY <1>3 DEF Log
<1>11. QED BY <1>4, <1>5, <1>8, <1>9, <1>10

-----------------------------------------------------------------------------
(* Theorems *)

LEMMA StepKeeps ==
    ASSUME IInv, [Next]_vars
    PROVE  IInv' /\ Steps' = Steps /\ (Handles \/ Render \/ UNCHANGED vars)
<1>1. CASE Render
  BY <1>1, RenderKeeps
<1>2. CASE Next /\ ~Render
  BY <1>2, StepHandles, HandlesKeeps
<1>3. CASE UNCHANGED vars
  BY <1>3 DEF vars, IInv, Steps, Log, Drawn
<1>4. QED BY <1>1, <1>2, <1>3

\* The inductive invariant of a drill: the log is a run, the lever is down only below an
\* extinguisher that is drawn, and what is stored is the attempt as it then is.
THEOREM IInvHolds == Spec => []IInv
<1>1. Init => IInv
  BY InitKeeps
<1>2. IInv /\ [Next]_vars => IInv'
  BY StepKeeps
<1>3. QED BY <1>1, <1>2, PTL DEF Spec

\* The session is at a step of its scenario or past the last one, and what belongs to the
\* step that is drawn stays within what that step has.
THEOREM TypeOKHolds == Spec => []TypeOK
<1>1. IInv => TypeOK
  <2>1. SUFFICES ASSUME IInv PROVE TypeOK
    OBVIOUS
  <2>2. /\ session.index \in 1..Len(Steps) + 1
        /\ ~session.done => session.index \in DOMAIN Steps
    BY <2>1 DEF IInv, IsSession, Steps
  <2>3. \A k \in DOMAIN stored : DOMAIN stored[k] = {"result", "events"}
    <3>1. PICK row : row = [result |-> Evaluate(ScenarioOf(session), session.variant, Log), events |-> Log]
      OBVIOUS
    <3>2. stored = <<row>> \/ stored = <<>>
      BY <2>1, <3>1 DEF IInv
    <3>3. DOMAIN row = {"result", "events"}
      BY <3>1
    <3>4. QED BY <3>2, <3>3
  <2>4. QED BY <2>1, <2>2, <2>3 DEF IInv, TypeOK
<1>2. QED BY <1>1, IInvHolds, PTL

\* Whatever was tapped in whatever order, the log reads as a run of the scenario.
THEOREM LogIsARunHolds == Spec => []LogIsARun
<1>1. IInv => LogIsARun
  BY DEF IInv, IsSession, LogIsARun, Log, Steps
<1>2. QED BY <1>1, IInvHolds, PTL

\* A choice or a skip is recorded only for the step whose buttons the worker saw.
THEOREM AnswersTheStepDrawnHolds == Spec => AnswersTheStepDrawn
<1> DEFINE Right == \A k \in DOMAIN Log' \ DOMAIN Log :
                       LET e == Log'[k]
                       IN  e.type = "choice_made" \/ (e.type = "step_skipped" /\ e.data # None)
                           => e.step = screen.step
<1>1. IInv /\ [Next]_vars => [Right]_vars
  <2>1. SUFFICES ASSUME IInv, [Next]_vars PROVE Right \/ UNCHANGED vars
    OBVIOUS
  <2>2. CASE session' = session
    BY <2>2 DEF Log
  <2>3. CASE session' # session
    <3>1. ~session.done /\ IsSession(session') /\ Follows(session, session', DrawnIsCurrent)
      BY <2>1, <2>3, StepKeeps DEF Handles, Render, vars
    <3>2. PICK m \in Nat, n \in Nat : /\ m = Len(Log) /\ n = Len(Log')
                                      /\ DOMAIN Log = 1..m /\ DOMAIN Log' = 1..n
      <4>1. IsList(Log) /\ IsList(Log')
        BY <2>1, <3>1, IInvParts DEF Log, IsSession, IsList
      <4>2. QED BY <4>1, ListIsSeq DEF IsList
    <3>3. ASSUME NEW k \in DOMAIN Log' \ DOMAIN Log, Answering(Log'[k])
          PROVE  Log'[k].step = screen.step
      <4>1. k \in m + 1..n
        BY <3>2, <3>3
      <4>2. DrawnIsCurrent /\ Log'[k].step = session.index
        BY <3>1, <3>2, <3>3, <4>1 DEF Follows, Log
      <4>3. QED BY <2>1, <3>1, <4>2, IInvParts DEF DrawnIsCurrent
    <3>4. QED BY <3>3 DEF Answering
  <2>4. QED BY <2>2, <2>3
<1>2. QED BY <1>1, IInvHolds, PTL DEF Spec, AnswersTheStepDrawn

LEMMA AttemptBegins ==
    ASSUME Init
    PROVE  Abstract!Init
<1>1. session.done \/ (session.events # <<>> /\ session.index = session.events[Len(session.events)].step)
  BY InitKeeps DEF Log
<1>2. [k \in DOMAIN stored |-> stored[k].events] = <<>>
  BY DEF Init
<1>3. QED BY <1>1, <1>2 DEF Abstract!Init

LEMMA AttemptGrows ==
    ASSUME IInv, IInv', Handles, session' # session
    PROVE  Abstract!Answer \/ Abstract!Leave \/ Abstract!Finish
<1>1. /\ ~session.done /\ session'.events # session.events /\ Follows(session, session', DrawnIsCurrent)
      /\ stored' = stored
  BY DEF Handles
<1>2. PICK log, log2 : log = session.events /\ log2 = session'.events
  OBVIOUS
<1>3. IsList(log) /\ IsList(log2) /\ session.index \in Nat /\ session'.index \in Nat /\ session'.done \in BOOLEAN
  <2>1. IsList(log) /\ session.index \in Nat
    BY <1>2, IInvParts
  <2>2. IsSession(session')
    BY <1>1 DEF Handles
  <2>3. IsList(log2) /\ session'.done \in BOOLEAN
    BY <1>2, <2>2 DEF IsSession, IsList
  <2>4. session'.index \in 1..Len(Steps) + 1 /\ Len(Steps) \in Nat
    <3>1. ScenarioOf(session').steps = Steps
      BY HandlesKeeps DEF Steps
    <3>2. QED BY <2>2, <3>1, IInvParts DEF IsSession, IsList
  <2>5. QED BY <2>1, <2>3, <2>4
<1>4. PICK m \in Nat, n \in Nat : m = Len(log) /\ n = Len(log2)
  BY <1>3 DEF IsList
<1>5. /\ session.index <= session'.index /\ m <= n
      /\ \A k \in 1..m : log2[k] = log[k]
      /\ \A k \in m + 1..n : log2[k].step \in session.index..session'.index
  BY <1>1, <1>2, <1>4 DEF Follows
<1>6. m < n
  <2>1. ASSUME m = n PROVE log2 = log
    <3>1. log = [k \in 1..m |-> log[k]] /\ log2 = [k \in 1..m |-> log2[k]]
      BY <1>3, <1>4, <2>1 DEF IsList
    <3>2. QED BY <1>5, <3>1
  <2>2. QED BY <1>1, <1>2, <1>5, <2>1
<1>7. SubSeq(log2, 1, m) = log
  <2>1. PICK S : log2 \in Seq(S)
    BY <1>3, ListIsSeq
  <2>2. PICK part : part = SubSeq(log2, 1, m)
    OBVIOUS
  <2>3. /\ part \in Seq(S) /\ Len(part) = m
        /\ \A k \in 1..m : part[k] = log2[k]
    BY <1>4, <1>6, <2>1, <2>2, SubSeqProperties
  <2>4. part = [k \in 1..m |-> part[k]]
    BY <2>3
  <2>5. log = [k \in 1..m |-> log[k]]
    BY <1>3, <1>4 DEF IsList
  <2>6. QED BY <1>5, <2>2, <2>3, <2>4, <2>5
<1>8. Abstract!Grows
  BY <1>2, <1>4, <1>5, <1>6, <1>7 DEF Abstract!Grows
<1>9. [k \in DOMAIN stored' |-> stored'[k].events] = [k \in DOMAIN stored |-> stored[k].events]
  BY <1>1
<1>10. CASE session'.done
  BY <1>1, <1>3, <1>5, <1>8, <1>9, <1>10 DEF Abstract!Finish
<1>11. CASE ~session'.done /\ session'.index = session.index
  BY <1>1, <1>3, <1>5, <1>8, <1>9, <1>11 DEF Abstract!Answer
<1>12. CASE ~session'.done /\ session'.index > session.index
  BY <1>1, <1>3, <1>5, <1>8, <1>9, <1>12 DEF Abstract!Leave
<1>13. QED BY <1>3, <1>5, <1>10, <1>11, <1>12

LEMMA AttemptIsKept ==
    ASSUME IInv, Render, stored' # stored
    PROVE  Abstract!Store
<1>1. session' = session /\ session.done /\ stored = <<>>
  BY RenderKeeps
<1>2. PICK row : stored' = <<row>> /\ row.events = session.events
  BY RenderKeeps DEF Log
<1>3. [k \in DOMAIN stored |-> stored[k].events] = <<>>
  BY <1>1
<1>4. [k \in DOMAIN stored' |-> stored'[k].events] = <<session.events>>
  BY <1>2
<1>5. QED BY <1>1, <1>3, <1>4 DEF Abstract!Store

\* Whatever timers, callbacks, scans and taps do, the drill implements an attempt: a log
\* that only grows and moves through the steps, closed once, and stored once as it is.
THEOREM IsAnAttemptHolds == Spec => IsAnAttempt
<1>1. Init => Abstract!Init
  BY AttemptBegins
<1>2. IInv /\ IInv' /\ [Next]_vars => [Abstract!Next]_(Abstract!vars)
  <2>1. SUFFICES ASSUME IInv, IInv', [Next]_vars PROVE Abstract!Next \/ UNCHANGED Abstract!vars
    OBVIOUS
  <2>2. CASE session' = session /\ stored' = stored
    BY <2>2 DEF Abstract!vars
  <2>3. CASE Handles /\ session' # session
    BY <2>1, <2>3, AttemptGrows DEF Abstract!Next
  <2>4. CASE Render /\ stored' # stored
    BY <2>1, <2>4, AttemptIsKept DEF Abstract!Next
  <2>5. Handles => stored' = stored
    BY DEF Handles
  <2>6. Render => session' = session
    BY DEF Render
  <2>7. QED BY <2>1, <2>2, <2>3, <2>4, <2>5, <2>6, StepKeeps DEF vars
<1>3. QED BY <1>1, <1>2, IInvHolds, PTL DEF Spec, IsAnAttempt, Abstract!Spec

-----------------------------------------------------------------------------
(* What a pass says *)

\* No critical rule of a passed result failed, nor was the attempt stopped.
LEMMA PassHasNoFailure ==
    ASSUME NEW scenario, NEW variant, NEW log, Evaluate(scenario, variant, log).passed,
           NEW rule \in Scored(scenario, variant), rule.critical
    PROVE  /\ ~Aborted(log)
           /\ ~ScoresSkippedStep(scenario, rule, WorkerSkipped(scenario, log))
           /\ ~ForbiddenInStep(rule, log)
           /\ ~rule.onForbiddenOnly => EarnedPoints(scenario, rule, log) # 0
<1>1. PICK results : results = {RuleResult(scenario, r, log) : r \in Scored(scenario, variant)}
  OBVIOUS
<1>2. PICK failures : failures = {r.id : r \in {x \in results : x.critical /\ ~x.passed}}
  OBVIOUS
<1>3. failures = {} /\ ~Aborted(log)
  BY <1>1, <1>2 DEF Evaluate
<1>4. PICK x : x = RuleResult(scenario, rule, log)
  OBVIOUS
<1>5. x \in results
  BY <1>1, <1>4
<1>6. ~(x.critical /\ ~x.passed)
  <2>1. ASSUME x.critical /\ ~x.passed PROVE FALSE
    <3>1. x.id \in failures
      BY <1>2, <1>5, <2>1
    <3>2. QED BY <1>3, <3>1
  <2>2. QED BY <2>1
<1>7. PICK failed : failed = ScoresSkippedStep(scenario, rule, WorkerSkipped(scenario, log))
  OBVIOUS
<1>8. PICK earned : earned = IF failed THEN 0 ELSE EarnedPoints(scenario, rule, log)
  OBVIOUS
<1>9. x.critical = rule.critical /\ x.passed = ~(failed \/ IsCriticalFailure(rule, earned, log))
  BY <1>4, <1>7, <1>8 DEF RuleResult
<1>10. ~failed /\ ~IsCriticalFailure(rule, earned, log)
  BY <1>6, <1>9
<1>11. QED BY <1>3, <1>7, <1>8, <1>10 DEF IsCriticalFailure

\* A stored pass stands on the log.
THEOREM PassedMeansSafeHolds == Spec => []PassedMeansSafe
<1>1. IInv => PassedMeansSafe
  <2>1. SUFFICES ASSUME IInv, NEW k \in DOMAIN stored, stored[k].result.passed
                 PROVE  LET log == stored[k].events
                            acts == {j \in DOMAIN log : log[j].type = "forbidden_action"}
                            refused == {log[j].step : j \in {i \in DOMAIN log :
                                           log[i].type = "step_skipped" /\ log[i].data = "no_progress"}}
                        IN  /\ \A j \in DOMAIN log : log[j].type # "attempt_aborted"
                            /\ \A rule \in Scored(ScenarioOf(session), session.variant) : rule.critical =>
                                  /\ {rule.step, rule.before, rule.after} \cap refused = {}
                                  /\ \A j \in acts :
                                        /\ log[j].step # rule.step
                                        /\ rule.type = "no_forbidden" /\ ~rule.onForbiddenOnly => log[j].data # rule.tag
                                  /\ rule.type = "no_forbidden" =>
                                        \A i \in refused : ~OffersTag(Steps[i], rule.tag)
    BY DEF PassedMeansSafe
  <2>2. PICK scenario, variant, log : scenario = ScenarioOf(session) /\ variant = session.variant /\ log = session.events
    OBVIOUS
  <2>3. stored[k].events = log /\ Evaluate(scenario, variant, log).passed
    <3>1. PICK row : row = [result |-> Evaluate(scenario, variant, log), events |-> log]
      OBVIOUS
    <3>2. stored = <<row>> \/ stored = <<>>
      BY <2>1, <2>2, <3>1 DEF IInv, Log
    <3>3. stored[k] = row
      BY <2>1, <3>2
    <3>4. QED BY <2>1, <3>1, <3>3
  <2>4. PICK refused : refused = {log[j].step : j \in {i \in DOMAIN log :
                                     log[i].type = "step_skipped" /\ log[i].data = "no_progress"}}
    OBVIOUS
  <2>5. refused \subseteq WorkerSkipped(scenario, log)
    <3>1. ASSUME NEW j \in DOMAIN log, log[j].type = "step_skipped", log[j].data = "no_progress"
          PROVE  log[j].step \in WorkerSkipped(scenario, log)
      <4>1. log[j].step \in DOMAIN scenario.steps /\ scenario.steps[log[j].step].runs
        BY <2>1, <2>2, <3>1, NoneAssumption DEF IInv, IsSession
      <4>2. Happened(log, log[j].step, "step_skipped")
        BY <3>1 DEF Happened
      <4>3. QED BY <4>1, <4>2 DEF WorkerSkipped
    <3>2. QED BY <2>4, <3>1
  <2>6. \A j \in DOMAIN log : log[j].type # "attempt_aborted"
    <3>1. ~Aborted(log)
      BY <2>3 DEF Evaluate
    <3>2. QED BY <3>1 DEF Aborted
  <2>7. ASSUME NEW rule \in Scored(scenario, variant), rule.critical
        PROVE  /\ {rule.step, rule.before, rule.after} \cap refused = {}
               /\ \A j \in {i \in DOMAIN log : log[i].type = "forbidden_action"} :
                     /\ log[j].step # rule.step
                     /\ rule.type = "no_forbidden" /\ ~rule.onForbiddenOnly => log[j].data # rule.tag
               /\ rule.type = "no_forbidden" => \A i \in refused : ~OffersTag(scenario.steps[i], rule.tag)
    <3>1. /\ ~ScoresSkippedStep(scenario, rule, WorkerSkipped(scenario, log))
          /\ ~ForbiddenInStep(rule, log)
          /\ ~rule.onForbiddenOnly => EarnedPoints(scenario, rule, log) # 0
      BY <2>3, <2>7, PassHasNoFailure
    <3>2. {rule.step, rule.before, rule.after} \cap refused = {}
      BY <2>5, <3>1 DEF ScoresSkippedStep
    <3>3. rule.type = "no_forbidden" => \A i \in refused : ~OffersTag(scenario.steps[i], rule.tag)
      BY <2>5, <3>1 DEF ScoresSkippedStep
    <3>4. \A j \in DOMAIN log : log[j].type = "forbidden_action" => log[j].step # rule.step
      BY <3>1 DEF ForbiddenInStep, Happened
    <3>5. ASSUME rule.type = "no_forbidden", ~rule.onForbiddenOnly, NEW j \in DOMAIN log,
                 log[j].type = "forbidden_action"
          PROVE  log[j].data # rule.tag
      <4>1. EarnedPoints(scenario, rule, log) = NoForbiddenPoints(rule, log)
        BY <3>5 DEF EarnedPoints
      <4>2. QED BY <3>1, <3>5, <4>1 DEF NoForbiddenPoints
    <3>6. QED BY <3>2, <3>3, <3>4, <3>5
  <2>8. scenario.steps = Steps
    BY <2>2 DEF Steps
  <2>9. QED BY <2>2, <2>3, <2>4, <2>6, <2>7, <2>8
<1>2. QED BY <1>1, IInvHolds, PTL

-----------------------------------------------------------------------------
(* Parts of a list *)

\* The rank of a position is one of 1..Cardinality.
LEMMA RankInRange ==
    ASSUME NEW positions \in SUBSET Int, IsFiniteSet(positions), NEW i \in positions
    PROVE  Rank(positions, i) \in 1..Cardinality(positions)
<1> DEFINE upTo == {j \in positions : j <= i}
<1>1. upTo \subseteq positions /\ i \in upTo
  OBVIOUS
<1>2. IsFiniteSet(upTo) /\ Cardinality(upTo) <= Cardinality(positions)
  BY <1>1, FS_Subset
<1>3. Cardinality(upTo) # 0
  BY <1>1, <1>2, FS_EmptySet
<1>4. Cardinality(upTo) \in Nat /\ Cardinality(positions) \in Nat
  BY <1>2, FS_CardinalityType
<1>5. QED BY <1>2, <1>3, <1>4 DEF Rank

\* A later position has a higher rank.
LEMMA RankGrows ==
    ASSUME NEW positions \in SUBSET Int, IsFiniteSet(positions),
           NEW i \in positions, NEW j \in positions, i < j
    PROVE  Rank(positions, i) < Rank(positions, j)
<1> DEFINE upToI == {k \in positions : k <= i}
           upToJ == {k \in positions : k <= j}
<1>1. IsFiniteSet(upToJ)
  BY FS_Subset
<1>2. upToI \subseteq upToJ /\ j \in upToJ /\ j \notin upToI
  <2>1. i \in Int /\ j \in Int /\ positions \subseteq Int
    OBVIOUS
  <2>2. \A k \in positions : k <= i => k <= j
    BY <2>1
  <2>3. upToI \subseteq upToJ
    BY <2>2
  <2>4. j <= j /\ ~(j <= i)
    BY <2>1
  <2>5. QED BY <2>3, <2>4
<1>3. IsFiniteSet(upToI) /\ Cardinality(upToI) <= Cardinality(upToJ)
  BY <1>1, <1>2, FS_Subset
<1>4. Cardinality(upToI) # Cardinality(upToJ)
  BY <1>1, <1>2, FS_Subset
<1>5. Cardinality(upToI) \in Nat /\ Cardinality(upToJ) \in Nat
  BY <1>1, <1>3, FS_CardinalityType
<1>6. QED BY <1>3, <1>4, <1>5 DEF Rank

\* What a part of a list has at each of its positions, and that it has nothing else.
LEMMA PartOfList ==
    ASSUME NEW list, NEW positions \in SUBSET Int, IsFiniteSet(positions)
    PROVE  /\ \A n \in DOMAIN InOrder(list, positions) : \E i \in positions : Rank(positions, i) = n
           /\ \A i \in positions : /\ Rank(positions, i) \in DOMAIN InOrder(list, positions)
                                   /\ InOrder(list, positions)[Rank(positions, i)] = list[i]
<1> DEFINE rank == [i \in positions |-> Rank(positions, i)]
           size == Cardinality(positions)
<1>1. size \in Nat
  BY FS_CardinalityType
<1>2. IsFiniteSet(1..size) /\ Cardinality(1..size) = size
  BY <1>1, FS_Interval
<1>3. rank \in [positions -> 1..size]
  BY RankInRange
<1>4. \A i, j \in positions : Rank(positions, i) = Rank(positions, j) => i = j
  <2> SUFFICES ASSUME NEW i \in positions, NEW j \in positions, Rank(positions, i) = Rank(positions, j)
               PROVE  i = j
    OBVIOUS
  <2>1. ~(i < j) /\ ~(j < i)
    BY RankGrows, RankInRange, <1>1
  <2>2. QED BY <2>1
<1>5. rank \in Injection(positions, 1..size)
  BY <1>3, <1>4 DEF Injection, IsInjective
<1>6. rank \in Surjection(positions, 1..size)
  BY <1>2, <1>5, FS_Injection
<1>7. \A n \in 1..size : \E i \in positions : Rank(positions, i) = n
  BY <1>6 DEF Surjection
<1>8. DOMAIN InOrder(list, positions) = 1..size
  BY DEF InOrder
<1>9. ASSUME NEW i \in positions
      PROVE  Rank(positions, i) \in 1..size /\ InOrder(list, positions)[Rank(positions, i)] = list[i]
  <2>1. Rank(positions, i) \in 1..size
    BY RankInRange
  <2>2. (CHOOSE j \in positions : Rank(positions, j) = Rank(positions, i)) = i
    BY <1>4
  <2>3. QED BY <2>1, <2>2 DEF InOrder
<1>10. QED BY <1>7, <1>8, <1>9

-----------------------------------------------------------------------------
(* Positions in a file *)

\* In a file that loads no two steps have the same id.
Unique(steps) == \A i, j \in DOMAIN steps : steps[i].id = steps[j].id => i = j

LEMMA NoDuplicates ==
    ASSUME NEW n \in Nat, NEW list, DOMAIN list = 1..n, Len(list) = n, ~HasDuplicates(list)
    PROVE  Unique(list)
<1> DEFINE names == [i \in 1..n |-> list[i].id]
           ids == {list[i].id : i \in 1..n}
<1>1. names \in Surjection(1..n, ids)
  BY DEF Surjection
<1>2. IsFiniteSet(1..n) /\ Cardinality(1..n) = n
  BY FS_Interval
<1>3. IsFiniteSet(ids) /\ Cardinality(ids) <= n
  BY <1>1, <1>2, FS_Surjection
<1>4. Cardinality(ids) \in Nat
  BY <1>3, FS_CardinalityType
<1>5. Cardinality(ids) = n
  <2>1. IdsIn(list) = ids
    BY DEF IdsIn
  <2>2. ~(Cardinality(ids) < n)
    BY <2>1 DEF HasDuplicates
  <2>3. QED BY <1>3, <1>4, <2>2
<1>6. names \in Injection(1..n, ids)
  BY <1>1, <1>2, <1>5, FS_Surjection
<1>7. QED BY <1>6 DEF Injection, IsInjective, Unique

LEMMA PositionIs ==
    ASSUME NEW file, DOMAIN file.steps \subseteq Nat, Unique(file.steps), NEW i \in DOMAIN file.steps
    PROVE  Position(file, file.steps[i].id) = i
<1> DEFINE found == {j \in DOMAIN file.steps : file.steps[j].id = file.steps[i].id}
<1>1. found = {i}
  BY DEF Unique
<1>2. i \in Nat /\ i >= 0 /\ i >= i
  OBVIOUS
<1>3. Max({0} \cup found) \in {0, i} /\ \A y \in {0, i} : Max({0} \cup found) >= y
  <2>1. \E x \in {0, i} : \A y \in {0, i} : x >= y
    BY <1>2
  <2>2. QED BY <1>1, <2>1 DEF Max
<1>4. Max({0} \cup found) = i
  BY <1>2, <1>3
<1>5. QED BY <1>4 DEF Position

\* What the loader has seen to.
LEMMA LoadedFile ==
    ASSUME NEW name \in Loaded, NEW file, file = Files[name]
    PROVE  /\ \E n \in Nat : DOMAIN file.steps = 1..n
           /\ Unique(file.steps)
           /\ \A i \in DOMAIN file.steps :
                 file.steps[i].interaction = "operate_extinguisher" =>
                    EarlierChoice(file, i, Field(file.steps[i].params, "agentFrom", None))
<1>1. /\ name \in DOMAIN Files /\ Len(file.steps) \in Nat /\ DOMAIN file.steps = 1..Len(file.steps)
  BY FilesAreLists DEF Loaded
<1>2. Problems(file) = {}
  BY DEF Loaded
<1>3. ~HasDuplicates(file.steps)
  <2>1. ASSUME HasDuplicates(file.steps) PROVE "duplicate step" \in Problems(file)
    BY <2>1 DEF Problems
  <2>2. QED BY <1>2, <2>1
<1>4. \A i \in DOMAIN file.steps : StepProblems(file, i) = {}
  <2>1. (UNION {StepProblems(file, i) : i \in DOMAIN file.steps}) \subseteq Problems(file)
    BY DEF Problems
  <2>2. QED BY <1>2, <2>1
<1>5. ASSUME NEW i \in DOMAIN file.steps, file.steps[i].interaction = "operate_extinguisher",
             ~EarlierChoice(file, i, Field(file.steps[i].params, "agentFrom", None))
      PROVE  FALSE
  <2>1. "agentFrom" \in StepProblems(file, i)
    BY <1>5 DEF StepProblems
  <2>2. QED BY <1>4, <2>1
<1>6. Unique(file.steps)
  BY <1>1, <1>3, NoDuplicates
<1>7. QED BY <1>1, <1>5, <1>6

\* What a refresher starts from, and what it keeps: the least closed set of names with that.
FirstKept(file) ==
    (UNION {ruleSteps(r, file.steps) : r \in {q \in ToSet(file.rules) : q.critical}}) \cup
    {s.id : s \in {t \in ToSet(file.steps) : t.interaction = "place_on_plane"}}

LEMMA KeptIsClosed ==
    ASSUME NEW file, NEW kept, kept = KeptSteps(file)
    PROVE  /\ FirstKept(file) \subseteq kept /\ Closed(kept, file.steps)
           /\ \A c : FirstKept(file) \subseteq c /\ Closed(c, file.steps) => kept \subseteq c
<1>1. PICK steps, first : steps = file.steps /\ first = FirstKept(file)
  OBVIOUS
<1>2. PICK named : named = first \cup UNION {stepNeeds(s, steps) : s \in ToSet(steps)}
  OBVIOUS
<1>3. kept = {id \in named :
         \A ids \in {c \in SUBSET named : first \subseteq c /\ Closed(c, steps)} : id \in ids}
  <2>1. KeptSteps(file) =
          LET some == FirstKept(file) \cup UNION {stepNeeds(s, file.steps) : s \in ToSet(file.steps)}
          IN  {id \in some : \A ids \in {c \in SUBSET some : FirstKept(file) \subseteq c
                                                            /\ Closed(c, file.steps)} : id \in ids}
    BY Zenon DEF KeptSteps, FirstKept
  <2>2. named = FirstKept(file) \cup UNION {stepNeeds(s, file.steps) : s \in ToSet(file.steps)}
    BY <1>1, <1>2
  <2>3. QED BY <1>1, <2>1, <2>2
<1>4. first \subseteq kept
  BY <1>2, <1>3
<1>5. \A s \in ToSet(steps) : stepNeeds(s, steps) \subseteq named
  BY <1>2
<1>6. Closed(kept, steps)
  <2> SUFFICES ASSUME NEW s \in ToSet(steps), s.id \in kept, NEW x \in stepNeeds(s, steps)
               PROVE  x \in kept
    BY DEF Closed
  <2>1. ASSUME NEW c \in SUBSET named, first \subseteq c, Closed(c, steps) PROVE x \in c
    <3>1. s.id \in c
      BY <1>3, <2>1
    <3>2. QED BY <2>1, <3>1 DEF Closed
  <2>2. QED BY <1>3, <1>5, <2>1
<1>7. ASSUME NEW c, first \subseteq c, Closed(c, steps) PROVE kept \subseteq c
  <2>1. Closed(c \cap named, steps)
    BY <1>5, <1>7 DEF Closed
  <2>2. c \cap named \in {d \in SUBSET named : first \subseteq d /\ Closed(d, steps)}
    BY <1>2, <1>7, <2>1
  <2>3. QED BY <1>3, <2>2
<1>8. QED BY <1>1, <1>4, <1>6, <1>7

\* A refresher plays some of the steps, in order, and with each of them the one that its
\* extinguisher is chosen in.
LEMMA RefresherSteps ==
    ASSUME NEW name \in Loaded, NEW all, all = Files[name].steps
    PROVE  \E positions \in SUBSET Nat :
              /\ IsFiniteSet(positions) /\ positions \subseteq DOMAIN all
              /\ FileOf(name, "refresher").steps = InOrder(all, positions)
              /\ \A i \in positions : Has(all[i].params, "agentFrom") =>
                    \A j \in DOMAIN all : all[j].id = all[i].params.agentFrom => j \in positions
<1>1. PICK file : file = Files[name]
  OBVIOUS
<1>2. PICK n \in Nat : DOMAIN all = 1..n
  BY LoadedFile
<1>3. PICK kept : kept = KeptSteps(file)
  OBVIOUS
<1>4. PICK positions : positions = {i \in DOMAIN all : all[i].id \in kept}
  OBVIOUS
<1>5. positions \in SUBSET Nat /\ IsFiniteSet(positions) /\ positions \subseteq DOMAIN all
  <2>1. IsFiniteSet(1..n) /\ positions \subseteq 1..n /\ 1..n \subseteq Nat
    BY <1>2, <1>4, FS_Interval
  <2>2. QED BY <1>2, <2>1, FS_Subset
<1>6. FileOf(name, "refresher").steps = InOrder(all, positions)
  <2>1. "steps" \in DOMAIN file
    BY <1>1, FilesAreLists DEF Loaded
  <2>2. QED BY <1>1, <1>3, <1>4, <2>1 DEF FileOf, refresherScenario
<1>7. ASSUME NEW i \in positions, Has(all[i].params, "agentFrom"),
             NEW j \in DOMAIN all, all[j].id = all[i].params.agentFrom
      PROVE  j \in positions
  <2>1. i \in DOMAIN all /\ all[i].id \in kept /\ all[i] \in ToSet(all)
    BY <1>4, <1>7 DEF ToSet
  <2>2. Closed(kept, all)
    BY <1>1, <1>3, KeptIsClosed
  <2>3. all[j].id \in stepNeeds(all[i], all)
    BY <1>7 DEF stepNeeds
  <2>4. all[j].id \in kept
    BY <2>1, <2>2, <2>3 DEF Closed
  <2>5. QED BY <1>4, <2>4
<1>8. QED BY <1>5, <1>6, <1>7

\* So whatever is played, the extinguisher is chosen before it is used.
LEMMA ChosenBefore ==
    ASSUME NEW name \in Loaded, NEW kind \in Kinds, NEW file, file = FileOf(name, kind)
    PROVE  /\ \E n \in Nat : DOMAIN file.steps = 1..n
           /\ Unique(file.steps)
           /\ \A i \in DOMAIN file.steps :
                 /\ DOMAIN file.steps[i].params \cap DOMAIN file.steps[i].refs = {}
                 /\ file.steps[i].interaction = "operate_extinguisher" =>
                       /\ Has(file.steps[i].params, "agentFrom")
                       /\ \E j \in 1..i - 1 : file.steps[j].id = file.steps[i].params.agentFrom
<1>1. PICK all : all = Files[name].steps
  OBVIOUS
<1>2. PICK n \in Nat : DOMAIN all = 1..n /\ Unique(all)
  BY <1>1, LoadedFile
<1>3. name \in DOMAIN Files
  BY DEF Loaded
<1>4. \A i \in 1..n : all[i].id # None /\ DOMAIN all[i].params \cap DOMAIN all[i].refs = {}
  BY <1>1, <1>2, <1>3, FilesAreLists
<1>5. ASSUME NEW i \in 1..n, all[i].interaction = "operate_extinguisher"
      PROVE  /\ Has(all[i].params, "agentFrom")
             /\ \E j \in 1..i - 1 : all[j].id = all[i].params.agentFrom
  <2>1. EarlierChoice(Files[name], i, Field(all[i].params, "agentFrom", None))
    BY <1>1, <1>2, <1>5, LoadedFile
  <2>2. PICK j \in 1..i - 1 : all[j].id = Field(all[i].params, "agentFrom", None)
    BY <1>1, <2>1 DEF EarlierChoice
  <2>3. j \in 1..n
    OBVIOUS
  <2>4. Has(all[i].params, "agentFrom")
    BY <1>4, <2>2, <2>3 DEF Field
  <2>5. QED BY <2>2, <2>4 DEF Field
<1>6. CASE kind # "refresher"
  <2>1. file.steps = all
    BY <1>1, <1>6 DEF FileOf
  <2>2. QED BY <1>2, <1>4, <1>5, <2>1
<1>7. CASE kind = "refresher"
  <2>1. PICK positions \in SUBSET Nat :
              /\ IsFiniteSet(positions) /\ positions \subseteq DOMAIN all
              /\ file.steps = InOrder(all, positions)
              /\ \A i \in positions : Has(all[i].params, "agentFrom") =>
                    \A j \in DOMAIN all : all[j].id = all[i].params.agentFrom => j \in positions
    BY <1>1, <1>7, RefresherSteps
  <2>2. PICK m \in Nat : m = Cardinality(positions)
    BY <2>1, FS_CardinalityType
  <2>3. DOMAIN file.steps = 1..m /\ DOMAIN InOrder(all, positions) = 1..m
    BY <2>1, <2>2 DEF InOrder
  <2>4. positions \in SUBSET Int
    OBVIOUS
  <2>5. \A k \in 1..m : \E i \in positions : Rank(positions, i) = k
    <3>1. \A k \in DOMAIN InOrder(all, positions) : \E i \in positions : Rank(positions, i) = k
      BY <2>1, <2>4, PartOfList
    <3>2. QED BY <2>3, <3>1
  <2>6. \A i \in positions : Rank(positions, i) \in 1..m /\ file.steps[Rank(positions, i)] = all[i]
    BY <2>1, <2>3, <2>4, PartOfList
  <2>7. Unique(file.steps)
    <3>1. SUFFICES ASSUME NEW k \in 1..m, NEW l \in 1..m, file.steps[k].id = file.steps[l].id
                   PROVE  k = l
      BY <2>3 DEF Unique
    <3>2. PICK i \in positions : Rank(positions, i) = k /\ file.steps[k] = all[i]
      BY <2>5, <2>6
    <3>3. PICK j \in positions : Rank(positions, j) = l /\ file.steps[l] = all[j]
      BY <2>5, <2>6
    <3>4. i = j
      BY <1>2, <2>1, <3>1, <3>2, <3>3 DEF Unique
    <3>5. QED BY <3>2, <3>3, <3>4
  <2>8. ASSUME NEW k \in 1..m
        PROVE  /\ DOMAIN file.steps[k].params \cap DOMAIN file.steps[k].refs = {}
               /\ file.steps[k].interaction = "operate_extinguisher" =>
                     /\ Has(file.steps[k].params, "agentFrom")
                     /\ \E l \in 1..k - 1 : file.steps[l].id = file.steps[k].params.agentFrom
    <3>1. PICK i \in positions : Rank(positions, i) = k /\ file.steps[k] = all[i]
      BY <2>5, <2>6
    <3>2. i \in 1..n
      BY <1>2, <2>1
    <3>3. ASSUME all[i].interaction = "operate_extinguisher"
          PROVE  /\ Has(all[i].params, "agentFrom")
                 /\ \E l \in 1..k - 1 : file.steps[l].id = all[i].params.agentFrom
      <4>1. Has(all[i].params, "agentFrom")
        BY <1>5, <3>2, <3>3
      <4>2. PICK j \in 1..i - 1 : all[j].id = all[i].params.agentFrom
        BY <1>5, <3>2, <3>3
      <4>3. j \in 1..n /\ j < i
        BY <3>2
      <4>4. j \in positions
        BY <1>2, <2>1, <4>1, <4>2, <4>3
      <4>5. Rank(positions, j) < k /\ Rank(positions, j) \in 1..m /\ file.steps[Rank(positions, j)] = all[j]
        BY <2>1, <2>4, <2>6, <3>1, <4>3, <4>4, RankGrows
      <4>6. Rank(positions, j) \in 1..k - 1
        BY <4>5
      <4>7. QED BY <4>1, <4>2, <4>5, <4>6
    <3>4. QED BY <1>4, <3>1, <3>2, <3>3
  <2>9. QED BY <2>3, <2>7, <2>8
<1>8. QED BY <1>6, <1>7

\* The step that an extinguisher is chosen in comes before the one that it is used in.
LEMMA AgentIsEarlier ==
    ASSUME NEW name \in Loaded, NEW kind \in Kinds, NEW v \in DOMAIN Scenario[name][kind],
           NEW i \in DOMAIN Scenario[name][kind][v].steps,
           Scenario[name][kind][v].steps[i].interaction = "operate_extinguisher"
    PROVE  Scenario[name][kind][v].steps[i].agentFrom \in 1..i - 1
<1>1. PICK file : file = FileOf(name, kind)
  OBVIOUS
<1>2. PICK variant : variant = ById(file.variants, v)
  OBVIOUS
<1>3. Scenario[name][kind][v] = Played(file, variant)
  BY <1>1, <1>2 DEF Scenario
<1>4. PICK step : step = file.steps[i]
  OBVIOUS
<1>5. i \in DOMAIN file.steps /\ Scenario[name][kind][v].steps[i] = PlayedStep(file, step, variant)
  BY <1>3, <1>4 DEF Played
<1>6. step.interaction = "operate_extinguisher"
  BY <1>5 DEF PlayedStep
<1>7. /\ \E n \in Nat : DOMAIN file.steps = 1..n
      /\ Unique(file.steps)
      /\ DOMAIN step.params \cap DOMAIN step.refs = {}
      /\ Has(step.params, "agentFrom")
      /\ \E j \in 1..i - 1 : file.steps[j].id = step.params.agentFrom
  BY <1>1, <1>4, <1>5, <1>6, ChosenBefore
<1>8. PICK p : p = IF stepRunsIn(step, variant.id) THEN resolveParams(step, variant) ELSE step.params
  OBVIOUS
<1>9. Field(p, "agentFrom", None) = step.params.agentFrom
  <2>1. "agentFrom" \in DOMAIN step.params /\ "agentFrom" \notin DOMAIN step.refs
    BY <1>7 DEF Has
  <2>2. CASE p = step.params
    BY <2>1, <2>2 DEF Field, Has
  <2>3. CASE p = resolveParams(step, variant)
    <3>1. "agentFrom" \in DOMAIN p /\ p["agentFrom"] = step.params["agentFrom"]
      BY <2>1, <2>3 DEF resolveParams, Has
    <3>2. QED BY <3>1 DEF Field, Has
  <2>4. QED BY <1>8, <2>2, <2>3
<1>10. PICK j \in 1..i - 1 : file.steps[j].id = step.params.agentFrom
  BY <1>7
<1>11. DOMAIN file.steps \subseteq Nat /\ j \in DOMAIN file.steps
  BY <1>5, <1>7
<1>12. Position(file, step.params.agentFrom) = j
  BY <1>7, <1>10, <1>11, PositionIs
<1>13. PlayedStep(file, step, variant).agentFrom = Position(file, Field(p, "agentFrom", None))
  BY <1>8 DEF PlayedStep
<1>14. QED BY <1>5, <1>9, <1>12, <1>13

-----------------------------------------------------------------------------
(* What a log claims *)

\* A forbidden option of the step was picked.
WasPicked(steps, log, step) ==
    \E j \in DOMAIN log :
       /\ log[j].type = "choice_made" /\ log[j].step = step
       /\ \E o \in DOMAIN steps[step].options :
             steps[step].options[o].id \in log[j].data /\ steps[step].options[o].forbidden

\* By what came before an entry, the fire of a step was put out, with what suits it.
PutOut(steps, log, step, k) ==
    /\ steps[step].agentFrom \in 1..step - 1
    /\ \E j \in DOMAIN log : j < k /\ log[j].step = step /\ log[j].type = "pin_pulled"
    /\ \E j \in DOMAIN log :
          j < k /\ log[j].step = step /\ log[j].type = "hold_progress" /\ log[j].data.zone = "base"
    /\ ~Happened(log, steps[step].agentFrom, "forbidden_action")

\* What is claimed of a step happened in it, and what was picked are options of it.
Honest(steps, log, k) ==
    /\ log[k].type = "choice_made" => log[k].data \subseteq OptionIds(steps[log[k].step])
    /\ log[k].type = "forbidden_action" => WasPicked(steps, log, log[k].step)
    /\ log[k].type = "step_completed" /\ log[k].data = "extinguished" =>
          PutOut(steps, log, log[k].step, k)

Truthful(s) ==
    /\ \A k \in DOMAIN s.events : Honest(ScenarioOf(s).steps, s.events, k)
    /\ s.pinPulled => Happened(s.events, s.index, "pin_pulled")
    /\ s.discharging => s.pinPulled

\* The log claims nothing that did not happen, and neither does the screen.
Claims ==
    /\ Truthful(session)
    /\ screen.step <= session.index
    /\ screen.outcome = "extinguished" /\ DrawnIsCurrent => PutOut(Steps, Log, session.index, Len(Log) + 1)

-----------------------------------------------------------------------------
(* Claims of a log that grows *)

\* What a log that grows has of the old one, by index.
LEMMA FollowsParts ==
    ASSUME NEW s, NEW u, NEW answers, IsList(s.events), IsList(u.events), Follows(s, u, answers)
    PROVE  /\ \A k \in DOMAIN s.events : k \in DOMAIN u.events /\ u.events[k] = s.events[k]
           /\ \A k \in DOMAIN u.events :
                 \/ k \in DOMAIN s.events
                 \/ k \in Len(s.events) + 1..Len(u.events) /\ u.events[k].step \in s.index..u.index
           /\ u.scenario = s.scenario /\ ScenarioOf(u) = ScenarioOf(s) /\ s.index <= u.index
<1>1. PICK m \in Nat, n \in Nat : /\ m = Len(s.events) /\ n = Len(u.events)
                                  /\ DOMAIN s.events = 1..m /\ DOMAIN u.events = 1..n
  BY ListIsSeq DEF IsList
<1>2. /\ m <= n /\ \A k \in 1..m : u.events[k] = s.events[k]
      /\ \A k \in m + 1..n : u.events[k].step \in s.index..u.index
      /\ u.scenario = s.scenario /\ s.index <= u.index
  BY <1>1 DEF Follows
<1>3. \A k \in 1..n : k \in 1..m \/ k \in m + 1..n
  BY <1>1
<1>4. \A k \in 1..m : k \in 1..n
  BY <1>1, <1>2
<1>5. QED BY <1>1, <1>2, <1>3, <1>4 DEF ScenarioOf

LEMMA HappenedLater ==
    ASSUME NEW s, NEW u, NEW answers, IsList(s.events), IsList(u.events), Follows(s, u, answers),
           NEW step, NEW type, Happened(s.events, step, type)
    PROVE  Happened(u.events, step, type)
  BY FollowsParts DEF Happened

\* What did not happen in an earlier step never will.
LEMMA NeverLater ==
    ASSUME NEW s, NEW u, NEW answers, IsList(s.events), IsList(u.events), Follows(s, u, answers),
           s.index \in Nat, NEW step \in Nat, step < s.index, NEW type, ~Happened(s.events, step, type)
    PROVE  ~Happened(u.events, step, type)
<1>1. ASSUME NEW j \in DOMAIN u.events, u.events[j].step = step, u.events[j].type = type
      PROVE  FALSE
  <2>1. \/ j \in DOMAIN s.events /\ u.events[j] = s.events[j]
        \/ u.events[j].step \in s.index..u.index
    BY FollowsParts
  <2>2. step \notin s.index..u.index
    OBVIOUS
  <2>3. j \in DOMAIN s.events /\ u.events[j] = s.events[j]
    BY <1>1, <2>1, <2>2
  <2>4. Happened(s.events, step, type)
    BY <1>1, <2>3 DEF Happened
  <2>5. QED BY <2>4
<1>2. QED BY <1>1 DEF Happened

\* What is picked stays picked, and a fire that is out stays out.
LEMMA PickedLater ==
    ASSUME NEW s, NEW u, NEW answers, IsList(s.events), IsList(u.events), Follows(s, u, answers),
           NEW steps, NEW step, WasPicked(steps, s.events, step)
    PROVE  WasPicked(steps, u.events, step)
<1>1. PICK j \in DOMAIN s.events :
         /\ s.events[j].type = "choice_made" /\ s.events[j].step = step
         /\ \E o \in DOMAIN steps[step].options :
               steps[step].options[o].id \in s.events[j].data /\ steps[step].options[o].forbidden
  BY DEF WasPicked
<1>2. j \in DOMAIN u.events /\ u.events[j] = s.events[j]
  BY FollowsParts
<1>3. QED BY <1>1, <1>2 DEF WasPicked

LEMMA PutOutLater ==
    ASSUME NEW s, NEW u, NEW answers, IsList(s.events), IsList(u.events), Follows(s, u, answers),
           s.index \in Nat, NEW step \in Nat, step <= s.index, NEW steps,
           NEW k \in Nat, NEW l \in Nat, k <= l, PutOut(steps, s.events, step, k)
    PROVE  PutOut(steps, u.events, step, l)
<1>1. /\ \A j \in DOMAIN s.events : j \in DOMAIN u.events /\ u.events[j] = s.events[j]
      /\ \A j \in DOMAIN u.events :
            \/ j \in DOMAIN s.events
            \/ u.events[j].step \in s.index..u.index
  BY FollowsParts
<1>2. DOMAIN s.events \subseteq Nat
  BY ListIsSeq DEF IsList
<1>3. \A j \in Nat : j < k => j < l
  OBVIOUS
<1>4. \E j \in DOMAIN u.events : j < l /\ u.events[j].step = step /\ u.events[j].type = "pin_pulled"
  BY <1>1, <1>2, <1>3 DEF PutOut
<1>5. \E j \in DOMAIN u.events :
         j < l /\ u.events[j].step = step /\ u.events[j].type = "hold_progress" /\ u.events[j].data.zone = "base"
  BY <1>1, <1>2, <1>3 DEF PutOut
<1>6. PICK from \in Nat : from = steps[step].agentFrom /\ from < s.index /\ from \in 1..step - 1
  BY DEF PutOut
<1>7. ~Happened(u.events, from, "forbidden_action")
  <2>1. from \in Nat /\ from < s.index /\ ~Happened(s.events, from, "forbidden_action")
    BY <1>6 DEF PutOut
  <2>2. QED BY <2>1, NeverLater
<1>8. QED BY <1>4, <1>5, <1>6, <1>7 DEF PutOut

\* A log that is honest stays so if what is added to it is.
LEMMA HonestLater ==
    ASSUME NEW s, NEW u, NEW answers, IsList(s.events), IsList(u.events), Follows(s, u, answers),
           s.index \in Nat, \A k \in DOMAIN s.events : s.events[k].step \in Nat /\ s.events[k].step <= s.index,
           Truthful(s),
           \A k \in Len(s.events) + 1..Len(u.events) : Honest(ScenarioOf(s).steps, u.events, k)
    PROVE  \A k \in DOMAIN u.events : Honest(ScenarioOf(u).steps, u.events, k)
<1>1. PICK steps : steps = ScenarioOf(s).steps
  OBVIOUS
<1>2. steps = ScenarioOf(u).steps
  BY <1>1, FollowsParts
<1>3. ASSUME NEW k \in DOMAIN s.events PROVE Honest(steps, u.events, k)
  <2>1. u.events[k] = s.events[k] /\ Honest(steps, s.events, k)
    BY <1>1, FollowsParts DEF Truthful
  <2>2. k \in Nat /\ k <= k
    BY ListIsSeq DEF IsList
  <2>3. s.events[k].step \in Nat /\ s.events[k].step <= s.index
    OBVIOUS
  <2>4. WasPicked(steps, s.events, s.events[k].step) => WasPicked(steps, u.events, s.events[k].step)
    BY PickedLater
  <2>5. PutOut(steps, s.events, s.events[k].step, k) => PutOut(steps, u.events, s.events[k].step, k)
    BY <2>2, <2>3, PutOutLater
  <2>6. QED BY <2>1, <2>4, <2>5 DEF Honest
<1>4. QED BY <1>1, <1>2, <1>3, FollowsParts

\* What the calls of a running session start from.
LEMMA RunningSteps ==
    ASSUME NEW s, IsRunning(s)
    PROVE  /\ IsList(s.events) /\ s.index \in Nat
           /\ \A k \in DOMAIN s.events : s.events[k].step \in Nat /\ s.events[k].step <= s.index
<1>1. /\ IsList(s.events) /\ s.index \in Nat
      /\ LogFits(ScenarioOf(s).steps, s.events, s.t, s.index)
      /\ IsList(ScenarioOf(s).steps)
  BY RunningParts DEF IsRunning
<1>2. DOMAIN ScenarioOf(s).steps \subseteq Nat
  BY <1>1, ListIsSeq DEF IsList
<1>3. QED BY <1>1, <1>2 DEF LogFits

\* A truthful session with one more entry.
OneMore(s, u, e) ==
    /\ Truthful(u) /\ Follows(s, u, TRUE) /\ IsList(u.events)
    /\ Len(u.events) = Len(s.events) + 1 /\ u.events[Len(s.events) + 1] = e
    /\ Len(s.events) + 1 \in DOMAIN u.events

\* One more entry of the step that is answered.
LEMMA EntryTruthful ==
    ASSUME NEW s, IsRunning(s), Truthful(s), NEW e, e.step = s.index, NEW u,
           u.events = s.events \o <<e>>,
           <<u.file, u.kind, u.variant, u.scenario, u.t, u.index>> =
              <<s.file, s.kind, s.variant, s.scenario, s.t, s.index>>,
           e.type # "forbidden_action",
           e.type = "choice_made" => e.data \subseteq OptionIds(ScenarioOf(s).steps[s.index]),
           e.type = "step_completed" /\ e.data = "extinguished" =>
              PutOut(ScenarioOf(s).steps, s.events, s.index, Len(s.events) + 1),
           u.pinPulled => s.pinPulled \/ e.type = "pin_pulled", u.discharging => u.pinPulled
    PROVE  OneMore(s, u, e)
<1>1. PICK tail : tail = <<e>>
  OBVIOUS
<1>2. IsList(tail) /\ Len(tail) = 1 /\ DOMAIN tail = 1..1 /\ tail[1] = e
  BY <1>1, OneEntry
<1>3. /\ IsList(s.events) /\ s.index \in Nat
      /\ \A k \in DOMAIN s.events : s.events[k].step \in Nat /\ s.events[k].step <= s.index
  BY RunningSteps
<1>4. /\ u.file = s.file /\ u.kind = s.kind /\ u.variant = s.variant /\ u.scenario = s.scenario
      /\ u.t = s.t /\ u.index = s.index
  OBVIOUS
<1>5. u.index \in Nat /\ s.index <= u.index /\ s.index \in s.index..u.index
  BY <1>3, <1>4
<1>6. Follows(s, u, TRUE)
  <2>1. \A k \in DOMAIN tail : /\ tail[k].step \in s.index..u.index
                               /\ Answering(tail[k]) => TRUE /\ tail[k].step = s.index
    BY <1>2, <1>5
  <2>2. QED BY <1>1, <1>2, <1>3, <1>4, <1>5, <2>1, FollowsTail
<1>7. PICK m \in Nat : m = Len(s.events)
  BY <1>3 DEF IsList
<1>8. PICK log, both : log = s.events /\ both = log \o tail /\ u.events = both
  BY <1>1
<1>9. IsList(both) /\ Len(both) = m + 1 /\ DOMAIN both = 1..m + 1 /\ both[m + 1] = e
  <2>1. IsList(log) /\ m = Len(log)
    BY <1>3, <1>7, <1>8
  <2>2. IsList(both) /\ Len(both) = m + 1 /\ DOMAIN both = 1..m + 1
    BY <1>2, <1>8, <2>1, ListConcat
  <2>3. both[m + 1] = tail[1]
    <3>1. \A k \in 1..Len(tail) : (log \o tail)[Len(log) + k] = tail[k]
      BY <1>2, <2>1, ListConcat
    <3>2. 1 \in 1..Len(tail)
      BY <1>2
    <3>3. (log \o tail)[Len(log) + 1] = tail[1]
      BY <3>1, <3>2
    <3>4. QED BY <1>8, <2>1, <3>3
  <2>4. QED BY <1>2, <2>2, <2>3
<1>10. PICK steps : steps = ScenarioOf(s).steps
  OBVIOUS
<1>11. Honest(steps, u.events, m + 1)
  <2>1. e.type = "step_completed" /\ e.data = "extinguished" => PutOut(steps, u.events, s.index, m + 1)
    <3>1. PutOut(steps, s.events, s.index, m + 1) => PutOut(steps, u.events, s.index, m + 1)
      <4>1. m + 1 \in Nat /\ m + 1 <= m + 1
        OBVIOUS
      <4>2. s.index <= s.index
        BY <1>3
      <4>3. IsList(u.events)
        BY <1>8, <1>9
      <4>4. QED BY <1>3, <1>6, <4>1, <4>2, <4>3, PutOutLater
    <3>2. QED BY <1>7, <1>10, <3>1
  <2>2. u.events[m + 1] = e
    BY <1>8, <1>9
  <2>3. e.type = "choice_made" => e.data \subseteq OptionIds(steps[e.step])
    BY <1>10
  <2>4. e.type # "forbidden_action" /\ e.step = s.index
    OBVIOUS
  <2>5. QED BY <2>1, <2>2, <2>3, <2>4 DEF Honest
<1>12. \A k \in DOMAIN u.events : Honest(ScenarioOf(u).steps, u.events, k)
  <2>1. \A k \in Len(s.events) + 1..Len(u.events) : Honest(ScenarioOf(s).steps, u.events, k)
    <3>1. \A k \in m + 1..m + 1 : k = m + 1
      OBVIOUS
    <3>2. QED BY <1>7, <1>8, <1>9, <1>10, <1>11, <3>1
  <2>2. IsList(u.events)
    BY <1>8, <1>9
  <2>3. QED BY <1>3, <1>6, <2>1, <2>2, HonestLater
<1>13. u.pinPulled => Happened(u.events, u.index, "pin_pulled")
  <2>1. CASE s.pinPulled
    <3>1. Happened(s.events, s.index, "pin_pulled")
      BY <2>1 DEF Truthful
    <3>2. QED BY <1>3, <1>4, <1>6, <1>8, <1>9, <3>1, HappenedLater
  <2>2. CASE e.type = "pin_pulled"
    <3>1. m + 1 \in DOMAIN u.events
      BY <1>8, <1>9
    <3>2. QED BY <1>4, <1>8, <1>9, <2>2, <3>1 DEF Happened
  <2>3. QED BY <2>1, <2>2
<1>14. m + 1 \in DOMAIN u.events
  BY <1>8, <1>9
<1>15. QED BY <1>6, <1>7, <1>8, <1>9, <1>12, <1>13, <1>14 DEF Truthful, OneMore

-----------------------------------------------------------------------------
(* Claims of every call *)

\* Fields that no claim depends on.
LEMMA TruthfulAlike ==
    ASSUME NEW s, Truthful(s), NEW u,
           <<u.scenario, u.index, u.events, u.discharging, u.pinPulled>> =
              <<s.scenario, s.index, s.events, s.discharging, s.pinPulled>>
    PROVE  Truthful(u)
<1>1. /\ u.scenario = s.scenario /\ u.index = s.index /\ u.events = s.events
      /\ u.discharging = s.discharging /\ u.pinPulled = s.pinPulled
  OBVIOUS
<1>2. ScenarioOf(u) = ScenarioOf(s)
  BY <1>1 DEF ScenarioOf
<1>3. QED BY <1>1, <1>2 DEF Truthful

LEMMA EmitTruthful ==
    ASSUME NEW s, IsRunning(s), Truthful(s), NEW type, NEW data, NEW u, u = Emit(s, type, data),
           type # "forbidden_action",
           type = "choice_made" => data \subseteq OptionIds(ScenarioOf(s).steps[s.index]),
           type = "step_completed" /\ data = "extinguished" =>
              PutOut(ScenarioOf(s).steps, s.events, s.index, Len(s.events) + 1)
    PROVE  OneMore(s, u, Entry(s, type, s.index, data))
<1>1. PICK e : e = Entry(s, type, s.index, data)
  OBVIOUS
<1>2. e.step = s.index /\ e.type = type /\ e.data = data
  BY <1>1 DEF Entry
<1>3. /\ u.events = s.events \o <<e>>
      /\ <<u.file, u.kind, u.variant, u.scenario, u.t, u.index, u.done, u.discharging>> =
           <<s.file, s.kind, s.variant, s.scenario, s.t, s.index, s.done, s.discharging>>
      /\ <<u.held, u.onTarget, u.pinPulled>> = <<s.held, s.onTarget, s.pinPulled>>
  BY <1>1, EmitParts
<1>4. /\ <<u.file, u.kind, u.variant, u.scenario, u.t, u.index>> =
           <<s.file, s.kind, s.variant, s.scenario, s.t, s.index>>
      /\ u.pinPulled = s.pinPulled /\ u.discharging = s.discharging
  BY <1>3
<1>5. u.discharging => u.pinPulled
  BY <1>4 DEF Truthful
<1>6. /\ e.type = "step_completed" /\ e.data = "extinguished" =>
           PutOut(ScenarioOf(s).steps, s.events, s.index, Len(s.events) + 1)
      /\ e.type # "forbidden_action"
      /\ e.type = "choice_made" => e.data \subseteq OptionIds(ScenarioOf(s).steps[s.index])
      /\ u.pinPulled => s.pinPulled \/ e.type = "pin_pulled"
  BY <1>2, <1>4
<1>7. u.events = s.events \o <<e>>
  BY <1>3
<1>8. <<u.file, u.kind, u.variant, u.scenario, u.t, u.index>> =
        <<s.file, s.kind, s.variant, s.scenario, s.t, s.index>>
  BY <1>4
<1>9. e.step = s.index
  BY <1>2
<1>10. OneMore(s, u, e)
  BY <1>5, <1>6, <1>7, <1>8, <1>9, EntryTruthful
<1>11. QED BY <1>1, <1>10

LEMMA AdvanceTruthful ==
    ASSUME NEW s, IsBetween(s), Truthful(s), NEW u, u = Advance(s)
    PROVE  Truthful(u)
<1>1. /\ IsSession(u) /\ u.discharging = FALSE /\ u.pinPulled = FALSE /\ Follows(s, u, FALSE)
      /\ \A k \in Len(s.events) + 1..Len(u.events) : u.events[k].type \in {"step_skipped", "step_started"}
  BY AdvanceKeeps
<1>2. IsList(s.events) /\ IsList(u.events)
  BY <1>1 DEF IsBetween, LogFits, IsSession, IsList
<1>3. s.index \in Nat /\ \A k \in DOMAIN s.events : s.events[k].step \in Nat /\ s.events[k].step <= s.index
  <2>1. Len(ScenarioOf(s).steps) \in Nat /\ DOMAIN ScenarioOf(s).steps \subseteq Nat
    BY ListIsSeq DEF IsBetween, IsList
  <2>2. s.index \in Nat
    BY <2>1 DEF IsBetween
  <2>3. QED BY <2>1, <2>2 DEF IsBetween, LogFits
<1>4. \A k \in Len(s.events) + 1..Len(u.events) : Honest(ScenarioOf(s).steps, u.events, k)
  BY <1>1 DEF Honest
<1>5. \A k \in DOMAIN u.events : Honest(ScenarioOf(u).steps, u.events, k)
  BY <1>1, <1>2, <1>3, <1>4, HonestLater
<1>6. QED BY <1>1, <1>5 DEF Truthful

\* A step that ends; only one whose fire was put out says so.
LEMMA EndTruthful ==
    ASSUME NEW s, IsRunning(s), ~s.discharging, Truthful(s), NEW type \in Ends, NEW data,
           data = "extinguished" => PutOut(ScenarioOf(s).steps, s.events, s.index, Len(s.events) + 1)
    PROVE  Truthful(Advance(Emit(s, type, data)))
<1>1. PICK u : u = Emit(s, type, data)
  OBVIOUS
<1>2. type \notin {"forbidden_action", "choice_made"} /\ type \in Ends \cup {"attempt_aborted"}
  BY DEF Ends
<1>3. Truthful(u)
  <2>1. OneMore(s, u, Entry(s, type, s.index, data))
    BY <1>1, <1>2, EmitTruthful
  <2>2. QED BY <2>1 DEF OneMore
<1>4. IsBetween(u)
  BY <1>1, <1>2, EmitEnd
<1>5. QED BY <1>1, <1>3, <1>4, AdvanceTruthful

LEMMA CompleteTruthful ==
    ASSUME NEW s, IsRunning(s), ~s.discharging, Truthful(s), NEW data,
           data = "extinguished" => PutOut(ScenarioOf(s).steps, s.events, s.index, Len(s.events) + 1)
    PROVE  Truthful(Complete(s, data))
  BY EndTruthful DEF Complete, Ends

LEMMA NoteTruthful ==
    ASSUME NEW s, IsRunning(s), ~s.discharging, Truthful(s), NEW note, NEW noteData, NEW data,
           note \in {"target_hit", "marker_found", "position_reached", "zone_marked"},
           data # "extinguished"
    PROVE  Truthful(Complete(Emit(s, note, noteData), data))
<1>1. PICK u : u = Emit(s, note, noteData)
  OBVIOUS
<1>2. note \notin Ends \cup {"step_started", "discharge_started", "discharge_stopped", "attempt_aborted"}
      /\ note # "hold_progress" /\ note # "choice_made" /\ note # "forbidden_action" /\ note # "step_completed"
  BY DEF Ends
<1>3. Stays(s, u, TRUE) /\ u.discharging = s.discharging
  <2>1. /\ note = "hold_progress" =>
              (~s.discharging <=> StepAt(s, s.index).interaction = "aim_and_hold")
        /\ note = "choice_made" => TRUE
    BY <1>2
  <2>2. PICK answers : answers
    OBVIOUS
  <2>3. Stays(s, u, answers)
    BY <1>1, <1>2, <2>1, <2>2, EmitStays
  <2>4. u.discharging = s.discharging
    BY <1>1, <1>2, <2>1, <2>2, EmitStays
  <2>5. QED BY <2>2, <2>3, <2>4 DEF Stays, Follows
<1>4. Truthful(u)
  <2>1. OneMore(s, u, Entry(s, note, s.index, noteData))
    BY <1>1, <1>2, EmitTruthful
  <2>2. QED BY <2>1 DEF OneMore
<1>5. QED BY <1>1, <1>3, <1>4, CompleteTruthful DEF Stays

LEMMA PullPinTruthful ==
    ASSUME NEW s, IsRunning(s), Truthful(s)
    PROVE  Truthful(PullPin(s))
<1>1. CASE s.pinPulled
  BY <1>1 DEF PullPin
<1>2. CASE ~s.pinPulled
  <2>1. PICK e : e = Entry(s, "pin_pulled", s.index, None)
    OBVIOUS
  <2>2. DOMAIN s = SessionFields /\ IsList(s.events) /\ s.done = FALSE
    BY RunningParts
  <2>3. PICK u : u = PullPin(s)
    OBVIOUS
  <2>4. u = [[s EXCEPT !.pinPulled = TRUE] EXCEPT !.events = Append(@, e)]
    BY <1>2, <2>1, <2>2, <2>3 DEF PullPin, Emit, Current, Entry, SessionFields
  <2>5. Append(s.events, e) = s.events \o <<e>>
    BY <2>2, ListAppend
  <2>6. /\ u.events = s.events \o <<e>>
        /\ u.file = s.file /\ u.kind = s.kind /\ u.variant = s.variant /\ u.scenario = s.scenario
        /\ u.t = s.t /\ u.index = s.index /\ u.discharging = s.discharging /\ u.pinPulled = TRUE
    BY <2>2, <2>4, <2>5 DEF SessionFields
  <2>7. e.step = s.index /\ e.type = "pin_pulled"
    BY <2>1 DEF Entry
  <2>8. Truthful(u)
    <3>1. <<u.file, u.kind, u.variant, u.scenario, u.t, u.index>> =
            <<s.file, s.kind, s.variant, s.scenario, s.t, s.index>>
      BY <2>6
    <3>2. OneMore(s, u, e)
      BY <2>6, <2>7, <3>1, EntryTruthful
    <3>3. QED BY <3>2 DEF OneMore
  <2>9. QED BY <2>3, <2>8
<1>3. QED BY <1>1, <1>2

LEMMA StartTruthful ==
    ASSUME NEW s, IsRunning(s), Truthful(s)
    PROVE  Truthful(StartDischarge(s))
<1>1. CASE ~(s.pinPulled /\ ~s.discharging)
  BY <1>1 DEF StartDischarge
<1>2. CASE s.pinPulled /\ ~s.discharging
  <2>1. PICK e : e = Entry(s, "discharge_started", s.index, None)
    OBVIOUS
  <2>2. DOMAIN s = SessionFields /\ IsList(s.events) /\ s.done = FALSE
    BY RunningParts
  <2>3. PICK u : u = StartDischarge(s)
    OBVIOUS
  <2>4. u = [[s EXCEPT !.discharging = TRUE] EXCEPT !.events = Append(@, e)]
    BY <1>2, <2>1, <2>2, <2>3 DEF StartDischarge, Emit, Current, Entry, SessionFields
  <2>5. Append(s.events, e) = s.events \o <<e>>
    BY <2>2, ListAppend
  <2>6. /\ u.events = s.events \o <<e>>
        /\ u.file = s.file /\ u.kind = s.kind /\ u.variant = s.variant /\ u.scenario = s.scenario
        /\ u.t = s.t /\ u.index = s.index /\ u.pinPulled = s.pinPulled
    BY <2>2, <2>4, <2>5 DEF SessionFields
  <2>7. e.step = s.index /\ e.type = "discharge_started"
    BY <2>1 DEF Entry
  <2>8. Truthful(u)
    <3>1. <<u.file, u.kind, u.variant, u.scenario, u.t, u.index>> =
            <<s.file, s.kind, s.variant, s.scenario, s.t, s.index>>
      BY <2>6
    <3>2. /\ e.type # "forbidden_action"
          /\ e.type = "step_completed" /\ e.data = "extinguished" =>
                PutOut(ScenarioOf(s).steps, s.events, s.index, Len(s.events) + 1)
          /\ u.pinPulled => s.pinPulled \/ e.type = "pin_pulled"
          /\ u.discharging => u.pinPulled
      BY <1>2, <2>6, <2>7
    <3>3. OneMore(s, u, e)
      BY <2>6, <2>7, <3>1, <3>2, EntryTruthful
    <3>4. QED BY <3>3 DEF OneMore
  <2>9. QED BY <2>3, <2>8
<1>3. QED BY <1>1, <1>2

LEMMA StopTruthful ==
    ASSUME NEW s, IsRunning(s), Truthful(s)
    PROVE  Truthful(StopDischarge(s))
<1>1. CASE ~s.discharging
  BY <1>1 DEF StopDischarge
<1>2. CASE s.discharging
  <2>1. PICK e : e = Entry(s, "discharge_stopped", s.index, None)
    OBVIOUS
  <2>2. DOMAIN s = SessionFields /\ IsList(s.events) /\ s.done = FALSE
    BY RunningParts
  <2>3. PICK u : u = StopDischarge(s)
    OBVIOUS
  <2>4. u = [[s EXCEPT !.discharging = FALSE] EXCEPT !.events = Append(@, e)]
    BY <1>2, <2>1, <2>2, <2>3 DEF StopDischarge, Emit, Current, Entry, SessionFields
  <2>5. Append(s.events, e) = s.events \o <<e>>
    BY <2>2, ListAppend
  <2>6. /\ u.events = s.events \o <<e>>
        /\ u.file = s.file /\ u.kind = s.kind /\ u.variant = s.variant /\ u.scenario = s.scenario
        /\ u.t = s.t /\ u.index = s.index /\ u.pinPulled = s.pinPulled /\ u.discharging = FALSE
    BY <2>2, <2>4, <2>5 DEF SessionFields
  <2>7. e.step = s.index /\ e.type = "discharge_stopped"
    BY <2>1 DEF Entry
  <2>8. Truthful(u)
    <3>1. <<u.file, u.kind, u.variant, u.scenario, u.t, u.index>> =
            <<s.file, s.kind, s.variant, s.scenario, s.t, s.index>>
      BY <2>6
    <3>2. /\ e.type # "forbidden_action"
          /\ e.type = "step_completed" /\ e.data = "extinguished" =>
                PutOut(ScenarioOf(s).steps, s.events, s.index, Len(s.events) + 1)
          /\ u.pinPulled => s.pinPulled \/ e.type = "pin_pulled"
          /\ u.discharging => u.pinPulled
      BY <1>2, <2>6, <2>7
    <3>3. OneMore(s, u, e)
      BY <2>6, <2>7, <3>1, <3>2, EntryTruthful
    <3>4. QED BY <3>3 DEF OneMore
  <2>9. QED BY <2>3, <2>8
<1>3. QED BY <1>1, <1>2

LEMMA RepositionTruthful ==
    ASSUME NEW s, IsRunning(s), Truthful(s)
    PROVE  Truthful(Reposition(s))
<1>1. PICK u : u = Emit(s, "anchor_repositioned", None)
  OBVIOUS
<1>2. Truthful(u)
  <2>1. OneMore(s, u, Entry(s, "anchor_repositioned", s.index, None))
    BY <1>1, EmitTruthful
  <2>2. QED BY <2>1 DEF OneMore
<1>3. QED BY <1>1, <1>2 DEF Reposition

\* A sample, and where it was taken.
LEMMA SampleTruthful ==
    ASSUME NEW s, IsRunning(s), Truthful(s), NEW zone, NEW aim, NEW u, u = Sample(s, zone, aim)
    PROVE  /\ Truthful(u) /\ IsList(u.events)
           /\ \E j \in DOMAIN u.events : /\ j = Len(u.events) /\ u.events[j].step = s.index
                                         /\ u.events[j].type = "hold_progress"
                                         /\ u.events[j].data.zone = zone
<1>1. PICK hits : hits = s.onTarget + (IF zone = "base" THEN 1 ELSE 0)
  OBVIOUS
<1>2. PICK v : v = [s EXCEPT !.onTarget = hits]
  OBVIOUS
<1>3. DOMAIN s = SessionFields
  BY RunningParts
<1>4. /\ DOMAIN v = SessionFields /\ v.index = s.index
      /\ <<v.file, v.kind, v.variant, v.scenario, v.index, v.done, v.events, v.discharging, v.t>> =
           <<s.file, s.kind, s.variant, s.scenario, s.index, s.done, s.events, s.discharging, s.t>>
      /\ <<v.scenario, v.index, v.events, v.discharging, v.pinPulled>> =
           <<s.scenario, s.index, s.events, s.discharging, s.pinPulled>>
  BY <1>2, <1>3 DEF SessionFields
<1>5. IsRunning(v)
  BY <1>4, StaysAlike DEF Stays
<1>6. Truthful(v)
  BY <1>4, TruthfulAlike
<1>7. PICK data : data = [zone |-> zone, onTarget |-> hits, aim |-> aim]
  OBVIOUS
<1>8. u = Emit(v, "hold_progress", data) /\ data.zone = zone
  BY <1>1, <1>2, <1>7 DEF Sample
<1>9. PICK e : e = Entry(v, "hold_progress", v.index, data)
  OBVIOUS
<1>10. OneMore(v, u, e)
  <2>1. PICK type : type = "hold_progress"
    OBVIOUS
  <2>2. /\ type \notin {"forbidden_action", "choice_made"} /\ u = Emit(v, type, data)
        /\ type = "step_completed" /\ data = "extinguished" =>
              PutOut(ScenarioOf(v).steps, v.events, v.index, Len(v.events) + 1)
    BY <1>8, <2>1
  <2>3. OneMore(v, u, Entry(v, type, v.index, data))
    BY <1>5, <1>6, <2>2, EmitTruthful
  <2>4. QED BY <1>9, <2>1, <2>3
<1>11. e.step = s.index /\ e.type = "hold_progress" /\ e.data.zone = zone
  BY <1>4, <1>8, <1>9 DEF Entry
<1>12. QED BY <1>10, <1>11 DEF OneMore

LEMMA HoldTruthful ==
    ASSUME NEW s, IsRunning(s), Truthful(s), NEW zone, StepAt(s, s.index).interaction = "aim_and_hold"
    PROVE  Truthful(HoldSample(s, zone))
<1>1. DOMAIN s = SessionFields /\ s.discharging = FALSE
  <2>1. /\ DOMAIN s = SessionFields /\ s.discharging \in BOOLEAN
        /\ Open(ScenarioOf(s).steps, s.events, s.index, s.discharging)
    BY RunningParts
  <2>2. QED BY <2>1 DEF Open, StepAt
<1>2. PICK u : u = [s EXCEPT !.held = @ + 1]
  OBVIOUS
<1>3. /\ DOMAIN u = SessionFields /\ u.scenario = s.scenario /\ u.index = s.index
      /\ u.discharging = s.discharging
      /\ <<u.file, u.kind, u.variant, u.scenario, u.index, u.done, u.events, u.discharging, u.t>> =
           <<s.file, s.kind, s.variant, s.scenario, s.index, s.done, s.events, s.discharging, s.t>>
      /\ <<u.scenario, u.index, u.events, u.discharging, u.pinPulled>> =
           <<s.scenario, s.index, s.events, s.discharging, s.pinPulled>>
  BY <1>1, <1>2 DEF SessionFields
<1>4. IsRunning(u) /\ Truthful(u)
  BY <1>3, StaysAlike, TruthfulAlike DEF Stays
<1>5. PICK v : v = Sample(u, zone, None)
  OBVIOUS
<1>6. ~u.discharging <=> StepAt(u, u.index).interaction = "aim_and_hold"
  BY <1>1, <1>3 DEF StepAt, ScenarioOf
<1>7. Truthful(v)
  BY <1>4, <1>5, SampleTruthful
<1>8. IsRunning(v) /\ ~v.discharging
  <2>1. Stays(u, v, TRUE) /\ v.discharging = u.discharging
    BY <1>4, <1>5, <1>6, SampleStays
  <2>2. QED BY <1>1, <1>3, <2>1 DEF Stays
<1>9. HoldSample(s, zone) = v \/ HoldSample(s, zone) = Complete(v, None)
  BY <1>2, <1>5 DEF HoldSample
<1>10. Truthful(Complete(v, None))
  BY <1>7, <1>8, NoneAssumption, CompleteTruthful
<1>11. QED BY <1>7, <1>9, <1>10

LEMMA FinishTruthful ==
    ASSUME NEW s, IsRunning(s), Truthful(s), NEW outcome,
           outcome = "extinguished" => PutOut(ScenarioOf(s).steps, s.events, s.index, Len(s.events) + 1)
    PROVE  Truthful(FinishExtinguisher(s, outcome))
<1>1. PICK u : u = StopDischarge(s)
  OBVIOUS
<1>2. Stays(s, u, TRUE) /\ u.discharging = FALSE /\ IsRunning(u) /\ Truthful(u)
  BY <1>1, StopStays, StopTruthful DEF Stays
<1>3. outcome = "extinguished" => PutOut(ScenarioOf(u).steps, u.events, u.index, Len(u.events) + 1)
  <2>1. Follows(s, u, TRUE) /\ u.index = s.index
    BY <1>2 DEF Stays
  <2>2. IsList(s.events) /\ IsList(u.events) /\ s.index \in Nat
    BY <1>2, RunningSteps
  <2>3. ScenarioOf(u) = ScenarioOf(s)
    BY <2>1, <2>2, FollowsParts
  <2>4. PICK m \in Nat, n \in Nat : m = Len(s.events) /\ n = Len(u.events) /\ m <= n
    BY <2>1, <2>2 DEF IsList, Follows
  <2>5. m + 1 \in Nat /\ n + 1 \in Nat /\ m + 1 <= n + 1 /\ s.index <= s.index
    BY <2>2, <2>4
  <2>6. PICK steps : steps = ScenarioOf(s).steps
    OBVIOUS
  <2>7. PutOut(steps, s.events, s.index, m + 1) => PutOut(steps, u.events, s.index, n + 1)
    BY <2>1, <2>2, <2>5, PutOutLater
  <2>8. QED BY <2>1, <2>3, <2>4, <2>6, <2>7
<1>4. Truthful(Complete(u, outcome))
  BY <1>2, <1>3, CompleteTruthful
<1>5. QED BY <1>1, <1>4 DEF FinishExtinguisher

LEMMA SkipTruthful ==
    ASSUME NEW s, IsRunning(s), Truthful(s)
    PROVE  Truthful(Skip(s))
<1>1. PICK u : u = StopDischarge(s)
  OBVIOUS
<1>2. u.discharging = FALSE /\ IsRunning(u) /\ Truthful(u)
  BY <1>1, StopStays, StopTruthful DEF Stays
<1>3. Truthful(Advance(Emit(u, "step_skipped", "no_progress")))
  BY <1>2, EndTruthful DEF Ends
<1>4. QED BY <1>1, <1>3 DEF Skip

LEMMA AbortTruthful ==
    ASSUME NEW s, IsRunning(s), Truthful(s)
    PROVE  Truthful(Abort(s))
<1>1. PICK u : u = StopDischarge(s)
  OBVIOUS
<1>2. IsRunning(u) /\ Truthful(u)
  BY <1>1, StopStays, StopTruthful DEF Stays
<1>3. PICK ended : ended = Emit(u, "attempt_aborted", None)
  OBVIOUS
<1>4. Truthful(ended)
  <2>1. OneMore(u, ended, Entry(u, "attempt_aborted", u.index, None))
    BY <1>2, <1>3, EmitTruthful
  <2>2. QED BY <2>1 DEF OneMore
<1>5. PICK v : v = [ended EXCEPT !.done = TRUE]
  OBVIOUS
<1>6. DOMAIN ended = SessionFields
  <2>1. PICK entry : entry = <<Entry(u, "attempt_aborted", u.index, None)>>
    OBVIOUS
  <2>2. QED BY <1>2, <1>3, <2>1, EmitParts
<1>7. <<v.scenario, v.index, v.events, v.discharging, v.pinPulled>> =
        <<ended.scenario, ended.index, ended.events, ended.discharging, ended.pinPulled>>
  BY <1>5, <1>6 DEF SessionFields
<1>8. Truthful(v)
  BY <1>4, <1>7, TruthfulAlike
<1>9. s.done = FALSE
  BY RunningParts
<1>10. QED BY <1>1, <1>3, <1>5, <1>8, <1>9 DEF Abort

\* The forbidden options among those that were picked.
LEMMA ForbiddenTruthful ==
    ASSUME NEW s, IsRunning(s), Truthful(s), NEW picked, IsFiniteSet(DOMAIN StepAt(s, s.index).options),
           NEW j \in DOMAIN s.events, s.events[j].type = "choice_made", s.events[j].step = s.index,
           s.events[j].data = picked
    PROVE  Truthful(EmitForbidden(s, picked))
<1>1. PICK options : options = StepAt(s, s.index).options
  OBVIOUS
<1>2. PICK positions : positions = {k \in DOMAIN options : options[k].id \in picked /\ options[k].forbidden}
  OBVIOUS
<1>3. IsFiniteSet(positions) /\ positions \subseteq DOMAIN options
  BY <1>1, <1>2, FS_Subset
<1>4. PICK n \in Nat : n = Cardinality(positions)
  BY <1>3, FS_CardinalityType
<1>5. PICK bad : bad = InOrder(options, positions)
  OBVIOUS
<1>6. DOMAIN bad = 1..n
  BY <1>4, <1>5 DEF InOrder
<1>7. PICK tail : tail = [k \in 1..n |-> Entry(s, "forbidden_action", s.index, bad[k].tag)]
  OBVIOUS
<1>8. IsList(tail) /\ Len(tail) = n /\ DOMAIN tail = 1..n
  BY <1>7, FunctionIsList
<1>9. ASSUME NEW k \in 1..n
      PROVE  tail[k].step = s.index /\ tail[k].type = "forbidden_action"
  BY <1>7 DEF Entry
<1>10. PICK u : u = EmitForbidden(s, picked)
  OBVIOUS
<1>11. u = [s EXCEPT !.events = @ \o tail]
  BY <1>1, <1>2, <1>5, <1>6, <1>7, <1>10 DEF EmitForbidden
<1>12. DOMAIN s = SessionFields /\ IsList(s.events)
  BY RunningParts
<1>13. /\ u.events = s.events \o tail /\ u.scenario = s.scenario /\ u.index = s.index
       /\ u.discharging = s.discharging /\ u.pinPulled = s.pinPulled
  BY <1>11, <1>12 DEF SessionFields
<1>14. PICK m \in Nat : m = Len(s.events)
  BY <1>12 DEF IsList
<1>15. /\ IsList(u.events) /\ Len(u.events) = m + n
       /\ \A k \in m + 1..m + n : u.events[k] = tail[k - m]
  <2>1. PICK log : log = s.events
    OBVIOUS
  <2>2. IsList(log) /\ m = Len(log) /\ n = Len(tail)
    BY <1>8, <1>12, <1>14, <2>1
  <2>3. /\ IsList(log \o tail) /\ Len(log \o tail) = Len(log) + Len(tail)
        /\ \A k \in Len(log) + 1..Len(log) + Len(tail) : (log \o tail)[k] = tail[k - Len(log)]
    <3>1. IsList(log \o tail) /\ Len(log \o tail) = Len(log) + Len(tail)
      BY <1>8, <2>2, ListConcat
    <3>2. \A k \in Len(log) + 1..Len(log) + Len(tail) : (log \o tail)[k] = tail[k - Len(log)]
      BY <1>8, <2>2, ListConcat
    <3>3. QED BY <3>1, <3>2
  <2>4. QED BY <1>13, <2>1, <2>2, <2>3
<1>16. Follows(s, u, TRUE)
  <2>1. Stays(s, u, TRUE)
    BY <1>10, ForbiddenStays
  <2>2. QED BY <2>1 DEF Stays
<1>17. PICK steps : steps = ScenarioOf(s).steps
  OBVIOUS
<1>18. ASSUME NEW k \in m + 1..m + n
       PROVE  Honest(steps, u.events, k)
  <2>1. k - m \in 1..n /\ n # 0
    BY <1>14
  <2>2. u.events[k].step = s.index /\ u.events[k].type = "forbidden_action"
    BY <1>9, <1>15, <2>1
  <2>3. positions # {}
    BY <1>4, <2>1, FS_EmptySet
  <2>4. PICK o \in DOMAIN options : options[o].id \in picked /\ options[o].forbidden
    BY <1>2, <2>3
  <2>5. options = steps[s.index].options
    BY <1>1, <1>17 DEF StepAt
  <2>6. WasPicked(steps, s.events, s.index)
    BY <2>4, <2>5 DEF WasPicked
  <2>7. WasPicked(steps, u.events, s.index)
    BY <1>12, <1>15, <1>16, <2>6, PickedLater
  <2>8. QED BY <2>2, <2>7 DEF Honest
<1>19. \A k \in DOMAIN u.events : Honest(ScenarioOf(u).steps, u.events, k)
  <2>1. /\ s.index \in Nat
        /\ \A k \in DOMAIN s.events : s.events[k].step \in Nat /\ s.events[k].step <= s.index
    BY RunningSteps
  <2>2. \A k \in Len(s.events) + 1..Len(u.events) : Honest(ScenarioOf(s).steps, u.events, k)
    BY <1>14, <1>15, <1>17, <1>18
  <2>3. QED BY <1>12, <1>15, <1>16, <2>1, <2>2, HonestLater
<1>20. u.pinPulled => Happened(u.events, u.index, "pin_pulled")
  <2>1. ASSUME u.pinPulled PROVE Happened(u.events, u.index, "pin_pulled")
    <3>1. Happened(s.events, s.index, "pin_pulled")
      BY <1>13, <2>1 DEF Truthful
    <3>2. Happened(u.events, s.index, "pin_pulled")
      BY <1>12, <1>15, <1>16, <3>1, HappenedLater
    <3>3. QED BY <1>13, <3>2
  <2>2. QED BY <2>1
<1>21. u.discharging => u.pinPulled
  BY <1>13 DEF Truthful
<1>22. QED BY <1>10, <1>19, <1>20, <1>21 DEF Truthful

LEMMA ChooseTruthful ==
    ASSUME NEW s, IsRunning(s), ~s.discharging, Truthful(s), NEW picked,
           IsFiniteSet(DOMAIN StepAt(s, s.index).options), picked \subseteq OptionIds(StepAt(s, s.index))
    PROVE  Truthful(Choose(s, picked))
<1>1. PICK u : u = Emit(s, "choice_made", picked)
  OBVIOUS
<1>2. PICK answers : answers
  OBVIOUS
<1>3. Stays(s, u, answers) /\ u.discharging = s.discharging /\ u.scenario = s.scenario
  <2>1. PICK type : type = "choice_made"
    OBVIOUS
  <2>2. /\ u = Emit(s, type, picked) /\ (type = "choice_made" => answers) /\ type # "hold_progress"
        /\ type \notin Ends \cup {"step_started", "discharge_started", "discharge_stopped", "attempt_aborted"}
    BY <1>1, <1>2, <2>1 DEF Ends
  <2>3. Stays(s, u, answers)
    BY <2>2, EmitStays
  <2>4. PICK entry : entry = <<Entry(s, type, s.index, picked)>>
    OBVIOUS
  <2>5. u.discharging = s.discharging /\ u.scenario = s.scenario
    BY <2>2, <2>4, EmitParts
  <2>6. QED BY <2>3, <2>5
<1>4. IsRunning(u) /\ u.index = s.index /\ StepAt(u, u.index) = StepAt(s, s.index)
  BY <1>3 DEF Stays, StepAt, ScenarioOf
<1>5. PICK e : e = Entry(s, "choice_made", s.index, picked)
  OBVIOUS
<1>6. OneMore(s, u, e)
  <2>1. picked \subseteq OptionIds(ScenarioOf(s).steps[s.index])
    BY DEF StepAt
  <2>2. QED BY <1>1, <1>5, <2>1, EmitTruthful
<1>7. e.type = "choice_made" /\ e.step = u.index /\ e.data = picked
  BY <1>4, <1>5 DEF Entry
<1>8. PICK j \in DOMAIN u.events : u.events[j] = e
  BY <1>6 DEF OneMore
<1>9. PICK v : v = EmitForbidden(u, picked)
  OBVIOUS
<1>10. Truthful(u)
  BY <1>6 DEF OneMore
<1>11. Truthful(v)
  BY <1>4, <1>7, <1>8, <1>9, <1>10, ForbiddenTruthful
<1>12. Stays(u, v, answers) /\ v.discharging = u.discharging
  BY <1>4, <1>9, ForbiddenStays
<1>13. IsRunning(v) /\ ~v.discharging
  BY <1>3, <1>12 DEF Stays
<1>14. Truthful(Complete(v, None))
  BY <1>11, <1>13, NoneAssumption, CompleteTruthful
<1>15. QED BY <1>1, <1>9, <1>14 DEF Choose

-----------------------------------------------------------------------------
(* Claims of every handler *)

\* The session that a handler finds, and the one that it leaves.
LEMMA CallTruthful ==
    ASSUME IInv, ~session.done, Truthful(session), NEW delay \in Nat, NEW s, s = Call(delay)
    PROVE  Truthful(s)
<1>1. DOMAIN session = SessionFields
  BY IInvParts
<1>2. <<s.scenario, s.index, s.events, s.discharging, s.pinPulled>> =
        <<session.scenario, session.index, session.events, session.discharging, session.pinPulled>>
  BY <1>1 DEF Call, SessionFields
<1>3. QED BY <1>2, TruthfulAlike

LEMMA BecomesTruthful ==
    ASSUME Truthful(session), NEW next, Becomes(next), next.events = session.events \/ Truthful(next)
    PROVE  Truthful(session')
<1>1. session' = session \/ (session' = next /\ Truthful(next))
  BY DEF Becomes
<1>2. QED BY <1>1

\* Completing a step with anything but a fire that is out.
LEMMA CompletedTruthful ==
    ASSUME IInv, Truthful(session), ~session.done, ~session.discharging, NEW delay \in Nat,
           NEW data, data # "extinguished", Becomes(Complete(Call(delay), data))
    PROVE  Truthful(session')
<1>1. PICK s : s = Call(delay)
  OBVIOUS
<1>2. IsRunning(s) /\ ~s.discharging /\ Truthful(s)
  BY <1>1, CallParts, CallTruthful
<1>3. PICK next : next = Complete(s, data)
  OBVIOUS
<1>4. Truthful(next)
  BY <1>2, <1>3, CompleteTruthful
<1>5. Becomes(next)
  BY <1>1, <1>3
<1>6. QED BY <1>4, <1>5, BecomesTruthful

LEMMA NotedTruthful ==
    ASSUME IInv, Truthful(session), ~session.done, ~session.discharging, NEW delay \in Nat,
           NEW note, NEW noteData, NEW data, data # "extinguished",
           note \in {"target_hit", "marker_found", "position_reached", "zone_marked"},
           Becomes(Complete(Emit(Call(delay), note, noteData), data))
    PROVE  Truthful(session')
<1>1. PICK s : s = Call(delay)
  OBVIOUS
<1>2. IsRunning(s) /\ ~s.discharging /\ Truthful(s)
  BY <1>1, CallParts, CallTruthful
<1>3. PICK next : next = Complete(Emit(s, note, noteData), data)
  OBVIOUS
<1>4. Truthful(next)
  BY <1>2, <1>3, NoteTruthful
<1>5. Becomes(next)
  BY <1>1, <1>3
<1>6. QED BY <1>4, <1>5, BecomesTruthful

\* A handler that leaves the fire as it is.
Quiet == Truthful(session') /\ screen'.outcome = screen.outcome

LEMMA OutcomeStays ==
    ASSUME IInv
    PROVE  /\ \A on : [screen EXCEPT !.placed = on].outcome = screen.outcome
           /\ \A on : [screen EXCEPT !.exitKnown = on].outcome = screen.outcome
           /\ \A on : [screen EXCEPT !.repositioning = on].outcome = screen.outcome
           /\ \A mark : [screen EXCEPT !.waypoint = mark].outcome = screen.outcome
           /\ \A cones : [screen EXCEPT !.cones = cones].outcome = screen.outcome
<1>1. PICK x : x = screen
  OBVIOUS
<1>2. DOMAIN x = {"step", "placed", "exitKnown", "outcome", "spent", "waypoint", "cones",
                  "repositioning", "saved"}
  BY <1>1 DEF IInv, IsScreen, NewScreen
<1>3. /\ \A on : [x EXCEPT !.placed = on].outcome = x.outcome
      /\ \A on : [x EXCEPT !.exitKnown = on].outcome = x.outcome
      /\ \A on : [x EXCEPT !.repositioning = on].outcome = x.outcome
      /\ \A mark : [x EXCEPT !.waypoint = mark].outcome = x.outcome
      /\ \A cones : [x EXCEPT !.cones = cones].outcome = x.outcome
  BY <1>2
<1>4. QED BY <1>1, <1>3

LEMMA NarrationQuiet ==
    ASSUME IInv, Truthful(session), PressContinue \/ AudioEnds
    PROVE  Quiet
<1>1. Drawn({"narration"}) /\ Current(session) # 0 /\ Becomes(Complete(Call(1), None)) /\ screen' = screen
  BY DEF PressContinue, AudioEnds, DrawnIsCurrent, UIUnchanged
<1>2. ~session.done
  BY <1>1 DEF Current
<1>3. ~session.discharging
  BY <1>1, LeverUp
<1>4. Truthful(session')
  BY <1>1, <1>2, <1>3, NoneAssumption, CompletedTruthful
<1>5. QED BY <1>1, <1>4 DEF Quiet

LEMMA PlacementQuiet ==
    ASSUME IInv, Truthful(session), PlaceOverlay
    PROVE  Quiet
<1>1. /\ Answers({"place_on_plane"}) /\ Becomes(Complete(Call(1), "direction"))
      /\ screen' = [screen EXCEPT !.placed = TRUE]
  BY DEF PlaceOverlay
<1>2. ~session.done /\ ~session.discharging
  BY <1>1, AnswersRunning, LeverUp
<1>3. PICK data : data = "direction"
  OBVIOUS
<1>4. Truthful(session')
  BY <1>1, <1>2, <1>3, CompletedTruthful
<1>5. QED BY <1>1, <1>4, OutcomeStays DEF Quiet

LEMMA RepositionQuiet ==
    ASSUME IInv, Truthful(session), ToggleReposition \/ TapNewPlace
    PROVE  Quiet
<1>1. screen'.outcome = screen.outcome
  <2>1. \E on : screen' = [screen EXCEPT !.repositioning = on]
    BY DEF ToggleReposition, TapNewPlace
  <2>2. QED BY <2>1, OutcomeStays
<1>2. PICK s : s = Call(1)
  OBVIOUS
<1>3. CASE ToggleReposition
  <2>1. PICK next : next = StopDischarge(s) /\ Becomes(next)
    BY <1>2, <1>3 DEF ToggleReposition
  <2>2. CASE session.done
    <3>1. ~session.discharging /\ DOMAIN session = SessionFields
      BY <2>2, IInvParts DEF IInv, IsSession
    <3>2. s.events = session.events /\ ~s.discharging
      BY <1>2, <3>1 DEF Call, SessionFields
    <3>3. next.events = session.events
      BY <2>1, <3>2 DEF StopDischarge
    <3>4. QED BY <1>1, <2>1, <3>3, BecomesTruthful DEF Quiet
  <2>3. CASE ~session.done
    <3>1. IsRunning(s) /\ Truthful(s)
      BY <1>2, <2>3, CallParts, CallTruthful
    <3>2. Truthful(next)
      BY <2>1, <3>1, StopTruthful
    <3>3. QED BY <1>1, <2>1, <3>2, BecomesTruthful DEF Quiet
  <2>4. QED BY <2>2, <2>3
<1>4. CASE TapNewPlace
  <2>1. PICK next : next = Reposition(s) /\ Becomes(next)
    BY <1>2, <1>4 DEF TapNewPlace
  <2>2. ~session.done
    BY <1>4 DEF TapNewPlace, Current
  <2>3. IsRunning(s) /\ Truthful(s)
    BY <1>2, <2>2, CallParts, CallTruthful
  <2>4. Truthful(next)
    BY <2>1, <2>3, RepositionTruthful
  <2>5. QED BY <1>1, <2>1, <2>4, BecomesTruthful DEF Quiet
<1>5. QED BY <1>3, <1>4

LEMMA TargetQuiet ==
    ASSUME IInv, Truthful(session), NEW delay \in Nat, TapTarget(delay)
    PROVE  Quiet
<1>1. /\ Answers({"tap_target"}) /\ Becomes(Complete(Emit(Call(delay), "target_hit", None), None))
      /\ screen' = screen
  BY DEF TapTarget, UIUnchanged
<1>2. ~session.done /\ ~session.discharging
  BY <1>1, AnswersRunning, LeverUp
<1>3. Truthful(session')
  BY <1>1, <1>2, NoneAssumption, NotedTruthful
<1>4. QED BY <1>1, <1>3 DEF Quiet

LEMMA MarkerQuiet ==
    ASSUME IInv, Truthful(session), NEW delay \in Nat, MarkerReached(delay)
    PROVE  Quiet
<1>1. WantsMarker(Current(session))
  BY DEF MarkerReached
<1>2. ~session.done /\ Steps[session.index].interaction \in {"find_marker", "move_to"}
  BY <1>1 DEF WantsMarker, Current
<1>3. Answers({"find_marker", "move_to"})
  BY <1>1, <1>2 DEF WantsMarker, Answers, In, StepAt, Steps
<1>4. ~session.discharging
  BY <1>3, LeverUp
<1>5. PICK note \in {"target_hit", "marker_found", "position_reached", "zone_marked"} :
         Becomes(Complete(Emit(Call(delay), note, None), None))
  BY DEF MarkerReached, Arrive
<1>6. Truthful(session')
  BY <1>2, <1>4, <1>5, NoneAssumption, NotedTruthful
<1>7. screen' = [screen EXCEPT !.exitKnown = TRUE] \/ screen' = screen
  BY DEF MarkerReached
<1>8. QED BY <1>6, <1>7, OutcomeStays DEF Quiet

LEMMA WaypointQuiet ==
    ASSUME IInv, Truthful(session), NEW delay \in Nat, NEW mark, TapWaypoint(mark, delay)
    PROVE  Quiet
<1>1. Drawn({"move_to"}) /\ DrawnIsCurrent
  BY DEF TapWaypoint
<1>2. ~session.discharging /\ ~session.done
  BY <1>1, LeverUp DEF DrawnIsCurrent, Current
<1>3. CASE mark < Steps[screen.step].path
  <2>1. screen' = [screen EXCEPT !.waypoint = mark] /\ session' = session
    BY <1>3 DEF TapWaypoint
  <2>2. QED BY <2>1, OutcomeStays DEF Quiet
<1>4. CASE ~(mark < Steps[screen.step].path)
  <2>1. PICK data \in BehindData(Steps[screen.step]) :
           Becomes(Complete(Emit(Call(delay), "position_reached", None), data)) /\ screen' = screen
    BY <1>4 DEF TapWaypoint, Arrive
  <2>2. data # "extinguished"
    BY <2>1, NoneAssumption DEF BehindData
  <2>3. Truthful(session')
    BY <1>2, <2>1, <2>2, NotedTruthful
  <2>4. QED BY <2>1, <2>3 DEF Quiet
<1>5. QED BY <1>3, <1>4

LEMMA ChoiceQuiet ==
    ASSUME IInv, Truthful(session), (\E option : PressOption(option)) \/ (\E picked : PressDone(picked))
    PROVE  Quiet
<1>1. PICK picked : /\ Drawn(SingleSelect) \/ Drawn(MultiSelect)
                    /\ picked \subseteq OptionIds(Steps[screen.step])
                    /\ DrawnIsCurrent /\ Becomes(Choose(Call(1), picked)) /\ screen' = screen
  BY DEF PressOption, PressDone, UIUnchanged
<1>2. ~session.done
  BY <1>1 DEF DrawnIsCurrent, Current
<1>3. ~session.discharging
  <2>1. "operate_extinguisher" \notin SingleSelect /\ "operate_extinguisher" \notin MultiSelect
    BY DEF SingleSelect, MultiSelect
  <2>2. QED BY <1>1, <2>1, LeverUp
<1>4. PICK s : s = Call(1)
  OBVIOUS
<1>5. IsRunning(s) /\ ~s.discharging /\ IsFiniteSet(DOMAIN StepAt(s, s.index).options) /\ Truthful(s)
  BY <1>2, <1>3, <1>4, CallParts, CallTruthful
<1>6. PICK next : next = Choose(s, picked) /\ Becomes(next)
  BY <1>1, <1>4
<1>9. picked \subseteq OptionIds(StepAt(s, s.index))
  <2>1. s.scenario = session.scenario /\ s.index = session.index
    <3>1. DOMAIN session = SessionFields
      BY IInvParts
    <3>2. QED BY <1>4, <3>1 DEF Call, SessionFields
  <2>2. screen.step = session.index
    BY <1>1 DEF DrawnIsCurrent, Current
  <2>3. QED BY <1>1, <2>1, <2>2 DEF Steps, StepAt, ScenarioOf
<1>7. Truthful(next)
  BY <1>5, <1>6, <1>9, ChooseTruthful
<1>8. QED BY <1>1, <1>6, <1>7, BecomesTruthful DEF Quiet

LEMMA ZoneQuiet ==
    ASSUME IInv, Truthful(session), TapCone \/ RemoveCone \/ (\E error : FinishZone(error))
    PROVE  Quiet
<1>1. CASE TapCone \/ RemoveCone
  <2>1. session' = session /\ \E cones : screen' = [screen EXCEPT !.cones = cones]
    BY <1>1 DEF TapCone, RemoveCone
  <2>2. QED BY <2>1, OutcomeStays DEF Quiet
<1>2. CASE \E error : FinishZone(error)
  <2>1. PICK error : /\ Answers({"mark_zone"}) /\ screen' = screen
                     /\ Becomes(Complete(Emit(Call(1), "zone_marked", error), None))
    BY <1>2 DEF FinishZone, UIUnchanged
  <2>2. ~session.done /\ ~session.discharging
    BY <2>1, AnswersRunning, LeverUp
  <2>3. Truthful(session')
    BY <2>1, <2>2, NoneAssumption, NotedTruthful
  <2>4. QED BY <2>1, <2>3 DEF Quiet
<1>3. QED BY <1>1, <1>2

LEMMA HoldQuiet ==
    ASSUME IInv, Truthful(session), NEW zone, SampleHold(zone)
    PROVE  Quiet
<1>1. Answers({"aim_and_hold"}) /\ Becomes(HoldSample(Call(1), zone)) /\ screen' = screen
  BY DEF SampleHold, UIUnchanged
<1>2. ~session.done /\ Steps[session.index].interaction = "aim_and_hold"
  BY <1>1, AnswersRunning
<1>3. PICK s : s = Call(1)
  OBVIOUS
<1>4. IsRunning(s) /\ StepAt(s, s.index).interaction = "aim_and_hold" /\ Truthful(s)
  BY <1>2, <1>3, CallParts, CallTruthful
<1>5. PICK next : next = HoldSample(s, zone) /\ Becomes(next)
  BY <1>1, <1>3
<1>6. Truthful(next)
  BY <1>4, <1>5, HoldTruthful
<1>7. QED BY <1>1, <1>5, <1>6, BecomesTruthful DEF Quiet

\* The lever, and the outcome that the worker is shown.
LEMMA LeverQuiet ==
    ASSUME IInv, Claims, PullPinOut \/ SqueezeIn \/ SqueezeOut \/ PressOutcome
    PROVE  Quiet
<1>1. screen' = screen /\ Truthful(session)
  BY DEF UIUnchanged, PullPinOut, SqueezeIn, SqueezeOut, PressOutcome, Claims
<1>2. ~session.done
  <2>1. session.discharging => ~session.done
    BY DEF IInv, IsSession
  <2>2. QED BY <2>1, AnswersRunning
          DEF PullPinOut, SqueezeIn, SqueezeOut, PressOutcome, DrawnIsCurrent, Current
<1>3. PICK s : s = Call(1)
  OBVIOUS
<1>4. IsRunning(s) /\ Truthful(s) /\ s.index = session.index /\ s.events = Log /\ ScenarioOf(s).steps = Steps
  BY <1>1, <1>2, <1>3, CallParts, CallTruthful DEF Log, ScenarioOf, Steps
<1>5. \E next : Becomes(next) /\ Truthful(next)
  <2>1. CASE PullPinOut
    BY <1>3, <1>4, <2>1, PullPinTruthful DEF PullPinOut
  <2>2. CASE SqueezeIn
    BY <1>3, <1>4, <2>2, StartTruthful DEF SqueezeIn
  <2>3. CASE SqueezeOut
    BY <1>3, <1>4, <2>3, StopTruthful DEF SqueezeOut
  <2>4. CASE PressOutcome
    <3>1. PICK outcome : outcome = screen.outcome
      OBVIOUS
    <3>2. Becomes(FinishExtinguisher(s, outcome)) /\ DrawnIsCurrent
      BY <1>3, <2>4, <3>1 DEF PressOutcome
    <3>3. outcome = "extinguished" => PutOut(ScenarioOf(s).steps, s.events, s.index, Len(s.events) + 1)
      BY <1>4, <3>1, <3>2 DEF Claims
    <3>4. Truthful(FinishExtinguisher(s, outcome))
      BY <1>4, <3>3, FinishTruthful
    <3>5. QED BY <3>2, <3>4
  <2>5. QED BY <2>1, <2>2, <2>3, <2>4
<1>6. QED BY <1>1, <1>5, BecomesTruthful DEF Quiet

LEMMA LeaveQuiet ==
    ASSUME IInv, Truthful(session), PressSkip \/ PressStop
    PROVE  Quiet
<1>1. screen'.outcome = screen.outcome
  BY OutcomeStays DEF PressSkip, PressStop, UIUnchanged
<1>2. PICK s : s = Call(1)
  OBVIOUS
<1>3. CASE PressSkip
  <2>1. PICK next : next = Skip(s) /\ Becomes(next)
    BY <1>2, <1>3 DEF PressSkip
  <2>2. ~session.done
    BY <1>3 DEF PressSkip, SkipOffered, DrawnIsCurrent, Current
  <2>3. IsRunning(s) /\ Truthful(s)
    BY <1>2, <2>2, CallParts, CallTruthful
  <2>4. Truthful(next)
    BY <2>1, <2>3, SkipTruthful
  <2>5. QED BY <1>1, <2>1, <2>4, BecomesTruthful DEF Quiet
<1>4. CASE PressStop
  <2>1. PICK next : next = Abort(s) /\ Becomes(next)
    BY <1>2, <1>4 DEF PressStop
  <2>2. CASE session.done
    <3>1. DOMAIN session = SessionFields
      BY IInvParts
    <3>2. s.done /\ s.events = session.events
      BY <1>2, <2>2, <3>1 DEF Call, SessionFields
    <3>3. next.events = session.events
      BY <2>1, <3>2 DEF Abort
    <3>4. QED BY <1>1, <2>1, <3>3, BecomesTruthful DEF Quiet
  <2>3. CASE ~session.done
    <3>1. IsRunning(s) /\ Truthful(s)
      BY <1>2, <2>3, CallParts, CallTruthful
    <3>2. Truthful(next)
      BY <2>1, <3>1, AbortTruthful
    <3>3. QED BY <1>1, <2>1, <3>2, BecomesTruthful DEF Quiet
  <2>4. QED BY <2>2, <2>3
<1>5. QED BY <1>3, <1>4

\* The agent suits the fire if no forbidden one was chosen.
LEMMA NoneForbidden ==
    ASSUME IInv, Truthful(session), ~session.done, AgentEffective,
           Steps[session.index].interaction = "operate_extinguisher"
    PROVE  /\ Steps[session.index].agentFrom \in 1..session.index - 1
           /\ ~Happened(session.events, Steps[session.index].agentFrom, "forbidden_action")
<1>1. session.index \in DOMAIN Steps
  BY IInvParts, RunningParts DEF Steps
<1>2. Steps[session.index].agentFrom \in 1..session.index - 1
  BY <1>1, AgentIsEarlier DEF IInv, Steps
<1>3. PICK from : from = Steps[session.index].agentFrom
  OBVIOUS
<1>4. PICK log : log = session.events
  OBVIOUS
<1>5. PICK chosen : chosen = UNION {log[k].data : k \in {j \in DOMAIN log :
                                log[j].type = "choice_made" /\ log[j].step = from}}
  OBVIOUS
<1>6. \A o \in DOMAIN Steps[from].options :
         Steps[from].options[o].id \in chosen => ~Steps[from].options[o].forbidden
  BY <1>3, <1>4, <1>5 DEF AgentEffective
<1>7. ~WasPicked(Steps, log, from)
  <2>1. ASSUME NEW j \in DOMAIN log, log[j].type = "choice_made", log[j].step = from,
               NEW o \in DOMAIN Steps[from].options, Steps[from].options[o].id \in log[j].data,
               Steps[from].options[o].forbidden
        PROVE  FALSE
    <3>1. Steps[from].options[o].id \in chosen
      BY <1>5, <2>1
    <3>2. QED BY <1>6, <2>1, <3>1
  <2>2. QED BY <2>1 DEF WasPicked
<1>8. ~Happened(log, from, "forbidden_action")
  <2>1. ASSUME NEW k \in DOMAIN log, log[k].step = from, log[k].type = "forbidden_action"
        PROVE  FALSE
    <3>1. Honest(Steps, log, k)
      BY <1>4, <2>1 DEF Truthful, Steps
    <3>2. QED BY <1>7, <2>1, <3>1 DEF Honest
  <2>2. QED BY <2>1 DEF Happened
<1>9. QED BY <1>2, <1>3, <1>4, <1>8

\* A fire that is out was put out.
LEMMA SprayTruthful ==
    ASSUME IInv, Truthful(session), NEW zone, NEW aim, SpraySample(zone, aim)
    PROVE  /\ Truthful(session')
           /\ screen'.outcome = "extinguished" =>
                 PutOut(Steps, session'.events, session'.index, Len(session'.events) + 1)
<1>1. Drawn({"operate_extinguisher"}) /\ DrawnIsCurrent /\ session.discharging
  BY DEF SpraySample
<1>2. PICK spent : spent = screen.spent + 1
  OBVIOUS
<1>3. PICK s : s = Call(1)
  OBVIOUS
<1>4. PICK sampled : sampled = Sample(s, zone, aim)
  OBVIOUS
<1>5. PICK outcome \in Outcomes(zone, spent) :
         /\ screen' = [screen EXCEPT !.spent = spent, !.outcome = outcome]
         /\ Becomes(IF outcome = None THEN sampled ELSE StopDischarge(sampled))
  BY <1>2, <1>3, <1>4 DEF SpraySample
<1>6. PICK next : next = IF outcome = None THEN sampled ELSE StopDischarge(sampled)
  OBVIOUS
<1>7. ~session.done
  BY <1>1 DEF DrawnIsCurrent, Current
<1>8. /\ IsRunning(s) /\ s.discharging /\ Truthful(s)
      /\ s.index = session.index /\ s.events = session.events /\ s.scenario = session.scenario
      /\ StepAt(s, s.index).interaction = "operate_extinguisher"
      /\ Steps[session.index].interaction = "operate_extinguisher"
  BY <1>1, <1>3, <1>7, CallParts, CallTruthful
<1>9. /\ Truthful(sampled) /\ IsList(sampled.events)
      /\ \E j \in DOMAIN sampled.events : /\ j = Len(sampled.events) /\ sampled.events[j].step = s.index
                                          /\ sampled.events[j].type = "hold_progress"
                                          /\ sampled.events[j].data.zone = zone
  BY <1>4, <1>8, SampleTruthful
<1>10. Stays(s, sampled, TRUE) /\ IsRunning(sampled)
  <2>1. ~s.discharging <=> StepAt(s, s.index).interaction = "aim_and_hold"
    BY <1>8
  <2>2. Stays(s, sampled, TRUE)
    BY <1>4, <1>8, <2>1, SampleStays
  <2>3. QED BY <2>2 DEF Stays
<1>11. /\ Truthful(next) /\ IsList(next.events) /\ next.index = s.index /\ Follows(sampled, next, TRUE)
  <2>1. CASE outcome = None
    <3>1. next = sampled
      BY <1>6, <2>1
    <3>2. Stays(sampled, sampled, TRUE)
      BY <1>10, StaysItself
    <3>3. QED BY <1>9, <1>10, <3>1, <3>2 DEF Stays
  <2>2. CASE outcome # None
    <3>1. next = StopDischarge(sampled)
      BY <1>6, <2>2
    <3>2. Stays(sampled, next, TRUE) /\ Truthful(next)
      BY <1>9, <1>10, <3>1, StopStays, StopTruthful
    <3>3. IsRunning(next)
      BY <3>2 DEF Stays
    <3>4. IsList(next.events)
      BY <3>3, RunningParts
    <3>5. QED BY <1>10, <3>2, <3>4 DEF Stays
  <2>3. QED BY <2>1, <2>2
<1>12. Becomes(next)
  BY <1>5, <1>6
<1>13. Truthful(session')
  BY <1>11, <1>12, BecomesTruthful
<1>14. screen'.outcome = outcome
  <2>1. PICK x : x = screen
    OBVIOUS
  <2>2. "outcome" \in DOMAIN x /\ "spent" \in DOMAIN x
    BY <2>1 DEF IInv, IsScreen, NewScreen
  <2>3. [x EXCEPT !.spent = spent, !.outcome = outcome].outcome = outcome
    BY <2>2
  <2>4. QED BY <1>5, <2>1, <2>3
<1>15. session'.events = next.events /\ session'.index = next.index
  BY <1>8, <1>11, <1>12 DEF Becomes
<1>16. ASSUME outcome = "extinguished"
       PROVE  PutOut(Steps, next.events, next.index, Len(next.events) + 1)
  <2>1. AgentEffective /\ zone = "base"
    BY <1>5, <1>16, NoneAssumption DEF Outcomes
  <2>2. PICK steps : steps = Steps
    OBVIOUS
  <2>3. PICK from : from = steps[s.index].agentFrom
    OBVIOUS
  <2>4. from \in 1..s.index - 1 /\ ~Happened(s.events, from, "forbidden_action")
    BY <1>7, <1>8, <2>1, <2>2, <2>3, NoneForbidden
  <2>5. IsList(s.events) /\ s.index \in Nat /\ Follows(s, sampled, TRUE)
    BY <1>8, <1>10, RunningSteps DEF Stays
  <2>6. ~Happened(sampled.events, from, "forbidden_action")
    <3>1. from \in Nat /\ from < s.index
      BY <2>4, <2>5
    <3>2. QED BY <1>9, <2>4, <2>5, <3>1, NeverLater
  <2>7. PICK m \in Nat : m = Len(sampled.events)
    BY <1>9 DEF IsList
  <2>8. DOMAIN sampled.events = 1..m /\ \A j \in 1..m : j < m + 1
    BY <1>9, <2>7, ListIsSeq
  <2>9. \E j \in DOMAIN sampled.events :
           j < m + 1 /\ sampled.events[j].step = s.index /\ sampled.events[j].type = "pin_pulled"
    <3>1. Happened(s.events, s.index, "pin_pulled")
      BY <1>8 DEF Truthful
    <3>2. Happened(sampled.events, s.index, "pin_pulled")
      BY <1>9, <2>5, <3>1, HappenedLater
    <3>3. QED BY <2>8, <3>2 DEF Happened
  <2>10. \E j \in DOMAIN sampled.events :
            /\ j < m + 1 /\ sampled.events[j].step = s.index
            /\ sampled.events[j].type = "hold_progress" /\ sampled.events[j].data.zone = "base"
    BY <1>9, <2>1, <2>8
  <2>11. PutOut(steps, sampled.events, s.index, m + 1)
    BY <2>3, <2>4, <2>6, <2>9, <2>10 DEF PutOut
  <2>12. PICK n \in Nat : n = Len(next.events) /\ m <= n
    BY <1>11, <2>7 DEF IsList, Follows
  <2>13. m + 1 \in Nat /\ n + 1 \in Nat /\ m + 1 <= n + 1 /\ s.index <= s.index
    BY <2>5, <2>12
  <2>14. sampled.index = s.index
    BY <1>10 DEF Stays
  <2>15. PutOut(steps, next.events, s.index, n + 1)
    BY <1>9, <1>11, <2>5, <2>11, <2>13, <2>14, PutOutLater
  <2>16. QED BY <1>11, <2>2, <2>12, <2>15
<1>17. QED BY <1>13, <1>14, <1>15, <1>16

\* A handler that leaves the fire as it is keeps what is claimed of it.
LEMMA QuietKeeps ==
    ASSUME IInv, Claims, Handles, Quiet
    PROVE  Claims'
<1>1. Steps' = Steps
  BY HandlesKeeps
<1>2. session' = session \/ (~session.done /\ Follows(session, session', DrawnIsCurrent))
  BY DEF Handles
<1>3. screen'.step = screen.step /\ screen'.outcome = screen.outcome /\ Truthful(session')
  BY DEF Handles, Quiet
<1>4. /\ session.index \in Nat /\ IsList(session.events)
      /\ screen.step <= session.index /\ screen.step \in Nat
  BY IInvParts, ListIsSeq DEF Claims, IInv, IsScreen, IsList
<1>5. IsSession(session') /\ IsList(session'.events) /\ session'.index \in Nat
  <2>1. IsSession(session')
    BY HandlesKeeps DEF IInv
  <2>2. session'.index \in 1..Len(Steps) + 1 /\ Len(Steps) \in Nat
    <3>1. ScenarioOf(session').steps = Steps
      BY <1>1 DEF Steps
    <3>2. QED BY <2>1, <3>1, IInvParts DEF IsSession, IsList
  <2>3. QED BY <2>1, <2>2 DEF IsSession, IsList
<1>6. session.index <= session'.index
  BY <1>2, <1>4 DEF Follows
<1>7. screen'.step <= session'.index
  BY <1>3, <1>4, <1>5, <1>6
<1>8. ASSUME screen'.outcome = "extinguished", DrawnIsCurrent'
      PROVE  PutOut(Steps', Log', session'.index, Len(Log') + 1)
  <2>1. screen'.step # 0 /\ ~session'.done /\ session'.index = screen'.step
    BY <1>8 DEF DrawnIsCurrent, Current
  <2>2. session.index = screen.step /\ session'.index = session.index
    BY <1>3, <1>4, <1>5, <1>6, <2>1
  <2>3. ~session.done
    BY <1>2, <2>1
  <2>4. DrawnIsCurrent
    BY <1>3, <2>1, <2>2, <2>3 DEF DrawnIsCurrent, Current
  <2>5. PutOut(Steps, session.events, session.index, Len(session.events) + 1)
    BY <1>3, <1>8, <2>4 DEF Claims, Log
  <2>6. CASE session' = session
    BY <1>1, <2>5, <2>6 DEF Log
  <2>7. CASE ~session.done /\ Follows(session, session', DrawnIsCurrent)
    <3>1. PICK m \in Nat, n \in Nat : m = Len(session.events) /\ n = Len(session'.events) /\ m <= n
      BY <1>4, <1>5, <2>7 DEF IsList, Follows
    <3>2. m + 1 \in Nat /\ n + 1 \in Nat /\ m + 1 <= n + 1 /\ session.index <= session.index
      BY <1>4, <3>1
    <3>3. PICK s, u : s = session /\ u = session'
      OBVIOUS
    <3>4. PutOut(Steps, u.events, s.index, n + 1)
      <4>1. IsList(s.events) /\ IsList(u.events) /\ Follows(s, u, DrawnIsCurrent) /\ s.index \in Nat
        BY <1>4, <1>5, <2>7, <3>3
      <4>2. PutOut(Steps, s.events, s.index, m + 1)
        BY <2>5, <3>1, <3>3
      <4>3. s.index <= s.index
        BY <3>2, <3>3
      <4>4. QED BY <3>2, <4>1, <4>2, <4>3, PutOutLater
    <3>5. QED BY <1>1, <2>2, <3>1, <3>3, <3>4 DEF Log
  <2>8. QED BY <1>2, <2>6, <2>7
<1>9. QED BY <1>3, <1>7, <1>8 DEF Claims

\* What the spray does to the fire keeps it too.
LEMMA FireKeeps ==
    ASSUME IInv, Claims, Handles, (\E zone, aim : SpraySample(zone, aim)) \/ FireGrows
    PROVE  Claims'
<1>1. Steps' = Steps /\ screen'.step = screen.step
  BY HandlesKeeps DEF Handles
<1>2. /\ session.index \in Nat /\ session'.index \in Nat
      /\ session.index <= session'.index /\ screen.step <= session.index /\ screen.step \in Nat
  <2>1. session.index \in Nat /\ screen.step <= session.index /\ screen.step \in Nat
    BY IInvParts, ListIsSeq DEF Claims, IInv, IsScreen, IsList
  <2>2. session'.index \in Nat
    <3>1. IsSession(session') /\ ScenarioOf(session').steps = Steps
      BY <1>1, HandlesKeeps DEF IInv, Steps
    <3>2. QED BY <3>1, IInvParts DEF IsSession, IsList
  <2>3. session.index <= session'.index
    BY <2>1, <2>2 DEF Handles, Follows
  <2>4. QED BY <2>1, <2>2, <2>3
<1>3. screen'.step <= session'.index
  BY <1>1, <1>2
<1>4. CASE FireGrows
  <2>1. session' = session /\ screen' = [screen EXCEPT !.outcome = "out_of_control"]
    BY <1>4 DEF FireGrows
  <2>2. screen'.outcome # "extinguished"
    <3>1. PICK x : x = screen
      OBVIOUS
    <3>2. "outcome" \in DOMAIN x
      BY <3>1 DEF IInv, IsScreen, NewScreen
    <3>3. [x EXCEPT !.outcome = "out_of_control"].outcome = "out_of_control"
      BY <3>2
    <3>4. QED BY <2>1, <3>1, <3>3
  <2>3. Truthful(session')
    BY <2>1 DEF Claims
  <2>4. QED BY <1>3, <2>2, <2>3 DEF Claims
<1>5. CASE \E zone, aim : SpraySample(zone, aim)
  <2>1. PICK zone, aim : SpraySample(zone, aim)
    BY <1>5
  <2>2. /\ Truthful(session')
        /\ screen'.outcome = "extinguished" =>
              PutOut(Steps, session'.events, session'.index, Len(session'.events) + 1)
    BY <2>1, SprayTruthful DEF Claims
  <2>3. QED BY <1>1, <1>3, <2>2 DEF Claims, Log
<1>6. QED BY <1>4, <1>5

LEMMA StepClaims ==
    ASSUME IInv, Claims, Next, ~Render
    PROVE  Claims'
<1>1. Delays \subseteq Nat /\ Handles /\ Truthful(session)
  BY IInvParts, StepHandles DEF Claims
<1>2. CASE Quiet
  BY <1>1, <1>2, QuietKeeps
<1>3. CASE PressContinue \/ AudioEnds
  BY <1>1, <1>2, <1>3, NarrationQuiet
<1>4. CASE TapPlane \/ SeeAnchorMarker
  BY <1>1, <1>2, <1>4, PlacementQuiet DEF TapPlane, SeeAnchorMarker
<1>5. CASE ToggleReposition \/ TapNewPlace
  BY <1>1, <1>2, <1>5, RepositionQuiet
<1>6. CASE \E delay \in Delays : TapTarget(delay)
  BY <1>1, <1>2, <1>6, TargetQuiet
<1>7. CASE \E delay \in Delays : ScanMarker(delay) \/ TapExitSign(delay)
  BY <1>1, <1>2, <1>7, MarkerQuiet DEF ScanMarker, TapExitSign
<1>8. CASE \E delay \in Delays : \E i \in DOMAIN Steps : \E mark \in 1..Steps[i].path : TapWaypoint(mark, delay)
  BY <1>1, <1>2, <1>8, WaypointQuiet
<1>9. CASE (\E option : PressOption(option)) \/ (\E picked : PressDone(picked))
  BY <1>1, <1>2, <1>9, ChoiceQuiet
<1>10. CASE TapCone \/ RemoveCone \/ (\E error : FinishZone(error))
  BY <1>1, <1>2, <1>10, ZoneQuiet
<1>11. CASE \E zone : SampleHold(zone)
  BY <1>1, <1>2, <1>11, HoldQuiet
<1>12. CASE (\E zone, aim : SpraySample(zone, aim)) \/ FireGrows
  BY <1>1, <1>12, FireKeeps
<1>13. CASE PullPinOut \/ SqueezeIn \/ SqueezeOut \/ PressOutcome
  BY <1>2, <1>13, LeverQuiet
<1>14. CASE PressSkip \/ PressStop
  BY <1>1, <1>2, <1>14, LeaveQuiet
<1>15. QED
  <2>1. (\E spray \in Sprays : SampleHold(spray[1]) \/ SpraySample(spray[1], spray[2])) =>
           (\E zone : SampleHold(zone)) \/ (\E zone, aim : SpraySample(zone, aim))
    OBVIOUS
  <2>2. QED
    BY <1>3, <1>4, <1>5, <1>6, <1>7, <1>8, <1>9, <1>10, <1>11, <1>12, <1>13, <1>14, <2>1 DEF Next

\* A render shows no outcome of a step that it draws anew.
LEMMA RenderClaims ==
    ASSUME IInv, Claims, Render
    PROVE  Claims'
<1>1. PICK drawn : drawn = Current(session)
  OBVIOUS
<1>2. PICK x : x = IF drawn \in {0, screen.step} THEN [screen EXCEPT !.step = drawn] ELSE Fresh(drawn)
  OBVIOUS
<1>3. screen' = [x EXCEPT !.saved = session.done] /\ session' = session
  BY <1>1, <1>2 DEF Render
<1>4. Steps' = Steps /\ Log' = Log /\ session.done \in BOOLEAN /\ session.index \in Nat
  BY <1>3, IInvParts DEF Steps, Log
<1>5. PICK y : y = screen
  OBVIOUS
<1>6. DOMAIN y = {"step", "placed", "exitKnown", "outcome", "spent", "waypoint", "cones",
                  "repositioning", "saved"}
  BY <1>5 DEF IInv, IsScreen, NewScreen
<1>7. screen'.step = drawn /\ screen'.outcome = IF drawn \in {0, screen.step} THEN screen.outcome ELSE None
  <2>1. CASE drawn \in {0, screen.step}
    <3>1. x = [y EXCEPT !.step = drawn]
      BY <1>2, <1>5, <2>1
    <3>2. /\ [x EXCEPT !.saved = session.done].step = drawn
          /\ [x EXCEPT !.saved = session.done].outcome = y.outcome
      BY <1>6, <3>1
    <3>3. QED BY <1>3, <1>5, <2>1, <3>2
  <2>2. CASE drawn \notin {0, screen.step}
    <3>1. x = Fresh(drawn)
      BY <1>2, <2>2
    <3>2. /\ [x EXCEPT !.saved = session.done].step = drawn
          /\ [x EXCEPT !.saved = session.done].outcome = None
      BY <3>1 DEF Fresh, NewScreen
    <3>3. QED BY <1>3, <2>2, <3>2
  <2>3. QED BY <2>1, <2>2
<1>8. screen'.step <= session'.index
  BY <1>1, <1>3, <1>4, <1>7 DEF Current
<1>9. ASSUME screen'.outcome = "extinguished", DrawnIsCurrent'
      PROVE  PutOut(Steps', Log', session'.index, Len(Log') + 1)
  <2>1. screen'.step # 0
    BY <1>9 DEF DrawnIsCurrent
  <2>2. drawn = screen.step /\ screen.outcome = "extinguished"
    BY <1>7, <1>9, <2>1, NoneAssumption
  <2>3. DrawnIsCurrent
    BY <1>1, <1>7, <2>1, <2>2 DEF DrawnIsCurrent
  <2>4. PutOut(Steps, Log, session.index, Len(Log) + 1)
    BY <2>2, <2>3 DEF Claims
  <2>5. QED BY <1>3, <1>4, <2>4
<1>10. Truthful(session')
  BY <1>3 DEF Claims
<1>11. QED BY <1>8, <1>9, <1>10 DEF Claims

\* A drill begins with no claims.
LEMMA InitClaims ==
    ASSUME Init
    PROVE  Claims
<1>1. PICK launch \in {l \in Launches : l.file \in Loaded} :
         \E variant \in DOMAIN Scenario[launch.file][launch.kind] :
            session = Start(launch.file, launch.kind, variant)
  BY DEF Init
<1>2. PICK variant \in DOMAIN Scenario[launch.file][launch.kind] :
         session = Start(launch.file, launch.kind, variant)
  BY <1>1
<1>3. PICK file \in Loaded, kind \in Kinds : file = launch.file /\ kind = launch.kind
  BY <1>1, LaunchAssumption
<1>4. PICK v \in DOMAIN Scenario[file][kind] : v = variant
  BY <1>2, <1>3
<1>5. PICK s : s = [file |-> file, kind |-> kind, variant |-> v,
                    scenario |-> Scenario[file][kind][v], t |-> 0, index |-> 0,
                    done |-> FALSE, events |-> <<>>, held |-> 0, onTarget |-> 0,
                    pinPulled |-> FALSE, discharging |-> FALSE]
  OBVIOUS
<1>6. /\ DOMAIN s = SessionFields /\ s.index = 0 /\ s.events = <<>> /\ s.t = 0
      /\ s.scenario = Scenario[file][kind][v] /\ s.pinPulled = FALSE /\ s.discharging = FALSE
  BY <1>5 DEF SessionFields
<1>7. ScenarioOf(s) = Scenario[file][kind][v] /\ IsList(ScenarioOf(s).steps)
  BY <1>6, StepsAreAList DEF ScenarioOf
<1>8. IsList(<<>>) /\ DOMAIN <<>> = {}
  BY DEF IsList
<1>9. IsBetween(s)
  <2>1. LogFits(ScenarioOf(s).steps, s.events, s.t, s.index)
    BY <1>6, <1>8 DEF LogFits
  <2>2. s.index \in 0..Len(ScenarioOf(s).steps)
    BY <1>6, <1>7 DEF IsList
  <2>3. QED BY <1>6, <1>7, <2>1, <2>2 DEF IsBetween
<1>10. Truthful(s)
  BY <1>6, <1>8 DEF Truthful
<1>11. session = Advance(s)
  BY <1>2, <1>3, <1>4, <1>5 DEF Start
<1>12. Truthful(session)
  BY <1>9, <1>10, <1>11, AdvanceTruthful
<1>13. screen.step = 0 /\ screen.outcome = None
  BY DEF Init, NewScreen
<1>14. screen.step <= session.index
  BY <1>13, InitKeeps, IInvParts
<1>15. QED BY <1>12, <1>13, <1>14, NoneAssumption DEF Claims

\* Every claim of the log and of the screen is true at all times.
LEMMA ClaimsHold == Spec => []Claims
<1>1. Init => Claims
  BY InitClaims
<1>2. IInv /\ Claims /\ [Next]_vars => Claims'
  <2>1. SUFFICES ASSUME IInv, Claims, [Next]_vars PROVE Claims'
    OBVIOUS
  <2>2. CASE Render
    BY <2>1, <2>2, RenderClaims
  <2>3. CASE Next /\ ~Render
    BY <2>1, <2>3, StepClaims
  <2>4. CASE UNCHANGED vars
    <3>1. session' = session /\ screen' = screen
      BY <2>4 DEF vars
    <3>2. Steps' = Steps /\ Log' = Log /\ DrawnIsCurrent' = DrawnIsCurrent
      BY <3>1 DEF Steps, Log, DrawnIsCurrent
    <3>3. QED BY <2>1, <3>1, <3>2 DEF Claims
  <2>5. QED BY <2>1, <2>2, <2>3, <2>4
<1>3. QED BY <1>1, <1>2, IInvHolds, PTL DEF Spec

\* A step ends with the fire put out only if the pin was pulled, the base was sprayed
\* while the lever was down, and the extinguisher that was chosen suits the fire.
THEOREM ExtinguishedForRealHolds == Spec => []ExtinguishedForReal
<1>1. Claims => ExtinguishedForReal
  <2>1. SUFFICES ASSUME Claims, NEW k \in DOMAIN Log,
                        Log[k].type = "step_completed", Log[k].data = "extinguished"
                 PROVE  /\ Before(Log, k, {"pin_pulled"}) # {}
                        /\ \E j \in Before(Log, k, {"hold_progress"}) : Log[j].data.zone = "base"
                        /\ \A j \in DOMAIN Log :
                              ~(/\ Log[j].type = "forbidden_action"
                                /\ Log[j].step = Steps[Log[k].step].agentFrom)
    BY DEF ExtinguishedForReal
  <2>2. Honest(Steps, Log, k)
    BY <2>1 DEF Claims, Truthful, Log, Steps
  <2>3. PutOut(Steps, Log, Log[k].step, k)
    BY <2>1, <2>2 DEF Honest
  <2>4. QED BY <2>3 DEF PutOut, Before, Of, Happened
<1>2. QED BY <1>1, ClaimsHold, PTL

-----------------------------------------------------------------------------
(* What a log scores without its repositions *)

\* The entries of a log at some positions, each with its number among them.
Renumbers(log, positions, part, number) ==
    /\ \E m \in Nat : positions \subseteq 1..m
    /\ DOMAIN part \subseteq Int
    /\ \A i \in positions : number[i] \in DOMAIN part /\ part[number[i]] = log[i]
    /\ \A n \in DOMAIN part : \E i \in positions : number[i] = n
    /\ \A i, j \in positions : number[i] <= number[j] <=> i <= j

Numbers(number, positions) == {number[i] : i \in positions}

LEMMA PartRenumbers ==
    ASSUME NEW log, NEW m \in Nat, NEW positions \in SUBSET (1..m)
    PROVE  /\ IsFiniteSet(positions)
           /\ DOMAIN InOrder(log, positions) = 1..Cardinality(positions)
           /\ Cardinality(positions) \in Nat
           /\ \E number : Renumbers(log, positions, InOrder(log, positions), number)
<1>1. positions \in SUBSET Int /\ IsFiniteSet(positions)
  <2>1. IsFiniteSet(1..m)
    BY FS_Interval
  <2>2. IsFiniteSet(positions)
    BY <2>1, FS_Subset
  <2>3. positions \subseteq Int
    OBVIOUS
  <2>4. QED BY <2>2, <2>3
<1>2. Cardinality(positions) \in Nat
  BY <1>1, FS_CardinalityType
<1>3. DOMAIN InOrder(log, positions) = 1..Cardinality(positions)
  BY DEF InOrder
<1> DEFINE number == [i \in positions |-> Rank(positions, i)]
           part == InOrder(log, positions)
<1>4. /\ \A n \in DOMAIN part : \E i \in positions : Rank(positions, i) = n
      /\ \A i \in positions : Rank(positions, i) \in DOMAIN part /\ part[Rank(positions, i)] = log[i]
  BY <1>1, PartOfList
<1>5. \A i \in positions : number[i] = Rank(positions, i)
  OBVIOUS
<1>6. ASSUME NEW i \in positions, NEW j \in positions PROVE number[i] <= number[j] <=> i <= j
  <2>1. i \in Int /\ j \in Int
    BY <1>1
  <2>2. Rank(positions, i) \in Int /\ Rank(positions, j) \in Int
    BY <1>3, <1>4
  <2>3. /\ i < j => Rank(positions, i) < Rank(positions, j)
        /\ j < i => Rank(positions, j) < Rank(positions, i)
    BY <1>1, RankGrows
  <2>4. QED BY <1>5, <2>1, <2>2, <2>3
<1> HIDE DEF number, part
<1>7. Renumbers(log, positions, part, number)
  <2>1. DOMAIN part \subseteq Int
    BY <1>2, <1>3 DEF part
  <2>2. QED BY <1>4, <1>5, <1>6, <2>1 DEF Renumbers
<1>8. QED BY <1>1, <1>2, <1>3, <1>7 DEF part

\* A number stands for one position.
LEMMA NumbersDiffer ==
    ASSUME NEW log, NEW positions, NEW part, NEW number, Renumbers(log, positions, part, number), NEW i \in positions, NEW j \in positions,
           number[i] = number[j]
    PROVE  i = j
<1>1. i \in Int /\ j \in Int
  BY DEF Renumbers
<1>2. (number[i] <= number[j] <=> i <= j) /\ (number[j] <= number[i] <=> j <= i)
  BY DEF Renumbers
<1>3. (i <= i <=> number[i] <= number[i])
  BY DEF Renumbers
<1>4. QED BY <1>1, <1>2, <1>3

\* So there are as many numbers as positions, and in order they have the same entries.
LEMMA NumbersInOrder ==
    ASSUME NEW log, NEW positions, NEW part, NEW number, Renumbers(log, positions, part, number),
           NEW some \in SUBSET positions
    PROVE  /\ Cardinality(Numbers(number, some)) = Cardinality(some)
           /\ InOrder(part, Numbers(number, some)) = InOrder(log, some)
<1>0. PICK numbers : numbers = Numbers(number, some)
  OBVIOUS
<1> USE <1>0 DEF Numbers
<1>1. some \in SUBSET Nat /\ IsFiniteSet(some)
  <2>1. PICK m \in Nat : positions \subseteq 1..m
    BY DEF Renumbers
  <2>2. IsFiniteSet(1..m)
    BY <2>1, FS_Interval
  <2>3. some \subseteq 1..m
    BY <2>1
  <2>4. some \subseteq Nat
    BY <2>1, <2>3
  <2>5. QED BY <2>2, <2>3, <2>4, FS_Subset
<1>2. \A i \in some : number[i] \in Int /\ number[i] \in numbers /\ part[number[i]] = log[i]
  BY DEF Renumbers
<1>6. \A j, k \in some : number[j] = number[k] => j = k
  BY NumbersDiffer
<1>3. ASSUME NEW i \in some PROVE Rank(numbers, number[i]) = Rank(some, i)
  <2> DEFINE upTo == {j \in some : j <= i}
             upToNumber == {n \in numbers : n <= number[i]}
             renumber == [j \in upTo |-> number[j]]
  <2>1. upToNumber = {number[j] : j \in upTo}
    BY DEF Renumbers
  <2>2. IsFiniteSet(upTo)
    BY <1>1, FS_Subset
  <2>3. renumber \in Bijection(upTo, upToNumber)
    <3>1. \A j, k \in upTo : renumber[j] = renumber[k] => j = k
      BY <1>6
    <3>2. renumber \in [upTo -> upToNumber]
      BY <2>1
    <3>3. \A n \in upToNumber : \E j \in upTo : renumber[j] = n
      BY <2>1
    <3>4. QED BY <3>1, <3>2, <3>3 DEF Bijection, Injection, IsInjective, Surjection
  <2>4. Cardinality(upToNumber) = Cardinality(upTo)
    BY <2>2, <2>3, FS_Bijection DEF ExistsBijection
  <2>5. QED BY <2>4 DEF Rank
<1>4. IsFiniteSet(numbers) /\ Cardinality(numbers) = Cardinality(some)
  <2> DEFINE renumber == [j \in some |-> number[j]]
  <2>1. renumber \in Bijection(some, numbers)
    <3>1. \A j, k \in some : renumber[j] = renumber[k] => j = k
      BY <1>6
    <3>2. renumber \in [some -> numbers]
      OBVIOUS
    <3>3. \A n \in numbers : \E j \in some : renumber[j] = n
      OBVIOUS
    <3>4. QED BY <3>1, <3>2, <3>3 DEF Bijection, Injection, IsInjective, Surjection
  <2>2. QED BY <1>1, <2>1, FS_Bijection DEF ExistsBijection
<1>5. InOrder(part, numbers) = InOrder(log, some)
  <2>1. ASSUME NEW n \in 1..Cardinality(some)
        PROVE  part[CHOOSE k \in numbers : Rank(numbers, k) = n] =
                  log[CHOOSE i \in some : Rank(some, i) = n]
    <3>1. n \in DOMAIN InOrder(log, some)
      BY DEF InOrder
    <3>2. \E i \in some : Rank(some, i) = n
      <4>1. some \in SUBSET Int
        BY <1>1
      <4>2. QED BY <1>1, <3>1, <4>1, PartOfList
    <3>3. PICK i : i = CHOOSE j \in some : Rank(some, j) = n
      OBVIOUS
    <3>4. i \in some /\ Rank(some, i) = n
      BY <3>2, <3>3
    <3>5. ASSUME NEW k \in numbers, Rank(numbers, k) = n PROVE k = number[i]
      <4>1. PICK j \in some : k = number[j]
        OBVIOUS
      <4>2. Rank(some, j) = n
        BY <1>3, <3>5, <4>1
      <4>3. ~(i < j) /\ ~(j < i)
        <5>1. some \in SUBSET Int
          BY <1>1
        <5>2. Rank(some, i) \in Int
          BY <3>4
        <5>3. /\ i < j => Rank(some, i) < Rank(some, j)
              /\ j < i => Rank(some, j) < Rank(some, i)
          BY <1>1, <3>4, <5>1, RankGrows
        <5>4. QED BY <3>4, <4>2, <5>2, <5>3
      <4>4. i = j
        BY <1>1, <3>4, <4>3
      <4>5. QED BY <4>1, <4>4
    <3>6. number[i] \in numbers /\ Rank(numbers, number[i]) = n
      BY <1>2, <1>3, <3>4
    <3>7. (CHOOSE k \in numbers : Rank(numbers, k) = n) = number[i]
      BY <3>5, <3>6
    <3>8. QED BY <1>2, <3>3, <3>4, <3>7
  <2> DEFINE at(n) == part[CHOOSE k \in numbers : Rank(numbers, k) = n]
             was(n) == log[CHOOSE i \in some : Rank(some, i) = n]
  <2>2. InOrder(part, numbers) = [n \in 1..Cardinality(some) |-> at(n)]
    BY <1>4 DEF InOrder
  <2>3. InOrder(log, some) = [n \in 1..Cardinality(some) |-> was(n)]
    BY DEF InOrder
  <2>4. \A n \in 1..Cardinality(some) : at(n) = was(n)
    BY <2>1
  <2> HIDE DEF at, was
  <2>5. QED BY <2>2, <2>3, <2>4
<1>7. QED BY <1>0, <1>4, <1>5

\* And the first number is that of the first position.
LEMMA NumbersFirst ==
    ASSUME NEW log, NEW positions, NEW part, NEW number, Renumbers(log, positions, part, number),
           NEW some \in SUBSET positions, some # {}
    PROVE  part[Min(Numbers(number, some))] = log[Min(some)]
<1>0. PICK numbers : numbers = Numbers(number, some)
  OBVIOUS
<1> USE <1>0 DEF Numbers
<1>1. some \in SUBSET Nat /\ IsFiniteSet(some)
  <2>1. PICK m \in Nat : positions \subseteq 1..m
    BY DEF Renumbers
  <2>2. IsFiniteSet(1..m)
    BY <2>1, FS_Interval
  <2>3. some \subseteq 1..m
    BY <2>1
  <2>4. some \subseteq Nat
    BY <2>1, <2>3
  <2>5. QED BY <2>2, <2>3, <2>4, FS_Subset
<1>2. \A i \in some : number[i] \in Int /\ number[i] \in numbers /\ part[number[i]] = log[i]
  BY DEF Renumbers
<1>3. \E i \in some : \A j \in some : i <= j
  <2>1. some \in SUBSET Nat
    BY <1>1
  <2>2. QED BY <2>1, LeastNumber
<1>4. PICK i : i = Min(some)
  OBVIOUS
<1>5. i \in some /\ \A j \in some : i <= j
  BY <1>3, <1>4 DEF Min
<1>6. number[i] \in numbers /\ \A n \in numbers : number[i] <= n
  <2>1. \A j \in some : number[i] <= number[j]
    BY <1>5 DEF Renumbers
  <2>2. QED BY <1>2, <1>5, <2>1
<1>7. ASSUME NEW k \in numbers, \A n \in numbers : k <= n PROVE k = number[i]
  <2>1. k \in Int /\ number[i] \in Int /\ k <= number[i] /\ number[i] <= k
    BY <1>2, <1>5, <1>6, <1>7
  <2>2. QED BY <2>1
<1>8. Min(numbers) = number[i]
  BY <1>6, <1>7 DEF Min
<1>9. QED BY <1>2, <1>4, <1>5, <1>8

\* The entries of a log that are no repositions, with their numbers among them.
Counted(log, part, number) ==
    /\ \E m \in Nat : DOMAIN log = 1..m
    /\ \E n \in Nat : DOMAIN part = 1..n
    /\ Renumbers(log, {k \in DOMAIN log : log[k].type # "anchor_repositioned"}, part, number)

LEMMA CountedEntries ==
    ASSUME NEW log, NEW part, NEW number, Counted(log, part, number)
    PROVE  /\ \A k \in DOMAIN log : log[k].type # "anchor_repositioned" =>
                 number[k] \in DOMAIN part /\ part[number[k]] = log[k]
           /\ \A n \in DOMAIN part : \E k \in DOMAIN log :
                 number[k] = n /\ part[n] = log[k] /\ log[k].type # "anchor_repositioned"
  BY DEF Counted, Renumbers

LEMMA CountedInStep ==
    ASSUME NEW log, NEW part, NEW number, Counted(log, part, number),
           NEW step, NEW type, type # "anchor_repositioned", NEW some \in SUBSET InStep(log, step, type)
    PROVE  /\ Cardinality(Numbers(number, some)) = Cardinality(some)
           /\ InOrder(part, Numbers(number, some)) = InOrder(log, some)
<1>1. PICK positions : positions = {k \in DOMAIN log : log[k].type # "anchor_repositioned"}
  OBVIOUS
<1>2. Renumbers(log, positions, part, number)
  BY <1>1, Zenon DEF Counted
<1>3. some \in SUBSET positions
  BY <1>1 DEF InStep
<1>4. QED BY <1>2, <1>3, NumbersInOrder

\* What happened in a step is told by either, and what came first.
LEMMA CountedHappened ==
    ASSUME NEW log, NEW part, NEW number, Counted(log, part, number),
           NEW step, NEW type, type # "anchor_repositioned"
    PROVE  /\ InStep(part, step, type) = Numbers(number, InStep(log, step, type))
           /\ Happened(part, step, type) = Happened(log, step, type)
           /\ Happened(log, step, type) => First(part, step, type) = First(log, step, type)
<1>1. InStep(part, step, type) = Numbers(number, InStep(log, step, type))
  BY CountedEntries DEF InStep, Numbers
<1>2. Happened(part, step, type) = Happened(log, step, type)
  BY CountedEntries DEF Happened
<1>3. ASSUME Happened(log, step, type) PROVE First(part, step, type) = First(log, step, type)
  <2>1. PICK some : some = InStep(log, step, type)
    OBVIOUS
  <2>2. some # {}
    BY <1>3, <2>1 DEF Happened, InStep
  <2>3. PICK positions : positions = {k \in DOMAIN log : log[k].type # "anchor_repositioned"}
    OBVIOUS
  <2>4. Renumbers(log, positions, part, number)
    BY <2>3, Zenon DEF Counted
  <2>5. some \in SUBSET positions
    BY <2>1, <2>3 DEF InStep
  <2>6. part[Min(Numbers(number, some))] = log[Min(some)]
    BY <2>2, <2>4, <2>5, NumbersFirst
  <2>7. QED BY <1>1, <2>1, <2>6 DEF First
<1>4. QED BY <1>1, <1>2, <1>3

LEMMA CountedPin ==
    ASSUME NEW log, NEW part, NEW number, Counted(log, part, number), NEW rule
    PROVE  PinBeforeSpray(rule, part) = PinBeforeSpray(rule, log)
<1>1. PICK m \in Nat : DOMAIN log = 1..m
  BY DEF Counted
<1>2. PICK n \in Nat : DOMAIN part = 1..n
  BY DEF Counted
<1>3. \A k, l \in DOMAIN log :
         log[k].type # "anchor_repositioned" /\ log[l].type # "anchor_repositioned" =>
            (number[k] <= number[l] <=> k <= l)
  BY DEF Counted, Renumbers
<1>4. /\ \A k \in DOMAIN log : log[k].type # "anchor_repositioned" =>
            number[k] \in DOMAIN part /\ part[number[k]] = log[k]
      /\ \A i \in DOMAIN part : \E k \in DOMAIN log :
            number[k] = i /\ part[i] = log[k] /\ log[k].type # "anchor_repositioned"
  BY CountedEntries
<1>5. ASSUME PinBeforeSpray(rule, log) PROVE PinBeforeSpray(rule, part)
  <2>1. PICK p \in DOMAIN log :
          /\ log[p].step = rule.step /\ log[p].type = "pin_pulled"
          /\ \A q \in 1..p : ~(log[q].step = rule.step /\ log[q].type = "hold_progress")
    BY <1>5 DEF PinBeforeSpray
  <2>2. number[p] \in 1..n /\ part[number[p]] = log[p]
    BY <1>2, <1>4, <2>1
  <2>3. ASSUME NEW i \in 1..number[p] PROVE ~(part[i].step = rule.step /\ part[i].type = "hold_progress")
    <3>1. i \in DOMAIN part
      BY <1>2, <2>2
    <3>2. PICK q \in DOMAIN log : number[q] = i /\ part[i] = log[q] /\ log[q].type # "anchor_repositioned"
      BY <1>4, <3>1
    <3>3. q <= p
      BY <1>3, <2>1, <3>2
    <3>4. q \in 1..p
      BY <1>1, <2>1, <3>2, <3>3
    <3>5. QED BY <2>1, <3>2, <3>4
  <2>4. QED BY <1>2, <2>1, <2>2, <2>3 DEF PinBeforeSpray
<1>6. ASSUME PinBeforeSpray(rule, part) PROVE PinBeforeSpray(rule, log)
  <2>1. PICK i \in DOMAIN part :
          /\ part[i].step = rule.step /\ part[i].type = "pin_pulled"
          /\ \A q \in 1..i : ~(part[q].step = rule.step /\ part[q].type = "hold_progress")
    BY <1>6 DEF PinBeforeSpray
  <2>2. PICK p \in DOMAIN log : number[p] = i /\ part[i] = log[p] /\ log[p].type # "anchor_repositioned"
    BY <1>4, <2>1
  <2>3. ASSUME NEW q \in 1..p PROVE ~(log[q].step = rule.step /\ log[q].type = "hold_progress")
    <3>1. SUFFICES ASSUME log[q].step = rule.step, log[q].type = "hold_progress" PROVE FALSE
      OBVIOUS
    <3>2. q \in DOMAIN log /\ q <= p
      BY <1>1, <2>2
    <3>3. number[q] \in DOMAIN part /\ part[number[q]] = log[q] /\ number[q] <= number[p]
      BY <1>3, <1>4, <2>2, <3>1, <3>2
    <3>4. number[q] \in 1..i
      BY <1>2, <2>1, <2>2, <3>3
    <3>5. QED BY <2>1, <3>1, <3>3, <3>4
  <2>4. QED BY <2>1, <2>2, <2>3 DEF PinBeforeSpray
<1>7. PinBeforeSpray(rule, log) \in BOOLEAN /\ PinBeforeSpray(rule, part) \in BOOLEAN
  BY DEF PinBeforeSpray
<1>8. QED BY <1>5, <1>6, <1>7

LEMMA CountedHold ==
    ASSUME NEW log, NEW part, NEW number, Counted(log, part, number), NEW rule
    PROVE  HoldPoints(rule, part) = HoldPoints(rule, log)
<1> DEFINE samples(l) == InStep(l, rule.step, "hold_progress")
           off(l) == {k \in samples(l) : l[k].data.zone = "tops"}
           sweep(l) == {k \in samples(l) : l[k].data.zone = "base" /\ l[k].data.aim # None}
           onBase(l) == InOrder(l, sweep(l))
           onMet(l) == \/ rule.minOnTarget = 0
                       \/ \E k \in samples(l) : l[k].data.onTarget >= rule.minOnTarget
           offMet(l) == IF samples(l) = {} THEN rule.maxOffPercent >= 100
                        ELSE 100 * Cardinality(off(l)) <= rule.maxOffPercent * Cardinality(samples(l))
           pinMet(l) == rule.requirePin => PinBeforeSpray(rule, l)
           aims(l) == [n \in DOMAIN onBase(l) |-> onBase(l)[n].data.aim]
           sweepMet(l) == rule.minSweeps > 0 => SweepReversals(aims(l)) >= rule.minSweeps
<1>1. \A l : HoldPoints(rule, l) =
                CASE onMet(l) /\ offMet(l) /\ pinMet(l) /\ sweepMet(l) -> rule.points
                  [] onMet(l) /\ ~(offMet(l) /\ pinMet(l) /\ sweepMet(l)) -> Half(rule)
                  [] OTHER -> 0
  BY Zenon DEF HoldPoints
<1>2. /\ \A k \in DOMAIN log : log[k].type # "anchor_repositioned" =>
            number[k] \in DOMAIN part /\ part[number[k]] = log[k]
      /\ \A i \in DOMAIN part : \E k \in DOMAIN log :
            number[k] = i /\ part[i] = log[k] /\ log[k].type # "anchor_repositioned"
  BY CountedEntries
<1>3. samples(part) = Numbers(number, samples(log))
  BY CountedHappened
<1>4. \A k \in samples(log) : part[number[k]] = log[k]
  BY <1>2 DEF InStep
<1> HIDE DEF samples
<1>5. /\ off(part) = Numbers(number, off(log))
      /\ sweep(part) = Numbers(number, sweep(log))
  BY <1>3, <1>4 DEF Numbers
<1>6. /\ samples(log) \in SUBSET InStep(log, rule.step, "hold_progress")
      /\ off(log) \in SUBSET InStep(log, rule.step, "hold_progress")
      /\ sweep(log) \in SUBSET InStep(log, rule.step, "hold_progress")
  BY DEF samples
<1> HIDE DEF off, sweep
<1>7. /\ Cardinality(samples(part)) = Cardinality(samples(log))
      /\ Cardinality(off(part)) = Cardinality(off(log))
      /\ InOrder(part, sweep(part)) = InOrder(log, sweep(log))
  BY <1>3, <1>5, <1>6, CountedInStep
<1>8. onMet(part) = onMet(log)
  BY <1>3, <1>4 DEF Numbers
<1>9. offMet(part) = offMet(log)
  BY <1>3, <1>7 DEF Numbers
<1>10. pinMet(part) = pinMet(log)
  BY CountedPin
<1>11. sweepMet(part) = sweepMet(log)
  BY <1>7
<1> HIDE DEF onMet, offMet, pinMet, sweepMet
<1>12. QED BY <1>1, <1>8, <1>9, <1>10, <1>11

LEMMA CountedPoints ==
    ASSUME NEW log, NEW part, NEW number, Counted(log, part, number), NEW scenario, NEW rule
    PROVE  EarnedPoints(scenario, rule, part) = EarnedPoints(scenario, rule, log)
<1>1. \A step, type : type # "anchor_repositioned" =>
         /\ Happened(part, step, type) = Happened(log, step, type)
         /\ Happened(log, step, type) => First(part, step, type) = First(log, step, type)
  BY CountedHappened
<1>2. /\ \A k \in DOMAIN log : log[k].type # "anchor_repositioned" =>
            number[k] \in DOMAIN part /\ part[number[k]] = log[k]
      /\ \A i \in DOMAIN part : \E k \in DOMAIN log :
            number[k] = i /\ part[i] = log[k] /\ log[k].type # "anchor_repositioned"
  BY CountedEntries
<1>3. CompletedPoints(rule, part) = CompletedPoints(rule, log)
  BY <1>2 DEF CompletedPoints
<1>4. OrderPoints(rule, part) = OrderPoints(rule, log)
  BY <1>1 DEF OrderPoints
<1>5. TimeLimitPoints(rule, part) = TimeLimitPoints(rule, log)
  BY <1>1 DEF TimeLimitPoints
<1>6. CorrectChoicePoints(scenario, rule, part) = CorrectChoicePoints(scenario, rule, log)
  <2>1. CASE ~Happened(log, rule.step, "choice_made")
    BY <1>1, <2>1 DEF CorrectChoicePoints
  <2>2. CASE Happened(log, rule.step, "choice_made")
    <3>1. Happened(part, rule.step, "choice_made") = Happened(log, rule.step, "choice_made")
      BY <1>1
    <3>2. First(part, rule.step, "choice_made") = First(log, rule.step, "choice_made")
      BY <1>1, <2>2
    <3>3. QED BY <3>1, <3>2, Zenon DEF CorrectChoicePoints
  <2>3. QED BY <2>1, <2>2
<1>7. NoForbiddenPoints(rule, part) = NoForbiddenPoints(rule, log)
  BY <1>2 DEF NoForbiddenPoints
<1>8. HoldPoints(rule, part) = HoldPoints(rule, log)
  BY CountedHold
<1>9. ZonePoints(rule, part) = ZonePoints(rule, log)
  BY <1>1 DEF ZonePoints
<1>10. QED BY <1>3, <1>4, <1>5, <1>6, <1>7, <1>8, <1>9, Zenon DEF EarnedPoints

LEMMA CountedRule ==
    ASSUME NEW log, NEW part, NEW number, Counted(log, part, number), NEW scenario, NEW rule
    PROVE  RuleResult(scenario, rule, part) = RuleResult(scenario, rule, log)
<1>1. WorkerSkipped(scenario, part) = WorkerSkipped(scenario, log)
  BY CountedHappened DEF WorkerSkipped
<1>2. ForbiddenInStep(rule, part) = ForbiddenInStep(rule, log)
  BY CountedHappened DEF ForbiddenInStep
<1>3. \A earned : IsCriticalFailure(rule, earned, part) = IsCriticalFailure(rule, earned, log)
  BY <1>2 DEF IsCriticalFailure
<1>4. EarnedPoints(scenario, rule, part) = EarnedPoints(scenario, rule, log)
  BY CountedPoints
<1>5. QED BY <1>1, <1>3, <1>4, Zenon DEF RuleResult

LEMMA CountedResult ==
    ASSUME NEW log, NEW part, NEW number, Counted(log, part, number), NEW scenario, NEW variant
    PROVE  Evaluate(scenario, variant, part) = Evaluate(scenario, variant, log)
<1>1. {RuleResult(scenario, r, part) : r \in Scored(scenario, variant)} =
         {RuleResult(scenario, r, log) : r \in Scored(scenario, variant)}
  BY CountedRule
<1>2. Aborted(part) = Aborted(log)
  BY CountedEntries DEF Aborted
<1>3. QED BY <1>1, <1>2, Zenon DEF Evaluate

\* A log scores what it scores without its repositions.
LEMMA WithoutScoresTheSame ==
    ASSUME NEW log, \E m \in Nat : DOMAIN log = 1..m, NEW scenario, NEW variant
    PROVE  Evaluate(scenario, variant, WithoutRepositions(log)) = Evaluate(scenario, variant, log)
<1>1. PICK m \in Nat : DOMAIN log = 1..m
  OBVIOUS
<1>2. PICK positions : positions = {k \in DOMAIN log : log[k].type # "anchor_repositioned"}
  OBVIOUS
<1>3. positions \in SUBSET (1..m)
  BY <1>1, <1>2
<1>4. PICK part : part = InOrder(log, positions)
  OBVIOUS
<1>5. /\ DOMAIN part = 1..Cardinality(positions) /\ Cardinality(positions) \in Nat
      /\ \E number : Renumbers(log, positions, part, number)
  BY <1>1, <1>3, <1>4, PartRenumbers
<1>6. PICK number : Renumbers(log, positions, part, number)
  BY <1>5
<1>7. Counted(log, part, number)
  BY <1>1, <1>2, <1>5, <1>6 DEF Counted
<1>8. WithoutRepositions(log) = part
  <2>1. part = [n \in 1..Cardinality(positions) |-> part[n]]
    BY <1>4 DEF InOrder
  <2>2. IsList(part)
    BY <1>5, <2>1, FunctionIsList
  <2>3. PICK S : part \in Seq(S)
    BY <2>2, ListIsSeq
  <2>4. <<>> \o part = part
    BY <2>3, ConcatEmptySeq
  <2>5. QED BY <1>2, <1>4, <2>4 DEF WithoutRepositions
<1>9. QED BY <1>7, <1>8, CountedResult

\* THEOREM.  D-008: an overlay that drifted can be moved at any time and as often as the
\* worker likes, and the result stored is the one of the drill without those moves
\* (evaluate; PlacementOverlay's repositioning).
THEOREM RepositionIsNeutralHolds == Spec => []RepositionIsNeutral
<1>1. IInv => RepositionIsNeutral
  <2>1. SUFFICES ASSUME IInv, NEW k \in DOMAIN stored
                 PROVE  stored[k].result = Evaluate(ScenarioOf(session), session.variant,
                                                    WithoutRepositions(stored[k].events))
    BY DEF RepositionIsNeutral
  <2>2. PICK scenario : scenario = ScenarioOf(session)
    OBVIOUS
  <2>3. PICK variant : variant = session.variant
    OBVIOUS
  <2>4. PICK log : log = Log
    OBVIOUS
  <2>5. stored[k] = [result |-> Evaluate(scenario, variant, log), events |-> log]
    BY <2>1, <2>2, <2>3, <2>4 DEF IInv
  <2>6. \E m \in Nat : DOMAIN log = 1..m
    <3>1. IsSession(session)
      BY <2>1 DEF IInv
    <3>2. IsList(log)
      BY <2>4, <3>1 DEF IsSession, IsList, Log
    <3>3. DOMAIN log = 1..Len(log) /\ Len(log) \in Nat
      BY <3>2, ListIsSeq DEF IsList
    <3>4. QED BY <3>3
  <2>7. Evaluate(scenario, variant, WithoutRepositions(log)) = Evaluate(scenario, variant, log)
    BY <2>6, WithoutScoresTheSame
  <2>8. QED BY <2>2, <2>3, <2>5, <2>7
<1>2. QED BY <1>1, IInvHolds, PTL

-----------------------------------------------------------------------------
(* The verdict of the server *)

\* What holds for 0, and for n + 1 if it does for n, holds for every number.
LEMMA EveryNumber ==
    ASSUME NEW S, 0 \in S, \A n \in Nat : n \in S => n + 1 \in S
    PROVE  Nat \subseteq S
<1> SUFFICES ASSUME Nat \ S # {} PROVE FALSE
  OBVIOUS
<1>1. PICK missing \in SUBSET Nat : missing = Nat \ S /\ missing # {}
  OBVIOUS
<1>2. PICK n \in missing : \A m \in missing : n <= m
  BY <1>1, LeastNumber
<1>3. n \in Nat /\ n # 0
  BY <1>1, <1>2
<1>4. n - 1 \in Nat /\ ~(n <= n - 1)
  BY <1>3
<1>5. n - 1 \in S
  BY <1>1, <1>2, <1>4
<1>6. QED BY <1>1, <1>2, <1>4, <1>5

\* The sum over finitely many records of a field that is a number in each.
LEMMA TotalIsNat ==
    ASSUME NEW S, IsFiniteSet(S), NEW field, \A r \in S : r[field] \in Nat
    PROVE  Total(S, field) \in Nat
<1> DEFINE Some(s) == CHOOSE x \in s : TRUE
           Body(g, s) == IF s = {} THEN 0 ELSE Some(s)[field] + g[s \ {Some(s)}]
           Upto(m) == {s \in SUBSET S : Cardinality(s) <= m}
           N == {m \in Nat : \E g : g = [s \in Upto(m) |-> Body(g, s)]}
<1>1. \A s \in SUBSET S : IsFiniteSet(s) /\ Cardinality(s) \in Nat /\ Cardinality(s) <= Cardinality(S)
  <2> SUFFICES ASSUME NEW s \in SUBSET S
               PROVE  IsFiniteSet(s) /\ Cardinality(s) \in Nat /\ Cardinality(s) <= Cardinality(S)
    OBVIOUS
  <2>1. IsFiniteSet(s) /\ Cardinality(s) <= Cardinality(S)
    BY FS_Subset
  <2>2. QED BY <2>1, FS_CardinalityType
<1>2. ASSUME NEW s \in SUBSET S, s # {}
      PROVE  /\ Some(s) \in s /\ s \ {Some(s)} \in SUBSET S
             /\ Cardinality(s \ {Some(s)}) = Cardinality(s) - 1
  <2>1. Some(s) \in s
    BY <1>2
  <2>2. QED BY <1>1, <2>1, FS_RemoveElement
<1>3. 0 \in N
  <2> DEFINE g == [s \in Upto(0) |-> 0]
  <2>1. \A s \in Upto(0) : s = {}
    BY <1>1, FS_EmptySet
  <2>2. g = [s \in Upto(0) |-> Body(g, s)]
    BY <2>1
  <2> HIDE DEF g, Body
  <2>3. QED BY <2>2
<1>4. ASSUME NEW m \in Nat, m \in N PROVE m + 1 \in N
  <2>1. PICK g : g = [s \in Upto(m) |-> Body(g, s)]
    BY <1>4
  <2> DEFINE more == [s \in Upto(m + 1) |-> IF s \in Upto(m) THEN g[s] ELSE Body(g, s)]
  <2>2. ASSUME NEW s \in Upto(m + 1) PROVE more[s] = Body(more, s)
    <3>1. CASE s = {}
      <4>1. s \in Upto(m)
        BY <3>1, FS_EmptySet
      <4>2. g[s] = 0
        BY <2>1, <3>1, <4>1
      <4>3. QED BY <3>1, <4>1, <4>2
    <3>2. CASE s # {}
      <4>1. PICK rest : rest = s \ {Some(s)}
        OBVIOUS
      <4>2. rest \in SUBSET S /\ Cardinality(rest) = Cardinality(s) - 1
        BY <1>2, <3>2, <4>1
      <4>3. rest \in Upto(m) /\ rest \in Upto(m + 1)
        <5>1. s \in SUBSET S /\ Cardinality(s) <= m + 1 /\ Cardinality(s) \in Nat
          BY <1>1
        <5>2. Cardinality(rest) <= m /\ Cardinality(rest) <= m + 1
          BY <4>2, <5>1
        <5>3. QED BY <4>2, <5>2
      <4>4. more[rest] = g[rest]
        BY <4>3
      <4>5. Body(more, s) = Body(g, s)
        BY <4>1, <4>4
      <4>6. more[s] = Body(g, s)
        <5>1. CASE s \in Upto(m)
          <6>1. g[s] = Body(g, s)
            BY <2>1, <5>1
          <6>2. QED BY <6>1, <5>1
        <5>2. CASE s \notin Upto(m)
          BY <5>2
        <5>3. QED BY <5>1, <5>2
      <4>7. QED BY <4>5, <4>6
    <3>3. QED BY <3>1, <3>2
  <2>3. more = [s \in Upto(m + 1) |-> more[s]]
    OBVIOUS
  <2> HIDE DEF more, Body, Upto
  <2>4. more = [s \in Upto(m + 1) |-> Body(more, s)]
    BY <2>2, <2>3
  <2>5. QED BY <2>4
<1>5. Cardinality(S) \in N
  <2> HIDE DEF N
  <2>1. Cardinality(S) \in Nat
    BY FS_CardinalityType
  <2>2. QED BY <1>3, <1>4, <2>1, EveryNumber
<1>6. Upto(Cardinality(S)) = SUBSET S
  BY <1>1
<1>7. \E g : g = [s \in SUBSET S |-> Body(g, s)]
  BY <1>5, <1>6
<1> DEFINE iter == CHOOSE g : g = [s \in SUBSET S |-> Body(g, s)]
<1>8. iter = [s \in SUBSET S |-> Body(iter, s)]
  <2> HIDE DEF Body
  <2>1. QED BY <1>7
<1>9. Total(S, field) = iter[S]
  BY DEF Total, MapThenSumSet, MapThenFoldSet
<1> HIDE DEF iter
<1> DEFINE Summed == {m \in Nat : \A s \in Upto(m) : iter[s] \in Nat}
<1>10. 0 \in Summed
  <2>1. \A s \in Upto(0) : s = {}
    BY <1>1, FS_EmptySet
  <2>2. iter[{}] = 0
    BY <1>8
  <2>3. QED BY <2>1, <2>2
<1>11. ASSUME NEW m \in Nat, m \in Summed PROVE m + 1 \in Summed
  <2> SUFFICES ASSUME NEW s \in Upto(m + 1), s # {} PROVE iter[s] \in Nat
    BY <1>8
  <2>1. PICK x : x = Some(s)
    OBVIOUS
  <2>2. PICK rest : rest = s \ {x}
    OBVIOUS
  <2>3. x \in s /\ rest \in SUBSET S /\ Cardinality(rest) = Cardinality(s) - 1
    BY <1>2, <2>1, <2>2
  <2>4. s \in SUBSET S /\ Cardinality(s) <= m + 1 /\ Cardinality(s) \in Nat
    BY <1>1
  <2>5. rest \in Upto(m)
    BY <2>3, <2>4
  <2>6. iter[rest] \in Nat
    BY <1>11, <2>5
  <2>7. x[field] \in Nat
    BY <2>3, <2>4
  <2>8. iter[s] = x[field] + iter[rest]
    BY <1>8, <2>1, <2>2, <2>4
  <2>9. QED BY <2>6, <2>7, <2>8
<1>12. Cardinality(S) \in Summed
  <2> HIDE DEF Summed
  <2>1. Cardinality(S) \in Nat
    BY FS_CardinalityType
  <2>2. QED BY <1>10, <1>11, <2>1, EveryNumber
<1>13. iter[S] \in Nat
  BY <1>6, <1>12
<1>14. QED BY <1>9, <1>13

-----------------------------------------------------------------------------
(* What the server keeps for a refresher *)

\* The rounds of its loop.
LEMMA GrownByRound ==
    ASSUME NEW first, NEW steps, NEW size \in Nat, Len(steps) = size
    PROVE  \E kept :
              /\ kept[0] = first /\ \A n \in 1..size : kept[n] = Grow(kept[n - 1], steps)
              /\ Grown(first, steps) = kept[size]
<1> DEFINE Body(g, n) == IF n = 0 THEN first ELSE Grow(g[n - 1], steps)
           N == {m \in Nat : \E g : g = [n \in 0..m |-> Body(g, n)]}
<1>1. 0 \in N
  <2> DEFINE g == [n \in 0..0 |-> first]
  <2>1. g = [n \in 0..0 |-> Body(g, n)]
    OBVIOUS
  <2> HIDE DEF g, Body
  <2>2. QED BY <2>1
<1>2. ASSUME NEW m \in Nat, m \in N PROVE m + 1 \in N
  <2>1. PICK g : g = [n \in 0..m |-> Body(g, n)]
    BY <1>2
  <2> DEFINE more == [n \in 0..m + 1 |-> IF n \in 0..m THEN g[n] ELSE Body(g, n)]
  <2>2. ASSUME NEW n \in 0..m + 1 PROVE more[n] = Body(more, n)
    <3>1. n # 0 => n - 1 \in 0..m /\ n - 1 \in 0..m + 1
      OBVIOUS
    <3>2. n # 0 => more[n - 1] = g[n - 1]
      BY <3>1
    <3>3. Body(more, n) = Body(g, n)
      BY <3>2
    <3>4. more[n] = Body(g, n)
      BY <2>1
    <3>5. QED BY <3>3, <3>4
  <2>3. more = [n \in 0..m + 1 |-> more[n]]
    OBVIOUS
  <2> HIDE DEF more, Body
  <2>4. more = [n \in 0..m + 1 |-> Body(more, n)]
    BY <2>2, <2>3
  <2>5. QED BY <2>4
<1>3. size \in N
  <2> HIDE DEF N
  <2>1. QED BY <1>1, <1>2, EveryNumber
<1>4. \E g : g = [n \in 0..size |-> Body(g, n)]
  BY <1>3
<1> DEFINE kept == CHOOSE g : g = [n \in 0..size |-> Body(g, n)]
<1>5. kept = [n \in 0..size |-> Body(kept, n)]
  <2> HIDE DEF Body
  <2>1. QED BY <1>4
<1>6. Grown(first, steps) = kept[size]
  BY DEF Grown
<1> HIDE DEF kept
<1>7. kept[0] = first /\ \A n \in 1..size : kept[n] = Grow(kept[n - 1], steps)
  BY <1>5
<1>8. QED BY <1>6, <1>7

\* The server's steps, made from those of a file.
Served(steps, served) ==
    /\ \E size \in Nat : Len(steps) = size /\ DOMAIN steps = 1..size
    /\ served = [i \in DOMAIN steps |-> ServerStep(steps[i])]
    /\ \A i \in DOMAIN steps : needs(served[i], served) = stepNeeds(steps[i], steps)

\* What a round of the loop adds.
LEMMA GrowMembers ==
    ASSUME NEW steps, NEW served, Served(steps, served), NEW ids
    PROVE  /\ ids \subseteq Grow(ids, served)
           /\ \A i \in DOMAIN steps : steps[i].id \in ids => stepNeeds(steps[i], steps) \subseteq Grow(ids, served)
           /\ \A x \in Grow(ids, served) \ ids : \E i \in DOMAIN steps :
                 steps[i].id \in ids /\ x \in stepNeeds(steps[i], steps)
<1>1. /\ DOMAIN served = DOMAIN steps
      /\ \A i \in DOMAIN steps : /\ served[i].id = steps[i].id
                                 /\ needs(served[i], served) = stepNeeds(steps[i], steps)
  BY DEF Served, ServerStep
<1>2. ASSUME NEW i \in DOMAIN steps, steps[i].id \in ids
      PROVE  stepNeeds(steps[i], steps) \subseteq Grow(ids, served)
  <2>1. served[i] \in {t \in ToSet(served) : t.id \in ids}
    BY <1>1, <1>2 DEF ToSet
  <2>2. needs(served[i], served) \subseteq Grow(ids, served)
    BY <2>1 DEF Grow
  <2>3. QED BY <1>1, <2>2
<1>3. ASSUME NEW x \in Grow(ids, served) \ ids
      PROVE  \E i \in DOMAIN steps : steps[i].id \in ids /\ x \in stepNeeds(steps[i], steps)
  <2>1. PICK t \in ToSet(served) : t.id \in ids /\ x \in needs(t, served)
    BY <1>3 DEF Grow
  <2>2. PICK i \in DOMAIN served : t = served[i]
    BY <2>1 DEF ToSet
  <2>3. QED BY <1>1, <2>1, <2>2
<1>4. ids \subseteq Grow(ids, served)
  BY DEF Grow
<1>5. QED BY <1>2, <1>3, <1>4

\* A list of n has at most n ids.
LEMMA IdsAreFew ==
    ASSUME NEW list, NEW size \in Nat, DOMAIN list = 1..size
    PROVE  IsFiniteSet(IdsIn(list)) /\ Cardinality(IdsIn(list)) <= size
<1> DEFINE names == [i \in 1..size |-> list[i].id]
<1>1. names \in Surjection(1..size, IdsIn(list))
  BY DEF Surjection, IdsIn
<1>2. IsFiniteSet(1..size) /\ Cardinality(1..size) = size
  BY FS_Interval
<1>3. QED BY <1>1, <1>2, FS_Surjection

\* Of the steps of the list, and what they need of it, all are among these ids.
ClosedIn(ids, steps) ==
    \A s \in ToSet(steps) : s.id \in ids => stepNeeds(s, steps) \cap IdsIn(steps) \subseteq ids

\* What is kept lies below every closed set, and it is closed or has n steps.
Below(steps, first, ids, n) ==
    /\ first \subseteq ids
    /\ \A c \in SUBSET IdsIn(steps) :
          first \cap IdsIn(steps) \subseteq c /\ ClosedIn(c, steps) => ids \cap IdsIn(steps) \subseteq c
    /\ ClosedIn(ids \cap IdsIn(steps), steps) \/ Cardinality(ids \cap IdsIn(steps)) >= n

LEMMA RoundKeeps ==
    ASSUME NEW steps, NEW served, Served(steps, served), NEW first, NEW old, NEW n \in Nat,
           Below(steps, first, old, n)
    PROVE  Below(steps, first, Grow(old, served), n + 1)
<1> DEFINE all == IdsIn(steps)
           new == Grow(old, served)
<1>1. /\ old \subseteq new
      /\ \A i \in DOMAIN steps : steps[i].id \in old => stepNeeds(steps[i], steps) \subseteq new
      /\ \A x \in new \ old : \E i \in DOMAIN steps :
            steps[i].id \in old /\ x \in stepNeeds(steps[i], steps)
  BY GrowMembers
<1>2. \A i \in DOMAIN steps : steps[i] \in ToSet(steps) /\ steps[i].id \in all
  BY DEF ToSet, IdsIn
<1>3. ASSUME NEW c \in SUBSET all, old \cap all \subseteq c, ClosedIn(c, steps)
      PROVE  new \cap all \subseteq c
  <2> SUFFICES ASSUME NEW x \in new \cap all, x \notin old PROVE x \in c
    BY <1>3
  <2>1. PICK i \in DOMAIN steps : steps[i].id \in old /\ x \in stepNeeds(steps[i], steps)
    BY <1>1
  <2>2. steps[i].id \in c /\ steps[i] \in ToSet(steps)
    BY <1>2, <1>3, <2>1
  <2>3. stepNeeds(steps[i], steps) \cap all \subseteq c
    BY <1>3, <2>2 DEF ClosedIn
  <2>4. QED BY <2>1, <2>3
<1>4. ASSUME ClosedIn(old \cap all, steps) PROVE ClosedIn(new \cap all, steps)
  <2>1. old \cap all \in SUBSET all
    OBVIOUS
  <2>2. new \cap all \subseteq old \cap all
    BY <1>3, <1>4, <2>1
  <2>3. new \cap all = old \cap all
    BY <1>1, <2>2
  <2>4. QED BY <1>4, <2>3
<1>5. ASSUME ~ClosedIn(old \cap all, steps), Cardinality(old \cap all) >= n
      PROVE  Cardinality(new \cap all) >= n + 1
  <2>1. PICK s \in ToSet(steps) : s.id \in old \cap all /\ ~(stepNeeds(s, steps) \cap all \subseteq old \cap all)
    BY <1>5 DEF ClosedIn
  <2>2. PICK i \in DOMAIN steps : s = steps[i]
    BY <2>1 DEF ToSet
  <2>3. stepNeeds(steps[i], steps) \subseteq new
    BY <1>1, <2>1, <2>2
  <2>4. old \cap all \subseteq new \cap all /\ old \cap all # new \cap all
    BY <1>1, <2>1, <2>2, <2>3
  <2>5. IsFiniteSet(new \cap all)
    <3>1. PICK size \in Nat : DOMAIN steps = 1..size
      BY DEF Served
    <3>2. IsFiniteSet(all)
      BY <3>1, IdsAreFew
    <3>3. QED BY <3>2, FS_Subset
  <2>6. /\ IsFiniteSet(old \cap all) /\ Cardinality(old \cap all) <= Cardinality(new \cap all)
        /\ Cardinality(old \cap all) # Cardinality(new \cap all)
    BY <2>4, <2>5, FS_Subset
  <2>7. Cardinality(old \cap all) \in Nat /\ Cardinality(new \cap all) \in Nat
    BY <2>5, <2>6, FS_CardinalityType
  <2>8. QED BY <1>5, <2>6, <2>7
<1>6. ASSUME NEW c \in SUBSET all, first \cap all \subseteq c, ClosedIn(c, steps) PROVE new \cap all \subseteq c
  BY <1>3, <1>6 DEF Below
<1>7. first \subseteq new
  BY <1>1 DEF Below
<1>8. ClosedIn(new \cap all, steps) \/ Cardinality(new \cap all) >= n + 1
  BY <1>4, <1>5 DEF Below
<1>9. QED BY <1>6, <1>7, <1>8 DEF Below

\* The loop ends with the least closed set of steps.
LEMMA GrownIsLeast ==
    ASSUME NEW steps, NEW served, Served(steps, served), NEW all, all = IdsIn(steps),
           NEW first, NEW kept, kept = Grown(first, served) \cap all
    PROVE  /\ first \cap all \subseteq kept /\ ClosedIn(kept, steps)
           /\ \A c \in SUBSET all : first \cap all \subseteq c /\ ClosedIn(c, steps) => kept \subseteq c
<1>1. PICK size \in Nat : Len(steps) = size /\ DOMAIN steps = 1..size
  BY DEF Served
<1>2. Len(served) = size
  <2>1. served = [i \in 1..size |-> served[i]]
    BY <1>1 DEF Served
  <2>2. QED BY <2>1, FunctionIsList
<1>3. PICK g : /\ g[0] = first /\ \A n \in 1..size : g[n] = Grow(g[n - 1], served)
               /\ Grown(first, served) = g[size]
  BY <1>1, <1>2, GrownByRound, SMTT(60)
<1> DEFINE N == {n \in Nat : n <= size => Below(steps, first, g[n], n)}
<1>4. IsFiniteSet(all) /\ Cardinality(all) <= size /\ Cardinality(all) \in Nat
  BY <1>1, IdsAreFew, FS_CardinalityType
<1>5. 0 \in N
  <2>1. first \cap all \subseteq first /\ Cardinality(first \cap all) >= 0
    <3>1. IsFiniteSet(first \cap all)
      BY <1>4, FS_Subset
    <3>2. QED BY <3>1, FS_CardinalityType
  <2>2. Below(steps, first, first, 0)
    BY <2>1 DEF Below
  <2>3. QED BY <1>3, <2>2
<1>6. ASSUME NEW n \in Nat, n \in N PROVE n + 1 \in N
  <2> SUFFICES ASSUME n + 1 <= size PROVE Below(steps, first, g[n + 1], n + 1)
    OBVIOUS
  <2>1. n <= size /\ n + 1 \in 1..size /\ (n + 1) - 1 = n
    BY <1>1
  <2>2. Below(steps, first, g[n], n) /\ g[n + 1] = Grow(g[n], served)
    BY <1>3, <1>6, <2>1
  <2>3. QED BY <2>2, RoundKeeps
<1>7. Below(steps, first, g[size], size)
  <2>1. size \in N
    <3> HIDE DEF N
    <3>1. QED BY <1>5, <1>6, EveryNumber
  <2>2. size <= size
    OBVIOUS
  <2>3. QED BY <2>1, <2>2
<1>8. kept = g[size] \cap all
  BY <1>3
<1>9. ClosedIn(kept, steps)
  <2>1. CASE Cardinality(kept) >= size
    <3>1. kept \subseteq all /\ Cardinality(kept) <= Cardinality(all) /\ IsFiniteSet(kept)
      BY <1>4, <1>8, FS_Subset
    <3>2. Cardinality(kept) = Cardinality(all)
      BY <1>4, <2>1, <3>1, FS_CardinalityType
    <3>3. kept = all
      BY <1>4, <3>1, <3>2, FS_Subset
    <3>4. QED BY <3>3 DEF ClosedIn
  <2>2. QED BY <1>7, <1>8, <2>1 DEF Below
<1>10. QED BY <1>7, <1>8, <1>9 DEF Below

\* Of a file, and of a rule in it, what loading it has made sure of.
LEMMA LoadedRules ==
    ASSUME NEW name \in Loaded, NEW file, file = Files[name]
    PROVE  /\ \E n \in Nat : DOMAIN file.rules = 1..n
           /\ Unique(file.rules)
           /\ \A k \in DOMAIN file.rules : RuleProblems(file, file.rules[k]) = {}
<1>1. /\ name \in DOMAIN Files /\ Len(file.rules) \in Nat /\ DOMAIN file.rules = 1..Len(file.rules)
  BY FilesAreLists DEF Loaded
<1>2. Problems(file) = {}
  BY DEF Loaded
<1>3. ~HasDuplicates(file.rules)
  <2>1. ASSUME HasDuplicates(file.rules) PROVE "duplicate rule" \in Problems(file)
    BY <2>1 DEF Problems
  <2>2. QED BY <1>2, <2>1
<1>4. \A k \in DOMAIN file.rules : RuleProblems(file, file.rules[k]) = {}
  <2>1. (UNION {RuleProblems(file, file.rules[k]) : k \in DOMAIN file.rules}) \subseteq Problems(file)
    BY DEF Problems
  <2>2. QED BY <1>2, <2>1
<1>5. Unique(file.rules)
  BY <1>1, <1>3, NoDuplicates
<1>6. QED BY <1>1, <1>4, <1>5

\* The server reads from a file what the app does: what a step needs,
LEMMA StepNeedsAlike ==
    ASSUME NEW name \in Loaded, NEW steps, steps = Files[name].steps,
           NEW served, served = ServerScenario(Files[name]).steps
    PROVE  Served(steps, served)
<1>1. name \in DOMAIN Files /\ Len(steps) \in Nat /\ DOMAIN steps = 1..Len(steps)
  BY FilesAreLists DEF Loaded
<1>2. served = [i \in DOMAIN steps |-> ServerStep(steps[i])]
  BY DEF ServerScenario
<1>3. ASSUME NEW i \in DOMAIN steps PROVE needs(served[i], served) = stepNeeds(steps[i], steps)
  <2>1. PICK step, params : step = steps[i] /\ params = step.params
    OBVIOUS
  <2>2. step \in ToSet(Files[name].steps)
    BY <2>1 DEF ToSet
  <2>3. /\ Has(params, "agentFrom") => params.agentFrom # None
        /\ Has(params, "exitBehind") => params.exitBehind.marker # None
    BY <1>1, <2>1, <2>2, ValuesAssumption
  <2>4. /\ served[i].agent_from = (IF Has(params, "agentFrom") THEN params.agentFrom ELSE None)
        /\ served[i].exit_marker = (IF Has(params, "exitBehind") THEN params.exitBehind.marker ELSE None)
    <3>1. served[i] = ServerStep(step)
      BY <1>2, <2>1
    <3>2. Text(params, "agentFrom") = IF Has(params, "agentFrom") THEN params.agentFrom ELSE None
      BY DEF Text, Field
    <3>3. served[i].agent_from = Text(step.params, "agentFrom")
      BY <3>1 DEF ServerStep
    <3>4. served[i].exit_marker =
             IF Has(step.params, "exitBehind") THEN step.params.exitBehind.marker ELSE None
      BY <3>1 DEF ServerStep
    <3>5. QED BY <2>1, <3>2, <3>3, <3>4
  <2>5. {served[i].agent_from} \ {None} = IF Has(params, "agentFrom") THEN {params.agentFrom} ELSE {}
    BY <2>3, <2>4
  <2>6. \A j \in DOMAIN steps : /\ served[j].id = steps[j].id
                               /\ served[j].interaction = steps[j].interaction
                               /\ served[j].marker = Field(steps[j].params, "marker", None)
    BY <1>2 DEF ServerStep, Text
  <2>7. PICK app : app = IF Has(params, "exitBehind")
                         THEN {s.id : s \in {t \in ToSet(steps) :
                                 /\ t.interaction = "find_marker"
                                 /\ Field(t.params, "marker", None) = params.exitBehind.marker}}
                         ELSE {}
    OBVIOUS
  <2>8. PICK server : server = {s.id : s \in {t \in ToSet(served) : /\ served[i].exit_marker # None
                                                       /\ t.interaction = "find_marker"
                                                       /\ t.marker = served[i].exit_marker}}
    OBVIOUS
  <2>9. DOMAIN served = DOMAIN steps
    BY <1>2
  <2>10. CASE Has(params, "exitBehind")
    <3>1. PICK marker : marker = params.exitBehind.marker /\ marker = served[i].exit_marker /\ marker # None
      BY <2>3, <2>4, <2>10
    <3>2. app = {steps[j].id : j \in {k \in DOMAIN steps :
                    /\ steps[k].interaction = "find_marker"
                    /\ Field(steps[k].params, "marker", None) = marker}}
      BY <2>7, <2>10, <3>1 DEF ToSet
    <3>3. server = {served[j].id : j \in {k \in DOMAIN served :
                       served[k].interaction = "find_marker" /\ served[k].marker = marker}}
      BY <2>8, <3>1 DEF ToSet
    <3>4. server = app
      BY <2>6, <2>9, <3>2, <3>3
    <3>5. QED BY <2>1, <2>5, <2>7, <2>8, <3>4 DEF needs, stepNeeds
  <2>11. CASE ~Has(params, "exitBehind")
    <3>1. app = {} /\ server = {}
      BY <2>4, <2>7, <2>8, <2>11
    <3>2. QED BY <2>1, <2>5, <2>7, <2>8, <3>1 DEF needs, stepNeeds
  <2>12. QED BY <2>10, <2>11
<1>4. QED BY <1>1, <1>2, <1>3 DEF Served

\* and the steps that a rule scores.
LEMMA RuleStepsAlike ==
    ASSUME NEW name \in Loaded, NEW file, file = Files[name], NEW k \in DOMAIN file.rules,
           NEW rule, rule = file.rules[k], NEW served, served = ServerScenario(file).steps
    PROVE  rule_steps(ServerRule(rule), served) = ruleSteps(rule, file.steps)
<1>1. name \in DOMAIN Files /\ \A i \in DOMAIN file.steps : file.steps[i].id # None
  BY FilesAreLists DEF Loaded
<1>2. RuleProblems(file, rule) = {}
  BY LoadedRules
<1>3. None \notin StepRefs(rule)
  BY <1>1, ValuesAssumption DEF ToSet
<1>4. rule.type = "no_forbidden" => Field(rule.params, "tag", None) \in ForbiddenTags(file.steps)
  <2>1. rule.type = "no_forbidden" /\ Field(rule.params, "tag", None) \notin ForbiddenTags(file.steps) =>
          "unknown tag" \in RuleProblems(file, rule)
    BY DEF RuleProblems
  <2>2. QED BY <1>2, <2>1
<1>5. served = [i \in DOMAIN file.steps |-> ServerStep(file.steps[i])]
  BY DEF ServerScenario
<1>6. ServerRule(rule).step_refs = StepRefs(rule)
  <2>2. PICK refs : refs = {"step", "before", "after"}
    OBVIOUS
  <2>3. ServerRule(rule).step_refs = {Text(rule.params, key) : key \in refs} \ {None}
    BY <2>2 DEF ServerRule
  <2>4. StepRefs(rule) = {rule.params[key] : key \in DOMAIN rule.params \cap refs}
    BY <2>2 DEF StepRefs
  <2>5. QED BY <1>3, <2>3, <2>4 DEF Text, Field, Has
<1>7. ServerRule(rule).type = rule.type /\ ServerRule(rule).tag = Field(rule.params, "tag", None)
  BY DEF ServerRule, Text
<1>8. ASSUME rule.type = "no_forbidden"
      PROVE  {s.id : s \in {t \in ToSet(served) : ServerRule(rule).type = "no_forbidden" /\ ServerRule(rule).tag \in t.option_tags}}
                = Tagged(file.steps, rule.params.tag)
  <2>1. PICK tag : tag = Field(rule.params, "tag", None)
    OBVIOUS
  <2>2. \A i \in DOMAIN file.steps : \A o \in ToSet(stepOptions(file.steps[i])) :
           Has(o, "tag") => o.tag # None
    BY <1>1, ValuesAssumption DEF ToSet
  <2>3. tag # None
    <3>1. PICK o \in UNION {ToSet(stepOptions(s)) : s \in ToSet(file.steps)} : Has(o, "tag") /\ o.tag = tag
      BY <1>4, <1>8, <2>1 DEF ForbiddenTags
    <3>2. PICK i \in DOMAIN file.steps : o \in ToSet(stepOptions(file.steps[i]))
      BY <3>1 DEF ToSet
    <3>3. QED BY <2>2, <3>1, <3>2
  <2>4. tag = rule.params.tag
    BY <2>1, <2>3 DEF Field
  <2>5. Tagged(file.steps, tag) = {file.steps[i].id : i \in {j \in DOMAIN file.steps :
           \E o \in ToSet(stepOptions(file.steps[j])) : Field(o, "tag", None) = tag}}
    BY DEF Tagged, ToSet
  <2>6. {s.id : s \in {t \in ToSet(served) : tag \in t.option_tags}} =
          {served[i].id : i \in {j \in DOMAIN served : tag \in served[j].option_tags}}
    BY DEF ToSet
  <2>7. ASSUME NEW i \in DOMAIN file.steps
        PROVE  /\ served[i].id = file.steps[i].id
               /\ tag \in served[i].option_tags <=>
                    \E o \in ToSet(stepOptions(file.steps[i])) : Field(o, "tag", None) = tag
    <3>1. served[i].id = file.steps[i].id
      BY <1>5 DEF ServerStep
    <3>2. served[i].option_tags = {o.tag : o \in {p \in ToSet(stepOptions(file.steps[i])) : Has(p, "tag")}}
      BY <1>5 DEF ServerStep
    <3>3. tag \in served[i].option_tags <=>
            \E o \in ToSet(stepOptions(file.steps[i])) : Has(o, "tag") /\ o.tag = tag
      BY <3>2
    <3>4. QED BY <2>3, <3>1, <3>3 DEF Field, Has
  <2>8. DOMAIN served = DOMAIN file.steps
    BY <1>5
  <2>9. {s.id : s \in {t \in ToSet(served) : tag \in t.option_tags}} = Tagged(file.steps, tag)
    BY <2>5, <2>6, <2>7, <2>8
  <2>10. QED BY <1>7, <1>8, <2>1, <2>4, <2>9
<1>9. CASE rule.type = "no_forbidden"
  BY <1>6, <1>8, <1>9 DEF rule_steps, ruleSteps
<1>10. CASE rule.type # "no_forbidden"
  <2>1. {s.id : s \in {t \in ToSet(served) : ServerRule(rule).type = "no_forbidden" /\ ServerRule(rule).tag \in t.option_tags}} = {}
    BY <1>7, <1>10
  <2>2. QED BY <1>6, <1>10, <2>1 DEF rule_steps, ruleSteps
<1>11. QED BY <1>9, <1>10

LEMMA TaggedIn == ASSUME NEW steps, NEW tag PROVE Tagged(steps, tag) \subseteq IdsIn(steps)
<1>1. Tagged(steps, tag) = {steps[i].id : i \in {j \in DOMAIN steps :
         \E o \in ToSet(stepOptions(steps[j])) : Field(o, "tag", None) = tag}}
  BY DEF Tagged, ToSet
<1>2. QED BY <1>1 DEF IdsIn

\* So a refresher keeps the same steps on both.
LEMMA KeptAlike ==
    ASSUME NEW name \in Loaded, NEW file, file = Files[name]
    PROVE  refresher_step_ids(ServerScenario(file)) = KeptSteps(file) \cap IdsIn(file.steps)
<1>1. PICK steps, rules, served, specs, all :
         /\ steps = file.steps /\ rules = file.rules /\ all = IdsIn(steps)
         /\ served = ServerScenario(file).steps /\ specs = ServerScenario(file).rules
  OBVIOUS
<1>2. Served(steps, served)
  BY <1>1, StepNeedsAlike
<1>3. /\ DOMAIN served = DOMAIN steps
      /\ \A i \in DOMAIN steps : /\ served[i].id = steps[i].id
                                 /\ served[i].interaction = steps[i].interaction
  BY <1>2 DEF Served, ServerStep
<1>4. IdsIn(served) = all
  BY <1>1, <1>3 DEF IdsIn
<1>5. PICK placed : placed = {s.id : s \in {t \in ToSet(steps) : t.interaction = "place_on_plane"}}
  OBVIOUS
<1>6. {s.id : s \in {t \in ToSet(served) : t.interaction = "place_on_plane"}} = placed
  BY <1>3, <1>5 DEF ToSet
<1>7. PICK scored : scored = UNION {ruleSteps(r, steps) : r \in {q \in ToSet(rules) : q.critical}}
  OBVIOUS
<1>8. \A k \in DOMAIN rules : /\ rule_steps(ServerRule(rules[k]), served) = ruleSteps(rules[k], steps)
                             /\ ServerRule(rules[k]).critical = rules[k].critical
  BY <1>1, RuleStepsAlike DEF ServerRule
<1>9. specs = {ServerRule(rules[k]) : k \in DOMAIN rules}
  BY <1>1 DEF ServerScenario, ToSet
<1>10. scored = UNION {ruleSteps(rules[k], steps) : k \in {i \in DOMAIN rules : rules[i].critical}}
  BY <1>7 DEF ToSet
<1>11. (UNION {rule_steps(r, served) : r \in {q \in specs : q.critical}}) = scored
  BY <1>8, <1>9, <1>10
<1>12. PICK first : first = scored \cup placed /\ first = FirstKept(file)
  BY <1>1, <1>5, <1>7, Zenon DEF FirstKept
<1>13. PICK grown : grown = Grown(first, served) \cap all
  OBVIOUS
<1>14. refresher_step_ids(ServerScenario(file)) = grown
  <2>1. ServerScenario(file).steps = served /\ ServerScenario(file).rules = specs
    BY <1>1
  <2>2. refresher_step_ids(ServerScenario(file)) =
           Grown((UNION {rule_steps(r, served) : r \in {q \in specs : q.critical}})
                    \cup {s.id : s \in {t \in ToSet(served) : t.interaction = "place_on_plane"}}, served)
              \cap IdsIn(served)
    BY <2>1, Zenon DEF refresher_step_ids
  <2>3. QED BY <1>4, <1>6, <1>11, <1>12, <1>13, <2>2
<1>15. /\ first \cap all \subseteq grown /\ ClosedIn(grown, steps) /\ grown \in SUBSET all
       /\ \A c \in SUBSET all : first \cap all \subseteq c /\ ClosedIn(c, steps) => grown \subseteq c
  <2>1. all = IdsIn(steps)
    BY <1>1
  <2>2. QED BY <1>2, <1>13, <2>1, GrownIsLeast, SMTT(60)
<1>16. PICK kept : kept = KeptSteps(file)
  OBVIOUS
<1>17. /\ first \subseteq kept /\ Closed(kept, steps)
       /\ \A c : first \subseteq c /\ Closed(c, steps) => kept \subseteq c
  BY <1>1, <1>12, <1>16, KeptIsClosed
<1>18. grown \subseteq kept
  <2>1. ClosedIn(kept \cap all, steps)
    BY <1>1, <1>17 DEF Closed, ClosedIn
  <2>2. kept \cap all \in SUBSET all /\ first \cap all \subseteq kept \cap all
    BY <1>17
  <2>3. QED BY <1>15, <2>1, <2>2
<1>19. kept \cap all \subseteq grown
  <2>1. PICK c : c = (kept \ all) \cup grown
    OBVIOUS
  <2>2. first \subseteq c
    BY <1>15, <1>17, <2>1
  <2>3. Closed(c, steps)
    <3> SUFFICES ASSUME NEW s \in ToSet(steps), s.id \in c, NEW x \in stepNeeds(s, steps) PROVE x \in c
      BY DEF Closed
    <3>1. s.id \in all
      BY <1>1 DEF IdsIn, ToSet
    <3>2. s.id \in grown /\ s.id \in kept
      BY <1>18, <2>1, <3>1
    <3>3. x \in kept
      BY <1>17, <3>2 DEF Closed
    <3>4. x \in all => x \in grown
      BY <1>1, <1>15, <3>2 DEF ClosedIn
    <3>5. QED BY <2>1, <3>3, <3>4
  <2>4. kept \subseteq c
    BY <1>17, <2>2, <2>3
  <2>5. QED BY <2>1, <2>4
<1>20. grown = kept \cap all
  BY <1>15, <1>18, <1>19
<1>21. QED BY <1>1, <1>14, <1>16, <1>20

LEMMA PartMembers ==
    ASSUME NEW list, NEW n \in Nat, DOMAIN list = 1..n, NEW positions \in SUBSET (1..n)
    PROVE  ToSet(InOrder(list, positions)) = {list[i] : i \in positions}
<1>1. IsFiniteSet(positions) /\ positions \in SUBSET Int
  <2>1. IsFiniteSet(1..n)
    BY FS_Interval
  <2>2. IsFiniteSet(positions)
    BY <2>1, FS_Subset
  <2>3. QED BY <2>2
<1>2. PICK part : part = InOrder(list, positions)
  OBVIOUS
<1>3. /\ \A m \in DOMAIN part : \E i \in positions : Rank(positions, i) = m
      /\ \A i \in positions : Rank(positions, i) \in DOMAIN part /\ part[Rank(positions, i)] = list[i]
  BY <1>1, <1>2, PartOfList
<1>4. ToSet(part) = {list[i] : i \in positions}
  BY <1>3 DEF ToSet
<1>5. QED BY <1>2, <1>4

\* The app plays, and the server scores, the rules of a file at some positions.
SameRules(drill, server, file, played, positions, variant) ==
    /\ server.threshold = drill.threshold
    /\ server.rules = {ServerRule(file.rules[k]) : k \in positions}
    /\ drill.rules = {PlayedRule(played, file.rules[k], variant) : k \in positions}
    /\ variant.id \in IdsIn(file.variants) /\ played.variants = file.variants

LEMMA RulesAlike ==
    ASSUME NEW name \in Loaded, NEW kind \in Kinds, NEW v \in DOMAIN Scenario[name][kind],
           ReadAlike(Files[name], kind)
    PROVE  \E positions \in SUBSET DOMAIN Files[name].rules : \E variant :
              /\ SameRules(Scenario[name][kind][v], Rechecked[name][kind], Files[name],
                           FileOf(name, kind), positions, variant)
              /\ variant.id = v
<1>1. PICK file, played : file = Files[name] /\ played = FileOf(name, kind)
  OBVIOUS
<1>2. /\ name \in DOMAIN Files /\ {"threshold", "variants", "steps", "rules"} \subseteq DOMAIN file
      /\ DOMAIN file.rules = 1..Len(file.rules) /\ Len(file.rules) \in Nat
  BY <1>1, FilesAreLists DEF Loaded
<1>3. PICK variant : variant = ById(played.variants, v)
  OBVIOUS
<1>4. v \in IdsIn(played.variants) /\ Scenario[name][kind][v] = Played(played, variant)
  BY <1>1, <1>3 DEF Scenario
<1>5. variant.id = v
  <2>1. PICK k \in DOMAIN played.variants : played.variants[k].id = v
    BY <1>4 DEF IdsIn
  <2>2. QED BY <1>3, <2>1 DEF ById
<1>6. /\ Scenario[name][kind][v].threshold = played.threshold
      /\ Scenario[name][kind][v].rules = {PlayedRule(played, r, variant) : r \in ToSet(played.rules)}
  BY <1>4 DEF Played
<1>7. PICK served, scenario : scenario = ServerScenario(file) /\ served = scenario.steps
  OBVIOUS
<1>8. /\ scenario.threshold = file.threshold
      /\ scenario.rules = {ServerRule(file.rules[k]) : k \in DOMAIN file.rules}
      /\ DOMAIN scenario = {"threshold", "rules", "steps"}
  BY <1>7 DEF ServerScenario, ToSet
<1>9. CASE kind # "refresher"
  <2>1. kind = "training" /\ played = file
    BY <1>1, <1>9 DEF Kinds, FileOf
  <2>2. Rechecked[name][kind] = scenario
    BY <1>1, <1>2, <1>7, <2>1 DEF Rechecked
  <2>3. Scenario[name][kind][v].rules = {PlayedRule(played, file.rules[k], variant) : k \in DOMAIN file.rules}
    BY <1>6, <2>1 DEF ToSet
  <2>4. DOMAIN file.rules \in SUBSET DOMAIN file.rules
    OBVIOUS
  <2>5. SameRules(Scenario[name][kind][v], Rechecked[name][kind], file, played, DOMAIN file.rules, variant)
    BY <1>4, <1>5, <1>6, <1>8, <2>1, <2>2, <2>3 DEF SameRules
  <2>6. QED BY <1>1, <1>5, <2>4, <2>5
<1>10. CASE kind = "refresher"
  <2>1. PICK kept : /\ kept = KeptSteps(file)
                    /\ refresher_step_ids(scenario) = kept \cap IdsIn(file.steps)
    BY <1>1, <1>7, KeptAlike
  <2>2. PICK positions : positions = {k \in DOMAIN file.rules :
                            /\ ruleSteps(file.rules[k], file.steps) # {}
                            /\ ruleSteps(file.rules[k], file.steps) \subseteq kept}
    OBVIOUS
  <2>3. positions \in SUBSET (1..Len(file.rules))
    BY <1>2, <2>2
  <2>4. /\ played.rules = InOrder(file.rules, positions)
        /\ played.threshold = file.threshold /\ played.variants = file.variants
    BY <1>1, <1>2, <1>10, <2>1, <2>2 DEF FileOf, refresherScenario
  <2>5. ToSet(played.rules) = {file.rules[k] : k \in positions}
    BY <1>2, <2>3, <2>4, PartMembers
  <2>6. Scenario[name][kind][v].rules = {PlayedRule(played, file.rules[k], variant) : k \in positions}
    BY <1>6, <2>5
  <2>7. Rechecked[name][kind] = refresher_scenario(scenario)
    BY <1>1, <1>2, <1>7, <1>10 DEF Rechecked
  <2>8. /\ Rechecked[name][kind].threshold = file.threshold
        /\ Rechecked[name][kind].rules = {r \in scenario.rules :
                                  /\ rule_steps(r, served) # {}
                                  /\ rule_steps(r, served) \subseteq kept \cap IdsIn(file.steps)}
    BY <1>7, <1>8, <2>1, <2>7 DEF refresher_scenario
  <2>9. \A k \in DOMAIN file.rules :
           /\ rule_steps(ServerRule(file.rules[k]), served) = ruleSteps(file.rules[k], file.steps)
           /\ ruleSteps(file.rules[k], file.steps) \subseteq IdsIn(file.steps)
    <3>1. ASSUME NEW k \in DOMAIN file.rules
          PROVE  /\ rule_steps(ServerRule(file.rules[k]), served) = ruleSteps(file.rules[k], file.steps)
                 /\ ruleSteps(file.rules[k], file.steps) \subseteq IdsIn(file.steps)
      <4>1. rule_steps(ServerRule(file.rules[k]), served) = ruleSteps(file.rules[k], file.steps)
        BY <1>1, <1>7, RuleStepsAlike
      <4>2. StepRefs(file.rules[k]) \subseteq IdsIn(file.steps)
        BY <1>1, <1>10 DEF ReadAlike, ToSet
      <4>3. \A tag : Tagged(file.steps, tag) \subseteq IdsIn(file.steps)
        BY TaggedIn
      <4>4. QED BY <4>1, <4>2, <4>3 DEF ruleSteps
    <3>2. QED BY <3>1
  <2>10. Rechecked[name][kind].rules = {ServerRule(file.rules[k]) : k \in positions}
    BY <1>8, <2>2, <2>8, <2>9
  <2>11. positions \in SUBSET DOMAIN file.rules
    BY <2>2
  <2>12. SameRules(Scenario[name][kind][v], Rechecked[name][kind], file, played, positions, variant)
    BY <1>4, <1>5, <1>6, <2>4, <2>6, <2>8, <2>10 DEF SameRules
  <2>13. QED BY <1>1, <1>5, <2>11, <2>12
<1>11. QED BY <1>9, <1>10

\* A rule of a file, as it is played in a variant and as the server reads it.
LEMMA RuleAlike ==
    ASSUME NEW name \in Loaded, NEW file, file = Files[name], NEW played, played.variants = file.variants,
           NEW k \in DOMAIN file.rules, NEW variant, variant.id \in IdsIn(file.variants),
           NEW rule, rule = PlayedRule(played, file.rules[k], variant),
           NEW spec, spec = ServerRule(file.rules[k]),
           Has(file.rules[k], "variants") => file.rules[k].variants # {}
    PROVE  /\ spec.id = file.rules[k].id /\ rule.id = spec.id
           /\ rule.points = spec.points /\ rule.critical = spec.critical
           /\ spec.critical_on = None => ~rule.onForbiddenOnly
           /\ (spec.variants # None => variant.id \in spec.variants) <=> variant.id \in rule.variants
           /\ rule.type \in RuleTypes
<1>1. PICK raw : raw = file.rules[k]
  OBVIOUS
<1>2. RuleProblems(file, raw) = {}
  BY <1>1, LoadedRules
<1>3. raw.type \in RuleTypes
  <2>1. raw.type \notin RuleTypes => "unknown rule type" \in RuleProblems(file, raw)
    BY DEF RuleProblems
  <2>2. QED BY <1>2, <2>1
<1>4. Has(raw, "criticalOn") => raw.criticalOn = "forbidden"
  <2>1. Has(raw, "criticalOn") /\ raw.criticalOn # "forbidden" => "criticalOn" \in RuleProblems(file, raw)
    BY DEF RuleProblems
  <2>2. QED BY <1>2, <2>1
<1>5. Has(raw, "variants") => raw.variants \notin {None, {}}
  BY <1>1, ValuesAssumption DEF Loaded, ToSet
<1>6. /\ rule.id = raw.id /\ rule.points = raw.points /\ rule.critical = raw.critical
      /\ rule.type = raw.type
      /\ rule.onForbiddenOnly = Has(raw, "criticalOn")
      /\ rule.variants = Field(raw, "variants", IdsIn(file.variants))
  BY <1>1 DEF PlayedRule
<1>7. /\ spec.id = raw.id /\ spec.points = raw.points /\ spec.critical = raw.critical
      /\ spec.critical_on = Field(raw, "criticalOn", None) /\ spec.variants = Variants(raw)
  BY <1>1 DEF ServerRule
<1>8. spec.critical_on = None => ~Has(raw, "criticalOn")
  BY <1>4, <1>7, ValuesAssumption DEF Field
<1>9. (spec.variants # None => variant.id \in spec.variants) <=> variant.id \in rule.variants
  <2>1. CASE Has(raw, "variants")
    <3>1. rule.variants = raw.variants /\ spec.variants = raw.variants /\ spec.variants # None
      BY <1>5, <1>6, <1>7, <2>1 DEF Field, Variants
    <3>2. QED BY <3>1
  <2>2. CASE ~Has(raw, "variants")
    <3>1. rule.variants = IdsIn(file.variants) /\ spec.variants = None
      BY <1>6, <1>7, <2>2 DEF Field, Variants
    <3>2. QED BY <3>1
  <2>3. QED BY <2>1, <2>2
<1>10. QED BY <1>1, <1>3, <1>6, <1>7, <1>8, <1>9

\* What a question may be answered with is a list, so its answers are finitely many.
LEMMA OptionsAreFew ==
    ASSUME NEW name \in Loaded, NEW file, file = Files[name],
           NEW v \in IdsIn(file.variants), NEW i \in DOMAIN file.steps
    PROVE  IsFiniteSet(IdsIn(stepOptions(file.steps[i])))
<1>1. PICK variant : variant = ById(file.variants, v)
  OBVIOUS
<1>2. PICK drill : drill = Scenario[name]["training"][v]
  OBVIOUS
<1>3. FileOf(name, "training") = file /\ "training" \in Kinds
  BY DEF FileOf, Kinds
<1>4. v \in DOMAIN Scenario[name]["training"] /\ drill = Played(file, variant)
  BY <1>1, <1>2, <1>3 DEF Scenario
<1>5. \A j \in DOMAIN drill.steps : IsFiniteSet(DOMAIN drill.steps[j].options)
  BY <1>2, <1>3, <1>4, LoadedIsTyped
<1>6. i \in DOMAIN drill.steps /\ drill.steps[i].options = Options(file.steps[i], variant)
  BY <1>4 DEF Played, PlayedStep
<1>7. PICK list : list = stepOptions(file.steps[i])
  OBVIOUS
<1>8. IsFiniteSet(DOMAIN list)
  BY <1>5, <1>6, <1>7 DEF Options
<1> DEFINE names == [j \in DOMAIN list |-> list[j].id]
<1>9. names \in Surjection(DOMAIN list, IdsIn(list))
  BY DEF Surjection, IdsIn
<1>10. QED BY <1>7, <1>8, <1>9, FS_Surjection

\* The step that a rule asks is in the file, and its answers are options of it.
AnswersIn(steps, raw, rule) ==
    /\ "step" \in DOMAIN raw.params /\ rule.correct # {}
    /\ raw.params["step"] \in IdsIn(steps)
    /\ \A i \in DOMAIN steps :
          steps[i].id = raw.params["step"] => rule.correct \subseteq IdsIn(stepOptions(steps[i]))

\* A question that is scored has an answer, and its answers are options of it.
LEMMA AnswersAreOptions ==
    ASSUME NEW name \in Loaded, NEW file, file = Files[name], NEW played, played.variants = file.variants,
           NEW k \in DOMAIN file.rules, NEW variant, variant.id \in IdsIn(file.variants),
           NEW rule, rule = PlayedRule(played, file.rules[k], variant),
           variant.id \in rule.variants, rule.type = "correct_choice"
    PROVE  AnswersIn(file.steps, file.rules[k], rule)
<1>1. PICK raw : raw = file.rules[k]
  OBVIOUS
<1>2. RuleProblems(file, raw) = {}
  BY <1>1, LoadedRules
<1>3. PICK appliesIn : appliesIn = Field(raw, "variants", IdsIn(file.variants))
  OBVIOUS
<1>4. raw.type = "correct_choice" /\ rule.variants = appliesIn
  BY <1>1, <1>3 DEF PlayedRule
<1>5. "step" \in DOMAIN raw.params
  <2>1. RequiredRuleParams(raw.type) = {"step"} /\ raw.type \in RuleTypes
    BY <1>4 DEF RequiredRuleParams, RuleTypes
  <2>2. ~({"step"} \subseteq DOMAIN raw.params) => "missing param" \in RuleProblems(file, raw)
    BY <2>1 DEF RuleProblems
  <2>3. QED BY <1>2, <2>2
<1>6. raw.type \in RuleTypes /\ CheckedRefs(raw) \subseteq IdsIn(file.steps)
  <2>1. raw.type \in RuleTypes
    BY <1>4 DEF RuleTypes
  <2>2. ~(CheckedRefs(raw) \subseteq IdsIn(file.steps)) => "unknown step" \in RuleProblems(file, raw)
    BY <2>1 DEF RuleProblems
  <2>3. QED BY <1>2, <2>1, <2>2
<1>7. raw.params["step"] \in CheckedRefs(raw)
  BY <1>4, <1>5 DEF CheckedRefs, StepParams
<1>8. ASSUME NEW i \in DOMAIN file.steps, file.steps[i].id = raw.params["step"],
             NEW step, step = file.steps[i]
      PROVE  rule.correct # {} /\ rule.correct \subseteq IdsIn(stepOptions(step))
  <2>1. step \in {s \in ToSet(file.steps) : raw.type \in RuleTypes /\ s.id \in CheckedRefs(raw)}
    BY <1>6, <1>7, <1>8 DEF ToSet
  <2>2. AnswerProblems(raw, step, appliesIn) \subseteq RuleProblems(file, raw)
    BY <1>3, <1>4, <2>1 DEF RuleProblems
  <2>3. AnswerProblems(raw, step, appliesIn) = {}
    BY <1>2, <2>2
  <2>4. {} \notin AnswerLists(raw, appliesIn)
    <3>1. {} \in AnswerLists(raw, appliesIn) => "no correct options" \in AnswerProblems(raw, step, appliesIn)
      BY DEF AnswerProblems
    <3>2. QED BY <2>3, <3>1
  <2>5. (UNION AnswerLists(raw, appliesIn)) \subseteq IdsIn(stepOptions(step))
    <3>1. ~((UNION AnswerLists(raw, appliesIn)) \subseteq IdsIn(stepOptions(step))) =>
             "unknown option" \in AnswerProblems(raw, step, appliesIn)
      BY DEF AnswerProblems
    <3>2. QED BY <2>3, <3>1
  <2>6. rule.correct \in AnswerLists(raw, appliesIn)
    <3>1. rule.correct = IF Has(raw.params, "correctIn") THEN Field(raw.params.correctIn, variant.id, {})
                         ELSE Field(raw.params, "correct", {})
      BY <1>1 DEF PlayedRule
    <3>2. QED BY <1>4, <3>1 DEF AnswerLists
  <2>7. rule.correct \in SUBSET IdsIn(stepOptions(step)) /\ rule.correct # {}
    BY <2>4, <2>5, <2>6
  <2>8. QED BY <2>7
<1>9. raw.params["step"] \in IdsIn(file.steps)
  BY <1>6, <1>7
<1>10. PICK i \in DOMAIN file.steps : file.steps[i].id = raw.params["step"]
  BY <1>9 DEF IdsIn
<1>11. QED BY <1>1, <1>5, <1>8, <1>9, <1>10 DEF AnswersIn

\* So they are finitely many.
LEMMA AnswersAreFew ==
    ASSUME NEW name \in Loaded, NEW file, file = Files[name], NEW played, played.variants = file.variants,
           NEW k \in DOMAIN file.rules, NEW variant, variant.id \in IdsIn(file.variants),
           NEW rule, rule = PlayedRule(played, file.rules[k], variant),
           variant.id \in rule.variants, rule.type = "correct_choice"
    PROVE  IsFiniteSet(rule.correct) /\ rule.correct # {}
<1>1. PICK id : id = file.rules[k].params["step"]
  OBVIOUS
<1>2. /\ rule.correct # {} /\ id \in IdsIn(file.steps)
      /\ \A i \in DOMAIN file.steps : file.steps[i].id = id =>
            rule.correct \subseteq IdsIn(stepOptions(file.steps[i]))
  <2>1. AnswersIn(file.steps, file.rules[k], rule)
    BY AnswersAreOptions
  <2>2. QED BY <1>1, <2>1 DEF AnswersIn
<1>3. PICK i \in DOMAIN file.steps : file.steps[i].id = id
  BY <1>2 DEF IdsIn
<1>4. rule.correct \in SUBSET IdsIn(stepOptions(file.steps[i]))
  BY <1>2, <1>3
<1>5. IsFiniteSet(IdsIn(stepOptions(file.steps[i])))
  BY OptionsAreFew
<1>6. QED BY <1>2, <1>4, <1>5, FS_Subset

\* A share of some points.
LEMMA ShareInRange ==
    ASSUME NEW p \in Nat, NEW part \in Nat, NEW whole \in Nat \ {0}, part <= whole
    PROVE  (p * part) \div whole \in 0..p
<1>1. PICK x \in Nat : x = p * part
  OBVIOUS
<1>2. x <= p * whole
  BY <1>1
<1>3. PICK q : q = x \div whole
  OBVIOUS
<1>4. q \in Int /\ whole * q <= x /\ x < whole * (q + 1)
  BY <1>3
<1>5. q >= 0
  BY <1>1, <1>4
<1>6. q <= p
  <2>1. ASSUME q >= p + 1 PROVE FALSE
    <3>1. whole * q >= whole * (p + 1)
      BY <1>4, <2>1
    <3>2. QED BY <1>2, <1>4, <3>1
  <2>2. QED BY <1>4, <2>1
<1>7. QED BY <1>1, <1>3, <1>4, <1>5, <1>6

\* What a rule earns is not more than it is worth.
LEMMA EarnedInRange ==
    ASSUME NEW scenario, NEW rule, rule.points \in Nat, rule.type \in RuleTypes,
           rule.type = "correct_choice" => IsFiniteSet(rule.correct) /\ rule.correct # {},
           NEW log, \E m \in Nat : DOMAIN log = 1..m,
           \A k \in DOMAIN log : log[k].type = "choice_made" => IsFiniteSet(log[k].data)
    PROVE  EarnedPoints(scenario, rule, log) \in 0..rule.points
<1>1. PICK p \in Nat : p = rule.points
  OBVIOUS
<1>2. 0 \in 0..p /\ p \in 0..p /\ Half(rule) \in 0..p
  BY <1>1 DEF Half
<1>3. CASE rule.type = "completed"
  BY <1>1, <1>2, <1>3 DEF EarnedPoints, CompletedPoints
<1>4. CASE rule.type = "order"
  BY <1>1, <1>2, <1>4 DEF EarnedPoints, OrderPoints
<1>5. CASE rule.type = "time_limit"
  BY <1>1, <1>2, <1>5 DEF EarnedPoints, TimeLimitPoints
<1>6. CASE rule.type = "no_forbidden"
  BY <1>1, <1>2, <1>6 DEF EarnedPoints, NoForbiddenPoints
<1>7. CASE rule.type = "hold"
  <2>1. EarnedPoints(scenario, rule, log) = HoldPoints(rule, log)
    BY <1>7 DEF EarnedPoints
  <2>2. HoldPoints(rule, log) \in {rule.points, Half(rule), 0}
    BY DEF HoldPoints
  <2>3. QED BY <1>1, <1>2, <2>1, <2>2
<1>8. CASE rule.type = "zone_accuracy"
  <2>1. EarnedPoints(scenario, rule, log) = ZonePoints(rule, log)
    BY <1>8 DEF EarnedPoints
  <2>2. ZonePoints(rule, log) \in {rule.points, Half(rule), 0}
    BY DEF ZonePoints
  <2>3. QED BY <1>1, <1>2, <2>1, <2>2
<1>9. CASE rule.type = "correct_choice"
  <2>1. EarnedPoints(scenario, rule, log) = CorrectChoicePoints(scenario, rule, log)
    BY <1>9 DEF EarnedPoints
  <2>2. CASE ~Happened(log, rule.step, "choice_made")
    BY <1>1, <1>2, <2>1, <2>2 DEF CorrectChoicePoints
  <2>3. CASE Happened(log, rule.step, "choice_made")
    <3>1. PICK picked, correct : picked = First(log, rule.step, "choice_made").data /\ correct = rule.correct
      OBVIOUS
    <3>2. IsFiniteSet(picked)
      <4>1. PICK some : some = InStep(log, rule.step, "choice_made")
        OBVIOUS
      <4>2. some \in SUBSET Nat /\ some # {}
        BY <2>3, <4>1 DEF Happened, InStep
      <4>3. Min(some) \in some
        BY <4>2, LeastNumber DEF Min
      <4>4. log[Min(some)].type = "choice_made" /\ Min(some) \in DOMAIN log
        BY <4>1, <4>3 DEF InStep
      <4>5. QED BY <3>1, <4>1, <4>4 DEF First
    <3>3. PICK right, wrong, whole : /\ right = Cardinality(picked \cap correct)
                                     /\ wrong = Cardinality(picked \ correct)
                                     /\ whole = Cardinality(correct)
      OBVIOUS
    <3>4. right \in Nat /\ wrong \in Nat /\ whole \in Nat \ {0} /\ right <= whole
      <4>1. IsFiniteSet(correct) /\ correct # {}
        BY <1>9, <3>1
      <4>2. IsFiniteSet(picked \cap correct) /\ right <= whole
        BY <3>3, <4>1, FS_Subset
      <4>3. IsFiniteSet(picked \ correct)
        BY <3>2, FS_Subset
      <4>4. whole # 0
        BY <3>3, <4>1, FS_EmptySet
      <4>5. QED BY <3>3, <4>1, <4>2, <4>3, <4>4, FS_CardinalityType
    <3>5. PICK net \in Nat : net = (IF right > wrong THEN right - wrong ELSE 0) /\ net <= whole
      <4>1. (IF right > wrong THEN right - wrong ELSE 0) \in {n \in Nat : n <= whole}
        BY <3>4
      <4>2. QED BY <4>1
    <3>6. (p * net) \div whole \in 0..p
      BY <3>4, <3>5, ShareInRange
    <3>7. PICK several : several = (scenario.steps[rule.step].interaction \in MultiSelect)
      OBVIOUS
    <3>8. CorrectChoicePoints(scenario, rule, log) =
            CASE ~several -> IF picked \subseteq correct THEN p ELSE 0
              [] several /\ rule.partial -> (p * net) \div whole
              [] several /\ ~rule.partial -> IF picked = correct THEN p ELSE 0
      BY <1>1, <2>3, <3>1, <3>3, <3>5, <3>7 DEF CorrectChoicePoints
    <3>9. CorrectChoicePoints(scenario, rule, log) \in 0..p
      <4>1. CASE ~several
        BY <1>2, <3>7, <3>8, <4>1
      <4>2. CASE several /\ rule.partial
        BY <3>6, <3>7, <3>8, <4>2
      <4>3. CASE several /\ ~rule.partial
        BY <1>2, <3>7, <3>8, <4>3
      <4>4. QED BY <3>7, <4>1, <4>2, <4>3
    <3>10. QED BY <1>1, <2>1, <3>9
  <2>4. QED BY <2>2, <2>3
<1>10. QED BY <1>3, <1>4, <1>5, <1>6, <1>7, <1>8, <1>9 DEF RuleTypes

\* The results of some rules, each as the server would have it.
Agreeing(P, spec, result) ==
    /\ IsFiniteSet(P)
    /\ \A j, k \in P : spec[j].id = spec[k].id => j = k
    /\ \A k \in P :
          /\ result[k].id = spec[k].id /\ result[k].max = spec[k].points
          /\ result[k].critical = spec[k].critical
          /\ result[k].max \in Nat /\ result[k].earned \in 0..result[k].max
          /\ spec[k].critical /\ ZeroFails(spec[k], result[k]) => ~result[k].passed

\* A report whose verdict is drawn from its results.
IsReport(report, threshold, log) ==
    /\ report.score = RoundPercent(EarnedOf(report.rules), MaxOf(report.rules))
    /\ report.criticalFailures = {r.id : r \in {x \in report.rules : x.critical /\ ~x.passed}}
    /\ report.passed = (/\ report.criticalFailures = {} /\ ~Aborted(log)
                        /\ report.score >= threshold)

\* Such a report of such results is what the server comes to.
LEMMA RecheckAgrees ==
    ASSUME NEW P, NEW spec, NEW result, Agreeing(P, spec, result),
           NEW server, NEW variant, RulesFor(server, variant) = {spec[k] : k \in P},
           NEW report, report.rules = {result[k] : k \in P},
           NEW log, IsReport(report, server.threshold, log)
    PROVE  RecheckAttempt(server, variant, report, log) =
              [score |-> report.score, passed |-> report.passed,
               criticalFailures |-> report.criticalFailures, reasons |-> {}]
<1> USE DEF Agreeing, IsReport
<1> DEFINE specs == RulesFor(server, variant)
           results == {r \in report.rules : r.id \in Ids(specs)}
           score == ScorePercent(EarnedOf(results), MaxOf(results))
           failures == ServerFailures(specs, results)
           passed == /\ failures = {} /\ ~(\E k \in DOMAIN log : log[k].type = "attempt_aborted")
                     /\ score >= server.threshold
           totals == {reason \in {"not_scored", "missing", "score", "passed", "failures"} :
                        \/ reason = "not_scored" /\ results # report.rules
                        \/ reason = "missing" /\ Ids(specs) \ Ids(results) # {}
                        \/ reason = "score" /\ report.score # score
                        \/ reason = "passed" /\ report.passed # passed
                        \/ reason = "failures" /\ report.criticalFailures # failures}
<1>1. specs = {spec[k] : k \in P} /\ results = {result[k] : k \in P}
  BY DEF Ids
<1>2. report.rules = results
  BY <1>1
<1> HIDE DEF specs, results
<1>3. \A k \in P : SpecOf(specs, result[k].id) = spec[k]
  <2> SUFFICES ASSUME NEW k \in P PROVE SpecOf(specs, result[k].id) = spec[k]
    OBVIOUS
  <2>1. spec[k] \in specs /\ spec[k].id = result[k].id
    BY <1>1
  <2>2. \A x \in specs : x.id = result[k].id => x = spec[k]
    BY <1>1
  <2>3. QED BY <2>1, <2>2 DEF SpecOf
<1>4. Ids(specs) = {spec[k].id : k \in P} /\ Ids(results) = Ids(specs)
  BY <1>1 DEF Ids
<1>6. ServerFailures(specs, results) = report.criticalFailures
  <2>1. ASSUME NEW x \in results
        PROVE  LET s == SpecOf(specs, x.id)
               IN  s.critical /\ (ZeroFails(s, x) \/ ~x.passed) <=> x.critical /\ ~x.passed
    <3>1. PICK k \in P : x = result[k]
      BY <1>1
    <3>2. PICK s : s = spec[k] /\ SpecOf(specs, x.id) = s
      BY <1>3, <3>1
    <3>3. x.critical = s.critical /\ (s.critical /\ ZeroFails(s, x) => ~x.passed)
      BY <3>1, <3>2
    <3>4. s.critical /\ (ZeroFails(s, x) \/ ~x.passed) <=> x.critical /\ ~x.passed
      BY <3>3, Zenon
    <3>5. QED BY <3>2, <3>4, Zenon
  <2>2. {x \in results : LET s == SpecOf(specs, x.id)
                        IN  s.critical /\ (ZeroFails(s, x) \/ ~x.passed)} =
          {x \in results : x.critical /\ ~x.passed}
    BY <2>1
  <2>3. QED BY <1>2, <2>2 DEF ServerFailures
<1>7. ScorePercent(EarnedOf(results), MaxOf(results)) = report.score
  <2>1. IsFiniteSet(results)
    <3> DEFINE f == [k \in P |-> result[k]]
    <3>1. f \in Surjection(P, results)
      BY <1>1 DEF Surjection
    <3>2. QED BY <3>1, FS_Surjection
  <2>2. \A r \in results : r["earned"] \in Nat /\ r["max"] \in Nat
    BY <1>1
  <2>3. EarnedOf(results) \in Nat /\ MaxOf(results) \in Nat
    BY <2>1, <2>2, TotalIsNat DEF EarnedOf, MaxOf
  <2>4. \A e, m \in Nat : ScorePercent(e, m) = RoundPercent(e, m)
    BY DEF ScorePercent, RoundPercent
  <2>5. QED BY <1>2, <2>3, <2>4
<1>8. (UNION {RuleReasons(SpecOf(specs, r.id), r) : r \in results}) = {}
  <2>1. ASSUME NEW k \in P PROVE RuleReasons(spec[k], result[k]) = {}
    <3>1. /\ ~(result[k].max # spec[k].points) /\ ~(result[k].earned \notin 0..result[k].max)
          /\ ~(result[k].critical # spec[k].critical)
      OBVIOUS
    <3>2. ~(spec[k].critical /\ ZeroFails(spec[k], result[k]) /\ result[k].passed)
      BY Zenon
    <3>3. QED BY <3>1, <3>2, Zenon DEF RuleReasons
  <2>2. ASSUME NEW r \in results PROVE RuleReasons(SpecOf(specs, r.id), r) = {}
    <3>1. PICK k \in P : r = result[k]
      BY <1>1
    <3>2. SpecOf(specs, r.id) = spec[k]
      BY <1>3, <3>1
    <3>3. QED BY <2>1, <3>1, <3>2
  <2>3. QED BY <2>2
<1>9. Ids(specs) \ Ids(results) = {}
  BY <1>4
<1>10. passed = report.passed
  <2>1. passed = (report.criticalFailures = {} /\ ~Aborted(log) /\ report.score >= server.threshold)
    BY <1>6, <1>7 DEF Aborted
  <2>2. QED BY <2>1
<1>11. totals = {}
  <2> HIDE DEF score, failures, passed
  <2>1. QED BY <1>2, <1>6, <1>7, <1>9, <1>10 DEF score, failures
<1>12. RecheckAttempt(server, variant, report, log) =
         [score |-> score, passed |-> passed, criticalFailures |-> failures,
          reasons |-> (UNION {RuleReasons(SpecOf(specs, r.id), r) : r \in results}) \cup totals]
  BY DEF RecheckAttempt, specs, results
<1> HIDE DEF totals, passed, score, failures
<1>13. score = report.score /\ failures = report.criticalFailures
  BY <1>6, <1>7 DEF score, failures
<1>14. QED BY <1>8, <1>10, <1>11, <1>12, <1>13

\* What is picked is finitely many options.
LEMMA PickedIsFinite ==
    ASSUME IInv, Claims, NEW k \in DOMAIN Log, Log[k].type = "choice_made"
    PROVE  IsFiniteSet(Log[k].data)
<1>1. PICK i : i = Log[k].step
  OBVIOUS
<1>2. i \in DOMAIN Steps
  BY <1>1 DEF IInv, IsSession, Steps, Log
<1>3. PICK options : options = Steps[i].options /\ IsFiniteSet(DOMAIN options)
  BY <1>2, IInvParts
<1>4. Honest(Steps, Log, k)
  BY DEF Claims, Truthful, Steps, Log
<1>5. Log[k].data \in SUBSET IdsIn(options)
  BY <1>1, <1>3, <1>4 DEF Honest, OptionIds
<1> DEFINE names == [j \in DOMAIN options |-> options[j].id]
<1>6. names \in Surjection(DOMAIN options, IdsIn(options))
  BY DEF Surjection, IdsIn
<1>7. IsFiniteSet(IdsIn(options))
  BY <1>3, <1>6, FS_Surjection
<1>8. QED BY <1>5, <1>7, FS_Subset

\* What is reported of a rule.
LEMMA ResultParts ==
    ASSUME NEW scenario, NEW rule, rule.points \in Nat, rule.type \in RuleTypes,
           rule.type = "correct_choice" => IsFiniteSet(rule.correct) /\ rule.correct # {},
           NEW log, \E m \in Nat : DOMAIN log = 1..m,
           \A k \in DOMAIN log : log[k].type = "choice_made" => IsFiniteSet(log[k].data),
           NEW result, result = RuleResult(scenario, rule, log)
    PROVE  /\ result.id = rule.id /\ result.max = rule.points /\ result.critical = rule.critical
           /\ result.max \in Nat /\ result.earned \in 0..result.max
           /\ rule.critical /\ ~rule.onForbiddenOnly /\ result.earned = 0 => ~result.passed
<1>1. PICK failed : failed = ScoresSkippedStep(scenario, rule, WorkerSkipped(scenario, log))
  OBVIOUS
<1>2. PICK earned : earned = IF failed THEN 0 ELSE EarnedPoints(scenario, rule, log)
  OBVIOUS
<1>3. earned \in 0..rule.points
  BY <1>2, EarnedInRange
<1>4. PICK critical : critical = (rule.critical /\ (failed \/ IsCriticalFailure(rule, earned, log)))
  OBVIOUS
<1>5. result = [id |-> rule.id, earned |-> earned, max |-> rule.points, critical |-> rule.critical,
                passed |-> IF rule.critical THEN ~critical ELSE earned = rule.points]
  BY <1>1, <1>2, <1>4, Zenon DEF RuleResult
<1>6. /\ result.id = rule.id /\ result.max = rule.points /\ result.critical = rule.critical
      /\ result.earned = earned
      /\ result.passed = IF rule.critical THEN ~critical ELSE earned = rule.points
  BY <1>5
<1>7. rule.critical /\ ~rule.onForbiddenOnly /\ earned = 0 => critical
  BY <1>4 DEF IsCriticalFailure
<1>8. rule.critical /\ critical => ~result.passed
  BY <1>6
<1>9. QED BY <1>3, <1>6, <1>7, <1>8

\* THEOREM.  The server, which never sees an event, comes to the app's verdict and finds
\* nothing to flag in an attempt that the app scored, for any file that loads and that both
\* read alike, whatever is done in whatever order (evaluate; recheck_attempt; derive_refresher).
THEOREM ServerAgreesHolds == Spec => []ServerAgrees
<1>1. IInv /\ Claims => ServerAgrees
  <2> SUFFICES ASSUME IInv, Claims, ReadAlike(Files[session.file], session.kind), NEW row \in DOMAIN stored
               PROVE  RecheckAttempt(Rechecked[session.file][session.kind], session.variant,
                                     stored[row].result, stored[row].events) =
                        [score |-> stored[row].result.score, passed |-> stored[row].result.passed,
                         criticalFailures |-> stored[row].result.criticalFailures, reasons |-> {}]
    BY DEF ServerAgrees
  <2>1. PICK name, kind, v, log : /\ name = session.file /\ kind = session.kind /\ v = session.variant
                                  /\ log = Log
    OBVIOUS
  <2>2. PICK drill : drill = ScenarioOf(session)
    OBVIOUS
  <2>3. /\ name \in Loaded /\ kind \in Kinds /\ v \in DOMAIN Scenario[name][kind]
        /\ drill = Scenario[name][kind][v]
    BY <2>1, <2>2 DEF IInv
  <2>4. stored[row] = [result |-> Evaluate(drill, v, log), events |-> log]
    BY <2>1, <2>2 DEF IInv
  <2>5. \E m \in Nat : DOMAIN log = 1..m
    <3>1. IsList(log)
      BY <2>1, IInvParts DEF Log
    <3>2. QED BY <3>1, ListIsSeq DEF IsList
  <2>6. \A k \in DOMAIN log : log[k].type = "choice_made" => IsFiniteSet(log[k].data)
    BY <2>1, PickedIsFinite
  <2>7. PICK file, played : file = Files[name] /\ played = FileOf(name, kind)
    OBVIOUS
  <2>8. PICK server : server = Rechecked[name][kind]
    OBVIOUS
  <2>9. PICK variant, positions :
           /\ positions \in SUBSET DOMAIN file.rules
           /\ SameRules(drill, server, file, played, positions, variant) /\ variant.id = v
    <3>1. \E positions \in SUBSET DOMAIN file.rules : \E variant :
             /\ SameRules(Scenario[name][kind][v], Rechecked[name][kind], file, played, positions, variant)
             /\ variant.id = v
      BY <2>1, <2>3, <2>7, RulesAlike
    <3>2. QED BY <2>3, <2>8, <3>1
  <2>10. PICK spec : spec = [k \in positions |-> ServerRule(file.rules[k])]
    OBVIOUS
  <2>11. PICK rule : rule = [k \in positions |-> PlayedRule(played, file.rules[k], variant)]
    OBVIOUS
  <2>12. PICK result : result = [k \in positions |-> RuleResult(drill, rule[k], log)]
    OBVIOUS
  <2>13. ASSUME NEW k \in positions
         PROVE  /\ spec[k].id = file.rules[k].id /\ rule[k].id = spec[k].id
                /\ rule[k].points = spec[k].points /\ rule[k].critical = spec[k].critical
                /\ spec[k].critical_on = None => ~rule[k].onForbiddenOnly
                /\ (spec[k].variants # None => v \in spec[k].variants) <=> v \in rule[k].variants
                /\ rule[k].type \in RuleTypes /\ rule[k].points \in Nat
    <3>1. rule[k] = PlayedRule(played, file.rules[k], variant) /\ spec[k] = ServerRule(file.rules[k])
      BY <2>10, <2>11
    <3>2. rule[k] \in drill.rules
      BY <2>9, <3>1 DEF SameRules
    <3>3. rule[k].points \in Nat
      BY <2>3, <3>2, LoadedIsTyped
    <3>4. k \in DOMAIN file.rules /\ variant.id \in IdsIn(file.variants)
      BY <2>9 DEF SameRules
    <3>5. PICK r, s : r = rule[k] /\ s = spec[k]
      OBVIOUS
    <3>6. /\ name \in Loaded /\ file = Files[name] /\ played.variants = file.variants
          /\ r = PlayedRule(played, file.rules[k], variant) /\ s = ServerRule(file.rules[k])
      BY <2>3, <2>7, <2>9, <3>1, <3>5 DEF SameRules
    <3>9. Has(file.rules[k], "variants") => file.rules[k].variants # {}
      BY <2>1, <2>7, <3>4 DEF ReadAlike, ToSet
    <3>7. /\ s.id = file.rules[k].id /\ r.id = s.id /\ r.points = s.points /\ r.critical = s.critical
          /\ s.critical_on = None => ~r.onForbiddenOnly
          /\ (s.variants # None => variant.id \in s.variants) <=> variant.id \in r.variants
          /\ r.type \in RuleTypes
      BY <3>4, <3>6, <3>9, RuleAlike
    <3>8. QED BY <2>9, <3>3, <3>5, <3>7
  <2>14. PICK P : P = {k \in positions : v \in rule[k].variants}
    OBVIOUS
  <2>15. IsFiniteSet(P)
    <3>1. PICK n \in Nat : DOMAIN file.rules = 1..n
      BY <2>3, <2>7, LoadedRules
    <3>2. IsFiniteSet(1..n) /\ P \in SUBSET (1..n)
      BY <2>9, <2>14, <3>1, FS_Interval
    <3>3. QED BY <3>2, FS_Subset
  <2>16. RulesFor(server, v) = {spec[k] : k \in P}
    <3>1. server.rules = {spec[k] : k \in positions}
      BY <2>9, <2>10 DEF SameRules
    <3>2. QED BY <2>13, <2>14, <3>1 DEF RulesFor
  <2>17. Scored(drill, v) = {rule[k] : k \in P}
    <3>1. drill.rules = {rule[k] : k \in positions}
      BY <2>9, <2>11 DEF SameRules
    <3>2. QED BY <2>14, <3>1 DEF Scored, RuleRunsIn
  <2>18. PICK report : report = Evaluate(drill, v, log)
    OBVIOUS
  <2>19. report.rules = {result[k] : k \in P}
    <3>1. report.rules = {RuleResult(drill, r, log) : r \in Scored(drill, v)}
      BY <2>18 DEF Evaluate
    <3>2. \A k \in P : result[k] = RuleResult(drill, rule[k], log)
      BY <2>12, <2>14
    <3>3. QED BY <2>17, <3>1, <3>2
  <2>20. \A j, k \in P : spec[j].id = spec[k].id => j = k
    <3>1. Unique(file.rules)
      BY <2>3, <2>7, LoadedRules
    <3>2. QED BY <2>9, <2>13, <2>14, <3>1 DEF Unique
  <2>21. ASSUME NEW k \in P
         PROVE  /\ result[k].id = spec[k].id /\ result[k].max = spec[k].points
                /\ result[k].critical = spec[k].critical
                /\ result[k].max \in Nat /\ result[k].earned \in 0..result[k].max
                /\ spec[k].critical /\ ZeroFails(spec[k], result[k]) => ~result[k].passed
    <3>1. k \in positions /\ v \in rule[k].variants
      BY <2>14
    <3>2. rule[k].type = "correct_choice" => IsFiniteSet(rule[k].correct) /\ rule[k].correct # {}
      <4>1. rule[k] = PlayedRule(played, file.rules[k], variant) /\ k \in DOMAIN file.rules
        BY <2>9, <2>11, <3>1
      <4>2. /\ variant.id \in IdsIn(file.variants) /\ variant.id \in rule[k].variants
            /\ played.variants = file.variants
        BY <2>9, <3>1 DEF SameRules
      <4>3. QED BY <2>3, <2>7, <4>1, <4>2, AnswersAreFew
    <3>3. result[k] = RuleResult(drill, rule[k], log)
      BY <2>12, <3>1
    <3>4. rule[k].points \in Nat /\ rule[k].type \in RuleTypes
      BY <2>13, <3>1
    <3>5. PICK r, x : r = rule[k] /\ x = result[k]
      OBVIOUS
    <3>6. /\ r.points \in Nat /\ r.type \in RuleTypes /\ x = RuleResult(drill, r, log)
          /\ r.type = "correct_choice" => IsFiniteSet(r.correct) /\ r.correct # {}
      BY <3>2, <3>3, <3>4, <3>5
    <3>7. /\ x.id = r.id /\ x.max = r.points /\ x.critical = r.critical
          /\ x.max \in Nat /\ x.earned \in 0..x.max
          /\ r.critical /\ ~r.onForbiddenOnly /\ x.earned = 0 => ~x.passed
      BY <2>5, <2>6, <3>6, ResultParts, SMTT(60)
    <3>8. QED BY <2>13, <3>1, <3>5, <3>7 DEF ZeroFails
  <2>22. IsReport(report, server.threshold, log)
    BY <2>9, <2>18 DEF Evaluate, IsReport, SameRules
  <2>23. RecheckAttempt(server, v, report, log) =
           [score |-> report.score, passed |-> report.passed,
            criticalFailures |-> report.criticalFailures, reasons |-> {}]
    <3>1. Agreeing(P, spec, result)
      BY <2>15, <2>20, <2>21 DEF Agreeing
    <3>2. QED BY <2>16, <2>19, <2>22, <3>1, RecheckAgrees
  <2>24. QED BY <2>1, <2>4, <2>8, <2>18, <2>23
<1>2. QED BY <1>1, IInvHolds, ClaimsHold, PTL

-----------------------------------------------------------------------------
(* What a file that loads plays *)

\* The steps that are played of a file.
PlayedIds(name, kind) ==
    IF kind = "refresher" THEN KeptSteps(Files[name]) \cap IdsIn(Files[name].steps)
    ELSE IdsIn(Files[name].steps)

\* What a refresher keeps is closed, and has what every critical rule scores.
LEMMA KeptCloses ==
    ASSUME NEW file, NEW kept, kept = KeptSteps(file)
    PROVE  /\ Closed(kept, file.steps)
           /\ \A k \in DOMAIN file.rules : file.rules[k].critical =>
                 ruleSteps(file.rules[k], file.steps) \subseteq kept
<1>1. FirstKept(file) \subseteq kept /\ Closed(kept, file.steps)
  BY KeptIsClosed
<1>2. ASSUME NEW k \in DOMAIN file.rules, file.rules[k].critical
      PROVE  ruleSteps(file.rules[k], file.steps) \subseteq kept
  <2>1. file.rules[k] \in {q \in ToSet(file.rules) : q.critical}
    BY <1>2 DEF ToSet
  <2>2. ruleSteps(file.rules[k], file.steps) \subseteq FirstKept(file)
    BY <2>1 DEF FirstKept
  <2>3. QED BY <1>1, <2>2
<1>3. QED BY <1>1, <1>2

LEMMA StepsPlayed ==
    ASSUME NEW name \in Loaded, NEW kind \in Kinds, NEW file, file = Files[name],
           NEW played, played = FileOf(name, kind)
    PROVE  /\ ToSet(played.steps) = {s \in ToSet(file.steps) : s.id \in PlayedIds(name, kind)}
           /\ IdsIn(played.steps) = PlayedIds(name, kind)
<1>1. /\ name \in DOMAIN Files /\ {"threshold", "variants", "steps", "rules"} \subseteq DOMAIN file
      /\ DOMAIN file.steps = 1..Len(file.steps) /\ Len(file.steps) \in Nat
  BY FilesAreLists DEF Loaded
<1>2. \A list : IdsIn(list) = {s.id : s \in ToSet(list)}
  BY DEF IdsIn, ToSet
<1>3. CASE kind # "refresher"
  <2>1. played = file /\ PlayedIds(name, kind) = IdsIn(file.steps)
    BY <1>3 DEF FileOf, PlayedIds
  <2>2. QED BY <1>2, <2>1
<1>4. CASE kind = "refresher"
  <2>1. PICK kept : kept = KeptSteps(file) /\ PlayedIds(name, kind) = kept \cap IdsIn(file.steps)
    BY <1>4 DEF PlayedIds
  <2>2. PICK positions : positions = {i \in DOMAIN file.steps : file.steps[i].id \in kept}
    OBVIOUS
  <2>3. positions \in SUBSET (1..Len(file.steps))
    BY <1>1, <2>2
  <2>4. played.steps = InOrder(file.steps, positions)
    BY <1>1, <1>4, <2>1, <2>2 DEF FileOf, refresherScenario
  <2>5. ToSet(played.steps) = {file.steps[i] : i \in positions}
    BY <1>1, <2>3, <2>4, PartMembers
  <2>6. ToSet(played.steps) = {s \in ToSet(file.steps) : s.id \in kept}
    BY <2>2, <2>5 DEF ToSet
  <2>7. \A s \in ToSet(file.steps) : s.id \in IdsIn(file.steps)
    BY <1>2
  <2>8. ToSet(played.steps) = {s \in ToSet(file.steps) : s.id \in PlayedIds(name, kind)}
    BY <2>1, <2>6, <2>7
  <2>9. IdsIn(played.steps) = PlayedIds(name, kind)
    <3>1. \A id \in PlayedIds(name, kind) : \E s \in ToSet(file.steps) : s.id = id
      BY <1>2, <2>1
    <3>2. QED BY <1>2, <2>8, <3>1
  <2>10. QED BY <2>8, <2>9
<1>5. QED BY <1>3, <1>4

\* A rule scores a step at least.
LEMMA RuleScores ==
    ASSUME NEW name \in Loaded, NEW file, file = Files[name], NEW k \in DOMAIN file.rules,
           NEW rule, rule = file.rules[k]
    PROVE  /\ ruleSteps(rule, file.steps) # {}
           /\ rule.type = "no_forbidden" =>
                 /\ "tag" \in DOMAIN rule.params /\ Tagged(file.steps, rule.params.tag) # {}
<1>1. name \in DOMAIN Files /\ RuleProblems(file, rule) = {}
  BY LoadedRules DEF Loaded
<1>2. rule.type \in RuleTypes
  <2>1. rule.type \notin RuleTypes => "unknown rule type" \in RuleProblems(file, rule)
    BY DEF RuleProblems
  <2>2. QED BY <1>1, <2>1
<1>3. RequiredRuleParams(rule.type) \subseteq DOMAIN rule.params
  <2>1. ~(RequiredRuleParams(rule.type) \subseteq DOMAIN rule.params) =>
           "missing param" \in RuleProblems(file, rule)
    BY <1>2 DEF RuleProblems
  <2>2. QED BY <1>1, <2>1
<1>4. ASSUME rule.type # "no_forbidden" PROVE StepRefs(rule) # {}
  <2>1. "step" \in RequiredRuleParams(rule.type) \/ "before" \in RequiredRuleParams(rule.type)
    BY <1>2, <1>4 DEF RequiredRuleParams, RuleTypes
  <2>2. QED BY <1>3, <2>1 DEF StepRefs
<1>5. ASSUME rule.type = "no_forbidden"
      PROVE  "tag" \in DOMAIN rule.params /\ Tagged(file.steps, rule.params.tag) # {}
  <2>1. PICK tag : tag = Field(rule.params, "tag", None)
    OBVIOUS
  <2>2. tag \in ForbiddenTags(file.steps)
    <3>1. tag \notin ForbiddenTags(file.steps) => "unknown tag" \in RuleProblems(file, rule)
      BY <1>5, <2>1 DEF RuleProblems
    <3>2. QED BY <1>1, <3>1
  <2>3. "tag" \in DOMAIN rule.params /\ tag = rule.params.tag
    <3>1. "tag" \in DOMAIN rule.params
      BY <1>3, <1>5 DEF RequiredRuleParams
    <3>2. QED BY <2>1, <3>1 DEF Field, Has
  <2>4. PICK s \in ToSet(file.steps) : \E o \in ToSet(stepOptions(s)) : Has(o, "tag") /\ o.tag = tag
    BY <2>2 DEF ForbiddenTags
  <2>5. s.id \in Tagged(file.steps, tag)
    BY <2>4 DEF Tagged, Field
  <2>6. QED BY <2>3, <2>5
<1>6. QED BY <1>4, <1>5 DEF ruleSteps

\* The rules that are played: all that are critical, and none whose steps are not.
RulesAt(file, played, ids, positions) ==
    /\ ToSet(played.rules) = {file.rules[k] : k \in positions}
    /\ \A k \in positions : ruleSteps(file.rules[k], file.steps) \cap IdsIn(file.steps) \subseteq ids
    /\ \A k \in DOMAIN file.rules : file.rules[k].critical => k \in positions

LEMMA RulesPlayed ==
    ASSUME NEW name \in Loaded, NEW kind \in Kinds, NEW file, file = Files[name],
           NEW played, played = FileOf(name, kind)
    PROVE  /\ played.variants = file.variants
           /\ \E positions \in SUBSET DOMAIN file.rules :
                 RulesAt(file, played, PlayedIds(name, kind), positions)
<1>1. /\ name \in DOMAIN Files /\ {"threshold", "variants", "steps", "rules"} \subseteq DOMAIN file
      /\ DOMAIN file.rules = 1..Len(file.rules) /\ Len(file.rules) \in Nat
  BY FilesAreLists DEF Loaded
<1>2. CASE kind # "refresher"
  <2>1. played = file /\ PlayedIds(name, kind) = IdsIn(file.steps)
    BY <1>2 DEF FileOf, PlayedIds
  <2>2. ToSet(played.rules) = {file.rules[k] : k \in DOMAIN file.rules}
    BY <2>1 DEF ToSet
  <2>3. \A k \in DOMAIN file.rules :
           ruleSteps(file.rules[k], file.steps) \cap IdsIn(file.steps) \subseteq PlayedIds(name, kind)
    BY <2>1
  <2>4. DOMAIN file.rules \in SUBSET DOMAIN file.rules
    OBVIOUS
  <2>5. RulesAt(file, played, PlayedIds(name, kind), DOMAIN file.rules)
    BY <2>2, <2>3 DEF RulesAt
  <2>6. QED BY <2>1, <2>4, <2>5
<1>3. CASE kind = "refresher"
  <2>1. PICK kept : kept = KeptSteps(file) /\ PlayedIds(name, kind) = kept \cap IdsIn(file.steps)
    BY <1>3 DEF PlayedIds
  <2>2. PICK positions : positions = {k \in DOMAIN file.rules :
                            /\ ruleSteps(file.rules[k], file.steps) # {}
                            /\ ruleSteps(file.rules[k], file.steps) \subseteq kept}
    OBVIOUS
  <2>3. positions \in SUBSET (1..Len(file.rules)) /\ positions \in SUBSET DOMAIN file.rules
    BY <1>1, <2>2
  <2>4. played.rules = InOrder(file.rules, positions) /\ played.variants = file.variants
    BY <1>1, <1>3, <2>1, <2>2 DEF FileOf, refresherScenario
  <2>5. ToSet(played.rules) = {file.rules[k] : k \in positions}
    BY <1>1, <2>3, <2>4, PartMembers
  <2>6. ASSUME NEW k \in DOMAIN file.rules, file.rules[k].critical PROVE k \in positions
    <3>1. ruleSteps(file.rules[k], file.steps) # {}
      BY RuleScores
    <3>2. ruleSteps(file.rules[k], file.steps) \subseteq kept
      BY <2>1, <2>6, KeptCloses
    <3>3. QED BY <2>2, <3>1, <3>2
  <2>7. \A k \in positions :
           ruleSteps(file.rules[k], file.steps) \cap IdsIn(file.steps) \subseteq PlayedIds(name, kind)
    BY <2>1, <2>2
  <2>8. RulesAt(file, played, PlayedIds(name, kind), positions)
    BY <2>5, <2>6, <2>7 DEF RulesAt
  <2>9. QED BY <2>3, <2>4, <2>8
<1>4. QED BY <1>2, <1>3

-----------------------------------------------------------------------------
(* What a played rule names *)

LEMMA PlayedAs ==
    ASSUME NEW file, NEW step, NEW variant
    PROVE  /\ PlayedStep(file, step, variant).runs = stepRunsIn(step, variant.id)
           /\ PlayedStep(file, step, variant).options = Options(step, variant)
  BY DEF PlayedStep

\* A position that is not 0 is the one of the step with that id.
LEMMA PositionNames ==
    ASSUME NEW name \in Loaded, NEW kind \in Kinds, NEW played, played = FileOf(name, kind),
           NEW id, NEW i, i = Position(played, id)
    PROVE  /\ i # 0 => i \in DOMAIN played.steps /\ played.steps[i].id = id
           /\ id \in IdsIn(played.steps) => i # 0
<1>1. DOMAIN played.steps \subseteq Nat \ {0} /\ Unique(played.steps)
  BY ChosenBefore
<1>2. CASE \E j \in DOMAIN played.steps : played.steps[j].id = id
  <2>1. PICK j \in DOMAIN played.steps : played.steps[j].id = id
    BY <1>2
  <2>2. DOMAIN played.steps \subseteq Nat
    BY <1>1
  <2>3. i = j
    BY <1>1, <2>1, <2>2, PositionIs
  <2>4. QED BY <1>1, <2>1, <2>3
<1>3. CASE ~\E j \in DOMAIN played.steps : played.steps[j].id = id
  <2>1. {j \in DOMAIN played.steps : played.steps[j].id = id} = {}
    BY <1>3
  <2>2. i = Max({0})
    BY <2>1 DEF Position
  <2>3. i = 0
    <3>1. \E x \in {0} : \A y \in {0} : x >= y
      OBVIOUS
    <3>2. QED BY <2>2, <3>1 DEF Max
  <2>4. QED BY <1>3, <2>3 DEF IdsIn
<1>4. QED BY <1>2, <1>3

\* The steps that a rule scores are played, and run wherever the rule applies.
LEMMA ScoredRuns ==
    ASSUME NEW name \in Loaded, NEW kind \in Kinds, NEW file, file = Files[name],
           NEW played, played = FileOf(name, kind), NEW k \in DOMAIN file.rules,
           ruleSteps(file.rules[k], file.steps) \cap IdsIn(file.steps) \subseteq PlayedIds(name, kind),
           NEW variant, NEW rule, rule = PlayedRule(played, file.rules[k], variant),
           variant.id \in rule.variants, NEW i \in ScoredSteps(rule)
    PROVE  i \in DOMAIN played.steps /\ stepRunsIn(played.steps[i], variant.id)
<1>1. PICK raw : raw = file.rules[k] /\ RuleProblems(file, raw) = {}
  BY LoadedRules
<1>2. PICK type : type = raw.type /\ type = rule.type /\ type \in RuleTypes
  <2>1. raw.type \notin RuleTypes => "unknown rule type" \in RuleProblems(file, raw)
    BY DEF RuleProblems
  <2>2. rule.type = raw.type
    BY <1>1 DEF PlayedRule
  <2>3. QED BY <1>1, <2>1, <2>2
<1>3. PICK key \in StepParams(type) : i = Position(played, Field(raw.params, key, None))
  <2>1. /\ rule.step = Position(played, Field(raw.params, "step", None))
        /\ rule.before = Position(played, Field(raw.params, "before", None))
        /\ rule.after = Position(played, Field(raw.params, "after", None))
    BY <1>1 DEF PlayedRule
  <2>2. CASE type = "order"
    <3>1. i \in {rule.before, rule.after} /\ StepParams(type) = {"before", "after"}
      BY <1>2, <2>2 DEF ScoredSteps, StepParams
    <3>2. QED BY <2>1, <3>1
  <2>3. type # "no_forbidden"
    BY <1>2 DEF ScoredSteps
  <2>4. CASE type # "order"
    <3>1. i = rule.step /\ StepParams(type) = {"step"}
      BY <1>2, <2>3, <2>4 DEF ScoredSteps, StepParams
    <3>2. QED BY <2>1, <3>1
  <2>5. QED BY <2>2, <2>4
<1>4. key \in DOMAIN raw.params /\ key \in {"step", "before", "after"}
  <2>1. RequiredRuleParams(type) \subseteq DOMAIN raw.params
    <3>1. ~(RequiredRuleParams(type) \subseteq DOMAIN raw.params) => "missing param" \in RuleProblems(file, raw)
      BY <1>2 DEF RuleProblems
    <3>2. QED BY <1>1, <3>1
  <2>2. key \in RequiredRuleParams(type) /\ key \in {"step", "before", "after"}
    BY <1>2, <1>3 DEF RequiredRuleParams, StepParams, RuleTypes
  <2>3. QED BY <2>1, <2>2
<1>5. PICK id : id = raw.params[key]
  OBVIOUS
<1>6. id \in CheckedRefs(raw) /\ id \in StepRefs(raw) /\ i = Position(played, id)
  BY <1>2, <1>3, <1>4, <1>5 DEF CheckedRefs, StepRefs, Field, Has
<1>7. id \in IdsIn(file.steps)
  <2>1. ~(CheckedRefs(raw) \subseteq IdsIn(file.steps)) => "unknown step" \in RuleProblems(file, raw)
    BY <1>2 DEF RuleProblems
  <2>2. QED BY <1>1, <1>6, <2>1
<1>8. i \in DOMAIN played.steps /\ played.steps[i].id = id
  <2>1. id \in PlayedIds(name, kind)
    BY <1>1, <1>6, <1>7 DEF ruleSteps
  <2>2. id \in IdsIn(played.steps)
    BY <2>1, StepsPlayed
  <2>3. QED BY <1>6, <2>2, PositionNames
<1>9. PICK step : step = played.steps[i]
  OBVIOUS
<1>10. step \in ToSet(file.steps) /\ step.id = id
  <2>1. step \in ToSet(played.steps)
    BY <1>8, <1>9 DEF ToSet
  <2>2. step \in ToSet(file.steps)
    BY <2>1, StepsPlayed
  <2>3. QED BY <1>8, <1>9, <2>2
<1>11. PICK appliesIn : appliesIn = Field(raw, "variants", IdsIn(file.variants))
  OBVIOUS
<1>12. variant.id \in appliesIn
  <2>1. played.variants = file.variants
    BY RulesPlayed
  <2>2. QED BY <1>1, <1>11, <2>1 DEF PlayedRule
<1>13. ScopeFits(raw, step, appliesIn)
  <2>1. ~ScopeFits(raw, step, appliesIn) => "scope" \in RuleProblems(file, raw)
    BY <1>2, <1>6, <1>10, <1>11 DEF RuleProblems
  <2>2. QED BY <1>1, <2>1
<1>14. QED BY <1>8, <1>9, <1>12, <1>13 DEF ScopeFits

\* A question that is scored can be answered right.
LEMMA AnswersOffered ==
    ASSUME NEW name \in Loaded, NEW kind \in Kinds, NEW file, file = Files[name],
           NEW played, played = FileOf(name, kind), NEW k \in DOMAIN file.rules,
           ruleSteps(file.rules[k], file.steps) \cap IdsIn(file.steps) \subseteq PlayedIds(name, kind),
           NEW variant, variant.id \in IdsIn(file.variants),
           NEW rule, rule = PlayedRule(played, file.rules[k], variant), variant.id \in rule.variants,
           rule.type = "correct_choice"
    PROVE  /\ rule.step \in DOMAIN played.steps /\ rule.correct # {}
           /\ rule.correct \subseteq IdsIn(stepOptions(played.steps[rule.step]))
<1>1. PICK raw : raw = file.rules[k]
  OBVIOUS
<1>2. played.variants = file.variants
  BY RulesPlayed
<1>3. /\ "step" \in DOMAIN raw.params /\ rule.correct # {}
      /\ raw.params["step"] \in IdsIn(file.steps)
      /\ \A m \in DOMAIN file.steps : file.steps[m].id = raw.params["step"] =>
            rule.correct \subseteq IdsIn(stepOptions(file.steps[m]))
  <2>1. AnswersIn(file.steps, file.rules[k], rule)
    BY <1>2, AnswersAreOptions
  <2>2. QED BY <1>1, <2>1 DEF AnswersIn
<1>4. PICK id : id = raw.params["step"]
  OBVIOUS
<1>5. PICK i : i = rule.step
  OBVIOUS
<1>6. i = Position(played, id)
  <2>1. i = Position(played, Field(raw.params, "step", None))
    BY <1>1, <1>5 DEF PlayedRule
  <2>2. Field(raw.params, "step", None) = id
    BY <1>3, <1>4 DEF Field, Has
  <2>3. QED BY <2>1, <2>2
<1>7. id \in IdsIn(played.steps)
  <2>1. id \in ruleSteps(raw, file.steps)
    BY <1>3, <1>4 DEF ruleSteps, StepRefs
  <2>2. QED BY <1>1, <1>3, <1>4, <2>1, StepsPlayed
<1>8. i \in DOMAIN played.steps /\ played.steps[i].id = id
  BY <1>6, <1>7, PositionNames
<1>9. played.steps[i] \in ToSet(file.steps)
  <2>1. played.steps[i] \in ToSet(played.steps)
    BY <1>8 DEF ToSet
  <2>2. QED BY <2>1, StepsPlayed
<1>10. PICK m \in DOMAIN file.steps : file.steps[m] = played.steps[i]
  BY <1>9 DEF ToSet
<1>11. rule.correct \subseteq IdsIn(stepOptions(played.steps[i]))
  BY <1>3, <1>4, <1>8, <1>10
<1>12. QED BY <1>3, <1>5, <1>8, <1>11

\* An act that is forbidden is offered.
LEMMA TagOffered ==
    ASSUME NEW name \in Loaded, NEW kind \in Kinds, NEW file, file = Files[name],
           NEW played, played = FileOf(name, kind), NEW k \in DOMAIN file.rules,
           ruleSteps(file.rules[k], file.steps) \cap IdsIn(file.steps) \subseteq PlayedIds(name, kind),
           file.rules[k].type = "no_forbidden", NEW variant
    PROVE  \E i \in DOMAIN played.steps :
              OffersTag(PlayedStep(played, played.steps[i], variant),
                        Field(file.rules[k].params, "tag", None))
<1>1. PICK raw : raw = file.rules[k]
  OBVIOUS
<1>2. PICK tag : tag = raw.params.tag
  OBVIOUS
<1>3. Tagged(file.steps, tag) # {} /\ Field(raw.params, "tag", None) = tag
  <2>1. "tag" \in DOMAIN raw.params /\ Tagged(file.steps, raw.params.tag) # {}
    BY <1>1, RuleScores
  <2>2. QED BY <1>2, <2>1 DEF Field, Has
<1>4. Tagged(file.steps, tag) \subseteq PlayedIds(name, kind)
  BY <1>1, <1>2, TaggedIn DEF ruleSteps
<1>5. PICK s \in ToSet(file.steps) : /\ s.id \in Tagged(file.steps, tag)
                                     /\ \E o \in ToSet(stepOptions(s)) : Field(o, "tag", None) = tag
  BY <1>3 DEF Tagged
<1>6. s \in ToSet(played.steps)
  BY <1>4, <1>5, StepsPlayed
<1>7. PICK i \in DOMAIN played.steps : played.steps[i] = s
  BY <1>6 DEF ToSet
<1>8. PICK n \in DOMAIN stepOptions(s) : Field(stepOptions(s)[n], "tag", None) = tag
  BY <1>5 DEF ToSet
<1>9. PICK options : options = PlayedStep(played, s, variant).options
  OBVIOUS
<1>10. options = Options(s, variant)
  BY <1>9 DEF PlayedStep
<1>11. n \in DOMAIN options /\ options[n].tag = tag
  BY <1>8, <1>10 DEF Options
<1>12. OffersTag(PlayedStep(played, s, variant), tag)
  BY <1>9, <1>11 DEF OffersTag
<1>13. QED BY <1>1, <1>3, <1>7, <1>12

\* An exit that the file has scanned is scanned in the refresher as well.
LEMMA ExitsScanned == ExitsAreScanned
<1> DEFINE Scanned(list, marker) ==
             \E s \in ToSet(list) : s.interaction = "find_marker" /\ Field(s.params, "marker", None) = marker
<1> SUFFICES ASSUME NEW name \in Loaded, NEW kind \in Kinds, NEW played, played = FileOf(name, kind),
                    NEW s \in ToSet(played.steps), Has(s.params, "exitBehind"),
                    Scanned(Files[name].steps, s.params.exitBehind.marker)
             PROVE  Scanned(played.steps, s.params.exitBehind.marker)
  BY DEF ExitsAreScanned
<1>1. PICK file, marker : file = Files[name] /\ marker = s.params.exitBehind.marker
  OBVIOUS
<1>2. CASE kind # "refresher"
  BY <1>2 DEF FileOf
<1>3. CASE kind = "refresher"
  <2>1. PICK kept : kept = KeptSteps(file) /\ PlayedIds(name, kind) = kept \cap IdsIn(file.steps)
    BY <1>1, <1>3 DEF PlayedIds
  <2>2. \A t : t \in ToSet(played.steps) <=> t \in ToSet(file.steps) /\ t.id \in kept
    <3>1. \A t \in ToSet(file.steps) : t.id \in IdsIn(file.steps)
      BY DEF IdsIn, ToSet
    <3>2. QED BY <1>1, <2>1, <3>1, StepsPlayed
  <2>3. PICK t \in ToSet(file.steps) : t.interaction = "find_marker" /\ Field(t.params, "marker", None) = marker
    BY <1>1
  <2>4. t.id \in stepNeeds(s, file.steps)
    BY <1>1, <2>3 DEF stepNeeds
  <2>6. Closed(kept, file.steps)
    BY <1>1, <2>1, KeptCloses
  <2>7. s \in ToSet(file.steps) /\ s.id \in kept
    BY <2>2
  <2>8. t.id \in kept
    BY <2>4, <2>6, <2>7 DEF Closed
  <2>9. QED BY <1>1, <2>2, <2>3, <2>8
<1>4. QED BY <1>2, <1>3

\* A refresher scores every critical rule.
LEMMA CriticalStay ==
    ASSUME NEW name \in Loaded, NEW kind \in Kinds, NEW v \in DOMAIN Scenario[name][kind],
           v \in DOMAIN Scenario[name]["training"]
    PROVE  {r.id : r \in {q \in Scenario[name][kind][v].rules : q.critical}} =
              {r.id : r \in {q \in Scenario[name]["training"][v].rules : q.critical}}
<1>1. PICK file : file = Files[name]
  OBVIOUS
<1> DEFINE CriticalIds(drill) == {r.id : r \in {q \in drill.rules : q.critical}}
<1>2. ASSUME NEW which \in Kinds, v \in DOMAIN Scenario[name][which]
      PROVE  CriticalIds(Scenario[name][which][v]) =
                {r.id : r \in {q \in ToSet(file.rules) : q.critical}}
  <2>1. PICK played : played = FileOf(name, which)
    OBVIOUS
  <2>2. PICK variant : variant = ById(played.variants, v)
    OBVIOUS
  <2>3. Scenario[name][which][v].rules = {PlayedRule(played, r, variant) : r \in ToSet(played.rules)}
    BY <1>2, <2>1, <2>2 DEF Scenario, Played
  <2>4. \A r : /\ PlayedRule(played, r, variant).id = r.id
               /\ PlayedRule(played, r, variant).critical = r.critical
    BY DEF PlayedRule
  <2>5. CriticalIds(Scenario[name][which][v]) = {r.id : r \in {q \in ToSet(played.rules) : q.critical}}
    BY <2>3, <2>4
  <2>6. {q \in ToSet(played.rules) : q.critical} = {q \in ToSet(file.rules) : q.critical}
    <3>1. PICK positions \in SUBSET DOMAIN file.rules :
             RulesAt(file, played, PlayedIds(name, which), positions)
      BY <1>1, <2>1, RulesPlayed
    <3>2. ToSet(file.rules) = {file.rules[k] : k \in DOMAIN file.rules}
      BY DEF ToSet
    <3>3. QED BY <3>1, <3>2 DEF RulesAt
  <2>7. QED BY <2>5, <2>6
<1>3. "training" \in Kinds
  BY DEF Kinds
<1>4. QED BY <1>2, <1>3

\* A file that loads can be played and scored as it says, in every variant, in full and as
\* a refresher (loadScenario, refresherScenario): LoadedIsPlayable.
THEOREM LoadedIsPlayableHolds == Spec => []LoadedIsPlayable
<1>1. IInv => LoadedIsPlayable
  <2> SUFFICES ASSUME IInv PROVE LoadedIsPlayable
    OBVIOUS
  <2>1. PICK name, kind, v : name = session.file /\ kind = session.kind /\ v = session.variant
    OBVIOUS
  <2>2. PICK script : script = ScenarioOf(session)
    OBVIOUS
  <2>3. /\ name \in Loaded /\ kind \in Kinds /\ v \in DOMAIN Scenario[name][kind]
        /\ script = Scenario[name][kind][v] /\ script.steps = Steps
    BY <2>1, <2>2 DEF IInv, Steps
  <2>4. PICK file, played : file = Files[name] /\ played = FileOf(name, kind)
    OBVIOUS
  <2>5. PICK variant : variant = ById(played.variants, v)
    OBVIOUS
  <2>6. v \in IdsIn(played.variants) /\ script = Played(played, variant)
    BY <2>3, <2>4, <2>5 DEF Scenario
  <2>7. variant.id = v
    <3>1. PICK k \in DOMAIN played.variants : played.variants[k].id = v
      BY <2>6 DEF IdsIn
    <3>2. QED BY <2>5, <3>1 DEF ById
  <2>8. /\ DOMAIN Steps = DOMAIN played.steps
        /\ \A i \in DOMAIN Steps : Steps[i] = PlayedStep(played, played.steps[i], variant)
        /\ script.rules = {PlayedRule(played, r, variant) : r \in ToSet(played.rules)}
    BY <2>3, <2>6 DEF Played
  <2>9. PICK positions \in SUBSET DOMAIN file.rules :
           RulesAt(file, played, PlayedIds(name, kind), positions)
    BY <2>3, <2>4, RulesPlayed
  <2>10. v \in IdsIn(file.variants)
    BY <2>3, <2>4, <2>6, RulesPlayed
  <2>11. ASSUME NEW rule \in Scored(script, v)
         PROVE  /\ \A i \in ScoredSteps(rule) : i \in DOMAIN Steps /\ Steps[i].runs
                /\ rule.type = "correct_choice" =>
                      rule.correct # {} /\ rule.correct \subseteq OptionIds(Steps[rule.step])
                /\ rule.type = "no_forbidden" => \E i \in DOMAIN Steps : OffersTag(Steps[i], rule.tag)
    <3>1. rule \in script.rules /\ v \in rule.variants
      BY <2>11 DEF Scored, RuleRunsIn
    <3>2. PICK k \in positions : rule = PlayedRule(played, file.rules[k], variant)
      BY <2>8, <2>9, <3>1 DEF RulesAt
    <3>3. /\ k \in DOMAIN file.rules
          /\ ruleSteps(file.rules[k], file.steps) \cap IdsIn(file.steps) \subseteq PlayedIds(name, kind)
      BY <2>9 DEF RulesAt
    <3>4. ASSUME NEW i \in ScoredSteps(rule) PROVE i \in DOMAIN Steps /\ Steps[i].runs
      <4>1. i \in DOMAIN played.steps /\ stepRunsIn(played.steps[i], variant.id)
        BY <2>3, <2>4, <2>7, <3>1, <3>2, <3>3, ScoredRuns
      <4>2. Steps[i].runs = stepRunsIn(played.steps[i], variant.id)
        <5>1. Steps[i] = PlayedStep(played, played.steps[i], variant)
          BY <2>8, <4>1
        <5>2. PlayedStep(played, played.steps[i], variant).runs = stepRunsIn(played.steps[i], variant.id)
          BY PlayedAs
        <5>3. QED BY <5>1, <5>2
      <4>3. QED BY <2>8, <4>1, <4>2
    <3>5. ASSUME rule.type = "correct_choice"
          PROVE  rule.correct # {} /\ rule.correct \subseteq OptionIds(Steps[rule.step])
      <4>1. PICK i : i = rule.step
        OBVIOUS
      <4>2. /\ i \in DOMAIN played.steps /\ rule.correct # {}
            /\ rule.correct \subseteq IdsIn(stepOptions(played.steps[i]))
        BY <2>3, <2>4, <2>7, <2>10, <3>1, <3>2, <3>3, <3>5, <4>1, AnswersOffered
      <4>3. Steps[i].options = Options(played.steps[i], variant)
        BY <2>8, <4>2, PlayedAs
      <4>4. OptionIds(Steps[i]) = IdsIn(stepOptions(played.steps[i]))
        BY <4>3 DEF OptionIds, IdsIn, Options
      <4>5. QED BY <4>1, <4>2, <4>4
    <3>6. ASSUME rule.type = "no_forbidden"
          PROVE  \E i \in DOMAIN Steps : OffersTag(Steps[i], rule.tag)
      <4>1. /\ file.rules[k].type = "no_forbidden"
            /\ rule.tag = Field(file.rules[k].params, "tag", None)
        BY <3>2, <3>6 DEF PlayedRule
      <4>2. \E i \in DOMAIN played.steps :
               OffersTag(PlayedStep(played, played.steps[i], variant), rule.tag)
        BY <2>3, <2>4, <3>3, <4>1, TagOffered
      <4>3. QED BY <2>8, <4>2
    <3>7. QED BY <3>4, <3>5, <3>6
  <2>12. ASSUME NEW i \in DOMAIN Steps, Steps[i].interaction = "operate_extinguisher"
         PROVE  Steps[i].agentFrom \in 1..i - 1
    BY <2>3, <2>12, AgentIsEarlier
  <2>13. {r.id : r \in {q \in script.rules : q.critical}} =
            {r.id : r \in {q \in Scenario[name]["training"][v].rules : q.critical}}
    <3>1. v \in DOMAIN Scenario[name]["training"]
      <4>1. FileOf(name, "training") = file /\ "training" \in Kinds
        BY <2>4 DEF FileOf, Kinds
      <4>2. QED BY <2>3, <2>10, <4>1 DEF Scenario
    <3>2. QED BY <2>3, <3>1, CriticalStay
  <2>14. QED BY <2>1, <2>2, <2>11, <2>12, <2>13, ExitsScanned DEF LoadedIsPlayable
<1>2. QED BY <1>1, IInvHolds, PTL
=============================================================================
