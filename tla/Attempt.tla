------------------------------ MODULE Attempt ------------------------------
(***************************************************************************)
(* What an attempt at a drill promises to whoever reads it later: the app's *)
(* result, the certificate that rests on it, the server that rechecks it.  *)
(* How steps are answered is left open; TrainingRun implements it.         *)
(***************************************************************************)
EXTENDS Integers, Sequences

VARIABLES log,   \* entries, each with the step it belongs to
          at,    \* the step that is being answered
          over,
          kept   \* the logs that were stored

vars == <<log, at, over, kept>>

\* Over at once if no step runs in the variant.
Init ==
    /\ over \/ (log # <<>> /\ at = log[Len(log)].step)
    /\ kept = <<>>

\* The log only grows, by entries of the step that is answered and, if that is left,
\* of the steps up to the next one.
Grows ==
    /\ Len(log') > Len(log)
    /\ SubSeq(log', 1, Len(log)) = log
    /\ \A k \in Len(log) + 1 .. Len(log') : log'[k].step \in at .. at'

Answer == ~over /\ Grows /\ at' = at /\ ~over' /\ kept' = kept

Leave == ~over /\ Grows /\ at' > at /\ ~over' /\ kept' = kept

Finish == ~over /\ Grows /\ at' >= at /\ over' /\ kept' = kept

Store == over /\ kept = <<>> /\ kept' = <<log>> /\ UNCHANGED <<log, at, over>>

Next == Answer \/ Leave \/ Finish \/ Store

Spec == Init /\ [][Next]_vars
=============================================================================
