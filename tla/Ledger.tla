------------------------------- MODULE Ledger -------------------------------
(***************************************************************************)
(* What POST /v1/sync promises, item by item: the server as a table that   *)
(* one batch at a time is applied to.  Sync is the server as it is.        *)
(*                                                                         *)
(* The table holds the workers and the kept records, which are attempts    *)
(* and certificates; ids of different kinds differ.  An item's flaw is the *)
(* code of the checks that do not look at the table: its form, its         *)
(* scenario in the deployed catalog, its token by the server's clock.  It  *)
(* is what they find when the batch is handled, so the same item may be    *)
(* sent with a flaw and without.  employee_code is one more column like    *)
(* display_name, and deletedAt is dropped.                                 *)
(***************************************************************************)
EXTENDS Integers, SequencesExt

CONSTANT None  \* no row, no flaw

WorkerRow(i) == [site |-> i.site, displayName |-> i.displayName,
                 preferredLang |-> i.preferredLang, updatedAt |-> i.updatedAt]

\* Stored exactly as sent; a certificate's site is part of its token.
RecordRow(i) == [worker |-> i.worker, content |-> i.content]

RowOf(i) == IF i.kind = "worker" THEN WorkerRow(i) ELSE RecordRow(i)

\* The same item, sent again.
Same(i, j) == i.kind = j.kind /\ i.id = j.id /\ i.site = j.site /\ RowOf(i) = RowOf(j)

\* A scenario may be deployed later, or no longer; a token from a phone whose clock is ahead
\* is taken when the server's clock comes up to it.
Passing(kind) ==
    CASE kind = "attempt" -> {"unknown_scenario"}
      [] kind = "certificate" -> {"invalid_certificate"}
      [] OTHER -> {}

\* Mutant: no rejection is marked retryable.
NothingRetryable(code) == FALSE

Retryable(code) == code = "missing_worker"

\* A worker item is for the site of the phone that sends it, and that of the worker.
WrongSite(table, site, i) == i.site # site \/ (table[i.id] # None /\ table[i.id].site # site)

\* The answer to one item, in the order of the checks of docs/05.
Verdict(table, site, i) ==
    CASE i.flaw # None -> i.flaw
      [] i.flaw = None /\ i.kind = "worker" ->
           IF WrongSite(table, site, i) THEN "invalid_payload" ELSE "accepted"
      [] i.flaw = None /\ i.kind # "worker" /\ table[i.id] # None ->
           IF table[i.id] = RecordRow(i) THEN "accepted" ELSE "conflict_immutable"
      [] OTHER ->
           IF table[i.worker] = None THEN "missing_worker"
           ELSE IF i.kind = "certificate" /\ i.site # table[i.worker].site
           THEN "invalid_certificate" ELSE "accepted"

\* A new row is stored, and so is a newer copy of a worker.
Stores(table, i) ==
    \/ table[i.id] = None
    \/ i.kind = "worker" /\ i.updatedAt > table[i.id].updatedAt

Apply(site, state, i) ==
    LET code == Verdict(state.table, site, i)
    IN  [table |-> IF code = "accepted" /\ Stores(state.table, i)
                   THEN [state.table EXCEPT ![i.id] = RowOf(i)] ELSE state.table,
         answers |-> Append(state.answers, code)]

\* The table and the answers after a batch.
Ingest(table, site, items) ==
    FoldLeft(LAMBDA state, i : Apply(site, state, i), [table |-> table, answers |-> <<>>], items)
=============================================================================
