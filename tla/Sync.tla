-------------------------------- MODULE Sync --------------------------------
(***************************************************************************)
(* POST /v1/sync: what ingest does with the batches that phones send, each *)
(* batch in one READ COMMITTED transaction.  An item is read, decided and  *)
(* flushed before the next; the flush takes the lock of the row it writes  *)
(* and waits for another transaction that has it.                          *)
(*                                                                         *)
(* The mapper updates only the columns whose value differs from the row    *)
(* that was read.  An INSERT of a key that is there by then fails, and the *)
(* error takes the whole batch with it.                                    *)
(*                                                                         *)
(* The phone may send any batch at any time, the same one again included.  *)
(***************************************************************************)
EXTENDS Ledger

CONSTANTS Requests,   \* requests that may be sent, numbered in the order in which they arrive
          Batches,    \* what they may hold: [site, items]
          WorkerIds, RecordIds

Ids == WorkerIds \cup RecordIds

SentItems == UNION {{b.items[k] : k \in DOMAIN b.items} : b \in Batches}

WorkerItems == {i \in SentItems : i.kind = "worker"}
RecordItems == SentItems \ WorkerItems

\* The columns of a row may come from different copies of a worker.
WorkerRowType ==
    [site : {i.site : i \in WorkerItems}, displayName : {i.displayName : i \in WorkerItems},
     preferredLang : {i.preferredLang : i \in WorkerItems},
     updatedAt : {i.updatedAt : i \in WorkerItems}]

RecordRowType == {RecordRow(i) : i \in RecordItems}

ASSUME RequestsAssumption == Requests \subseteq Nat /\ None \notin Requests

ASSUME NoneAssumption ==
    /\ None \notin Batches
    /\ None \notin WorkerRowType
    /\ None \notin RecordRowType

\* Ids of workers and of records differ, and so do those of the two kinds of record.
ASSUME ItemsAssumption ==
    /\ WorkerIds \cap RecordIds = {}
    /\ \A b \in Batches : b.items \in Seq(SentItems)
    /\ \A i \in SentItems :
          /\ i.flaw \notin {"accepted", "missing_worker"}
          /\ IF i.kind = "worker" THEN i.id \in WorkerIds /\ i.updatedAt \in Int
             ELSE i.id \in RecordIds /\ i.worker \in WorkerIds

\* A flaw is found in an item each time it is sent, unless it is one that passes.
ASSUME FlawAssumption ==
    /\ None \notin {"unknown_scenario", "invalid_certificate"}
    /\ \A i, j \in SentItems :
          Same(i, j) => i.flaw = j.flaw \/ {i.flaw, j.flaw} \cap Passing(i.kind) # {}

\* The token of a certificate names its site.
ASSUME TokenAssumption ==
    \A i, j \in SentItems :
       i.kind = "certificate" /\ i.id = j.id /\ i.content = j.content
       => j.kind = "certificate" /\ i.site = j.site

VARIABLES table,   \* committed rows
          lock,    \* the transaction that has written a row and not ended
          draft,   \* what it has written
          pc,
          batch,   \* of a request that has begun
          answers, \* one code for each item that has been decided
          write,   \* the row that the flush of the current item writes
          overlapped  \* history: requests that were in flight together with another

vars == <<table, lock, draft, pc, batch, answers, write, overlapped>>

InFlight == {"item", "parent", "flush", "commit"}

Init ==
    /\ table = [id \in Ids |-> None]
    /\ lock = [id \in Ids |-> None]
    /\ draft = [id \in Ids |-> None]
    /\ pc = [r \in Requests |-> "idle"]
    /\ batch = [r \in Requests |-> None]
    /\ answers = [r \in Requests |-> <<>>]
    /\ write = [r \in Requests |-> None]
    /\ overlapped = {}

-----------------------------------------------------------------------------
Active(r) == pc[r] \in InFlight

ActiveRequests == {r \in Requests : Active(r)}

Item(r) == batch[r].items[Len(answers[r]) + 1]

\* Mutants: a worker counts before it is committed; the transaction does not see its own
\* rows; any copy of a worker is newer; a record is never in conflict; a certificate of any site is
\* taken; a rejected item ends its batch; a lock outlives its transaction.
ParentUncommitted(r) ==
    LET id == Item(r).worker IN IF lock[id] # None THEN draft[id] ELSE table[id]
RowCommitted(r, id) == table[id]
AlwaysNewer(i, row) == TRUE
NeverConflicts(i, row) == FALSE
FitsAnySite(i, worker) == TRUE
AnswerOrStop(r, code) ==
    /\ answers' = [answers EXCEPT ![r] = Append(@, code)]
    /\ pc' = [pc EXCEPT ![r] = IF code # "accepted" \/ Len(answers'[r]) = Len(batch[r].items)
                               THEN "commit" ELSE "item"]
KeepLocks(r) == UNCHANGED <<lock, draft>>

\* session.get: committed rows and the transaction's own writes.
Row(r, id) == IF lock[id] = r THEN draft[id] ELSE table[id]

Parent(r) == Row(r, Item(r).worker)

Newer(i, row) == i.updatedAt > row.updatedAt

Conflicts(i, row) == row # RecordRow(i)

FitsSite(i, worker) == i.kind = "certificate" => i.site = worker.site

\* The attributes that a newer copy really changes.
Changed(i, row) ==
    LET new == WorkerRow(i)
    IN  [column \in {c \in DOMAIN new : new[c] # row[c]} |-> new[column]]

Overwrite(row, columns) ==
    [c \in DOMAIN row |-> IF c \in DOMAIN columns THEN columns[c] ELSE row[c]]

-----------------------------------------------------------------------------
(* Steps of a request *)

Begin(r) ==
    /\ pc[r] = "idle"
    /\ \A s \in Requests : s < r => pc[s] # "idle"
    /\ \E b \in Batches :
          /\ batch' = [batch EXCEPT ![r] = b]
          /\ pc' = [pc EXCEPT ![r] = IF b.items = <<>> THEN "commit" ELSE "item"]
    /\ overlapped' = overlapped \cup
                       (IF ActiveRequests = {} THEN {} ELSE ActiveRequests \cup {r})
    /\ UNCHANGED <<table, lock, draft, answers, write>>

\* The item is decided and, if it writes, flushed; on to the next one.
Answer(r, code) ==
    /\ answers' = [answers EXCEPT ![r] = Append(@, code)]
    /\ pc' = [pc EXCEPT ![r] = IF Len(answers'[r]) = Len(batch[r].items)
                               THEN "commit" ELSE "item"]

Reject(r, code) == Answer(r, code) /\ UNCHANGED write

WriteNext(r, kind, columns) ==
    /\ write' = [write EXCEPT ![r] = [kind |-> kind, columns |-> columns]]
    /\ pc' = [pc EXCEPT ![r] = "flush"]
    /\ UNCHANGED answers

DecideWorker(r, i, row) ==
    IF i.site # batch[r].site THEN Reject(r, "invalid_payload")
    ELSE IF row = None THEN WriteNext(r, "insert", WorkerRow(i))
    ELSE IF row.site # batch[r].site THEN Reject(r, "invalid_payload")
    ELSE IF Newer(i, row) THEN WriteNext(r, "update", Changed(i, row))
    ELSE Answer(r, "accepted") /\ UNCHANGED write

\* The item's own row is read ...
ReadItem(r) ==
    /\ pc[r] = "item"
    /\ LET i == Item(r)
           row == Row(r, i.id)
       IN  \/ /\ i.flaw # None
              /\ Reject(r, i.flaw)
           \/ /\ i.flaw = None /\ i.kind = "worker"
              /\ DecideWorker(r, i, row)
           \/ /\ i.flaw = None /\ i.kind # "worker" /\ row # None
              /\ Answer(r, IF Conflicts(i, row) THEN "conflict_immutable" ELSE "accepted")
              /\ UNCHANGED write
           \/ /\ i.flaw = None /\ i.kind # "worker" /\ row = None
              /\ pc' = [pc EXCEPT ![r] = "parent"]
              /\ UNCHANGED <<answers, write>>
    /\ UNCHANGED <<table, lock, draft, batch, overlapped>>

\* ... and, for a new record, its worker's and that worker's site.
ReadParent(r) ==
    /\ pc[r] = "parent"
    /\ LET i == Item(r)
           worker == Parent(r)
       IN  IF worker = None THEN Reject(r, "missing_worker")
           ELSE IF ~FitsSite(i, worker) THEN Reject(r, "invalid_certificate")
           ELSE WriteNext(r, "insert", RecordRow(i))
    /\ UNCHANGED <<table, lock, draft, batch, overlapped>>

\* The key was not there when it was read and is there now.
DuplicateKey(r) ==
    /\ pc[r] = "flush"
    /\ write[r].kind = "insert"
    /\ LET id == Item(r).id
       IN  lock[id] = r \/ (lock[id] = None /\ table[id] # None)

\* An UPDATE that had to wait goes on with the row as it is then.
Flush(r) ==
    /\ pc[r] = "flush"
    /\ ~DuplicateKey(r)
    /\ LET id == Item(r).id
       IN  /\ lock[id] \in {None, r}
           /\ lock' = [lock EXCEPT ![id] = r]
           /\ draft' = [draft EXCEPT ![id] =
                           IF write[r].kind = "insert" THEN write[r].columns
                           ELSE Overwrite(Row(r, id), write[r].columns)]
    /\ write' = [write EXCEPT ![r] = None]
    /\ Answer(r, "accepted")
    /\ UNCHANGED <<table, batch, overlapped>>

\* Ending a transaction, either way, unlocks its rows.
Release(r) ==
    /\ lock' = [id \in Ids |-> IF lock[id] = r THEN None ELSE lock[id]]
    /\ draft' = [id \in Ids |-> IF lock[id] = r THEN None ELSE draft[id]]

End(r, step) ==
    /\ Release(r)
    /\ write' = [write EXCEPT ![r] = None]
    /\ pc' = [pc EXCEPT ![r] = step]
    /\ UNCHANGED <<batch, overlapped>>

\* The phone may never see the answer.
Commit(r) ==
    /\ pc[r] = "commit"
    /\ table' = [id \in Ids |-> IF lock[id] = r THEN draft[id] ELSE table[id]]
    /\ End(r, "done")
    /\ UNCHANGED answers

Rollback(r) ==
    /\ End(r, "failed")
    /\ answers' = [answers EXCEPT ![r] = <<>>]
    /\ UNCHANGED table

\* IntegrityError is not Rejected, so it leaves ingest and becomes a 500.
FailOnDuplicate(r) == DuplicateKey(r) /\ Rollback(r)

\* The connection or the server goes away.
Crash(r) == Active(r) /\ Rollback(r)

Waits(r, s) == pc[r] = "flush" /\ r # s /\ lock[Item(r).id] = s

\* The database ends one of the transactions that wait for each other.
BreakDeadlock(r) ==
    /\ \E circle \in SUBSET Requests :
          r \in circle /\ \A a \in circle : \E b \in circle : Waits(a, b)
    /\ Rollback(r)

Step(r) ==
    \/ ReadItem(r) \/ ReadParent(r) \/ Flush(r) \/ FailOnDuplicate(r) \/ Commit(r)
    \/ BreakDeadlock(r)

Next == \E r \in Requests : Begin(r) \/ Step(r) \/ Crash(r)

Spec == Init /\ [][Next]_vars

\* The server and the database go on with what they have accepted.
FairSpec == Spec /\ \A r \in Requests : WF_vars(Step(r))

-----------------------------------------------------------------------------
(* Properties *)

WorkerRows == {WorkerRow(i) : i \in WorkerItems}

AnswerCodes ==
    {"accepted", "missing_worker", "invalid_payload", "invalid_certificate", "conflict_immutable"}
    \cup {i.flaw : i \in SentItems}

RowType(id) == IF id \in WorkerIds THEN WorkerRowType ELSE RecordRowType

TypeOK ==
    /\ DOMAIN table = Ids /\ DOMAIN draft = Ids
    /\ \A id \in Ids : {table[id], draft[id]} \subseteq RowType(id) \cup {None}
    /\ lock \in [Ids -> Requests \cup {None}]
    /\ pc \in [Requests -> InFlight \cup {"idle", "done", "failed"}]
    /\ batch \in [Requests -> Batches \cup {None}]
    /\ DOMAIN answers = Requests /\ DOMAIN write = Requests
    /\ overlapped \subseteq Requests

\* A request is at an item of its batch until all of them are answered; one that
\* failed has answered nothing.
Progress ==
    \A r \in Requests :
       /\ pc[r] \in {"idle", "failed"} => answers[r] = <<>>
       /\ pc[r] # "idle" => batch[r] \in Batches
       /\ Active(r) \/ pc[r] = "done" =>
            /\ answers[r] \in Seq(AnswerCodes)
            /\ Len(answers[r]) <= Len(batch[r].items)
            /\ (Len(answers[r]) < Len(batch[r].items)) = (pc[r] \in {"item", "parent", "flush"})

\* A draft belongs to a request in flight.  It adds a record, or adds or changes a worker
\* of the request's site.
Drafts ==
    \A id \in Ids :
       /\ (lock[id] = None) = (draft[id] = None)
       /\ lock[id] # None =>
            /\ Active(lock[id])
            /\ id \in RecordIds => table[id] = None
            /\ id \in WorkerIds =>
                 /\ draft[id].site = batch[lock[id]].site
                 /\ table[id] # None => table[id].site = draft[id].site

OverlapIsRecorded ==
    \A r, s \in Requests : Active(r) /\ Active(s) /\ r # s => r \in overlapped

\* A worker whom the record can be of: a certificate's token names the site.
WorkerOf(i, row) == row # None /\ (i.kind = "certificate" => row.site = i.site)

\* What the reads of the current item found still stands when it is flushed: a row that
\* was there stays, and one that was not is missing still unless requests overlapped.
IsDue(r) ==
    LET i == Item(r)
        missing == lock[i.id] # r /\ (r \notin overlapped => table[i.id] = None)
    IN  /\ i.flaw = None
        /\ pc[r] = "parent" => i.kind # "worker" /\ missing
        /\ pc[r] = "flush" /\ i.kind = "worker" => i.site = batch[r].site
        /\ pc[r] = "flush" /\ i.kind # "worker" =>
             write[r].kind = "insert" /\ WorkerOf(i, Row(r, i.worker))
        /\ pc[r] = "flush" /\ write[r].kind = "insert" =>
             write[r].columns = RowOf(i) /\ missing
        /\ pc[r] = "flush" /\ write[r].kind # "insert" =>
             /\ write[r].kind = "update"
             /\ Row(r, i.id) # None
             /\ Row(r, i.id).site = i.site
             /\ DOMAIN write[r].columns \subseteq DOMAIN WorkerRow(i)
             /\ \A c \in DOMAIN write[r].columns : write[r].columns[c] = WorkerRow(i)[c]
             /\ r \notin overlapped =>
                  Newer(i, Row(r, i.id)) /\ write[r].columns = Changed(i, Row(r, i.id))

WriteIsDue == \A r \in Requests : pc[r] \in {"parent", "flush"} => IsDue(r)

Comes(id, row, worker) ==
    row # None => \E i \in RecordItems :
                     i.id = id /\ RecordRow(i) = row /\ WorkerOf(i, worker[i.worker])

\* A record is there only after its worker, committed or in one draft.
NoOrphans ==
    \A id \in RecordIds :
       /\ Comes(id, table[id], table)
       /\ Comes(id, draft[id], [w \in WorkerIds |-> Row(lock[id], w)])

Stands(r, i) ==
    /\ Row(r, i.id) # None
    /\ i.kind = "worker" => i.site = batch[r].site /\ Row(r, i.id).site = batch[r].site
    /\ i.kind # "worker" => Row(r, i.id) = RecordRow(i) /\ WorkerOf(i, Row(r, i.worker))

Refused(r, i) ==
    \/ i.flaw # None
    \/ i.kind = "worker" /\ i.site # batch[r].site
    \/ i.kind = "worker" /\ Row(r, i.id) # None /\ Row(r, i.id).site # batch[r].site
    \/ i.kind # "worker" /\ Row(r, i.id) # None /\ Row(r, i.id) # RecordRow(i)
    \/ i.kind # "worker" /\ Row(r, i.worker) # None /\ ~WorkerOf(i, Row(r, i.worker))

AnswerStands(r, k) ==
    LET i == batch[r].items[k]
    IN  IF answers[r][k] = "accepted" THEN i.flaw = None /\ Stands(r, i)
        ELSE Retryable(answers[r][k]) \/ Refused(r, i)

\* An answer, once given, is true of what the request sees as long as it runs and of
\* what is stored when it is done.
AnswersStand == \A r \in Requests : \A k \in DOMAIN answers[r] : AnswerStands(r, k)

\* A request that met no other has changed workers to newer copies only, as they were sent.
SoloDrafts ==
    \A id \in WorkerIds :
       lock[id] # None /\ lock[id] \notin overlapped =>
         /\ draft[id] \in WorkerRows
         /\ table[id] # None => draft[id].updatedAt > table[id].updatedAt

\* A batch fails on a duplicate key only if it overlapped with another.
DuplicatesOnlyInOverlap == \A r \in Requests : DuplicateKey(r) => r \in overlapped

\* What is to hold together at every step of every request, so that its answers are true
\* when it ends: the types, what it has read and not yet used, what it has written and
\* not committed, no record without its worker, no failure of a batch that met no other.
IInv ==
    /\ TypeOK /\ Progress /\ Drafts /\ OverlapIsRecorded
    /\ WriteIsDue /\ NoOrphans /\ AnswersStand /\ SoloDrafts /\ DuplicatesOnlyInOverlap

Accepted(r, k) == pc[r] = "done" /\ k \in DOMAIN answers[r] /\ answers[r][k] = "accepted"

\* What the phone was told is stored is stored, and stays so for records, whatever
\* other batches do and however they end: the phone may forget that it has to send it.
AcceptedIsStored ==
    \A r \in Requests : \A k \in DOMAIN answers[r] :
       Accepted(r, k) =>
         LET i == batch[r].items[k]
         IN  /\ table[i.id] # None
             /\ i.kind # "worker" => table[i.id] = RecordRow(i)
             /\ i.kind = "certificate" => i.site = table[i.worker].site

\* A batch that was alone is answered, and changes the table, as docs/05 says, item by
\* item, whether or not it or another one was sent or broken off before.
SoloBatchIsSequential ==
    [][\A r \in Requests :
          pc[r] = "commit" /\ pc'[r] = "done" /\ r \notin overlapped =>
            LET ledger == Ingest(table, batch[r].site, batch[r].items)
            IN  table' = ledger.table /\ answers[r] = ledger.answers]_vars

\* Only an overlap can take a worker back to an older copy or to one nobody sent.
OnlyOverlapLosesEdits ==
    [][\A id \in WorkerIds :
          table[id] # None /\ table'[id] # table[id] =>
             \/ table'[id].updatedAt > table[id].updatedAt /\ table'[id] \in WorkerRows
             \/ \E r \in overlapped : pc[r] = "commit" /\ pc'[r] = "done"]_vars

\* Ingest told the phone not to send the item again, and took it from another request of the
\* site.
GivenUpButTaken(r, k, s, l) ==
    /\ pc[r] = "done" /\ answers[r][k] # "accepted" /\ ~Retryable(answers[r][k])
    /\ Accepted(s, l)
    /\ batch[r].site = batch[s].site /\ Same(batch[r].items[k], batch[s].items[l])

\* A rejection that is not retryable was right as far as the stored rows go: nobody at the
\* site gets the item accepted, before or after, in whatever order and overlap, unless the
\* catalog or the server's clock made it pass.
OnlyPassingFlawsPass ==
    \A r, s \in Requests : \A k \in DOMAIN answers[r] : \A l \in DOMAIN answers[s] :
       GivenUpButTaken(r, k, s, l) =>
         batch[r].items[k].flaw \in Passing(batch[r].items[k].kind)

\* Every batch is answered or fails, even when batches wait for each other's rows.
BatchesEnd == \A r \in Requests : Active(r) ~> pc[r] \in {"done", "failed"}

\* docs/05: the worker's newest copy that was accepted wins.  Not in an overlap.
LastWriteWins ==
    \A id \in WorkerIds :
       LET Copies(r) == {batch[r].items[k] : k \in {n \in DOMAIN answers[r] :
                            Accepted(r, n) /\ batch[r].items[n].id = id}}
           copies == UNION {Copies(r) : r \in Requests}
       IN  copies # {} => \E i \in copies :
                             /\ \A j \in copies : j.updatedAt <= i.updatedAt
                             /\ table[id] = WorkerRow(i)
=============================================================================
