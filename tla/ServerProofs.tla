---------------------------- MODULE ServerProofs ----------------------------
(***************************************************************************)
(* Sync ingest for any number of requests and any batches, and the         *)
(* dashboard's views of what it stores for any rows, callers and page      *)
(* size.                                                                   *)
(*                                                                         *)
(* The views take from ingest that a row that is committed stays, a worker *)
(* with its site and a record as it is, so a scope only grows while a view *)
(* puts its reads together.                                                *)
(***************************************************************************)
EXTENDS AdminViews, LedgerProofs

-----------------------------------------------------------------------------
(* Rows *)

\* Writing columns of a copy of a worker keeps the row's type and, unless the copy has
\* another site, its site.
LEMMA OverwriteType ==
    ASSUME NEW row \in WorkerRowType, NEW i \in WorkerItems, NEW columns,
           DOMAIN columns \subseteq DOMAIN WorkerRow(i),
           \A c \in DOMAIN columns : columns[c] = WorkerRow(i)[c]
    PROVE  /\ Overwrite(row, columns) \in WorkerRowType
           /\ row.site = i.site => Overwrite(row, columns).site = row.site
<1>1. DOMAIN WorkerRow(i) = {"site", "displayName", "preferredLang", "updatedAt"}
  BY DEF WorkerRow
<1>2. DOMAIN row = {"site", "displayName", "preferredLang", "updatedAt"}
  BY DEF WorkerRowType
<1>3. WorkerRow(i) \in WorkerRowType
  BY DEF WorkerRow, WorkerRowType
<1>4. QED BY <1>1, <1>2, <1>3 DEF Overwrite, WorkerRowType, WorkerRow

\* Only the columns that differ are written, but the row is then the copy that was sent.
LEMMA ChangedApplied ==
    ASSUME NEW row \in WorkerRowType, NEW i \in WorkerItems
    PROVE  /\ Overwrite(row, Changed(i, row)) = WorkerRow(i)
           /\ DOMAIN Changed(i, row) \subseteq DOMAIN WorkerRow(i)
           /\ \A c \in DOMAIN Changed(i, row) : Changed(i, row)[c] = WorkerRow(i)[c]
BY DEF Overwrite, Changed, WorkerRow, WorkerRowType

\* The row of an item has the type of its id, and is not missing.
LEMMA RowOfType ==
    ASSUME NEW i \in SentItems
    PROVE  /\ i.id \in Ids
           /\ RowOf(i) \in RowType(i.id) /\ RowOf(i) # None
           /\ i.kind = "worker" <=> i.id \in WorkerIds
           /\ i.kind = "worker" <=> i \in WorkerItems
           /\ i.kind # "worker" <=> i.id \in RecordIds
           /\ i.kind # "worker" => i.worker \in WorkerIds /\ i.worker \in Ids
           /\ i.kind = "worker" => RowOf(i) = WorkerRow(i) /\ i.updatedAt \in Int
           /\ i.kind # "worker" => RowOf(i) = RecordRow(i)
<1>1. i.kind = "worker" => WorkerRow(i) \in WorkerRowType
  BY DEF WorkerRow, WorkerRowType, WorkerItems
<1>2. i.kind # "worker" => RecordRow(i) \in RecordRowType
  BY DEF RecordRowType, RecordItems, WorkerItems
<1>3. QED BY <1>1, <1>2, ItemsAssumption, NoneAssumption DEF RowOf, RowType, Ids, WorkerItems

\* What a transaction sees is a row of the id's type.
LEMMA RowTyped ==
    ASSUME TypeOK, NEW r \in Requests, NEW id \in Ids
    PROVE  Row(r, id) \in RowType(id) \cup {None}
BY DEF TypeOK, Row

\* The current item is one of the batch.
LEMMA ItemSent ==
    ASSUME TypeOK, Progress, NEW r \in Requests, pc[r] \in {"item", "parent", "flush"}
    PROVE  /\ Item(r) \in SentItems
           /\ batch[r] \in Batches
           /\ batch[r].items \in Seq(SentItems)
           /\ Len(answers[r]) + 1 \in DOMAIN batch[r].items
<1>1. Active(r) /\ pc[r] # "idle"
  BY DEF Active, InFlight
<1>2. batch[r] \in Batches /\ batch[r].items \in Seq(SentItems)
  BY <1>1, ItemsAssumption DEF Progress
<1>3. Len(answers[r]) + 1 \in DOMAIN batch[r].items
  BY <1>1, <1>2 DEF Progress
<1>4. QED BY <1>2, <1>3 DEF Item

\* An answered item is one of its batch: what was answered of it is still known.
LEMMA AnsweredSent ==
    ASSUME TypeOK, Progress, NEW r \in Requests, NEW k \in DOMAIN answers[r]
    PROVE  batch[r] \in Batches /\ batch[r].items[k] \in SentItems
<1>1. pc[r] \notin {"idle", "failed"}
  BY DEF Progress
<1>2. Active(r) \/ pc[r] = "done"
  BY <1>1 DEF TypeOK, Active
<1>3. batch[r] \in Batches /\ batch[r].items \in Seq(SentItems)
  BY <1>1, ItemsAssumption DEF Progress
<1>4. QED BY <1>2, <1>3 DEF Progress

-----------------------------------------------------------------------------
(* What a request has seen stays *)

Kept(r) ==
    \A id \in Ids : Row(r, id) # None =>
       /\ Row(r, id)' # None
       /\ id \in RecordIds => Row(r, id)' = Row(r, id)
       /\ id \in WorkerIds => Row(r, id)'.site = Row(r, id).site

\* A flush takes nothing away from what any transaction sees.
LEMMA FlushKeeps ==
    ASSUME IInv, NEW r \in Requests, Flush(r), NEW i, i = Item(r)
    PROVE  /\ \A s \in Requests : Kept(s)
           /\ \A s \in Requests \ {r} : \A id \in Ids : Row(s, id)' = Row(s, id)
           /\ \A id \in Ids \ {i.id} : Row(r, id)' = Row(r, id)
           /\ Row(r, i.id)' \in RowType(i.id)
           /\ i.kind = "worker" => Row(r, i.id)'.site = batch[r].site
           /\ i.kind # "worker" => Row(r, i.id)' = RecordRow(i)
<1> DEFINE new == IF write[r].kind = "insert" THEN write[r].columns
                          ELSE Overwrite(Row(r, i.id), write[r].columns)
<1>1. i \in SentItems /\ i.id \in Ids
  BY ItemSent, RowOfType DEF IInv, Flush
<1>2. lock[i.id] \in {None, r} /\ lock' = [lock EXCEPT ![i.id] = r] /\ table' = table
  BY DEF Flush
<1>3. draft' = [draft EXCEPT ![i.id] = new]
  BY DEF Flush
<1>4. None \notin Requests /\ DOMAIN lock = Ids /\ DOMAIN draft = Ids
  BY RequestsAssumption DEF IInv, TypeOK
<1>5. \A s \in Requests \ {r} : \A id \in Ids : Row(s, id)' = Row(s, id)
  BY <1>1, <1>2, <1>3, <1>4 DEF Row
<1>6. \A id \in Ids \ {i.id} : Row(r, id)' = Row(r, id)
  BY <1>1, <1>2, <1>3, <1>4 DEF Row
<1>7. Row(r, i.id)' = new
  <2> HIDE DEF new
  <2>1. lock'[i.id] = r /\ draft'[i.id] = new
    BY <1>1, <1>2, <1>3, <1>4
  <2>2. QED BY <2>1 DEF Row
<1>8. CASE write[r].kind = "insert"
  <2>1. write[r].columns = RowOf(i) /\ lock[i.id] # r
        /\ (i.kind = "worker" => i.site = batch[r].site)
    BY <1>8 DEF Flush, IInv, WriteIsDue, IsDue
  <2>2. Row(r, i.id) = None
    BY <1>1, <1>2, <1>8, <2>1, <1>4 DEF Flush, DuplicateKey, Row
  <2>3. QED
    BY <1>1, <1>5, <1>6, <1>7, <1>8, <2>1, <2>2, RowOfType DEF Kept, RowOf, WorkerRow
<1>9. CASE write[r].kind # "insert"
  <2>1. /\ i.kind = "worker" /\ i.site = batch[r].site
        /\ Row(r, i.id) # None /\ Row(r, i.id).site = i.site
        /\ DOMAIN write[r].columns \subseteq DOMAIN WorkerRow(i)
        /\ \A c \in DOMAIN write[r].columns : write[r].columns[c] = WorkerRow(i)[c]
    BY <1>9 DEF Flush, IInv, WriteIsDue, IsDue
  <2>2. i \in WorkerItems /\ Row(r, i.id) \in WorkerRowType
    BY <1>1, <2>1, RowOfType, RowTyped DEF IInv, RowType
  <2>3. /\ Row(r, i.id)' \in WorkerRowType
        /\ Row(r, i.id)'.site = i.site
    BY <1>7, <1>9, <2>1, <2>2, OverwriteType
  <2>4. i.id \in WorkerIds /\ i.id \notin RecordIds /\ Row(r, i.id)' # None
    BY <1>1, <2>1, <2>3, RowOfType, NoneAssumption, ItemsAssumption
  <2>5. \A s \in Requests : Kept(s)
    BY <1>5, <1>6, <2>1, <2>3, <2>4 DEF Kept
  <2>6. QED
    BY <1>5, <1>6, <2>1, <2>3, <2>4, <2>5 DEF RowType
<1>10. QED BY <1>8, <1>9

\* Nor does a commit.
LEMMA CommitKeeps ==
    ASSUME IInv, NEW r \in Requests, Commit(r)
    PROVE  /\ \A s \in Requests : Kept(s)
           /\ \A id \in Ids : Row(r, id)' = Row(r, id)
<1>1. None \notin Requests
  BY RequestsAssumption
<1>2. /\ lock' = [id \in Ids |-> IF lock[id] = r THEN None ELSE lock[id]]
      /\ draft' = [id \in Ids |-> IF lock[id] = r THEN None ELSE draft[id]]
      /\ table' = [id \in Ids |-> IF lock[id] = r THEN draft[id] ELSE table[id]]
  BY DEF Commit, End, Release
<1>3. \A id \in Ids : Row(r, id)' = Row(r, id)
  BY <1>1, <1>2 DEF Row
<1>4. ASSUME NEW s \in Requests, s # r PROVE Kept(s)
  <2> SUFFICES ASSUME NEW id \in Ids, Row(s, id) # None
               PROVE  /\ Row(s, id)' # None
                      /\ id \in RecordIds => Row(s, id)' = Row(s, id)
                      /\ id \in WorkerIds => Row(s, id)'.site = Row(s, id).site
    BY DEF Kept
  <2>1. CASE lock[id] # r
    BY <1>1, <1>2, <1>4, <2>1 DEF Row
  <2>2. CASE lock[id] = r
    <3>1. Row(s, id) = table[id] /\ Row(s, id)' = draft[id]
      BY <1>1, <1>2, <1>4, <2>2 DEF Row
    <3>2. QED BY <1>1, <2>2, <3>1 DEF IInv, Drafts
  <2>3. QED BY <2>1, <2>2
<1>5. QED BY <1>3, <1>4 DEF Kept

\* A rollback takes nothing away from the others.
LEMMA RollbackKeeps ==
    ASSUME NEW r \in Requests, Rollback(r)
    PROVE  /\ \A s \in Requests \ {r} : Kept(s)
           /\ \A s \in Requests \ {r} : \A id \in Ids : Row(s, id)' = Row(s, id)
           /\ \A id \in Ids : Row(r, id)' = table[id]
BY RequestsAssumption DEF Rollback, End, Release, Row, Kept

\* So what it answered, refused or relied on stays true.
LEMMA StandsKept ==
    ASSUME NEW s \in Requests, NEW i \in SentItems, Kept(s), batch'[s] = batch[s]
    PROVE  /\ Stands(s, i) => Stands(s, i)'
           /\ Refused(s, i) => Refused(s, i)'
           /\ i.kind # "worker" /\ WorkerOf(i, Row(s, i.worker)) => WorkerOf(i, Row(s, i.worker)')
<1>1. i.id \in Ids /\ (i.kind # "worker" => i.worker \in Ids /\ i.worker \in WorkerIds)
  BY RowOfType
<1>2. /\ i.kind = "worker" => i.id \in WorkerIds
      /\ i.kind # "worker" => i.id \in RecordIds
  BY RowOfType
<1>3. i.kind # "worker" /\ WorkerOf(i, Row(s, i.worker)) => WorkerOf(i, Row(s, i.worker)')
  BY <1>1 DEF Kept, WorkerOf
<1>4. Stands(s, i) => Stands(s, i)'
  BY <1>1, <1>2, <1>3 DEF Kept, Stands
<1>5. Refused(s, i) => Refused(s, i)'
  BY <1>1, <1>2 DEF Kept, Refused, WorkerOf
<1>6. QED BY <1>3, <1>4, <1>5

\* So what a request answered stays true while the others take nothing from what it sees.
LEMMA AnswersKept ==
    ASSUME TypeOK, Progress, AnswersStand, NEW s \in Requests, Kept(s),
           batch'[s] = batch[s], answers'[s] = answers[s]
    PROVE  \A k \in DOMAIN answers'[s] : AnswerStands(s, k)'
<1> SUFFICES ASSUME NEW k \in DOMAIN answers[s]
             PROVE  AnswerStands(s, k)'
  OBVIOUS
<1> DEFINE i == batch[s].items[k]
<1>1. i \in SentItems
  BY AnsweredSent
<1>2. AnswerStands(s, k)
  BY DEF AnswersStand
<1>3. PICK j \in SentItems : j = i
  BY <1>1
<1>4. QED BY <1>2, <1>3, StandsKept DEF AnswerStands

\* A write stays due while the request waits for a lock.
LEMMA DueKept ==
    ASSUME IInv, NEW s \in Requests, pc[s] \in {"parent", "flush"}, pc'[s] = pc[s], Kept(s),
           batch'[s] = batch[s], answers'[s] = answers[s], write'[s] = write[s],
           overlapped \subseteq overlapped',
           \A id \in Ids : lock'[id] = s => lock[id] = s,
           \A id \in Ids : s \notin overlapped' => table'[id] = table[id] /\ Row(s, id)' = Row(s, id)
    PROVE  IsDue(s)'
<1>1. PICK i : i = Item(s)
  OBVIOUS
<1>2. Item(s)' = i
  BY <1>1 DEF Item
<1>3. i \in SentItems /\ i.id \in Ids /\ (i.kind # "worker" => i.worker \in Ids)
  BY <1>1, ItemSent, RowOfType DEF IInv
<1>4. IsDue(s)
  BY DEF IInv, WriteIsDue
<1>5. i.kind # "worker" /\ WorkerOf(i, Row(s, i.worker)) => WorkerOf(i, Row(s, i.worker)')
  BY <1>3, StandsKept
<1>6. pc[s] = "flush" /\ write[s].kind # "insert" => i.kind = "worker" /\ i.id \in WorkerIds
  BY <1>1, <1>3, <1>4, RowOfType DEF IsDue
<1>7. Row(s, i.id) # None =>
         Row(s, i.id)' # None /\ (i.id \in WorkerIds => Row(s, i.id)'.site = Row(s, i.id).site)
  BY <1>3 DEF Kept
<1>8. QED BY <1>1, <1>2, <1>3, <1>4, <1>5, <1>6, <1>7 DEF IsDue

-----------------------------------------------------------------------------
(* Answers *)

\* Answering an item keeps the request's progress.
LEMMA AnswerProgress ==
    ASSUME TypeOK, Progress, NEW r \in Requests, pc[r] \in {"item", "parent", "flush"},
           NEW verdict \in AnswerCodes, Answer(r, verdict), batch' = batch
    PROVE  /\ Progress'
           /\ pc' \in [Requests -> InFlight \cup {"idle", "done", "failed"}]
           /\ DOMAIN answers' = Requests
           /\ pc'[r] \in {"item", "commit"}
           /\ \A s \in Requests \ {r} : pc'[s] = pc[s] /\ answers'[s] = answers[s]
           /\ \A k \in DOMAIN answers'[r] :
                 \/ k \in DOMAIN answers[r] /\ answers'[r][k] = answers[r][k]
                 \/ k = Len(answers[r]) + 1 /\ answers'[r][k] = verdict
<1>1. batch[r] \in Batches /\ batch[r].items \in Seq(SentItems)
      /\ Len(answers[r]) + 1 \in DOMAIN batch[r].items
  BY ItemSent
<1>2. answers[r] \in Seq(AnswerCodes)
  BY DEF Progress, Active, InFlight
<1>3. answers'[r] = Append(answers[r], verdict) /\ DOMAIN answers' = Requests
  BY DEF Answer, TypeOK
<1>4. Len(answers'[r]) = Len(answers[r]) + 1 /\ answers'[r] \in Seq(AnswerCodes)
  BY <1>2, <1>3
<1>5. pc'[r] = IF Len(answers'[r]) = Len(batch[r].items) THEN "commit" ELSE "item"
  BY DEF Answer, TypeOK
<1>6. \A s \in Requests \ {r} : pc'[s] = pc[s] /\ answers'[s] = answers[s]
  BY DEF Answer, TypeOK
<1>7. pc' \in [Requests -> InFlight \cup {"idle", "done", "failed"}]
  BY DEF Answer, TypeOK, InFlight
<1>8. \A k \in DOMAIN answers'[r] :
         \/ k \in DOMAIN answers[r] /\ answers'[r][k] = answers[r][k]
         \/ k = Len(answers[r]) + 1 /\ answers'[r][k] = verdict
  BY <1>2, <1>3
<1>9. Progress'
  <2> SUFFICES ASSUME NEW s \in Requests
               PROVE  /\ pc'[s] \in {"idle", "failed"} => answers'[s] = <<>>
                      /\ pc'[s] # "idle" => batch'[s] \in Batches
                      /\ Active(s)' \/ pc'[s] = "done" =>
                           /\ answers'[s] \in Seq(AnswerCodes)
                           /\ Len(answers'[s]) <= Len(batch'[s].items)
                           /\ (Len(answers'[s]) < Len(batch'[s].items))
                                = (pc'[s] \in {"item", "parent", "flush"})
    BY DEF Progress
  <2>1. CASE s = r
    BY <1>1, <1>2, <1>4, <1>5, <2>1 DEF InFlight
  <2>2. CASE s # r
    BY <1>6, <2>2 DEF Progress, Active
  <2>3. QED BY <2>1, <2>2
<1>10. QED BY <1>3, <1>5, <1>6, <1>7, <1>8, <1>9

\* A duplicate key is one that was missing when it was read.
LEMMA NoLoneDuplicate ==
    ASSUME TypeOK', WriteIsDue'
    PROVE  DuplicatesOnlyInOverlap'
BY RequestsAssumption DEF TypeOK, WriteIsDue, IsDue, DuplicatesOnlyInOverlap, DuplicateKey

\* An item that is answered without a write: what is said of it is true.
LEMMA AnswerIInv ==
    ASSUME IInv, NEW r \in Requests, pc[r] \in {"item", "parent"}, NEW i, i = Item(r),
           NEW verdict \in AnswerCodes, Answer(r, verdict),
           UNCHANGED <<table, lock, draft, batch, write, overlapped>>,
           IF verdict = "accepted" THEN i.flaw = None /\ Stands(r, i)
           ELSE Retryable(verdict) \/ Refused(r, i)
    PROVE  IInv'
<1> USE DEF IInv
<1>1. /\ Progress'
      /\ pc' \in [Requests -> InFlight \cup {"idle", "done", "failed"}]
      /\ DOMAIN answers' = Requests
      /\ pc'[r] \in {"item", "commit"}
      /\ \A s \in Requests \ {r} : pc'[s] = pc[s] /\ answers'[s] = answers[s]
      /\ \A k \in DOMAIN answers'[r] :
            \/ k \in DOMAIN answers[r] /\ answers'[r][k] = answers[r][k]
            \/ k = Len(answers[r]) + 1 /\ answers'[r][k] = verdict
  BY AnswerProgress
<1>2. \A s \in Requests : Active(s)' = Active(s)
  BY <1>1 DEF Active, InFlight
<1>3. \A s \in Requests : \A id : Row(s, id)' = Row(s, id)
  BY DEF Row
<1>4. \A s \in Requests : Kept(s)
  BY <1>3 DEF Kept
<1>5. TypeOK'
  BY <1>1 DEF TypeOK
<1>6. Drafts'
  BY <1>2, RequestsAssumption DEF Drafts, TypeOK
<1>7. OverlapIsRecorded'
  BY <1>2 DEF OverlapIsRecorded
<1>8. WriteIsDue'
  <2> SUFFICES ASSUME NEW s \in Requests, pc'[s] \in {"parent", "flush"} PROVE IsDue(s)'
    BY DEF WriteIsDue
  <2>1. s # r /\ pc'[s] = pc[s] /\ answers'[s] = answers[s]
    BY <1>1
  <2>2. QED BY <2>1, <1>3, <1>4, DueKept
<1>9. NoOrphans'
  BY DEF NoOrphans, Comes, Row
<1>10. AnswersStand'
  <2> SUFFICES ASSUME NEW s \in Requests, NEW k \in DOMAIN answers'[s] PROVE AnswerStands(s, k)'
    BY DEF AnswersStand
  <2>1. CASE s # r
    BY <2>1, <1>1, <1>4, AnswersKept
  <2>2. CASE s = r /\ k \in DOMAIN answers[r] /\ answers'[r][k] = answers[r][k]
    BY <2>2, <1>3 DEF AnswersStand, AnswerStands, Stands, Refused, WorkerOf
  <2>3. CASE s = r /\ k = Len(answers[r]) + 1 /\ answers'[r][k] = verdict
    BY <2>3, <1>3 DEF AnswerStands, Stands, Refused, WorkerOf, Item
  <2>4. QED BY <1>1, <2>1, <2>2, <2>3
<1>11. SoloDrafts'
  BY DEF SoloDrafts
<1>12. QED BY <1>1, <1>5, <1>6, <1>7, <1>8, <1>9, <1>10, <1>11, NoLoneDuplicate

\* A request that goes on to read the parent or to write: what it does next is due.
LEMMA PrepareIInv ==
    ASSUME IInv, NEW r \in Requests, pc[r] \in {"item", "parent"},
           NEW step \in {"parent", "flush"}, pc' = [pc EXCEPT ![r] = step],
           DOMAIN write' = Requests, \A s \in Requests \ {r} : write'[s] = write[s],
           UNCHANGED <<table, lock, draft, batch, answers, overlapped>>, IsDue(r)'
    PROVE  IInv'
<1> USE DEF IInv
<1>1. /\ pc' \in [Requests -> InFlight \cup {"idle", "done", "failed"}]
      /\ pc'[r] = step
      /\ \A s \in Requests \ {r} : pc'[s] = pc[s]
  BY DEF TypeOK, InFlight
<1>2. \A s \in Requests : Active(s)' = Active(s)
  BY <1>1 DEF Active, InFlight
<1>3. \A s \in Requests : \A id : Row(s, id)' = Row(s, id)
  BY DEF Row
<1>4. \A s \in Requests : Kept(s)
  BY <1>3 DEF Kept
<1>5. TypeOK'
  BY <1>1 DEF TypeOK
<1>6. Progress'
  BY <1>1, <1>2 DEF Progress
<1>7a. Drafts'
  <2> SUFFICES ASSUME NEW id \in Ids, lock[id] # None
               PROVE  Active(lock[id])'
    BY DEF Drafts
  <2>1. lock[id] \in Requests /\ Active(lock[id])
    BY DEF Drafts, TypeOK
  <2>2. QED BY <1>2, <2>1
<1>7. OverlapIsRecorded'
  BY <1>2 DEF OverlapIsRecorded
<1>8. WriteIsDue'
  <2> SUFFICES ASSUME NEW s \in Requests, pc'[s] \in {"parent", "flush"} PROVE IsDue(s)'
    BY DEF WriteIsDue
  <2>1. CASE s # r
    BY <2>1, <1>1, <1>3, <1>4, DueKept
  <2>2. QED BY <2>1
<1>9. NoOrphans' /\ SoloDrafts'
  BY DEF NoOrphans, Comes, Row, SoloDrafts
<1>10. AnswersStand'
  BY <1>4, AnswersKept DEF AnswersStand
<1>11. QED BY <1>5, <1>6, <1>7, <1>7a, <1>8, <1>9, <1>10, NoLoneDuplicate

-----------------------------------------------------------------------------
(* The steps of a request *)

\* Before the first request nothing is stored, locked or answered.
LEMMA InitIInv == Init => IInv
<1> SUFFICES ASSUME Init PROVE IInv
  OBVIOUS
<1> USE RequestsAssumption, NoneAssumption DEF Init
<1>1. TypeOK
  BY DEF TypeOK
<1>2. Progress
  BY DEF Progress, Active, InFlight
<1>3. Drafts /\ OverlapIsRecorded /\ NoOrphans /\ SoloDrafts
  BY DEF Drafts, OverlapIsRecorded, NoOrphans, SoloDrafts, Active, InFlight, Comes, Ids
<1>4. WriteIsDue /\ AnswersStand /\ DuplicatesOnlyInOverlap
  BY DEF WriteIsDue, AnswersStand, DuplicatesOnlyInOverlap, DuplicateKey
<1>5. QED BY <1>1, <1>2, <1>3, <1>4 DEF IInv

\* A request that arrives has seen and written nothing, and is marked as overlapping if
\* another is in flight.
LEMMA BeginIInv ==
    ASSUME IInv, NEW r \in Requests, Begin(r)
    PROVE  IInv'
<1> USE DEF IInv
<1>1. PICK b \in Batches :
         /\ batch' = [batch EXCEPT ![r] = b]
         /\ pc' = [pc EXCEPT ![r] = IF b.items = <<>> THEN "commit" ELSE "item"]
  BY DEF Begin
<1>2. /\ pc[r] = "idle" /\ UNCHANGED <<table, lock, draft, answers, write>>
      /\ overlapped' = overlapped \cup
                       (IF ActiveRequests = {} THEN {} ELSE ActiveRequests \cup {r})
  BY DEF Begin
<1>3. pc' \in [Requests -> InFlight \cup {"idle", "done", "failed"}] /\ batch'[r] = b
      /\ pc'[r] \in {"item", "commit"} /\ b.items \in Seq(SentItems)
      /\ \A s \in Requests \ {r} : pc'[s] = pc[s] /\ batch'[s] = batch[s]
  BY <1>1, ItemsAssumption DEF TypeOK, InFlight
<1>4. \A s \in Requests : \A id : Row(s, id)' = Row(s, id)
  BY <1>2 DEF Row
<1>5. \A id \in Ids : lock[id] # r
  BY <1>2, RequestsAssumption DEF Drafts, Active, InFlight, TypeOK
<1>6. TypeOK'
  BY <1>1, <1>2, <1>3 DEF TypeOK, ActiveRequests
<1>7. Progress'
  <2> SUFFICES ASSUME NEW s \in Requests
               PROVE  /\ pc'[s] \in {"idle", "failed"} => answers'[s] = <<>>
                      /\ pc'[s] # "idle" => batch'[s] \in Batches
                      /\ Active(s)' \/ pc'[s] = "done" =>
                           /\ answers'[s] \in Seq(AnswerCodes)
                           /\ Len(answers'[s]) <= Len(batch'[s].items)
                           /\ (Len(answers'[s]) < Len(batch'[s].items))
                                = (pc'[s] \in {"item", "parent", "flush"})
    BY DEF Progress
  <2>1. CASE s = r
    <3>1. answers'[r] = <<>>
      BY <1>2 DEF Progress
    <3>2. (b.items = <<>>) = (Len(b.items) = 0)
      BY <1>3
    <3>3. pc'[r] = IF b.items = <<>> THEN "commit" ELSE "item"
      BY <1>1 DEF TypeOK
    <3>4. QED BY <1>3, <2>1, <3>1, <3>2, <3>3
  <2>2. CASE s # r
    BY <1>2, <1>3, <2>2 DEF Progress, Active
  <2>3. QED BY <2>1, <2>2
<1>8. Drafts'
  BY <1>2, <1>3, <1>5, RequestsAssumption DEF Drafts, TypeOK, Active
<1>9. OverlapIsRecorded'
  BY <1>2, <1>3 DEF OverlapIsRecorded, ActiveRequests, Active
<1>10. WriteIsDue'
  <2> SUFFICES ASSUME NEW s \in Requests, pc'[s] \in {"parent", "flush"} PROVE IsDue(s)'
    BY DEF WriteIsDue
  <2>1. s # r /\ pc'[s] = pc[s] /\ batch'[s] = batch[s]
    BY <1>3
  <2>2. QED BY <2>1, <1>2, <1>4, DueKept DEF Kept
<1>11. NoOrphans'
  BY <1>2 DEF NoOrphans, Comes, Row
<1>12. AnswersStand'
  <2> SUFFICES ASSUME NEW s \in Requests, NEW k \in DOMAIN answers'[s] PROVE AnswerStands(s, k)'
    BY DEF AnswersStand
  <2>1. s # r
    BY <1>2 DEF Progress
  <2>2. QED BY <2>1, <1>2, <1>3, <1>4, AnswersKept DEF Kept
<1>13. SoloDrafts'
  BY <1>2, <1>5 DEF SoloDrafts
<1>14. QED BY <1>6, <1>7, <1>8, <1>9, <1>10, <1>11, <1>12, <1>13, NoLoneDuplicate

\* The worker of a record that a request sees is there, and of the site of the item's token.
LEMMA RecordHasWorker ==
    ASSUME IInv, NEW r \in Requests, NEW i \in RecordItems,
           Row(r, i.id) = RecordRow(i)
    PROVE  WorkerOf(i, Row(r, i.worker))
<1> USE DEF IInv
<1>1. i \in SentItems /\ i.id \in Ids /\ i.id \in RecordIds /\ i.worker \in WorkerIds
      /\ i.worker \in Ids /\ Row(r, i.id) # None
  BY RowOfType DEF RecordItems, WorkerItems
<1>2. ASSUME NEW j \in RecordItems, j.id = i.id, RecordRow(j) = RecordRow(i),
             NEW w, WorkerOf(j, w)
      PROVE  j.worker = i.worker /\ WorkerOf(i, w)
  <2>1. j \in SentItems /\ j.worker = i.worker /\ j.content = i.content
    BY <1>2 DEF RecordItems, RecordRow
  <2>2. i.kind = "certificate" => j.kind = "certificate" /\ i.site = j.site
    BY <1>1, <1>2, <2>1, TokenAssumption
  <2>3. QED BY <1>2, <2>1, <2>2 DEF WorkerOf
<1>3. CASE lock[i.id] = r
  <2>1. draft[i.id] = RecordRow(i) /\ draft[i.id] # None
    BY <1>1, <1>3 DEF Row
  <2>2. PICK j \in RecordItems :
           /\ j.id = i.id /\ RecordRow(j) = RecordRow(i)
           /\ WorkerOf(j, [w \in WorkerIds |-> Row(lock[i.id], w)][j.worker])
    BY <1>1, <2>1 DEF NoOrphans, Comes
  <2>3. j.worker = i.worker /\ WorkerOf(i, [w \in WorkerIds |-> Row(lock[i.id], w)][j.worker])
    BY <1>2, <2>2
  <2>4. QED BY <1>1, <1>3, <2>3
<1>4. CASE lock[i.id] # r
  <2>1. table[i.id] = RecordRow(i) /\ table[i.id] # None
    BY <1>1, <1>4 DEF Row
  <2>2. PICK j \in RecordItems :
           j.id = i.id /\ RecordRow(j) = RecordRow(i) /\ WorkerOf(j, table[j.worker])
    BY <1>1, <2>1 DEF NoOrphans, Comes
  <2>3. WorkerOf(i, table[i.worker])
    BY <1>2, <2>2
  <2>4. lock[i.worker] = r => draft[i.worker] # None /\ draft[i.worker].site = table[i.worker].site
    BY <1>1, <2>3, RequestsAssumption DEF Drafts, WorkerOf
  <2>5. QED BY <2>3, <2>4 DEF Row, WorkerOf
<1>5. QED BY <1>3, <1>4

\* ingest reads an item's own row: it answers, plans a write that fits the row, or goes on
\* to the worker of a new record.
LEMMA ReadItemIInv ==
    ASSUME IInv, NEW r \in Requests, ReadItem(r)
    PROVE  IInv'
<1> USE DEF IInv
<1>1. PICK i : i = Item(r)
  OBVIOUS
<1>2. i \in SentItems /\ batch[r] \in Batches
  BY <1>1, ItemSent DEF ReadItem
<1>3. PICK row : row = Row(r, i.id)
  OBVIOUS
<1>4. /\ row \in RowType(i.id) \cup {None}
      /\ i.id \in Ids
  BY <1>2, <1>3, RowTyped, RowOfType
<1>5. pc[r] = "item" /\ UNCHANGED <<table, lock, draft, batch, overlapped>>
  BY DEF ReadItem
<1>6. CASE i.flaw # None /\ Reject(r, i.flaw)
  <2>1. i.flaw \in AnswerCodes \ {"accepted", "missing_worker"}
    BY <1>2, <1>6, ItemsAssumption DEF AnswerCodes
  <2>2. QED BY <1>1, <1>5, <1>6, <2>1, AnswerIInv DEF Reject, Refused
<1>7. CASE i.flaw = None /\ i.kind = "worker" /\ DecideWorker(r, i, row)
  <2>1. i \in WorkerItems /\ i.id \in WorkerIds
    BY <1>2, <1>7, RowOfType
  <2>2. CASE Reject(r, "invalid_payload") /\ (i.site # batch[r].site \/ (row # None /\ row.site # batch[r].site))
    BY <1>1, <1>3, <1>5, <1>7, <2>2, AnswerIInv DEF AnswerCodes, Retryable, Reject, Refused
  <2>3. CASE /\ i.site = batch[r].site /\ row # None /\ row.site = batch[r].site
             /\ Answer(r, "accepted") /\ UNCHANGED write
    BY <1>1, <1>3, <1>5, <1>7, <2>3, AnswerIInv DEF AnswerCodes, Retryable, Stands
  <2>4. CASE i.site = batch[r].site /\ row = None /\ WriteNext(r, "insert", WorkerRow(i))
    <3>1. write'[r] = [kind |-> "insert", columns |-> WorkerRow(i)] /\ Item(r)' = i /\ pc'[r] = "flush"
      BY <1>1, <1>5, <2>4 DEF WriteNext, TypeOK, Item
    <3>2. lock[i.id] # r /\ table[i.id] = None
      BY <1>3, <1>4, <2>4, RequestsAssumption DEF Row, Drafts, TypeOK
    <3>3. IsDue(r)'
      BY <1>5, <1>7, <2>4, <3>1, <3>2 DEF IsDue, RowOf
    <3>4. QED BY <1>5, <2>4, <3>3, PrepareIInv DEF WriteNext, TypeOK
  <2>5. CASE /\ i.site = batch[r].site /\ row # None /\ row.site = batch[r].site
             /\ Newer(i, row) /\ WriteNext(r, "update", Changed(i, row))
    <3>1. write'[r] = [kind |-> "update", columns |-> Changed(i, row)] /\ Item(r)' = i /\ pc'[r] = "flush"
      BY <1>1, <1>5, <2>5 DEF WriteNext, TypeOK, Item
    <3>2. Row(r, i.id)' = row
      BY <1>3, <1>5 DEF Row
    <3>3. row \in WorkerRowType
      BY <1>4, <2>1, <2>5 DEF RowType
    <3>4. IsDue(r)'
      BY <1>5, <1>7, <2>1, <2>5, <3>1, <3>2, <3>3, ChangedApplied DEF IsDue
    <3>5. QED BY <1>5, <2>5, <3>4, PrepareIInv DEF WriteNext, TypeOK
  <2>6. QED BY <1>7, <2>2, <2>3, <2>4, <2>5 DEF DecideWorker
<1>8. CASE /\ i.flaw = None /\ i.kind # "worker" /\ row # None
           /\ Answer(r, IF Conflicts(i, row) THEN "conflict_immutable" ELSE "accepted")
           /\ UNCHANGED write
  <2>1. CASE Conflicts(i, row)
    BY <1>1, <1>3, <1>5, <1>8, <2>1, AnswerIInv DEF AnswerCodes, Retryable, Conflicts, Refused
  <2>2. CASE ~Conflicts(i, row)
    <3>1. row = RecordRow(i) /\ i.id \in RecordIds
      BY <1>2, <1>8, <2>2, RowOfType DEF Conflicts
    <3>2. WorkerOf(i, Row(r, i.worker))
      BY <1>2, <1>3, <1>8, <3>1, RecordHasWorker DEF RecordItems, WorkerItems
    <3>3. Stands(r, i)
      BY <1>3, <1>8, <3>1, <3>2 DEF Stands
    <3>4. QED BY <1>1, <1>5, <1>8, <2>2, <3>3, AnswerIInv DEF AnswerCodes
  <2>3. QED BY <2>1, <2>2
<1>9. CASE /\ i.flaw = None /\ i.kind # "worker" /\ row = None
           /\ pc' = [pc EXCEPT ![r] = "parent"]
           /\ UNCHANGED <<answers, write>>
  <2>1. lock[i.id] # r /\ table[i.id] = None
    BY <1>3, <1>4, <1>9, RequestsAssumption DEF Row, Drafts, TypeOK
  <2>2. Item(r)' = i /\ pc'[r] = "parent"
    BY <1>1, <1>5, <1>9 DEF Item, TypeOK
  <2>3. IsDue(r)'
    BY <1>5, <1>9, <2>1, <2>2 DEF IsDue
  <2>4. QED BY <1>5, <1>9, <2>3, PrepareIInv DEF TypeOK
<1>10. QED BY <1>1, <1>3, <1>6, <1>7, <1>8, <1>9 DEF ReadItem

\* ingest reads the worker of a new record: without one, or at another site, the record
\* is refused; else its insert is due.
LEMMA ReadParentIInv ==
    ASSUME IInv, NEW r \in Requests, ReadParent(r)
    PROVE  IInv'
<1> USE DEF IInv
<1>1. PICK i : i = Item(r)
  OBVIOUS
<1>2. PICK worker : worker = Row(r, i.worker)
  OBVIOUS
<1>3. pc[r] = "parent" /\ UNCHANGED <<table, lock, draft, batch, overlapped>>
  BY DEF ReadParent
<1>4. /\ i \in SentItems /\ i.flaw = None /\ i.kind # "worker"
      /\ lock[i.id] # r /\ (r \notin overlapped => table[i.id] = None)
  BY <1>1, <1>3, ItemSent DEF WriteIsDue, IsDue
<1>5. CASE worker = None /\ Reject(r, "missing_worker")
  BY <1>1, <1>3, <1>5, AnswerIInv DEF AnswerCodes, Retryable, Reject
<1>6. CASE worker # None /\ ~FitsSite(i, worker) /\ Reject(r, "invalid_certificate")
  BY <1>1, <1>2, <1>3, <1>4, <1>6, AnswerIInv DEF AnswerCodes, Reject, Refused, FitsSite, WorkerOf
<1>7. CASE worker # None /\ FitsSite(i, worker) /\ WriteNext(r, "insert", RecordRow(i))
  <2>1. write'[r] = [kind |-> "insert", columns |-> RecordRow(i)] /\ Item(r)' = i /\ pc'[r] = "flush"
    BY <1>1, <1>3, <1>7 DEF WriteNext, TypeOK, Item
  <2>2. WorkerOf(i, Row(r, i.worker)')
    BY <1>2, <1>3, <1>7 DEF WorkerOf, FitsSite, Row
  <2>3. IsDue(r)'
    BY <1>3, <1>4, <1>7, <2>1, <2>2 DEF IsDue, RowOf
  <2>4. QED BY <1>3, <1>7, <2>3, PrepareIInv DEF WriteNext, TypeOK
<1>8. QED BY <1>1, <1>2, <1>5, <1>6, <1>7 DEF ReadParent, Parent

\* The flush of an insert or update: the request's draft is the row that was due.
LEMMA FlushIInv ==
    ASSUME IInv, NEW r \in Requests, Flush(r)
    PROVE  IInv'
<1> USE DEF IInv
<1>1. PICK i : i = Item(r)
  OBVIOUS
<1>2. pc[r] = "flush" /\ i \in SentItems /\ i.id \in Ids /\ i.flaw = None
  BY <1>1, ItemSent, RowOfType DEF Flush, WriteIsDue, IsDue
<1>3. /\ \A s \in Requests : Kept(s)
      /\ \A s \in Requests \ {r} : \A id \in Ids : Row(s, id)' = Row(s, id)
      /\ \A id \in Ids \ {i.id} : Row(r, id)' = Row(r, id)
      /\ Row(r, i.id)' \in RowType(i.id)
      /\ i.kind = "worker" => Row(r, i.id)'.site = batch[r].site
      /\ i.kind # "worker" => Row(r, i.id)' = RecordRow(i)
  BY <1>1, FlushKeeps
<1>4. /\ lock[i.id] \in {None, r} /\ lock' = [lock EXCEPT ![i.id] = r]
      /\ DOMAIN draft' = Ids /\ \A id \in Ids \ {i.id} : draft'[id] = draft[id]
      /\ Answer(r, "accepted")
      /\ DOMAIN write' = Requests /\ \A s \in Requests \ {r} : write'[s] = write[s]
      /\ UNCHANGED <<table, batch, overlapped>>
  BY <1>1 DEF Flush, TypeOK
<1>5. draft'[i.id] = Row(r, i.id)' /\ lock'[i.id] = r
  BY <1>2, <1>4 DEF Row, TypeOK
<1>6. /\ Progress'
      /\ pc' \in [Requests -> InFlight \cup {"idle", "done", "failed"}]
      /\ DOMAIN answers' = Requests
      /\ pc'[r] \in {"item", "commit"}
      /\ \A s \in Requests \ {r} : pc'[s] = pc[s] /\ answers'[s] = answers[s]
      /\ \A k \in DOMAIN answers'[r] :
            \/ k \in DOMAIN answers[r] /\ answers'[r][k] = answers[r][k]
            \/ k = Len(answers[r]) + 1 /\ answers'[r][k] = "accepted"
  BY <1>2, <1>4, AnswerProgress DEF AnswerCodes
<1>7. \A s \in Requests : Active(s)' = Active(s)
  BY <1>2, <1>6 DEF Active, InFlight
<1>8. /\ i.kind = "worker" => i.id \in WorkerIds /\ i.id \notin RecordIds /\ i \in WorkerItems
      /\ i.kind # "worker" => i.id \in RecordIds /\ i.id \notin WorkerIds
                              /\ i.worker \in WorkerIds /\ i.worker \in Ids /\ i \in RecordItems
  BY <1>2, RowOfType, ItemsAssumption DEF RecordItems, WorkerItems
<1>9. TypeOK'
  BY <1>2, <1>3, <1>4, <1>5, <1>6 DEF TypeOK
<1>10. write[r].kind = "insert" => table[i.id] = None
  BY <1>1, <1>2, <1>4 DEF Flush, DuplicateKey, WriteIsDue, IsDue
<1>11. i.kind # "worker" => write[r].kind = "insert" /\ WorkerOf(i, Row(r, i.worker))
  BY <1>1, <1>2 DEF WriteIsDue, IsDue
<1>12. i.kind = "worker" => i.site = batch[r].site
  BY <1>1, <1>2 DEF WriteIsDue, IsDue
<1>13. i.kind = "worker" /\ table[i.id] # None => table[i.id].site = batch[r].site
  <2> SUFFICES ASSUME i.kind = "worker", table[i.id] # None
               PROVE  table[i.id].site = batch[r].site
    OBVIOUS
  <2>1. Row(r, i.id) # None /\ Row(r, i.id).site = batch[r].site
    BY <1>1, <1>2, <1>10, <1>12 DEF WriteIsDue, IsDue
  <2>2. QED BY <1>2, <1>4, <1>8, <2>1, RequestsAssumption DEF Row, Drafts
<1>14. Drafts'
  <2> SUFFICES ASSUME NEW id \in Ids
               PROVE  /\ (lock'[id] = None) = (draft'[id] = None)
                      /\ lock'[id] # None =>
                           /\ Active(lock[id])'
                           /\ id \in RecordIds => table'[id] = None
                           /\ id \in WorkerIds =>
                                /\ draft'[id].site = batch'[lock'[id]].site
                                /\ table'[id] # None => table'[id].site = draft'[id].site
    BY DEF Drafts
  <2>1. CASE id = i.id
    <3>1. draft'[id] # None
      BY <1>2, <1>3, <1>5, <2>1, NoneAssumption DEF RowType
    <3>2. Active(r)'
      BY <1>2, <1>7 DEF Active, InFlight
    <3>3. QED
      BY <1>3, <1>4, <1>5, <1>8, <1>10, <1>11, <1>13, <2>1, <3>1, <3>2, RequestsAssumption
  <2>2. CASE id # i.id
    <3>1. lock'[id] = lock[id] /\ draft'[id] = draft[id]
      BY <1>4, <2>2 DEF TypeOK
    <3>2. lock[id] # None => lock[id] \in Requests
      BY DEF TypeOK
    <3>3. QED BY <1>4, <1>7, <3>1, <3>2 DEF Drafts
  <2>3. QED BY <2>1, <2>2
<1>15. OverlapIsRecorded'
  BY <1>4, <1>7 DEF OverlapIsRecorded
<1>16. WriteIsDue'
  <2> SUFFICES ASSUME NEW s \in Requests, pc'[s] \in {"parent", "flush"} PROVE IsDue(s)'
    BY DEF WriteIsDue
  <2>1. s # r /\ pc'[s] = pc[s] /\ answers'[s] = answers[s] /\ write'[s] = write[s]
    BY <1>4, <1>6
  <2>2. \A id \in Ids : lock'[id] = s => lock[id] = s
    BY <1>4, <2>1 DEF TypeOK
  <2>3. QED BY <2>1, <2>2, <1>3, <1>4, DueKept
<1>17. NoOrphans'
  <2> SUFFICES ASSUME NEW id \in RecordIds
               PROVE  Comes(id, draft[id], [w \in WorkerIds |-> Row(lock[id], w)])'
    BY <1>4 DEF NoOrphans, Comes, WorkerOf
  <2>0. id \in Ids
    BY DEF Ids
  <2>1. CASE id = i.id
    <3>1. i.kind # "worker" /\ i \in RecordItems /\ i.worker \in WorkerIds
      BY <1>8, <2>1, ItemsAssumption
    <3>2. WorkerOf(i, Row(r, i.worker)')
      BY <1>2, <1>3, <1>4, <1>11, <3>1, StandsKept
    <3>3. draft'[id] = RecordRow(i) /\ lock'[id] = r
      BY <1>3, <1>5, <1>8, <2>1
    <3>4. QED BY <2>1, <3>1, <3>2, <3>3 DEF Comes
  <2>2. CASE id # i.id
    <3>1. lock'[id] = lock[id] /\ draft'[id] = draft[id]
      BY <1>4, <2>0, <2>2 DEF TypeOK
    <3>2. SUFFICES ASSUME draft[id] # None
                   PROVE  \E j \in RecordItems :
                             j.id = id /\ RecordRow(j) = draft[id] /\ WorkerOf(j, Row(lock[id], j.worker)')
      BY <3>1, RowOfType, RowOfType DEF Comes, RecordItems, WorkerItems
    <3>3. PICK j \in RecordItems :
             j.id = id /\ RecordRow(j) = draft[id] /\ WorkerOf(j, Row(lock[id], j.worker))
      BY <3>2, RowOfType DEF NoOrphans, Comes, RecordItems, WorkerItems
    <3>4. PICK s \in Requests : s = lock[id]
      BY <2>0, <3>2 DEF Drafts, TypeOK
    <3>5. j \in SentItems /\ j.kind # "worker"
      BY DEF RecordItems, WorkerItems
    <3>6. WorkerOf(j, Row(s, j.worker)')
      BY <1>3, <1>4, <3>3, <3>4, <3>5, StandsKept
    <3>7. QED BY <3>1, <3>3, <3>4, <3>6
  <2>3. QED BY <2>1, <2>2
<1>18. AnswersStand'
  <2> SUFFICES ASSUME NEW s \in Requests, NEW k \in DOMAIN answers'[s] PROVE AnswerStands(s, k)'
    BY DEF AnswersStand
  <2>1. CASE s # r
    BY <2>1, <1>3, <1>4, <1>6, AnswersKept
  <2>2. CASE s = r /\ k \in DOMAIN answers[r] /\ answers'[r][k] = answers[r][k]
    <3>1. PICK j \in SentItems : j = batch[r].items[k]
      BY <2>2, AnsweredSent
    <3>2. AnswerStands(r, k)
      BY <2>2 DEF AnswersStand
    <3>3. QED BY <1>3, <1>4, <2>2, <3>1, <3>2, StandsKept DEF AnswerStands
  <2>3. CASE s = r /\ k = Len(answers[r]) + 1 /\ answers'[r][k] = "accepted"
    <3>1. batch'[s].items[k] = i
      BY <1>1, <1>4, <2>3 DEF Item
    <3>2. Row(r, i.id)' # None
      BY <1>2, <1>3, NoneAssumption DEF RowType
    <3>3. i.kind # "worker" => WorkerOf(i, Row(r, i.worker)')
      BY <1>3, <1>4, <1>2, <1>11, StandsKept
    <3>4. Stands(r, i)'
      BY <1>3, <1>4, <1>12, <3>2, <3>3 DEF Stands
    <3>5. QED BY <1>2, <2>3, <3>1, <3>4 DEF AnswerStands
  <2>4. QED BY <1>6, <2>1, <2>2, <2>3
<1>19. SoloDrafts'
  <2> SUFFICES ASSUME NEW id \in WorkerIds, lock'[id] # None, lock'[id] \notin overlapped
               PROVE  /\ draft'[id] \in WorkerRows
                      /\ table[id] # None => draft'[id].updatedAt > table[id].updatedAt
    BY <1>4 DEF SoloDrafts
  <2>1. CASE id # i.id
    BY <1>4, <2>1 DEF SoloDrafts, TypeOK, Ids
  <2>2. CASE id = i.id
    <3>1. i.kind = "worker" /\ i \in WorkerItems /\ r \notin overlapped
      BY <1>5, <1>8, <2>2
    <3>2. draft'[id] = IF write[r].kind = "insert" THEN write[r].columns
                       ELSE Overwrite(Row(r, id), write[r].columns)
      BY <1>1, <1>2, <2>2 DEF Flush, TypeOK
    <3>3. CASE write[r].kind = "insert"
      BY <1>1, <1>2, <1>10, <2>2, <3>1, <3>2, <3>3 DEF WriteIsDue, IsDue, RowOf, WorkerRows
    <3>4. CASE write[r].kind # "insert"
      <4>1. Row(r, id) # None /\ Newer(i, Row(r, id)) /\ write[r].columns = Changed(i, Row(r, id))
        BY <1>1, <1>2, <2>2, <3>1, <3>4 DEF WriteIsDue, IsDue
      <4>2. Row(r, id) \in WorkerRowType
        BY <1>2, <2>2, <4>1, RowTyped DEF RowType
      <4>3. draft'[id] = WorkerRow(i)
        BY <3>1, <3>2, <3>4, <4>1, <4>2, ChangedApplied
      <4>4. CASE lock[id] = None
        BY <1>2, <2>2, <3>1, <4>1, <4>3, <4>4, RequestsAssumption DEF Row, Newer, WorkerRow, WorkerRows
      <4>5. CASE lock[id] = r
        <5>1. table[id] # None => draft[id].updatedAt > table[id].updatedAt
          BY <3>1, <4>5, RequestsAssumption DEF SoloDrafts
        <5>2. Row(r, id) = draft[id]
          BY <4>5 DEF Row
        <5>3. table[id] # None => table[id].updatedAt \in Int
          BY <1>2, <2>2, ItemsAssumption DEF TypeOK, RowType, WorkerRowType, WorkerItems
        <5>4. draft[id].updatedAt \in Int /\ i.updatedAt \in Int
          BY <3>1, <4>2, <5>2, ItemsAssumption DEF WorkerRowType, WorkerItems
        <5>5. QED BY <3>1, <4>1, <4>3, <5>1, <5>2, <5>3, <5>4 DEF Newer, WorkerRow, WorkerRows
      <4>6. QED BY <1>4, <2>2, <4>4, <4>5
    <3>5. QED BY <3>3, <3>4
  <2>3. QED BY <2>1, <2>2
<1>20. QED
  BY <1>6, <1>9, <1>14, <1>15, <1>16, <1>17, <1>18, <1>19, NoLoneDuplicate

\* COMMIT: the drafts become rows, and the locks go.
LEMMA CommitIInv ==
    ASSUME IInv, NEW r \in Requests, Commit(r)
    PROVE  IInv'
<1> USE DEF IInv
<1>1. /\ pc[r] = "commit" /\ pc' = [pc EXCEPT ![r] = "done"]
      /\ table' = [id \in Ids |-> IF lock[id] = r THEN draft[id] ELSE table[id]]
      /\ lock' = [id \in Ids |-> IF lock[id] = r THEN None ELSE lock[id]]
      /\ draft' = [id \in Ids |-> IF lock[id] = r THEN None ELSE draft[id]]
      /\ write' = [write EXCEPT ![r] = None]
      /\ UNCHANGED <<batch, answers, overlapped>>
  BY DEF Commit, End, Release
<1>2. /\ pc' \in [Requests -> InFlight \cup {"idle", "done", "failed"}] /\ pc'[r] = "done"
      /\ \A s \in Requests \ {r} : pc'[s] = pc[s] /\ write'[s] = write[s]
      /\ DOMAIN write' = Requests
  BY <1>1 DEF TypeOK
<1>3. /\ \A s \in Requests \ {r} : Active(s)' = Active(s)
      /\ Active(r) /\ ~Active(r)'
  BY <1>1, <1>2 DEF Active, InFlight
<1>4. /\ \A s \in Requests : Kept(s)
      /\ \A id \in Ids : Row(r, id)' = Row(r, id)
  BY CommitKeeps
<1>5. None \notin Requests
  BY RequestsAssumption
<1>6. TypeOK'
  <2>1. \A id \in Ids : {table'[id], draft'[id]} \subseteq RowType(id) \cup {None}
    BY <1>1 DEF TypeOK
  <2>2. lock' \in [Ids -> Requests \cup {None}]
    BY <1>1 DEF TypeOK
  <2>3. QED BY <1>1, <1>2, <2>1, <2>2 DEF TypeOK
<1>7. Progress'
  <2> SUFFICES ASSUME NEW s \in Requests
               PROVE  /\ pc'[s] \in {"idle", "failed"} => answers'[s] = <<>>
                      /\ pc'[s] # "idle" => batch'[s] \in Batches
                      /\ Active(s)' \/ pc'[s] = "done" =>
                           /\ answers'[s] \in Seq(AnswerCodes)
                           /\ Len(answers'[s]) <= Len(batch'[s].items)
                           /\ (Len(answers'[s]) < Len(batch'[s].items))
                                = (pc'[s] \in {"item", "parent", "flush"})
    BY DEF Progress
  <2>1. CASE s = r
    BY <1>1, <1>2, <1>3, <2>1 DEF Progress
  <2>2. CASE s # r
    BY <1>1, <1>2, <1>3, <2>2 DEF Progress
  <2>3. QED BY <2>1, <2>2
<1>8. Drafts'
  <2> SUFFICES ASSUME NEW id \in Ids
               PROVE  /\ (lock'[id] = None) = (draft'[id] = None)
                      /\ lock'[id] # None =>
                           /\ Active(lock[id])'
                           /\ id \in RecordIds => table'[id] = None
                           /\ id \in WorkerIds =>
                                /\ draft'[id].site = batch'[lock'[id]].site
                                /\ table'[id] # None => table'[id].site = draft'[id].site
    BY DEF Drafts
  <2>1. CASE lock[id] = r
    BY <1>1, <2>1
  <2>2. CASE lock[id] # r
    <3>1. lock'[id] = lock[id] /\ draft'[id] = draft[id] /\ table'[id] = table[id]
      BY <1>1, <2>2
    <3>2. lock[id] # None => lock[id] \in Requests \ {r}
      BY <2>2 DEF TypeOK
    <3>3. QED BY <1>1, <1>3, <3>1, <3>2 DEF Drafts
  <2>3. QED BY <2>1, <2>2
<1>9. OverlapIsRecorded'
  BY <1>1, <1>3 DEF OverlapIsRecorded
<1>10. WriteIsDue'
  <2> SUFFICES ASSUME NEW s \in Requests, pc'[s] \in {"parent", "flush"} PROVE IsDue(s)'
    BY DEF WriteIsDue
  <2>1. s # r /\ pc'[s] = pc[s] /\ write'[s] = write[s]
    BY <1>2
  <2>2. s \in overlapped /\ overlapped' = overlapped
    BY <1>1, <1>3, <2>1 DEF OverlapIsRecorded, Active, InFlight
  <2>3. \A id \in Ids : lock'[id] = s => lock[id] = s
    BY <1>1, <1>5
  <2>4. QED BY <1>1, <1>4, <2>1, <2>2, <2>3, DueKept
<1>11. NoOrphans'
  <2> SUFFICES ASSUME NEW id \in RecordIds
               PROVE  /\ Comes(id, table[id], table)'
                      /\ Comes(id, draft[id], [w \in WorkerIds |-> Row(lock[id], w)])'
    BY DEF NoOrphans
  <2>1. id \in Ids
    BY DEF Ids
  <2>2. \A j \in RecordItems : j \in SentItems /\ j.kind # "worker" /\ j.worker \in WorkerIds /\ j.worker \in Ids
    BY RowOfType DEF RecordItems, WorkerItems
  <2>3. \A w \in Ids : Row(r, w) = table'[w]
    BY <1>1 DEF Row
  <2>4. Comes(id, table[id], table)'
    <3> SUFFICES ASSUME table'[id] # None
                 PROVE  \E j \in RecordItems :
                           j.id = id /\ RecordRow(j) = table'[id] /\ WorkerOf(j, table'[j.worker])
      BY DEF Comes
    <3>1. CASE lock[id] = r
      <4>1. table'[id] = draft[id] /\ draft[id] # None
        BY <1>1, <2>1, <3>1
      <4>2. Comes(id, draft[id], [w \in WorkerIds |-> Row(r, w)])
        BY <3>1 DEF NoOrphans
      <4>3. PICK j \in RecordItems :
               j.id = id /\ RecordRow(j) = draft[id] /\ WorkerOf(j, [w \in WorkerIds |-> Row(r, w)][j.worker])
        BY <4>1, <4>2 DEF Comes
      <4>4. [w \in WorkerIds |-> Row(r, w)][j.worker] = table'[j.worker]
        BY <2>2, <2>3
      <4>5. QED BY <4>1, <4>3, <4>4
    <3>2. CASE lock[id] # r
      <4>1. table'[id] = table[id]
        BY <1>1, <2>1, <3>2
      <4>2. PICK j \in RecordItems :
               j.id = id /\ RecordRow(j) = table[id] /\ WorkerOf(j, table[j.worker])
        BY <4>1 DEF NoOrphans, Comes
      <4>3. WorkerOf(j, table'[j.worker])
        BY <1>1, <1>5, <2>2, <4>2 DEF WorkerOf, Drafts
      <4>4. QED BY <4>1, <4>2, <4>3
    <3>3. QED BY <3>1, <3>2
  <2>5. Comes(id, draft[id], [w \in WorkerIds |-> Row(lock[id], w)])'
    <3>1. SUFFICES ASSUME draft'[id] # None
                   PROVE  \E j \in RecordItems :
                             j.id = id /\ RecordRow(j) = draft'[id]
                             /\ WorkerOf(j, Row(lock[id], j.worker)')
      BY <2>2 DEF Comes
    <3>2. lock[id] # r /\ lock'[id] = lock[id] /\ draft'[id] = draft[id]
      BY <1>1, <2>1, <3>1
    <3>3. PICK j \in RecordItems :
             j.id = id /\ RecordRow(j) = draft[id] /\ WorkerOf(j, Row(lock[id], j.worker))
      BY <2>2, <3>1, <3>2 DEF NoOrphans, Comes
    <3>4. PICK s \in Requests : s = lock[id]
      BY <2>1, <3>1, <3>2 DEF Drafts, TypeOK
    <3>5. WorkerOf(j, Row(s, j.worker)')
      BY <1>1, <1>4, <2>2, <3>3, <3>4, StandsKept
    <3>6. QED BY <3>2, <3>3, <3>4, <3>5
  <2>6. QED BY <2>4, <2>5
<1>12. AnswersStand'
  BY <1>1, <1>4, AnswersKept DEF AnswersStand
<1>13. SoloDrafts'
  <2> SUFFICES ASSUME NEW id \in WorkerIds, lock'[id] # None, lock'[id] \notin overlapped
               PROVE  /\ draft'[id] \in WorkerRows
                      /\ table'[id] # None => draft'[id].updatedAt > table'[id].updatedAt
    BY <1>1 DEF SoloDrafts
  <2>1. lock[id] # r /\ lock'[id] = lock[id] /\ draft'[id] = draft[id] /\ table'[id] = table[id]
    BY <1>1 DEF Ids
  <2>2. QED BY <2>1 DEF SoloDrafts
<1>14. QED
  BY <1>6, <1>7, <1>8, <1>9, <1>10, <1>11, <1>12, <1>13, NoLoneDuplicate

\* A batch that fails takes its drafts and answers with it and nothing of the others'.
LEMMA RollbackIInv ==
    ASSUME IInv, NEW r \in Requests, Active(r), Rollback(r)
    PROVE  IInv'
<1> USE DEF IInv
<1>1. /\ pc' = [pc EXCEPT ![r] = "failed"]
      /\ lock' = [id \in Ids |-> IF lock[id] = r THEN None ELSE lock[id]]
      /\ draft' = [id \in Ids |-> IF lock[id] = r THEN None ELSE draft[id]]
      /\ write' = [write EXCEPT ![r] = None]
      /\ answers' = [answers EXCEPT ![r] = <<>>]
      /\ UNCHANGED <<table, batch, overlapped>>
  BY DEF Rollback, End, Release
<1>2. /\ pc' \in [Requests -> InFlight \cup {"idle", "done", "failed"}] /\ pc'[r] = "failed"
      /\ answers'[r] = <<>>
      /\ \A s \in Requests \ {r} :
            pc'[s] = pc[s] /\ write'[s] = write[s] /\ answers'[s] = answers[s]
      /\ DOMAIN write' = Requests /\ DOMAIN answers' = Requests
  BY <1>1 DEF TypeOK
<1>3. /\ \A s \in Requests \ {r} : Active(s)' = Active(s)
      /\ ~Active(r)'
  BY <1>1, <1>2 DEF Active, InFlight
<1>4. \A s \in Requests \ {r} : Kept(s) /\ \A id \in Ids : Row(s, id)' = Row(s, id)
  BY RollbackKeeps
<1>5. None \notin Requests
  BY RequestsAssumption
<1>6. TypeOK'
  <2>1. \A id \in Ids : {table'[id], draft'[id]} \subseteq RowType(id) \cup {None}
    BY <1>1 DEF TypeOK
  <2>2. lock' \in [Ids -> Requests \cup {None}]
    BY <1>1 DEF TypeOK
  <2>3. QED BY <1>1, <1>2, <2>1, <2>2 DEF TypeOK
<1>7. Progress'
  <2> SUFFICES ASSUME NEW s \in Requests
               PROVE  /\ pc'[s] \in {"idle", "failed"} => answers'[s] = <<>>
                      /\ pc'[s] # "idle" => batch'[s] \in Batches
                      /\ Active(s)' \/ pc'[s] = "done" =>
                           /\ answers'[s] \in Seq(AnswerCodes)
                           /\ Len(answers'[s]) <= Len(batch'[s].items)
                           /\ (Len(answers'[s]) < Len(batch'[s].items))
                                = (pc'[s] \in {"item", "parent", "flush"})
    BY DEF Progress
  <2>1. CASE s = r
    BY <1>1, <1>2, <1>3, <2>1 DEF Progress, Active, InFlight
  <2>2. CASE s # r
    BY <1>1, <1>2, <1>3, <2>2 DEF Progress
  <2>3. QED BY <2>1, <2>2
<1>8. Drafts'
  <2> SUFFICES ASSUME NEW id \in Ids
               PROVE  /\ (lock'[id] = None) = (draft'[id] = None)
                      /\ lock'[id] # None =>
                           /\ Active(lock[id])'
                           /\ id \in RecordIds => table'[id] = None
                           /\ id \in WorkerIds =>
                                /\ draft'[id].site = batch'[lock'[id]].site
                                /\ table'[id] # None => table'[id].site = draft'[id].site
    BY DEF Drafts
  <2>1. CASE lock[id] = r
    BY <1>1, <2>1
  <2>2. CASE lock[id] # r
    <3>1. lock'[id] = lock[id] /\ draft'[id] = draft[id] /\ table'[id] = table[id]
      BY <1>1, <2>2
    <3>2. lock[id] # None => lock[id] \in Requests \ {r}
      BY <2>2 DEF TypeOK
    <3>3. QED BY <1>1, <1>3, <3>1, <3>2 DEF Drafts
  <2>3. QED BY <2>1, <2>2
<1>9. OverlapIsRecorded'
  BY <1>1, <1>3 DEF OverlapIsRecorded
<1>10. WriteIsDue'
  <2> SUFFICES ASSUME NEW s \in Requests, pc'[s] \in {"parent", "flush"} PROVE IsDue(s)'
    BY DEF WriteIsDue
  <2>1. s # r /\ pc'[s] = pc[s] /\ write'[s] = write[s] /\ answers'[s] = answers[s]
    BY <1>2
  <2>2. \A id \in Ids : lock'[id] = s => lock[id] = s
    BY <1>1, <1>5
  <2>3. QED BY <1>1, <1>4, <2>1, <2>2, DueKept
<1>11. NoOrphans'
  <2> SUFFICES ASSUME NEW id \in RecordIds, draft'[id] # None
               PROVE  \E j \in RecordItems :
                         j.id = id /\ RecordRow(j) = draft'[id]
                         /\ WorkerOf(j, Row(lock[id], j.worker)')
    <3>1. \A j \in RecordItems : j.worker \in WorkerIds
      BY RowOfType DEF RecordItems, WorkerItems
    <3>2. QED BY <1>1, <3>1 DEF NoOrphans, Comes
  <2>1. id \in Ids
    BY DEF Ids
  <2>2. \A j \in RecordItems : j \in SentItems /\ j.worker \in WorkerIds /\ j.worker \in Ids
    BY RowOfType DEF RecordItems, WorkerItems
  <2>3. lock[id] # r /\ lock'[id] = lock[id] /\ draft'[id] = draft[id]
    BY <1>1, <2>1
  <2>4. PICK j \in RecordItems :
           j.id = id /\ RecordRow(j) = draft[id] /\ WorkerOf(j, Row(lock[id], j.worker))
    BY <2>2, <2>3 DEF NoOrphans, Comes
  <2>5. PICK s \in Requests \ {r} : s = lock[id]
    BY <2>1, <2>3 DEF Drafts, TypeOK
  <2>6. Row(s, j.worker)' = Row(s, j.worker)
    BY <1>4, <2>2
  <2>7. QED BY <2>3, <2>4, <2>5, <2>6
<1>12. AnswersStand'
  <2> SUFFICES ASSUME NEW s \in Requests, NEW k \in DOMAIN answers'[s] PROVE AnswerStands(s, k)'
    BY DEF AnswersStand
  <2>1. s # r
    BY <1>2
  <2>2. QED BY <2>1, <1>1, <1>2, <1>4, AnswersKept
<1>13. SoloDrafts'
  <2> SUFFICES ASSUME NEW id \in WorkerIds, lock'[id] # None, lock'[id] \notin overlapped
               PROVE  /\ draft'[id] \in WorkerRows
                      /\ table'[id] # None => draft'[id].updatedAt > table'[id].updatedAt
    BY <1>1 DEF SoloDrafts
  <2>1. lock[id] # r /\ lock'[id] = lock[id] /\ draft'[id] = draft[id] /\ table'[id] = table[id]
    BY <1>1 DEF Ids
  <2>2. QED BY <2>1 DEF SoloDrafts
<1>14. QED
  BY <1>6, <1>7, <1>8, <1>9, <1>10, <1>11, <1>12, <1>13, NoLoneDuplicate

\* Only a request in flight runs into a duplicate key or into a deadlock.
LEMMA StepsAreActive ==
    ASSUME NEW r \in Requests, FailOnDuplicate(r) \/ Crash(r) \/ BreakDeadlock(r)
    PROVE  Active(r) /\ Rollback(r)
<1>1. CASE FailOnDuplicate(r)
  BY <1>1 DEF FailOnDuplicate, DuplicateKey, Active, InFlight
<1>2. CASE Crash(r)
  BY <1>2 DEF Crash
<1>3. CASE BreakDeadlock(r)
  <2>1. PICK s : Waits(r, s)
    BY <1>3 DEF BreakDeadlock
  <2>2. QED BY <1>3, <2>1 DEF BreakDeadlock, Waits, Active, InFlight
<1>4. QED BY <1>1, <1>2, <1>3

\* No step of any request, whatever the others are at, breaks the invariant.
LEMMA StepIInv ==
    ASSUME IInv, [Next]_vars
    PROVE  IInv'
<1>1. CASE UNCHANGED vars
  <2>1. \A r \in Requests : \A id : Row(r, id)' = Row(r, id)
    BY <1>1 DEF vars, Row
  <2>2. (TypeOK /\ Progress /\ Drafts /\ OverlapIsRecorded)'
    BY <1>1 DEF vars, IInv, TypeOK, Progress, Drafts, OverlapIsRecorded, Active
  <2>3. WriteIsDue'
    <3> SUFFICES ASSUME NEW r \in Requests, pc[r] \in {"parent", "flush"} PROVE IsDue(r)'
      BY <1>1 DEF vars, WriteIsDue
    <3>1. Kept(r)
      BY <2>1 DEF Kept
    <3>2. QED BY <1>1, <2>1, <3>1, DueKept DEF vars
  <2>4. NoOrphans'
    BY <1>1 DEF vars, IInv, NoOrphans, Comes, Row
  <2>5. AnswersStand'
    <3>1. \A r \in Requests : Kept(r)
      BY <2>1 DEF Kept
    <3>2. QED BY <1>1, <3>1, AnswersKept DEF vars, IInv, AnswersStand
  <2>6. SoloDrafts'
    BY <1>1 DEF vars, IInv, SoloDrafts
  <2>7. QED BY <2>2, <2>3, <2>4, <2>5, <2>6, NoLoneDuplicate DEF IInv
<1>2. ASSUME NEW r \in Requests, Begin(r) PROVE IInv'
  BY <1>2, BeginIInv
<1>3. ASSUME NEW r \in Requests, ReadItem(r) PROVE IInv'
  BY <1>3, ReadItemIInv
<1>4. ASSUME NEW r \in Requests, ReadParent(r) PROVE IInv'
  BY <1>4, ReadParentIInv
<1>5. ASSUME NEW r \in Requests, Flush(r) PROVE IInv'
  BY <1>5, FlushIInv
<1>6. ASSUME NEW r \in Requests, Commit(r) PROVE IInv'
  BY <1>6, CommitIInv
<1>7. ASSUME NEW r \in Requests, FailOnDuplicate(r) \/ Crash(r) \/ BreakDeadlock(r) PROVE IInv'
  BY <1>7, StepsAreActive, RollbackIInv
<1>8. QED BY <1>1, <1>2, <1>3, <1>4, <1>5, <1>6, <1>7 DEF Next, Step

\* Whatever batches phones send, and however often, however the database interleaves them
\* and whichever of them break off, what ingest has read, written and answered is consistent.
THEOREM IInvHolds == Spec => []IInv
<1>1. Init => IInv
  BY InitIInv
<1>2. IInv /\ [Next]_vars => IInv'
  BY StepIInv
<1>3. QED BY <1>1, <1>2, PTL DEF Spec

-----------------------------------------------------------------------------
(* What phones and supervisors rely on *)

\* A request that is done sees what is committed.
LEMMA DoneSeesTable ==
    ASSUME IInv, NEW r \in Requests, pc[r] = "done"
    PROVE  \A id \in Ids : Row(r, id) = table[id]
BY RequestsAssumption DEF IInv, Drafts, Active, InFlight, Row

\* An item that ingest answered with "accepted" is in the table from the commit on: a phone
\* that takes it off its outbox loses nothing.
THEOREM AcceptedIsStoredHolds == Spec => []AcceptedIsStored
<1>1. IInv => AcceptedIsStored
  <2> SUFFICES ASSUME IInv, NEW r \in Requests, NEW k \in DOMAIN answers[r], Accepted(r, k),
                      NEW i, i = batch[r].items[k]
               PROVE  /\ table[i.id] # None
                      /\ i.kind # "worker" => table[i.id] = RecordRow(i)
                      /\ i.kind = "certificate" => i.site = table[i.worker].site
    BY DEF AcceptedIsStored
  <2>1. i \in SentItems
    BY AnsweredSent DEF IInv
  <2>2. Stands(r, i)
    BY DEF IInv, AnswersStand, AnswerStands, Accepted
  <2>3. Row(r, i.id) = table[i.id] /\ (i.kind # "worker" => Row(r, i.worker) = table[i.worker])
    BY <2>1, DoneSeesTable, RowOfType DEF Accepted
  <2>4. QED BY <2>2, <2>3 DEF Stands, WorkerOf
<1>2. QED BY <1>1, IInvHolds, PTL

\* What ingest rejected for good because of the stored rows is not accepted from anyone at the
\* site, before or after: the phone may give up on it.
THEOREM OnlyPassingFlawsPassHolds == Spec => []OnlyPassingFlawsPass
<1>1. IInv => OnlyPassingFlawsPass
  <2> SUFFICES ASSUME IInv, NEW r \in Requests, NEW s \in Requests,
                      NEW k \in DOMAIN answers[r], NEW l \in DOMAIN answers[s],
                      NEW i, i = batch[r].items[k], NEW j, j = batch[s].items[l],
                      pc[r] = "done", Accepted(s, l), batch[r].site = batch[s].site, Same(i, j),
                      ~Retryable(answers[r][k]), answers[r][k] # "accepted",
                      i.flaw \notin Passing(i.kind)
               PROVE  FALSE
    BY DEF OnlyPassingFlawsPass, GivenUpButTaken
  <2>1. i \in SentItems /\ j \in SentItems
    BY AnsweredSent DEF IInv
  <2>2. Refused(r, i)
    BY DEF IInv, AnswersStand, AnswerStands
  <2>3. j.flaw = None /\ Stands(s, j)
    BY DEF IInv, AnswersStand, AnswerStands, Accepted
  <2>4. j.id \in Ids /\ (j.kind # "worker" => j.worker \in Ids)
    BY <2>1, RowOfType
  <2>5. Row(r, j.id) = Row(s, j.id) /\ (j.kind # "worker" => Row(r, j.worker) = Row(s, j.worker))
    BY <2>4, DoneSeesTable DEF Accepted
  <2>6. i.flaw = None
    <3>1. None \notin Passing(i.kind)
      BY FlawAssumption DEF Passing
    <3>2. i.flaw = j.flaw \/ {i.flaw, j.flaw} \cap Passing(i.kind) # {}
      BY <2>1, FlawAssumption
    <3>3. QED BY <2>3, <3>1, <3>2
  <2>7. /\ i.kind = j.kind /\ i.id = j.id /\ i.site = j.site
        /\ i.kind # "worker" => i.worker = j.worker /\ RecordRow(i) = RecordRow(j)
    BY DEF Same, RowOf, RecordRow
  <2>8. QED BY <2>2, <2>3, <2>5, <2>6, <2>7 DEF Refused, Stands, WorkerOf
<1>2. QED BY <1>1, IInvHolds, PTL

\* A commit of a batch that met no other replaces a worker by a newer copy, as it was sent;
\* nothing but a commit changes a stored row.
THEOREM OnlyOverlapLosesEditsHolds == Spec => OnlyOverlapLosesEdits
<1> DEFINE Change == \A id \in WorkerIds :
              table[id] # None /\ table'[id] # table[id] =>
                 \/ table'[id].updatedAt > table[id].updatedAt /\ table'[id] \in WorkerRows
                 \/ \E r \in overlapped : pc[r] = "commit" /\ pc'[r] = "done"
<1>1. ASSUME IInv, [Next]_vars PROVE Change
  <2>1. ASSUME NEW r \in Requests, Commit(r) PROVE Change
    <3> SUFFICES ASSUME NEW id \in WorkerIds, table[id] # None, table'[id] # table[id],
                        r \notin overlapped
                 PROVE  table'[id].updatedAt > table[id].updatedAt /\ table'[id] \in WorkerRows
      BY <1>1, <2>1 DEF Commit, End, IInv, TypeOK
    <3>1. lock[id] = r /\ table'[id] = draft[id]
      BY <2>1 DEF Commit, Ids
    <3>2. QED BY <1>1, <3>1, RequestsAssumption DEF IInv, SoloDrafts
  <2>2. ASSUME NEW r \in Requests, ~Commit(r), Begin(r) \/ Step(r) \/ Crash(r) PROVE table' = table
    BY <2>2 DEF Begin, Step, ReadItem, ReadParent, Flush, FailOnDuplicate, BreakDeadlock, Crash,
                Rollback
  <2>3. CASE UNCHANGED vars
    BY <2>3 DEF vars
  <2>4. QED BY <1>1, <2>1, <2>2, <2>3 DEF Next
<1>2. QED BY <1>1, IInvHolds, PTL DEF Spec, OnlyOverlapLosesEdits

-----------------------------------------------------------------------------
(* A batch that is alone *)

\* The first items of a batch.
FirstItems(items, k) == [j \in 1..k |-> items[j]]

\* One item more is applied to what the ones before it leave.
LEMMA IngestFirst ==
    ASSUME NEW rows, NEW site, NEW items, NEW k \in Nat
    PROVE  /\ Ingest(rows, site, FirstItems(items, 0)) = [table |-> rows, answers |-> <<>>]
           /\ Ingest(rows, site, FirstItems(items, k + 1))
                = Apply(site, Ingest(rows, site, FirstItems(items, k)), items[k + 1])
<1> DEFINE base == [table |-> rows, answers |-> <<>>]
<1>1. ASSUME NEW n \in Nat
      PROVE  \E after : /\ after[0] = base
                        /\ \A j \in 1..n : after[j] = Apply(site, after[j - 1], items[j])
                        /\ Ingest(rows, site, FirstItems(items, n)) = after[n]
  <2>1. PICK some : some = FirstItems(items, n)
    OBVIOUS
  <2>2. DOMAIN some = 1..n /\ \A j \in 1..n : some[j] = items[j]
    BY <2>1 DEF FirstItems
  <2>3. PICK left : left = Ingest(rows, site, some)
    OBVIOUS
  <2>4. PICK after : /\ after[0] = base
                     /\ \A j \in 1..n : after[j] = Apply(site, after[j - 1], some[j])
                     /\ left = after[n]
    BY <2>2, <2>3, IngestByItem
  <2>5. \A j \in 1..n : after[j] = Apply(site, after[j - 1], items[j])
    BY <2>2, <2>4
  <2>6. Ingest(rows, site, FirstItems(items, n)) = after[n]
    BY <2>1, <2>3, <2>4
  <2> HIDE DEF base
  <2>7. QED BY <2>4, <2>5, <2>6
<1>2. Ingest(rows, site, FirstItems(items, 0)) = base
  <2>1. 0 \in Nat
    OBVIOUS
  <2> HIDE DEF base
  <2>2. QED BY <1>1, <2>1
<1> HIDE DEF base
<1>3. PICK one : /\ one[0] = base
                 /\ \A j \in 1..k : one[j] = Apply(site, one[j - 1], items[j])
                 /\ Ingest(rows, site, FirstItems(items, k)) = one[k]
  BY <1>1
<1>4. PICK two : /\ two[0] = base
                 /\ \A j \in 1..(k + 1) : two[j] = Apply(site, two[j - 1], items[j])
                 /\ Ingest(rows, site, FirstItems(items, k + 1)) = two[k + 1]
  <2>1. k + 1 \in Nat
    OBVIOUS
  <2>2. QED BY <1>1, <2>1
<1> DEFINE S == {j \in Nat : j <= k => one[j] = two[j]}
<1>5. 0 \in S
  BY <1>3, <1>4
<1>6. ASSUME NEW j \in Nat, j \in S PROVE j + 1 \in S
  <2> SUFFICES ASSUME j + 1 <= k PROVE one[j + 1] = two[j + 1]
    OBVIOUS
  <2>1. j + 1 \in 1..k /\ j + 1 \in 1..(k + 1) /\ j + 1 - 1 = j /\ one[j] = two[j]
    BY <1>6
  <2>2. one[j + 1] = Apply(site, one[j], items[j + 1]) /\ two[j + 1] = Apply(site, two[j], items[j + 1])
    BY <1>3, <1>4, <2>1
  <2>3. QED BY <2>1, <2>2
<1>7. one[k] = two[k]
  <2>1. k \in S
    <3> HIDE DEF S
    <3>1. QED BY <1>5, <1>6, EveryNat
  <2>2. QED BY <2>1
<1>8. two[k + 1] = Apply(site, two[k], items[k + 1])
  BY <1>4
<1>9. QED BY <1>2, <1>3, <1>4, <1>7, <1>8 DEF base

\* What a request sees and has answered.
Seen(r) == [table |-> [id \in Ids |-> Row(r, id)], answers |-> answers[r]]

\* A batch that is alone is as far as the first items of it are in the Ledger.
SoloSoFar(r) ==
    Active(r) /\ r \notin overlapped =>
       Ingest(table, batch[r].site, FirstItems(batch[r].items, Len(answers[r]))) = Seen(r)

\* While one is, nothing else changes the rows or the answers.
SoloIInv ==
    /\ IInv /\ table = [id \in Ids |-> table[id]]
    /\ \A r \in Requests : SoloSoFar(r)

\* An item is answered as the Ledger does.
LEMMA OneMore ==
    ASSUME IInv, NEW r \in Requests, SoloSoFar(r), pc[r] \in {"item", "parent", "flush"},
           NEW i, i = Item(r), NEW verdict, verdict = Verdict(Seen(r).table, batch[r].site, i),
           NEW now, now = IF verdict = "accepted" /\ Stores(Seen(r).table, i)
                          THEN [Seen(r).table EXCEPT ![i.id] = RowOf(i)] ELSE Seen(r).table,
           [id \in Ids |-> Row(r, id)]' = now, answers'[r] = Append(answers[r], verdict),
           UNCHANGED <<table, batch, overlapped>>
    PROVE  SoloSoFar(r)'
<1> SUFFICES ASSUME r \notin overlapped
             PROVE  Ingest(table, batch[r].site, FirstItems(batch[r].items, Len(answers'[r])))
                       = [table |-> now, answers |-> answers'[r]]
  BY DEF SoloSoFar, Seen
<1>1. Active(r)
  BY DEF Active, InFlight
<1>2. PICK k, items, site : k = Len(answers[r]) /\ items = batch[r].items /\ site = batch[r].site
  OBVIOUS
<1>3. answers[r] \in Seq(AnswerCodes)
  BY <1>1 DEF IInv, Progress
<1>4. k \in Nat /\ Len(answers'[r]) = k + 1 /\ items[k + 1] = i
  <2>1. k \in Nat
    BY <1>2, <1>3
  <2>2. answers[r] \in Seq(AnswerCodes \cup {verdict})
    BY <1>3
  <2>3. Len(answers'[r]) = k + 1
    BY <1>2, <2>2
  <2>4. QED BY <1>2, <2>1, <2>3 DEF Item
<1>5. Ingest(table, site, FirstItems(items, k)) = Seen(r)
  BY <1>1, <1>2 DEF SoloSoFar
<1>6. Ingest(table, site, FirstItems(items, k + 1)) = Apply(site, Ingest(table, site, FirstItems(items, k)), items[k + 1])
  BY <1>4, IngestFirst
<1>7. Ingest(table, site, FirstItems(items, k + 1)) = Apply(site, Seen(r), i)
  BY <1>4, <1>5, <1>6
<1>8. Seen(r).answers = answers[r]
  BY DEF Seen
<1>9. Apply(site, Seen(r), i) = [table |-> now, answers |-> answers'[r]]
  BY <1>2, <1>8 DEF Apply
<1>10. QED BY <1>2, <1>4, <1>7, <1>9

\* An item that writes nothing.
LEMMA OneAnswered ==
    ASSUME IInv, NEW r \in Requests, SoloSoFar(r), pc[r] \in {"item", "parent", "flush"},
           NEW i, i = Item(r), NEW verdict, verdict = Verdict(Seen(r).table, batch[r].site, i),
           verdict # "accepted" \/ ~Stores(Seen(r).table, i),
           Answer(r, verdict), UNCHANGED <<table, lock, draft, batch, overlapped>>
    PROVE  SoloSoFar(r)'
<1>1. answers'[r] = Append(answers[r], verdict)
  BY DEF Answer, IInv, TypeOK
<1>2. [id \in Ids |-> Row(r, id)]' = Seen(r).table
  BY DEF Row, Seen
<1>3. QED BY <1>1, <1>2, OneMore

\* What is seen of an item.
LEMMA SeenRows ==
    ASSUME NEW r \in Requests, NEW id \in Ids
    PROVE  Seen(r).table[id] = Row(r, id) /\ DOMAIN Seen(r).table = Ids
BY DEF Seen

\* A read of the item's row.
LEMMA SoloReadItem ==
    ASSUME IInv, NEW r \in Requests, SoloSoFar(r), ReadItem(r)
    PROVE  SoloSoFar(r)'
<1>1. PICK i, row, seen, site :
         i = Item(r) /\ row = Row(r, i.id) /\ seen = Seen(r).table /\ site = batch[r].site
  OBVIOUS
<1>2. pc[r] = "item" /\ UNCHANGED <<table, lock, draft, batch, overlapped>>
  BY DEF ReadItem
<1>3. i \in SentItems /\ i.id \in Ids
  BY <1>1, <1>2, ItemSent, RowOfType DEF IInv
<1>4. seen[i.id] = row
  BY <1>1, <1>3, SeenRows
<1>5. row # None => row \in RowType(i.id)
  BY <1>1, <1>3, RowTyped DEF IInv
<1>6. ASSUME NEW verdict, Answer(r, verdict), verdict = Verdict(seen, site, i),
             verdict # "accepted" \/ ~Stores(seen, i)
      PROVE  SoloSoFar(r)'
  BY <1>1, <1>2, <1>6, OneAnswered
<1>7. ASSUME answers' = answers PROVE SoloSoFar(r)'
  BY <1>2, <1>7 DEF SoloSoFar, Seen, Row, Active, InFlight
<1>8. CASE i.flaw # None
  <2>1. Answer(r, i.flaw)
    BY <1>1, <1>8 DEF ReadItem, Reject
  <2>2. i.flaw # "accepted"
    BY <1>3, ItemsAssumption
  <2>3. Verdict(seen, site, i) = i.flaw
    BY <1>8 DEF Verdict
  <2>4. QED BY <1>6, <2>1, <2>2, <2>3
<1>9. CASE i.flaw = None /\ i.kind = "worker"
  <2>1. DecideWorker(r, i, row)
    BY <1>1, <1>9 DEF ReadItem
  <2>2. Verdict(seen, site, i) = IF WrongSite(seen, site, i) THEN "invalid_payload" ELSE "accepted"
    BY <1>9 DEF Verdict
  <2>3. CASE i.site # site \/ (row # None /\ row.site # site)
    <3>1. Answer(r, "invalid_payload")
      BY <1>1, <2>1, <2>3 DEF DecideWorker, Reject
    <3>2. Verdict(seen, site, i) = "invalid_payload"
      BY <1>4, <2>2, <2>3 DEF WrongSite
    <3>3. QED BY <1>6, <3>1, <3>2
  <2>4. CASE i.site = site /\ row # None /\ row.site = site /\ ~Newer(i, row)
    <3>1. Answer(r, "accepted")
      BY <1>1, <2>1, <2>4 DEF DecideWorker
    <3>2. Verdict(seen, site, i) = "accepted"
      BY <1>4, <2>2, <2>4 DEF WrongSite
    <3>3. ~Stores(seen, i)
      BY <1>4, <2>4 DEF Stores, Newer
    <3>4. QED BY <1>6, <3>1, <3>2, <3>3
  <2>5. CASE i.site = site /\ (row = None \/ (row.site = site /\ Newer(i, row)))
    <3>1. answers' = answers
      BY <1>1, <2>1, <2>5 DEF DecideWorker, WriteNext
    <3>2. pc'[r] = "flush"
      BY <1>1, <2>1, <2>5 DEF DecideWorker, WriteNext, IInv, TypeOK
    <3>3. QED BY <1>7, <3>1, <3>2
  <2>6. QED BY <2>3, <2>4, <2>5
<1>10. CASE i.flaw = None /\ i.kind # "worker" /\ row # None
  <2>1. PICK verdict : verdict = IF Conflicts(i, row) THEN "conflict_immutable" ELSE "accepted"
    OBVIOUS
  <2>2. Answer(r, verdict)
    BY <1>1, <1>10, <2>1 DEF ReadItem
  <2>3. Verdict(seen, site, i) = verdict
    BY <1>4, <1>10, <2>1 DEF Verdict, Conflicts
  <2>4. ~Stores(seen, i)
    BY <1>4, <1>10 DEF Stores
  <2>5. QED BY <1>6, <2>2, <2>3, <2>4
<1>11. CASE i.flaw = None /\ i.kind # "worker" /\ row = None
  BY <1>1, <1>7, <1>11 DEF ReadItem
<1>12. QED BY <1>8, <1>9, <1>10, <1>11

\* A read of the worker's.
LEMMA SoloReadParent ==
    ASSUME IInv, NEW r \in Requests, r \notin overlapped, SoloSoFar(r), ReadParent(r)
    PROVE  SoloSoFar(r)'
<1>1. PICK i, worker, seen, site :
         i = Item(r) /\ worker = Parent(r) /\ seen = Seen(r).table /\ site = batch[r].site
  OBVIOUS
<1>2. pc[r] = "parent" /\ UNCHANGED <<table, lock, draft, batch, overlapped>>
  BY DEF ReadParent
<1>3. i \in SentItems /\ i.id \in Ids
  BY <1>1, <1>2, ItemSent, RowOfType DEF IInv
<1>4. i.flaw = None /\ i.kind # "worker" /\ lock[i.id] # r /\ table[i.id] = None
  BY <1>1, <1>2 DEF IInv, WriteIsDue, IsDue
<1>5. i.worker \in Ids
  BY <1>3, <1>4, RowOfType
<1>6. seen[i.id] = None /\ seen[i.worker] = worker
  BY <1>1, <1>3, <1>4, <1>5, SeenRows DEF Row, Parent
<1>7. Verdict(seen, site, i) = IF worker = None THEN "missing_worker"
                               ELSE IF ~FitsSite(i, worker) THEN "invalid_certificate" ELSE "accepted"
  BY <1>4, <1>6 DEF Verdict, FitsSite
<1>8. ASSUME NEW verdict, Answer(r, verdict), verdict = Verdict(seen, site, i), verdict # "accepted"
      PROVE  SoloSoFar(r)'
  BY <1>1, <1>2, <1>8, OneAnswered
<1>9. CASE worker = None
  BY <1>1, <1>7, <1>8, <1>9 DEF ReadParent, Reject
<1>10. CASE worker # None /\ ~FitsSite(i, worker)
  BY <1>1, <1>7, <1>8, <1>10 DEF ReadParent, Reject
<1>11. CASE worker # None /\ FitsSite(i, worker)
  <2>1. answers' = answers
    BY <1>1, <1>11 DEF ReadParent, WriteNext
  <2>2. QED BY <1>2, <2>1 DEF SoloSoFar, Seen, Row, Active, InFlight
<1>12. QED BY <1>9, <1>10, <1>11

\* A write.
LEMMA SoloFlush ==
    ASSUME IInv, NEW r \in Requests, r \notin overlapped, SoloSoFar(r), Flush(r)
    PROVE  SoloSoFar(r)'
<1>1. PICK i, row, seen, site :
         i = Item(r) /\ row = Row(r, i.id) /\ seen = Seen(r).table /\ site = batch[r].site
  OBVIOUS
<1>2. pc[r] = "flush" /\ UNCHANGED <<table, batch, overlapped>> /\ Answer(r, "accepted") /\ IsDue(r)
  BY DEF Flush, IInv, WriteIsDue
<1>3. i \in SentItems /\ i.id \in Ids
  BY <1>1, <1>2, ItemSent, RowOfType DEF IInv
<1>4. seen[i.id] = row /\ DOMAIN seen = Ids
  BY <1>1, <1>3, SeenRows
<1>5. i.kind # "worker" => i.worker \in Ids /\ seen[i.worker] = Row(r, i.worker)
  BY <1>1, <1>3, RowOfType, SeenRows
<1>6. i.flaw = None /\ (i.kind = "worker" => i.site = site)
  BY <1>1, <1>2 DEF IsDue
<1>7. \/ write[r].kind = "insert" /\ row = None /\ write[r].columns = RowOf(i)
      \/ /\ write[r].kind # "insert" /\ i.kind = "worker" /\ row # None /\ row.site = i.site
         /\ Newer(i, row) /\ write[r].columns = Changed(i, row)
  <2>1. CASE write[r].kind = "insert"
    BY <1>1, <1>2, <2>1 DEF IsDue, Row
  <2>2. CASE write[r].kind # "insert"
    BY <1>1, <1>2, <2>2 DEF IsDue
  <2>3. QED BY <2>1, <2>2
<1>8. Verdict(seen, site, i) = "accepted"
  <2>1. CASE i.kind = "worker"
    <3>1. ~WrongSite(seen, site, i)
      BY <1>4, <1>6, <1>7, <2>1 DEF WrongSite
    <3>2. QED BY <1>6, <2>1, <3>1 DEF Verdict
  <2>2. CASE i.kind # "worker"
    <3>1. row = None /\ WorkerOf(i, seen[i.worker])
      BY <1>1, <1>2, <1>5, <1>7, <2>2 DEF IsDue
    <3>2. QED BY <1>4, <1>6, <2>2, <3>1 DEF Verdict, WorkerOf
  <2>3. QED BY <2>1, <2>2
<1>9. Stores(seen, i)
  BY <1>4, <1>7 DEF Stores, Newer
<1>10. Row(r, i.id)' = RowOf(i)
  <2>1. DOMAIN draft = Ids /\ lock \in [Ids -> Requests \cup {None}]
    BY DEF IInv, TypeOK
  <2>2. Row(r, i.id)' = IF write[r].kind = "insert" THEN write[r].columns ELSE Overwrite(row, write[r].columns)
    BY <1>1, <1>3, <2>1 DEF Flush, Row
  <2>3. CASE write[r].kind = "insert"
    BY <1>7, <2>2, <2>3
  <2>4. CASE write[r].kind # "insert"
    <3>1. i \in WorkerItems /\ RowOf(i) = WorkerRow(i) /\ row \in WorkerRowType
      BY <1>1, <1>3, <1>7, <2>4, RowOfType, RowTyped DEF IInv, RowType
    <3>2. QED BY <1>7, <2>2, <2>4, <3>1, ChangedApplied
  <2>5. QED BY <2>3, <2>4
<1>11. \A id \in Ids \ {i.id} : Row(r, id)' = Row(r, id)
  BY <1>1, FlushKeeps
<1>12. [id \in Ids |-> Row(r, id)]' = [seen EXCEPT ![i.id] = RowOf(i)]
  <2>1. seen = [id \in Ids |-> Row(r, id)]
    BY <1>1 DEF Seen
  <2>2. QED BY <1>3, <1>10, <1>11, <2>1
<1>13. answers'[r] = Append(answers[r], "accepted")
  BY <1>2 DEF Answer, IInv, TypeOK
<1>14. QED BY <1>1, <1>2, <1>8, <1>9, <1>12, <1>13, OneMore

\* The batch begins with the committed rows.
LEMMA SoloBegin ==
    ASSUME IInv, table = [id \in Ids |-> table[id]], NEW r \in Requests, Begin(r)
    PROVE  SoloSoFar(r)'
<1>1. pc[r] = "idle" /\ answers[r] = <<>> /\ UNCHANGED <<table, lock, draft, answers>>
  BY DEF Begin, IInv, Progress
<1>2. \A id \in Ids : Row(r, id)' = table[id]
  BY <1>1, RequestsAssumption DEF IInv, Drafts, Active, InFlight, Row
<1>3. [id \in Ids |-> Row(r, id)]' = table
  BY <1>2
<1>4. Seen(r)' = [table |-> table, answers |-> <<>>]
  BY <1>1, <1>3 DEF Seen
<1>5. PICK items, site : items = batch'[r].items /\ site = batch'[r].site
  OBVIOUS
<1>6. Ingest(table, site, FirstItems(items, 0)) = [table |-> table, answers |-> <<>>]
  <2>1. 0 \in Nat
    OBVIOUS
  <2>2. QED BY <2>1, IngestFirst
<1>7. Len(answers'[r]) = 0 /\ table' = table
  BY <1>1
<1>8. QED BY <1>4, <1>5, <1>6, <1>7 DEF SoloSoFar

\* While a batch is alone no other does anything.
LEMMA SoloOthers ==
    ASSUME IInv, NEW r \in Requests, SoloSoFar(r), NEW s \in Requests, s # r,
           Begin(s) \/ Step(s) \/ Crash(s)
    PROVE  SoloSoFar(r)'
<1> SUFFICES ASSUME Active(r)', r \notin overlapped' PROVE FALSE
  BY DEF SoloSoFar
<1>1. Active(r)
  <2>1. pc'[r] = pc[r]
    BY DEF IInv, TypeOK, Begin, Step, Crash, ReadItem, DecideWorker, ReadParent, Flush, Commit, Reject, Answer,
           WriteNext, FailOnDuplicate, BreakDeadlock, Rollback, End
  <2>2. QED BY <2>1 DEF Active
<1>2. overlapped \subseteq overlapped'
  BY DEF Begin, Step, Crash, ReadItem, ReadParent, Flush, Commit, FailOnDuplicate, BreakDeadlock, Rollback, End
<1>3. CASE Begin(s)
  <2>1. r \in ActiveRequests
    BY <1>1 DEF ActiveRequests
  <2>2. QED BY <1>3, <2>1 DEF Begin
<1>4. CASE Step(s) \/ Crash(s)
  <2>1. Active(s)
    BY <1>4, StepsAreActive DEF Step, ReadItem, ReadParent, Flush, Commit, Active, InFlight
  <2>2. QED BY <1>1, <1>2, <2>1 DEF IInv, OverlapIsRecorded
<1>5. QED BY <1>3, <1>4

\* Every step.
LEMMA SoloStep ==
    ASSUME SoloIInv, [Next]_vars
    PROVE  SoloIInv'
<1>1. IInv' /\ IInv
  BY StepIInv DEF SoloIInv
<1>2. (table = [id \in Ids |-> table[id]])'
  <2>1. table' = table \/ \E rows : table' = [id \in Ids |-> rows[id]]
    <3>1. ASSUME NEW r \in Requests, Commit(r) PROVE \E rows : table' = [id \in Ids |-> rows[id]]
      <4>1. table' = [id \in Ids |-> IF lock[id] = r THEN draft[id] ELSE table[id]]
        BY <3>1 DEF Commit
      <4>2. table' = [id \in Ids |-> table'[id]]
        BY <4>1
      <4>3. QED BY <4>2
    <3>2. ASSUME NEW r \in Requests, ~Commit(r), Begin(r) \/ Step(r) \/ Crash(r) PROVE table' = table
      BY <3>2 DEF Begin, Step, ReadItem, ReadParent, Flush, FailOnDuplicate, BreakDeadlock, Crash, Rollback
    <3>3. QED BY <3>1, <3>2 DEF Next, vars
  <2>2. QED BY <2>1 DEF SoloIInv
<1>3. ASSUME NEW r \in Requests PROVE SoloSoFar(r)'
  <2>1. SoloSoFar(r)
    BY DEF SoloIInv
  <2>2. CASE UNCHANGED vars
    BY <2>1, <2>2 DEF vars, SoloSoFar, Seen, Row, Active
  <2>3. ASSUME NEW s \in Requests, s # r, Begin(s) \/ Step(s) \/ Crash(s) PROVE SoloSoFar(r)'
    BY <1>1, <2>1, <2>3, SoloOthers
  <2>4. CASE Begin(r)
    BY <2>4, SoloBegin DEF SoloIInv
  <2>5. ASSUME r \notin overlapped, ReadItem(r) \/ ReadParent(r) \/ Flush(r) PROVE SoloSoFar(r)'
    BY <1>1, <2>1, <2>5, SoloReadItem, SoloReadParent, SoloFlush
  <2>6. ASSUME r \in overlapped, ReadItem(r) \/ ReadParent(r) \/ Flush(r) PROVE SoloSoFar(r)'
    BY <2>6 DEF SoloSoFar, ReadItem, ReadParent, Flush
  <2>7. ASSUME Commit(r) \/ FailOnDuplicate(r) \/ BreakDeadlock(r) \/ Crash(r) PROVE SoloSoFar(r)'
    <3>1. pc'[r] \in {"done", "failed"}
      BY <1>1, <2>7 DEF Commit, FailOnDuplicate, BreakDeadlock, Crash, Rollback, End, IInv, TypeOK
    <3>2. QED BY <3>1 DEF SoloSoFar, Active, InFlight
  <2>8. QED BY <2>2, <2>3, <2>4, <2>5, <2>6, <2>7 DEF Next, Step
<1>4. QED BY <1>1, <1>2, <1>3 DEF SoloIInv

\* A batch that met no other is answered, and leaves the table, as the items are specified
\* to be decided one after the other: whatever the server held, whichever items the
\* batch has, and whether or not it or another one was sent or broken off before.
THEOREM SoloBatchHolds == Spec => SoloBatchIsSequential
<1> DEFINE Solo == \A r \in Requests :
              pc[r] = "commit" /\ pc'[r] = "done" /\ r \notin overlapped =>
                LET ledger == Ingest(table, batch[r].site, batch[r].items)
                IN  table' = ledger.table /\ answers[r] = ledger.answers
<1>1. Init => SoloIInv
  <2> SUFFICES ASSUME Init PROVE SoloIInv
    OBVIOUS
  <2>1. IInv
    BY InitIInv
  <2>2. table = [id \in Ids |-> table[id]]
    BY DEF Init
  <2>3. \A r \in Requests : ~Active(r)
    BY DEF Init, Active, InFlight
  <2>4. QED BY <2>1, <2>2, <2>3 DEF SoloIInv, SoloSoFar
<1>2. SoloIInv /\ [Next]_vars => SoloIInv'
  BY SoloStep
<1>3. SoloIInv /\ [Next]_vars => [Solo]_vars
  <2> SUFFICES ASSUME SoloIInv, Next, NEW r \in Requests,
                      pc[r] = "commit", pc'[r] = "done", r \notin overlapped
               PROVE  LET ledger == Ingest(table, batch[r].site, batch[r].items)
                      IN  table' = ledger.table /\ answers[r] = ledger.answers
    OBVIOUS
  <2>1. IInv /\ SoloSoFar(r) /\ Active(r)
    BY DEF SoloIInv, Active, InFlight
  <2>2. Commit(r)
    <3>1. PICK s \in Requests : Begin(s) \/ Step(s) \/ Crash(s)
      BY DEF Next
    <3>2. s = r
      BY <2>1, <3>1 DEF IInv, TypeOK, Begin, Step, Crash, ReadItem, DecideWorker, ReadParent, Flush, Commit, Reject,
                        Answer, WriteNext, FailOnDuplicate, BreakDeadlock, Rollback, End
    <3>3. QED BY <2>1, <3>1, <3>2 DEF IInv, TypeOK, Begin, Step, Crash, ReadItem, ReadParent, Flush, FailOnDuplicate,
                                  DuplicateKey, BreakDeadlock, Rollback, End
  <2>3. PICK k, items, site : k = Len(answers[r]) /\ items = batch[r].items /\ site = batch[r].site
    OBVIOUS
  <2>4. FirstItems(items, k) = items
    <3>1. items \in Seq(SentItems) /\ k = Len(items)
      BY <2>1, <2>3, ItemsAssumption DEF IInv, Progress
    <3>2. QED BY <3>1 DEF FirstItems
  <2>5. Ingest(table, site, items) = Seen(r)
    BY <2>1, <2>3, <2>4 DEF SoloSoFar
  <2>6. table' = Seen(r).table /\ answers[r] = Seen(r).answers
    BY <2>2 DEF Commit, Seen, Row
  <2>7. QED BY <2>3, <2>5, <2>6
<1>4. QED BY <1>1, <1>2, <1>3, PTL DEF Spec, SoloBatchIsSequential

-----------------------------------------------------------------------------
(* Scopes *)

\* A committed row stays: a record as it is, a worker at its site.
LEMMA TableKept ==
    ASSUME IInv, [Next]_vars, NEW id \in Ids, table[id] # None
    PROVE  /\ table'[id] # None
           /\ id \in RecordIds => table'[id] = table[id]
           /\ id \in WorkerIds => table'[id].site = table[id].site
<1>1. CASE UNCHANGED vars
  BY <1>1 DEF vars
<1>2. CASE Next
  <2>1. PICK r \in Requests : Begin(r) \/ Step(r) \/ Crash(r)
    BY <1>2 DEF Next
  <2>2. CASE Commit(r)
    <3>1. table' = [i \in Ids |-> IF lock[i] = r THEN draft[i] ELSE table[i]]
      BY <2>2 DEF Commit
    <3>2. CASE lock[id] = r
      <4>1. lock[id] # None
        BY <3>2, RequestsAssumption
      <4>2. draft[id] # None /\ table'[id] = draft[id]
        BY <3>1, <3>2, <4>1 DEF IInv, Drafts
      <4>3. id \notin RecordIds /\ (id \in WorkerIds => table[id].site = draft[id].site)
        BY <4>1 DEF IInv, Drafts
      <4>4. QED BY <4>2, <4>3
    <3>3. CASE lock[id] # r
      BY <3>1, <3>3
    <3>4. QED BY <3>2, <3>3
  <2>3. CASE ~Commit(r)
    <3>1. table' = table
      BY <2>1, <2>3 DEF Begin, Step, ReadItem, ReadParent, Flush, FailOnDuplicate, BreakDeadlock,
                        Crash, Rollback
    <3>2. QED BY <3>1
  <2>4. QED BY <2>2, <2>3
<1>3. QED BY <1>1, <1>2

\* Who has been in a scope stays in it.
LEMMA ScopeGrows ==
    ASSUME IInv, [Next]_vars, NEW profile, NEW ids \in SUBSET RecordIds
    PROVE  /\ ScopedWorkers(profile) \subseteq ScopedWorkers(profile)'
           /\ ScopedRecords(profile, ids) \subseteq ScopedRecords(profile, ids)'
<1>1. ScopedWorkers(profile) \subseteq ScopedWorkers(profile)'
  <2> SUFFICES ASSUME NEW id \in ScopedWorkers(profile)
               PROVE  id \in ScopedWorkers(profile)'
    OBVIOUS
  <2>1. id \in WorkerIds /\ id \in Ids /\ table[id] # None
    BY DEF ScopedWorkers, Committed, Ids
  <2>2. table'[id] # None /\ table'[id].site = table[id].site
    BY <2>1, TableKept
  <2>3. profile.role = "admin" \/ table[id].site \in profile.sites
    BY DEF ScopedWorkers
  <2>4. QED BY <2>1, <2>2, <2>3 DEF ScopedWorkers, Committed
<1>2. ScopedRecords(profile, ids) \subseteq ScopedRecords(profile, ids)'
  <2> SUFFICES ASSUME NEW id \in ScopedRecords(profile, ids)
               PROVE  id \in ScopedRecords(profile, ids)'
    OBVIOUS
  <2>1. id \in ids /\ id \in RecordIds /\ id \in Ids /\ table[id] # None
    BY DEF ScopedRecords, Committed, Ids
  <2>2. table'[id] = table[id] /\ table'[id] # None
    BY <2>1, TableKept
  <2>3. table[id].worker \in ScopedWorkers(profile)
    BY DEF ScopedRecords
  <2>4. table'[id].worker \in ScopedWorkers(profile)'
    BY <1>1, <2>2, <2>3
  <2>5. QED BY <2>1, <2>2, <2>4 DEF ScopedRecords, Committed
<1>3. QED BY <1>1, <1>2

\* A scope is of known ids, and of finitely many workers.
LEMMA ScopeType ==
    ASSUME NEW profile, NEW ids \in SUBSET RecordIds
    PROVE  /\ ScopedWorkers(profile) \subseteq WorkerIds
           /\ ScopedRecords(profile, ids) \subseteq ids
           /\ ScopedRecords(profile, ids) \subseteq ScopedRecords(profile, RecordIds)
           /\ IsFiniteSet(ScopedWorkers(profile))
<1>1. ScopedWorkers(profile) \subseteq WorkerIds
  BY DEF ScopedWorkers, Committed
<1>2. IsFiniteSet(ScopedWorkers(profile))
  BY <1>1, RowsAssumption, FS_Subset
<1>3. QED BY <1>1, <1>2 DEF ScopedRecords, Committed

-----------------------------------------------------------------------------
(* Statements *)

ItsStatements == {"workers", "certificates", "attempts", "count", "page", "certificatesOf",
                  "attemptsOf", "worker", "attempt"}

\* What an endpoint runs, by the kind of its view.
IsRequest(kind, s) ==
    /\ s \in Seq(ItsStatements) /\ Len(s) \in 1..4
    /\ kind \in Lists => Len(s) >= 2 /\ s[1] = "count" /\ s[2] = "page"
    /\ kind \in Lists \ {"workers"} => Len(s) = 2
    /\ kind \in Lists =>
         \A k \in 3..Len(s) : s[k] \in {"certificatesOf", "attemptsOf"}
    /\ kind \notin Lists => \A k \in 1..Len(s) : s[k] \notin {"count", "page"}
    /\ kind # "worker" => \A k \in 1..Len(s) : s[k] # "worker"
    /\ kind # "attempt" => \A k \in 1..Len(s) : s[k] # "attempt"
    /\ kind \in {"overview", "heatmap"} =>
         Len(s) = 3 /\ s[1] = "workers" /\ s[2] = "certificates" /\ s[3] = "attempts"
    /\ kind = "recertDue" => Len(s) = 2 /\ s[1] = "workers" /\ s[2] = "certificates"

\* Every kind of view has such a request.
LEMMA StatementsAre ==
    ASSUME NEW kind \in Kinds \ {"devices"}
    PROVE  IsRequest(kind, Statements(kind))
<1>1. LoadScope(TRUE) = <<"workers", "certificates", "attempts">>
  BY DEF LoadScope
<1>2. LoadScope(FALSE) = <<"workers", "certificates">>
  BY DEF LoadScope
<1>3. CASE kind \in {"overview", "heatmap", "retention"}
  <2>1. Statements(kind) = <<"workers", "certificates", "attempts">>
    BY <1>1, <1>3 DEF Statements, Overview, Heatmap, RetentionByStage
  <2>2. PICK s : s = Statements(kind)
    OBVIOUS
  <2>3. s \in Seq(ItsStatements) /\ Len(s) = 3
    BY <2>1, <2>2 DEF ItsStatements
  <2>4. s[1] = "workers" /\ s[2] = "certificates" /\ s[3] = "attempts"
    BY <2>1, <2>2
  <2>5. \A k \in 1..3 : s[k] \in {"workers", "certificates", "attempts"}
    BY <2>4
  <2>6. IsRequest(kind, s)
    BY <1>3, <2>3, <2>4, <2>5 DEF IsRequest, Lists
  <2>7. QED BY <2>2, <2>6
<1>4. CASE kind \in {"sites", "recertDue"}
  <2>1. Statements(kind) = <<"workers", "certificates">>
    BY <1>2, <1>4 DEF Statements, SiteNumbers, RecertificationDue
  <2>2. QED BY <1>4, <2>1 DEF IsRequest, ItsStatements, Lists
<1>5. CASE kind = "workers"
  <2>1. Statements(kind) = <<"count", "page", "certificatesOf", "attemptsOf">>
    BY <1>5 DEF Statements, ListWorkers
  <2>2. PICK s : s = Statements(kind)
    OBVIOUS
  <2>3. s \in Seq(ItsStatements) /\ Len(s) = 4
    BY <2>1, <2>2 DEF ItsStatements
  <2>4. s[1] = "count" /\ s[2] = "page" /\ s[3] = "certificatesOf" /\ s[4] = "attemptsOf"
    BY <2>1, <2>2
  <2>5. \A k \in 1..4 : s[k] \in {"count", "page", "certificatesOf", "attemptsOf"}
    BY <2>4
  <2>6. IsRequest(kind, s)
    BY <1>5, <2>3, <2>4, <2>5 DEF IsRequest, Lists
  <2>7. QED BY <2>2, <2>6
<1>6. CASE kind \in {"attempts", "certificates"}
  <2>1. Statements(kind) = <<"count", "page">>
    BY <1>6 DEF Statements, ListAttempts, ListCertificates
  <2>2. QED BY <1>6, <2>1 DEF IsRequest, ItsStatements, Lists
<1>7. CASE kind = "worker"
  <2>1. Statements(kind) = <<"worker", "attemptsOf", "certificatesOf">>
    BY <1>7 DEF Statements, WorkerDetail
  <2>2. PICK s : s = Statements(kind)
    OBVIOUS
  <2>3. s \in Seq(ItsStatements) /\ Len(s) = 3
    BY <2>1, <2>2 DEF ItsStatements
  <2>4. s[1] = "worker" /\ s[2] = "attemptsOf" /\ s[3] = "certificatesOf"
    BY <2>1, <2>2
  <2>5. \A k \in 1..3 : s[k] \in {"worker", "attemptsOf", "certificatesOf"}
    BY <2>4
  <2>6. IsRequest(kind, s)
    BY <1>7, <2>3, <2>4, <2>5 DEF IsRequest, Lists
  <2>7. QED BY <2>2, <2>6
<1>8. CASE kind = "attempt"
  <2>1. Statements(kind) = <<"attempt">>
    BY <1>8 DEF Statements, GetAttempt
  <2>2. PICK s : s = Statements(kind)
    OBVIOUS
  <2>3. s \in Seq(ItsStatements) /\ Len(s) = 1
    BY <2>1, <2>2 DEF ItsStatements
  <2>4. s[1] = "attempt"
    BY <2>1, <2>2
  <2>5. \A k \in 1..1 : s[k] \in {"attempt"}
    BY <2>4
  <2>6. IsRequest(kind, s)
    BY <1>8, <2>3, <2>4, <2>5 DEF IsRequest, Lists
  <2>7. QED BY <2>2, <2>6
<1>9. CASE kind = "export"
  <2>1. Statements(kind) = <<"attempts">>
    BY <1>9 DEF Statements, ExportAttempts
  <2>2. PICK s : s = Statements(kind)
    OBVIOUS
  <2>3. s \in Seq(ItsStatements) /\ Len(s) = 1
    BY <2>1, <2>2 DEF ItsStatements
  <2>4. s[1] = "attempts"
    BY <2>1, <2>2
  <2>5. \A k \in 1..1 : s[k] \in {"attempts"}
    BY <2>4
  <2>6. IsRequest(kind, s)
    BY <1>9, <2>3, <2>4, <2>5 DEF IsRequest, Lists
  <2>7. QED BY <2>2, <2>6
<1>10. QED BY <1>3, <1>4, <1>5, <1>6, <1>7, <1>8, <1>9, ViewsAssumption

\* The first of the statements that are left is the one after those that ran.
LEMMA HeadIsNext ==
    ASSUME ViewTypeOK, RestIsEnd, asked # None, todo # <<>>, NEW s, s = Statements(asked.kind)
    PROVE  /\ asked.kind \in Kinds \ {"devices"} /\ IsRequest(asked.kind, s)
           /\ Ran \in 0..(Len(s) - 1) /\ Ran + 1 \in 1..Len(s)
           /\ Head(todo) = s[Ran + 1]
           /\ Tail(todo) = SubSeq(s, Ran + 2, Len(s))
           /\ Len(Tail(todo)) = Len(s) - (Ran + 1)
           /\ Tail(todo) = <<>> <=> Ran + 1 = Len(s)
<1>1. asked.kind \in Kinds \ {"devices"}
  BY DEF ViewTypeOK, Views
<1>2. IsRequest(asked.kind, s)
  BY <1>1, StatementsAre
<1>3. s \in Seq(ItsStatements) /\ Len(s) \in 1..4
  BY <1>2 DEF IsRequest
<1>4. PICK n : n = Ran
  OBVIOUS
<1>5. todo = SubSeq(s, n + 1, Len(s)) /\ n \in 0..Len(s)
  BY <1>4 DEF RestIsEnd
<1>6. n # Len(s)
  BY <1>3, <1>5
<1>7. n \in 0..(Len(s) - 1) /\ n + 1 \in 1..Len(s)
  BY <1>3, <1>5, <1>6
<1>8. Head(todo) = s[n + 1]
  BY <1>3, <1>5, <1>7
<1>9. Tail(todo) = SubSeq(s, n + 2, Len(s))
  BY <1>3, <1>5, <1>7
<1>10. Len(Tail(todo)) = Len(s) - (n + 1)
  BY <1>3, <1>9, <1>7
<1>11. Tail(todo) = <<>> <=> n + 1 = Len(s)
  BY <1>3, <1>9, <1>10, <1>7
<1>12. QED BY <1>1, <1>2, <1>4, <1>7, <1>8, <1>9, <1>10, <1>11

-----------------------------------------------------------------------------
(* Pages *)

\* The places of a list are of rows in the caller's scope.
LEMMA PlacesAre ==
    ASSUME ViewTypeOK, asked # None, asked.kind \in Lists
    PROVE  /\ Places \in SUBSET Int /\ IsFiniteSet(Places)
           /\ Places \subseteq DOMAIN Order
           /\ \A k \in Places :
                 IF asked.kind = "workers" THEN IdOf(Order[k]) \in ScopedWorkers(asked.profile)
                 ELSE IdOf(Order[k]) \in ScopedRecords(asked.profile, RecordIds)
<1>1. Order \in Seq({i.displayName : i \in WorkerItems} \X WorkerIds) \cup Seq(RecordIds)
  BY OrderAssumption DEF Order
<1>2. PICK n \in Nat : DOMAIN Order = 1..n
  BY <1>1
<1>3. CASE asked.kind = "workers"
  <2>1. Places = {k \in DOMAIN ByName : /\ ByName[k][2] \in ScopedWorkers(asked.profile)
                                        /\ table[ByName[k][2]].displayName = ByName[k][1]}
    BY <1>3 DEF Places, ListedWorkers
  <2>2. Order = ByName /\ \A row : IdOf(row) = row[2]
    BY <1>3 DEF Order, IdOf
  <2>3. Places \subseteq DOMAIN Order
    BY <2>1, <2>2
  <2>4. \A k \in Places : IdOf(Order[k]) \in ScopedWorkers(asked.profile)
    BY <2>1, <2>2
  <2>5. IsFiniteSet(Places)
    BY <1>2, <2>3, FS_Interval, FS_Subset
  <2>6. QED BY <1>2, <1>3, <2>3, <2>4, <2>5
<1>4. CASE asked.kind \in {"attempts", "certificates"}
  <2>1. PICK ids \in SUBSET RecordIds :
           Places = {k \in DOMAIN Newest : Newest[k] \in ScopedRecords(asked.profile, ids)}
    <3>1. AttemptIds \subseteq RecordIds /\ CertificateIds \subseteq RecordIds
      BY RowsAssumption
    <3>2. CASE asked.kind = "attempts"
      BY <3>1, <3>2 DEF Places, ListedAttempts
    <3>3. CASE asked.kind = "certificates"
      BY <3>1, <3>3 DEF Places, ListedCertificates
    <3>4. QED BY <1>4, <3>2, <3>3
  <2>2. Order = Newest /\ \A row : IdOf(row) = row
    BY <1>4 DEF Order, IdOf
  <2>3. Places \subseteq DOMAIN Order
    BY <2>1, <2>2
  <2>4. \A k \in Places : IdOf(Order[k]) \in ScopedRecords(asked.profile, ids)
    BY <2>1, <2>2
  <2>5. ScopedRecords(asked.profile, ids) \subseteq ScopedRecords(asked.profile, RecordIds)
    BY <2>1 DEF ScopedRecords, Committed
  <2>6. IsFiniteSet(Places)
    BY <1>2, <2>3, FS_Interval, FS_Subset
  <2>7. QED BY <1>2, <1>4, <2>3, <2>4, <2>5, <2>6
<1>5. QED BY <1>3, <1>4 DEF Lists

\* The list has the row of each place at its rank, and no other row.
LEMMA ListedIs ==
    ASSUME ViewTypeOK, asked # None, asked.kind \in Lists
    PROVE  /\ Len(Listed) = Cardinality(Places) /\ Cardinality(Places) \in Nat
           /\ DOMAIN Listed = 1..Cardinality(Places)
           /\ Listed \in Seq({Order[k] : k \in Places})
           /\ \A k \in Places : /\ Rank(Places, k) \in 1..Cardinality(Places)
                                /\ Listed[Rank(Places, k)] = Order[k]
           /\ ToSet(Listed) \subseteq {Order[k] : k \in Places}
<1>1. Places \in SUBSET Int /\ IsFiniteSet(Places)
  BY PlacesAre
<1>2. Cardinality(Places) \in Nat
  BY <1>1, FS_CardinalityType
<1>3. CASE Places = {}
  <2>1. Cardinality(Places) = 0
    BY <1>3, FS_EmptySet
  <2>2. Listed = <<>>
    BY <2>1 DEF Listed, InOrder
  <2>3. Listed \in Seq({Order[k] : k \in Places}) /\ Len(Listed) = 0
    BY <2>2
  <2>4. DOMAIN Listed = 1..0
    BY <2>2
  <2>5. ToSet(Listed) = {}
    BY <2>2 DEF ToSet
  <2>6. QED BY <1>2, <1>3, <2>1, <2>3, <2>4, <2>5
<1>4. CASE Places # {}
  <2>1. Listed \in [1..Cardinality(Places) -> {Order[k] : k \in Places}]
    BY <1>1, <1>4, AtRank DEF Listed
  <2>2. Listed \in Seq({Order[k] : k \in Places}) /\ Len(Listed) = Cardinality(Places)
    BY <1>2, <2>1
  <2>3. \A k \in Places : /\ Rank(Places, k) \in 1..Cardinality(Places)
                          /\ Listed[Rank(Places, k)] = Order[k]
    BY <1>1, AtRank, RankInRange DEF Listed
  <2>4. ToSet(Listed) \subseteq {Order[k] : k \in Places}
    BY <2>1 DEF ToSet
  <2>5. QED BY <1>2, <2>1, <2>2, <2>3, <2>4
<1>5. QED BY <1>3, <1>4

\* Where a page begins and ends.
LEMMA PageBounds ==
    ASSUME NEW p \in Nat \ {0}
    PROVE  \E from \in Nat : /\ from = (p - 1) * PageSize
                             /\ p * PageSize = from + PageSize
                             /\ (p + 1 - 1) * PageSize = from + PageSize
<1>1. PICK q \in Nat : p = q + 1
  BY p - 1 \in Nat
<1>2. PICK size \in Nat : size = PageSize
  BY OrderAssumption
<1>3. q * size \in Nat
  BY <1>1, <1>2
<1>4. (q + 1) * size = q * size + size
  BY <1>1, <1>2
<1>5. p - 1 = q /\ p + 1 - 1 = q + 1
  BY <1>1
<1>6. QED BY <1>1, <1>2, <1>3, <1>4, <1>5

\* A page has the rows after those of the pages before it, up to its size.
LEMMA PageHas ==
    ASSUME NEW S, NEW rows \in Seq(S), page \in Nat \ {0}
    PROVE  /\ ToSet(PageOf(rows)) \subseteq {rows[n] : n \in 1..Len(rows)}
           /\ \A n \in 1..Len(rows) :
                 n > (page - 1) * PageSize /\ n <= page * PageSize => rows[n] \in ToSet(PageOf(rows))
<1>1. PICK from \in Nat : from = (page - 1) * PageSize /\ page * PageSize = from + PageSize
  BY PageBounds
<1>2. PICK to : to = Min({from + PageSize, Len(rows)})
  OBVIOUS
<1>3. /\ to \in Int /\ to <= Len(rows)
      /\ to = from + PageSize \/ to = Len(rows)
  <2>1. PICK a \in Int : a = from + PageSize
    BY <1>1, OrderAssumption
  <2>2. PICK b \in Int : b = Len(rows)
    OBVIOUS
  <2>3. \E x \in {a, b} : \A y \in {a, b} : x <= y
    BY <2>1, <2>2
  <2>4. to \in {a, b} /\ \A y \in {a, b} : to <= y
    BY <1>2, <2>1, <2>2, <2>3 DEF Min
  <2>5. QED BY <2>1, <2>2, <2>4
<1>4. PageOf(rows) = SubSeq(rows, from + 1, to)
  BY <1>1, <1>2 DEF PageOf
<1>5. DOMAIN SubSeq(rows, from + 1, to) = 1..(IF to < from + 1 THEN 0 ELSE to - from)
  BY <1>1, <1>3
<1>6. \A m \in 1..(to - from) : SubSeq(rows, from + 1, to)[m] = rows[from + m]
  BY <1>1, <1>3
<1>7. ToSet(PageOf(rows)) \subseteq {rows[n] : n \in 1..Len(rows)}
  <2> SUFFICES ASSUME NEW x \in ToSet(PageOf(rows))
               PROVE  x \in {rows[n] : n \in 1..Len(rows)}
    OBVIOUS
  <2>1. PICK m \in DOMAIN SubSeq(rows, from + 1, to) : x = SubSeq(rows, from + 1, to)[m]
    BY <1>4 DEF ToSet
  <2>2. m \in 1..(to - from) /\ to >= from + 1
    BY <1>1, <1>3, <1>5, <2>1
  <2>3. x = rows[from + m] /\ from + m \in 1..Len(rows)
    BY <1>1, <1>3, <1>6, <2>1, <2>2
  <2>4. QED BY <2>3
<1>8. \A n \in 1..Len(rows) :
         n > from /\ n <= from + PageSize => rows[n] \in ToSet(PageOf(rows))
  <2> SUFFICES ASSUME NEW n \in 1..Len(rows), n > from, n <= from + PageSize
               PROVE  rows[n] \in ToSet(PageOf(rows))
    OBVIOUS
  <2>1. n <= to /\ n - from \in 1..(to - from) /\ from + (n - from) = n
    BY <1>1, <1>3, OrderAssumption
  <2>2. n - from \in DOMAIN SubSeq(rows, from + 1, to)
    BY <1>1, <1>3, <1>5, <2>1
  <2>3. SubSeq(rows, from + 1, to)[n - from] = rows[n]
    BY <1>6, <2>1
  <2>4. QED BY <1>4, <2>2, <2>3 DEF ToSet
<1>9. QED BY <1>1, <1>7, <1>8

-----------------------------------------------------------------------------
(* What a statement reads *)

ReadType == [workers : SUBSET WorkerIds, certificates : SUBSET RecordIds, attempts : SUBSET RecordIds]

Found(read) == read.workers \cup read.certificates \cup read.attempts

\* A page has ids of the caller's scope.
LEMMA PageIdsAre ==
    ASSUME ViewTypeOK, asked # None, asked.kind \in Lists,
           NEW ids, ids = {IdOf(row) : row \in ToSet(PageOf(Listed))}
    PROVE  IF asked.kind = "workers" THEN ids \subseteq ScopedWorkers(asked.profile)
           ELSE ids \subseteq ScopedRecords(asked.profile, RecordIds)
<1>1. Listed \in Seq({Order[k] : k \in Places})
  BY ListedIs
<1>2. ToSet(PageOf(Listed)) \subseteq {Listed[n] : n \in 1..Len(Listed)}
  BY <1>1, PageHas DEF ViewTypeOK
<1>3. \A n \in 1..Len(Listed) : Listed[n] \in {Order[k] : k \in Places}
  BY <1>1
<1>4. \A row \in ToSet(PageOf(Listed)) : \E k \in Places : row = Order[k]
  BY <1>2, <1>3
<1>5. QED BY <1>4, PlacesAre

\* So have all other reads, unless the request ends with 404.
LEMMA AfterInScope ==
    ASSUME IInv, ViewTypeOK, RestIsEnd, ReadIsInScope, asked # None, todo # <<>>,
           NEW read, read = After(Head(todo))
    PROVE  /\ read \in ReadType
           /\ ~NotFound(read) => InScope(Found(read))
<1>1. PICK s : s = Statements(asked.kind)
  OBVIOUS
<1>2. PICK n : n = Ran
  OBVIOUS
<1>3. PICK statement : statement = Head(todo)
  OBVIOUS
<1>4. statement = s[n + 1] /\ n + 1 \in 1..Len(s) /\ IsRequest(asked.kind, s)
  BY <1>1, <1>2, <1>3, HeadIsNext
<1>5. statement \in ItsStatements
  BY <1>4 DEF IsRequest
<1>6. got \in ReadType /\ InScope(Found(got))
  BY DEF ViewTypeOK, ReadType, ReadIsInScope, InScope, Found
<1>7. PICK profile : profile = asked.profile
  OBVIOUS
<1>8. PICK scope, records :
         scope = ScopedWorkers(profile) /\ records = ScopedRecords(profile, RecordIds)
  OBVIOUS
<1>9. scope \subseteq WorkerIds /\ records \subseteq RecordIds
  BY <1>8, ScopeType
<1>10. Found(got) \subseteq scope \cup records
  BY <1>6, <1>7, <1>8 DEF InScope
<1>11. AttemptIds \subseteq RecordIds /\ CertificateIds \subseteq RecordIds
  BY RowsAssumption
<1>12. ASSUME NEW ids \in SUBSET RecordIds
       PROVE  ScopedRecords(profile, ids) \subseteq records /\ ScopedRecords(profile, ids) \subseteq RecordIds
  BY <1>8, <1>9, ScopeType
<1>13. ASSUME NEW ids \in SUBSET RecordIds
       PROVE  OfWorkers(got.workers, ids) \subseteq records /\ OfWorkers(got.workers, ids) \subseteq RecordIds
  <2>1. \A id \in OfWorkers(got.workers, ids) :
           id \in RecordIds /\ table[id] # None /\ table[id].worker \in got.workers
    BY DEF OfWorkers, Committed
  <2>2. got.workers \subseteq scope
    <3>1. got.workers \subseteq WorkerIds /\ got.workers \subseteq scope \cup records
      BY <1>6, <1>10 DEF ReadType, Found
    <3>2. WorkerIds \cap RecordIds = {}
      BY ItemsAssumption
    <3>3. QED BY <1>9, <3>1, <3>2
  <2>3. QED BY <1>8, <2>1, <2>2 DEF ScopedRecords, Committed
<1>14. CASE statement = "workers"
  <2>1. read = [got EXCEPT !.workers = scope]
    BY <1>3, <1>7, <1>8, <1>14 DEF After
  <2>2. read \in ReadType /\ Found(read) \subseteq scope \cup records
    BY <1>6, <1>9, <1>10, <2>1 DEF ReadType, Found
  <2>3. QED BY <1>7, <1>8, <2>2 DEF InScope
<1>15. CASE statement = "certificates"
  <2>1. PICK ids : ids = ScopedRecords(profile, CertificateIds)
    OBVIOUS
  <2>2. ids \subseteq records /\ ids \subseteq RecordIds
    BY <1>11, <1>12, <2>1
  <2>3. read = [got EXCEPT !.certificates = ids]
    BY <1>3, <1>7, <1>15, <2>1 DEF After
  <2>4. read \in ReadType /\ Found(read) \subseteq scope \cup records
    BY <1>6, <1>10, <2>2, <2>3 DEF ReadType, Found
  <2>5. QED BY <1>7, <1>8, <2>4 DEF InScope
<1>16. CASE statement = "attempts"
  <2>1. PICK ids : ids = ScopedRecords(profile, AttemptIds)
    OBVIOUS
  <2>2. ids \subseteq records /\ ids \subseteq RecordIds
    BY <1>11, <1>12, <2>1
  <2>3. read = [got EXCEPT !.attempts = ids]
    BY <1>3, <1>7, <1>16, <2>1 DEF After
  <2>4. read \in ReadType /\ Found(read) \subseteq scope \cup records
    BY <1>6, <1>10, <2>2, <2>3 DEF ReadType, Found
  <2>5. QED BY <1>7, <1>8, <2>4 DEF InScope
<1>17. CASE statement = "certificatesOf"
  <2>1. PICK ids : ids = OfWorkers(got.workers, CertificateIds)
    OBVIOUS
  <2>2. ids \subseteq records /\ ids \subseteq RecordIds
    BY <1>11, <1>13, <2>1
  <2>3. read = [got EXCEPT !.certificates = ids]
    BY <1>3, <1>17, <2>1 DEF After
  <2>4. read \in ReadType /\ Found(read) \subseteq scope \cup records
    BY <1>6, <1>10, <2>2, <2>3 DEF ReadType, Found
  <2>5. QED BY <1>7, <1>8, <2>4 DEF InScope
<1>18. CASE statement = "attemptsOf"
  <2>1. PICK ids : ids = OfWorkers(got.workers, AttemptIds)
    OBVIOUS
  <2>2. ids \subseteq records /\ ids \subseteq RecordIds
    BY <1>11, <1>13, <2>1
  <2>3. read = [got EXCEPT !.attempts = ids]
    BY <1>3, <1>18, <2>1 DEF After
  <2>4. read \in ReadType /\ Found(read) \subseteq scope \cup records
    BY <1>6, <1>10, <2>2, <2>3 DEF ReadType, Found
  <2>5. QED BY <1>7, <1>8, <2>4 DEF InScope
<1>19. CASE statement = "worker"
  <2>1. asked.kind = "worker" /\ asked.id \in WorkerIds
    BY <1>4, <1>19 DEF IsRequest, ViewTypeOK
  <2>2. PICK ids : ids = Committed({asked.id})
    OBVIOUS
  <2>3. ids \subseteq {asked.id} /\ \A id \in ids : table[id] # None
    BY <2>2 DEF Committed
  <2>4. read = [got EXCEPT !.workers = ids]
    BY <1>3, <1>19, <2>2 DEF After
  <2>5. read \in ReadType
    BY <1>6, <2>1, <2>3, <2>4 DEF ReadType
  <2>6. ASSUME ~NotFound(read)
        PROVE  ids \subseteq scope
    <3>1. PICK id \in ids : CanSeeSite(profile, table[id].site)
      BY <1>6, <1>7, <2>1, <2>4, <2>6 DEF NotFound, ReadType
    <3>2. id \in scope
      BY <1>8, <2>1, <2>3, <3>1 DEF ScopedWorkers, Committed, CanSeeSite
    <3>3. QED BY <2>3, <3>1, <3>2
  <2>7. ~NotFound(read) => Found(read) \subseteq scope \cup records
    BY <1>6, <1>10, <2>4, <2>6 DEF ReadType, Found
  <2>8. QED BY <1>7, <1>8, <2>5, <2>7 DEF InScope
<1>20. CASE statement = "attempt"
  <2>1. asked.kind = "attempt" /\ asked.id \in RecordIds
    BY <1>4, <1>11, <1>20 DEF IsRequest, ViewTypeOK
  <2>2. PICK ids : ids = ScopedRecords(profile, {asked.id})
    OBVIOUS
  <2>3. ids \subseteq records /\ ids \subseteq RecordIds
    BY <1>8, <1>9, <2>1, <2>2 DEF ScopedRecords, Committed
  <2>4. read = [got EXCEPT !.attempts = ids]
    BY <1>3, <1>7, <1>20, <2>2 DEF After
  <2>5. read \in ReadType /\ Found(read) \subseteq scope \cup records
    BY <1>6, <1>10, <2>3, <2>4 DEF ReadType, Found
  <2>6. QED BY <1>7, <1>8, <2>5 DEF InScope
<1>21. CASE statement = "page"
  <2>1. asked.kind \in Lists
    BY <1>4, <1>21 DEF IsRequest
  <2>2. PICK ids : ids = {IdOf(row) : row \in ToSet(PageOf(Listed))}
    OBVIOUS
  <2>3. IF asked.kind = "workers" THEN ids \subseteq scope ELSE ids \subseteq records
    BY <1>7, <1>8, <2>1, <2>2, PageIdsAre
  <2>4. read = [got EXCEPT ![asked.kind] = ids]
    BY <1>3, <1>21, <2>2 DEF After
  <2>5. CASE asked.kind = "workers"
    <3>1. read = [got EXCEPT !.workers = ids]
      BY <2>4, <2>5
    <3>2. read \in ReadType /\ Found(read) \subseteq scope \cup records
      BY <1>6, <1>9, <1>10, <2>3, <2>5, <3>1 DEF ReadType, Found
    <3>3. QED BY <1>7, <1>8, <3>2 DEF InScope
  <2>6. CASE asked.kind = "attempts"
    <3>1. read = [got EXCEPT !.attempts = ids]
      BY <2>4, <2>6
    <3>2. read \in ReadType /\ Found(read) \subseteq scope \cup records
      BY <1>6, <1>9, <1>10, <2>3, <2>6, <3>1 DEF ReadType, Found
    <3>3. QED BY <1>7, <1>8, <3>2 DEF InScope
  <2>7. CASE asked.kind = "certificates"
    <3>1. read = [got EXCEPT !.certificates = ids]
      BY <2>4, <2>7
    <3>2. read \in ReadType /\ Found(read) \subseteq scope \cup records
      BY <1>6, <1>9, <1>10, <2>3, <2>7, <3>1 DEF ReadType, Found
    <3>3. QED BY <1>7, <1>8, <3>2 DEF InScope
  <2>8. QED BY <2>1, <2>5, <2>6, <2>7 DEF Lists
<1>22. CASE statement = "count"
  <2>1. read = got
    BY <1>3, <1>22 DEF After
  <2>2. QED BY <1>6, <2>1
<1>23. QED BY <1>5, <1>14, <1>15, <1>16, <1>17, <1>18, <1>19, <1>20, <1>21, <1>22 DEF ItsStatements

-----------------------------------------------------------------------------
(* Steps of a view *)

\* A statement changes nothing that a scope depends on.
LEMMA SameScope ==
    ASSUME UNCHANGED vars, UNCHANGED asked
    PROVE  /\ \A p, ids : /\ ScopedWorkers(p)' = ScopedWorkers(p)
                          /\ ScopedRecords(p, ids)' = ScopedRecords(p, ids)
           /\ \A ids : InScope(ids)' = InScope(ids)
           /\ Order' = Order
BY DEF vars, ScopedWorkers, ScopedRecords, InScope, Committed, Order

\* After a statement the rest is the end of the request still, and what it read is in scope.
LEMMA ReadBasics ==
    ASSUME IInv, ViewIInv, Read, UNCHANGED vars
    PROVE  ViewTypeOK' /\ RestIsEnd' /\ ReadIsInScope'
<1>0. PICK due \in SUBSET MayBeDue(After(Head(todo))) : RunNext(due)
  BY DEF Read
<1>1. asked # None /\ todo # <<>> /\ asked' = asked /\ page' = page
  BY <1>0 DEF Read, RunNext, ViewIInv, ViewTypeOK
<1>2. PICK read, outcome : read = After(Head(todo)) /\ outcome = Outcome(read, Tail(todo), due)
  OBVIOUS
<1>12. PICK rest : rest = Tail(todo)
  OBVIOUS
<1>13. /\ outcome = None <=> ~NotFound(read) /\ rest # <<>>
       /\ outcome = 404 <=> NotFound(read)
       /\ outcome = 200 => ~NotFound(read)
  <2>1. outcome = Outcome(read, rest, due)
    BY <1>2, <1>12
  <2>2. QED BY <2>1, ViewsAssumption DEF Outcome
<1>3. /\ got' = IF outcome = None THEN read ELSE Nothing
      /\ todo' = IF outcome = 404 THEN <<>> ELSE Tail(todo)
      /\ code' = outcome
  BY <1>0, <1>2 DEF RunNext
<1>4. read \in ReadType /\ (~NotFound(read) => InScope(Found(read)))
  BY <1>1, <1>2, AfterInScope DEF ViewIInv
<1>5. PICK s, n : s = Statements(asked.kind) /\ n = Ran
  OBVIOUS
<1>6. /\ IsRequest(asked.kind, s)
      /\ n \in 0..(Len(s) - 1) /\ n + 1 \in 1..Len(s)
      /\ Head(todo) = s[n + 1]
      /\ Tail(todo) = SubSeq(s, n + 2, Len(s))
      /\ Len(Tail(todo)) = Len(s) - (n + 1)
      /\ Tail(todo) = <<>> <=> n + 1 = Len(s)
  BY <1>1, <1>5, HeadIsNext DEF ViewIInv
<1>7. s \in Seq(ItsStatements) /\ Len(s) \in 1..4
  BY <1>6 DEF IsRequest
<1>8. ViewTypeOK'
  <2>1. Nothing \in ReadType
    BY DEF Nothing, ReadType
  <2>2. got' \in ReadType
    BY <1>3, <1>4, <2>1
  <2>3. total' \in Nat
    <3>1. CASE Head(todo) = "count"
      <4>1. asked.kind \in Lists
        BY <1>6, <3>1 DEF IsRequest
      <4>2. Len(Listed) \in Nat
        BY <1>1, <4>1, ListedIs DEF ViewIInv
      <4>3. QED BY <1>0, <3>1, <4>2 DEF RunNext
    <3>2. CASE Head(todo) # "count"
      BY <1>0, <3>2 DEF RunNext, ViewIInv, ViewTypeOK
    <3>3. QED BY <3>1, <3>2
  <2>4. failures' \in Nat
    <3>1. failures \in Nat /\ (failures' = failures + 1 \/ failures' = failures)
      BY <1>0 DEF RunNext, ViewIInv, ViewTypeOK
    <3>2. QED BY <3>1
  <2>5. disturbed' \in BOOLEAN
    <3>1. disturbed' = (\/ disturbed
                        \/ Head(todo) = "page" /\ (total # Len(Listed) \/ ~listed \subseteq Places))
      BY <1>0 DEF RunNext
    <3>2. QED BY <3>1
  <2>6. QED BY <1>1, <2>2, <2>3, <2>4, <2>5 DEF ViewIInv, ViewTypeOK, ReadType
<1>9. RestIsEnd'
  <2>1. Ran' = Len(s) - Len(todo')
    BY <1>1, <1>5 DEF Ran
  <2>2. Statements(asked.kind)' = s
    BY <1>1, <1>5 DEF Statements, Overview, SiteNumbers, Heatmap, RetentionByStage,
          RecertificationDue, ListWorkers, WorkerDetail, ListAttempts, GetAttempt, ExportAttempts,
          ListCertificates, LoadScope
  <2>3. CASE outcome = 404
    <3>1. todo' = <<>> /\ Len(todo') = 0 /\ got' = Nothing
      BY <1>3, <2>3, ViewsAssumption
    <3>2. code' # None
      BY <1>3, <2>3, ViewsAssumption
    <3>3. SubSeq(s, Len(s) + 1, Len(s)) = <<>>
      BY <1>7
    <3>4. QED BY <1>7, <2>1, <2>2, <3>1, <3>2, <3>3 DEF RestIsEnd
  <2>4. CASE outcome # 404
    <3>6. todo' = Tail(todo)
      BY <1>3, <2>4
    <3>7. todo' = SubSeq(s, n + 2, Len(s)) /\ Len(todo') = Len(s) - (n + 1)
      BY <1>6, <3>6
    <3>1. todo' = SubSeq(s, n + 2, Len(s)) /\ Ran' = n + 1
      <4>1. PICK m \in Int : m = Len(s)
        BY <1>7
      <4>2. Len(todo') = m - (n + 1) /\ n \in Int
        BY <1>6, <3>7, <4>1
      <4>3. Ran' = m - (m - (n + 1))
        BY <2>1, <4>1, <4>2
      <4>4. m - (m - (n + 1)) = n + 1
        BY <4>1, <4>2
      <4>5. QED BY <3>7, <4>3, <4>4
    <3>2. (code' = None) = (todo' # <<>>)
      BY <1>3, <1>12, <1>13, <2>4, <3>6
    <3>3. todo' = <<>> => got' = Nothing
      BY <1>3, <3>2
    <3>4. Ran' \in 0..Len(s) /\ Ran' + 1 = n + 2
      BY <1>6, <1>7, <3>1
    <3>5. QED BY <2>2, <3>1, <3>2, <3>3, <3>4 DEF RestIsEnd
  <2>5. QED BY <2>3, <2>4
<1>10. ReadIsInScope'
  <2>1. PICK scope : scope = ScopedWorkers(asked.profile) \cup ScopedRecords(asked.profile, RecordIds)
    OBVIOUS
  <2>2. \A ids : InScope(ids)' = (ids \subseteq scope) /\ InScope(ids) = (ids \subseteq scope)
    BY <1>1, <2>1, SameScope DEF InScope
  <2>3. shown \subseteq scope
    BY <1>1, <2>1 DEF ViewIInv, ReadIsInScope, InScope
  <2>4. Found(got') \cup shown' \subseteq scope
    <3>1. CASE outcome = None
      <4>1. got' = read /\ shown' = shown
        BY <1>0, <1>2, <1>3, <3>1, ViewsAssumption DEF RunNext
      <4>2. Found(read) \subseteq scope
        BY <1>4, <1>13, <2>2, <3>1, ViewsAssumption
      <4>3. QED BY <2>3, <4>1, <4>2
    <3>2. CASE outcome # None
      <4>1. Found(got') = {}
        BY <1>3, <3>2 DEF Found, Nothing
      <4>2. CASE outcome = 200
        <5>1. shown' = shown \cup Found(read)
          BY <1>0, <1>2, <4>2 DEF RunNext, Found
        <5>2. Found(read) \subseteq scope
          BY <1>4, <1>13, <2>2, <4>2, ViewsAssumption
        <5>3. QED BY <2>3, <4>1, <5>1, <5>2
      <4>3. CASE outcome # 200
        <5>1. shown' = shown
          BY <1>0, <1>2, <4>3 DEF RunNext
        <5>2. QED BY <2>3, <4>1, <5>1
      <4>4. QED BY <4>2, <4>3
    <3>3. QED BY <3>1, <3>2
  <2>5. (got.workers \cup got.certificates \cup got.attempts \cup shown)' \subseteq scope
    BY <2>4 DEF Found
  <2>6. QED BY <1>1, <2>1, <2>5, SameScope DEF ReadIsInScope, InScope
<1>11. QED BY <1>8, <1>9, <1>10

\* The first statement is known by what is left.
LEMMA FirstIs ==
    ASSUME ViewTypeOK, RestIsEnd, asked # None, todo # <<>>
    PROVE  First <=> Ran = 0 /\ page = 1 /\ failures = 0
<1>1. PICK s, n : s = Statements(asked.kind) /\ n = Ran
  OBVIOUS
<1>2. s \in Seq(ItsStatements) /\ n \in 0..(Len(s) - 1)
  BY <1>1, HeadIsNext DEF IsRequest
<1>3. todo = SubSeq(s, n + 1, Len(s))
  BY <1>1 DEF RestIsEnd
<1>4. n = 0 => todo = s
  BY <1>2, <1>3
<1>5. todo = s => n = Len(s) - Len(s)
  BY <1>1 DEF Ran
<1>6. QED BY <1>1, <1>2, <1>4, <1>5 DEF First

\* A request fails for a worker that was committed after it had read them.
LEMMA ReadFailures ==
    ASSUME IInv, ViewIInv, Read, UNCHANGED vars
    PROVE  FailuresAreNew'
<1>0. PICK due \in SUBSET MayBeDue(After(Head(todo))) : RunNext(due)
  BY DEF Read
<1>1. asked # None /\ todo # <<>> /\ asked' = asked /\ page' = page
  BY <1>0 DEF Read, RunNext, ViewIInv, ViewTypeOK
<1>2. PICK read, outcome, rest :
         read = After(Head(todo)) /\ rest = Tail(todo) /\ outcome = Outcome(read, rest, due)
  OBVIOUS
<1>3. /\ got' = IF outcome = None THEN read ELSE Nothing
      /\ todo' = IF outcome = 404 THEN <<>> ELSE rest
      /\ failures' = IF outcome = 500 THEN failures + 1 ELSE failures
      /\ opened' = IF First THEN Rows ELSE opened
      /\ code' = outcome
  BY <1>0, <1>2 DEF RunNext
<1>4. PICK kind, s, n, scope :
         kind = asked.kind /\ s = Statements(kind) /\ n = Ran /\ scope = ScopedWorkers(asked.profile)
  OBVIOUS
<1>5. /\ IsRequest(kind, s)
      /\ n \in 0..(Len(s) - 1)
      /\ Head(todo) = s[n + 1]
      /\ Len(rest) = Len(s) - (n + 1)
      /\ rest = <<>> <=> n + 1 = Len(s)
  BY <1>1, <1>2, <1>4, HeadIsNext DEF ViewIInv
<1>6. failures \in Nat
  BY DEF ViewIInv, ViewTypeOK
<1>7. outcome = 500 => kind \in LookUps
  <2>1. ASSUME kind \notin LookUps
        PROVE  LooksUp(read, due) = {}
    BY <1>4, <2>1 DEF LooksUp, LookUps
  <2>2. QED BY <1>2, <2>1, ViewsAssumption DEF Outcome
<1>8. /\ failures' # 0 => asked'.kind \in LookUps
      /\ code' = 500 => failures' # 0
  BY <1>1, <1>3, <1>4, <1>6, <1>7 DEF ViewIInv, FailuresAreNew
<1>9. ASSUME kind \in LookUps
      PROVE  LET workers == IF todo' = <<>> \/ Ran' = 0 THEN scope ELSE got'.workers
             IN  opened' \subseteq workers /\ failures' <= Cardinality(workers \ opened')
  <2>1. ~NotFound(read)
    BY <1>4, <1>9 DEF NotFound, LookUps
  <2>2. outcome = IF rest # <<>> THEN None ELSE IF LooksUp(read, due) \subseteq read.workers THEN 200 ELSE 500
    BY <1>2, <2>1 DEF Outcome
  <2>3. todo' = rest /\ Ran' = n + 1
    <3>1. todo' = rest
      BY <1>3, <2>2, ViewsAssumption
    <3>2. Statements(kind)' = s
      BY <1>4 DEF Statements, Overview, SiteNumbers, Heatmap, RetentionByStage,
            RecertificationDue, ListWorkers, WorkerDetail, ListAttempts, GetAttempt, ExportAttempts,
            ListCertificates, LoadScope
    <3>3. PICK m \in Int : m = Len(s)
      BY <1>5 DEF IsRequest
    <3>4. Len(todo') = m - (n + 1) /\ n \in Int
      BY <1>5, <3>1, <3>3
    <3>5. Ran' = m - (m - (n + 1))
      BY <1>1, <1>4, <3>2, <3>3, <3>4 DEF Ran
    <3>6. m - (m - (n + 1)) = n + 1
      BY <3>3, <3>4
    <3>7. QED BY <3>1, <3>5, <3>6
  <2>4. IsFiniteSet(scope) /\ Cardinality(scope) \in Nat /\ scope \subseteq WorkerIds
    BY <1>4, ScopeType, FS_CardinalityType
  <2>5. CASE n = 0
    <3>1. Head(todo) = "workers" /\ rest # <<>>
      BY <1>5, <1>9, <2>5 DEF IsRequest, LookUps
    <3>2. read = [got EXCEPT !.workers = scope]
      BY <1>2, <1>4, <3>1 DEF After
    <3>3. got'.workers = scope
      <4>1. got' = read
        BY <1>3, <2>2, <3>1
      <4>2. got \in ReadType
        BY DEF ViewIInv, ViewTypeOK, ReadType
      <4>3. QED BY <3>2, <4>1, <4>2 DEF ReadType
    <3>4. todo' # <<>> /\ Ran' # 0
      BY <2>3, <2>5, <3>1
    <3>5. failures' = failures
      BY <1>3, <2>2, <3>1, ViewsAssumption
    <3>6. CASE First
      <4>1. opened' = scope
        BY <1>3, <1>4, <1>9, <3>6 DEF Rows, Lists, LookUps
      <4>2. failures = 0
        BY <3>6 DEF First
      <4>3. scope \ opened' = {}
        BY <4>1
      <4>4. Cardinality(scope \ opened') = 0
        BY <4>3, FS_EmptySet
      <4>5. QED BY <3>3, <3>4, <3>5, <4>1, <4>2, <4>4
    <3>7. CASE ~First
      <4>1. opened' = opened
        BY <1>3, <3>7
      <4>2. opened \subseteq scope /\ failures <= Cardinality(scope \ opened)
        BY <1>1, <1>4, <1>9, <2>5 DEF ViewIInv, FailuresAreNew
      <4>3. QED BY <3>3, <3>4, <3>5, <4>1, <4>2
    <3>8. QED BY <3>6, <3>7
  <2>6. CASE n # 0
    <3>1. opened' = opened
      <4>1. ~First
        BY <1>1, <1>4, <2>6, FirstIs DEF ViewIInv
      <4>2. QED BY <1>3, <4>1
    <3>2. PICK workers : workers = got.workers
      OBVIOUS
    <3>3. opened \subseteq workers /\ failures <= Cardinality(workers \ opened)
      BY <1>1, <1>4, <1>9, <2>6, <3>2 DEF ViewIInv, FailuresAreNew
    <3>4. Head(todo) \in {"certificates", "attempts"} /\ Ran' # 0
      BY <1>5, <1>9, <2>3, <2>6 DEF IsRequest, LookUps
    <3>5. read.workers = workers
      <4>1. got \in ReadType
        BY DEF ViewIInv, ViewTypeOK, ReadType
      <4>2. PICK ids : read = [got EXCEPT !.certificates = ids] \/ read = [got EXCEPT !.attempts = ids]
        BY <1>2, <3>4 DEF After
      <4>3. QED BY <3>2, <4>1, <4>2 DEF ReadType
    <3>6. workers \subseteq scope
      <4>1. workers \subseteq WorkerIds
        BY <3>2 DEF ViewIInv, ViewTypeOK
      <4>2. workers \subseteq scope \cup ScopedRecords(asked.profile, RecordIds)
        BY <1>1, <1>4, <3>2 DEF ViewIInv, ReadIsInScope, InScope
      <4>3. ScopedRecords(asked.profile, RecordIds) \subseteq RecordIds
        BY ScopeType
      <4>4. QED BY <4>1, <4>2, <4>3, ItemsAssumption
    <3>7. CASE rest # <<>>
      <4>1. outcome = None /\ got' = read /\ failures' = failures
        BY <1>3, <2>2, <3>7, ViewsAssumption
      <4>2. QED BY <2>3, <3>1, <3>3, <3>4, <3>5, <3>7, <4>1
    <3>8. CASE rest = <<>>
      <4>1. opened' \subseteq scope /\ todo' = <<>>
        BY <2>3, <3>1, <3>3, <3>6, <3>8
      <4>2. IsFiniteSet(scope \ opened) /\ Cardinality(scope \ opened) \in Nat
        BY <2>4, FS_Subset, FS_CardinalityType
      <4>3. workers \ opened \subseteq scope \ opened
        BY <3>6
      <4>4. IsFiniteSet(workers \ opened) /\ Cardinality(workers \ opened) <= Cardinality(scope \ opened)
        BY <4>2, <4>3, FS_Subset
      <4>5. Cardinality(workers \ opened) \in Nat
        BY <4>4, FS_CardinalityType
      <4>6. CASE LooksUp(read, due) \subseteq read.workers
        <5>1. failures' = failures
          BY <1>3, <2>2, <3>8, <4>6
        <5>2. failures <= Cardinality(scope \ opened)
          BY <1>6, <3>3, <4>2, <4>4, <4>5
        <5>3. QED BY <3>1, <4>1, <5>1, <5>2
      <4>7. CASE ~(LooksUp(read, due) \subseteq read.workers)
        <5>1. failures' = failures + 1
          BY <1>3, <2>2, <3>8, <4>7, ViewsAssumption
        <5>2. LooksUp(read, due) \subseteq scope
          <6>1. CASE kind = "heatmap"
            <7>1. Head(todo) = "attempts"
              BY <1>5, <3>8, <6>1 DEF IsRequest
            <7>2. read.attempts = ScopedRecords(asked.profile, AttemptIds)
              <8>1. read = [got EXCEPT !.attempts = ScopedRecords(asked.profile, AttemptIds)]
                BY <1>2, <7>1 DEF After
              <8>2. QED BY <8>1 DEF ViewIInv, ViewTypeOK
            <7>3. \A id \in read.attempts : table[id].worker \in scope
              BY <1>4, <7>2 DEF ScopedRecords
            <7>4. LooksUp(read, due) = {table[id].worker : id \in read.attempts}
              BY <1>4, <6>1 DEF LooksUp
            <7>5. QED BY <7>3, <7>4
          <6>2. CASE kind \in {"overview", "recertDue"}
            <7>1. read \in ReadType /\ InScope(Found(read))
              BY <1>1, <1>2, <2>1, AfterInScope DEF ViewIInv
            <7>2. read.certificates \subseteq ScopedRecords(asked.profile, RecordIds)
              <8>1. read.certificates \subseteq RecordIds /\ read.certificates \subseteq Found(read)
                BY <7>1 DEF ReadType, Found
              <8>2. ScopedWorkers(asked.profile) \subseteq WorkerIds
                BY ScopeType
              <8>3. QED BY <7>1, <8>1, <8>2, ItemsAssumption DEF InScope
            <7>3. \A id \in read.certificates : table[id].worker \in scope
              BY <1>4, <7>2 DEF ScopedRecords
            <7>4. LooksUp(read, due) = due
              BY <1>4, <6>2 DEF LooksUp
            <7>5. due \subseteq {table[id].worker : id \in read.certificates}
              BY <1>0, <1>2 DEF MayBeDue
            <7>6. QED BY <7>3, <7>4, <7>5
          <6>3. QED BY <1>9, <6>1, <6>2 DEF LookUps
        <5>3. PICK late \in scope : late \notin workers
          BY <3>5, <4>7, <5>2
        <5>4. late \notin opened /\ late \in scope \ opened /\ late \notin workers \ opened
          BY <3>3, <5>3
        <5>5. Cardinality(workers \ opened) # Cardinality(scope \ opened)
          BY <4>2, <4>3, <5>4, FS_Subset
        <5>6. failures + 1 <= Cardinality(scope \ opened)
          BY <1>6, <3>3, <4>2, <4>4, <4>5, <5>5
        <5>7. QED BY <3>1, <4>1, <5>1, <5>6
      <4>8. QED BY <4>6, <4>7
    <3>9. QED BY <3>7, <3>8
  <2>7. QED BY <2>5, <2>6
<1>10. ScopedWorkers(asked.profile)' = scope
  BY <1>1, <1>4, SameScope
<1>11. QED BY <1>1, <1>4, <1>8, <1>9, <1>10 DEF FailuresAreNew

\* A page leaves the rows behind it behind it, if none has moved since the last one.
LEMMA ReadRows ==
    ASSUME IInv, ViewIInv, Read, UNCHANGED vars
    PROVE  RowsLeftAreBehind'
<1> SUFFICES ASSUME asked'.kind \in Lists, ~disturbed'
             PROVE  /\ listed' \subseteq DOMAIN Order'
                    /\ IF todo' # <<>> /\ Ran' < 2 THEN got' = Nothing ELSE total' = Cardinality(listed')
                    /\ \A row \in opened' : \E k \in listed' :
                          /\ Order'[k] = row
                          /\ \/ IdOf(row)' \in shown' \cup got'[asked'.kind]
                             \/ Rank(listed', k) > PagesRead' * PageSize
  BY DEF RowsLeftAreBehind, Rank
<1>0. PICK due \in SUBSET MayBeDue(After(Head(todo))) : RunNext(due)
  BY DEF Read
<1>1. asked # None /\ todo # <<>> /\ asked' = asked /\ page' = page
  BY <1>0 DEF Read, RunNext, ViewIInv, ViewTypeOK
<1>2. PICK read, outcome, rest :
         read = After(Head(todo)) /\ rest = Tail(todo) /\ outcome = Outcome(read, rest, due)
  OBVIOUS
<1>3. PICK kind, s, n : kind = asked.kind /\ s = Statements(kind) /\ n = Ran
  OBVIOUS
<1>4. /\ IsRequest(kind, s)
      /\ n \in 0..(Len(s) - 1)
      /\ Head(todo) = s[n + 1]
      /\ Len(rest) = Len(s) - (n + 1)
      /\ rest = <<>> <=> n + 1 = Len(s)
  BY <1>1, <1>2, <1>3, HeadIsNext DEF ViewIInv
<1>5. kind \in Lists /\ kind \notin {"worker", "attempt", "overview", "heatmap", "recertDue"}
  BY <1>1, <1>3 DEF Lists
<1>6. outcome = IF rest # <<>> THEN None ELSE 200
  <2>1. ~NotFound(read) /\ LooksUp(read, due) = {}
    BY <1>3, <1>5 DEF NotFound, LooksUp
  <2>2. QED BY <1>2, <2>1 DEF Outcome
<1>7. /\ got' = IF rest # <<>> THEN read ELSE Nothing
      /\ shown' = IF rest # <<>> THEN shown ELSE shown \cup Found(read)
      /\ todo' = rest
  <2>1. /\ got' = IF outcome = None THEN read ELSE Nothing
        /\ shown' = IF outcome = 200 THEN shown \cup Found(read) ELSE shown
        /\ todo' = IF outcome = 404 THEN <<>> ELSE rest
    BY <1>0, <1>2 DEF RunNext, Found
  <2>2. rest # <<>> => outcome = None /\ outcome # 200 /\ outcome # 404
    BY <1>6, ViewsAssumption
  <2>3. rest = <<>> => outcome = 200 /\ outcome # None /\ outcome # 404
    BY <1>6, ViewsAssumption
  <2>4. QED BY <2>1, <2>2, <2>3
<1>8. Ran' = n + 1
  <2>1. Statements(kind)' = s
    BY <1>3 DEF Statements, Overview, SiteNumbers, Heatmap, RetentionByStage,
          RecertificationDue, ListWorkers, WorkerDetail, ListAttempts, GetAttempt, ExportAttempts,
          ListCertificates, LoadScope
  <2>2. PICK m \in Int : m = Len(s)
    BY <1>4 DEF IsRequest
  <2>3. Len(todo') = m - (n + 1) /\ n \in Int
    BY <1>4, <1>7, <2>2
  <2>4. Ran' = m - (m - (n + 1))
    BY <1>1, <1>3, <2>1, <2>2, <2>3 DEF Ran
  <2>5. m - (m - (n + 1)) = n + 1
    BY <2>2, <2>3
  <2>6. QED BY <2>4, <2>5
<1>9. /\ opened' = IF First THEN Rows ELSE opened
      /\ listed' = IF First \/ Head(todo) = "page" THEN Places ELSE listed
      /\ total' = IF Head(todo) = "count" THEN Len(Listed) ELSE total
      /\ Head(todo) = "page" => total = Len(Listed) /\ listed \subseteq Places
      /\ ~disturbed
  BY <1>0, <1>1 DEF RunNext
<1>10. First <=> n = 0 /\ page = 1 /\ failures = 0
  BY <1>1, <1>3, FirstIs DEF ViewIInv
<1>11. Order' = Order /\ \A row : IdOf(row)' = IdOf(row)
  BY <1>1, SameScope DEF IdOf
<1>12. /\ listed \subseteq DOMAIN Order
       /\ IF n < 2 THEN got = Nothing ELSE total = Cardinality(listed)
       /\ \A row \in opened : \E k \in listed :
             /\ Order[k] = row
             /\ IdOf(row) \in shown \cup got[kind] \/ Rank(listed, k) > PagesRead * PageSize
  BY <1>1, <1>3, <1>5, <1>9 DEF ViewIInv, RowsLeftAreBehind
<1>13. /\ Places \in SUBSET Int /\ IsFiniteSet(Places)
       /\ Places \subseteq DOMAIN Order
       /\ Len(Listed) = Cardinality(Places) /\ Cardinality(Places) \in Nat
       /\ Listed \in Seq({Order[k] : k \in Places})
       /\ \A k \in Places : /\ Rank(Places, k) \in 1..Cardinality(Places)
                            /\ Listed[Rank(Places, k)] = Order[k]
       /\ ToSet(Listed) \subseteq {Order[k] : k \in Places}
  BY <1>1, <1>3, <1>5, PlacesAre, ListedIs DEF ViewIInv
<1>14. page \in Nat \ {0} /\ got \in ReadType
  BY DEF ViewIInv, ViewTypeOK, ReadType
<1>15. PICK from \in Nat : from = (page - 1) * PageSize /\ page * PageSize = from + PageSize
  BY <1>14, PageBounds
<1>16. CASE n = 0
  <2>1. Head(todo) = "count" /\ rest # <<>>
    BY <1>4, <1>5, <1>16 DEF IsRequest
  <2>2. read = got /\ got = Nothing
    BY <1>2, <1>12, <1>16, <2>1 DEF After
  <2>3. got' = got /\ shown' = shown /\ todo' # <<>> /\ Ran' = 1
    BY <1>7, <1>8, <1>16, <2>1, <2>2
  <2>4. PagesRead' = page - 1 /\ PagesRead = page - 1
    BY <1>1, <1>3, <1>16, <2>3 DEF PagesRead
  <2>5. CASE First
    <3>1. opened' = ToSet(Listed) /\ listed' = Places
      BY <1>3, <1>5, <1>9, <2>5 DEF Rows
    <3>2. (page - 1) * PageSize = 0
      BY <1>10, <2>5, OrderAssumption
    <3>3. \A row \in opened' : \E k \in listed' :
             Order[k] = row /\ Rank(listed', k) > (page - 1) * PageSize
      <4> SUFFICES ASSUME NEW row \in ToSet(Listed)
                   PROVE  \E k \in Places : Order[k] = row /\ Rank(Places, k) > 0
        BY <3>1, <3>2
      <4>1. PICK k \in Places : Order[k] = row
        BY <1>13
      <4>2. Rank(Places, k) \in 1..Cardinality(Places)
        BY <1>13
      <4>3. QED BY <4>1, <4>2
    <3>4. QED BY <1>11, <1>13, <2>2, <2>3, <2>4, <3>1, <3>3
  <2>6. CASE ~First
    <3>1. opened' = opened /\ listed' = listed
      BY <1>9, <2>1, <2>6
    <3>2. QED BY <1>1, <1>3, <1>11, <1>12, <2>2, <2>3, <2>4, <3>1
  <2>7. QED BY <2>5, <2>6
<1>17. CASE n = 1
  <2>1. Head(todo) = "page" /\ ~First
    BY <1>4, <1>5, <1>10, <1>17 DEF IsRequest
  <2>2. opened' = opened /\ listed' = Places /\ total' = Cardinality(listed') /\ listed \subseteq Places
    BY <1>9, <1>13, <2>1
  <2>3. PICK ids : ids = {IdOf(row) : row \in ToSet(PageOf(Listed))}
    OBVIOUS
  <2>4. read = [got EXCEPT ![kind] = ids] /\ got = Nothing
    BY <1>2, <1>3, <1>12, <1>17, <2>1, <2>3 DEF After
  <2>5. read[kind] = ids /\ ids \subseteq Found(read)
    BY <1>5, <2>4 DEF Lists, Nothing, Found
  <2>6. shown \cup ids \subseteq shown' \cup got'[kind]
    BY <1>7, <2>5
  <2>7. PagesRead = page - 1 /\ PagesRead' = page /\ ~(Ran' < 2)
    BY <1>1, <1>3, <1>8, <1>17 DEF PagesRead
  <2>8. ASSUME NEW row \in opened
        PROVE  \E k \in Places : /\ Order[k] = row
                                 /\ IdOf(row) \in shown' \cup got'[kind] \/ Rank(Places, k) > page * PageSize
    <3>1. PICK k \in listed :
             /\ Order[k] = row
             /\ IdOf(row) \in shown \cup got[kind] \/ Rank(listed, k) > PagesRead * PageSize
      BY <1>12, <2>8
    <3>2. k \in Places
      BY <2>2, <3>1
    <3>3. got[kind] = {}
      BY <1>5, <2>4 DEF Lists, Nothing
    <3>4. CASE IdOf(row) \in shown
      BY <2>6, <3>1, <3>2, <3>4
    <3>5. CASE IdOf(row) \notin shown
      <4>1. Rank(listed, k) > from
        BY <1>15, <2>7, <3>1, <3>3, <3>5
      <4>2. Rank(listed, k) <= Rank(Places, k)
        BY <1>13, <2>2, <3>1, RankOfMore
      <4>3. Rank(listed, k) \in Int
        <5>1. IsFiniteSet(listed) /\ listed \in SUBSET Int
          BY <1>13, <2>2, FS_Subset
        <5>2. QED BY <3>1, <5>1, RankInRange, FS_CardinalityType
      <4>4. PICK rank \in 1..Len(Listed) : rank = Rank(Places, k)
        BY <1>13, <3>2
      <4>5. rank > from
        BY <1>15, <4>1, <4>2, <4>3, <4>4
      <4>6. CASE rank <= page * PageSize
        <5>1. Listed[rank] \in ToSet(PageOf(Listed))
          BY <1>13, <1>14, <1>15, <4>4, <4>5, <4>6, PageHas
        <5>2. Listed[rank] = row
          BY <1>13, <3>1, <3>2, <4>4
        <5>3. IdOf(row) \in ids
          BY <2>3, <5>1, <5>2
        <5>4. QED BY <2>6, <3>1, <3>2, <5>3
      <4>7. CASE ~(rank <= page * PageSize)
        <5>1. page * PageSize \in Int
          BY <1>15, OrderAssumption
        <5>2. Rank(Places, k) > page * PageSize
          BY <4>4, <4>7, <5>1
        <5>3. QED BY <3>1, <3>2, <5>2
      <4>8. QED BY <4>6, <4>7
    <3>6. QED BY <3>4, <3>5
  <2>9. QED BY <1>1, <1>3, <1>11, <1>13, <2>2, <2>7, <2>8
<1>18. CASE n >= 2
  <2>1. kind = "workers" /\ Head(todo) \in {"certificatesOf", "attemptsOf"} /\ ~First
    BY <1>4, <1>5, <1>10, <1>18 DEF IsRequest
  <2>2. opened' = opened /\ listed' = listed /\ total' = total
    BY <1>9, <2>1
  <2>3. read.workers = got.workers
    <3>1. PICK ids : read = [got EXCEPT !.certificates = ids] \/ read = [got EXCEPT !.attempts = ids]
      BY <1>2, <2>1 DEF After
    <3>2. QED BY <1>14, <3>1 DEF ReadType
  <2>4. shown \cup got[kind] \subseteq shown' \cup got'[kind]
    <3>1. got[kind] = read.workers /\ read[kind] = read.workers
      BY <2>1, <2>3
    <3>2. CASE rest # <<>>
      BY <1>7, <3>1, <3>2
    <3>3. CASE rest = <<>>
      <4>1. shown' = shown \cup Found(read)
        BY <1>7, <3>3
      <4>2. QED BY <3>1, <4>1 DEF Found
    <3>4. QED BY <3>2, <3>3
  <2>5. PagesRead = page /\ PagesRead' = page /\ ~(Ran' < 2) /\ ~(n < 2)
    BY <1>1, <1>3, <1>4, <1>8, <1>18 DEF PagesRead, IsRequest
  <2>6. QED BY <1>1, <1>3, <1>11, <1>12, <2>2, <2>4, <2>5
<1>19. QED BY <1>4, <1>16, <1>17, <1>18 DEF IsRequest

-----------------------------------------------------------------------------
(* The other steps *)

\* A page that is opened has run no statement, or has been refused.
LEMMA OpenViewIInv ==
    ASSUME IInv, ViewIInv, Open, UNCHANGED vars
    PROVE  ViewIInv'
<1>1. /\ asked = None /\ code = None
      /\ UNCHANGED <<page, got, total, failures, opened, listed, shown, disturbed>>
  BY DEF Open
<1>2. todo = <<>> /\ page = 1 /\ shown = {} /\ failures = 0 /\ opened = {} /\ listed = {} /\ got = Nothing
  BY <1>1 DEF ViewIInv, ViewTypeOK
<1>3. Nothing \in ReadType /\ Found(Nothing) = {}
  BY DEF Nothing, ReadType, Found
<1>4. total \in Nat /\ disturbed \in BOOLEAN
  BY DEF ViewIInv, ViewTypeOK
<1>5. PICK caller \in Callers, verifier \in {"up", "unset", "unreachable"}, kind \in Kinds :
         LET signedIn == IF kind = "devices" THEN RequireAdmin(caller, verifier)
                         ELSE CurrentAdmin(caller, verifier)
         IN  IF signedIn # 200 \/ kind = "devices"
             THEN code' = signedIn /\ UNCHANGED <<asked, todo>>
             ELSE /\ \E id \in CASE kind = "worker" -> WorkerIds
                                 [] kind = "attempt" -> AttemptIds
                                 [] OTHER -> {None} :
                        asked' = [kind |-> kind, id |-> id, profile |-> caller.profile]
                  /\ todo' = Statements(kind)
                  /\ UNCHANGED code
  BY DEF Open
<1>9. PICK signedIn :
         signedIn = IF kind = "devices" THEN RequireAdmin(caller, verifier)
                    ELSE CurrentAdmin(caller, verifier)
  OBVIOUS
<1>6. CASE signedIn # 200 \/ kind = "devices"
  <2>1. asked' = None /\ todo' = <<>> /\ code' = signedIn
    BY <1>1, <1>2, <1>5, <1>6, <1>9
  <2>2. signedIn # 500
    <3>1. Verify(caller.token, verifier) \in {200, 401, 503}
      BY <1>5 DEF Verify
    <3>2. CurrentAdmin(caller, verifier) \in {200, 401, 403, 503}
      BY <3>1 DEF CurrentAdmin
    <3>3. RequireAdmin(caller, verifier) \in {200, 401, 403, 503}
      BY <3>2 DEF RequireAdmin
    <3>4. QED BY <1>9, <3>2, <3>3
  <2>3. QED BY <1>1, <1>2, <1>3, <1>4, <2>1, <2>2
        DEF ViewIInv, ViewTypeOK, RestIsEnd, ReadIsInScope, FailuresAreNew, RowsLeftAreBehind, ReadType
<1>7. CASE signedIn = 200 /\ kind # "devices"
  <2>1. PICK id \in CASE kind = "worker" -> WorkerIds
                      [] kind = "attempt" -> AttemptIds
                      [] OTHER -> {None} :
           asked' = [kind |-> kind, id |-> id, profile |-> caller.profile]
    BY <1>5, <1>7, <1>9
  <2>2. todo' = Statements(kind) /\ code' = None
    BY <1>1, <1>5, <1>7, <1>9
  <2>3. caller.profile # None
    <3>1. CurrentAdmin(caller, verifier) = 200
      BY <1>5, <1>7, <1>9
    <3>2. QED BY <3>1 DEF CurrentAdmin
  <2>4. id \in WorkerIds \cup AttemptIds \cup {None}
    BY <2>1
  <2>5. kind = "worker" => id \in WorkerIds
    BY <2>1
  <2>6. kind = "attempt" => id \in AttemptIds
    BY <2>1
  <2>7. asked' \in Views /\ asked' # None /\ asked'.kind = kind /\ asked'.id = id
    <3>1. asked' \in Views
      BY <1>7, <2>1, <2>3, <2>4 DEF Views
    <3>2. QED BY <2>1, <3>1, ViewsAssumption
  <2>8. PICK s : s = Statements(kind)
    OBVIOUS
  <2>9. IsRequest(kind, s) /\ s \in Seq(ItsStatements) /\ Len(s) \in 1..4
    BY <1>7, <2>8, StatementsAre DEF IsRequest
  <2>10. Statements(asked.kind)' = s
    BY <2>7, <2>8 DEF Statements, Overview, SiteNumbers, Heatmap, RetentionByStage,
          RecertificationDue, ListWorkers, WorkerDetail, ListAttempts, GetAttempt, ExportAttempts,
          ListCertificates, LoadScope
  <2>11. todo' = s /\ Ran' = 0 /\ todo' # <<>>
    <3>1. PICK m \in Int : m = Len(s)
      BY <2>9
    <3>2. Ran' = m - m
      BY <2>2, <2>8, <2>10, <3>1 DEF Ran
    <3>3. QED BY <2>2, <2>8, <2>9, <3>1, <3>2
  <2>12. ViewTypeOK'
    BY <1>1, <1>2, <1>3, <1>4, <2>5, <2>6, <2>7 DEF ViewTypeOK, ReadType
  <2>13. RestIsEnd'
    <3>1. s = SubSeq(s, 1, Len(s)) /\ 0 \in 0..Len(s)
      BY <2>9
    <3>2. todo' = SubSeq(s, Ran' + 1, Len(s)) /\ Ran' \in 0..Len(s)
      BY <2>11, <3>1
    <3>3. QED BY <2>2, <2>10, <2>11, <3>2 DEF RestIsEnd
  <2>14. ReadIsInScope'
    <3>1. (got.workers \cup got.certificates \cup got.attempts \cup shown)' = {}
      BY <1>1, <1>2 DEF Nothing
    <3>2. QED BY <3>1 DEF ReadIsInScope, InScope
  <2>15. FailuresAreNew'
    <3>1. PICK scope : scope = ScopedWorkers(asked.profile)'
      OBVIOUS
    <3>2. scope \subseteq WorkerIds
      BY <3>1 DEF ScopedWorkers, Committed
    <3>3. IsFiniteSet(scope)
      BY <3>2, RowsAssumption, FS_Subset
    <3>4. Cardinality(scope \ {}) \in Nat
      BY <3>3, FS_Subset, FS_CardinalityType
    <3>5. failures' = 0 /\ opened' = {} /\ code' # 500
      BY <1>1, <1>2, <2>2, ViewsAssumption
    <3>6. QED BY <2>11, <3>1, <3>4, <3>5 DEF FailuresAreNew
  <2>16. RowsLeftAreBehind'
    <3>1. got' = Nothing /\ opened' = {} /\ listed' = {} /\ Ran' < 2
      BY <1>1, <1>2, <2>11
    <3>2. QED BY <2>11, <3>1 DEF RowsLeftAreBehind
  <2>17. QED BY <2>12, <2>13, <2>14, <2>15, <2>16 DEF ViewIInv
<1>8. QED BY <1>6, <1>7

\* Asking again, for the same page or for the next one of a list.
LEMMA RequestViewIInv ==
    ASSUME IInv, ViewIInv, Request, UNCHANGED vars, asked # None, todo = <<>>,
           page' = page \/ (page' = page + 1 /\ asked.kind \in Lists),
           page' = page => asked.kind \notin Lists
    PROVE  ViewIInv'
<1>1. /\ todo' = Statements(asked.kind) /\ code' = None
      /\ UNCHANGED <<asked, got, total, failures, opened, listed, shown, disturbed>>
  BY DEF Request
<1>2. PICK s : s = Statements(asked.kind)
  OBVIOUS
<1>3. asked.kind \in Kinds \ {"devices"} /\ page \in Nat \ {0}
  BY DEF ViewIInv, ViewTypeOK, Views
<1>4. IsRequest(asked.kind, s) /\ s \in Seq(ItsStatements) /\ Len(s) \in 1..4
  BY <1>2, <1>3, StatementsAre DEF IsRequest
<1>5. Statements(asked.kind)' = s
  BY <1>1, <1>2 DEF Statements, Overview, SiteNumbers, Heatmap, RetentionByStage,
        RecertificationDue, ListWorkers, WorkerDetail, ListAttempts, GetAttempt, ExportAttempts,
        ListCertificates, LoadScope
<1>6. todo' = s /\ Ran' = 0 /\ todo' # <<>>
  <2>1. PICK m \in Int : m = Len(s)
    BY <1>4
  <2>2. todo' = s
    BY <1>1, <1>2
  <2>3. Ran' = m - m
    BY <1>1, <1>5, <2>1, <2>2 DEF Ran
  <2>4. m - m = 0 /\ s # <<>>
    BY <1>4, <2>1
  <2>5. QED BY <2>2, <2>3, <2>4
<1>7. got = Nothing
  BY DEF ViewIInv, RestIsEnd
<1>8. ViewTypeOK'
  <2>1. page' \in Nat \ {0}
    BY <1>3
  <2>2. QED BY <1>1, <2>1 DEF ViewIInv, ViewTypeOK
<1>9. RestIsEnd'
  <2>1. s = SubSeq(s, 1, Len(s)) /\ 0 \in 0..Len(s)
    BY <1>4
  <2>2. todo' = SubSeq(s, Ran' + 1, Len(s)) /\ Ran' \in 0..Len(s)
    BY <1>6, <2>1
  <2>3. QED BY <1>1, <1>5, <1>6, <2>2 DEF RestIsEnd
<1>10. ReadIsInScope'
  BY <1>1, SameScope DEF ViewIInv, ReadIsInScope
<1>11. FailuresAreNew'
  <2>1. ScopedWorkers(asked.profile)' = ScopedWorkers(asked.profile)
    BY <1>1, SameScope
  <2>2. code' # 500 /\ (failures # 0 => asked.kind \in LookUps)
    BY <1>1, ViewsAssumption DEF ViewIInv, FailuresAreNew
  <2>3. asked.kind \in LookUps =>
           /\ opened \subseteq ScopedWorkers(asked.profile)
           /\ failures <= Cardinality(ScopedWorkers(asked.profile) \ opened)
    BY DEF ViewIInv, FailuresAreNew
  <2>4. QED BY <1>1, <1>6, <2>1, <2>2, <2>3 DEF FailuresAreNew
<1>12. RowsLeftAreBehind'
  <2> SUFFICES ASSUME asked.kind \in Lists, ~disturbed
               PROVE  RowsLeftAreBehind'
    BY <1>1 DEF RowsLeftAreBehind
  <2>1. PagesRead = page /\ PagesRead' = page
    BY <1>3, <1>6 DEF PagesRead
  <2>2. Order' = Order /\ \A row : IdOf(row)' = IdOf(row)
    BY <1>1, SameScope DEF IdOf
  <2>3. /\ listed \subseteq DOMAIN Order
        /\ \A row \in opened : \E k \in listed :
              /\ Order[k] = row
              /\ IdOf(row) \in shown \cup got[asked.kind] \/ Rank(listed, k) > PagesRead * PageSize
    BY DEF ViewIInv, RowsLeftAreBehind
  <2>4. /\ listed' \subseteq DOMAIN Order'
        /\ todo' # <<>> /\ Ran' < 2 /\ got' = Nothing
        /\ \A row \in opened' : \E k \in listed' :
              /\ Order'[k] = row
              /\ \/ IdOf(row)' \in shown' \cup got'[asked'.kind]
                 \/ Rank(listed', k) > PagesRead' * PageSize
    BY <1>1, <1>6, <1>7, <2>1, <2>2, <2>3
  <2>5. QED BY <2>4 DEF RowsLeftAreBehind, Rank
<1>13. QED BY <1>8, <1>9, <1>10, <1>11, <1>12 DEF ViewIInv

\* While a batch goes on, the view's scope only grows.
LEMMA SyncViewIInv ==
    ASSUME IInv, ViewIInv, [Next]_vars, UNCHANGED viewVars
    PROVE  ViewIInv'
<1>1. UNCHANGED <<asked, page, todo, got, total, code, failures, opened, listed, shown, disturbed>>
  BY DEF viewVars
<1>2. Statements(asked.kind)' = Statements(asked.kind)
  BY <1>1 DEF Statements, Overview, SiteNumbers, Heatmap, RetentionByStage,
        RecertificationDue, ListWorkers, WorkerDetail, ListAttempts, GetAttempt, ExportAttempts,
        ListCertificates, LoadScope
<1>3. Ran' = Ran /\ PagesRead' = PagesRead /\ Order' = Order /\ \A row : IdOf(row)' = IdOf(row)
  BY <1>1, <1>2 DEF Ran, PagesRead, Order, IdOf
<1>4. ViewTypeOK' /\ RestIsEnd'
  BY <1>1, <1>2, <1>3 DEF ViewIInv, ViewTypeOK, RestIsEnd
<1>5. PICK profile : profile = asked.profile
  OBVIOUS
<1>6. asked'.profile = profile
  BY <1>1, <1>5
<1>7. PICK scope, records, newScope, newRecords :
         /\ scope = ScopedWorkers(profile) /\ records = ScopedRecords(profile, RecordIds)
         /\ newScope = ScopedWorkers(profile)' /\ newRecords = ScopedRecords(profile, RecordIds)'
  OBVIOUS
<1>8. scope \subseteq newScope /\ records \subseteq newRecords
  BY <1>7, ScopeGrows
<1>9. ReadIsInScope'
  <2>1. asked # None => Found(got) \cup shown \subseteq scope \cup records
    BY <1>5, <1>7 DEF ViewIInv, ReadIsInScope, InScope, Found
  <2>2. asked # None => Found(got) \cup shown \subseteq newScope \cup newRecords
    BY <1>8, <2>1
  <2>3. ScopedWorkers(asked.profile)' = newScope /\ ScopedRecords(asked.profile, RecordIds)' = newRecords
    BY <1>6, <1>7 DEF ScopedWorkers, ScopedRecords
  <2>4. QED BY <1>1, <2>2, <2>3 DEF ReadIsInScope, InScope, Found
<1>10. FailuresAreNew'
  <2>1. /\ failures' # 0 => asked'.kind \in LookUps
        /\ code' = 500 => failures' # 0
    BY <1>1 DEF ViewIInv, FailuresAreNew
  <2> SUFFICES ASSUME asked # None, asked.kind \in LookUps,
                      NEW workers, workers = (IF todo = <<>> \/ Ran = 0 THEN scope ELSE got.workers),
                      NEW newWorkers,
                      newWorkers = (IF todo = <<>> \/ Ran = 0 THEN newScope ELSE got.workers)
               PROVE  opened \subseteq newWorkers /\ failures <= Cardinality(newWorkers \ opened)
    <3>1. ScopedWorkers(asked.profile)' = newScope
      BY <1>6, <1>7 DEF ScopedWorkers
    <3>2. QED BY <1>1, <1>3, <2>1, <3>1 DEF FailuresAreNew
  <2>2. opened \subseteq workers /\ failures <= Cardinality(workers \ opened)
    BY <1>5, <1>7 DEF ViewIInv, FailuresAreNew
  <2>3. workers \subseteq newWorkers
    BY <1>8
  <2>4. IsFiniteSet(newWorkers)
    <3>1. newScope \subseteq WorkerIds
      BY <1>7 DEF ScopedWorkers, Committed
    <3>2. got.workers \subseteq WorkerIds
      BY DEF ViewIInv, ViewTypeOK
    <3>3. QED BY <3>1, <3>2, RowsAssumption, FS_Subset
  <2>5. IsFiniteSet(newWorkers \ opened) /\ workers \ opened \subseteq newWorkers \ opened
    BY <2>3, <2>4, FS_Subset
  <2>6. /\ IsFiniteSet(workers \ opened)
        /\ Cardinality(workers \ opened) <= Cardinality(newWorkers \ opened)
    BY <2>5, FS_Subset
  <2>7. Cardinality(workers \ opened) \in Nat /\ Cardinality(newWorkers \ opened) \in Nat /\ failures \in Nat
    BY <2>5, <2>6, FS_CardinalityType DEF ViewIInv, ViewTypeOK
  <2>8. QED BY <2>2, <2>3, <2>6, <2>7
<1>11. RowsLeftAreBehind'
  BY <1>1, <1>3 DEF ViewIInv, RowsLeftAreBehind
<1>12. QED BY <1>4, <1>9, <1>10, <1>11 DEF ViewIInv

-----------------------------------------------------------------------------
(* The invariant *)

\* No page is open at first.
LEMMA InitViewIInv == ServerInit => IInv /\ ViewIInv
<1> SUFFICES ASSUME ServerInit
             PROVE  IInv /\ ViewIInv
  OBVIOUS
<1>1. IInv
  BY InitIInv DEF ServerInit
<1>2. Nothing \in ReadType
  BY DEF Nothing, ReadType
<1>3. /\ asked = None /\ page = 1 /\ todo = <<>> /\ got = Nothing /\ total = 0 /\ code = None
      /\ failures = 0 /\ opened = {} /\ listed = {} /\ shown = {} /\ disturbed = FALSE
  BY DEF ServerInit, ViewInit
<1>4. ViewTypeOK
  <2>1. code # 500 /\ got \in ReadType /\ FALSE \in BOOLEAN /\ 1 \in Nat \ {0}
    BY <1>2, <1>3, ViewsAssumption
  <2>2. QED BY <1>3, <2>1 DEF ViewTypeOK, ReadType
<1>5. RestIsEnd /\ ReadIsInScope /\ RowsLeftAreBehind
  BY <1>3 DEF RestIsEnd, ReadIsInScope, RowsLeftAreBehind
<1>6. FailuresAreNew
  BY <1>3, ViewsAssumption DEF FailuresAreNew
<1>7. QED BY <1>1, <1>4, <1>5, <1>6 DEF ViewIInv

\* Every step of the server keeps both invariants.
LEMMA ServerStep ==
    ASSUME IInv, ViewIInv, [ServerNext]_<<vars, viewVars>>
    PROVE  IInv' /\ ViewIInv'
<1>1. [Next]_vars
  BY DEF ServerNext, SyncStep
<1>2. IInv'
  BY <1>1, StepIInv
<1>3. CASE SyncStep
  BY <1>2, <1>1, <1>3, SyncViewIInv DEF SyncStep
<1>4. CASE Open /\ UNCHANGED vars
  BY <1>2, <1>4, OpenViewIInv
<1>5. CASE Read /\ UNCHANGED vars
  BY <1>2, <1>5, ReadBasics, ReadFailures, ReadRows DEF ViewIInv
<1>6. CASE Retry /\ UNCHANGED vars
  <2>1. code = 500 /\ Request /\ page' = page
    BY <1>6 DEF Retry
  <2>2. asked # None /\ todo = <<>>
    BY <2>1, ViewsAssumption DEF ViewIInv, ViewTypeOK, RestIsEnd
  <2>3. asked.kind \in LookUps
    BY <2>1 DEF ViewIInv, FailuresAreNew
  <2>4. asked.kind \notin Lists
    BY <2>3 DEF Lists, LookUps
  <2>5. QED BY <1>2, <1>6, <2>1, <2>2, <2>4, RequestViewIInv
<1>7. CASE NextPage /\ UNCHANGED vars
  <2>1. code = 200 /\ asked # None /\ asked.kind \in Lists /\ Request /\ page' = page + 1
    BY <1>7 DEF NextPage, HasNext
  <2>2. todo = <<>>
    BY <2>1, ViewsAssumption DEF ViewIInv, RestIsEnd
  <2>3. page' # page
    BY <2>1 DEF ViewIInv, ViewTypeOK
  <2>4. QED BY <1>2, <1>7, <2>1, <2>2, <2>3, RequestViewIInv
<1>8. CASE UNCHANGED <<vars, viewVars>>
  BY <1>2, <1>1, <1>8, SyncViewIInv
<1>9. QED BY <1>2, <1>3, <1>4, <1>5, <1>6, <1>7, <1>8 DEF ServerNext, ViewStep

\* What a visit to a page relies on holds at every step of it and of the batches.
THEOREM ViewIInvHolds == ServerSpec => []ViewIInv
<1>1. ServerInit => IInv /\ ViewIInv
  BY InitViewIInv
<1>2. (IInv /\ ViewIInv) /\ [ServerNext]_<<vars, viewVars>> => (IInv /\ ViewIInv)'
  BY ServerStep
<1>3. QED BY <1>1, <1>2, PTL DEF ServerSpec

\* A supervisor is shown workers and records of his sites, whatever view he asks for and
\* whatever is committed between its statements.
THEOREM ShownIsInScopeHolds == ServerSpec => []ShownIsInScope
<1>1. ViewIInv => ShownIsInScope
  <2> SUFFICES ASSUME ViewIInv, shown # {}
               PROVE  asked.profile # None /\ InScope(shown)
    BY DEF ShownIsInScope
  <2>1. asked # None
    BY DEF ViewIInv, ViewTypeOK
  <2>2. asked.profile # None
    BY <2>1 DEF ViewIInv, ViewTypeOK, Views
  <2>3. InScope(shown)
    BY <2>1 DEF ViewIInv, ReadIsInScope, InScope
  <2>4. QED BY <2>2, <2>3
<1>2. QED BY <1>1, ViewIInvHolds, PTL

\* The overview, the heatmap and recert-due fail once at most for each worker of their sites
\* who came after the first request, and no other view fails.
THEOREM OnlyNewWorkersFailViewsHolds == ServerSpec => []OnlyNewWorkersFailViews
<1>1. IInv /\ ViewIInv => OnlyNewWorkersFailViews
  <2> SUFFICES ASSUME ViewIInv, failures # 0
               PROVE  failures <= Cardinality(ScopedWorkers(asked.profile) \ opened)
    BY DEF OnlyNewWorkersFailViews
  <2>1. asked # None /\ asked.kind \in LookUps /\ failures \in Nat
    BY DEF ViewIInv, ViewTypeOK, FailuresAreNew
  <2>2. PICK scope : scope = ScopedWorkers(asked.profile)
    OBVIOUS
  <2>3. scope \subseteq WorkerIds /\ IsFiniteSet(scope)
    BY <2>2, ScopeType
  <2>4. PICK workers : workers = IF todo = <<>> \/ Ran = 0 THEN scope ELSE got.workers
    OBVIOUS
  <2>5. failures <= Cardinality(workers \ opened)
    BY <2>1, <2>2, <2>4 DEF ViewIInv, FailuresAreNew
  <2>6. workers \subseteq scope
    <3>1. got.workers \subseteq WorkerIds
      BY DEF ViewIInv, ViewTypeOK
    <3>2. got.workers \subseteq scope \cup ScopedRecords(asked.profile, RecordIds)
      BY <2>1, <2>2 DEF ViewIInv, ReadIsInScope, InScope
    <3>3. ScopedRecords(asked.profile, RecordIds) \subseteq RecordIds
      BY ScopeType
    <3>4. QED BY <2>4, <3>1, <3>2, <3>3, ItemsAssumption
  <2>7. IsFiniteSet(scope \ opened) /\ workers \ opened \subseteq scope \ opened
    BY <2>3, <2>6, FS_Subset
  <2>8. /\ IsFiniteSet(workers \ opened)
        /\ Cardinality(workers \ opened) <= Cardinality(scope \ opened)
    BY <2>7, FS_Subset
  <2>9. Cardinality(workers \ opened) \in Nat /\ Cardinality(scope \ opened) \in Nat
    BY <2>7, <2>8, FS_CardinalityType
  <2>10. QED BY <2>1, <2>2, <2>5, <2>8, <2>9
<1>2. ServerInit => IInv /\ ViewIInv
  BY InitViewIInv
<1>3. (IInv /\ ViewIInv) /\ [ServerNext]_<<vars, viewVars>> => (IInv /\ ViewIInv)'
  BY ServerStep
<1>4. QED BY <1>1, <1>2, <1>3, PTL DEF ServerSpec

\* Turning the pages misses no row that was in the list, for any number of rows and any
\* page size, unless a row moved or came between a count and its page.
THEOREM PagesMissNobodyHolds == ServerSpec => []PagesMissNobody
<1>1. ViewIInv => PagesMissNobody
  <2> SUFFICES ASSUME ViewIInv, code = 200, asked # None, asked.kind \in Lists, ~HasNext, ~disturbed,
                      NEW row \in opened
               PROVE  IdOf(row) \in shown
    BY DEF PagesMissNobody
  <2>1. todo = <<>> /\ got = Nothing
    BY ViewsAssumption DEF ViewIInv, RestIsEnd
  <2>2. PagesRead = page
    BY <2>1 DEF PagesRead
  <2>3. total = Cardinality(listed) /\ listed \subseteq DOMAIN Order
    BY <2>1 DEF ViewIInv, RowsLeftAreBehind
  <2>4. PICK k \in listed : IdOf(row) \in shown \cup got[asked.kind] \/ Rank(listed, k) > page * PageSize
    BY <2>2 DEF ViewIInv, RowsLeftAreBehind
  <2>5. got[asked.kind] = {}
    BY <2>1 DEF Lists, Nothing
  <2>6. Rank(listed, k) \in 1..Cardinality(listed)
    <3>1. Order \in Seq({i.displayName : i \in WorkerItems} \X WorkerIds) \cup Seq(RecordIds)
      BY OrderAssumption DEF Order
    <3>2. PICK n \in Nat : DOMAIN Order = 1..n
      BY <3>1
    <3>3. listed \in SUBSET Int /\ IsFiniteSet(listed)
      BY <2>3, <3>2, FS_Interval, FS_Subset
    <3>4. QED BY <3>3, RankInRange
  <2>7. page * PageSize \in Int /\ total \in Nat
    <3>1. page \in Nat \ {0} /\ total \in Nat
      BY DEF ViewIInv, ViewTypeOK
    <3>2. PICK from \in Nat : page * PageSize = from + PageSize
      BY <3>1, PageBounds
    <3>3. QED BY <3>1, <3>2, OrderAssumption
  <2>8. ~(page * PageSize < total)
    BY DEF HasNext
  <2>9. ~(Rank(listed, k) > page * PageSize)
    BY <2>3, <2>6, <2>7, <2>8
  <2>10. QED BY <2>4, <2>5, <2>9
<1>2. QED BY <1>1, ViewIInvHolds, PTL

\* The views hold no batch up and change no row: what SyncProofs states of Spec is true
\* of the server with a dashboard.
THEOREM ServerIsSync == ServerSpec => Spec
<1>1. ServerInit => Init
  BY DEF ServerInit
<1>2. [ServerNext]_<<vars, viewVars>> => [Next]_vars
  BY DEF ServerNext, SyncStep
<1>3. QED BY <1>1, <1>2, PTL DEF ServerSpec, Spec
=============================================================================
