----------------------------- MODULE LocalStore -----------------------------
(***************************************************************************)
(* The phone's database: workers, attempts and certificates, each change   *)
(* stored together with its outbox row, and the updatedAt that decides at  *)
(* the server which copy of a worker is the newest.                        *)
(*                                                                         *)
(* The client that empties the outbox is not in the source: an external    *)
(* client sends what it holds in its order, to the Ledger.  A request or   *)
(* its answer may be lost, and a request that was given up may still be    *)
(* served, any number of times, at any later moment.                       *)
(***************************************************************************)
EXTENDS Ledger, Sublists

CONSTANTS Workers, Attempts, Certificates,  \* ids
          Names, Langs,
          MaxClock,              \* bound: of the phone's clock
          MaxUpdatedAt,          \* bound: of updatedAt, which ends edits
          BatchSize              \* items in one request

Site == "site"

Records == Attempts \cup Certificates

\* Rows of the phone's tables.
WorkerType == [displayName : Names, preferredLang : Langs, updatedAt : Int, deletedAt : Int \cup {None}]
RecordType == [worker : Workers, createdAt : Int]

\* Rows of the server's.
ServerWorker == [site : {Site}, displayName : Names, preferredLang : Langs, updatedAt : Int]
ServerRecord == [worker : Workers, content : Records]

\* Ids of different kinds differ.
ASSUME IdsAssumption ==
    None \notin Workers /\ Workers \cap Records = {} /\ Attempts \cap Certificates = {}

ASSUME NoneAssumption ==
    /\ None \notin WorkerType /\ None \notin RecordType /\ None \notin Int
    /\ None \notin ServerWorker /\ None \notin ServerRecord

ASSUME BoundsAssumption == MaxClock \in Nat /\ BatchSize \in Nat

VARIABLES clock,    \* nowSeconds(): set by hand, or by the network, either way
          workers,  \* the phone's table of workers
          records,  \* its attempts and certificates, each of one worker
          outbox,   \* [item, createdAt], in the order they were queued
          server,   \* the server's table
          sent      \* requests that were sent, and may still be served

vars == <<clock, workers, records, outbox, server, sent>>

Init ==
    /\ clock = 1
    /\ workers = [w \in Workers |-> None]
    /\ records = [id \in Records |-> None]
    /\ outbox = <<>>
    /\ server = [id \in Workers \cup Records |-> None]
    /\ sent = {}

-----------------------------------------------------------------------------
\* getWorker: deleted workers are gone from every screen.
Active(w) == workers[w] # None /\ workers[w].deletedAt = None

WorkerItem(w, row) ==
    [kind |-> "worker", id |-> w, flaw |-> None, site |-> Site,
     displayName |-> row.displayName, preferredLang |-> row.preferredLang,
     updatedAt |-> row.updatedAt]

RecordItem(id, w) ==
    [kind |-> IF id \in Attempts THEN "attempt" ELSE "certificate", id |-> id, flaw |-> None, worker |-> w, content |-> id, site |-> Site]

\* Mutants: two edits may have one updatedAt; an edit is not queued; records
\* are sent before their worker.
PlainNow(previous) == clock
RecordsFirst(item) == IF item.kind = "worker" THEN 2 ELSE 0

nextUpdatedAt(previous) == IF clock > previous THEN clock ELSE previous + 1

enqueueOutbox(item, now) == outbox' = Append(outbox, [item |-> item, createdAt |-> now])

StoreWorker(w, row) ==
    /\ row.updatedAt <= MaxUpdatedAt
    /\ workers' = [workers EXCEPT ![w] = row]
    /\ enqueueOutbox(WorkerItem(w, row), row.updatedAt)
    /\ UNCHANGED <<clock, records, server, sent>>

createWorker(w, name, lang) ==
    /\ workers[w] = None
    /\ StoreWorker(w, [displayName |-> name, preferredLang |-> lang,
                       updatedAt |-> clock, deletedAt |-> None])

\* An edit that changes nothing is not stored.
updateWorker(w, name, lang) ==
    /\ Active(w)
    /\ workers[w].displayName # name \/ workers[w].preferredLang # lang
    /\ StoreWorker(w, [workers[w] EXCEPT !.displayName = name, !.preferredLang = lang,
                                         !.updatedAt = nextUpdatedAt(@)])

deleteWorker(w) ==
    /\ Active(w)
    /\ LET at == nextUpdatedAt(workers[w].updatedAt)
       IN  StoreWorker(w, [workers[w] EXCEPT !.updatedAt = at, !.deletedAt = at])

\* saveAttempt and saveCertificate, which do not ask whether there is such a worker.
StoreRecord(id, w) ==
    /\ records[id] = None
    /\ records' = [records EXCEPT ![id] = [worker |-> w, createdAt |-> clock]]
    /\ enqueueOutbox(RecordItem(id, w), clock)
    /\ UNCHANGED <<clock, workers, server, sent>>

\* What the app promises of them: records are of workers that are there.
SaveRecord(id, w) == Active(w) /\ StoreRecord(id, w)

SetClock(now) ==
    /\ clock # now
    /\ clock' = now
    /\ UNCHANGED <<workers, records, outbox, server, sent>>

-----------------------------------------------------------------------------
(* The client and the network *)

OUTBOX_KIND_ORDER(item) ==
    CASE item.kind = "worker" -> 0 [] item.kind = "attempt" -> 1 [] OTHER -> 2

\* Positions of the outbox in the order in which they are sent.
Earlier(j, k) ==
    LET a == outbox[j]
        b == outbox[k]
        kindOfA == OUTBOX_KIND_ORDER(a.item)
        kindOfB == OUTBOX_KIND_ORDER(b.item)
    IN  \/ kindOfA < kindOfB
        \/ kindOfA = kindOfB /\ a.createdAt < b.createdAt
        \/ kindOfA = kindOfB /\ a.createdAt = b.createdAt /\ j < k

Place(n) == Cardinality({j \in DOMAIN outbox : Earlier(j, n)}) + 1

Queue == [k \in DOMAIN outbox |-> CHOOSE n \in DOMAIN outbox : Place(n) = k]

\* The request the client sends next.
Request == [k \in 1..(IF Len(outbox) < BatchSize THEN Len(outbox) ELSE BatchSize) |->
               outbox[Queue[k]].item]

Served(items) == Ingest(server, Site, items)

\* An answer removes the rows of the request that were accepted.
Unsent(items) ==
    LET answers == Served(items).answers
        gone == {items[k] : k \in {j \in DOMAIN items : answers[j] = "accepted"}}
    IN  InOrder(outbox, {n \in DOMAIN outbox : outbox[n].item \notin gone})

Push ==
    /\ outbox # <<>>
    /\ sent' = sent \cup ToSet(Request)
    /\ server' = Served(Request).table
    /\ outbox' = Unsent(Request)
    /\ UNCHANGED <<clock, workers, records>>

\* The request is lost, or only late.
PushLost ==
    /\ outbox # <<>>
    /\ sent' = sent \cup ToSet(Request)
    /\ UNCHANGED <<clock, workers, records, outbox, server>>

\* A request served after it was given up, item by item.
ServeLate ==
    /\ \E item \in sent : server' = Served(<<item>>).table
    /\ UNCHANGED <<clock, workers, records, outbox, sent>>

Next ==
    \/ \E w \in Workers :
          \/ \E name \in Names, lang \in Langs :
                createWorker(w, name, lang) \/ updateWorker(w, name, lang)
          \/ deleteWorker(w)
          \/ \E id \in Records : SaveRecord(id, w)
    \/ \E now \in 1..MaxClock : SetClock(now)
    \/ Push \/ PushLost \/ ServeLate

Spec == Init /\ [][Next]_vars

-----------------------------------------------------------------------------
(* Properties *)

\* The phone's own tables; the outbox, the requests and the server hold items.
TypeOK ==
    /\ clock \in Int
    /\ workers \in [Workers -> WorkerType \cup {None}]
    /\ records \in [Records -> RecordType \cup {None}]

Queued(id) == {outbox[k].item : k \in {j \in DOMAIN outbox : outbox[j].item.id = id}}

\* The phone's copy of a worker is never lost: it is at the server, or waits in the
\* outbox behind nothing that would beat it, though the clock is set back and requests
\* are lost, served twice or late.
NewestIsThereOrQueued ==
    \A w \in Workers : workers[w] # None =>
       LET newest == WorkerItem(w, workers[w])
       IN  /\ server[w] = WorkerRow(newest) \/ newest \in Queued(w)
           /\ server[w] # None => server[w].updatedAt <= newest.updatedAt
           /\ \A item \in Queued(w) \ {newest} : item.updatedAt < newest.updatedAt

\* A record is at the server as it was stored, or still queued.
RecordsAreThereOrQueued ==
    \A id \in Records : records[id] # None /\ Queued(id) = {} =>
       server[id] = RecordRow(RecordItem(id, records[id].worker))

\* Sent in the order of the kinds, no request of the phone ever has an item rejected.
NothingIsRejected ==
    outbox # <<>> => \A k \in DOMAIN Request : Served(Request).answers[k] = "accepted"

\* What is made on the phone gets to the server: nothing is dropped, overtaken or refused.
NothingIsLost == NewestIsThereOrQueued /\ RecordsAreThereOrQueued /\ NothingIsRejected

-----------------------------------------------------------------------------
(* The invariant that it rests on *)

\* An item as the phone makes it: a copy of a worker that is his newest or older, or a
\* record as it is stored.
Genuine(item) ==
    IF item.kind = "worker"
    THEN /\ item.id \in Workers /\ workers[item.id] # None
         /\ item = WorkerItem(item.id, item) /\ WorkerRow(item) \in ServerWorker
         /\ item.updatedAt <= workers[item.id].updatedAt
         /\ item.updatedAt = workers[item.id].updatedAt => item = WorkerItem(item.id, workers[item.id])
    ELSE /\ item.id \in Records /\ records[item.id] # None
         /\ item = RecordItem(item.id, records[item.id].worker)

\* So is every row of a table at the server.
TableOK(table) ==
    /\ DOMAIN table = Workers \cup Records
    /\ \A w \in Workers : table[w] # None =>
          /\ table[w] \in ServerWorker /\ workers[w] # None
          /\ table[w].updatedAt <= workers[w].updatedAt
          /\ table[w].updatedAt = workers[w].updatedAt => table[w] = WorkerRow(WorkerItem(w, workers[w]))
    /\ \A id \in Records : table[id] # None =>
          records[id] # None /\ table[id] = RecordRow(RecordItem(id, records[id].worker))

OutboxOK ==
    /\ outbox \in Seq(Range(outbox))
    /\ \A n \in DOMAIN outbox : Genuine(outbox[n].item) /\ outbox[n].createdAt \in Int

\* What is queued, sent or stored at the server was made on the phone, a worker is made
\* before his records, and his newest copy and every record are there or queued.
StoreIInv ==
    /\ TypeOK /\ TableOK(server) /\ OutboxOK
    /\ \A item \in sent : Genuine(item)
    /\ \A id \in Records : records[id] # None => workers[records[id].worker] # None
    /\ NewestIsThereOrQueued /\ RecordsAreThereOrQueued
=============================================================================
