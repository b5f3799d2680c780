----------------------------- MODULE AdminViews -----------------------------
(***************************************************************************)
(* The dashboard's requests for what the backend has, while phones sync.   *)
(*                                                                         *)
(* A request is several statements of one session, and at READ COMMITTED   *)
(* each of them sees what is committed by then: the rows that the views    *)
(* put together, or the count and the page of a list, may be of different  *)
(* moments.  The dashboard asks again after an error of the server, and    *)
(* turns the pages of a list as long as its count says that there are more.*)
(*                                                                         *)
(* Sites and profiles do not change here.  What a certificate's dates mean *)
(* is in CertStatus; here any of the workers whose certificates were read  *)
(* may be due, and a view shows the rows that it speaks of.  Of the lists' *)
(* filters there are none, of the devices only who may ask for them.       *)
(***************************************************************************)
EXTENDS Sync, Sublists

CONSTANTS AttemptIds, CertificateIds,
          Kinds,     \* of views that are asked for
          Callers,   \* [token, profile]
          ByName,    \* <<name, worker>> for the names that workers have, in their order
          Newest,    \* record ids, newest first
          PageSize,
          Retries,   \* of the dashboard after an error of the server
          MaxTraffic \* bound: requests that are sent

\* What the dashboard can ask for, as long as it is not only who may ask.
Views ==
    [kind : Kinds \ {"devices"}, id : WorkerIds \cup AttemptIds \cup {None},
     profile : {c.profile : c \in Callers} \ {None}]

ASSUME ViewsAssumption ==
    /\ Kinds \subseteq {"overview", "sites", "heatmap", "retention", "recertDue", "workers",
                      "worker", "attempts", "attempt", "export", "certificates", "devices"}
    /\ None \notin Views /\ None \notin {200, 404, 500}

ASSUME RowsAssumption ==
    /\ IsFiniteSet(WorkerIds)
    /\ AttemptIds \cup CertificateIds \subseteq RecordIds

ASSUME OrderAssumption ==
    /\ ByName \in Seq({i.displayName : i \in WorkerItems} \X WorkerIds)
    /\ Newest \in Seq(RecordIds)
    /\ PageSize \in Nat \ {0}

VARIABLES asked,     \* what the dashboard shows: [kind, id, profile]
          page,
          todo,      \* statements of the request that have not run
          got,       \* what the others have read, until it is answered
          total,     \* the count of a list
          code,      \* of the answer
          failures,  \* history: answers 500
          opened,    \* history: the rows when the first request began
          listed,    \* history: the places of a list's rows then, and at its last page
          shown,     \* history: the ids that the answers have shown
          disturbed  \* history: a page is not of the moment of its count, or a row has moved

viewVars == <<asked, page, todo, got, total, code, failures, opened, listed, shown, disturbed>>

Nothing == [workers |-> {}, certificates |-> {}, attempts |-> {}]

ViewInit ==
    /\ asked = None /\ page = 1 /\ todo = <<>> /\ got = Nothing /\ total = 0
    /\ code = None /\ failures = 0 /\ opened = {} /\ listed = {} /\ shown = {} /\ disturbed = FALSE

-----------------------------------------------------------------------------
(* Who asks *)

\* Mutants: the site is checked only in queries; the records of every site are read; pages
\* are counted from 0.
SeesEverySite(profile, site) == TRUE
RecordsOfAll(profile, ids) == {id \in ids : table[id] # None}
PageFromZero(rows) == SubSeq(rows, page * PageSize + 1, Min({(page + 1) * PageSize, Len(rows)}))

CanSeeSite(profile, site) == profile.role = "admin" \/ site \in profile.sites

\* The server may have no key server, or not reach it.
Verify(token, verifier) ==
    CASE verifier \in {"unset", "unreachable"} -> 503
      [] verifier = "up" -> IF token = "good" THEN 200 ELSE 401

CurrentAdmin(caller, verifier) ==
    LET verified == Verify(caller.token, verifier)
    IN  CASE caller.token = "none" -> 401
          [] caller.token # "none" /\ verified # 200 -> verified
          [] caller.token # "none" /\ verified = 200 -> IF caller.profile = None THEN 403 ELSE 200

RequireAdmin(caller, verifier) ==
    LET signedIn == CurrentAdmin(caller, verifier)
    IN  IF signedIn = 200 /\ caller.profile.role # "admin" THEN 403 ELSE signedIn

-----------------------------------------------------------------------------
(* What the statements read *)

Committed(ids) == {id \in ids : table[id] # None}

ScopedWorkers(profile) ==
    {id \in Committed(WorkerIds) :
        profile.role = "admin" \/ table[id].site \in profile.sites}

\* Joined with the worker, whose site counts.
ScopedRecords(profile, ids) ==
    {id \in Committed(ids) : table[id].worker \in ScopedWorkers(profile)}

OfWorkers(workers, ids) == {id \in Committed(ids) : table[id].worker \in workers}

Lists == {"workers", "attempts", "certificates"}

\* The places that the rows of a list have in its order; a worker goes by the name it
\* has now.
ListedWorkers(profile) ==
    {k \in DOMAIN ByName : /\ ByName[k][2] \in ScopedWorkers(profile)
                           /\ table[ByName[k][2]].displayName = ByName[k][1]}

ListedAttempts(profile) == {k \in DOMAIN Newest : Newest[k] \in ScopedRecords(profile, AttemptIds)}

ListedCertificates(profile) ==
    {k \in DOMAIN Newest : Newest[k] \in ScopedRecords(profile, CertificateIds)}

Places ==
    CASE asked.kind = "workers" -> ListedWorkers(asked.profile)
      [] asked.kind = "attempts" -> ListedAttempts(asked.profile)
      [] asked.kind = "certificates" -> ListedCertificates(asked.profile)

Order == IF asked.kind = "workers" THEN ByName ELSE Newest

Listed == InOrder(Order, Places)

IdOf(row) == IF asked.kind = "workers" THEN row[2] ELSE row

PageOf(rows) == SubSeq(rows, (page - 1) * PageSize + 1, Min({page * PageSize, Len(rows)}))

-----------------------------------------------------------------------------
(* The endpoints, each as the statements that it runs one after the other *)

LoadScope(attempts) ==
    IF attempts THEN <<"workers", "certificates", "attempts">> ELSE <<"workers", "certificates">>

Overview == LoadScope(TRUE)
SiteNumbers == LoadScope(FALSE)
Heatmap == LoadScope(TRUE)
RetentionByStage == LoadScope(TRUE)
RecertificationDue == LoadScope(FALSE)
ListWorkers == <<"count", "page", "certificatesOf", "attemptsOf">>
WorkerDetail == <<"worker", "attemptsOf", "certificatesOf">>
ListAttempts == <<"count", "page">>
GetAttempt == <<"attempt">>
ExportAttempts == <<"attempts">>
ListCertificates == <<"count", "page">>

Statements(kind) ==
    CASE kind = "overview" -> Overview
      [] kind = "sites" -> SiteNumbers
      [] kind = "heatmap" -> Heatmap
      [] kind = "retention" -> RetentionByStage
      [] kind = "recertDue" -> RecertificationDue
      [] kind = "workers" -> ListWorkers
      [] kind = "worker" -> WorkerDetail
      [] kind = "attempts" -> ListAttempts
      [] kind = "attempt" -> GetAttempt
      [] kind = "export" -> ExportAttempts
      [] kind = "certificates" -> ListCertificates

After(statement) ==
    LET profile == asked.profile
        pageIds == {IdOf(row) : row \in ToSet(PageOf(Listed))}
    IN  CASE statement = "workers" -> [got EXCEPT !.workers = ScopedWorkers(profile)]
          [] statement = "certificates" ->
               [got EXCEPT !.certificates = ScopedRecords(profile, CertificateIds)]
          [] statement = "attempts" ->
               [got EXCEPT !.attempts = ScopedRecords(profile, AttemptIds)]
          [] statement = "certificatesOf" ->
               [got EXCEPT !.certificates = OfWorkers(got.workers, CertificateIds)]
          [] statement = "attemptsOf" ->
               [got EXCEPT !.attempts = OfWorkers(got.workers, AttemptIds)]
          [] statement = "worker" -> [got EXCEPT !.workers = Committed({asked.id})]
          [] statement = "attempt" ->
               [got EXCEPT !.attempts = ScopedRecords(profile, {asked.id})]
          [] statement = "page" -> [got EXCEPT ![asked.kind] = pageIds]
          [] statement = "count" -> got

\* What is read before the rest need not be: no row of that id, or a worker of another site.
NotFound(read) ==
    \/ asked.kind = "worker" /\ ~\E id \in read.workers : CanSeeSite(asked.profile, table[id].site)
    \/ asked.kind = "attempt" /\ read.attempts = {}

\* A worker is due by the dates of his certificates.
MayBeDue(read) == {table[id].worker : id \in read.certificates}

\* The workers of records are looked up among those that were read: an error if one is not
\* there.  The overview counts the workers who are due.
LooksUp(read, due) ==
    CASE asked.kind = "heatmap" -> {table[id].worker : id \in read.attempts}
      [] asked.kind \in {"overview", "recertDue"} -> due
      [] OTHER -> {}

Outcome(read, rest, due) ==
    IF NotFound(read) THEN 404
    ELSE IF rest # <<>> THEN None
    ELSE IF LooksUp(read, due) \subseteq read.workers THEN 200 ELSE 500

-----------------------------------------------------------------------------
(* The steps of a visit to one page of the dashboard *)

Sent == Cardinality({r \in Requests : pc[r] # "idle"})

\* The page's request, signed in or not.
Open ==
    /\ asked = None /\ code = None
    /\ Sent < MaxTraffic
    /\ \E caller \in Callers, verifier \in {"up", "unset", "unreachable"},
          kind \in Kinds :
          LET signedIn == IF kind = "devices" THEN RequireAdmin(caller, verifier)
                          ELSE CurrentAdmin(caller, verifier)
          IN  IF signedIn # 200 \/ kind = "devices"
              THEN code' = signedIn /\ UNCHANGED <<asked, todo>>
              ELSE /\ \E id \in CASE kind = "worker" -> WorkerIds
                                   [] kind = "attempt" -> AttemptIds
                                   [] OTHER -> {None} :
                         asked' = [kind |-> kind, id |-> id, profile |-> caller.profile]
                   /\ todo' = Statements(kind)
                   /\ UNCHANGED code
    /\ UNCHANGED <<page, got, total, failures, opened, listed, shown, disturbed>>

Rows == IF asked.kind \in Lists THEN ToSet(Listed) ELSE ScopedWorkers(asked.profile)

\* The first statement of the first request.
First == todo = Statements(asked.kind) /\ page = 1 /\ failures = 0

\* The next statement and, with the last one, the answer.
RunNext(due) ==
    LET statement == Head(todo)
        read == After(statement)
        outcome == Outcome(read, Tail(todo), due)
    IN  /\ got' = IF outcome = None THEN read ELSE Nothing
        /\ todo' = IF outcome = 404 THEN <<>> ELSE Tail(todo)
        /\ code' = outcome
        /\ total' = IF statement = "count" THEN Len(Listed) ELSE total
        /\ failures' = IF outcome = 500 THEN failures + 1 ELSE failures
        /\ shown' = IF outcome = 200
                    THEN shown \cup read.workers \cup read.certificates \cup read.attempts
                    ELSE shown
        /\ opened' = IF First THEN Rows ELSE opened
        /\ listed' = IF asked.kind \in Lists /\ (First \/ statement = "page")
                     THEN Places ELSE listed
        /\ disturbed' = \/ disturbed
                        \/ statement = "page" /\ (total # Len(Listed) \/ ~listed \subseteq Places)
        /\ UNCHANGED <<asked, page>>

Read == todo # <<>> /\ \E due \in SUBSET MayBeDue(After(Head(todo))) : RunNext(due)

\* The same request from its start.
Request ==
    /\ todo' = Statements(asked.kind)
    /\ code' = None
    /\ UNCHANGED <<asked, got, total, failures, opened, listed, shown, disturbed>>

Retry == code = 500 /\ failures <= Retries /\ Request /\ UNCHANGED page

HasNext == asked.kind \in Lists /\ page * PageSize < total

NextPage ==
    /\ asked # None /\ code = 200 /\ HasNext
    /\ page' = page + 1
    /\ Request

ViewStep == Open \/ Read \/ Retry \/ NextPage

Requested == Sent + (IF asked = None /\ code = None THEN 0 ELSE 1)

\* A request of a phone may take the place that the view leaves.
SyncStep == Next /\ UNCHANGED viewVars /\ Requested' <= MaxTraffic

ServerInit == Init /\ ViewInit

ServerNext ==
    \/ SyncStep
    \/ ViewStep /\ UNCHANGED vars

\* The server goes on with the batches; the views read and hold nothing up.
ServerSpec ==
    /\ ServerInit /\ [][ServerNext]_<<vars, viewVars>>
    /\ \A r \in Requests : WF_vars(Step(r))

-----------------------------------------------------------------------------
(* Properties *)

InScope(ids) ==
    ids \subseteq ScopedWorkers(asked.profile) \cup ScopedRecords(asked.profile, RecordIds)

ViewTypeOK ==
    /\ asked # None => asked \in Views
    /\ asked # None /\ asked.kind = "worker" => asked.id \in WorkerIds
    /\ asked # None /\ asked.kind = "attempt" => asked.id \in AttemptIds
    /\ page \in Nat \ {0} /\ total \in Nat /\ failures \in Nat
    /\ got \in [workers : SUBSET WorkerIds, certificates : SUBSET RecordIds,
               attempts : SUBSET RecordIds]
    /\ disturbed \in BOOLEAN
    /\ asked = None => todo = <<>> /\ code # 500 /\ page = 1 /\ shown = {} /\ failures = 0
                       /\ opened = {} /\ listed = {} /\ got = Nothing

\* Statements of the request that have run.
Ran == Len(Statements(asked.kind)) - Len(todo)

\* The rest of a request is always the end of its statements, and it is answered with
\* the last one.
RestIsEnd ==
    asked # None =>
       /\ todo = SubSeq(Statements(asked.kind), Ran + 1, Len(Statements(asked.kind)))
       /\ Ran \in 0..Len(Statements(asked.kind))
       /\ (code = None) = (todo # <<>>)
       /\ todo = <<>> => got = Nothing

\* What is read and what has been shown stays in the caller's scope.
ReadIsInScope == asked # None => InScope(got.workers \cup got.certificates \cup got.attempts \cup shown)

\* The views that look workers up.
LookUps == {"overview", "heatmap", "recertDue"}

\* The workers of the first request are in every later one; a request that is to fail has
\* read before a worker came.
FailuresAreNew ==
    /\ code = 500 => failures # 0
    /\ failures # 0 => asked.kind \in LookUps
    /\ asked # None /\ asked.kind \in LookUps =>
         LET scope == ScopedWorkers(asked.profile)
             workers == IF todo = <<>> \/ Ran = 0 THEN scope ELSE got.workers
         IN  opened \subseteq workers /\ failures <= Cardinality(workers \ opened)

\* The pages of a list that have been read.
PagesRead == IF todo # <<>> /\ Ran < 2 THEN page - 1 ELSE page

\* A row that no page has shown is behind the pages that have been read.
RowsLeftAreBehind ==
    asked # None /\ asked.kind \in Lists /\ ~disturbed =>
       /\ listed \subseteq DOMAIN Order
       /\ IF todo # <<>> /\ Ran < 2 THEN got = Nothing ELSE total = Cardinality(listed)
       /\ \A row \in opened : \E k \in listed :
             /\ Order[k] = row
             /\ \/ IdOf(row) \in shown \cup got[asked.kind]
                \/ Rank(listed, k) > PagesRead * PageSize

\* What a visit to a page relies on from one statement to the next, while batches commit.
ViewIInv == ViewTypeOK /\ RestIsEnd /\ ReadIsInScope /\ FailuresAreNew /\ RowsLeftAreBehind

\* An aggregate view that puts several reads together fails only where a batch has
\* committed a worker of the view's sites in the meantime, once for each such worker.
OnlyNewWorkersFailViews ==
    failures # 0 => failures <= Cardinality(ScopedWorkers(asked.profile) \ opened)

\* Whichever way a view finds its rows, by a join, by an id or by a worker it has read,
\* it shows a supervisor the workers and the records of his sites, and nobody else any.
ShownIsInScope ==
    shown # {} => asked.profile # None /\ InScope(shown)

\* Turning the pages of a list to its end shows every row that was in it when the first
\* one was asked for, whatever arrives meanwhile, unless a worker is renamed or a row
\* arrives between the count and the page of one request.
PagesMissNobody ==
    code = 200 /\ asked # None /\ asked.kind \in Lists /\ ~HasNext /\ ~disturbed =>
       {IdOf(row) : row \in opened} \subseteq shown
=============================================================================
