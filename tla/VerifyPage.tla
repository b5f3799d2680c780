----------------------------- MODULE VerifyPage -----------------------------
(***************************************************************************)
(* The public verify page: checks of certificates that run one after the   *)
(* other or at once, in one or more tabs of a browser, which share the     *)
(* cached revocation list.                                                 *)
(*                                                                         *)
(* A check is a process that goes from one await to the next: the result   *)
(* of the offline check is shown, the list is fetched and kept, the result *)
(* is shown again, and the server's answer is shown over it.  The server   *)
(* publishes lists, of which the last is the newest; a list is named by    *)
(* its position.  Transactions that overlap make lists that leave out what *)
(* an earlier one names, and whose clock read before or with an earlier    *)
(* one's (Revocation.tla shows how), so nothing is assumed of their iat    *)
(* and cids.  Certificates are well signed and not expired: what can be    *)
(* wrong with a token does not change.                                     *)
(***************************************************************************)
EXTENDS Integers, Sequences

CONSTANTS Tabs, Checks, Certs,
          MaxLists,  \* bound: lists the server publishes
          MaxIat,    \* bound: the seconds at which it does
          None       \* null

Result == [cert : Certs, status : {"REVOKED", "VALID"}]

CardType == [run : Nat, offline : Result \cup {None}, online : Result \cup {None},
             state : {"checking", "offline", "failed", "done"}]

ASSUME IatAssumption == MaxIat \in Nat
ASSUME NoneAssumption == None \notin Nat \cup Result \cup Tabs /\ None \notin CardType

VARIABLES hasRoot,    \* this build has a root key
          published,  \* the server's lists: [iat, cids]
          cache,      \* localStorage: a position in published, or None
          latestRun,  \* of each tab
          shown,      \* CheckState of each tab
          pc,
          job,        \* the variables of verify() in each check
          wentBack    \* history: an older list has replaced a newer one in the cache

vars == <<hasRoot, published, cache, latestRun, shown, pc, job, wentBack>>

Idle == [tab |-> None, run |-> 0, cert |-> None, online |-> FALSE,
         cached |-> None, answer |-> None, current |-> None]

\* The body of a list the server signs.
SignedList == [iat : 1..MaxIat, cids : SUBSET Certs]

Init ==
    /\ hasRoot \in BOOLEAN
    /\ published \in {<<list>> : list \in SignedList}
    /\ cache = None
    /\ latestRun = [tab \in Tabs |-> 0]
    /\ shown = [tab \in Tabs |-> None]
    /\ pc = [c \in Checks |-> "idle"]
    /\ job = [c \in Checks |-> Idle]
    /\ wentBack = FALSE

-----------------------------------------------------------------------------
Newest == Len(published)

Iat(list) == published[list].iat

Status(cert, list) ==
    IF list # None /\ cert \in published[list].cids THEN "REVOKED" ELSE "VALID"

\* null in a build without the root key
OfflineCheck(cert, list) ==
    IF hasRoot THEN [cert |-> cert, status |-> Status(cert, list)] ELSE None

\* Mutants: a late result is shown whatever runs now; an older list replaces a newer
\* one; a list that does not verify is none.
AnyRun(c) == TRUE
OlderReplaces(c) == job[c].answer # None
ListInUseOrNone(c) == job[c].answer

IsLatest(c) == job[c].run = latestRun[job[c].tab]

GoTo(c, step) == pc' = [pc EXCEPT ![c] = step]

Set(c, field, value) == job' = [job EXCEPT ![c][field] = value]

\* setCheck, unless a newer check has begun in the tab.
Show(c, next) ==
    shown' = IF IsLatest(c) THEN [shown EXCEPT ![job[c].tab] = next] ELSE shown

Card(c) == shown[job[c].tab]

Kept == UNCHANGED <<hasRoot, published, latestRun>>

-----------------------------------------------------------------------------
\* A scan, a paste or the token of the page's address.
Verify(c) ==
    /\ pc[c] = "idle"
    /\ \E tab \in Tabs, cert \in Certs, online \in BOOLEAN :
          /\ latestRun' = [latestRun EXCEPT ![tab] = @ + 1]
          /\ job' = [job EXCEPT ![c] = [Idle EXCEPT
                        !.tab = tab, !.run = latestRun[tab] + 1, !.cert = cert,
                        !.online = online, !.cached = cache]]
    /\ GoTo(c, "first")
    /\ UNCHANGED <<hasRoot, published, cache, shown, wentBack>>

ShowFirst(c) ==
    /\ pc[c] = "first"
    /\ Show(c, [run |-> job[c].run,
                offline |-> OfflineCheck(job[c].cert, job[c].cached), online |-> None,
                state |-> IF job[c].online THEN "checking" ELSE "offline"])
    /\ GoTo(c, IF ~job[c].online THEN "done" ELSE IF hasRoot THEN "fetch" ELSE "ask")
    /\ UNCHANGED <<cache, job, wentBack>>
    /\ Kept

\* GET /revocations is answered; a token that is not signed by the root is a null body.
ServeList(c) ==
    /\ pc[c] = "fetch"
    /\ \E list \in {Newest, None} : Set(c, "answer", list)
    /\ GoTo(c, "read")
    /\ UNCHANGED <<cache, shown, wentBack>>
    /\ Kept

\* storeRevocations reads what is kept ...
ReadCache(c) ==
    /\ pc[c] = "read"
    /\ Set(c, "current", cache)
    /\ GoTo(c, "keep")
    /\ UNCHANGED <<cache, shown, wentBack>>
    /\ Kept

Replaces(c) ==
    /\ job[c].answer # None
    /\ job[c].current = None \/ Iat(job[c].current) <= Iat(job[c].answer)

ListInUse(c) == IF Replaces(c) THEN job[c].answer ELSE job[c].current

\* ... and, after the signature was checked, decides and writes.  Storage may be blocked.
KeepList(c) ==
    /\ pc[c] = "keep"
    /\ Set(c, "cached", ListInUse(c))
    /\ cache' \in IF Replaces(c) THEN {job[c].answer, cache} ELSE {cache}
    /\ wentBack' = (wentBack \/ (cache # None /\ cache' < cache))
    /\ GoTo(c, "again")
    /\ UNCHANGED shown
    /\ Kept

ShowAgain(c) ==
    /\ pc[c] = "again"
    /\ Show(c, [Card(c) EXCEPT !.offline = OfflineCheck(job[c].cert, job[c].cached)])
    /\ GoTo(c, "ask")
    /\ UNCHANGED <<cache, job, wentBack>>
    /\ Kept

\* GET /public/verify is answered, from the newest list.
ServeVerify(c) ==
    /\ pc[c] = "ask"
    /\ Set(c, "answer", [cert |-> job[c].cert, status |-> Status(job[c].cert, Newest)])
    /\ GoTo(c, "answer")
    /\ UNCHANGED <<cache, shown, wentBack>>
    /\ Kept

ShowOnline(c) ==
    /\ pc[c] = "answer"
    /\ Show(c, [Card(c) EXCEPT !.online = job[c].answer, !.state = "done"])
    /\ GoTo(c, "done")
    /\ UNCHANGED <<cache, job, wentBack>>
    /\ Kept

\* Either request fails, without or with an answer of the server.
FailOnline(c) ==
    /\ pc[c] \in {"fetch", "ask"}
    /\ \E state \in {"offline", "failed"} : Show(c, [Card(c) EXCEPT !.state = state])
    /\ GoTo(c, "done")
    /\ UNCHANGED <<cache, job, wentBack>>
    /\ Kept

\* A list becomes the newest: the ids that its transaction saw revoked, and its own.
Publish ==
    /\ Newest < MaxLists
    /\ \E list \in SignedList : published' = Append(published, list)
    /\ UNCHANGED <<hasRoot, cache, latestRun, shown, pc, job, wentBack>>

Next ==
    \/ Publish
    \/ \E c \in Checks :
          \/ Verify(c) \/ ShowFirst(c) \/ ServeList(c) \/ ReadCache(c) \/ KeepList(c)
          \/ ShowAgain(c) \/ ServeVerify(c) \/ ShowOnline(c) \/ FailOnline(c)

Spec == Init /\ [][Next]_vars
-----------------------------------------------------------------------------
(* Properties *)

\* The card a tab draws: the server's answer over the offline one.
Drawn(card) == IF card.online # None THEN card.online ELSE card.offline

Revoked(card) == Drawn(card) # None /\ Drawn(card).status = "REVOKED"

\* A card is about one certificate, that of the latest check which has shown anything:
\* no answer of an earlier check gets into it.
CardIsOfOneCheck ==
    \A c \in Checks :
       pc[c] \notin {"idle", "first"} /\ job[c].run = latestRun[job[c].tab] =>
         LET card == Card(c)
         IN  /\ card.run = job[c].run
             /\ hasRoot => card.offline.cert = job[c].cert
             /\ card.online # None => card.online.cert = job[c].cert

Lists == DOMAIN published

\* The server has published a list that leaves out what an earlier one names.
LaterListOmits(cert) ==
    \E i, j \in Lists : i < j /\ cert \in published[i].cids \ published[j].cids

\* The check goes on with the list it was answered, not with what is kept.
UsesAnswer(c) == job[c].answer # None /\ job[c].cached = job[c].answer

ShowsKeptAgain(c) == pc[c] = "again" /\ pc'[c] = "ask" /\ ~UsesAnswer(c)

\* While the card of a check is on the screen, its REVOKED does not turn into VALID,
\* neither by the list that was fetched nor by the server's answer.  It can in two cases:
\* the server itself has published a list without the certificate after one with it; or an
\* older list has taken the place of a newer one in the cache and the check goes on with
\* what it finds there.
RevokedStays ==
    [][\A tab \in Tabs :
          shown[tab] # None /\ Revoked(shown[tab]) /\ shown'[tab].run = shown[tab].run
          => \/ Revoked(shown'[tab])
             \/ LaterListOmits(shown[tab].offline.cert)
             \/ wentBack /\ \E c \in Checks : ShowsKeptAgain(c)]_vars

\* The list of a check is kept only in place of an older one, unless another check has
\* changed what is kept since this one read it.
OnlyRaceKeepsOlder ==
    [][\A c \in Checks :
          pc[c] = "keep" /\ pc'[c] = "again" /\ cache # None /\ job[c].current = cache
          => cache' # None /\ Iat(cache) <= Iat(cache')]_vars

TypeOK ==
    /\ {hasRoot, wentBack} \subseteq BOOLEAN
    /\ published \in Seq([iat : Nat, cids : SUBSET Certs]) /\ published # <<>>
    /\ cache \in Lists \cup {None}
    /\ latestRun \in [Tabs -> Nat]
    /\ shown \in [Tabs -> CardType \cup {None}]
    /\ pc \in [Checks -> {"idle", "first", "fetch", "read", "keep", "again", "ask", "answer", "done"}]
    /\ DOMAIN job = Checks
    /\ \A c \in Checks :
          /\ DOMAIN job[c] = DOMAIN Idle
          /\ job[c].run \in Nat
          /\ {job[c].cached, job[c].current} \subseteq Lists \cup {None}

Runs(c) == pc[c] # "idle"

\* The runs of a tab are numbered one by one, and a card is of one that has drawn.
RunsAreNumbered ==
    /\ \A c \in Checks :
          Runs(c) => job[c].tab \in Tabs /\ job[c].cert \in Certs /\ job[c].run <= latestRun[job[c].tab]
    /\ \A c, d \in Checks :
          Runs(c) /\ Runs(d) /\ c # d => job[c].tab # job[d].tab \/ job[c].run # job[d].run
    /\ \A tab \in Tabs : shown[tab] # None => shown[tab].run <= latestRun[tab]
    /\ \A c \in Checks : pc[c] = "first" /\ Card(c) # None => Card(c).run # job[c].run

Drew(c) == pc[c] \notin {"idle", "first"} /\ IsLatest(c)

CardIsOfRun(c) ==
    Drew(c) =>
       /\ Card(c) # None /\ Card(c).run = job[c].run
       /\ IF hasRoot THEN Card(c).offline # None /\ Card(c).offline.cert = job[c].cert
                     ELSE Card(c).offline = None
       /\ Card(c).online # None => pc[c] = "done" /\ Card(c).online.cert = job[c].cert

NoOlder(list, other) == list # None => other # None /\ list <= other

CardSaysRevoked(c) == Drew(c) /\ Card(c).offline # None /\ Card(c).offline.status = "REVOKED"

\* At every await: the list a check goes on with is no older than the one its card was
\* drawn from, and an answer that comes next repeats what the card says, but for a later
\* list that leaves the certificate out.
AwaitIsSound(c) ==
    /\ pc[c] \in {"fetch", "read", "keep", "again"} => hasRoot
    /\ pc[c] \in {"fetch", "read", "keep"} /\ CardSaysRevoked(c) =>
          Status(job[c].cert, job[c].cached) = "REVOKED"
    /\ pc[c] \in {"first", "fetch", "read"} /\ ~wentBack => NoOlder(job[c].cached, cache)
    /\ pc[c] = "keep" /\ ~wentBack => NoOlder(job[c].cached, job[c].current)
    /\ pc[c] \in {"read", "keep", "again"} => job[c].answer \in Lists \cup {None}
    /\ pc[c] \in {"read", "keep"} /\ job[c].answer # None => NoOlder(job[c].cached, job[c].answer)
    /\ pc[c] = "again" /\ CardSaysRevoked(c) =>
          \/ Status(job[c].cert, job[c].cached) = "REVOKED"
          \/ LaterListOmits(job[c].cert)
          \/ wentBack /\ ~UsesAnswer(c)
    /\ pc[c] = "ask" /\ CardSaysRevoked(c) =>
          \/ Status(job[c].cert, Newest) = "REVOKED"
          \/ LaterListOmits(job[c].cert)
    /\ pc[c] = "answer" =>
          /\ job[c].answer \in Result /\ job[c].answer.cert = job[c].cert
          /\ CardSaysRevoked(c) => job[c].answer.status = "REVOKED" \/ LaterListOmits(job[c].cert)

\* What is to hold together while checks overlap: the types, one run for each card,
\* and what each check has read and not yet shown.
IInv ==
    /\ TypeOK /\ RunsAreNumbered
    /\ \A c \in Checks : CardIsOfRun(c) /\ AwaitIsSound(c)

\* revocationCache.ts: a newer iat replaces an older one, never the other way round.
NewerIatIsKept ==
    [][cache # None => cache' # None /\ Iat(cache) <= Iat(cache')]_vars
=============================================================================
