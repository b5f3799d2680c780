-------------------------- MODULE VerifyPageProofs --------------------------
(***************************************************************************)
(* The verify page, for any number of tabs, checks, certificates and       *)
(* revocation lists.                                                       *)
(***************************************************************************)
EXTENDS VerifyPage, TLAPS

-----------------------------------------------------------------------------
(* The variables of a check *)

\* The variables of one check but the lists it has read.
SameCheck(c) ==
    /\ job'[c].tab = job[c].tab /\ job'[c].run = job[c].run /\ job'[c].cert = job[c].cert
    /\ job'[c].online = job[c].online

\* An assignment of verify() changes one variable of one check: an answer arrives.
LEMMA SetAnswer ==
    ASSUME TypeOK, NEW c \in Checks, NEW value, Set(c, "answer", value)
    PROVE  /\ DOMAIN job' = Checks /\ DOMAIN job'[c] = DOMAIN Idle
           /\ \A d \in Checks \ {c} : job'[d] = job[d]
           /\ SameCheck(c)
           /\ job'[c].answer = value /\ job'[c].cached = job[c].cached
           /\ job'[c].current = job[c].current
BY DEF TypeOK, Set, SameCheck, Idle

\* verify() reads what is kept.
LEMMA SetCurrent ==
    ASSUME TypeOK, NEW c \in Checks, NEW value, Set(c, "current", value)
    PROVE  /\ DOMAIN job' = Checks /\ DOMAIN job'[c] = DOMAIN Idle
           /\ \A d \in Checks \ {c} : job'[d] = job[d]
           /\ SameCheck(c)
           /\ job'[c].current = value /\ job'[c].cached = job[c].cached
           /\ job'[c].answer = job[c].answer
BY DEF TypeOK, Set, SameCheck, Idle

\* verify() takes the list that is in use now.
LEMMA SetCached ==
    ASSUME TypeOK, NEW c \in Checks, NEW value, Set(c, "cached", value)
    PROVE  /\ DOMAIN job' = Checks /\ DOMAIN job'[c] = DOMAIN Idle
           /\ \A d \in Checks \ {c} : job'[d] = job[d]
           /\ SameCheck(c)
           /\ job'[c].cached = value /\ job'[c].current = job[c].current
           /\ job'[c].answer = job[c].answer
BY DEF TypeOK, Set, SameCheck, Idle

\* Lists are numbers.
LEMMA ListsAreInts ==
    ASSUME TypeOK
    PROVE  /\ \A list \in Lists : list \in Nat
           /\ Newest \in Lists
           /\ \A list \in Lists : list <= Newest
           /\ None \notin Lists
<1>1. Len(published) \in Nat \ {0} /\ Lists = 1 .. Len(published)
  BY DEF TypeOK, Lists
<1>2. QED BY <1>1, NoneAssumption DEF Newest

\* A list has a time and names certificates.
LEMMA ListsAreRecords ==
    ASSUME TypeOK
    PROVE  \A list \in Lists : Iat(list) \in Nat /\ published[list].cids \subseteq Certs
<1> DEFINE Records == [iat : Nat, cids : SUBSET Certs]
<1>1. published \in Seq(Records) /\ Lists = 1 .. Len(published)
  BY DEF TypeOK, Lists
<1> HIDE DEF Records
<1>2. \A list \in Lists : published[list] \in Records
  BY <1>1
<1>3. QED BY <1>2 DEF Records, Iat

\* No older list is one that names the certificate too, unless a later list left it out.
LEMMA NoOlderStatus ==
    ASSUME TypeOK, NEW cert, NEW list \in Lists \cup {None},
           NEW other \in Lists \cup {None}, NoOlder(list, other), Status(cert, list) = "REVOKED"
    PROVE  Status(cert, other) = "REVOKED" \/ LaterListOmits(cert)
<1>1. list \in Lists /\ other \in Lists /\ list \in Nat /\ other \in Nat /\ list <= other
      /\ cert \in published[list].cids
  BY ListsAreInts DEF NoOlder, Status
<1>2. CASE cert \in published[other].cids
  BY <1>1, <1>2, ListsAreInts DEF Status
<1>3. CASE cert \notin published[other].cids
  <2>1. list < other
    BY <1>1, <1>3
  <2>2. QED BY <1>1, <1>3, <2>1 DEF LaterListOmits
<1>4. QED BY <1>2, <1>3

\* What was published stays so: a list that left a certificate out is there for good.
LEMMA OmissionStays ==
    ASSUME Lists \subseteq Lists', \A list \in Lists : published'[list] = published[list],
           NEW cert, LaterListOmits(cert)
    PROVE  LaterListOmits(cert)'
BY DEF LaterListOmits

\* A step of one check leaves the others what they have read and drawn: another card of
\* the same tab is not of a check that is the latest there.
LEMMA OneCheck ==
    ASSUME IInv, NEW c \in Checks, Runs(c), NEW step, GoTo(c, step),
           step \in {"fetch", "read", "keep", "again", "ask", "answer", "done"},
           Kept, DOMAIN job' = Checks, SameCheck(c),
           \A d \in Checks \ {c} : job'[d] = job[d],
           DOMAIN job'[c] = DOMAIN Idle,
           {job'[c].cached, job'[c].current} \subseteq Lists \cup {None},
           NEW card, card = None \/ (card \in CardType /\ card.run = job[c].run /\ IsLatest(c)),
           shown' = IF card = None THEN shown ELSE [shown EXCEPT ![job[c].tab] = card],
           wentBack' \in BOOLEAN, wentBack => wentBack',
           cache' \in Lists \cup {None}, ~wentBack' => NoOlder(cache, cache'),
           CardIsOfRun(c)', AwaitIsSound(c)'
    PROVE  IInv'
<1> USE DEF IInv
<1>1. /\ published' = published /\ hasRoot' = hasRoot /\ latestRun' = latestRun
      /\ Lists' = Lists
  BY DEF Kept, Lists
<1>2. /\ pc' \in [Checks -> {"idle", "first", "fetch", "read", "keep", "again", "ask", "answer", "done"}]
      /\ pc'[c] = step /\ \A d \in Checks \ {c} : pc'[d] = pc[d]
  BY DEF TypeOK, GoTo
<1>3. shown' \in [Tabs -> CardType \cup {None}]
  BY DEF TypeOK
<1>4. TypeOK'
  <2>1. \A d \in Checks :
           /\ DOMAIN job'[d] = DOMAIN Idle /\ job'[d].run \in Nat
           /\ {job'[d].cached, job'[d].current} \subseteq Lists \cup {None}
    BY DEF TypeOK, SameCheck
  <2>2. QED BY <1>1, <1>2, <1>3, <2>1 DEF TypeOK, Kept
<1>5. \A cert : LaterListOmits(cert)' = LaterListOmits(cert)
  BY <1>1 DEF LaterListOmits
<1>6. job[c].tab \in Tabs /\ job[c].run <= latestRun[job[c].tab]
  BY DEF RunsAreNumbered
<1>7. ASSUME NEW d \in Checks \ {c}, Runs(d)
      PROVE  /\ IsLatest(d)' = IsLatest(d)
             /\ IsLatest(d) => Card(d)' = Card(d)
  <2>1. IsLatest(d)' = IsLatest(d)
    BY <1>1, <1>7 DEF IsLatest
  <2>2. ASSUME IsLatest(d) PROVE Card(d)' = Card(d)
    <3>1. card # None => job[d].tab # job[c].tab
      BY <1>7, <2>2, NoneAssumption DEF RunsAreNumbered, IsLatest
    <3>2. QED BY <1>7, <3>1 DEF Card, TypeOK, RunsAreNumbered
  <2>3. QED BY <2>1, <2>2
<1>8. RunsAreNumbered'
  <2>1. \A d \in Checks : Runs(d)' => Runs(d)
    BY <1>2 DEF Runs
  <2>2. \A d \in Checks : job'[d].tab = job[d].tab /\ job'[d].cert = job[d].cert /\ job'[d].run = job[d].run
    BY DEF SameCheck
  <2>3. \A tab \in Tabs : shown'[tab] # None => shown'[tab].run <= latestRun[tab]
    BY <1>6, NoneAssumption DEF RunsAreNumbered, TypeOK
  <2>4. ASSUME NEW d \in Checks, pc'[d] = "first", Card(d)' # None PROVE Card(d)'.run # job[d].run
    <3>1. d # c /\ pc[d] = "first" /\ Runs(d)
      BY <1>2, <2>4 DEF Runs
    <3>2. CASE Card(d)' = Card(d)
      BY <2>4, <3>1, <3>2 DEF RunsAreNumbered
    <3>3. CASE Card(d)' # Card(d)
      <4>1. card # None /\ job[d].tab = job[c].tab /\ Card(d)' = card
        BY <3>1, <3>3, <1>6 DEF Card, TypeOK
      <4>2. QED BY <3>1, <4>1 DEF RunsAreNumbered
    <3>4. QED BY <3>2, <3>3
  <2>5. QED BY <1>1, <2>1, <2>2, <2>3, <2>4 DEF RunsAreNumbered
<1>9. ASSUME NEW d \in Checks \ {c} PROVE CardIsOfRun(d)' /\ AwaitIsSound(d)'
  <2>1. job'[d] = job[d] /\ pc'[d] = pc[d]
    BY <1>2
  <2>2. Drew(d)' = Drew(d) /\ (Drew(d) => Card(d)' = Card(d))
    BY <1>7, <2>1 DEF Drew, Runs
  <2>3. CardIsOfRun(d)'
    BY <1>1, <2>1, <2>2 DEF CardIsOfRun
  <2>4. CardSaysRevoked(d)' = CardSaysRevoked(d)
    BY <2>2 DEF CardSaysRevoked
  <2>5. \A list : Status(job[d].cert, list)' = Status(job[d].cert, list)
    BY <1>1, <2>1 DEF Status
  <2>6. pc[d] \in {"first", "fetch", "read"} /\ ~wentBack' => NoOlder(job[d].cached, cache')
    <3>1. job[d].cached \in Lists \cup {None} /\ cache \in Lists \cup {None}
      BY DEF TypeOK
    <3>2. QED BY <3>1, ListsAreInts DEF AwaitIsSound, NoOlder
  <2>7. Newest' = Newest
    BY <1>1 DEF Newest
  <2>8. AwaitIsSound(d)'
    BY <1>1, <1>5, <2>1, <2>4, <2>5, <2>6, <2>7 DEF AwaitIsSound, NoOlder, Status, UsesAnswer
  <2>9. QED BY <2>3, <2>8
<1>10. QED BY <1>4, <1>8, <1>9
-----------------------------------------------------------------------------
(* Initial states, publishing, and a check that begins *)

\* Nothing is shown, read or running at first.
LEMMA InitIInv == Init => IInv
<1> SUFFICES ASSUME Init PROVE IInv
  OBVIOUS
<1> USE DEF Init
<1>1. Lists = {1} /\ published \in Seq([iat : Nat, cids : SUBSET Certs]) /\ published # <<>>
  <2>1. PICK list \in SignedList : published = <<list>>
    OBVIOUS
  <2>2. list \in [iat : Nat, cids : SUBSET Certs]
    BY IatAssumption DEF SignedList
  <2>3. QED BY <2>1, <2>2 DEF Lists
<1>2. TypeOK
  BY <1>1 DEF TypeOK, Idle
<1>3. RunsAreNumbered
  BY DEF RunsAreNumbered, Runs
<1>4. \A c \in Checks : CardIsOfRun(c) /\ AwaitIsSound(c)
  <2> SUFFICES ASSUME NEW c \in Checks PROVE CardIsOfRun(c) /\ AwaitIsSound(c)
    OBVIOUS
  <2>1. pc[c] = "idle"
    OBVIOUS
  <2>2. QED BY <2>1 DEF CardIsOfRun, AwaitIsSound, Drew
<1>5. QED BY <1>2, <1>3, <1>4 DEF IInv

\* A new list is added at the end, whatever it names.
LEMMA PublishIInv == IInv /\ Publish => IInv'
<1> SUFFICES ASSUME IInv, Publish PROVE IInv'
  OBVIOUS
<1> USE DEF IInv
<1>1. PICK last \in SignedList : published' = Append(published, last)
  BY DEF Publish
<1>2. UNCHANGED <<hasRoot, cache, latestRun, shown, pc, job, wentBack>>
  BY DEF Publish
<1>3. Newest \in Lists /\ Newest \in Nat
  BY ListsAreInts
<1>4. /\ published' \in Seq([iat : Nat, cids : SUBSET Certs]) /\ published' # <<>>
      /\ Lists' = Lists \cup {Newest + 1} /\ Newest' = Newest + 1
      /\ \A list \in Lists : published'[list] = published[list]
  <2>1. Newest = Len(published) /\ Lists = 1 .. Newest
    BY <1>3 DEF Newest, Lists, TypeOK
  <2>2. last \in [iat : Nat, cids : SUBSET Certs]
    BY IatAssumption DEF SignedList
  <2>3. published \in Seq([iat : Nat, cids : SUBSET Certs])
    BY DEF TypeOK
  <2>4. /\ published' \in Seq([iat : Nat, cids : SUBSET Certs]) /\ Len(published') = Newest + 1
        /\ \A list \in 1 .. Newest : published'[list] = published[list]
    BY <1>1, <2>1, <2>2, <2>3
  <2>5. published' # <<>> /\ Lists' = 1 .. Newest + 1
    BY <1>3, <2>4 DEF Lists
  <2>6. QED BY <1>3, <2>1, <2>4, <2>5 DEF Newest
<1>5. TypeOK'
  BY <1>2, <1>4 DEF TypeOK
<1>6. \A cert : LaterListOmits(cert) => LaterListOmits(cert)'
  BY <1>4, OmissionStays
<1>7. RunsAreNumbered'
  BY <1>2 DEF RunsAreNumbered, Runs, Card
<1>8. ASSUME NEW c \in Checks PROVE CardIsOfRun(c)' /\ AwaitIsSound(c)'
  <2>1. CardIsOfRun(c)'
    BY <1>2 DEF CardIsOfRun, Drew, IsLatest, Card
  <2>2. CardSaysRevoked(c)' = CardSaysRevoked(c)
    BY <1>2 DEF CardSaysRevoked, Drew, IsLatest, Card
  <2>3. \A list \in Lists \cup {None} : Status(job[c].cert, list)' = Status(job[c].cert, list)
    BY <1>2, <1>4 DEF Status
  <2>4. Status(job[c].cert, Newest) = "REVOKED" =>
           Status(job[c].cert, Newest)' = "REVOKED" \/ LaterListOmits(job[c].cert)'
    <3>1. ASSUME job[c].cert \in published[Newest].cids,
                 job[c].cert \notin published'[Newest + 1].cids
          PROVE  LaterListOmits(job[c].cert)'
      BY <1>2, <1>3, <1>4, <3>1 DEF LaterListOmits
    <3>2. Newest # None /\ (Newest + 1) # None
      BY <1>3, NoneAssumption
    <3>3. QED BY <1>2, <1>4, <3>1, <3>2 DEF Status
  <2>5. job[c].cached \in Lists \cup {None}
    BY DEF TypeOK
  <2>6. AwaitIsSound(c)'
    BY <1>2, <1>4, <1>6, <2>2, <2>3, <2>4, <2>5 DEF AwaitIsSound, NoOlder, Status, UsesAnswer
  <2>7. QED BY <2>1, <2>6
<1>9. QED BY <1>5, <1>7, <1>8

\* A check begins with a number that no run of the tab has.
LEMMA VerifyIInv == ASSUME IInv, NEW c \in Checks, Verify(c) PROVE IInv'
<1> USE DEF IInv
<1>1. PICK tab \in Tabs, cert \in Certs, online \in BOOLEAN :
         /\ latestRun' = [latestRun EXCEPT ![tab] = @ + 1]
         /\ job' = [job EXCEPT ![c] = [Idle EXCEPT
                       !.tab = tab, !.run = latestRun[tab] + 1, !.cert = cert,
                       !.online = online, !.cached = cache]]
  BY DEF Verify
<1>2. /\ pc[c] = "idle" /\ GoTo(c, "first")
      /\ UNCHANGED <<hasRoot, published, cache, shown, wentBack>> /\ Lists' = Lists
  BY DEF Verify, Lists
<1>3. /\ DOMAIN job' = Checks /\ DOMAIN job'[c] = DOMAIN Idle
      /\ job'[c].tab = tab /\ job'[c].run = latestRun[tab] + 1 /\ job'[c].cert = cert
      /\ job'[c].cached = cache /\ job'[c].current = None
      /\ \A d \in Checks \ {c} : job'[d] = job[d]
  BY <1>1 DEF Idle, TypeOK
<1>4. /\ pc' \in [Checks -> {"idle", "first", "fetch", "read", "keep", "again", "ask", "answer", "done"}]
      /\ pc'[c] = "first" /\ \A d \in Checks \ {c} : pc'[d] = pc[d]
  BY <1>2 DEF TypeOK, GoTo
<1>5. /\ latestRun' \in [Tabs -> Nat] /\ latestRun'[tab] = latestRun[tab] + 1
      /\ \A other \in Tabs : latestRun[other] \in Nat /\ latestRun[other] <= latestRun'[other]
      /\ \A other \in Tabs \ {tab} : latestRun'[other] = latestRun[other]
  BY <1>1 DEF TypeOK
<1>6. TypeOK'
  <2>1. \A d \in Checks :
           /\ DOMAIN job'[d] = DOMAIN Idle /\ job'[d].run \in Nat
           /\ {job'[d].cached, job'[d].current} \subseteq Lists \cup {None}
    BY <1>3, <1>5 DEF TypeOK
  <2>2. QED BY <1>2, <1>3, <1>4, <1>5, <2>1 DEF TypeOK
<1>7. \A x : LaterListOmits(x)' = LaterListOmits(x)
  BY <1>2 DEF LaterListOmits
<1>8. \A d \in Checks \ {c} : Runs(d) => job[d].run <= latestRun[job[d].tab] /\ job[d].run \in Nat /\ job[d].tab \in Tabs
  BY DEF RunsAreNumbered, TypeOK
<1>9. RunsAreNumbered'
  <2>1. \A d \in Checks : Runs(d)' => job'[d].tab \in Tabs /\ job'[d].cert \in Certs
                                      /\ job'[d].run <= latestRun'[job'[d].tab]
    BY <1>1, <1>3, <1>4, <1>5, <1>8 DEF RunsAreNumbered, Runs, TypeOK
  <2>2. \A d \in Checks \ {c} : Runs(d) => job[d].tab # tab \/ job[d].run # latestRun[tab] + 1
    BY <1>5, <1>8
  <2>3. \A d, e \in Checks :
           Runs(d)' /\ Runs(e)' /\ d # e => job'[d].tab # job'[e].tab \/ job'[d].run # job'[e].run
    BY <1>3, <1>4, <2>2 DEF RunsAreNumbered, Runs
  <2>4. \A other \in Tabs : shown[other] # None =>
           shown[other].run \in Nat /\ shown[other].run <= latestRun[other]
    BY DEF RunsAreNumbered, TypeOK, CardType
  <2>5. \A other \in Tabs : shown'[other] # None => shown'[other].run <= latestRun'[other]
    BY <1>2, <1>5, <2>4
  <2>6. \A d \in Checks : pc'[d] = "first" /\ shown[job'[d].tab] # None => shown[job'[d].tab].run # job'[d].run
    <3>1. shown[tab] # None => shown[tab].run # latestRun[tab] + 1
      BY <1>5, <2>4
    <3>2. QED BY <1>3, <1>4, <3>1 DEF RunsAreNumbered, Card
  <2>7. QED BY <1>2, <2>1, <2>3, <2>5, <2>6 DEF RunsAreNumbered, Card
<1>10. ASSUME NEW d \in Checks \ {c} PROVE CardIsOfRun(d)' /\ AwaitIsSound(d)'
  <2>1. job'[d] = job[d] /\ pc'[d] = pc[d] /\ Card(d)' = Card(d)
    BY <1>2, <1>3, <1>4 DEF Card
  <2>2. Drew(d)' => Drew(d)
    <3>1. pc[d] \notin {"idle", "first"} => Runs(d)
      BY DEF Runs
    <3>2. Runs(d) /\ IsLatest(d)' => IsLatest(d)
      BY <1>5, <1>8, <2>1 DEF IsLatest
    <3>3. QED BY <2>1, <3>1, <3>2 DEF Drew
  <2>3. CardIsOfRun(d)'
    BY <1>2, <2>1, <2>2 DEF CardIsOfRun
  <2>4. CardSaysRevoked(d)' => CardSaysRevoked(d)
    BY <2>1, <2>2 DEF CardSaysRevoked
  <2>5. \A list : Status(job[d].cert, list)' = Status(job[d].cert, list)
    BY <1>2, <2>1 DEF Status
  <2>6. Newest' = Newest
    BY <1>2 DEF Newest
  <2>7. AwaitIsSound(d)'
    BY <1>2, <1>7, <2>1, <2>4, <2>5, <2>6 DEF AwaitIsSound, NoOlder, Status, UsesAnswer
  <2>8. QED BY <2>3, <2>7
<1>11. CardIsOfRun(c)' /\ AwaitIsSound(c)'
  <2>1. ~Drew(c)'
    BY <1>4 DEF Drew
  <2>2. NoOlder(cache, cache)
    BY ListsAreInts DEF NoOlder, TypeOK
  <2>3. QED BY <1>2, <1>3, <1>4, <2>1, <2>2 DEF CardIsOfRun, AwaitIsSound, CardSaysRevoked, NoOlder
<1>12. QED BY <1>6, <1>9, <1>10, <1>11
-----------------------------------------------------------------------------
(* The steps of a check *)

\* A step that shows nothing leaves the card as it is.
LEMMA QuietStep ==
    ASSUME IInv, NEW c \in Checks, pc[c] \notin {"idle", "first", "done"}, NEW step, GoTo(c, step),
           step \notin {"idle", "first"}, Kept, SameCheck(c), UNCHANGED shown
    PROVE  /\ Runs(c) /\ pc'[c] = step /\ Lists' = Lists /\ Newest' = Newest
           /\ CardIsOfRun(c)'
           /\ CardSaysRevoked(c)' = CardSaysRevoked(c)
           /\ \A list : Status(job[c].cert, list)' = Status(job[c].cert, list)
<1>1. pc'[c] = step
  BY DEF IInv, TypeOK, GoTo
<1>2. Card(c)' = Card(c) /\ Drew(c)' = Drew(c)
  BY <1>1 DEF Card, Drew, IsLatest, Kept, SameCheck
<1>3. Runs(c) /\ Lists' = Lists /\ Newest' = Newest
  BY DEF Runs, Kept, Lists, Newest
<1>4. CardIsOfRun(c)'
  BY <1>1, <1>2 DEF IInv, CardIsOfRun, Kept, SameCheck
<1>5. CardSaysRevoked(c)' = CardSaysRevoked(c)
  BY <1>2 DEF CardSaysRevoked
<1>6. \A list : Status(job[c].cert, list)' = Status(job[c].cert, list)
  BY DEF Status, Kept, SameCheck
<1>7. QED BY <1>1, <1>3, <1>4, <1>5, <1>6

\* A step that shows something draws it if the check is the latest of its tab.
LEMMA ShowStep ==
    ASSUME IInv, NEW c \in Checks, Runs(c), NEW step, GoTo(c, step),
           step \in {"fetch", "read", "keep", "again", "ask", "answer", "done"},
           Kept, UNCHANGED <<cache, job, wentBack>>,
           NEW next, Show(c, next), IsLatest(c) => next \in CardType /\ next.run = job[c].run,
           CardIsOfRun(c)', AwaitIsSound(c)'
    PROVE  IInv'
<1>1. PICK card : card = IF IsLatest(c) THEN next ELSE None
  OBVIOUS
<1>2. card = None \/ (card \in CardType /\ card.run = job[c].run /\ IsLatest(c))
  BY <1>1
<1>3. shown' = IF card = None THEN shown ELSE [shown EXCEPT ![job[c].tab] = card]
  BY <1>1, NoneAssumption DEF Show
<1>4. /\ DOMAIN job' = Checks /\ SameCheck(c) /\ \A d \in Checks \ {c} : job'[d] = job[d]
      /\ DOMAIN job'[c] = DOMAIN Idle
      /\ {job'[c].cached, job'[c].current} \subseteq Lists \cup {None}
      /\ wentBack' \in BOOLEAN /\ cache' \in Lists \cup {None}
  BY DEF IInv, TypeOK, SameCheck
<1>5. NoOlder(cache, cache')
  BY ListsAreInts DEF NoOlder, IInv, TypeOK
<1>6. QED BY <1>2, <1>3, <1>4, <1>5, OneCheck

\* What a check that is the latest shows is what is drawn.
LEMMA ShownCard ==
    ASSUME IInv, NEW c \in Checks, Runs(c), NEW step, GoTo(c, step), Kept,
           UNCHANGED <<cache, job, wentBack>>, NEW next, Show(c, next)
    PROVE  /\ pc'[c] = step /\ Lists' = Lists /\ Newest' = Newest
           /\ Drew(c)' => IsLatest(c) /\ Card(c)' = next
           /\ \A list : Status(job[c].cert, list)' = Status(job[c].cert, list)
<1>1. pc'[c] = step /\ job[c].tab \in Tabs /\ shown \in [Tabs -> CardType \cup {None}]
  BY DEF IInv, TypeOK, GoTo, RunsAreNumbered
<1>2. Lists' = Lists /\ Newest' = Newest
  BY DEF Kept, Lists, Newest
<1>3. IsLatest(c)' = IsLatest(c)
  BY DEF Kept, IsLatest
<1>4. Drew(c)' => IsLatest(c) /\ Card(c)' = next
  BY <1>1, <1>3 DEF Drew, Show, Card
<1>5. \A list : Status(job[c].cert, list)' = Status(job[c].cert, list)
  BY DEF Status, Kept
<1>6. QED BY <1>1, <1>2, <1>4, <1>5

\* The first result is that of the list kept when the check began.
LEMMA ShowFirstIInv == ASSUME IInv, NEW c \in Checks, ShowFirst(c) PROVE IInv'
<1>1. PICK next : next = [run |-> job[c].run,
                offline |-> OfflineCheck(job[c].cert, job[c].cached), online |-> None,
                state |-> IF job[c].online THEN "checking" ELSE "offline"]
  OBVIOUS
<1>2. PICK step : step = IF ~job[c].online THEN "done" ELSE IF hasRoot THEN "fetch" ELSE "ask"
  OBVIOUS
<1>3. /\ pc[c] = "first" /\ Runs(c) /\ Show(c, next) /\ GoTo(c, step) /\ Kept
      /\ UNCHANGED <<cache, job, wentBack>>
  BY <1>1, <1>2 DEF ShowFirst, Runs
<1>4. step \in {"done", "fetch", "ask"} /\ (step = "fetch" => hasRoot)
      /\ (step = "ask" => ~hasRoot)
  BY <1>2
<1>5. /\ pc'[c] = step /\ Lists' = Lists /\ Newest' = Newest
      /\ Drew(c)' => IsLatest(c) /\ Card(c)' = next
      /\ \A list : Status(job[c].cert, list)' = Status(job[c].cert, list)
  BY <1>3, ShownCard
<1>6. next \in CardType /\ next.run = job[c].run
  <2>1. job[c].cert \in Certs /\ job[c].run \in Nat
    BY <1>3 DEF IInv, TypeOK, RunsAreNumbered
  <2>2. OfflineCheck(job[c].cert, job[c].cached) \in Result \cup {None}
    BY <2>1 DEF OfflineCheck, Result, Status
  <2>3. QED BY <1>1, <2>1, <2>2 DEF CardType
<1>7. CardIsOfRun(c)'
  <2>1. next # None
    BY <1>6, NoneAssumption
  <2>2. next.online = None /\ next.offline = OfflineCheck(job[c].cert, job[c].cached)
    BY <1>1
  <2>3. hasRoot => next.offline # None /\ next.offline.cert = job[c].cert
    <3>1. hasRoot => next.offline = [cert |-> job[c].cert, status |-> Status(job[c].cert, job[c].cached)]
      BY <2>2 DEF OfflineCheck
    <3>2. hasRoot => next.offline \in Result
      BY <1>3, <3>1 DEF Result, Status, IInv, RunsAreNumbered
    <3>3. QED BY <3>1, <3>2, NoneAssumption
  <2>4. ~hasRoot => next.offline = None
    BY <2>2 DEF OfflineCheck
  <2>5. QED BY <1>3, <1>5, <1>6, <2>1, <2>2, <2>3, <2>4 DEF CardIsOfRun, Kept
<1>8. AwaitIsSound(c)'
  <2>1. CardSaysRevoked(c)' => hasRoot /\ Status(job[c].cert, job[c].cached) = "REVOKED"
    BY <1>1, <1>5 DEF CardSaysRevoked, OfflineCheck
  <2>2. ~wentBack => NoOlder(job[c].cached, cache)
    BY <1>3 DEF IInv, AwaitIsSound
  <2>3. QED BY <1>3, <1>4, <1>5, <2>1, <2>2 DEF AwaitIsSound, Kept, NoOlder
<1>9. QED BY <1>3, <1>4, <1>6, <1>7, <1>8, ShowStep

\* The list that arrives is the newest, or none.
LEMMA ServeListIInv == ASSUME IInv, NEW c \in Checks, ServeList(c) PROVE IInv'
<1>1. PICK list \in {Newest, None} : Set(c, "answer", list)
  BY DEF ServeList
<1>2. /\ pc[c] = "fetch" /\ GoTo(c, "read") /\ UNCHANGED <<cache, shown, wentBack>> /\ Kept
      /\ TypeOK /\ AwaitIsSound(c)
  BY DEF ServeList, IInv
<1>3. /\ DOMAIN job' = Checks /\ DOMAIN job'[c] = DOMAIN Idle
      /\ \A d \in Checks \ {c} : job'[d] = job[d]
      /\ SameCheck(c)
      /\ job'[c].answer = list /\ job'[c].cached = job[c].cached
      /\ job'[c].current = job[c].current
  BY <1>1, <1>2, SetAnswer
<1>4. /\ Runs(c) /\ pc'[c] = "read" /\ Lists' = Lists
      /\ CardIsOfRun(c)'
      /\ CardSaysRevoked(c)' = CardSaysRevoked(c)
      /\ \A l : Status(job[c].cert, l)' = Status(job[c].cert, l)
  BY <1>2, <1>3, QuietStep
<1>5. /\ job[c].cached \in Lists \cup {None} /\ cache \in Lists \cup {None}
      /\ job[c].current \in Lists \cup {None} /\ wentBack \in BOOLEAN
  BY <1>2 DEF TypeOK
<1>6. AwaitIsSound(c)'
  <2>1. Newest \in Lists /\ (list # None => NoOlder(job[c].cached, list))
    BY <1>1, <1>2, <1>5, ListsAreInts DEF NoOlder
  <2>2. QED BY <1>1, <1>2, <1>3, <1>4, <2>1 DEF AwaitIsSound, Kept, NoOlder, Status
<1>7. NoOlder(cache, cache')
  BY <1>2, <1>5, ListsAreInts DEF NoOlder
<1>8. shown' = IF None = None THEN shown ELSE [shown EXCEPT ![job[c].tab] = None]
  BY <1>2
<1>9. QED BY <1>2, <1>3, <1>4, <1>5, <1>6, <1>7, <1>8, OneCheck

\* What is kept is no older than what the check began with.
LEMMA ReadCacheIInv == ASSUME IInv, NEW c \in Checks, ReadCache(c) PROVE IInv'
<1>1. PICK value : value = cache
  OBVIOUS
<1>2. /\ pc[c] = "read" /\ GoTo(c, "keep") /\ UNCHANGED <<cache, shown, wentBack>> /\ Kept
      /\ TypeOK /\ AwaitIsSound(c) /\ Set(c, "current", value)
  BY <1>1 DEF ReadCache, IInv
<1>3. /\ DOMAIN job' = Checks /\ DOMAIN job'[c] = DOMAIN Idle
      /\ \A d \in Checks \ {c} : job'[d] = job[d]
      /\ SameCheck(c)
      /\ job'[c].current = cache /\ job'[c].cached = job[c].cached
      /\ job'[c].answer = job[c].answer
  BY <1>1, <1>2, SetCurrent
<1>4. /\ Runs(c) /\ pc'[c] = "keep" /\ Lists' = Lists
      /\ CardIsOfRun(c)'
      /\ CardSaysRevoked(c)' = CardSaysRevoked(c)
      /\ \A l : Status(job[c].cert, l)' = Status(job[c].cert, l)
  BY <1>2, <1>3, QuietStep
<1>5. /\ job[c].cached \in Lists \cup {None} /\ cache \in Lists \cup {None}
      /\ wentBack \in BOOLEAN
  BY <1>2 DEF TypeOK
<1>6. AwaitIsSound(c)'
  BY <1>2, <1>3, <1>4 DEF AwaitIsSound, Kept, NoOlder, Status
<1>7. NoOlder(cache, cache')
  BY <1>2, <1>5, ListsAreInts DEF NoOlder
<1>8. shown' = IF None = None THEN shown ELSE [shown EXCEPT ![job[c].tab] = None]
  BY <1>2
<1>9. QED BY <1>2, <1>3, <1>4, <1>5, <1>6, <1>7, <1>8, OneCheck

\* The list a check goes on with names a certificate that the one it began with names,
\* unless a later list left it out, or an older one was kept and the check goes on with it.
LEMMA ListInUseNamesIt ==
    ASSUME IInv, NEW c \in Checks, pc[c] = "keep", CardSaysRevoked(c)
    PROVE  \/ Status(job[c].cert, ListInUse(c)) = "REVOKED"
           \/ LaterListOmits(job[c].cert)
           \/ wentBack /\ ~(job[c].answer # None /\ ListInUse(c) = job[c].answer)
<1>1. /\ job[c].cached \in Lists \cup {None} /\ job[c].current \in Lists \cup {None}
      /\ job[c].answer \in Lists \cup {None}
      /\ Status(job[c].cert, job[c].cached) = "REVOKED"
      /\ job[c].answer # None => NoOlder(job[c].cached, job[c].answer)
      /\ ~wentBack => NoOlder(job[c].cached, job[c].current)
      /\ TypeOK
  BY DEF IInv, TypeOK, AwaitIsSound
<1>2. CASE job[c].answer # None /\ ListInUse(c) = job[c].answer
  BY <1>1, <1>2, NoOlderStatus
<1>3. CASE ~(job[c].answer # None /\ ListInUse(c) = job[c].answer) /\ ~wentBack
  <2>1. ListInUse(c) = job[c].current
    BY <1>3 DEF ListInUse, Replaces
  <2>2. QED BY <1>1, <1>3, <2>1, NoOlderStatus
<1>4. QED BY <1>1, <1>2, <1>3 DEF TypeOK

\* A list is kept, or not; going back to an older one is remembered.
LEMMA KeepListIInv == ASSUME IInv, NEW c \in Checks, KeepList(c) PROVE IInv'
<1>1. PICK value : value = ListInUse(c)
  OBVIOUS
<1>2. /\ pc[c] = "keep" /\ GoTo(c, "again") /\ UNCHANGED shown /\ Kept
      /\ cache' \in IF Replaces(c) THEN {job[c].answer, cache} ELSE {cache}
      /\ wentBack' = (wentBack \/ (cache # None /\ cache' < cache))
      /\ TypeOK /\ AwaitIsSound(c) /\ Set(c, "cached", value)
  BY <1>1 DEF KeepList, IInv
<1>3. /\ DOMAIN job' = Checks /\ DOMAIN job'[c] = DOMAIN Idle
      /\ \A d \in Checks \ {c} : job'[d] = job[d]
      /\ SameCheck(c)
      /\ job'[c].cached = ListInUse(c) /\ job'[c].current = job[c].current
      /\ job'[c].answer = job[c].answer
  BY <1>1, <1>2, SetCached
<1>4. /\ Runs(c) /\ pc'[c] = "again" /\ Lists' = Lists
      /\ CardIsOfRun(c)'
      /\ CardSaysRevoked(c)' = CardSaysRevoked(c)
      /\ \A l : Status(job[c].cert, l)' = Status(job[c].cert, l)
  BY <1>2, <1>3, QuietStep
<1>5. /\ job[c].cached \in Lists \cup {None} /\ job[c].current \in Lists \cup {None}
      /\ cache \in Lists \cup {None} /\ job[c].answer \in Lists \cup {None} /\ hasRoot
      /\ wentBack \in BOOLEAN
  BY <1>2 DEF TypeOK, AwaitIsSound
<1>6. /\ ListInUse(c) \in Lists \cup {None} /\ cache' \in Lists \cup {None}
      /\ Replaces(c) => job[c].answer # None
  BY <1>2, <1>5 DEF ListInUse, Replaces
<1>7. AwaitIsSound(c)'
  <2>1. CardSaysRevoked(c) =>
           \/ Status(job[c].cert, ListInUse(c)) = "REVOKED"
           \/ LaterListOmits(job[c].cert)
           \/ wentBack /\ ~(job[c].answer # None /\ ListInUse(c) = job[c].answer)
    BY <1>2, ListInUseNamesIt
  <2>2. wentBack => wentBack'
    BY <1>2
  <2>3. Status(job[c].cert, job[c].cached)' = Status(job[c].cert, ListInUse(c))
    BY <1>2, <1>3 DEF Status, Kept, SameCheck
  <2>4. LaterListOmits(job[c].cert)' = LaterListOmits(job[c].cert)
    BY <1>2, <1>3, <1>4 DEF LaterListOmits, Kept, SameCheck
  <2>5. UsesAnswer(c)' = (job[c].answer # None /\ ListInUse(c) = job[c].answer)
    BY <1>3 DEF UsesAnswer
  <2>6. QED BY <1>2, <1>3, <1>4, <1>5, <2>1, <2>2, <2>3, <2>4, <2>5 DEF AwaitIsSound, Kept
<1>8. ~wentBack' => NoOlder(cache, cache')
  <2>1. CASE cache' = cache
    BY <1>5, <2>1, ListsAreInts, <1>2 DEF NoOlder
  <2>2. CASE cache' = job[c].answer /\ job[c].answer # None
    <3>1. cache' \in Lists /\ cache' # None
      BY <1>5, <2>2
    <3>2. \A list \in Lists : list \in Nat
      BY <1>2, ListsAreInts
    <3>3. ~wentBack' => cache = None \/ ~(cache' < cache)
      BY <1>2
    <3>4. QED BY <1>5, <3>1, <3>2, <3>3 DEF NoOlder
  <2>3. QED BY <1>2, <1>6, <2>1, <2>2
<1>9. shown' = IF None = None THEN shown ELSE [shown EXCEPT ![job[c].tab] = None]
  BY <1>2
<1>10. wentBack' \in BOOLEAN /\ (wentBack => wentBack')
  BY <1>2, <1>5
<1>11. QED BY <1>2, <1>3, <1>4, <1>5, <1>6, <1>7, <1>8, <1>9, <1>10, OneCheck
\* The result is drawn again from the list in use.
LEMMA ShowAgainIInv == ASSUME IInv, NEW c \in Checks, ShowAgain(c) PROVE IInv'
<1>1. PICK next : next = [Card(c) EXCEPT !.offline = OfflineCheck(job[c].cert, job[c].cached)]
  OBVIOUS
<1>2. /\ pc[c] = "again" /\ Runs(c) /\ Show(c, next) /\ GoTo(c, "ask") /\ Kept
      /\ UNCHANGED <<cache, job, wentBack>> /\ hasRoot /\ TypeOK
  BY <1>1 DEF ShowAgain, Runs, IInv, AwaitIsSound
<1>3. /\ pc'[c] = "ask" /\ Lists' = Lists /\ Newest' = Newest
      /\ Drew(c)' => IsLatest(c) /\ Card(c)' = next
      /\ \A list : Status(job[c].cert, list)' = Status(job[c].cert, list)
  BY <1>2, ShownCard
<1>4. PICK offline : offline = [cert |-> job[c].cert, status |-> Status(job[c].cert, job[c].cached)]
  OBVIOUS
<1>5. offline \in Result /\ offline # None /\ OfflineCheck(job[c].cert, job[c].cached) = offline
  <2>1. offline \in Result
    BY <1>2, <1>4 DEF IInv, RunsAreNumbered, Result, Status
  <2>2. QED BY <1>2, <1>4, <2>1, NoneAssumption DEF OfflineCheck
<1>6. ASSUME IsLatest(c)
      PROVE  /\ next \in CardType /\ next # None /\ next.run = job[c].run
             /\ next.offline = offline /\ next.online = None
  <2>1. Card(c) \in CardType /\ Card(c).run = job[c].run /\ Card(c).online = None
    BY <1>2, <1>6 DEF IInv, TypeOK, CardIsOfRun, Drew, RunsAreNumbered, Runs, Card
  <2>2. next \in CardType /\ next.run = job[c].run /\ next.offline = offline /\ next.online = None
    BY <1>1, <1>5, <2>1 DEF CardType
  <2>3. QED BY <2>2, NoneAssumption
<1>7. CardIsOfRun(c)'
  BY <1>2, <1>3, <1>4, <1>5, <1>6 DEF CardIsOfRun, Kept
<1>8. AwaitIsSound(c)'
  <2>1. job[c].cached \in Lists \cup {None} /\ Newest \in Lists
        /\ NoOlder(job[c].cached, Newest)
    BY <1>2, ListsAreInts DEF TypeOK, NoOlder
  <2>2. CardSaysRevoked(c)' => Status(job[c].cert, job[c].cached) = "REVOKED"
    BY <1>3, <1>4, <1>6 DEF CardSaysRevoked
  <2>3. CardSaysRevoked(c)' =>
           Status(job[c].cert, Newest) = "REVOKED" \/ LaterListOmits(job[c].cert)
    BY <1>2, <2>1, <2>2, NoOlderStatus
  <2>4. /\ Status(job[c].cert, Newest)' = Status(job[c].cert, Newest)
        /\ LaterListOmits(job[c].cert)' = LaterListOmits(job[c].cert)
    BY <1>2, <1>3 DEF Status, Kept, Newest, LaterListOmits
  <2>5. QED BY <1>2, <1>3, <2>3, <2>4 DEF AwaitIsSound
<1>9. QED BY <1>2, <1>6, <1>7, <1>8, ShowStep

\* The server answers from the newest list, which may leave out what the card's list names.
LEMMA ServeVerifyIInv == ASSUME IInv, NEW c \in Checks, ServeVerify(c) PROVE IInv'
<1>1. PICK value : value = [cert |-> job[c].cert, status |-> Status(job[c].cert, Newest)]
  OBVIOUS
<1>2. /\ pc[c] = "ask" /\ GoTo(c, "answer") /\ UNCHANGED <<cache, shown, wentBack>> /\ Kept
      /\ TypeOK /\ AwaitIsSound(c) /\ Set(c, "answer", value)
  BY <1>1 DEF ServeVerify, IInv
<1>3. /\ DOMAIN job' = Checks /\ DOMAIN job'[c] = DOMAIN Idle
      /\ \A d \in Checks \ {c} : job'[d] = job[d]
      /\ SameCheck(c)
      /\ job'[c].answer = value /\ job'[c].cached = job[c].cached
      /\ job'[c].current = job[c].current
  BY <1>2, SetAnswer
<1>4. /\ Runs(c) /\ pc'[c] = "answer" /\ Lists' = Lists
      /\ CardIsOfRun(c)'
      /\ CardSaysRevoked(c)' = CardSaysRevoked(c)
      /\ \A l : Status(job[c].cert, l)' = Status(job[c].cert, l)
  BY <1>2, <1>3, QuietStep
<1>5. /\ job[c].cached \in Lists \cup {None} /\ cache \in Lists \cup {None}
      /\ job[c].current \in Lists \cup {None} /\ wentBack \in BOOLEAN
  BY <1>2 DEF TypeOK
<1>6. AwaitIsSound(c)'
  <2>1. value \in Result /\ value.cert = job[c].cert
        /\ (CardSaysRevoked(c) => value.status = "REVOKED" \/ LaterListOmits(job[c].cert))
    BY <1>1, <1>2, <1>4 DEF IInv, RunsAreNumbered, AwaitIsSound, Result, Status
  <2>2. LaterListOmits(job[c].cert)' = LaterListOmits(job[c].cert)
    BY <1>2, <1>3, <1>4 DEF LaterListOmits, Kept, SameCheck
  <2>3. QED BY <1>2, <1>3, <1>4, <2>1, <2>2 DEF AwaitIsSound, SameCheck
<1>7. NoOlder(cache, cache')
  BY <1>2, <1>5, ListsAreInts DEF NoOlder
<1>8. shown' = IF None = None THEN shown ELSE [shown EXCEPT ![job[c].tab] = None]
  BY <1>2
<1>9. QED BY <1>2, <1>3, <1>4, <1>5, <1>6, <1>7, <1>8, OneCheck

\* The last step of a check, which draws the server's answer or what became of it.
LEMMA LastStep ==
    ASSUME IInv, NEW c \in Checks, pc[c] \notin {"idle", "first"}, NEW next, Show(c, next),
           GoTo(c, "done"), Kept, UNCHANGED <<cache, job, wentBack>>,
           IsLatest(c) => /\ next \in CardType /\ next.run = Card(c).run
                          /\ next.offline = Card(c).offline
                          /\ next.online # None => next.online.cert = job[c].cert
    PROVE  IInv'
<1>1. Runs(c)
  BY DEF Runs
<1>2. /\ pc'[c] = "done" /\ Lists' = Lists /\ Newest' = Newest
      /\ Drew(c)' => IsLatest(c) /\ Card(c)' = next
  BY <1>1, ShownCard
<1>3. IsLatest(c) => CardIsOfRun(c) /\ Drew(c)
  BY DEF IInv, Drew
<1>4. CardIsOfRun(c)'
  BY <1>2, <1>3, NoneAssumption DEF CardIsOfRun, Kept
<1>5. AwaitIsSound(c)'
  BY <1>2 DEF AwaitIsSound
<1>6. IsLatest(c) => next \in CardType /\ next.run = job[c].run
  BY <1>3 DEF CardIsOfRun
<1>7. QED BY <1>1, <1>4, <1>5, <1>6, ShowStep

\* A card that was drawn is of its type.
LEMMA DrawnCard ==
    ASSUME IInv, NEW c \in Checks, Drew(c)
    PROVE  Card(c) \in CardType /\ Card(c).online \in Result \cup {None}
BY DEF IInv, TypeOK, CardIsOfRun, RunsAreNumbered, Runs, Drew, Card, CardType

\* The server's answer is shown over the offline result.
LEMMA ShowOnlineIInv == ASSUME IInv, NEW c \in Checks, ShowOnline(c) PROVE IInv'
<1>1. PICK next : next = [Card(c) EXCEPT !.online = job[c].answer, !.state = "done"]
  OBVIOUS
<1>2. /\ pc[c] = "answer" /\ Show(c, next) /\ GoTo(c, "done") /\ Kept
      /\ UNCHANGED <<cache, job, wentBack>>
      /\ job[c].answer \in Result /\ job[c].answer.cert = job[c].cert
  BY <1>1 DEF ShowOnline, IInv, AwaitIsSound
<1>3. ASSUME IsLatest(c)
      PROVE  /\ next \in CardType /\ next.run = Card(c).run /\ next.offline = Card(c).offline
             /\ next.online # None => next.online.cert = job[c].cert
  <2>1. Card(c) \in CardType
    BY <1>2, <1>3, DrawnCard DEF Drew
  <2>2. QED BY <1>1, <1>2, <2>1 DEF CardType
<1>4. QED BY <1>2, <1>3, LastStep

\* A request that failed changes only the card's state.
LEMMA FailOnlineIInv == ASSUME IInv, NEW c \in Checks, FailOnline(c) PROVE IInv'
<1>1. PICK state \in {"offline", "failed"} : Show(c, [Card(c) EXCEPT !.state = state])
  BY DEF FailOnline
<1>2. PICK next : next = [Card(c) EXCEPT !.state = state]
  OBVIOUS
<1>3. /\ pc[c] \in {"fetch", "ask"} /\ Show(c, next) /\ GoTo(c, "done") /\ Kept
      /\ UNCHANGED <<cache, job, wentBack>>
  BY <1>1, <1>2 DEF FailOnline
<1>4. ASSUME IsLatest(c)
      PROVE  /\ next \in CardType /\ next.run = Card(c).run /\ next.offline = Card(c).offline
             /\ next.online # None => next.online.cert = job[c].cert
  <2>1. Card(c) \in CardType /\ Card(c).online = None
    BY <1>3, <1>4, DrawnCard DEF Drew, IInv, CardIsOfRun
  <2>2. QED BY <1>1, <1>2, <2>1 DEF CardType
<1>5. QED BY <1>3, <1>4, LastStep

\* A step that changes nothing changes none of this.
LEMMA StutterIInv == IInv /\ UNCHANGED vars => IInv'
BY DEF IInv, vars, TypeOK, RunsAreNumbered, CardIsOfRun, AwaitIsSound, Lists, Runs, Drew,
       IsLatest, Card, CardSaysRevoked, NoOlder, Status, Newest, LaterListOmits, UsesAnswer

\* No step breaks the invariant.
LEMMA StepIInv == IInv /\ [Next]_vars => IInv'
<1> SUFFICES ASSUME IInv, [Next]_vars PROVE IInv'
  OBVIOUS
<1>1. CASE Publish
  BY <1>1, PublishIInv
<1>2. ASSUME NEW c \in Checks,
             \/ Verify(c) \/ ShowFirst(c) \/ ServeList(c) \/ ReadCache(c) \/ KeepList(c)
             \/ ShowAgain(c) \/ ServeVerify(c) \/ ShowOnline(c) \/ FailOnline(c)
      PROVE IInv'
  BY <1>2, VerifyIInv, ShowFirstIInv, ServeListIInv, ReadCacheIInv, KeepListIInv, ShowAgainIInv,
     ServeVerifyIInv, ShowOnlineIInv, FailOnlineIInv
<1>3. CASE UNCHANGED vars
  BY <1>3, StutterIInv
<1>4. QED BY <1>1, <1>2, <1>3 DEF Next

-----------------------------------------------------------------------------
(* Theorems *)

\* verify() and storeRevocations(): what overlapping checks have read and what their cards
\* show belong together, for any number of tabs, checks and lists.
THEOREM IInvHolds == Spec => []IInv
BY InitIInv, StepIInv, PTL DEF Spec

\* latestRun: a card is about one certificate, that of the latest check which has drawn.
THEOREM CardIsOfOneCheckHolds == Spec => []CardIsOfOneCheck
<1>1. IInv => CardIsOfOneCheck
  BY DEF IInv, CardIsOfRun, Drew, IsLatest, CardIsOfOneCheck
<1>2. QED BY <1>1, IInvHolds, PTL
\* A step of a check changes only what its own tab shows, and only its own place.
LEMMA OnlyItsTab ==
    ASSUME IInv, NEW c \in Checks, NEW next, Show(c, next), pc[c] # "idle"
    PROVE  \A tab \in Tabs : shown'[tab] # shown[tab] =>
              IsLatest(c) /\ tab = job[c].tab /\ shown[tab] = Card(c) /\ shown'[tab] = next
BY DEF IInv, TypeOK, Show, Card, RunsAreNumbered, Runs

\* What a step of one check shows on a card that says REVOKED.
LEMMA StepKeepsRevoked ==
    ASSUME IInv, NEW c \in Checks, NEW tab \in Tabs,
           ShowFirst(c) \/ ShowAgain(c) \/ ShowOnline(c) \/ FailOnline(c),
           shown'[tab] # shown[tab], shown[tab] # None, Revoked(shown[tab]),
           shown'[tab].run = shown[tab].run
    PROVE  \/ Revoked(shown'[tab])
           \/ LaterListOmits(shown[tab].offline.cert)
           \/ wentBack /\ ShowsKeptAgain(c)
<1>1. CASE ShowFirst(c)
  <2>1. PICK next : next.run = job[c].run /\ Show(c, next)
    BY <1>1 DEF ShowFirst
  <2>2. shown[tab] = Card(c) /\ shown'[tab] = next
    BY <1>1, <2>1, OnlyItsTab DEF ShowFirst
  <2>3. QED BY <1>1, <2>1, <2>2 DEF ShowFirst, IInv, RunsAreNumbered
<1>2. ASSUME pc[c] \in {"fetch", "again", "ask", "answer"}, IsLatest(c), shown[tab] = Card(c)
      PROVE  /\ Card(c) \in CardType /\ Card(c).online = None /\ CardSaysRevoked(c)
             /\ shown[tab].offline.cert = job[c].cert
  <2>1. Drew(c) /\ CardIsOfRun(c) /\ Card(c) \in CardType /\ Card(c).online = None
    BY <1>2, DrawnCard DEF Drew, IInv, CardIsOfRun
  <2>2. QED BY <1>2, <2>1 DEF Revoked, Drawn, CardSaysRevoked, CardIsOfRun
<1>3. CASE ShowAgain(c)
  <2>1. PICK next : next = [Card(c) EXCEPT !.offline = OfflineCheck(job[c].cert, job[c].cached)]
    OBVIOUS
  <2>2. /\ pc[c] = "again" /\ Show(c, next) /\ hasRoot /\ pc'[c] = "ask"
    BY <1>3, <2>1 DEF ShowAgain, IInv, AwaitIsSound, GoTo, TypeOK
  <2>3. IsLatest(c) /\ shown[tab] = Card(c) /\ shown'[tab] = next
    BY <2>2, OnlyItsTab
  <2>4. /\ Card(c) \in CardType /\ Card(c).online = None /\ CardSaysRevoked(c)
        /\ shown[tab].offline.cert = job[c].cert
    BY <1>2, <2>2, <2>3
  <2>5. \/ Status(job[c].cert, job[c].cached) = "REVOKED"
        \/ LaterListOmits(job[c].cert)
        \/ wentBack /\ ~UsesAnswer(c)
    BY <2>2, <2>4 DEF IInv, AwaitIsSound
  <2>6. next.online = None
        /\ next.offline = [cert |-> job[c].cert, status |-> Status(job[c].cert, job[c].cached)]
    BY <2>1, <2>2, <2>4 DEF CardType, OfflineCheck
  <2>7. next.offline \in Result
    BY <2>2, <2>6 DEF IInv, RunsAreNumbered, Runs, Result, Status
  <2>8. QED BY <2>2, <2>3, <2>4, <2>5, <2>6, <2>7, NoneAssumption DEF Revoked, Drawn, ShowsKeptAgain
<1>4. CASE ShowOnline(c)
  <2>1. PICK next : next = [Card(c) EXCEPT !.online = job[c].answer, !.state = "done"]
    OBVIOUS
  <2>2. pc[c] = "answer" /\ Show(c, next)
    BY <1>4, <2>1 DEF ShowOnline
  <2>3. IsLatest(c) /\ shown[tab] = Card(c) /\ shown'[tab] = next
    BY <2>2, OnlyItsTab
  <2>4. Card(c) \in CardType /\ CardSaysRevoked(c) /\ shown[tab].offline.cert = job[c].cert
    BY <1>2, <2>2, <2>3
  <2>5. /\ job[c].answer \in Result
        /\ job[c].answer.status = "REVOKED" \/ LaterListOmits(job[c].cert)
    BY <2>2, <2>4 DEF IInv, AwaitIsSound
  <2>6. next.online = job[c].answer
    BY <2>1, <2>4 DEF CardType
  <2>7. QED BY <2>3, <2>4, <2>5, <2>6, NoneAssumption DEF Revoked, Drawn
<1>5. CASE FailOnline(c)
  <2>1. PICK state \in {"offline", "failed"} : Show(c, [Card(c) EXCEPT !.state = state])
    BY <1>5 DEF FailOnline
  <2>2. PICK next : next = [Card(c) EXCEPT !.state = state]
    OBVIOUS
  <2>3. pc[c] \in {"fetch", "ask"} /\ Show(c, next)
    BY <1>5, <2>1, <2>2 DEF FailOnline
  <2>4. IsLatest(c) /\ shown[tab] = Card(c) /\ shown'[tab] = next
    BY <2>3, OnlyItsTab
  <2>5. Card(c) \in CardType
    BY <1>2, <2>3, <2>4
  <2>6. next.online = Card(c).online /\ next.offline = Card(c).offline
    BY <2>2, <2>5 DEF CardType
  <2>7. QED BY <2>4, <2>6 DEF Revoked, Drawn
<1>6. QED BY <1>1, <1>3, <1>4, <1>5

\* verify(): on the card of one check a REVOKED stays, whatever lists and answers follow,
\* unless the server has published a later list without the certificate, or an older list
\* was kept in place of a newer one and the check goes on with what is kept.
THEOREM RevokedStaysHolds == Spec => RevokedStays
<1> DEFINE Stays == \A tab \in Tabs :
          shown[tab] # None /\ Revoked(shown[tab]) /\ shown'[tab].run = shown[tab].run
          => \/ Revoked(shown'[tab])
             \/ LaterListOmits(shown[tab].offline.cert)
             \/ wentBack /\ \E c \in Checks : ShowsKeptAgain(c)
<1>1. IInv /\ [Next]_vars => [Stays]_vars
  <2> SUFFICES ASSUME IInv, Next, NEW tab \in Tabs, shown[tab] # None, Revoked(shown[tab]),
                      shown'[tab].run = shown[tab].run
               PROVE  \/ Revoked(shown'[tab])
                      \/ LaterListOmits(shown[tab].offline.cert)
                      \/ wentBack /\ \E c \in Checks : ShowsKeptAgain(c)
    OBVIOUS
  <2>1. CASE shown'[tab] = shown[tab]
    BY <2>1
  <2>2. CASE shown'[tab] # shown[tab]
    <3>1. PICK c \in Checks : ShowFirst(c) \/ ShowAgain(c) \/ ShowOnline(c) \/ FailOnline(c)
      BY <2>2 DEF Next, Publish, Verify, ServeList, ReadCache, KeepList, ServeVerify
    <3>2. QED BY <2>2, <3>1, StepKeepsRevoked
  <2>3. QED BY <2>1, <2>2
<1>2. QED BY <1>1, IInvHolds, PTL DEF Spec, RevokedStays

\* storeRevocations(): only a check that lost a race keeps a list of an earlier second.
THEOREM OnlyRaceKeepsOlderHolds == Spec => OnlyRaceKeepsOlder
<1> DEFINE Keeps == \A c \in Checks :
          pc[c] = "keep" /\ pc'[c] = "again" /\ cache # None /\ job[c].current = cache
          => cache' # None /\ Iat(cache) <= Iat(cache')
<1>1. IInv /\ [Next]_vars => [Keeps]_vars
  <2> SUFFICES ASSUME IInv, Next, NEW c \in Checks, pc[c] = "keep", pc'[c] = "again",
                      cache # None, job[c].current = cache
               PROVE  cache' # None /\ Iat(cache) <= Iat(cache')
    OBVIOUS
  <2>1. KeepList(c)
    <3>1. ASSUME NEW d \in Checks, NEW step, GoTo(d, step) PROVE d = c /\ step = "again"
      BY <3>1 DEF GoTo, IInv, TypeOK
    <3>2. pc' # pc
      OBVIOUS
    <3>3. QED
      BY <3>1, <3>2 DEF Next, Publish, Verify, ShowFirst, ServeList, ReadCache, KeepList, ShowAgain,
                        ServeVerify, ShowOnline, FailOnline
  <2>2. cache \in Lists /\ Iat(cache) \in Nat
    BY ListsAreRecords DEF IInv, TypeOK
  <2>3. CASE cache' = cache
    BY <2>2, <2>3
  <2>4. CASE cache' # cache
    BY <2>1, <2>4 DEF KeepList, Replaces
  <2>5. QED BY <2>3, <2>4
<1>2. QED BY <1>1, IInvHolds, PTL DEF Spec, OnlyRaceKeepsOlder
=============================================================================
