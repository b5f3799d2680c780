----------------------------- MODULE PhoneProofs -----------------------------
(***************************************************************************)
(* The screens for any workers, records and bounds, and any depth of the   *)
(* stack of pages; and the phone's database, its outbox and the server     *)
(* behind it, for any clock that is set and any requests that are lost.    *)
(***************************************************************************)
EXTENDS Phone, LedgerProofs

-----------------------------------------------------------------------------
(* Stacks of pages *)

\* A stack has pages at 1..Len, and is a sequence of any set that holds them.
LEMMA StackIsSeq ==
    ASSUME NEW pages, pages \in Seq(Range(pages)), NEW extra
    PROVE  /\ Len(pages) \in Nat
           /\ DOMAIN pages = 1..Len(pages)
           /\ pages \in Seq(Range(pages) \cup {extra})
           /\ \A k \in 1..Len(pages) : pages[k] \in Range(pages)
BY DEF Range

\* A page is pushed over Home and others.
LEMMA AppendStack ==
    ASSUME NEW pages, NEW db, NEW s,
           StackOK(pages, db), pages[1].page = "home",
           Alive(s, db), s.page \notin {"home", "setup"},
           s.page \in PagesOverWorkers => Len(pages) > 1
    PROVE  StackOK(Append(pages, s), db)
<1> DEFINE S == Range(pages) \cup {s}
           more == Append(pages, s)
<1>1. pages \in Seq(S) /\ s \in S /\ Len(pages) \in Nat /\ Len(pages) > 0
  BY StackIsSeq DEF StackOK
<1>2. /\ more \in Seq(S)
      /\ Len(more) = Len(pages) + 1
      /\ \A k \in 1..Len(pages) : more[k] = pages[k]
      /\ more[Len(pages) + 1] = s
  BY <1>1, AppendProperties
<1>3. more \in Seq(Range(more))
  BY <1>2, SeqOfRange
<1>4. \A k \in 1..Len(more) : Alive(more[k], db)
  <2> SUFFICES ASSUME NEW k \in 1..Len(more) PROVE Alive(more[k], db)
    OBVIOUS
  <2>1. CASE k \in 1..Len(pages) BY <2>1, <1>2 DEF StackOK
  <2>2. CASE k = Len(pages) + 1 BY <2>2, <1>2
  <2>3. QED BY <2>1, <2>2, <1>1, <1>2
<1>5. \A k \in 2..Len(more) : more[k].page \notin {"home", "setup"}
  <2> SUFFICES ASSUME NEW k \in 2..Len(more) PROVE more[k].page \notin {"home", "setup"}
    OBVIOUS
  <2>1. CASE k \in 2..Len(pages) BY <2>1, <1>1, <1>2 DEF StackOK
  <2>2. CASE k = Len(pages) + 1 BY <2>2, <1>2
  <2>3. QED BY <2>1, <2>2, <1>1, <1>2
<1>6. more[1].page = "home" /\ Len(more) > 0
  BY <1>1, <1>2
<1>7. more[2].page \notin PagesOverWorkers
  <2>1. CASE Len(pages) > 1
    <3>1. 2 \in 1..Len(pages)
      BY <1>1, <2>1
    <3>2. QED BY <1>2, <2>1, <3>1 DEF StackOK
  <2>2. CASE Len(pages) = 1
    BY <1>2, <2>2
  <2>3. QED BY <1>1, <2>1, <2>2
<1>8. QED BY <1>3, <1>4, <1>5, <1>6, <1>7 DEF StackOK

\* The page in focus is left.
LEMMA FrontStack ==
    ASSUME NEW pages, NEW db, StackOK(pages, db), Len(pages) > 1
    PROVE  /\ StackOK(Front(pages), db)
           /\ Len(Front(pages)) = Len(pages) - 1
<1> DEFINE S == Range(pages)
           less == Front(pages)
<1>1. pages \in Seq(S) /\ Len(pages) \in Nat /\ \A k \in 1..Len(pages) : pages[k] \in S
  BY StackIsSeq DEF StackOK
<1>2. less = SubSeq(pages, 1, Len(pages) - 1)
  BY DEF Front
<1>3. \A k \in 1..(Len(pages) - 1) : pages[k] \in S
  BY <1>1
<1>4. /\ SubSeq(pages, 1, Len(pages) - 1) \in Seq(S)
      /\ Len(SubSeq(pages, 1, Len(pages) - 1)) =
            IF 1 <= Len(pages) - 1 THEN Len(pages) - 1 - 1 + 1 ELSE 0
      /\ \A k \in 1..(Len(pages) - 1 - 1 + 1) : SubSeq(pages, 1, Len(pages) - 1)[k] = pages[1 + k - 1]
  <2>1. Len(pages) - 1 \in Int /\ 1 \in Int
    BY <1>1
  <2>2. QED BY ONLY <2>1, <1>3, SubSeqProperties
<1>5. /\ less \in Seq(S)
      /\ Len(less) = Len(pages) - 1
      /\ \A k \in 1..Len(less) : less[k] = pages[k]
  BY <1>1, <1>2, <1>4
<1>6. less \in Seq(Range(less))
  BY <1>5, SeqOfRange
<1>7. \A k \in 1..Len(less) : Alive(less[k], db)
  BY <1>1, <1>5 DEF StackOK
<1>8. QED BY <1>1, <1>5, <1>6, <1>7 DEF StackOK

\* A page is replaced, by one that is Home or setup only where there was one.
LEMMA ExceptStack ==
    ASSUME NEW pages, NEW db, NEW k, NEW s,
           StackOK(pages, db), k \in 1..Len(pages), Alive(s, db),
           k = 1 => s.page = pages[1].page \/ (s.page = "home" /\ Len(pages) = 1),
           k # 1 => s.page \notin {"home", "setup"},
           k = 2 => s.page = pages[2].page \/ s.page \notin PagesOverWorkers
    PROVE  /\ StackOK([pages EXCEPT ![k] = s], db)
           /\ Len([pages EXCEPT ![k] = s]) = Len(pages)
           /\ \A j \in 1..Len(pages) : [pages EXCEPT ![k] = s][j] = IF j = k THEN s ELSE pages[j]
<1> DEFINE S == Range(pages) \cup {s}
           other == [pages EXCEPT ![k] = s]
<1>1. pages \in Seq(S) /\ s \in S /\ Len(pages) \in Nat /\ Len(pages) > 0
  BY StackIsSeq DEF StackOK
<1>2. /\ other \in Seq(S)
      /\ Len(other) = Len(pages)
      /\ \A j \in 1..Len(pages) : other[j] = IF j = k THEN s ELSE pages[j]
  BY <1>1, ExceptSeq
<1>3. other \in Seq(Range(other))
  BY <1>2, SeqOfRange
<1>4. \A j \in 1..Len(other) : Alive(other[j], db)
  <2> SUFFICES ASSUME NEW j \in 1..Len(other) PROVE Alive(other[j], db)
    OBVIOUS
  <2>1. CASE j = k BY <2>1, <1>2
  <2>2. CASE j # k BY <2>2, <1>2 DEF StackOK
  <2>3. QED BY <2>1, <2>2
<1>5. \A j \in 2..Len(other) : other[j].page \notin {"home", "setup"}
  BY <1>1, <1>2 DEF StackOK
<1>6. other[1].page \in {"home", "setup"} /\ (Len(other) > 1 => other[1].page = "home")
  BY <1>1, <1>2 DEF StackOK
<1>7. Len(other) > 1 => other[2].page \notin PagesOverWorkers
  BY <1>1, <1>2 DEF StackOK
<1>8. QED BY <1>1, <1>2, <1>3, <1>4, <1>5, <1>6, <1>7 DEF StackOK

\* The first page alone.
LEMMA OneStack ==
    ASSUME NEW s, NEW db, Alive(s, db), s.page \in {"home", "setup"}
    PROVE  StackOK(<<s>>, db)
<1> DEFINE one == <<s>>
<1>1. Len(one) = 1 /\ one[1] = s /\ one \in Seq({s})
  OBVIOUS
<1>2. one \in Seq(Range(one))
  BY <1>1 DEF Range
<1>3. QED BY <1>1, <1>2 DEF StackOK

-----------------------------------------------------------------------------
(* Pages and what they read *)

\* Nobody is gone, and no record.
Keeps(db, later) ==
    /\ \A w \in Workers : getWorker(db, w) # None => getWorker(later, w) # None
    /\ \A a \in Attempts : db.records[a] # None => later.records[a] = db.records[a]

\* Then pages stay as good as they were.
LEMMA StackKept ==
    ASSUME NEW pages, NEW db, NEW later, StackOK(pages, db), Keeps(db, later)
    PROVE  StackOK(pages, later)
<1>1. ASSUME NEW s, Alive(s, db) PROVE Alive(s, later)
  <2>1. s.page = "worker" => s.shown.attempts \subseteq RecordsOf(later, Attempts, s.worker)
    BY <1>1 DEF Alive, Keeps, RecordsOf
  <2>2. s.page = "home" =>
           \A row \in s.shown.listed : row.id \in Workers /\ getWorker(later, row.id) # None
    BY <1>1 DEF Alive, Keeps
  <2>3. IF s.page \in WorkerPages
        THEN s.worker \in Workers /\ getWorker(later, s.worker) # None ELSE s.worker = None
    BY <1>1 DEF Alive, Keeps
  <2>4. QED BY <1>1, <2>1, <2>2, <2>3 DEF Alive
<1>2. QED BY <1>1 DEF StackOK

\* A page opens on a worker who is there, or on none.
LEMMA OpenAlive ==
    ASSUME NEW page, NEW id, NEW db, page # "result",
           IF page \in WorkerPages THEN id \in Workers /\ getWorker(db, id) # None ELSE id = None
    PROVE  /\ Alive(Open(page, id, db), db)
           /\ Open(page, id, db).page = page /\ Open(page, id, db).worker = id
           /\ Open(page, id, db).shown = Reads(page, id, db)
<1> DEFINE s == Open(page, id, db)
<1>1. s = [page |-> page, worker |-> id, shown |-> Reads(page, id, db)]
  BY DEF Open
<1>2. ASSUME page = "home" PROVE \A row \in s.shown.listed : row.id \in Workers /\ getWorker(db, row.id) # None
  BY <1>1, <1>2 DEF Reads, listWorkers
<1>3. ASSUME page = "worker" PROVE s.shown.attempts \subseteq RecordsOf(db, Attempts, s.worker)
  BY <1>1, <1>3 DEF Reads
<1>4. QED BY <1>1, <1>2, <1>3 DEF Alive

\* A result opens on the worker of its attempt.
LEMMA OpenResultAlive ==
    ASSUME NEW a, NEW db, db.records[a].worker \in Workers, getWorker(db, db.records[a].worker) # None
    PROVE  Alive(Open("result", a, db), db) /\ Open("result", a, db).page = "result"
BY DEF Open, Alive, WorkerPages

\* What FocusShowsStored says of the page in focus.
UpToDate(s, db) ==
    /\ s.page \in {"home", "worker"} => s.shown = Reads(s.page, s.worker, db)
    /\ s.page = "card" => s.shown.photo = latestPhoto(db, s.worker)

\* A page that gets the focus is the same page, up to date.
LEMMA FocusedAlive ==
    ASSUME NEW s, NEW db, Alive(s, db)
    PROVE  /\ Alive(Focused(s, db), db)
           /\ Focused(s, db).page = s.page /\ Focused(s, db).worker = s.worker
           /\ UpToDate(Focused(s, db), db)
<1>1. CASE s.page \in {"home", "settings", "worker"}
  <2>1. Focused(s, db) = Open(s.page, s.worker, db)
    BY <1>1 DEF Focused
  <2>2. IF s.page \in WorkerPages THEN s.worker \in Workers /\ getWorker(db, s.worker) # None ELSE s.worker = None
    BY DEF Alive
  <2>3. QED BY <1>1, <2>1, <2>2, OpenAlive DEF UpToDate
<1>2. CASE s.page = "card"
  <2>1. Focused(s, db) = [s EXCEPT !.shown = [name |-> @.name, photo |-> latestPhoto(db, s.worker)]]
    BY <1>2 DEF Focused
  <2> DEFINE new == [name |-> s.shown.name, photo |-> latestPhoto(db, s.worker)]
  <2>2. Focused(s, db) = [page |-> s.page, worker |-> s.worker, shown |-> new]
    BY <2>1 DEF Alive
  <2>3. QED BY <1>2, <2>2 DEF Alive, UpToDate
<1>3. CASE s.page \notin {"home", "settings", "worker", "card"}
  BY <1>3 DEF Focused, UpToDate
<1>4. QED BY <1>1, <1>2, <1>3

\* Pages that list nothing may show anything.
LEMMA ShownAlive ==
    ASSUME NEW s, NEW db, NEW value, Alive(s, db), s.page \notin {"home", "worker"}
    PROVE  /\ Alive([s EXCEPT !.shown = value], db)
           /\ [s EXCEPT !.shown = value].page = s.page
           /\ [s EXCEPT !.shown = value].worker = s.worker
BY DEF Alive

\* The last of some pages gets the focus.
LEMMA FocusedStack ==
    ASSUME NEW pages, NEW db, StackOK(pages, db)
    PROVE  LET top == Focused(pages[Len(pages)], db)
               new == [pages EXCEPT ![Len(pages)] = top]
           IN  /\ StackOK(new, db)
               /\ Len(new) = Len(pages) /\ new[Len(new)] = top
               /\ UpToDate(top, db) /\ Alive(top, db)
<1> DEFINE last == Len(pages)
           top == Focused(pages[last], db)
<1>0. last \in Nat /\ last > 0
  BY StackIsSeq DEF StackOK
<1> HIDE DEF last
<1>1. last \in 1..last /\ (last # 1 => last \in 2..last)
  BY <1>0
<1>2. Alive(pages[last], db)
  BY <1>1 DEF StackOK, last
<1>3. Alive(top, db) /\ top.page = pages[last].page /\ UpToDate(top, db)
  BY <1>2, FocusedAlive
<1> HIDE DEF top
<1>4. last # 1 => top.page \notin {"home", "setup"}
  BY <1>1, <1>3 DEF StackOK, last
<1>5. /\ StackOK([pages EXCEPT ![last] = top], db)
      /\ Len([pages EXCEPT ![last] = top]) = Len(pages)
      /\ [pages EXCEPT ![last] = top][last] = top
  <2>1. last \in 1..Len(pages)
    BY <1>1 DEF last
  <2>2. (last = 1 => top.page = pages[1].page) /\ (last = 2 => top.page = pages[2].page)
    BY <1>3
  <2>3. QED BY <2>1, <2>2, <1>3, <1>4, ExceptStack
<1>6. QED BY <1>3, <1>5 DEF last, top

-----------------------------------------------------------------------------
(* Steps *)

\* What every step has to show of the screens.
ScreensOK == StackOK(stack', Db') /\ FocusShowsStored' /\ WorkerLanguage

\* FocusShowsStored of the page in focus.
LEMMA FocusIsUpToDate == FocusShowsStored' <=> UpToDate(Top', Db')
BY DEF FocusShowsStored, UpToDate

LEMMA LanguageOf ==
    ASSUME NEW db, NEW s, Alive(s, db), s.page = "worker"
    PROVE  LocaleAfter(s, db) = db.workers[s.worker].preferredLang
BY DEF Alive, WorkerPages, LocaleAfter, getWorker

\* A step that ends by showing pages with workers who are there.
LEMMA ShowOK ==
    ASSUME NEW pages, StackOK(pages, Db'), Show(pages)
    PROVE  ScreensOK /\ Len(stack') = Len(pages)
<1> DEFINE db == Db'
           top == Focused(pages[Len(pages)], db)
<1>1. stack' = [pages EXCEPT ![Len(pages)] = top] /\ locale' = LocaleAfter(top, db)
  BY DEF Show
<1>2. StackOK(pages, db)
  OBVIOUS
<1>3. db.workers = workers'
  BY DEF Db
<1> HIDE DEF db
<1>4. /\ StackOK(stack', db) /\ stack'[Len(stack')] = top /\ UpToDate(top, db) /\ Alive(top, db)
      /\ Len(stack') = Len(pages)
  BY <1>1, <1>2, FocusedStack
<1>5. top.page = "worker" => locale' = workers'[top.worker].preferredLang
  BY <1>1, <1>3, <1>4, LanguageOf
<1> HIDE DEF top
<1>6. QED BY <1>4, <1>5, FocusIsUpToDate DEF ScreensOK, Top, WorkerLanguage, db

\* A page and its place in the stack.
LEMMA PageInStack ==
    ASSUME StackOK(stack, Db), NEW k \in DOMAIN stack
    PROVE  /\ Len(stack) \in Nat /\ Len(stack) > 0 /\ k \in 1..Len(stack)
           /\ Alive(stack[k], Db)
           /\ stack[k].page \in {"home", "setup"} => k = 1
           /\ stack[k].page \notin {"home", "setup"} => k # 1 /\ Len(stack) > 1 /\ stack[1].page = "home"
           /\ stack[k].page \in PagesOverWorkers => k # 2 /\ Len(stack) > 2
<1>1. /\ Len(stack) \in Nat /\ Len(stack) > 0 /\ k \in 1..Len(stack)
      /\ stack[1].page \in {"home", "setup"}
      /\ Len(stack) > 1 => stack[1].page = "home"
      /\ \A j \in 2..Len(stack) : stack[j].page \notin {"home", "setup"}
  BY StackIsSeq DEF StackOK
<1>2. Alive(stack[k], Db)
  BY <1>1 DEF StackOK
<1>3. k # 1 => k \in 2..Len(stack)
  BY <1>1
<1>4. stack[k].page \notin {"home", "setup"} => k # 1 /\ Len(stack) > 1 /\ stack[1].page = "home"
  BY <1>1, <1>3
<1>5. stack[k].page \in PagesOverWorkers => k # 2 /\ Len(stack) > 2
  <2> SUFFICES ASSUME stack[k].page \in PagesOverWorkers PROVE k # 2 /\ Len(stack) > 2
    OBVIOUS
  <2>1. k # 1 /\ Len(stack) > 1
    BY <1>4 DEF PagesOverWorkers, WorkerPages
  <2>2. stack[2].page \notin PagesOverWorkers
    BY <2>1 DEF StackOK
  <2>3. k # 2
    BY <2>2
  <2>4. QED BY <1>1, <2>1, <2>3
<1>6. QED BY <1>1, <1>2, <1>3, <1>4, <1>5

LEMMA NothingGone ==
    ASSUME UNCHANGED <<workers, records>>
    PROVE  Keeps(Db, Db')
BY DEF Keeps, Db, getWorker

LEMMA WorkerStored ==
    ASSUME TypeOK, NEW w \in Workers, NEW name \in Names, NEW lang \in Langs,
           createWorker(w, name, lang) \/ updateWorker(w, name, lang)
    PROVE  Keeps(Db, Db') /\ getWorker(Db', w) # None /\ records' = records
<1> DEFINE made == [displayName |-> name, preferredLang |-> lang, updatedAt |-> clock, deletedAt |-> None]
           edited == [workers[w] EXCEPT !.displayName = name, !.preferredLang = lang,
                                        !.updatedAt = nextUpdatedAt(@)]
<1>1. CASE createWorker(w, name, lang)
  <2>1. made \in WorkerType
    BY DEF TypeOK, WorkerType
  <2>2. workers[w] = None /\ workers' = [workers EXCEPT ![w] = made] /\ records' = records
    BY <1>1 DEF createWorker, StoreWorker
  <2>3. workers'[w] = made /\ made # None /\ made.deletedAt = None
    BY <2>1, <2>2, NoneAssumption DEF TypeOK
  <2>4. \A v \in Workers : v # w => workers'[v] = workers[v]
    BY <2>2 DEF TypeOK
  <2>5. QED BY <2>2, <2>3, <2>4 DEF Keeps, Db, getWorker
<1>2. CASE updateWorker(w, name, lang)
  <2>1. workers[w] \in WorkerType /\ workers[w].deletedAt = None
    BY <1>2 DEF updateWorker, Active, TypeOK
  <2>2. nextUpdatedAt(workers[w].updatedAt) \in Int
    BY <2>1 DEF TypeOK, nextUpdatedAt, WorkerType
  <2>3. edited \in WorkerType /\ edited.deletedAt = None
    BY <2>1, <2>2 DEF WorkerType
  <2>4. workers' = [workers EXCEPT ![w] = edited] /\ records' = records
    BY <1>2 DEF updateWorker, StoreWorker
  <2>5. workers'[w] = edited /\ edited # None
    BY <2>3, <2>4, NoneAssumption DEF TypeOK
  <2>6. \A v \in Workers : v # w => workers'[v] = workers[v]
    BY <2>4 DEF TypeOK
  <2>7. QED BY <2>3, <2>4, <2>5, <2>6 DEF Keeps, Db, getWorker
<1>3. QED BY <1>1, <1>2

LEMMA RecordStored ==
    ASSUME TypeOK, NEW id \in Records, NEW w, StoreRecord(id, w)
    PROVE  /\ Keeps(Db, Db') /\ workers' = workers
           /\ records'[id].worker = w
           /\ \A other \in Records : other # id => records'[other] = records[other]
BY DEF TypeOK, StoreRecord, Keeps, Db, getWorker, Records

\* The phone's tables keep their types in every step of the store.
LEMMA TypeStep == TypeOK /\ [Next]_vars => TypeOK'
<1> SUFFICES ASSUME TypeOK, [Next]_vars PROVE TypeOK'
  OBVIOUS
<1>1. ASSUME NEW w \in Workers, NEW row \in WorkerType, StoreWorker(w, row) PROVE TypeOK'
  BY <1>1 DEF TypeOK, StoreWorker
<1>2. ASSUME NEW w \in Workers, NEW name \in Names, NEW lang \in Langs, createWorker(w, name, lang)
      PROVE  TypeOK'
  <2>1. [displayName |-> name, preferredLang |-> lang, updatedAt |-> clock, deletedAt |-> None] \in WorkerType
    BY DEF TypeOK, WorkerType
  <2>2. QED BY <1>1, <1>2, <2>1 DEF createWorker
<1>3. ASSUME NEW w \in Workers, Active(w)
      PROVE  workers[w] \in WorkerType /\ nextUpdatedAt(workers[w].updatedAt) \in Int
  <2>1. workers[w] \in WorkerType
    BY <1>3 DEF TypeOK, Active
  <2>2. QED BY <2>1 DEF TypeOK, WorkerType, nextUpdatedAt
<1>4. ASSUME NEW w \in Workers, NEW name \in Names, NEW lang \in Langs, updateWorker(w, name, lang)
      PROVE  TypeOK'
  <2>1. [workers[w] EXCEPT !.displayName = name, !.preferredLang = lang,
                           !.updatedAt = nextUpdatedAt(@)] \in WorkerType
    BY <1>3, <1>4 DEF updateWorker, WorkerType
  <2>2. QED BY <1>1, <1>4, <2>1 DEF updateWorker
<1>5. ASSUME NEW w \in Workers, deleteWorker(w) PROVE TypeOK'
  <2> DEFINE at == nextUpdatedAt(workers[w].updatedAt)
  <2>1. at \in Int /\ workers[w] \in WorkerType
    BY <1>3, <1>5 DEF deleteWorker
  <2> HIDE DEF at
  <2>2. [workers[w] EXCEPT !.updatedAt = at, !.deletedAt = at] \in WorkerType
    BY <2>1 DEF WorkerType
  <2>3. StoreWorker(w, [workers[w] EXCEPT !.updatedAt = at, !.deletedAt = at])
    BY <1>5 DEF deleteWorker, at
  <2>4. QED BY <1>1, <2>2, <2>3
<1>6. ASSUME NEW w \in Workers, NEW id \in Records, SaveRecord(id, w) PROVE TypeOK'
  BY <1>6 DEF TypeOK, SaveRecord, StoreRecord, RecordType
<1>7. ASSUME NEW now \in 1..MaxClock, SetClock(now) PROVE TypeOK'
  BY <1>7, BoundsAssumption DEF TypeOK, SetClock
<1>8. ASSUME Push \/ PushLost \/ ServeLate \/ UNCHANGED vars PROVE TypeOK'
  BY <1>8 DEF TypeOK, Push, PushLost, ServeLate, vars
<1>9. QED BY <1>2, <1>4, <1>5, <1>6, <1>7, <1>8 DEF Next

-----------------------------------------------------------------------------
(* Navigation *)

LEMMA PushOK ==
    ASSUME StackOK(stack, Db'), stack[1].page = "home",
           NEW page, page \notin {"home", "setup"}, page \in PagesOverWorkers => Len(stack) > 1,
           NEW id, Alive(Open(page, id, Db'), Db'), PushPage(page, id)
    PROVE  ScreensOK
<1> DEFINE db == Db'
           s == Open(page, id, db)
<1>1. s.page = page /\ Alive(s, db) /\ StackOK(stack, db)
  BY DEF Open
<1>2. Show(Append(stack, s))
  BY DEF PushPage
<1> HIDE DEF s, db
<1>3. StackOK(Append(stack, s), db)
  BY <1>1, AppendStack
<1>4. QED BY <1>2, <1>3, ShowOK DEF db

LEMMA ReplaceOK ==
    ASSUME StackOK(stack, Db'), Len(stack) > 1,
           NEW page, page \notin {"home", "setup"}, page \in PagesOverWorkers => Len(stack) > 2,
           NEW id, Alive(Open(page, id, Db'), Db'), Replace(page, id)
    PROVE  ScreensOK
<1> DEFINE db == Db'
           s == Open(page, id, db)
           last == Len(stack)
<1>1. s.page = page /\ Alive(s, db) /\ StackOK(stack, db)
  BY DEF Open
<1>2. Show([stack EXCEPT ![last] = s])
  BY DEF Replace
<1>3. last \in Nat /\ last > 1
  BY <1>1, StackIsSeq DEF StackOK
<1> HIDE DEF s, db, last
<1>4. last \in 1..last /\ last # 1
  BY <1>3
<1>5. last = 2 => s.page \notin PagesOverWorkers
  BY <1>1 DEF last
<1>6. StackOK([stack EXCEPT ![last] = s], db)
  BY <1>1, <1>4, <1>5, ExceptStack DEF last
<1>7. QED BY <1>2, <1>6, ShowOK DEF db

\* The page that replaces the one in focus may stay below it.
LEMMA ReplaceFromOK ==
    ASSUME StackOK(stack, Db'), NEW k \in 1..Len(stack), k # 1, NEW value,
           stack[k].page \notin {"home", "worker"},
           NEW page, page \notin {"home", "setup"}, page \in PagesOverWorkers => Len(stack) > 2,
           NEW id, Alive(Open(page, id, Db'), Db'), ReplaceFrom(k, value, page, id)
    PROVE  ScreensOK /\ Len(stack') = Len(stack)
<1> DEFINE db == Db'
           last == Len(stack)
           done == [stack[k] EXCEPT !.shown = value]
           s == Open(page, id, db)
           below == [stack EXCEPT ![k] = done]
<1>1. s.page = page /\ Alive(s, db) /\ StackOK(stack, db) /\ Alive(stack[k], db)
  BY DEF Open, StackOK
<1>2. Show([stack EXCEPT ![k].shown = value, ![last] = s])
  BY DEF ReplaceFrom
<1>3. last \in Nat /\ last > 1 /\ k \in 1..last /\ k \in 2..last
  BY <1>1, StackIsSeq DEF StackOK
<1>4. Alive(done, db) /\ done.page = stack[k].page
  BY <1>1, ShownAlive
<1>5. stack[k].page \notin {"home", "setup"}
  BY <1>1, <1>3 DEF StackOK
<1> HIDE DEF done, s, db
<1>6. StackOK(below, db) /\ Len(below) = last
  BY <1>1, <1>3, <1>4, <1>5, ExceptStack
<1>7. last = 2 => s.page \notin PagesOverWorkers
  BY <1>1
<1> HIDE DEF below, last
<1>8. StackOK([below EXCEPT ![last] = s], db) /\ Len([below EXCEPT ![last] = s]) = last
  <2>1. last \in 1..Len(below) /\ last # 1 /\ s.page \notin {"home", "setup"}
    BY <1>1, <1>3, <1>6
  <2>2. StackOK([below EXCEPT ![last] = s], db)
    BY <1>1, <1>6, <1>7, <2>1, ExceptStack
  <2>3. Len([below EXCEPT ![last] = s]) = Len(below)
    BY <1>1, <1>6, <1>7, <2>1, ExceptStack
  <2>4. QED BY <1>6, <2>2, <2>3
<1>9. Show([below EXCEPT ![last] = s])
  BY <1>2 DEF done, below
<1>10. QED BY <1>8, <1>9, ShowOK DEF db, last

LEMMA BackOK ==
    ASSUME StackOK(stack, Db'), Len(stack) > 1, GoBack
    PROVE  ScreensOK /\ Len(stack') = Len(stack) - 1
<1>1. Show(Front(stack))
  BY DEF GoBack
<1>2. StackOK(Front(stack), Db') /\ Len(Front(stack)) = Len(stack) - 1
  BY FrontStack
<1>3. QED BY <1>1, <1>2, ShowOK

\* What pages other than Home show is still what is stored.
LEMMA StillUpToDate ==
    ASSUME NEW s, NEW db, NEW later, UpToDate(s, db), s.page # "home", later.photos = db.photos,
           s.page = "worker" => /\ NameOf(later, s.worker) = NameOf(db, s.worker)
                                /\ RecordsOf(later, Attempts, s.worker) = RecordsOf(db, Attempts, s.worker)
    PROVE  UpToDate(s, later)
BY DEF UpToDate, Reads, latestPhoto

\* The pages stay, and the one in focus is up to date.
LEMMA StayOK ==
    ASSUME StackOK(stack, Db'), UpToDate(Top, Db'), stack' = stack
    PROVE  ScreensOK
BY FocusIsUpToDate DEF ScreensOK, Top, WorkerLanguage

\* Only what one page shows changes, which need not be as stored.
LEMMA SetShownOK ==
    ASSUME StackOK(stack, Db'), NEW k \in 1..Len(stack), NEW value, SetShown(k, value),
           stack[k].page \notin {"home", "worker", "card"},
           k # Len(stack) => UpToDate(Top, Db')
    PROVE  ScreensOK /\ Len(stack') = Len(stack)
<1> DEFINE db == Db'
           s == [stack[k] EXCEPT !.shown = value]
           last == Len(stack)
<1>1. stack' = [stack EXCEPT ![k] = s]
  BY DEF SetShown
<1>2. StackOK(stack, db) /\ Alive(stack[k], db)
  BY DEF StackOK
<1>3. last \in Nat /\ last > 0 /\ k \in 1..last
  BY StackIsSeq DEF StackOK
<1>4. Alive(s, db) /\ s.page = stack[k].page /\ s.worker = stack[k].worker
  BY <1>2, ShownAlive
<1>5. k # 1 => s.page \notin {"home", "setup"}
  <2>1. k # 1 => k \in 2..last
    BY <1>3
  <2>2. QED BY <1>4, <2>1 DEF StackOK, last
<1> HIDE DEF s, db, last
<1>6. /\ StackOK(stack', db)
      /\ Len(stack') = Len(stack)
      /\ \A j \in 1..Len(stack) : stack'[j] = IF j = k THEN s ELSE stack[j]
  <2>1. (k = 1 => s.page = stack[1].page) /\ (k = 2 => s.page = stack[2].page)
    BY <1>4
  <2>2. /\ StackOK([stack EXCEPT ![k] = s], db)
        /\ Len([stack EXCEPT ![k] = s]) = Len(stack)
        /\ \A j \in 1..Len(stack) : [stack EXCEPT ![k] = s][j] = IF j = k THEN s ELSE stack[j]
    BY <2>1, <1>2, <1>4, <1>5, ExceptStack
  <2>3. QED BY <1>1, <2>2
<1>7. last \in 1..last
  BY <1>3
<1>8. stack'[last] = IF last = k THEN s ELSE stack[last]
  BY <1>6, <1>7 DEF last
<1>9. CASE k = last
  <2>1. Top' = s
    BY <1>6, <1>8, <1>9 DEF Top, last
  <2>2. UpToDate(s, db) /\ s.page # "worker"
    BY <1>4 DEF UpToDate
  <2>3. QED BY <1>6, <2>1, <2>2, FocusIsUpToDate DEF ScreensOK, WorkerLanguage, db
<1>10. CASE k # last
  <2>1. Top' = Top
    BY <1>6, <1>8, <1>10 DEF Top, last
  <2>2. QED BY <1>6, <1>10, <2>1, FocusIsUpToDate DEF ScreensOK, WorkerLanguage, db, last
<1>11. QED BY <1>9, <1>10
-----------------------------------------------------------------------------
(* Each step keeps the screens as they have to be, and is one of the store's *)

StepOK == ScreensOK /\ [Next]_vars

\* Nothing that pages read changes.
LEMMA SameDb ==
    ASSUME UNCHANGED <<vars, photos>>
    PROVE  Db' = Db /\ [Next]_vars
BY DEF Db, vars

LEMMA FocusNow ==
    ASSUME IInv
    PROVE  /\ StackOK(stack, Db) /\ UpToDate(Top, Db) /\ TypeOK
           /\ Top = stack[Len(stack)] /\ Len(stack) \in DOMAIN stack
           /\ Len(stack) > 1 => Top.page \notin {"home", "setup"}
<1>1. StackOK(stack, Db)
  BY DEF IInv
<1>2. /\ Len(stack) \in Nat /\ Len(stack) > 0 /\ DOMAIN stack = 1..Len(stack)
      /\ \A j \in 2..Len(stack) : stack[j].page \notin {"home", "setup"}
  BY <1>1, StackIsSeq DEF StackOK
<1>3. Len(stack) \in 1..Len(stack) /\ (Len(stack) > 1 => Len(stack) \in 2..Len(stack))
  BY <1>2
<1>4. QED BY <1>1, <1>2, <1>3 DEF IInv, UpToDate, FocusShowsStored, Top

LEMMA MoveSteps ==
    ASSUME IInv, Back \/ Settle \/ Restart
    PROVE  StepOK
<1>1. Db' = Db /\ [Next]_vars
  BY SameDb DEF Back, Settle, Restart
<1>2. StackOK(stack, Db') /\ UpToDate(Top, Db')
  BY <1>1, FocusNow
<1>3. CASE Back
  BY <1>1, <1>2, <1>3, BackOK DEF Back, StepOK
<1>4. CASE Settle
  BY <1>1, <1>2, <1>4, StayOK DEF Settle, StepOK
<1>5. CASE Restart
  <2> DEFINE first == IF device THEN "home" ELSE "setup"
             s == Open(first, None, Db)
  <2>1. Alive(s, Db) /\ s.page = first /\ s.worker = None /\ s.shown = Reads(first, None, Db)
    BY OpenAlive DEF WorkerPages
  <2>2. stack' = <<s>>
    BY <1>5 DEF Restart
  <2>3. first \in {"home", "setup"}
    OBVIOUS
  <2> HIDE DEF first, s
  <2>4. StackOK(<<s>>, Db)
    BY <2>1, <2>3, OneStack
  <2>5. Top' = s
    BY <2>2 DEF Top
  <2>6. UpToDate(s, Db) /\ s.page # "worker"
    BY <2>1, <2>3 DEF UpToDate
  <2>7. QED BY <1>1, <2>2, <2>4, <2>5, <2>6, FocusIsUpToDate DEF StepOK, ScreensOK, WorkerLanguage
<1>6. QED BY <1>3, <1>4, <1>5

LEMMA HomeSteps ==
    ASSUME IInv, NEW k \in DOMAIN stack,
           SetUp(k) \/ OpenFromHome(k) \/ SwitchAppLanguage(k)
    PROVE  StepOK
<1>1. Db' = Db /\ [Next]_vars
  BY SameDb DEF SetUp, OpenFromHome, SwitchAppLanguage
<1>2. StackOK(stack, Db') /\ UpToDate(Top, Db') /\ StackOK(stack, Db)
  BY <1>1, FocusNow
<1>3. /\ Len(stack) \in Nat /\ Len(stack) > 0 /\ k \in 1..Len(stack)
      /\ stack[k].page \in {"home", "setup"} => k = 1
      /\ Alive(stack[k], Db)
  BY <1>2, PageInStack
<1>4. ASSUME NEW page, page \notin WorkerPages PROVE Alive(Open(page, None, Db'), Db')
  BY <1>4, OpenAlive DEF WorkerPages
<1>5. CASE SetUp(k)
  <2>1. k = 1 /\ Len(stack) = 1 /\ stack[1].page = "setup"
    BY <1>2, <1>3, <1>5 DEF SetUp, Touched, StackOK
  <2> DEFINE s == Open("home", None, Db')
  <2>2. Alive(s, Db') /\ s.page = "home" /\ s.page \notin PagesOverWorkers
    BY <1>4 DEF Open, PagesOverWorkers, WorkerPages
  <2>3. Show([stack EXCEPT ![1] = s])
    BY <1>5, <2>1 DEF SetUp, Replace
  <2> HIDE DEF s
  <2>4. 1 \in 1..Len(stack)
    BY <2>1
  <2>5. StackOK([stack EXCEPT ![1] = s], Db')
    BY <1>2, <2>1, <2>2, <2>4, ExceptStack
  <2>6. QED BY <1>1, <2>3, <2>5, ShowOK DEF StepOK
<1>6. CASE OpenFromHome(k)
  <2>1. k = 1 /\ stack[1].page = "home"
    BY <1>3, <1>6 DEF OpenFromHome, Touched
  <2>2. CASE \E page \in {"enrol", "verify", "settings"} : PushPage(page, None)
    <3>1. PICK page \in {"enrol", "verify", "settings"} : PushPage(page, None)
      BY <2>2
    <3>2. Alive(Open(page, None, Db'), Db')
      BY <1>4 DEF WorkerPages
    <3>3. page \notin PagesOverWorkers
      BY DEF PagesOverWorkers, WorkerPages
    <3>4. QED BY <1>1, <1>2, <2>1, <3>1, <3>2, <3>3, PushOK DEF StepOK
  <2>3. CASE PushPage("scan", None)
    <3>1. Alive(Open("scan", None, Db'), Db')
      BY <1>4 DEF WorkerPages
    <3>2. "scan" \notin PagesOverWorkers
      BY DEF PagesOverWorkers, WorkerPages
    <3>3. QED BY <1>1, <1>2, <2>1, <2>3, <3>1, <3>2, PushOK DEF StepOK
  <2>4. CASE \E row \in stack[k].shown.listed : PushPage("worker", row.id)
    <3>1. PICK row \in stack[k].shown.listed : PushPage("worker", row.id)
      BY <2>4
    <3>2. row.id \in Workers /\ getWorker(Db', row.id) # None
      BY <1>1, <1>3, <2>1 DEF Alive
    <3>3. Alive(Open("worker", row.id, Db'), Db')
      BY <3>2, OpenAlive DEF WorkerPages
    <3>4. "worker" \notin PagesOverWorkers
      BY DEF PagesOverWorkers
    <3>5. QED BY <1>1, <1>2, <2>1, <3>1, <3>3, <3>4, PushOK DEF StepOK
  <2>5. QED BY <1>6, <2>2, <2>3, <2>4 DEF OpenFromHome
<1>7. CASE SwitchAppLanguage(k)
  BY <1>1, <1>2, <1>7, StayOK DEF SwitchAppLanguage, StepOK
<1>8. QED BY <1>5, <1>6, <1>7

LEMMA EnrolStep ==
    ASSUME IInv, NEW k \in DOMAIN stack, Enrol(k)
    PROVE  StepOK
<1>1. StackOK(stack, Db) /\ TypeOK
  BY FocusNow
<1>2. Len(stack) > 1
  BY <1>1, PageInStack DEF Enrol, Touched
<1>3. PICK w \in Workers, name \in Names, lang \in Langs :
         createWorker(w, name, lang) /\ Replace("worker", w)
  BY DEF Enrol
<1>4. Keeps(Db, Db') /\ getWorker(Db', w) # None
  BY <1>1, <1>3, WorkerStored
<1>5. Alive(Open("worker", w, Db'), Db')
  BY <1>4, OpenAlive DEF WorkerPages
<1>6. StackOK(stack, Db')
  BY <1>1, <1>4, StackKept
<1>7. ScreensOK
  BY <1>2, <1>3, <1>5, <1>6, ReplaceOK DEF PagesOverWorkers
<1>8. QED BY <1>3, <1>7 DEF StepOK, Next

\* The cameras, and what their pages show, in focus or covered.
LEMMA ScanSteps ==
    ASSUME IInv, NEW k \in DOMAIN stack, ScanCard(k) \/ VerifyCertificate(k) \/ ScanAgain(k)
    PROVE  StepOK /\ Len(stack') = Len(stack)
<1>1. Db' = Db /\ [Next]_vars
  BY SameDb DEF ScanCard, VerifyCertificate, ScanAgain
<1>2. StackOK(stack, Db') /\ UpToDate(Top, Db') /\ StackOK(stack, Db)
  BY <1>1, FocusNow
<1>3. stack[k].page \in {"scan", "verify"}
  BY DEF ScanCard, VerifyCertificate, ScanAgain, Touched
<1>4. k \in 1..Len(stack) /\ k # 1 /\ Len(stack) > 1
  BY <1>2, <1>3, PageInStack
<1>5. ASSUME NEW value, SetShown(k, value) PROVE StepOK /\ Len(stack') = Len(stack)
  BY <1>1, <1>2, <1>3, <1>4, <1>5, SetShownOK DEF StepOK
<1>6. ASSUME NEW w \in Workers, getWorker(Db, w) # None, ReplaceFrom(k, "found", "worker", w)
      PROVE  StepOK /\ Len(stack') = Len(stack)
  <2>1. Alive(Open("worker", w, Db'), Db') /\ "worker" \notin PagesOverWorkers
    BY <1>1, <1>6, OpenAlive DEF PagesOverWorkers, WorkerPages
  <2>2. QED BY <1>1, <1>2, <1>3, <1>4, <1>6, <2>1, ReplaceFromOK DEF StepOK
<1>7. QED BY <1>5, <1>6 DEF ScanCard, VerifyCertificate, ScanAgain

\* A page of a worker leads to others of the same worker.
LEMMA OpenOfWorker ==
    ASSUME NEW s, Alive(s, Db'), s.page \in WorkerPages, NEW page \in WorkerPages, page # "result"
    PROVE  Alive(Open(page, s.worker, Db'), Db')
BY OpenAlive DEF Alive

LEMMA WorkerSteps ==
    ASSUME IInv, NEW k \in DOMAIN stack, OpenFromWorker(k) \/ LeaveResult(k) \/ TakePhoto(k)
    PROVE  StepOK
<1>1. Db' = Db /\ [Next]_vars
  BY SameDb DEF OpenFromWorker, LeaveResult, TakePhoto
<1>2. StackOK(stack, Db') /\ UpToDate(Top, Db') /\ StackOK(stack, Db)
  BY <1>1, FocusNow
<1>3. stack[k].page \in {"worker", "result", "photo"}
  BY DEF OpenFromWorker, LeaveResult, TakePhoto, Touched
<1>4. k \in 1..Len(stack) /\ Len(stack) > 1 /\ stack[1].page = "home" /\ Alive(stack[k], Db')
  BY <1>1, <1>2, <1>3, PageInStack
<1>5. ASSUME NEW page \in WorkerPages, page # "result" PROVE Alive(Open(page, stack[k].worker, Db'), Db')
  BY <1>3, <1>4, <1>5, OpenOfWorker DEF WorkerPages
<1>6. CASE OpenFromWorker(k)
  <2>1. CASE \E page \in {"train", "certificate", "edit", "card", "photo"} : PushPage(page, stack[k].worker)
    <3>1. PICK page \in {"train", "certificate", "edit", "card", "photo"} : PushPage(page, stack[k].worker)
      BY <2>1
    <3>2. page \in WorkerPages /\ page \notin {"result", "home", "setup"}
      BY DEF WorkerPages
    <3>3. QED BY <1>1, <1>2, <1>4, <1>5, <3>1, <3>2, PushOK DEF StepOK
  <2>2. CASE \E a \in stack[k].shown.attempts : PushPage("result", a)
    <3>1. PICK a \in stack[k].shown.attempts : PushPage("result", a)
      BY <2>2
    <3>2. stack[k].page = "worker"
      BY <1>6 DEF OpenFromWorker, Touched
    <3>3. a \in RecordsOf(Db', Attempts, stack[k].worker)
      BY <1>4, <3>2 DEF Alive
    <3>4. Db'.records[a].worker \in Workers /\ getWorker(Db', Db'.records[a].worker) # None
      BY <1>4, <3>2, <3>3 DEF RecordsOf, Alive, WorkerPages
    <3>5. Alive(Open("result", a, Db'), Db')
      BY <3>4, OpenResultAlive
    <3>6. QED BY <1>1, <1>2, <1>4, <3>1, <3>5, PushOK DEF StepOK
  <2>3. QED BY <1>6, <2>1, <2>2 DEF OpenFromWorker
<1>7. CASE LeaveResult(k)
  <2>0. Len(stack) > 2
    <3>1. stack[k].page = "result"
      BY <1>7 DEF LeaveResult, Touched
    <3>2. QED BY <1>2, <3>1, PageInStack DEF PagesOverWorkers, WorkerPages
  <2>1. PICK page \in {"train", "worker"} : Replace(page, stack[k].worker)
    BY <1>7 DEF LeaveResult
  <2>2. page \in WorkerPages /\ page \notin {"result", "home", "setup"}
    BY DEF WorkerPages
  <2>3. QED BY <1>1, <1>2, <1>4, <1>5, <2>0, <2>1, <2>2, ReplaceOK DEF StepOK
<1>8. CASE TakePhoto(k)
  <2>1. stack[k].page = "photo"
    BY <1>8 DEF TakePhoto, Touched
  <2>2. QED BY <1>1, <1>2, <1>4, <1>8, <2>1, SetShownOK DEF TakePhoto, StepOK
<1>9. QED BY <1>6, <1>7, <1>8

\* An edit, if it is one.
LEMMA UpdateStored ==
    ASSUME TypeOK, NEW w \in Workers, NEW name, NEW lang \in Langs, Update(w, name, lang),
           name \in Names \/ (Active(w) /\ name = workers[w].displayName)
    PROVE  Keeps(Db, Db') /\ [Next]_vars /\ records' = records
<1>1. CASE UNCHANGED vars
  BY <1>1, NothingGone DEF vars
<1>2. CASE updateWorker(w, name, lang)
  <2>1. name \in Names
    BY DEF TypeOK, Active, WorkerType
  <2>2. QED BY <1>2, <2>1, WorkerStored DEF Next
<1>3. QED BY <1>1, <1>2 DEF Update

LEMMA LanguageStep ==
    ASSUME IInv, NEW k \in DOMAIN stack, SwitchWorkerLanguage(k)
    PROVE  StepOK
<1>1. StackOK(stack, Db) /\ UpToDate(Top, Db) /\ TypeOK /\ (Len(stack) > 1 => Top.page # "home")
  BY FocusNow
<1>2. stack[k].page = "worker" /\ stack' = stack /\ photos' = photos
  BY DEF SwitchWorkerLanguage, Touched
<1>3. Len(stack) > 1 /\ Alive(stack[k], Db)
  BY <1>1, <1>2, PageInStack
<1> DEFINE w == stack[k].worker
<1>4. PICK lang \in Langs : Update(w, workers[w].displayName, lang)
  BY DEF SwitchWorkerLanguage
<1>5. w \in Workers /\ Active(w)
  BY <1>2, <1>3 DEF Alive, WorkerPages, getWorker, Db, Active
<1>6. Keeps(Db, Db') /\ [Next]_vars /\ records' = records
  BY <1>1, <1>4, <1>5, UpdateStored
<1> HIDE DEF w
<1>7. ASSUME NEW v \in Workers PROVE NameOf(Db', v) = NameOf(Db, v)
  <2>1. CASE UNCHANGED vars
    BY <2>1 DEF vars, NameOf, getWorker, Db
  <2>2. CASE updateWorker(w, workers[w].displayName, lang)
    <3> DEFINE edited == [workers[w] EXCEPT !.displayName = workers[w].displayName, !.preferredLang = lang,
                                            !.updatedAt = nextUpdatedAt(@)]
    <3>1. workers[w] \in WorkerType /\ workers' = [workers EXCEPT ![w] = edited]
      BY <1>1, <1>5, <2>2 DEF updateWorker, StoreWorker, TypeOK, Active
    <3>2. /\ edited \in [displayName : Names, preferredLang : Langs, updatedAt : {edited.updatedAt},
                          deletedAt : Int \cup {None}]
          /\ edited.displayName = workers[w].displayName /\ edited.deletedAt = workers[w].deletedAt
      BY <3>1 DEF WorkerType
    <3>3. workers'[w] = edited /\ (v # w => workers'[v] = workers[v])
      BY <1>1, <1>5, <3>1 DEF TypeOK
    <3>4. edited # None /\ workers[w] # None
      <4>1. nextUpdatedAt(workers[w].updatedAt) \in Int
        BY <1>1, <3>1 DEF nextUpdatedAt, TypeOK, WorkerType
      <4>2. edited \in WorkerType
        BY <3>1, <4>1 DEF WorkerType
      <4>3. QED BY <3>1, <4>2, NoneAssumption
    <3> HIDE DEF edited
    <3>5. QED BY <3>2, <3>3, <3>4 DEF NameOf, getWorker, Db
  <2>3. QED BY <1>4, <2>1, <2>2 DEF Update
<1>8. \A v : RecordsOf(Db', Attempts, v) = RecordsOf(Db, Attempts, v)
  BY <1>6 DEF RecordsOf, Db
<1>9. StackOK(stack, Db')
  BY <1>1, <1>6, StackKept
<1>10. Top.page = "worker" => Top.worker \in Workers
  BY <1>1, FocusNow, PageInStack DEF Alive, WorkerPages
<1>11. Db'.photos = Db.photos
  BY <1>2 DEF Db
<1>12. UpToDate(Top, Db')
  BY <1>1, <1>3, <1>7, <1>8, <1>10, <1>11, StillUpToDate
<1>13. QED BY <1>2, <1>6, <1>9, <1>12, StayOK DEF StepOK

LEMMA EditSteps ==
    ASSUME IInv, NEW k \in DOMAIN stack, SaveEdit(k) \/ AskDelete(k)
    PROVE  StepOK
<1>1. StackOK(stack, Db) /\ UpToDate(Top, Db) /\ TypeOK
  BY FocusNow
<1>2. stack[k].page = "edit"
  BY DEF SaveEdit, AskDelete, Touched
<1>3. Len(stack) > 1 /\ Alive(stack[k], Db)
  BY <1>1, <1>2, PageInStack
<1> DEFINE w == stack[k].worker
<1>4. w \in Workers /\ Active(w)
  BY <1>2, <1>3 DEF Alive, WorkerPages, getWorker, Db, Active
<1>5. CASE SaveEdit(k)
  <2>1. PICK name \in Names, lang \in Langs : Update(w, name, lang)
    BY <1>5 DEF SaveEdit
  <2>2. Keeps(Db, Db') /\ [Next]_vars
    BY <1>1, <1>4, <2>1, UpdateStored
  <2>3. StackOK(stack, Db')
    BY <1>1, <2>2, StackKept
  <2>4. QED BY <1>3, <1>5, <2>2, <2>3, BackOK DEF SaveEdit, StepOK
<1>6. CASE AskDelete(k)
  <2>1. Db' = Db /\ [Next]_vars /\ stack' = stack
    BY <1>6, SameDb DEF AskDelete
  <2>2. QED BY <1>1, <2>1, StayOK DEF StepOK
<1>7. QED BY <1>5, <1>6

\* When all other pages are dismissed, Home reads again.
LEMMA DismissOK ==
    ASSUME StackOK(stack, Db), Len(stack) > 1, Show(<<stack[1]>>)
    PROVE  ScreensOK
<1> DEFINE s == Open("home", stack[1].worker, Db')
<1>1. stack[1].page = "home" /\ stack[1].worker = None
  <2>1. 1 \in DOMAIN stack /\ stack[1].page = "home"
    BY StackIsSeq DEF StackOK
  <2>2. QED BY <2>1, PageInStack DEF Alive, WorkerPages
<1>2. Alive(s, Db') /\ s.page = "home" /\ s.shown = Reads("home", s.worker, Db')
  BY <1>1, OpenAlive DEF WorkerPages
<1>3. stack' = <<s>>
  BY <1>1 DEF Show, Focused
<1> HIDE DEF s
<1>4. StackOK(<<s>>, Db')
  BY <1>2, OneStack
<1>5. UpToDate(s, Db')
  BY <1>2 DEF UpToDate
<1>6. Top' = s
  BY <1>3 DEF Top
<1>7. QED BY <1>2, <1>3, <1>4, <1>5, <1>6, FocusIsUpToDate DEF ScreensOK, WorkerLanguage

\* What the dialog does: a worker who is there is deleted with no page of theirs left, and
\* that of one who is gone may even be confirmed on Home.
LEMMA DialogSteps ==
    ASSUME IInv, CancelDelete \/ ConfirmDelete
    PROVE  StepOK
<1>1. StackOK(stack, Db) /\ UpToDate(Top, Db) /\ Len(stack) \in Nat
  BY FocusNow, StackIsSeq DEF StackOK
<1>2. ASSUME UNCHANGED <<vars, photos>>, stack' = stack PROVE StepOK
  BY <1>1, <1>2, SameDb, StayOK DEF StepOK
<1>3. CASE ConfirmDelete /\ Active(asked)
  <2>1. asked \in Workers /\ Len(stack) > 1
    BY <1>1, <1>3 DEF IInv, DialogOK, ConfirmDelete
  <2>2. [Next]_vars
    BY <1>3, <2>1 DEF ConfirmDelete, Next
  <2>3. QED BY <1>1, <1>3, <2>1, <2>2, DismissOK DEF ConfirmDelete, DismissAll, StepOK
<1>4. CASE ConfirmDelete /\ ~Active(asked)
  BY <1>1, <1>2, <1>4, SameDb, DismissOK DEF ConfirmDelete, DismissAll, StepOK
<1>5. QED BY <1>2, <1>3, <1>4 DEF CancelDelete

\* A drill that ends replaces the page in focus, whichever that is.
LEMMA DrillStep ==
    ASSUME IInv, NEW k \in DOMAIN stack, FinishDrill(k)
    PROVE  StepOK /\ Len(stack') = Len(stack) /\ workers' = workers
<1>1. StackOK(stack, Db) /\ TypeOK
  BY FocusNow
<1>2. stack[k].page = "train"
  BY DEF FinishDrill
<1>3. Len(stack) > 2 /\ Alive(stack[k], Db) /\ k \in 1..Len(stack) /\ k # 1
  BY <1>1, <1>2, PageInStack DEF PagesOverWorkers, WorkerPages
<1> DEFINE w == stack[k].worker
<1>4. w \in Workers /\ Active(w)
  BY <1>2, <1>3 DEF Alive, WorkerPages, getWorker, Db, Active
<1>5. PICK a \in Attempts : StoreRecord(a, w) /\ ReplaceFrom(k, a, "result", a)
  BY DEF FinishDrill
<1>6. a \in Records
  BY DEF Records
<1>7. Keeps(Db, Db') /\ records'[a].worker = w /\ workers' = workers
  BY <1>1, <1>5, <1>6, RecordStored
<1>8. [Next]_vars
  BY <1>4, <1>5, <1>6 DEF Next, SaveRecord
<1>9. Db'.records[a].worker \in Workers /\ getWorker(Db', Db'.records[a].worker) # None
  BY <1>4, <1>7 DEF Db, getWorker, Active
<1>10. Alive(Open("result", a, Db'), Db')
  BY <1>9, OpenResultAlive
<1>11. StackOK(stack, Db')
  BY <1>1, <1>7, StackKept
<1>12. QED BY <1>2, <1>3, <1>5, <1>7, <1>8, <1>10, <1>11, ReplaceFromOK DEF StepOK

\* A certificate is of a worker who is there; a page over its page shows no certificate.
LEMMA IssueStep ==
    ASSUME IInv, NEW k \in DOMAIN stack, Issue(k)
    PROVE  StepOK
<1>1. StackOK(stack, Db) /\ TypeOK /\ UpToDate(Top, Db)
  BY FocusNow
<1>2. stack[k].page = "certificate"
  BY DEF Issue, Touched
<1>3. Len(stack) > 1 /\ Alive(stack[k], Db) /\ k \in 1..Len(stack)
  BY <1>1, <1>2, PageInStack
<1> DEFINE w == stack[k].worker
<1>4. w \in Workers /\ Active(w)
  BY <1>2, <1>3 DEF Alive, WorkerPages, getWorker, Db, Active
<1>5. PICK c \in Certificates : StoreRecord(c, w) /\ SetShown(k, c)
  BY DEF Issue
<1>6. c \in Records /\ c \notin Attempts
  BY IdsAssumption DEF Records
<1>7. /\ Keeps(Db, Db') /\ workers' = workers
      /\ \A other \in Records : other # c => records'[other] = records[other]
  BY <1>1, <1>5, <1>6, RecordStored
<1>8. [Next]_vars
  BY <1>4, <1>5, <1>6 DEF Next, SaveRecord
<1>9. StackOK(stack, Db')
  BY <1>1, <1>7, StackKept
<1>10. \A v : RecordsOf(Db', Attempts, v) = RecordsOf(Db, Attempts, v) /\ NameOf(Db', v) = NameOf(Db, v)
  BY <1>6, <1>7 DEF RecordsOf, Db, Records, NameOf, getWorker
<1>11. Db'.photos = Db.photos
  BY DEF Issue, Db
<1>12. Top.page # "home"
  BY <1>3, FocusNow
<1>13. UpToDate(Top, Db')
  BY <1>1, <1>10, <1>11, <1>12, StillUpToDate
<1>14. ScreensOK
  BY <1>2, <1>3, <1>5, <1>9, <1>13, SetShownOK
<1>15. QED BY <1>8, <1>14 DEF StepOK

\* Photos are read by pages of workers, and by none of the pages a stack begins with.
LEMMA PhotoSteps ==
    ASSUME IInv, NEW k \in DOMAIN stack, RemovePhoto(k) \/ KeepPhoto(k)
    PROVE  StepOK
<1>1. StackOK(stack, Db) /\ UpToDate(Top, Db)
  BY FocusNow
<1>2. stack[k].page = "photo" /\ UNCHANGED vars
  BY DEF RemovePhoto, KeepPhoto, Touched
<1>3. Len(stack) > 1 /\ k \in 1..Len(stack)
  BY <1>1, <1>2, PageInStack
<1>4. StackOK(stack, Db') /\ [Next]_vars
  BY <1>1, <1>2, NothingGone, StackKept DEF vars
<1>5. CASE RemovePhoto(k)
  BY <1>3, <1>4, <1>5, BackOK DEF RemovePhoto, StepOK
<1>6. CASE KeepPhoto(k)
  <2>1. Db' = Db
    BY <1>6, SameDb DEF KeepPhoto
  <2>2. QED BY <1>1, <1>2, <1>3, <1>4, <1>6, <2>1, SetShownOK DEF KeepPhoto, StepOK
<1>7. QED BY <1>5, <1>6

LEMMA CaptureSteps ==
    ASSUME IInv, PhotoCaptured \/ KilledWhileKeeping
    PROVE  StepOK
<1>1. StackOK(stack, Db) /\ UpToDate(Top, Db) /\ Len(stack) \in Nat /\ Len(stack) > 0
  BY FocusNow, StackIsSeq DEF StackOK
<1>2. StackOK(stack, Db') /\ [Next]_vars
  BY <1>1, NothingGone, StackKept DEF PhotoCaptured, KilledWhileKeeping, vars
<1>3. workers' = workers /\ outbox' = outbox
  BY DEF PhotoCaptured, KilledWhileKeeping, vars
<1>4. CASE PhotoCaptured /\ Len(stack) > 1
  BY <1>2, <1>4, BackOK DEF PhotoCaptured, StepOK
<1>5. CASE PhotoCaptured /\ Len(stack) = 1
  <2>1. stack' = stack
    BY <1>5 DEF PhotoCaptured, GoBack
  <2>2. Top.page \in {"home", "setup"}
    BY <1>1, <1>5 DEF StackOK, Top
  <2>3. UpToDate(Top, Db')
    BY <1>1, <1>3, <2>2 DEF UpToDate, Reads, listWorkers, getWorker, Db
  <2>4. QED BY <1>2, <2>1, <2>3, StayOK DEF StepOK
<1>6. CASE KilledWhileKeeping
  <2> DEFINE s == Open("home", None, Db)
  <2>1. Alive(s, Db) /\ s.page = "home" /\ s.shown = Reads("home", None, Db)
    BY OpenAlive DEF WorkerPages
  <2>2. Reads("home", None, Db') = Reads("home", None, Db)
    BY <1>3 DEF Reads, listWorkers, getWorker, Db
  <2>3. stack' = <<s>>
    BY <1>6 DEF KilledWhileKeeping
  <2> HIDE DEF s
  <2>4. StackOK(<<s>>, Db)
    BY <2>1, OneStack
  <2>5. StackOK(<<s>>, Db')
    BY <1>6, <2>4, NothingGone, StackKept DEF KilledWhileKeeping, vars
  <2>6. UpToDate(s, Db')
    BY <2>1, <2>2 DEF UpToDate, Reads
  <2>7. Top' = s
    BY <2>3 DEF Top
  <2>8. QED BY <1>2, <2>1, <2>3, <2>5, <2>6, <2>7, FocusIsUpToDate DEF StepOK, ScreensOK, WorkerLanguage
<1>7. QED BY <1>1, <1>4, <1>5, <1>6

LEMMA FailedCaptureStep ==
    ASSUME IInv, CaptureFailed
    PROVE  StepOK /\ Len(stack') = Len(stack)
<1>1. Db' = Db /\ [Next]_vars
  BY SameDb DEF CaptureFailed
<1>2. /\ StackOK(stack, Db) /\ UpToDate(Top, Db) /\ Len(stack) \in Nat /\ Len(stack) > 0
      /\ DOMAIN stack = 1..Len(stack)
  BY FocusNow, StackIsSeq DEF StackOK
<1> DEFINE last == Len(stack)
           w == capture
           page(k) == IF stack[k].page = "photo" /\ stack[k].worker = w
                      THEN [stack[k] EXCEPT !.shown = [@ EXCEPT !.busy = FALSE]] ELSE stack[k]
           S == {page(k) : k \in 1..last}
<1>3. stack' = [k \in 1..last |-> page(k)]
  BY <1>2 DEF CaptureFailed
<1>4. ASSUME NEW k \in 1..last
      PROVE  /\ Alive(page(k), Db) /\ page(k).page = stack[k].page
             /\ page(k).page # "photo" => page(k) = stack[k]
  <2>1. Alive(stack[k], Db)
    BY <1>2 DEF StackOK
  <2>2. CASE stack[k].page = "photo" /\ stack[k].worker = w
    <3> DEFINE value == [stack[k].shown EXCEPT !.busy = FALSE]
    <3>1. page(k) = [stack[k] EXCEPT !.shown = value]
      BY <2>2
    <3> HIDE DEF value, page, S
    <3>2. stack[k].page \notin {"home", "worker"}
      BY <2>2
    <3>3. /\ Alive([stack[k] EXCEPT !.shown = value], Db)
          /\ [stack[k] EXCEPT !.shown = value].page = stack[k].page
      BY <2>1, <3>2, ShownAlive
    <3>4. QED BY <2>2, <3>1, <3>3
  <2>3. CASE ~(stack[k].page = "photo" /\ stack[k].worker = w)
    BY <2>1, <2>3
  <2>4. QED BY <2>2, <2>3
<1>5. \A k \in 1..last : page(k) \in S
  OBVIOUS
<1>6. last \in Nat /\ last > 0
  BY <1>2
<1> HIDE DEF page, S, last
<1>7. stack' \in Seq(S) /\ Len(stack') = last /\ \A k \in 1..last : stack'[k] = page(k)
  BY <1>3, <1>5, <1>6
<1>8. stack' \in Seq(Range(stack'))
  BY <1>7, SeqOfRange
<1>9. StackOK(stack', Db)
  <2>1. 1 \in 1..last /\ 2..last \subseteq 1..last
    BY <1>6
  <2>2. /\ stack[1].page \in {"home", "setup"} /\ (last > 1 => stack[1].page = "home")
        /\ \A k \in 2..last : stack[k].page \notin {"home", "setup"}
        /\ last > 1 => stack[2].page \notin PagesOverWorkers
    BY <1>2 DEF StackOK, last
  <2>3. \A k \in 1..last : Alive(stack'[k], Db) /\ stack'[k].page = stack[k].page
    BY <1>4, <1>7
  <2>4. stack'[1].page \in {"home", "setup"} /\ (last > 1 => stack'[1].page = "home")
    BY <2>1, <2>2, <2>3
  <2>5. \A k \in 2..last : stack'[k].page \notin {"home", "setup"}
    BY <2>1, <2>2, <2>3
  <2>6. last > 1 => stack'[2].page \notin PagesOverWorkers
    BY <1>6, <2>2, <2>3
  <2>7. QED BY <1>6, <1>7, <1>8, <2>3, <2>4, <2>5, <2>6 DEF StackOK
<1>10. last \in 1..last
  BY <1>6
<1>11. Top' = page(last) /\ Top = stack[last]
  BY <1>7, <1>10 DEF Top, last
<1>12. UpToDate(Top', Db)
  BY <1>2, <1>4, <1>10, <1>11 DEF UpToDate
<1>13. WorkerLanguage
  BY <1>4, <1>7, <1>10, <1>11 DEF WorkerLanguage, last
<1>14. QED BY <1>1, <1>7, <1>9, <1>12, <1>13, FocusIsUpToDate DEF StepOK, ScreensOK, last

LEMMA ClockStep ==
    ASSUME IInv, NEW now \in 1..MaxClock, SetClock(now), UNCHANGED screenVars
    PROVE  StepOK
<1>1. Db' = Db /\ stack' = stack
  BY DEF SetClock, screenVars, Db
<1>2. QED BY <1>1, FocusNow, StayOK DEF StepOK, Next

-----------------------------------------------------------------------------
(* Each step keeps the dialog as it has to be *)

\* Nothing that the dialog rests on changes.
LEMMA DialogKept ==
    ASSUME DialogOK, UNCHANGED <<workers, waiting>>, Len(stack') = Len(stack)
    PROVE  DialogOK'
BY DEF DialogOK, Active, waiting

\* Below a dialog no page can be touched, but cameras and drills go on.
LEMMA DialogOverPages ==
    ASSUME IInv, NEW k \in DOMAIN stack, PageStep(k)
    PROVE  DialogOK'
<1>1. CASE AskDelete(k)
  <2>1. stack[k].page = "edit" /\ asked' = stack[k].worker /\ stack' = stack /\ capture' = capture
    BY <1>1 DEF AskDelete, Touched
  <2>2. Len(stack) \in Nat /\ Len(stack) > 2 /\ Alive(stack[k], Db)
    BY <2>1, FocusNow, PageInStack DEF PagesOverWorkers, WorkerPages
  <2>3. stack[k].worker \in Workers
    BY <2>1, <2>2 DEF Alive, WorkerPages
  <2>4. QED BY <2>1, <2>2, <2>3 DEF DialogOK
<1>2. CASE ScanCard(k) \/ VerifyCertificate(k)
  BY <1>2, ScanSteps, DialogKept DEF ScanCard, VerifyCertificate, vars, IInv
<1>3. CASE FinishDrill(k)
  BY <1>3, DrillStep, DialogKept DEF FinishDrill, IInv
<1>4. CASE ~(AskDelete(k) \/ ScanCard(k) \/ VerifyCertificate(k) \/ FinishDrill(k))
  <2>1. asked' = asked
    BY <1>4 DEF PageStep, SetUp, OpenFromHome, SwitchAppLanguage, Enrol, ScanAgain, OpenFromWorker,
       SwitchWorkerLanguage, SaveEdit, LeaveResult, Issue, TakePhoto, RemovePhoto, KeepPhoto, waiting
  <2>2. asked = None
    BY <1>4 DEF PageStep, SetUp, OpenFromHome, SwitchAppLanguage, Enrol, ScanAgain, OpenFromWorker,
       SwitchWorkerLanguage, SaveEdit, LeaveResult, Issue, TakePhoto, RemovePhoto, KeepPhoto, Touched
  <2>3. QED BY <2>1, <2>2 DEF DialogOK
<1>5. QED BY <1>1, <1>2, <1>3, <1>4

\* A worker who was deleted in the dialog is not there any more.
LEMMA DialogAnswered ==
    ASSUME IInv, ConfirmDelete
    PROVE  DialogOK'
<1>1. asked \in Workers /\ asked' \in {None, asked} /\ TypeOK
  BY DEF IInv, DialogOK, ConfirmDelete
<1>2. ASSUME asked' = asked PROVE ~Active(asked)'
  <2>1. CASE UNCHANGED vars /\ ~Active(asked)
    BY <1>2, <2>1 DEF vars, Active
  <2>2. CASE deleteWorker(asked)
    <3> DEFINE at == nextUpdatedAt(workers[asked].updatedAt)
    <3>1. workers[asked] \in WorkerType
      BY <1>1, <2>2 DEF deleteWorker, Active, TypeOK
    <3>2. at \in Int /\ at # None
      BY <1>1, <3>1, NoneAssumption DEF nextUpdatedAt, TypeOK, WorkerType
    <3>3. workers'[asked] = [workers[asked] EXCEPT !.updatedAt = at, !.deletedAt = at]
      BY <1>1, <2>2 DEF deleteWorker, StoreWorker, TypeOK
    <3> HIDE DEF at
    <3>4. workers'[asked].deletedAt = at
      BY <3>1, <3>3 DEF WorkerType
    <3>5. QED BY <1>2, <3>2, <3>4 DEF Active
  <2>3. QED BY <2>1, <2>2 DEF ConfirmDelete
<1>3. QED BY <1>1, <1>2 DEF DialogOK

\* A capture takes at most one page away.
LEMMA DialogOverCaptures ==
    ASSUME IInv, PhotoCaptured \/ KilledWhileKeeping \/ CaptureFailed
    PROVE  DialogOK'
<1>1. StackOK(stack, Db) /\ Len(stack) \in Nat /\ DialogOK
  BY FocusNow, StackIsSeq DEF StackOK, IInv
<1>2. CASE PhotoCaptured
  <2>1. asked' = asked /\ workers' = workers /\ capture # None /\ capture' = None
    BY <1>2 DEF PhotoCaptured, vars
  <2>2. Len(stack) > 2 => Len(stack') = Len(stack) - 1
    <3>1. StackOK(stack, Db')
      BY <1>1, <1>2, NothingGone, StackKept DEF PhotoCaptured, vars
    <3>2. QED BY <1>1, <1>2, <3>1, BackOK DEF PhotoCaptured
  <2>3. QED BY <1>1, <2>1, <2>2 DEF DialogOK, Active
<1>3. CASE KilledWhileKeeping
  BY <1>3 DEF KilledWhileKeeping, DialogOK
<1>4. CASE CaptureFailed
  <2>1. asked' = asked /\ workers' = workers /\ capture # None /\ capture' = None
    BY <1>4 DEF CaptureFailed, vars
  <2>2. Len(stack') = Len(stack)
    BY <1>4, FailedCaptureStep
  <2>3. QED BY <1>1, <2>1, <2>2 DEF DialogOK, Active
<1>5. QED BY <1>2, <1>3, <1>4

\* Back does not leave a page below a dialog.
LEMMA DialogOverMoves ==
    ASSUME IInv, Back \/ Settle \/ Restart \/ CancelDelete
    PROVE  DialogOK'
<1>1. DialogOK
  BY DEF IInv
<1>2. CASE Settle
  BY <1>1, <1>2, DialogKept DEF Settle, vars
<1>3. CASE Back \/ Restart \/ CancelDelete
  BY <1>3 DEF Back, Restart, CancelDelete, DialogOK, waiting
<1>4. QED BY <1>2, <1>3

-----------------------------------------------------------------------------
(* Theorems *)

\* No step of the screens, whichever page makes it and however late, breaks them, and
\* each is a step of the store or leaves it alone.
LEMMA PhoneStep == IInv /\ [PhoneNext]_phoneVars => IInv' /\ WorkerLanguage /\ [Next]_vars
<1> SUFFICES ASSUME IInv, [PhoneNext]_phoneVars PROVE IInv' /\ WorkerLanguage /\ [Next]_vars
  OBVIOUS
<1>1. ASSUME StepOK, DialogOK' PROVE IInv' /\ WorkerLanguage /\ [Next]_vars
  <2>1. TypeOK'
    BY <1>1, TypeStep DEF StepOK, IInv
  <2>2. QED BY <1>1, <2>1 DEF StepOK, ScreensOK, IInv
<1>2. ASSUME NEW k \in DOMAIN stack, PageStep(k) PROVE StepOK /\ DialogOK'
  <2>1. StepOK
    BY <1>2, HomeSteps, EnrolStep, ScanSteps, WorkerSteps, LanguageStep, EditSteps, DrillStep,
       IssueStep, PhotoSteps DEF PageStep
  <2>2. QED BY <1>2, <2>1, DialogOverPages
<1>3. CASE PhotoCaptured \/ KilledWhileKeeping \/ CaptureFailed
  BY <1>1, <1>3, CaptureSteps, FailedCaptureStep, DialogOverCaptures
<1>4. CASE CancelDelete \/ ConfirmDelete
  BY <1>1, <1>4, DialogSteps, DialogAnswered, DialogOverMoves
<1>5. CASE Back \/ Settle \/ Restart
  BY <1>1, <1>5, MoveSteps, DialogOverMoves
<1>6. ASSUME NEW now \in 1..MaxClock, SetClock(now), UNCHANGED screenVars PROVE StepOK /\ DialogOK'
  BY <1>6, ClockStep, DialogKept DEF IInv, SetClock, screenVars
<1>7. CASE UNCHANGED phoneVars
  <2>1. Db' = Db /\ stack' = stack /\ [Next]_vars
    BY <1>7 DEF phoneVars, vars, screenVars, Db
  <2>2. StepOK
    BY <2>1, FocusNow, StayOK DEF StepOK
  <2>3. DialogOK'
    BY <1>7, DialogKept DEF IInv, phoneVars, vars, screenVars
  <2>4. QED BY <1>1, <2>2, <2>3
<1>8. QED BY <1>1, <1>2, <1>3, <1>4, <1>5, <1>6, <1>7 DEF PhoneNext

LEMMA PhoneStart == PhoneInit => IInv
<1> SUFFICES ASSUME PhoneInit PROVE IInv
  OBVIOUS
<1>1. TypeOK
  BY DEF PhoneInit, Init, TypeOK
<1> DEFINE s == Open("setup", None, Db)
<1>2. Alive(s, Db) /\ s.page = "setup"
  BY OpenAlive DEF WorkerPages
<1>3. stack = <<s>>
  BY DEF PhoneInit
<1> HIDE DEF s
<1>4. StackOK(stack, Db)
  BY <1>2, <1>3, OneStack
<1>5. Top = s
  BY <1>3 DEF Top
<1>6. DialogOK
  BY DEF PhoneInit, DialogOK
<1>7. QED BY <1>1, <1>2, <1>4, <1>5, <1>6 DEF IInv, FocusShowsStored

\* The stack has workers who are there on its pages, Home below everything else, the page
\* in focus is up to date, and a dialog has a page to dismiss.
THEOREM PhoneInvariant == PhoneSpec => []IInv
<1>1. PhoneInit => IInv
  BY PhoneStart
<1>2. IInv /\ [PhoneNext]_phoneVars => IInv'
  BY PhoneStep
<1>3. QED BY <1>1, <1>2, PTL DEF PhoneSpec

\* No page of a deleted worker is left, in any order of touches, drills and captures.
THEOREM PhoneDeletedAreGone == PhoneSpec => []DeletedAreGone
<1>1. IInv => DeletedAreGone
  <2> SUFFICES ASSUME IInv, NEW k \in DOMAIN stack, stack[k].worker # None PROVE Active(stack[k].worker)
    BY DEF DeletedAreGone
  <2>1. Alive(stack[k], Db)
    BY FocusNow, PageInStack
  <2>2. stack[k].worker \in Workers /\ getWorker(Db, stack[k].worker) # None
    BY <2>1 DEF Alive
  <2>3. QED BY <2>2 DEF getWorker, Db, Active
<1>2. QED BY <1>1, PhoneInvariant, PTL

\* What Home, a worker's page and a card's photo show when they are in focus is stored.
THEOREM PhoneFocusShowsStored == PhoneSpec => []FocusShowsStored
<1>1. IInv => FocusShowsStored
  BY DEF IInv
<1>2. QED BY <1>1, PhoneInvariant, PTL

\* A worker's page that comes into focus has the app in that worker's language.
THEOREM PhoneLanguage == PhoneSpec => LanguageFollowsWorker
<1>1. IInv /\ [PhoneNext]_phoneVars => [WorkerLanguage]_phoneVars
  BY PhoneStep
<1>2. QED BY <1>1, PhoneInvariant, PTL DEF PhoneSpec, LanguageFollowsWorker

\* The screens implement the store: no drill or certificate of a worker who is gone.
THEOREM PhoneImplementsStore == PhoneSpec => ImplementsStore
<1>1. PhoneInit => Init
  BY DEF PhoneInit
<1>2. IInv /\ [PhoneNext]_phoneVars => [Next]_vars
  BY PhoneStep
<1>3. QED BY <1>1, <1>2, PhoneInvariant, PTL DEF PhoneSpec, ImplementsStore, Spec

-----------------------------------------------------------------------------
(* The outbox in the order in which it is sent *)

\* The outbox is a list.
LEMMA OutboxIsSeq ==
    ASSUME OutboxOK
    PROVE  /\ Len(outbox) \in Nat /\ DOMAIN outbox = 1..Len(outbox)
           /\ \A n \in DOMAIN outbox : outbox[n] \in Range(outbox)
BY DEF OutboxOK, Range

\* The order of the outbox is one of its positions: each comes before or after another.
LEMMA EarlierIsAnOrder ==
    ASSUME OutboxOK, NEW i \in DOMAIN outbox, NEW j \in DOMAIN outbox
    PROVE  /\ ~Earlier(i, i)
           /\ i = j \/ Earlier(i, j) \/ Earlier(j, i)
           /\ \A k \in DOMAIN outbox : Earlier(i, j) /\ Earlier(j, k) => Earlier(i, k)
           /\ outbox[i].item.kind = "worker" /\ outbox[j].item.kind # "worker" => Earlier(i, j)
<1> DEFINE kind(n) == OUTBOX_KIND_ORDER(outbox[n].item)
           at(n) == outbox[n].createdAt
<1>1. \A n \in DOMAIN outbox : kind(n) \in 0..2 /\ at(n) \in Int /\ n \in Int
  BY OutboxIsSeq DEF OutboxOK, OUTBOX_KIND_ORDER
<1>2. \A m, n : Earlier(m, n) <=> \/ kind(m) < kind(n)
                                  \/ kind(m) = kind(n) /\ at(m) < at(n)
                                  \/ kind(m) = kind(n) /\ at(m) = at(n) /\ m < n
  BY DEF Earlier
<1>3. outbox[i].item.kind = "worker" /\ outbox[j].item.kind # "worker" => kind(i) < kind(j)
  BY DEF OUTBOX_KIND_ORDER
<1> HIDE DEF kind, at
<1>4. ~Earlier(i, i)
  BY <1>1, <1>2
<1>5. i = j \/ Earlier(i, j) \/ Earlier(j, i)
  BY <1>1, <1>2
<1>6. ASSUME NEW k \in DOMAIN outbox, Earlier(i, j), Earlier(j, k) PROVE Earlier(i, k)
  BY <1>1, <1>2, <1>6
<1>7. QED BY <1>2, <1>3, <1>4, <1>5, <1>6

\* Each position has a place in it, and those before it a lower one.
LEMMA PlaceInRange ==
    ASSUME OutboxOK, NEW i \in DOMAIN outbox
    PROVE  /\ Place(i) \in 1..Len(outbox)
           /\ \A j \in DOMAIN outbox : Earlier(j, i) => Place(j) < Place(i)
<1> DEFINE before(n) == {j \in DOMAIN outbox : Earlier(j, n)}
<1>1. IsFiniteSet(DOMAIN outbox) /\ Cardinality(DOMAIN outbox) = Len(outbox)
  <2>1. Len(outbox) \in Nat /\ DOMAIN outbox = 1..Len(outbox)
    BY OutboxIsSeq
  <2>2. QED BY <2>1, UpTo
<1>2. \A n : IsFiniteSet(before(n)) /\ Cardinality(before(n)) \in Nat
  <2>1. \A n : before(n) \in SUBSET DOMAIN outbox
    OBVIOUS
  <2> HIDE DEF before
  <2>2. QED BY <1>1, <2>1, FS_Subset, FS_CardinalityType
<1>3. before(i) \subseteq DOMAIN outbox \ {i}
  BY EarlierIsAnOrder
<1>4. IsFiniteSet(DOMAIN outbox \ {i}) /\ Cardinality(DOMAIN outbox \ {i}) = Len(outbox) - 1
  BY <1>1, FS_RemoveElement
<1>5. Cardinality(before(i)) <= Len(outbox) - 1
  <2> HIDE DEF before
  <2>1. QED BY <1>3, <1>4, FS_Subset
<1>6. Len(outbox) \in Nat
  BY OutboxIsSeq
<1>7. Place(i) \in 1..Len(outbox)
  <2>1. Place(i) = Cardinality(before(i)) + 1
    BY DEF Place
  <2> HIDE DEF before
  <2>2. QED BY <1>2, <1>5, <1>6, <2>1
<1>8. ASSUME NEW j \in DOMAIN outbox, Earlier(j, i) PROVE Place(j) < Place(i)
  <2>1. before(j) \subseteq before(i) \ {j}
    BY <1>8, EarlierIsAnOrder
  <2>2. j \in before(i)
    BY <1>8
  <2>3. Place(j) = Cardinality(before(j)) + 1 /\ Place(i) = Cardinality(before(i)) + 1
    BY DEF Place
  <2> HIDE DEF before
  <2>4. IsFiniteSet(before(i) \ {j}) /\ Cardinality(before(i) \ {j}) = Cardinality(before(i)) - 1
    BY <1>2, <2>2, FS_RemoveElement
  <2>5. Cardinality(before(j)) <= Cardinality(before(i)) - 1
    BY <2>1, <2>4, FS_Subset
  <2>6. QED BY <1>2, <2>3, <2>5
<1>9. QED BY <1>7, <1>8

\* So the queue has each position of the outbox once, at its place.
LEMMA QueueHasAll ==
    ASSUME OutboxOK
    PROVE  /\ Queue \in [1..Len(outbox) -> DOMAIN outbox]
           /\ Len(Queue) = Len(outbox)
           /\ \A n \in DOMAIN outbox : Place(n) \in 1..Len(outbox) /\ Queue[Place(n)] = n
           /\ \A k \in 1..Len(outbox) : Place(Queue[k]) = k
<1> DEFINE place == [n \in DOMAIN outbox |-> Place(n)]
<1>1. Len(outbox) \in Nat /\ DOMAIN outbox = 1..Len(outbox)
  BY OutboxIsSeq
<1>2. place \in [DOMAIN outbox -> 1..Len(outbox)]
  BY PlaceInRange
<1>3. ASSUME NEW i \in DOMAIN outbox, NEW j \in DOMAIN outbox, Place(i) = Place(j) PROVE i = j
  <2>1. ~Earlier(i, j) /\ ~Earlier(j, i)
    BY <1>1, <1>3, PlaceInRange
  <2>2. QED BY <2>1, EarlierIsAnOrder
<1>4. place \in Injection(DOMAIN outbox, 1..Len(outbox))
  BY <1>2, <1>3 DEF Injection, IsInjective
<1>5. place \in Surjection(DOMAIN outbox, 1..Len(outbox))
  <2> HIDE DEF place
  <2>1. IsFiniteSet(1..Len(outbox)) /\ Cardinality(1..Len(outbox)) = Cardinality(DOMAIN outbox)
    BY <1>1, FS_Interval
  <2>2. QED BY <1>4, <2>1, FS_Injection
<1>6. \A k \in 1..Len(outbox) : \E n \in DOMAIN outbox : Place(n) = k
  BY <1>5 DEF Surjection
<1>7. ASSUME NEW k \in 1..Len(outbox) PROVE Queue[k] \in DOMAIN outbox /\ Place(Queue[k]) = k
  <2>1. Queue[k] = CHOOSE n \in DOMAIN outbox : Place(n) = k
    BY <1>1 DEF Queue
  <2>2. QED BY <1>6, <2>1
<1>8. Queue = [k \in 1..Len(outbox) |-> Queue[k]]
  BY <1>1 DEF Queue
<1>9. Queue \in [1..Len(outbox) -> DOMAIN outbox]
  BY <1>7, <1>8
<1>10. Len(Queue) = Len(outbox)
  BY <1>1, <1>9
<1>11. ASSUME NEW n \in DOMAIN outbox PROVE Place(n) \in 1..Len(outbox) /\ Queue[Place(n)] = n
  <2>1. Place(n) \in 1..Len(outbox)
    BY PlaceInRange
  <2>2. Queue[Place(n)] \in DOMAIN outbox /\ Place(Queue[Place(n)]) = Place(n)
    BY <1>7, <2>1
  <2>3. QED BY <1>3, <2>1, <2>2
<1>12. QED BY <1>7, <1>9, <1>10, <1>11

\* How long the next request is.
Sending == IF Len(outbox) < BatchSize THEN Len(outbox) ELSE BatchSize

\* The next request has items of the outbox, and with an item those that are queued before it.
LEMMA RequestIsFirst ==
    ASSUME OutboxOK, NEW k \in 1..Sending
    PROVE  /\ Request[k] = outbox[Queue[k]].item /\ Queue[k] \in DOMAIN outbox
           /\ Genuine(Request[k])
           /\ Request[k].kind # "worker" =>
                 \A n \in DOMAIN outbox : outbox[n].item.kind = "worker" =>
                    \E j \in 1..(k - 1) : Request[j] = outbox[n].item
<1>1. Sending \in Int /\ Sending <= Len(outbox) /\ Len(outbox) \in Nat
  BY OutboxIsSeq, QueueHasAll, BoundsAssumption DEF Sending
<1>2. \A j \in 1..Sending : Request[j] = outbox[Queue[j]].item /\ j \in 1..Len(outbox)
  BY <1>1 DEF Request, Sending
<1>3. Queue[k] \in DOMAIN outbox
  BY <1>2, QueueHasAll
<1>4. Genuine(Request[k])
  BY <1>2, <1>3 DEF OutboxOK
<1>5. ASSUME Request[k].kind # "worker", NEW n \in DOMAIN outbox, outbox[n].item.kind = "worker"
      PROVE  \E j \in 1..(k - 1) : Request[j] = outbox[n].item
  <2>1. Earlier(n, Queue[k])
    BY <1>2, <1>3, <1>5, EarlierIsAnOrder
  <2>2. Place(n) < Place(Queue[k])
    BY <1>3, <2>1, PlaceInRange
  <2>3. Place(Queue[k]) = k /\ Place(n) \in 1..Len(outbox) /\ Queue[Place(n)] = n
    BY <1>2, QueueHasAll
  <2>4. Place(n) \in 1..(k - 1) /\ Place(n) \in 1..Sending
    BY <1>1, <2>2, <2>3
  <2>5. QED BY <1>2, <2>3, <2>4
<1>6. QED BY <1>2, <1>3, <1>4, <1>5

-----------------------------------------------------------------------------
(* What an item of the phone does at the server *)

\* The server has an item, or for a worker a newer copy.
Settled(table, i) ==
    IF i.kind = "worker" THEN table[i.id] # None /\ table[i.id].updatedAt >= i.updatedAt
    ELSE table[i.id] = RecordRow(i)

\* No row goes away, a record stays as it is and a worker only gets newer.
Grows(old, new) ==
    \A id \in Workers \cup Records : old[id] # None =>
       /\ new[id] # None
       /\ id \in Workers => new[id].updatedAt >= old[id].updatedAt
       /\ id \in Records => new[id] = old[id]

\* What a genuine item is.
LEMMA GenuineItem ==
    ASSUME TypeOK, NEW i, Genuine(i)
    PROVE  /\ i.flaw = None
           /\ i.kind = "worker" =>
                /\ i.id \in Workers /\ i.site = Site /\ i.updatedAt \in Int
                /\ RowOf(i) = WorkerRow(i) /\ WorkerRow(i) \in ServerWorker
                /\ WorkerRow(i).updatedAt = i.updatedAt /\ WorkerRow(i).site = Site
           /\ i.kind # "worker" =>
                /\ i.id \in Records /\ i.worker = records[i.id].worker /\ i.worker \in Workers
                /\ i.site = Site /\ records[i.id] # None
                /\ RowOf(i) = RecordRow(i) /\ RecordRow(i) \in ServerRecord
                /\ RecordRow(i) = RecordRow(RecordItem(i.id, records[i.id].worker))
<1>1. CASE i.kind = "worker"
  <2>1. /\ i.id \in Workers /\ i = WorkerItem(i.id, i) /\ WorkerRow(i) \in ServerWorker
    BY <1>1 DEF Genuine
  <2>2. i.flaw = None /\ i.site = Site
    BY <2>1 DEF WorkerItem
  <2>3. WorkerRow(i).updatedAt = i.updatedAt /\ WorkerRow(i).site = i.site
    BY DEF WorkerRow
  <2>4. i.updatedAt \in Int
    BY <2>1, <2>3 DEF ServerWorker
  <2>5. QED BY <1>1, <2>1, <2>2, <2>3, <2>4 DEF RowOf
<1>2. CASE i.kind # "worker"
  <2>1. i.id \in Records /\ records[i.id] # None /\ i = RecordItem(i.id, records[i.id].worker)
    BY <1>2 DEF Genuine
  <2>2. records[i.id].worker \in Workers
    BY <2>1 DEF TypeOK, RecordType
  <2>3. i.flaw = None /\ i.site = Site /\ i.worker = records[i.id].worker /\ i.content = i.id
    BY <2>1 DEF RecordItem
  <2>4. RecordRow(i) \in ServerRecord
    BY <2>1, <2>2, <2>3 DEF RecordRow, ServerRecord
  <2>5. QED BY <1>2, <2>1, <2>2, <2>3, <2>4 DEF RowOf
<1>3. QED BY <1>1, <1>2

\* A table that stays grows.
LEMMA GrowsNone ==
    ASSUME NEW table, TableOK(table)
    PROVE  Grows(table, table)
<1>1. \A w \in Workers : table[w] # None => table[w].updatedAt \in Int
  BY DEF TableOK, ServerWorker
<1>2. \A w \in Workers : table[w] # None => table[w].updatedAt >= table[w].updatedAt
  BY <1>1
<1>3. QED BY <1>2 DEF Grows

\* An item leaves the server's table as it should be; if its worker is there it is taken.
LEMMA ItemServed ==
    ASSUME TypeOK, NEW table, TableOK(table), NEW answers, NEW i, Genuine(i),
           i.kind # "worker" => workers[i.worker] # None,
           NEW after, after = Apply(Site, [table |-> table, answers |-> answers], i)
    PROVE  /\ TableOK(after.table) /\ Grows(table, after.table)
           /\ after.answers = Append(answers, Verdict(table, Site, i))
           /\ (i.kind = "worker" \/ table[i.worker] # None) =>
                 Verdict(table, Site, i) = "accepted" /\ Settled(after.table, i)
<1>0. PICK code : code = Verdict(table, Site, i)
  OBVIOUS
<1>1. /\ after.table = IF code = "accepted" /\ Stores(table, i)
                       THEN [table EXCEPT ![i.id] = RowOf(i)] ELSE table
      /\ after.answers = Append(answers, code)
  BY <1>0, Zenon DEF Apply
<1>2. DOMAIN table = Workers \cup Records /\ Workers \cap Records = {} /\ i.flaw = None
  BY GenuineItem, IdsAssumption DEF TableOK
<1>3. None \notin ServerWorker /\ None \notin ServerRecord
  BY NoneAssumption
<1>4. CASE i.kind = "worker"
  <2>1. /\ i.id \in Workers /\ i.site = Site /\ i.updatedAt \in Int
        /\ RowOf(i) = WorkerRow(i) /\ WorkerRow(i) \in ServerWorker
        /\ WorkerRow(i).updatedAt = i.updatedAt
    BY <1>4, GenuineItem
  <2>2. table[i.id] # None => table[i.id] \in ServerWorker /\ table[i.id].site = Site
                              /\ table[i.id].updatedAt \in Int
    BY <2>1 DEF TableOK, ServerWorker
  <2>3. code = "accepted"
    BY <1>0, <1>2, <1>4, <2>1, <2>2 DEF Verdict, WrongSite
  <2>4. /\ workers[i.id] # None /\ i.updatedAt <= workers[i.id].updatedAt
        /\ i.updatedAt = workers[i.id].updatedAt =>
              WorkerRow(i) = WorkerRow(WorkerItem(i.id, workers[i.id]))
    BY <1>4 DEF Genuine
  <2>5. CASE Stores(table, i)
    <3>1. after.table = [table EXCEPT ![i.id] = WorkerRow(i)]
      BY <1>1, <2>1, <2>3, <2>5
    <3>2. /\ DOMAIN after.table = Workers \cup Records
          /\ after.table[i.id] = WorkerRow(i)
          /\ \A id \in Workers \cup Records : id # i.id => after.table[id] = table[id]
      BY <1>2, <2>1, <3>1
    <3>3. TableOK(after.table)
      BY <1>2, <2>1, <2>4, <3>2 DEF TableOK
    <3>4. table[i.id] # None => i.updatedAt > table[i.id].updatedAt
      BY <2>5 DEF Stores
    <3>5. ASSUME NEW id \in Workers \cup Records, table[id] # None
          PROVE  /\ after.table[id] # None
                 /\ id \in Workers => after.table[id].updatedAt >= table[id].updatedAt
                 /\ id \in Records => after.table[id] = table[id]
      <4>1. CASE id = i.id
        BY <1>2, <1>3, <2>1, <2>2, <3>2, <3>4, <3>5, <4>1
      <4>2. CASE id # i.id
        <5>1. id \in Workers => table[id].updatedAt \in Int
          BY <3>5 DEF TableOK, ServerWorker
        <5>2. QED BY <3>2, <3>5, <4>2, <5>1
      <4>3. QED BY <4>1, <4>2
    <3>6. Grows(table, after.table)
      BY <3>5 DEF Grows
    <3>7. Settled(after.table, i)
      BY <1>3, <1>4, <2>1, <3>2 DEF Settled
    <3>8. QED BY <1>0, <1>1, <2>3, <3>3, <3>6, <3>7
  <2>6. CASE ~Stores(table, i)
    <3>1. after.table = table
      BY <1>1, <2>6
    <3>2. Grows(table, table)
      BY GrowsNone
    <3>3. Settled(table, i)
      BY <1>4, <2>1, <2>2, <2>6 DEF Settled, Stores
    <3>4. QED BY <1>0, <1>1, <2>3, <3>1, <3>2, <3>3
  <2>7. QED BY <2>5, <2>6
<1>5. CASE i.kind # "worker"
  <2>1. /\ i.id \in Records /\ i.worker = records[i.id].worker /\ i.worker \in Workers
        /\ i.site = Site /\ records[i.id] # None
        /\ RowOf(i) = RecordRow(i) /\ RecordRow(i) \in ServerRecord
        /\ RecordRow(i) = RecordRow(RecordItem(i.id, records[i.id].worker))
    BY <1>5, GenuineItem
  <2>2. table[i.id] # None => table[i.id] = RecordRow(i)
    BY <2>1 DEF TableOK
  <2>3. table[i.worker] # None => table[i.worker].site = Site
    BY <2>1 DEF TableOK, ServerWorker
  <2>4. table[i.id] # None \/ table[i.worker] # None => code = "accepted"
    BY <1>0, <1>2, <1>5, <2>1, <2>2, <2>3 DEF Verdict
  <2>5. CASE code = "accepted" /\ Stores(table, i)
    <3>1. after.table = [table EXCEPT ![i.id] = RecordRow(i)]
      BY <1>1, <2>1, <2>5
    <3>2. table[i.id] = None
      BY <1>5, <2>5 DEF Stores
    <3>3. /\ DOMAIN after.table = Workers \cup Records
          /\ after.table[i.id] = RecordRow(i)
          /\ \A id \in Workers \cup Records : id # i.id => after.table[id] = table[id]
      BY <1>2, <2>1, <3>1
    <3>4. TableOK(after.table)
      BY <1>2, <2>1, <3>3 DEF TableOK
    <3>5. Grows(table, after.table)
      BY <3>2, <3>3 DEF Grows, TableOK, ServerWorker
    <3>6. Settled(after.table, i)
      BY <1>5, <3>3 DEF Settled
    <3>7. QED BY <1>0, <1>1, <2>5, <3>4, <3>5, <3>6
  <2>6. CASE ~(code = "accepted" /\ Stores(table, i))
    <3>1. after.table = table
      BY <1>1, <2>6
    <3>2. Grows(table, table)
      BY GrowsNone
    <3>3. table[i.worker] # None => code = "accepted" /\ Settled(table, i)
      BY <1>5, <2>2, <2>4, <2>6 DEF Settled, Stores
    <3>4. QED BY <1>0, <1>1, <1>5, <3>1, <3>2, <3>3
  <2>7. QED BY <2>5, <2>6
<1>6. QED BY <1>4, <1>5

\* Tables that grow one after the other.
LEMMA GrowsOn ==
    ASSUME NEW a, NEW b, NEW c, TableOK(a), TableOK(b), TableOK(c), Grows(a, b), Grows(b, c)
    PROVE  /\ Grows(a, c)
           /\ \A i : TypeOK /\ Genuine(i) /\ Settled(b, i) => Settled(c, i)
<1>1. Grows(a, c)
  <2> SUFFICES ASSUME NEW id \in Workers \cup Records, a[id] # None
               PROVE  /\ c[id] # None
                      /\ id \in Workers => c[id].updatedAt >= a[id].updatedAt
                      /\ id \in Records => c[id] = a[id]
    BY DEF Grows
  <2>1. b[id] # None /\ c[id] # None
    BY DEF Grows
  <2>2. id \in Records => c[id] = a[id]
    BY <2>1 DEF Grows
  <2>3. id \in Workers => {a[id].updatedAt, b[id].updatedAt, c[id].updatedAt} \subseteq Int
    BY <2>1 DEF TableOK, ServerWorker
  <2>4. id \in Workers => b[id].updatedAt >= a[id].updatedAt /\ c[id].updatedAt >= b[id].updatedAt
    BY <2>1 DEF Grows
  <2>5. QED BY <2>1, <2>2, <2>3, <2>4
<1>2. ASSUME NEW i, TypeOK, Genuine(i), Settled(b, i) PROVE Settled(c, i)
  <2>1. CASE i.kind = "worker"
    <3>1. i.id \in Workers /\ i.updatedAt \in Int /\ b[i.id] # None /\ b[i.id].updatedAt >= i.updatedAt
      BY <1>2, <2>1, GenuineItem DEF Settled
    <3>2. c[i.id] # None /\ c[i.id].updatedAt >= b[i.id].updatedAt
      BY <3>1 DEF Grows
    <3>3. b[i.id].updatedAt \in Int /\ c[i.id].updatedAt \in Int
      BY <3>1, <3>2 DEF TableOK, ServerWorker
    <3>4. QED BY <2>1, <3>1, <3>2, <3>3 DEF Settled
  <2>2. CASE i.kind # "worker"
    <3>1. i.id \in Records /\ b[i.id] = RecordRow(i) /\ RecordRow(i) \in ServerRecord
      BY <1>2, <2>2, GenuineItem DEF Settled
    <3>2. QED BY <2>2, <3>1, NoneAssumption DEF Grows, Settled
  <2>3. QED BY <2>1, <2>2
<1>3. QED BY <1>1, <1>2

-----------------------------------------------------------------------------
(* What the server makes of a request *)

\* A request that has a worker before his records is taken whole, from the table that
\* the server has.
LEMMA RequestTaken ==
    ASSUME StoreIInv, NEW n \in Nat, NEW items, DOMAIN items = 1..n,
           \A k \in 1..n : Genuine(items[k]),
           \A k \in 1..n : items[k].kind # "worker" =>
              \/ server[items[k].worker] # None
              \/ \E j \in 1..(k - 1) : items[j].kind = "worker" /\ items[j].id = items[k].worker
    PROVE  /\ TableOK(Served(items).table) /\ Grows(server, Served(items).table)
           /\ \A k \in 1..n : /\ Settled(Served(items).table, items[k])
                              /\ Served(items).answers[k] = "accepted"
<1>1. PICK after :
         /\ after[0] = [table |-> server, answers |-> <<>>]
         /\ \A k \in 1..n : after[k] = Apply(Site, after[k - 1], items[k])
         /\ Ingest(server, Site, items) = after[n]
  <2>1. PICK served : served = Ingest(server, Site, items)
    OBVIOUS
  <2>2. \E after :
          /\ after[0] = [table |-> server, answers |-> <<>>]
          /\ \A k \in 1..n : after[k] = Apply(Site, after[k - 1], items[k])
          /\ served = after[n]
    BY <2>1, IngestByItem
  <2>3. QED BY <2>1, <2>2
<1> DEFINE Good(k) == /\ TableOK(after[k].table) /\ Grows(server, after[k].table)
                      /\ after[k].answers \in Seq({"accepted"}) /\ Len(after[k].answers) = k
                      /\ after[k] = [table |-> after[k].table, answers |-> after[k].answers]
                      /\ \A j \in 1..k : Settled(after[k].table, items[j])
           S == {k \in Nat : k <= n => Good(k)}
<1>2. TypeOK /\ TableOK(server)
  BY DEF StoreIInv
<1>3. 0 \in S
  <2>1. after[0].table = server /\ after[0].answers = <<>>
    BY <1>1
  <2>2. Good(0)
    BY <1>1, <1>2, <2>1, GrowsNone
  <2> HIDE DEF Good
  <2>3. QED BY <2>2
<1>4. ASSUME NEW k \in Nat, k \in S PROVE k + 1 \in S
  <2> SUFFICES ASSUME k + 1 <= n PROVE Good(k + 1)
    <3> HIDE DEF Good
    <3> QED OBVIOUS
  <2>1. Good(k)
    <3> HIDE DEF Good
    <3> QED BY <1>4
  <2>0. PICK i, table, answers, next :
          /\ i = items[k + 1] /\ table = after[k].table /\ answers = after[k].answers
          /\ next = after[k + 1]
    OBVIOUS
  <2>2. k + 1 \in 1..n /\ Genuine(i)
    BY <2>0
  <2>3. next = Apply(Site, [table |-> table, answers |-> answers], i)
    <3>1. after[k + 1] = Apply(Site, after[k + 1 - 1], items[k + 1])
      BY <1>1, <2>2
    <3>2. k + 1 - 1 = k
      OBVIOUS
    <3>3. QED BY <2>0, <2>1, <3>1, <3>2
  <2>4. i.kind # "worker" => i.worker \in Workers /\ workers[i.worker] # None
    <3>1. ASSUME i.kind # "worker" PROVE i.worker \in Workers /\ workers[i.worker] # None
      <4>1. i.id \in Records /\ i.worker = records[i.id].worker /\ i.worker \in Workers /\ records[i.id] # None
        BY <1>2, <2>2, <3>1, GenuineItem
      <4>2. QED BY <4>1 DEF StoreIInv
    <3>2. QED BY <3>1
  <2>5. i.kind = "worker" \/ table[i.worker] # None
    <3>1. CASE i.kind # "worker" /\ server[i.worker] # None
      BY <2>0, <2>1, <2>4, <3>1 DEF Grows
    <3>2. ASSUME NEW j \in 1..k, items[j].kind = "worker", items[j].id = i.worker
          PROVE  table[i.worker] # None
      BY <2>0, <2>1, <3>2 DEF Settled
    <3>3. k + 1 - 1 = k
      OBVIOUS
    <3>4. QED BY <2>0, <2>2, <3>1, <3>2, <3>3
  <2>6. /\ TableOK(next.table) /\ Grows(table, next.table)
        /\ next.answers = Append(answers, "accepted") /\ Settled(next.table, i)
    <3>1. TableOK(table)
      BY <2>0, <2>1
    <3>2. i.kind # "worker" => workers[i.worker] # None
      BY <2>4
    <3>3. /\ TableOK(next.table) /\ Grows(table, next.table)
          /\ next.answers = Append(answers, Verdict(table, Site, i))
          /\ (i.kind = "worker" \/ table[i.worker] # None) =>
                Verdict(table, Site, i) = "accepted" /\ Settled(next.table, i)
      BY <1>2, <2>2, <2>3, <3>1, <3>2, ItemServed
    <3>4. QED BY <2>5, <3>3
  <2>7. /\ Grows(server, next.table)
        /\ \A j \in 1..k : Settled(next.table, items[j])
    <3>1. TableOK(table) /\ Grows(server, table) /\ \A j \in 1..k : Settled(table, items[j]) /\ Genuine(items[j])
      BY <2>0, <2>1, <2>2
    <3>2. QED BY <1>2, <2>6, <3>1, GrowsOn
  <2>8. next.answers \in Seq({"accepted"}) /\ Len(next.answers) = k + 1
    BY <2>0, <2>1, <2>6
  <2>9. next = [table |-> next.table, answers |-> next.answers]
    <3>1. \E t, a : next = [table |-> t, answers |-> a]
      BY <2>3, Zenon DEF Apply
    <3>2. QED BY <3>1
  <2>10. \A j \in 1..(k + 1) : Settled(next.table, items[j])
    <3>1. \A j \in 1..(k + 1) : j \in 1..k \/ j = k + 1
      OBVIOUS
    <3>2. QED BY <2>6, <2>7, <3>1, <2>0
  <2>11. QED BY <2>6, <2>7, <2>8, <2>9, <2>10, <2>0
<1>5. Good(n)
  <2>1. n \in S
    <3> HIDE DEF S
    <3>1. QED BY <1>3, <1>4, EveryNat
  <2> HIDE DEF Good
  <2>2. QED BY <2>1
<1>6. Served(items) = after[n]
  BY <1>1 DEF Served
<1>7. \A k \in 1..n : after[n].answers[k] = "accepted"
  BY <1>5
<1>8. QED BY <1>5, <1>6, <1>7

\* The next request is one.
LEMMA RequestServed ==
    ASSUME StoreIInv
    PROVE  /\ TableOK(Served(Request).table) /\ Grows(server, Served(Request).table)
           /\ DOMAIN Request = 1..Sending
           /\ \A k \in DOMAIN Request : /\ Settled(Served(Request).table, Request[k])
                                        /\ Served(Request).answers[k] = "accepted"
<1>1. OutboxOK /\ TypeOK
  BY DEF StoreIInv
<1>2. DOMAIN Request = 1..Sending
  BY DEF Request, Sending
<1>3. Sending \in Nat
  BY <1>1, OutboxIsSeq, QueueHasAll, BoundsAssumption DEF Sending
<1>4. \A k \in 1..Sending : Genuine(Request[k])
  BY <1>1, RequestIsFirst
<1>5. ASSUME NEW k \in 1..Sending, Request[k].kind # "worker"
      PROVE  \/ server[Request[k].worker] # None
             \/ \E j \in 1..(k - 1) : Request[j].kind = "worker" /\ Request[j].id = Request[k].worker
  <2> DEFINE w == Request[k].worker
  <2>1. Request[k].id \in Records /\ w = records[Request[k].id].worker /\ w \in Workers /\ records[Request[k].id] # None
    BY <1>1, <1>4, <1>5, GenuineItem
  <2>2. workers[w] # None
    BY <2>1 DEF StoreIInv
  <2> DEFINE newest == WorkerItem(w, workers[w])
  <2>3. server[w] = WorkerRow(newest) \/ newest \in Queued(w)
    BY <2>1, <2>2 DEF StoreIInv, NewestIsThereOrQueued
  <2>4. newest.kind = "worker" /\ newest.id = w
    BY DEF WorkerItem
  <2> HIDE DEF newest
  <2>5. CASE newest \in Queued(w)
    <3>1. PICK n \in DOMAIN outbox : outbox[n].item = newest
      BY <2>5 DEF Queued
    <3>2. \E j \in 1..(k - 1) : Request[j] = outbox[n].item
      BY <1>1, <1>5, <2>4, <3>1, RequestIsFirst
    <3>3. QED BY <2>4, <3>1, <3>2
  <2>6. CASE newest \notin Queued(w)
    <3>1. WorkerRow(newest) \in ServerWorker
      <4>1. workers[w] \in WorkerType
        BY <1>1, <2>1, <2>2 DEF TypeOK
      <4>2. QED BY <4>1 DEF newest, WorkerItem, WorkerRow, ServerWorker, WorkerType
    <3>2. QED BY <2>3, <2>6, <3>1, NoneAssumption
  <2>7. QED BY <2>5, <2>6
<1>6. QED BY <1>2, <1>3, <1>4, <1>5, RequestTaken

\* A request that is served late, one item of it: he may be refused, and harms nothing.
LEMMA LateServed ==
    ASSUME StoreIInv, NEW item, Genuine(item)
    PROVE  TableOK(Served(<<item>>).table) /\ Grows(server, Served(<<item>>).table)
<1> DEFINE items == <<item>>
<1>1. PICK served : served = Ingest(server, Site, items)
  OBVIOUS
<1>2. PICK n : n = 1
  OBVIOUS
<1>3. n \in Nat /\ DOMAIN items = 1..n
  BY <1>2
<1>4. items[1] = item /\ TypeOK /\ TableOK(server)
  BY DEF StoreIInv
<1> HIDE DEF items
<1>5. PICK after :
         /\ after[0] = [table |-> server, answers |-> <<>>]
         /\ \A k \in 1..n : after[k] = Apply(Site, after[k - 1], items[k])
         /\ served = after[n]
  BY <1>1, <1>3, IngestByItem
<1>6. Served(items) = Apply(Site, [table |-> server, answers |-> <<>>], item)
  <2>1. after[1] = Apply(Site, after[0], item)
    BY <1>2, <1>3, <1>5, <1>4
  <2>2. QED BY <1>2, <1>1, <1>5, <2>1 DEF Served
<1>7. item.kind # "worker" => workers[item.worker] # None
  BY <1>4, GenuineItem DEF StoreIInv
<1>8. TableOK(Served(items).table) /\ Grows(server, Served(items).table)
  BY <1>4, <1>6, <1>7, ItemServed
<1>9. QED BY <1>8 DEF items

-----------------------------------------------------------------------------
(* Steps of the store *)

\* Nothing that was made is unmade: a worker's copy stays, or is replaced by a newer one.
Made ==
    /\ \A w \in Workers : workers[w] # None =>
          /\ workers'[w] # None
          /\ workers'[w] = workers[w] \/ workers'[w].updatedAt > workers[w].updatedAt
    /\ \A id \in Records : records[id] # None => records'[id] = records[id]

\* Then items and tables stay as good as they were.
LEMMA GenuineStays ==
    ASSUME TypeOK, TypeOK', Made, NEW item, Genuine(item)
    PROVE  Genuine(item)'
<1>1. CASE item.kind = "worker"
  <2> DEFINE w == item.id
  <2>1. w \in Workers /\ workers[w] # None /\ workers'[w] # None
    BY <1>1 DEF Genuine, Made
  <2>2. workers[w].updatedAt \in Int /\ workers'[w].updatedAt \in Int /\ item.updatedAt \in Int
    BY <1>1, <2>1, GenuineItem DEF TypeOK, WorkerType
  <2>3. /\ item = WorkerItem(item.id, item) /\ WorkerRow(item) \in ServerWorker
        /\ item.updatedAt <= workers[w].updatedAt
        /\ item.updatedAt = workers[w].updatedAt => item = WorkerItem(w, workers[w])
    BY <1>1 DEF Genuine
  <2>4. workers'[w] = workers[w] \/ workers'[w].updatedAt > workers[w].updatedAt
    BY <2>1 DEF Made
  <2>5. /\ item.updatedAt <= workers'[w].updatedAt
        /\ item.updatedAt = workers'[w].updatedAt => item = WorkerItem(w, workers'[w])
    BY <2>2, <2>3, <2>4
  <2>6. QED BY <1>1, <2>1, <2>3, <2>5 DEF Genuine
<1>2. CASE item.kind # "worker"
  BY <1>2 DEF Genuine, Made
<1>3. QED BY <1>1, <1>2

\* So do rows that stay.
LEMMA TableStays ==
    ASSUME TypeOK, TypeOK', Made, TableOK(server), server' = server
    PROVE  TableOK(server)'
<1>1. ASSUME NEW w \in Workers, server[w] # None
      PROVE  /\ server[w] \in ServerWorker /\ workers'[w] # None
             /\ server[w].updatedAt <= workers'[w].updatedAt
             /\ server[w].updatedAt = workers'[w].updatedAt => server[w] = WorkerRow(WorkerItem(w, workers'[w]))
  <2>1. /\ server[w] \in ServerWorker /\ workers[w] # None /\ workers'[w] # None
        /\ server[w].updatedAt <= workers[w].updatedAt
        /\ server[w].updatedAt = workers[w].updatedAt => server[w] = WorkerRow(WorkerItem(w, workers[w]))
        /\ workers'[w] = workers[w] \/ workers'[w].updatedAt > workers[w].updatedAt
    BY <1>1 DEF TableOK, Made
  <2>2. workers[w].updatedAt \in Int /\ workers'[w].updatedAt \in Int /\ server[w].updatedAt \in Int
    BY <2>1 DEF TypeOK, WorkerType, ServerWorker
  <2>3. QED BY <2>1, <2>2
<1>2. ASSUME NEW id \in Records, server[id] # None
      PROVE  records'[id] # None /\ server[id] = RecordRow(RecordItem(id, records'[id].worker))
  BY <1>2 DEF TableOK, Made
<1>3. DOMAIN server = Workers \cup Records
  BY DEF TableOK
<1>4. QED BY <1>1, <1>2, <1>3 DEF TableOK

\* A row is put at the end of the outbox.
LEMMA Enqueued ==
    ASSUME TypeOK, TypeOK', Made, OutboxOK, NEW item, NEW now \in Int, enqueueOutbox(item, now), Genuine(item)'
    PROVE  /\ OutboxOK'
           /\ \A id : Queued(id)' = IF item.id = id THEN Queued(id) \cup {item} ELSE Queued(id)
<1> DEFINE e == [item |-> item, createdAt |-> now]
           S == Range(outbox) \cup {e}
<1>1. outbox \in Seq(S) /\ e \in S /\ outbox' = Append(outbox, e)
  BY DEF OutboxOK, enqueueOutbox
<1>2. Len(outbox) \in Nat /\ DOMAIN outbox = 1..Len(outbox)
  BY OutboxIsSeq
<1>3. e.item = item /\ e.createdAt = now
  OBVIOUS
<1> HIDE DEF e, S
<1>4. /\ outbox' \in Seq(S) /\ Len(outbox') = Len(outbox) + 1
      /\ \A k \in 1..Len(outbox) : outbox'[k] = outbox[k]
      /\ outbox'[Len(outbox) + 1] = e
  BY <1>1, <1>2, AppendProperties
<1>5. DOMAIN outbox' = DOMAIN outbox \cup {Len(outbox) + 1} /\ Len(outbox) + 1 \notin DOMAIN outbox
  BY <1>2, <1>4
<1>6. outbox' \in Seq(Range(outbox'))
  BY <1>4, SeqOfRange
<1>7. ASSUME NEW n \in DOMAIN outbox' PROVE (Genuine(outbox[n].item) /\ outbox[n].createdAt \in Int)'
  <2>1. CASE n \in DOMAIN outbox
    <3>1. PICK i, at : i = outbox[n].item /\ at = outbox[n].createdAt /\ Genuine(i) /\ at \in Int
      BY <2>1 DEF OutboxOK
    <3>2. Genuine(i)'
      BY <3>1, GenuineStays
    <3>3. outbox'[n] = outbox[n]
      BY <1>2, <1>4, <2>1
    <3>4. QED BY <3>1, <3>2, <3>3 DEF Genuine
  <2>2. CASE n = Len(outbox) + 1
    BY <1>3, <1>4, <2>2 DEF Genuine
  <2>3. QED BY <1>5, <2>1, <2>2
<1>8. OutboxOK'
  BY <1>6, <1>7 DEF OutboxOK
<1>9. ASSUME NEW id PROVE Queued(id)' = IF item.id = id THEN Queued(id) \cup {item} ELSE Queued(id)
  <2>1. /\ Queued(id)' = {outbox'[k].item : k \in {j \in DOMAIN outbox' : outbox'[j].item.id = id}}
        /\ Queued(id) = {outbox[k].item : k \in {j \in DOMAIN outbox : outbox[j].item.id = id}}
    BY DEF Queued
  <2>2. \A k \in DOMAIN outbox : outbox'[k] = outbox[k]
    BY <1>2, <1>4
  <2>3. QED BY <1>3, <1>4, <1>5, <2>1, <2>2
<1>10. QED BY <1>8, <1>9

\* What is queued is genuine.
LEMMA QueuedGenuine ==
    ASSUME StoreIInv, NEW id, NEW item \in Queued(id)
    PROVE  Genuine(item) /\ item.id = id
BY DEF StoreIInv, OutboxOK, Queued

\* The row of a worker's newest copy.
LEMMA NewestRow ==
    ASSUME TypeOK, NEW w \in Workers, workers[w] # None
    PROVE  LET newest == WorkerItem(w, workers[w])
           IN  /\ newest.kind = "worker" /\ newest.id = w /\ newest.updatedAt = workers[w].updatedAt
               /\ newest.updatedAt \in Int
               /\ WorkerRow(newest) \in ServerWorker /\ WorkerRow(newest) # None
               /\ WorkerRow(newest).updatedAt = newest.updatedAt
               /\ Genuine(newest)
<1> DEFINE newest == WorkerItem(w, workers[w])
<1>1. workers[w] \in WorkerType
  BY DEF TypeOK
<1>2. /\ newest.kind = "worker" /\ newest.id = w /\ newest.updatedAt = workers[w].updatedAt
      /\ newest = WorkerItem(newest.id, newest)
  BY DEF WorkerItem
<1>3. newest.updatedAt \in Int /\ newest.updatedAt <= workers[w].updatedAt
  BY <1>1, <1>2 DEF WorkerType
<1>4. WorkerRow(newest) \in ServerWorker /\ WorkerRow(newest).updatedAt = newest.updatedAt
  BY <1>1 DEF WorkerItem, WorkerRow, WorkerType, ServerWorker
<1>5. Genuine(newest)
  <2> HIDE DEF newest
  <2>1. newest = WorkerItem(w, workers[w])
    BY DEF newest
  <2>2. QED BY <1>2, <1>3, <1>4, <2>1 DEF Genuine
<1>6. QED BY <1>2, <1>3, <1>4, <1>5, NoneAssumption

\* A newer copy of a worker is stored.
LEMMA NewerStored ==
    ASSUME StoreIInv, TypeOK', NEW w \in Workers, NEW row \in WorkerType, StoreWorker(w, row),
           workers[w] # None => row.updatedAt > workers[w].updatedAt
    PROVE  StoreIInv'
<1> DEFINE item == WorkerItem(w, row)
<1>1. TypeOK /\ TableOK(server) /\ OutboxOK
  BY DEF StoreIInv
<1>2. /\ workers' = [workers EXCEPT ![w] = row] /\ row # None /\ row.updatedAt \in Int
      /\ records' = records /\ server' = server /\ sent' = sent
      /\ enqueueOutbox(item, row.updatedAt)
  BY NoneAssumption DEF StoreWorker, WorkerType
<1>3. workers'[w] = row /\ \A v \in Workers : v # w => workers'[v] = workers[v]
  BY <1>1, <1>2 DEF TypeOK
<1>4. Made
  BY <1>2, <1>3 DEF Made
<1>5. Genuine(item)' /\ item.id = w /\ item.updatedAt = row.updatedAt
  <2>1. /\ item.kind = "worker" /\ item.id = w /\ item.updatedAt = row.updatedAt
        /\ item = WorkerItem(item.id, item)
    BY DEF WorkerItem
  <2>2. WorkerRow(item) \in ServerWorker
    BY DEF WorkerItem, WorkerRow, WorkerType, ServerWorker
  <2>3. item = WorkerItem(w, workers'[w])
    BY <1>3
  <2> HIDE DEF item
  <2>4. QED BY <1>2, <1>3, <2>1, <2>2, <2>3 DEF Genuine
<1>6. /\ OutboxOK'
      /\ \A id : Queued(id)' = IF w = id THEN Queued(id) \cup {item} ELSE Queued(id)
  <2> HIDE DEF item
  <2>1. QED BY <1>1, <1>2, <1>4, <1>5, Enqueued
<1>7. TableOK(server)'
  BY <1>1, <1>2, <1>4, TableStays
<1>8. (\A i \in sent : Genuine(i))'
  <2>1. \A i : Genuine(i) => Genuine(i)'
    BY <1>1, <1>4, GenuineStays
  <2>2. \A i \in sent : Genuine(i)
    BY DEF StoreIInv
  <2>3. QED BY <1>2, <2>1, <2>2
<1>9. (\A id \in Records : records[id] # None => workers[records[id].worker] # None)'
  BY <1>1, <1>2, <1>4 DEF StoreIInv, Made, TypeOK, RecordType
<1>10. NewestIsThereOrQueued'
  <2> SUFFICES ASSUME NEW v \in Workers, workers'[v] # None
               PROVE  LET newest == WorkerItem(v, workers'[v])
                      IN  /\ server[v] = WorkerRow(newest) \/ newest \in Queued(v)'
                          /\ server[v] # None => server[v].updatedAt <= newest.updatedAt
                          /\ \A i \in Queued(v)' \ {newest} : i.updatedAt < newest.updatedAt
    BY <1>2 DEF NewestIsThereOrQueued
  <2>1. CASE v = w
    <3>1. item = WorkerItem(v, workers'[v]) /\ Queued(v)' = Queued(v) \cup {item}
      BY <1>3, <1>6, <2>1
    <3> HIDE DEF item
    <3>2. server[v] # None => workers[v] # None /\ server[v] \in ServerWorker
                              /\ server[v].updatedAt <= workers[v].updatedAt
      BY <1>1 DEF TableOK
    <3>3. ASSUME server[v] # None PROVE server[v].updatedAt <= item.updatedAt
      <4>1. workers[v].updatedAt \in Int /\ server[v].updatedAt \in Int
        BY <1>1, <3>2, <3>3 DEF TypeOK, WorkerType, ServerWorker
      <4>2. QED BY <1>2, <1>5, <2>1, <3>2, <3>3, <4>1
    <3>4. ASSUME NEW i \in Queued(v) PROVE i.updatedAt < item.updatedAt
      <4>1. Genuine(i) /\ i.id = v
        BY QueuedGenuine
      <4>2. i.kind = "worker"
        BY <4>1, IdsAssumption DEF Genuine
      <4>3. workers[v] # None /\ i.updatedAt <= workers[v].updatedAt /\ i.updatedAt \in Int
        BY <1>1, <4>1, <4>2, GenuineItem DEF Genuine
      <4>4. workers[v].updatedAt \in Int
        BY <1>1, <4>3 DEF TypeOK, WorkerType
      <4>5. QED BY <1>2, <1>5, <2>1, <4>3, <4>4
    <3>5. QED BY <3>1, <3>3, <3>4
  <2>2. CASE v # w
    <3>1. workers'[v] = workers[v] /\ Queued(v)' = Queued(v)
      BY <1>3, <1>6, <2>2
    <3>2. QED BY <3>1 DEF StoreIInv, NewestIsThereOrQueued
  <2>3. QED BY <2>1, <2>2
<1>11. RecordsAreThereOrQueued'
  <2>1. \A id \in Records : Queued(id)' = Queued(id)
    BY <1>6, IdsAssumption
  <2>2. QED BY <1>2, <2>1 DEF StoreIInv, RecordsAreThereOrQueued
<1>12. QED BY <1>6, <1>7, <1>8, <1>9, <1>10, <1>11 DEF StoreIInv

\* A record of a worker that is there is stored.
LEMMA RecordMade ==
    ASSUME StoreIInv, TypeOK', NEW w \in Workers, NEW id \in Records, SaveRecord(id, w)
    PROVE  StoreIInv'
<1> DEFINE item == RecordItem(id, w)
           row == [worker |-> w, createdAt |-> clock]
<1>1. TypeOK /\ TableOK(server) /\ OutboxOK
  BY DEF StoreIInv
<1>2. /\ records[id] = None /\ records' = [records EXCEPT ![id] = row]
      /\ workers' = workers /\ server' = server /\ sent' = sent /\ workers[w] # None
      /\ enqueueOutbox(item, clock) /\ clock \in Int
  BY <1>1 DEF SaveRecord, StoreRecord, Active, TypeOK
<1>3. row \in RecordType /\ row # None
  BY <1>2, NoneAssumption DEF RecordType
<1>4. records'[id] = row /\ \A other \in Records : other # id => records'[other] = records[other]
  BY <1>1, <1>2 DEF TypeOK
<1>5. Made
  BY <1>2, <1>4 DEF Made
<1>6. Genuine(item)' /\ item.id = id
  <2>1. item.kind # "worker" /\ item.id = id
    BY DEF RecordItem
  <2>2. item = RecordItem(item.id, records'[item.id].worker)
    BY <1>4, <2>1
  <2> HIDE DEF item, row
  <2>3. QED BY <1>3, <1>4, <2>1, <2>2 DEF Genuine
<1>7. /\ OutboxOK'
      /\ \A other : Queued(other)' = IF id = other THEN Queued(other) \cup {item} ELSE Queued(other)
  <2> HIDE DEF item
  <2>1. QED BY <1>1, <1>2, <1>5, <1>6, Enqueued
<1>8. TableOK(server)'
  BY <1>1, <1>2, <1>5, TableStays
<1>9. (\A i \in sent : Genuine(i))'
  <2>1. \A i : Genuine(i) => Genuine(i)'
    BY <1>1, <1>5, GenuineStays
  <2>2. \A i \in sent : Genuine(i)
    BY DEF StoreIInv
  <2>3. QED BY <1>2, <2>1, <2>2
<1>10. (\A other \in Records : records[other] # None => workers[records[other].worker] # None)'
  BY <1>2, <1>4 DEF StoreIInv
<1>11. NewestIsThereOrQueued'
  <2>1. \A v \in Workers : Queued(v)' = Queued(v)
    BY <1>7, IdsAssumption
  <2>2. QED BY <1>2, <2>1 DEF StoreIInv, NewestIsThereOrQueued
<1>12. RecordsAreThereOrQueued'
  <2>1. Queued(id)' # {}
    BY <1>7
  <2>2. \A other \in Records : other # id => Queued(other)' = Queued(other)
    BY <1>7
  <2>3. QED BY <1>2, <1>4, <2>1, <2>2 DEF StoreIInv, RecordsAreThereOrQueued
<1>13. QED BY <1>7, <1>8, <1>9, <1>10, <1>11, <1>12 DEF StoreIInv

\* The server takes what it takes, and rows that it has leave the outbox.
LEMMA ServerMoves ==
    ASSUME StoreIInv, TypeOK', UNCHANGED <<workers, records>>,
           NEW table, server' = table, TableOK(table), Grows(server, table),
           OutboxOK', \A item \in sent' : Genuine(item),
           \A id : Queued(id)' \subseteq Queued(id),
           \A id : \A item \in Queued(id) : item \in Queued(id)' \/ Settled(table, item)
    PROVE  StoreIInv'
<1>1. TypeOK /\ TableOK(server) /\ OutboxOK
  BY DEF StoreIInv
<1>2. TableOK(server)'
  BY DEF TableOK
<1>3. (\A item \in sent : Genuine(item))'
  BY DEF Genuine
<1>4. (\A id \in Records : records[id] # None => workers[records[id].worker] # None)'
  BY DEF StoreIInv
<1>5. NewestIsThereOrQueued'
  <2> SUFFICES ASSUME NEW w \in Workers, workers[w] # None
               PROVE  LET newest == WorkerItem(w, workers[w])
                      IN  /\ table[w] = WorkerRow(newest) \/ newest \in Queued(w)'
                          /\ table[w] # None => table[w].updatedAt <= newest.updatedAt
                          /\ \A i \in Queued(w)' \ {newest} : i.updatedAt < newest.updatedAt
    BY DEF NewestIsThereOrQueued
  <2> DEFINE newest == WorkerItem(w, workers[w])
  <2>1. /\ newest.kind = "worker" /\ newest.id = w /\ newest.updatedAt = workers[w].updatedAt
        /\ newest.updatedAt \in Int
        /\ WorkerRow(newest) \in ServerWorker /\ WorkerRow(newest) # None
        /\ WorkerRow(newest).updatedAt = newest.updatedAt
    BY <1>1, NewestRow
  <2>2. /\ server[w] = WorkerRow(newest) \/ newest \in Queued(w)
        /\ \A i \in Queued(w) \ {newest} : i.updatedAt < newest.updatedAt
    BY DEF StoreIInv, NewestIsThereOrQueued
  <2>3. table[w] # None => /\ table[w] \in ServerWorker /\ table[w].updatedAt <= workers[w].updatedAt
                           /\ table[w].updatedAt = workers[w].updatedAt => table[w] = WorkerRow(newest)
    BY DEF TableOK
  <2> HIDE DEF newest
  <2>4. ASSUME newest \notin Queued(w)' PROVE table[w] = WorkerRow(newest)
    <3>1. table[w] # None /\ table[w].updatedAt >= newest.updatedAt
      <4>1. CASE server[w] = WorkerRow(newest)
        BY <2>1, <4>1 DEF Grows
      <4>2. CASE newest \in Queued(w)
        BY <2>1, <2>4, <4>2 DEF Settled
      <4>3. QED BY <2>2, <4>1, <4>2
    <3>2. table[w].updatedAt \in Int
      BY <2>3, <3>1 DEF ServerWorker
    <3>3. QED BY <2>1, <2>3, <3>1, <3>2
  <2>5. table[w] # None => table[w].updatedAt <= newest.updatedAt
    BY <2>1, <2>3
  <2>6. \A i \in Queued(w)' \ {newest} : i.updatedAt < newest.updatedAt
    BY <2>2
  <2>7. QED BY <2>4, <2>5, <2>6 DEF newest
<1>6. RecordsAreThereOrQueued'
  <2> SUFFICES ASSUME NEW id \in Records, records[id] # None, Queued(id)' = {}
               PROVE  table[id] = RecordRow(RecordItem(id, records[id].worker))
    BY DEF RecordsAreThereOrQueued
  <2> DEFINE item == RecordItem(id, records[id].worker)
  <2>1. CASE Queued(id) = {}
    <3>1. server[id] = RecordRow(item)
      BY <2>1 DEF StoreIInv, RecordsAreThereOrQueued
    <3>2. RecordRow(item) \in ServerRecord
      BY <1>1 DEF TypeOK, RecordType, RecordItem, RecordRow, ServerRecord
    <3>3. server[id] # None
      BY <3>1, <3>2, NoneAssumption
    <3>4. QED BY <3>1, <3>3 DEF Grows
  <2>2. CASE Queued(id) # {}
    <3>1. PICK i \in Queued(id) : Settled(table, i)
      BY <2>2
    <3>2. Genuine(i) /\ i.id = id
      BY QueuedGenuine
    <3>3. i.kind # "worker" /\ i = item
      BY <3>2, IdsAssumption DEF Genuine
    <3>4. QED BY <3>1, <3>2, <3>3 DEF Settled
  <2>3. QED BY <2>1, <2>2
<1>7. QED BY <1>2, <1>3, <1>4, <1>5, <1>6 DEF StoreIInv

\* A part of the outbox is left.
LEMMA OutboxLeft ==
    ASSUME OutboxOK, UNCHANGED <<workers, records>>,
           NEW kept \in SUBSET DOMAIN outbox, outbox' = InOrder(outbox, kept)
    PROVE  /\ OutboxOK'
           /\ \A id : Queued(id)' \subseteq Queued(id)
           /\ \A id : \A item \in Queued(id) :
                 item \in Queued(id)' \/ \E n \in DOMAIN outbox \ kept : outbox[n].item = item
<1>1. IsFiniteSet(kept) /\ kept \in SUBSET Int
  <2>1. Len(outbox) \in Nat /\ DOMAIN outbox = 1..Len(outbox)
    BY OutboxIsSeq
  <2>2. IsFiniteSet(DOMAIN outbox)
    BY <2>1, UpTo
  <2>3. QED BY <2>1, <2>2, FS_Subset
<1>2. Cardinality(kept) \in Nat
  BY <1>1, FS_CardinalityType
<1>3. DOMAIN outbox' = 1..Cardinality(kept)
  BY DEF InOrder
<1>4. ASSUME NEW i \in kept
      PROVE  Rank(kept, i) \in DOMAIN outbox' /\ outbox'[Rank(kept, i)] = outbox[i]
  BY <1>1, AtRank
<1>5. ASSUME NEW n \in DOMAIN outbox' PROVE \E i \in kept : outbox'[n] = outbox[i]
  <2>1. PICK i \in kept : Rank(kept, i) = n
    BY <1>1, <1>3, RanksAreAll
  <2>2. QED BY <1>4, <2>1
<1>6. outbox' \in Seq(Range(outbox'))
  <2>1. outbox' = [n \in 1..Cardinality(kept) |-> outbox'[n]]
    BY DEF InOrder
  <2>2. \A n \in 1..Cardinality(kept) : outbox'[n] \in Range(outbox')
    BY <1>3 DEF Range
  <2>3. QED BY <1>2, <2>1, <2>2
<1>7. ASSUME NEW n \in DOMAIN outbox' PROVE (Genuine(outbox[n].item) /\ outbox[n].createdAt \in Int)'
  <2>1. PICK i \in kept : outbox'[n] = outbox[i]
    BY <1>5
  <2>2. Genuine(outbox[i].item) /\ outbox[i].createdAt \in Int
    BY DEF OutboxOK
  <2>3. QED BY <2>1, <2>2 DEF Genuine
<1>8. OutboxOK'
  BY <1>6, <1>7 DEF OutboxOK
<1>9. ASSUME NEW id PROVE Queued(id)' \subseteq Queued(id)
  BY <1>5 DEF Queued
<1>10. ASSUME NEW id, NEW item \in Queued(id)
       PROVE  item \in Queued(id)' \/ \E n \in DOMAIN outbox \ kept : outbox[n].item = item
  <2>1. PICK n \in DOMAIN outbox : outbox[n].item.id = id /\ item = outbox[n].item
    BY DEF Queued
  <2>2. ASSUME n \in kept PROVE item \in Queued(id)'
    BY <1>4, <2>1, <2>2 DEF Queued
  <2>3. QED BY <2>1, <2>2
<1>11. QED BY <1>8, <1>9, <1>10

\* A request that is answered.
LEMMA AnsweredOK ==
    ASSUME StoreIInv, TypeOK', Push
    PROVE  StoreIInv'
<1> DEFINE answers == Served(Request).answers
           gone == {Request[k] : k \in {j \in DOMAIN Request : answers[j] = "accepted"}}
           kept == {n \in DOMAIN outbox : outbox[n].item \notin gone}
<1>1. PICK table : table = Served(Request).table
  OBVIOUS
<1>2. /\ UNCHANGED <<workers, records>> /\ server' = table
      /\ sent' = sent \cup ToSet(Request) /\ outbox' = InOrder(outbox, kept)
  BY <1>1 DEF Push, Unsent
<1>3. /\ OutboxOK /\ DOMAIN Request = 1..Sending /\ TableOK(table) /\ Grows(server, table)
      /\ \A k \in DOMAIN Request : Settled(table, Request[k])
  BY <1>1, RequestServed DEF StoreIInv
<1>4. \A item \in ToSet(Request) : Genuine(item)
  BY <1>3, RequestIsFirst DEF ToSet
<1>5. \A item \in sent' : Genuine(item)
  BY <1>2, <1>4 DEF StoreIInv
<1>6. \A n \in DOMAIN outbox \ kept : Settled(table, outbox[n].item)
  BY <1>3
<1>7. kept \in SUBSET DOMAIN outbox
  OBVIOUS
<1> HIDE DEF kept
<1>8. /\ OutboxOK'
      /\ \A id : Queued(id)' \subseteq Queued(id)
      /\ \A id : \A item \in Queued(id) :
            item \in Queued(id)' \/ \E n \in DOMAIN outbox \ kept : outbox[n].item = item
  BY <1>2, <1>3, <1>7, OutboxLeft
<1>9. \A id : \A item \in Queued(id) : item \in Queued(id)' \/ Settled(table, item)
  BY <1>6, <1>8
<1>10. QED BY <1>2, <1>3, <1>5, <1>8, <1>9, ServerMoves

\* A request that is lost, or late.
LEMMA LostOK ==
    ASSUME StoreIInv, TypeOK', PushLost
    PROVE  StoreIInv'
<1>1. PICK table : table = server
  OBVIOUS
<1>2. UNCHANGED <<workers, records>> /\ server' = table /\ outbox' = outbox /\ sent' = sent \cup ToSet(Request)
  BY <1>1 DEF PushLost
<1>3. OutboxOK /\ TableOK(table) /\ Grows(server, table)
  BY <1>1, GrowsNone DEF StoreIInv
<1>4. DOMAIN Request = 1..Sending
  BY RequestServed
<1>5. \A item \in sent' : Genuine(item)
  BY <1>2, <1>3, <1>4, RequestIsFirst DEF StoreIInv, ToSet
<1>6. OutboxOK' /\ \A id : Queued(id)' = Queued(id)
  BY <1>2, <1>3 DEF OutboxOK, Genuine, Queued
<1>7. QED BY <1>2, <1>3, <1>5, <1>6, ServerMoves

\* A request that is served late.
LEMMA LateOK ==
    ASSUME StoreIInv, TypeOK', ServeLate
    PROVE  StoreIInv'
<1>1. PICK item \in sent : server' = Served(<<item>>).table
  BY DEF ServeLate
<1>2. PICK table : table = Served(<<item>>).table
  OBVIOUS
<1>3. UNCHANGED <<workers, records>> /\ server' = table /\ outbox' = outbox /\ sent' = sent
  BY <1>1, <1>2 DEF ServeLate
<1>4. OutboxOK /\ \A i \in sent : Genuine(i)
  BY DEF StoreIInv
<1>5. TableOK(table) /\ Grows(server, table)
  BY <1>2, <1>4, LateServed
<1>6. OutboxOK' /\ \A id : Queued(id)' = Queued(id)
  BY <1>3, <1>4 DEF OutboxOK, Genuine, Queued
<1>7. QED BY <1>3, <1>4, <1>5, <1>6, ServerMoves

\* Every step of the store.
LEMMA StoreStep == StoreIInv /\ [Next]_vars => StoreIInv'
<1> SUFFICES ASSUME StoreIInv, [Next]_vars PROVE StoreIInv'
  OBVIOUS
<1>1. TypeOK /\ TypeOK'
  BY TypeStep DEF StoreIInv
<1>2. ASSUME NEW w \in Workers, NEW name \in Names, NEW lang \in Langs, createWorker(w, name, lang)
      PROVE  StoreIInv'
  <2> DEFINE row == [displayName |-> name, preferredLang |-> lang, updatedAt |-> clock, deletedAt |-> None]
  <2>1. row \in WorkerType
    BY <1>1 DEF TypeOK, WorkerType
  <2>2. StoreWorker(w, row) /\ workers[w] = None
    BY <1>2 DEF createWorker
  <2> HIDE DEF row
  <2>3. QED BY <1>1, <2>1, <2>2, NewerStored
<1>3. ASSUME NEW w \in Workers, Active(w)
      PROVE  /\ workers[w] \in WorkerType /\ nextUpdatedAt(workers[w].updatedAt) \in Int
             /\ nextUpdatedAt(workers[w].updatedAt) > workers[w].updatedAt
  <2>1. workers[w] \in WorkerType
    BY <1>1, <1>3 DEF TypeOK, Active
  <2>2. QED BY <1>1, <2>1 DEF TypeOK, WorkerType, nextUpdatedAt
<1>4. ASSUME NEW w \in Workers, NEW name \in Names, NEW lang \in Langs, updateWorker(w, name, lang)
      PROVE  StoreIInv'
  <2> DEFINE row == [workers[w] EXCEPT !.displayName = name, !.preferredLang = lang,
                                       !.updatedAt = nextUpdatedAt(@)]
  <2>1. Active(w) /\ StoreWorker(w, row)
    BY <1>4 DEF updateWorker
  <2>2. row \in WorkerType /\ row.updatedAt > workers[w].updatedAt
    BY <1>3, <2>1 DEF WorkerType
  <2> HIDE DEF row
  <2>3. QED BY <1>1, <2>1, <2>2, NewerStored
<1>5. ASSUME NEW w \in Workers, deleteWorker(w) PROVE StoreIInv'
  <2> DEFINE at == nextUpdatedAt(workers[w].updatedAt)
             row == [workers[w] EXCEPT !.updatedAt = at, !.deletedAt = at]
  <2>1. Active(w) /\ StoreWorker(w, row)
    BY <1>5 DEF deleteWorker
  <2>2. at \in Int /\ workers[w] \in WorkerType /\ at > workers[w].updatedAt
    BY <1>3, <2>1
  <2> HIDE DEF at
  <2>3. row \in WorkerType /\ row.updatedAt > workers[w].updatedAt
    BY <2>2 DEF WorkerType
  <2> HIDE DEF row
  <2>4. QED BY <1>1, <2>1, <2>3, NewerStored
<1>6. ASSUME NEW w \in Workers, NEW id \in Records, SaveRecord(id, w) PROVE StoreIInv'
  BY <1>1, <1>6, RecordMade
<1>7. ASSUME UNCHANGED <<workers, records, outbox, server, sent>> PROVE StoreIInv'
  <2>1. PICK table : table = server
    OBVIOUS
  <2>2. TableOK(table) /\ Grows(server, table) /\ OutboxOK /\ \A item \in sent : Genuine(item)
    BY <2>1, GrowsNone DEF StoreIInv
  <2>3. OutboxOK' /\ \A id : Queued(id)' = Queued(id)
    BY <1>7, <2>2 DEF OutboxOK, Genuine, Queued
  <2>4. QED BY <1>1, <1>7, <2>1, <2>2, <2>3, ServerMoves
<1>8. CASE Push
  BY <1>1, <1>8, AnsweredOK
<1>9. CASE PushLost
  BY <1>1, <1>9, LostOK
<1>10. CASE ServeLate
  BY <1>1, <1>10, LateOK
<1>11. QED BY <1>2, <1>4, <1>5, <1>6, <1>7, <1>8, <1>9, <1>10 DEF Next, SetClock, vars

\* The phone is set up.
LEMMA StoreStart == Init => StoreIInv
<1> SUFFICES ASSUME Init PROVE StoreIInv
  OBVIOUS
<1>1. TypeOK
  BY DEF Init, TypeOK
<1>2. TableOK(server)
  BY DEF Init, TableOK
<1>3. OutboxOK
  BY DEF Init, OutboxOK
<1>4. /\ \A item \in sent : Genuine(item)
      /\ \A id \in Records : records[id] # None => workers[records[id].worker] # None
      /\ NewestIsThereOrQueued /\ RecordsAreThereOrQueued
  BY DEF Init, NewestIsThereOrQueued, RecordsAreThereOrQueued
<1>5. QED BY <1>1, <1>2, <1>3, <1>4 DEF StoreIInv

\* What is queued, sent or stored at the server was made on the phone, a worker is made
\* before his records, and his newest copy and every record are there or queued: in every
\* order of edits, clocks that are set, requests that are lost, and requests served late.
THEOREM StoreInvariant == Spec => []StoreIInv
<1>1. QED BY StoreStart, StoreStep, PTL DEF Spec

\* What is made on the phone gets to the server: no newer copy is overtaken by an older
\* one, no record is dropped, and no item of any request is refused.
THEOREM StoreNothingIsLost == Spec => []NothingIsLost
<1>1. ASSUME StoreIInv PROVE NothingIsLost
  <2>1. NothingIsRejected
    BY <1>1, RequestServed DEF NothingIsRejected
  <2>2. QED BY <1>1, <2>1 DEF StoreIInv, NothingIsLost
<1>2. QED BY <1>1, StoreInvariant, PTL

\* So it is under the screens, in any order of touches.
THEOREM PhoneNothingIsLost == PhoneSpec => []NothingIsLost
<1>1. QED BY PhoneImplementsStore, StoreNothingIsLost DEF ImplementsStore
=============================================================================
