------------------------------- MODULE Phone -------------------------------
(***************************************************************************)
(* The app's screens over the phone's database: the stack of pages of the  *)
(* navigation, what each page has read and when it reads it again, the     *)
(* app's language, and the photos of the ID cards, which are files.        *)
(*                                                                         *)
(* Pages below the one in focus stay mounted.  A page that was just        *)
(* covered is still visible while the new one moves in, and may be touched *)
(* once more; drills, cameras and captures of covered pages go on, and a   *)
(* dialog stays open whatever happens below it.  What a drill does is      *)
(* TrainingRun, which certificates are issued Certificates: here both just *)
(* end.  Camera permissions are left out.                                  *)
(***************************************************************************)
EXTENDS LocalStore

CONSTANTS DEFAULT_LOCALE,
          MaxDepth    \* bound: of the stack of pages

VARIABLES device,    \* there is a device: the phone was set up
          stack,     \* the pages, the one in focus last
          moving,    \* the page in focus is still moving in, over the one before
          locale,    \* the app's language, kept over restarts
          photos,    \* for each worker, the times in the names of the photo files
          capture,   \* the worker whose framed photo is being captured; bound: one at a time
          asked      \* the worker whose deletion is to be confirmed in a dialog

waiting == <<capture, asked>>
screenVars == <<device, stack, moving, locale, photos, waiting>>
phoneVars == <<vars, screenVars>>

-----------------------------------------------------------------------------
(* What pages read *)

\* What there is to read.
Db == [workers |-> workers, records |-> records, pending |-> Len(outbox), photos |-> photos]

getWorker(db, w) ==
    IF db.workers[w] # None /\ db.workers[w].deletedAt = None THEN db.workers[w] ELSE None

NameOf(db, w) == IF getWorker(db, w) = None THEN None ELSE getWorker(db, w).displayName

\* The list of Home: the names of the workers, each with the language below it.
listWorkers(db) ==
    {[id |-> w, name |-> db.workers[w].displayName, lang |-> db.workers[w].preferredLang] :
        w \in {v \in Workers : getWorker(db, v) # None}}

RecordsOf(db, ids, w) == {id \in ids : db.records[id] # None /\ db.records[id].worker = w}

\* The newest by the time of issue.
latestCertificate(db, w) ==
    LET own == RecordsOf(db, Certificates, w)
    IN  IF own = {} THEN None
        ELSE CHOOSE c \in own : \A other \in own : db.records[other].createdAt <= db.records[c].createdAt

\* The newest by the time in its name.
latestPhoto(db, w) ==
    IF db.photos[w] = {} THEN None
    ELSE CHOOSE at \in db.photos[w] : \A other \in db.photos[w] : other <= at

\* What a page shows when it opens.  A drill has not ended, nothing was scanned.
Reads(page, id, db) ==
    CASE page = "home" -> [listed |-> listWorkers(db), pending |-> db.pending]
      [] page = "settings" -> db.pending
      [] page = "worker" -> [name |-> NameOf(db, id), attempts |-> RecordsOf(db, Attempts, id),
                             photo |-> db.photos[id] # {}]
      [] page = "card" -> [name |-> NameOf(db, id), photo |-> latestPhoto(db, id)]
      [] page = "certificate" -> latestCertificate(db, id)
      [] page = "photo" -> [had |-> db.photos[id] # {}, taken |-> FALSE, busy |-> FALSE]
      [] page = "result" -> id
      [] OTHER -> None

Open(page, id, db) ==
    [page |-> page,
     worker |-> IF page = "result" THEN db.records[id].worker ELSE id,
     shown |-> Reads(page, id, db)]

\* Mutant: only Home reads again.
HomeFocused(s, db) == IF s.page = "home" THEN Open(s.page, s.worker, db) ELSE s

\* A page that gets the focus reads again; the card page only its photo.
Focused(s, db) ==
    CASE s.page \in {"home", "settings", "worker"} -> Open(s.page, s.worker, db)
      [] s.page = "card" -> [s EXCEPT !.shown = [name |-> @.name, photo |-> latestPhoto(db, s.worker)]]
      [] OTHER -> s

\* A worker's page switches the app to the worker's language whenever it has read.
LocaleAfter(s, db) ==
    IF s.page = "worker" /\ getWorker(db, s.worker) # None
    THEN getWorker(db, s.worker).preferredLang ELSE locale

-----------------------------------------------------------------------------
(* Navigation *)

Top == stack[Len(stack)]

\* The pages are now these, and the last of them has got the focus.
Show(pages) ==
    LET top == Focused(pages[Len(pages)], Db')
    IN  /\ stack' = [pages EXCEPT ![Len(pages)] = top]
        /\ locale' = LocaleAfter(top, Db')

PushPage(page, id) ==
    /\ Len(stack) < MaxDepth
    /\ Show(Append(stack, Open(page, id, Db')))
    /\ moving' = TRUE

\* router.replace replaces the page in focus, whichever page calls it.
Replace(page, id) ==
    /\ Show([stack EXCEPT ![Len(stack)] = Open(page, id, Db')])
    /\ moving' = FALSE

\* The same, done by a page that may not be the one in focus and then shows this value.
ReplaceFrom(k, value, page, id) ==
    /\ Show([stack EXCEPT ![k].shown = value, ![Len(stack)] = Open(page, id, Db')])
    /\ moving' = FALSE

\* router.back leaves the page in focus, whichever page calls it; not the first one.
GoBack ==
    /\ IF Len(stack) > 1 THEN Show(Front(stack)) ELSE UNCHANGED <<stack, locale>>
    /\ moving' = FALSE

\* Mutant: deleting goes back one page, like saving.
DismissOne == GoBack

DismissAll ==
    /\ IF Len(stack) > 1 THEN Show(<<stack[1]>>) ELSE UNCHANGED <<stack, locale>>
    /\ moving' = FALSE

\* What the k-th page shows changes, and nothing else on the screen.
SetShown(k, value) ==
    /\ stack' = [stack EXCEPT ![k].shown = value]
    /\ UNCHANGED <<locale, moving>>

\* Page k has a button that can be pressed; not below a dialog.
Touched(page, k) ==
    /\ asked = None
    /\ k = Len(stack) \/ (moving /\ k = Len(stack) - 1)
    /\ stack[k].page = page

Back ==
    /\ Len(stack) > 1 /\ asked = None
    /\ UNCHANGED <<vars, device, photos, waiting>>
    /\ GoBack

Settle ==
    /\ moving
    /\ moving' = FALSE
    /\ UNCHANGED <<vars, device, stack, locale, photos, waiting>>

\* The app is ended, by Android or by hand, and started again.
Restart ==
    /\ stack' = <<Open(IF device THEN "home" ELSE "setup", None, Db)>>
    /\ moving' = FALSE
    /\ capture' = None /\ asked' = None
    /\ UNCHANGED <<vars, device, locale, photos>>

-----------------------------------------------------------------------------
(* Home and the pages of no worker *)

SetUp(k) ==
    /\ Touched("setup", k)
    /\ device' = TRUE
    /\ UNCHANGED <<vars, photos, waiting>>
    /\ Replace("home", None)

OpenFromHome(k) ==
    /\ Touched("home", k)
    /\ UNCHANGED <<vars, device, photos, waiting>>
    /\ \/ \E page \in {"enrol", "verify", "settings"} : PushPage(page, None)
       \/ stack[k].shown.listed # {} /\ PushPage("scan", None)
       \/ \E row \in stack[k].shown.listed : PushPage("worker", row.id)

SwitchAppLanguage(k) ==
    /\ Touched("home", k) \/ Touched("settings", k)
    /\ \E lang \in Langs : locale' = lang
    /\ UNCHANGED <<vars, device, stack, moving, photos, waiting>>

Enrol(k) ==
    /\ Touched("enrol", k)
    /\ \E w \in Workers, name \in Names, lang \in Langs :
          createWorker(w, name, lang) /\ UNCHANGED <<device, photos, waiting>> /\ Replace("worker", w)

\* The cameras of the scan and verify pages see a code, and no other until "again",
\* which a scan page that has found a worker does not offer.
ScanCard(k) ==
    /\ stack[k].page = "scan" /\ stack[k].shown = None
    /\ UNCHANGED <<vars, device, photos, waiting>>
    /\ \/ \E w \in Workers : getWorker(Db, w) # None /\ ReplaceFrom(k, "found", "worker", w)
       \/ SetShown(k, "problem")

VerifyCertificate(k) ==
    /\ stack[k].page = "verify" /\ stack[k].shown = None
    /\ SetShown(k, "verdict")
    /\ UNCHANGED <<vars, device, photos, waiting>>

ScanAgain(k) ==
    /\ Touched("scan", k) \/ Touched("verify", k)
    /\ stack[k].shown \in {"problem", "verdict"}
    /\ SetShown(k, None)
    /\ UNCHANGED <<vars, device, photos, waiting>>

-----------------------------------------------------------------------------
(* The pages of a worker *)

\* A worker who is gone leaves an empty page.
OpenFromWorker(k) ==
    /\ Touched("worker", k)
    /\ stack[k].shown.name # None
    /\ UNCHANGED <<vars, device, photos, waiting>>
    /\ \/ \E page \in {"train", "certificate", "edit", "card", "photo"} : PushPage(page, stack[k].worker)
       \/ \E a \in stack[k].shown.attempts : PushPage("result", a)

\* An edit, or nothing when nothing changes or the worker is gone.
Update(w, name, lang) ==
    IF Active(w) /\ (workers[w].displayName # name \/ workers[w].preferredLang # lang)
    THEN updateWorker(w, name, lang) ELSE UNCHANGED vars

SwitchWorkerLanguage(k) ==
    /\ Touched("worker", k)
    /\ stack[k].shown.name # None
    /\ \E lang \in Langs :
          /\ locale' = lang
          /\ LET w == stack[k].worker IN Update(w, workers[w].displayName, lang)
    /\ UNCHANGED <<device, stack, moving, photos, waiting>>

SaveEdit(k) ==
    /\ Touched("edit", k)
    /\ \E name \in Names, lang \in Langs : Update(stack[k].worker, name, lang)
    /\ UNCHANGED <<device, photos, waiting>>
    /\ GoBack

AskDelete(k) ==
    /\ Touched("edit", k)
    /\ asked' = stack[k].worker
    /\ UNCHANGED <<vars, device, stack, moving, locale, photos, capture>>

CancelDelete ==
    /\ asked # None
    /\ asked' = None
    /\ UNCHANGED <<vars, device, stack, moving, locale, photos, capture>>

\* "Back to Home: the worker page underneath would show a deleted worker".  A button that
\* was pressed twice asks twice.
ConfirmDelete ==
    /\ asked # None
    /\ IF Active(asked) THEN deleteWorker(asked) ELSE UNCHANGED vars
    /\ asked' \in {None, asked}
    /\ UNCHANGED <<device, photos, capture>>
    /\ DismissAll

\* The drill of a train page ends, in focus or not, and is stored once.
FinishDrill(k) ==
    /\ stack[k].page = "train" /\ stack[k].shown = None
    /\ \E a \in Attempts :
          /\ StoreRecord(a, stack[k].worker)
          /\ UNCHANGED <<device, photos, waiting>>
          /\ ReplaceFrom(k, a, "result", a)

LeaveResult(k) ==
    /\ Touched("result", k)
    /\ UNCHANGED <<vars, device, photos, waiting>>
    /\ \E page \in {"train", "worker"} : Replace(page, stack[k].worker)

\* A certificate that is not issued changes nothing.
Issue(k) ==
    /\ Touched("certificate", k)
    /\ RecordsOf(Db, Attempts, stack[k].worker) # {}
    /\ \E c \in Certificates : StoreRecord(c, stack[k].worker) /\ SetShown(k, c)
    /\ UNCHANGED <<device, photos, waiting>>

-----------------------------------------------------------------------------
(* Photos *)

TakePhoto(k) ==
    /\ Touched("photo", k)
    /\ ~stack[k].shown.busy
    /\ SetShown(k, [stack[k].shown EXCEPT !.taken = ~@])
    /\ UNCHANGED <<vars, device, photos, waiting>>

RemovePhoto(k) ==
    /\ Touched("photo", k)
    /\ stack[k].shown.had /\ ~stack[k].shown.busy
    /\ photos' = [photos EXCEPT ![stack[k].worker] = {}]
    /\ UNCHANGED <<vars, device, waiting>>
    /\ GoBack

KeepPhoto(k) ==
    /\ Touched("photo", k)
    /\ stack[k].shown.taken /\ ~stack[k].shown.busy
    /\ capture = None
    /\ SetShown(k, [stack[k].shown EXCEPT !.busy = TRUE])
    /\ capture' = stack[k].worker
    /\ UNCHANGED <<vars, device, photos, asked>>

\* The capture is there: the photo is kept, the older ones deleted, and the page in
\* focus left, which need not be the photo page any more.
PhotoCaptured ==
    /\ capture # None
    /\ capture' = None
    /\ photos' = [photos EXCEPT ![capture] = {clock}]
    /\ UNCHANGED <<vars, device, asked>>
    /\ GoBack

\* The app ends after the photo was moved to its place and before the older ones are deleted.
KilledWhileKeeping ==
    /\ capture # None
    /\ capture' = None /\ asked' = None
    /\ photos' = [photos EXCEPT ![capture] = @ \cup {clock}]
    /\ stack' = <<Open("home", None, Db)>>
    /\ moving' = FALSE
    /\ UNCHANGED <<vars, device, locale>>

CaptureFailed ==
    /\ capture # None
    /\ capture' = None
    /\ stack' = [k \in DOMAIN stack |->
                    IF stack[k].page = "photo" /\ stack[k].worker = capture
                    THEN [stack[k] EXCEPT !.shown = [@ EXCEPT !.busy = FALSE]] ELSE stack[k]]
    /\ UNCHANGED <<vars, device, moving, locale, photos, asked>>

-----------------------------------------------------------------------------
PhoneInit ==
    /\ Init
    /\ device = FALSE
    /\ photos = [w \in Workers |-> {}]
    /\ stack = <<Open("setup", None, Db)>>
    /\ moving = FALSE
    /\ locale = DEFAULT_LOCALE
    /\ capture = None /\ asked = None

PageStep(k) ==
    \/ SetUp(k) \/ OpenFromHome(k) \/ SwitchAppLanguage(k) \/ Enrol(k)
    \/ ScanCard(k) \/ VerifyCertificate(k) \/ ScanAgain(k)
    \/ OpenFromWorker(k) \/ SwitchWorkerLanguage(k) \/ SaveEdit(k) \/ AskDelete(k)
    \/ FinishDrill(k) \/ LeaveResult(k) \/ Issue(k)
    \/ TakePhoto(k) \/ RemovePhoto(k) \/ KeepPhoto(k)

PhoneNext ==
    \/ \E k \in DOMAIN stack : PageStep(k)
    \/ CancelDelete \/ ConfirmDelete
    \/ PhotoCaptured \/ KilledWhileKeeping \/ CaptureFailed
    \/ \E now \in 1..MaxClock : SetClock(now) /\ UNCHANGED screenVars
    \/ Back \/ Settle \/ Restart

PhoneSpec == PhoneInit /\ [][PhoneNext]_phoneVars

-----------------------------------------------------------------------------
(* Properties *)

\* No page of a deleted worker is left anywhere in the stack, whatever was pressed twice
\* or finished late: no drill, certificate, card or form of that worker can be gone on with.
DeletedAreGone == \A k \in DOMAIN stack : stack[k].worker # None => Active(stack[k].worker)

\* A page of a worker has one who is there; what Home and a worker's page list is there.
WorkerPages == {"worker", "train", "certificate", "edit", "card", "photo", "result"}

Alive(s, db) ==
    /\ s = [page |-> s.page, worker |-> s.worker, shown |-> s.shown]
    /\ IF s.page \in WorkerPages
       THEN s.worker \in Workers /\ getWorker(db, s.worker) # None ELSE s.worker = None
    /\ s.page = "home" => \A row \in s.shown.listed : row.id \in Workers /\ getWorker(db, row.id) # None
    /\ s.page = "worker" => s.shown.attempts \subseteq RecordsOf(db, Attempts, s.worker)

\* Home is the first page and no other, and before the phone is set up the only one is that;
\* the pages that a worker's page leads to are above one.
PagesOverWorkers == WorkerPages \ {"worker"}

StackOK(pages, db) ==
    /\ pages \in Seq(Range(pages)) /\ Len(pages) > 0
    /\ pages[1].page \in {"home", "setup"}
    /\ Len(pages) > 1 => pages[1].page = "home"
    /\ \A k \in 2..Len(pages) : pages[k].page \notin {"home", "setup"}
    /\ Len(pages) > 1 => pages[2].page \notin PagesOverWorkers
    /\ \A k \in 1..Len(pages) : Alive(pages[k], db)

\* Home, a worker's page and the photo of a card are up to date whenever they are in focus,
\* though they are read only when they get it.  (The count on the settings page is not: a
\* worker's page it is covering may still be touched.)
FocusShowsStored ==
    /\ Top.page \in {"home", "worker"} => Top.shown = Reads(Top.page, Top.worker, Db)
    /\ Top.page = "card" => Top.shown.photo = latestPhoto(Db, Top.worker)

\* Whose deletion is asked for and not yet done, there is a page to dismiss, also if a
\* capture takes one away.
DialogOK ==
    asked # None =>
       /\ asked \in Workers
       /\ Active(asked) => Len(stack) > (IF capture = None THEN 1 ELSE 2)

\* The inductive invariant that these rest on.
IInv == TypeOK /\ StackOK(stack, Db) /\ FocusShowsStored /\ DialogOK

\* A worker's page that comes into focus has the app in that worker's language.
WorkerLanguage ==
    (Len(stack') # Len(stack) \/ Top' # Top) /\ Top'.page = "worker" =>
       locale' = workers'[Top'.worker].preferredLang

LanguageFollowsWorker == [][WorkerLanguage]_phoneVars

\* The screens do with the database only what LocalStore promises: above all, they never
\* store a drill or a certificate of a deleted worker, which no statement would refuse.
ImplementsStore == Spec
=============================================================================
