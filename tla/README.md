# Suraksha Saathi in TLA+

Suraksha Saathi trains mine and plant workers in safety drills on a phone (`mobile/`), scores
each drill offline, issues signed certificates, and syncs to a FastAPI backend (`backend/`) with
an admin dashboard (`dashboard/`) and a public verify page. This directory holds TLA+
specifications of its logic, the TLC configurations that check them, and TLAPS proofs.

## The system: parts, state, operations, hazards

| part | state | operations | what is hard, and what makes it correct |
|---|---|---|---|
| **Revocation** (`backend/app/services/revocations.py`, `api/v1/admin/certificates.py`, `api/v1/public.py`) | `certificates.revoked_*`, `revocation_lists` (serial id, signed set of ids) | revoke, get list, verify | Requests are concurrent transactions under READ COMMITTED and may fail at any step. List and revocation must be atomic, lists true, the newest list complete, a second revoke harmless. |
| **ScenarioSession** (`mobile/src/core/player/session.ts`) | step index, event log, pin, lever, hold counters | start, complete, choose, arrive, samples, pin, lever, skip, abort, reposition | A long sequence of calls must always leave a log that reads as a run. |
| **Assessment** (`mobile/src/core/assessment/`) | none (pure) | evaluate | Skips must not earn points; forbidden acts and critical rules decide; rounding. |
| **Recheck** (`backend/app/services/scoring.py`) | none (pure) | recheck_attempt | Written separately, without events: must agree with the app on honest attempts. |
| **TrainingRun** (`mobile/src/training/TrainingRun.tsx`) | the session, refs and React state, the stored attempt | taps, scans, timers, audio callback, render effects | Callbacks run against a session that has moved on since the screen was drawn; double taps; an attempt must be stored once, whole; a drill must never get stuck. |
| **Extinguisher simulation** (`core/player/extinguisher.ts`) | fire, discharge, outcome | tick | Ends in one of four outcomes; interleaves with lever, pin and skip. |
| **Sync ingest** (`backend/app/services/sync_service.py`) | workers, attempts, certificates | a batch of items | Overlapping and repeated batches, last write wins, immutability, items before their worker, rejections that a later clock or catalog would not make. |
| **Admin views** (`backend/app/api/v1/admin/`, `services/compliance.py`, `admin_auth.py`; `dashboard/src/api/`, lists) | read-only; the page and the count that the dashboard shows | overview, sites, heatmap, retention, recertification, lists, details, export | Several statements of different moments in one answer; count, page and next page; a supervisor's scope kept in four ways; retries. |
| **Local store and outbox** (`mobile/src/db/`) | SQLite rows, outbox | create, edit, delete, save | Row and outbox entry together; strictly increasing `updatedAt`. The client that sends the outbox is not in the repository yet. |
| **App screens** (`mobile/src/app/`, `mobile/src/workers/`) | the stack of pages and what each has read, the app's language, photo files, the deletion dialog | open, go back, enrol, edit, delete, scan, store a drill, issue, take a photo, end and start again | Covered pages stay mounted, may be touched once more and finish what they began; `replace` and `back` act on the page in focus, whoever calls them. No page of a deleted worker may stay, and pages in focus must show what is stored. |
| **Devices** (`backend/app/api/v1/devices.py`, `admin/devices.py`, `services/device_auth.py`, `attestation.py`, `api/rate_limit.py`; `mobile/src/device/identity.ts`) | device row and status, rate-limit windows, device seed | register, approve, authenticate | Retried and concurrent registration, a status tested in an earlier step than it is overwritten, window limits, a crash between seed and row. |
| **Certificates** (`mobile/src/certificates/`, `core/certificates/`, `backend/app/crypto/`, `dashboard/src/lib/cert/`) | certificate rows, the attestation on the phone and at the server | issue, verify (three implementations), push, revoke | Order of the verification steps, expiry and attestation boundaries, a phone clock that is wrong, agreement of three implementations. |
| **Certificate status** (`backend/app/services/cert_status.py`, `compliance.py`) | none (pure) | status in Python and SQL, worker's status, who is due | The same second must count the same everywhere. |
| **Refresher** (`mobile/src/core/refresher/`, `backend/app/services/refresher.py`) | none (pure) | due stage, derived scenario | Boundaries of due days; app and backend must derive the same scenario. |
| **Scenario loader and catalog** (`mobile/src/core/scenarios/load.ts`, `backend/app/services/content.py`) | the scenario files | validate, defaults, variants | A file that loads must be playable in every variant and as a refresher, also if a rule has params that its type does not use; the server reads the same file without validating it. |
| **Verify page** (`dashboard/src/pages/verify/`) | cached list, the check shown | verify, store list | Late answers of older checks; read-verify-write of the cache. |
| **Dashboard sign-in, AR geometry and sensors, card drawing, speech, dashboard pages, crypto primitives, tools** | – | – | Not modelled; reasons under "Not modelled". |

They interact as follows. A drill (TrainingRun) drives a session with direct calls, scores its
log with the assessment engine when it is over and stores the result with an outbox entry in one
SQLite transaction; the screens start it from a worker's page and show its result. The outbox is meant for `POST /v1/sync`, which rechecks each attempt before
storing it. Certificates are issued on the phone from passed attempts and sent the same way;
the dashboard revokes them; phones, the verify page and the server check tokens against the newest
signed revocation list.

## Modules

| module | models |
|---|---|
| `Revocation` | the two revocation requests as database transactions; the properties and the inductive invariant |
| `Scenarios` | `parseScenario`: which scenario files load, and their steps, rules and variants |
| `Drills` | the drills of the app: each file that loads, in full and as its refresher (`derive.ts`) |
| `Catalog` | the server's reading of the same files and its own derivation of the refresher |
| `Session` | `ScenarioSession`: each method is an operator from session to session (extends `Drills`) |
| `Assessment` | `evaluate` on a log |
| `Recheck` | the server's `recheck_attempt` on what `Evaluate` reports, with the `Catalog`'s scenario |
| `Attempt` | what a drill promises to those who read the attempt: the abstract specification |
| `TrainingRun` | the state machine that composes all of these: screen, session, storage, recheck; implements `Attempt` |
| `Ledger` | what `POST /v1/sync` promises: a table that one batch at a time is applied to |
| `Sync` | the same request as concurrent transactions; the properties relate it to `Ledger` |
| `AdminViews` | the dashboard's requests for what is in those tables, statement by statement, beside `Sync` |
| `LocalStore` | the phone's tables and outbox, an external client and network, and the ledger at the other end |
| `Phone` | the app's screens over these tables: navigation, what pages read and when, photos; implements `LocalStore` |
| `VerifyPage` | checks on the public verify page, from await to await, and the list they share |
| `Devices` | the identity of one phone: its seed, registration, the rate limiter, approval, signed requests |
| `Tokens` | signed tokens as values: body, signer, canonical form, form of the numbers |
| `AppTokens`, `ServerTokens`, `DashboardTokens` | issuing and verifying in the app, the backend and the dashboard, each from its own source |
| `CertStatus`, `Refresher` | the status of certificates and workers; the refresher schedule and the retention stages |
| `Certificates` | the state machine that composes these four: attempts, attestations, issuing, push, revocation, clocks |
| `Sublists` | what a filter keeps of a list, in order (used by `Scenarios`, `AdminViews` and `LocalStore`) |
| `MC...` | the TLC instances: `MCRevocation` (three configurations), `MCTrainingRun` (two), `MCSync` and `MCAdminViews` (the batches, and the same with the views), `MCPhone` (the database under a client, and under the screens), `MCVerifyPage` (two), `MCDevices`, `MCCertificates` |
| `RevocationProofs`, `ServerProofs` (`Sync` and `AdminViews`), `DevicesProofs`, `VerifyPageProofs`, `TrainingRunProofs`, `CertificatesProofs`, `PhoneProofs` (`LocalStore` and `Phone`) | theorems about these modules and their TLAPS proofs |
| `LedgerProofs` | what the last two of these share: ranks in a list, and `Ledger!Ingest` item by item |

### Revocation

A request is a process: `Begin` opens the session of `get_session`; `ReadCertificate` is
`session.get` and the early return of `revoke_certificate`; `UpdateCertificate` is the first
`flush`, which takes the row lock; `SelectRevoked`, `InsertList` are the two halves of
`publish_revocation_list`; `Commit` makes both writes visible at once; `Fail` rolls back from any
step. `ReadNewestList` is `GET /revocations`, which signs a first list if there is none. The
isolation is that of PostgreSQL's default, READ COMMITTED: `Visible` is what other transactions have
committed plus the transaction's own write. Lookups that end in 404, and the authorization of the
administrator, change nothing and are left out. A row's reason, time and user all come from its
request, so `revoked` holds the request. `overlapped` is a history variable: which requests were ever
in flight together with another.

### The drill

`Scenarios` keeps a raw scenario file as the record of the JSON it is, as far as `parseScenario` in `load.ts` tests what
a drill depends on: `Problems` are what it finds, and a file loads if there are none (`Loaded`). A rule's params are
checked as its type uses them (`StepParams`): a `no_forbidden` rule may have a `step` that the file does not have.
`Drills` gives every file that loads in the form that is played, in full and shortened to its refresher, variants
substituted; there every `step`, `before` and `after` counts, whatever the rule's type (`StepRefs`), as in `derive.ts` and
`engine.ts`. `Catalog` is the server's side: it reads the same raw file, ignores what it does not know and derives
the refresher with a loop of its own. A launch picks the file, training or refresher, and the mode; the variant is any of the file's.

`Session` keeps a session as a record, with the scenario its constructor was given, so that a handler
which makes several calls is their composition. Steps are named by position; a step, an option and a rule keep only the fields some
operator reads. Two scales are changed: time is counted in units of the least time between two handlers
(equal times then occur only within one handler, as in the code), and samples are counted instead of
seconds of 0.25. The session's clock is monotonic, so sorting the log by time leaves it as it is.

`TrainingRun` separates the session from the screen (`screen.step` is the step that is drawn):
handlers change the session at once, `Render` draws later. Every handler's guard is split the way the
code splits it: `Drawn` is whether its button is on the screen, `Answers` and `DrawnIsCurrent` are the
handler's own checks against `session.current()`. Calls that throw in `require()` have no effect and
are not actions. `Render` includes what the effects of a new step reset, and the effect that scores
and stores. What geometry decides (the zone under the reticle, whether the exit is behind the worker,
how far the cones are off) is a free input. The simulated fire may end in any outcome the tick can
produce for the zone, the agent and the amount sprayed; its size in numbers is not modelled, and scoring
never reads it. "Skip step" is offered after 30 s without progress; those may have passed in any state.
`handledScan` never decides anything, because a reached marker always advances the step. Leaving the app
in the middle of a drill loses it by design: nothing is written before the end.

`Attempt` says what the phone, the certificate and the server rely on: a log that only grows, with entries of the
step that is being answered, is closed once and stored once and whole. `TrainingRun!IsAnAttempt` is the
refinement: `log <- session.events`, `at <- session.index`, `over <- session.done`, `kept <-` the stored logs. A
step of the screen alone is a stutter.

`Assessment` is a function of scenario, variant and log, one operator per rule type;
`RoundPercent` and `ScorePercent` keep the different integer and rational forms of the two sides.
Feedback keys are wording and left out.

### Sync

`Ledger` is the reference: `Ingest` folds `Apply` over a batch, one item at a time, each written whole. `Sync`
is the code. Per item, `ReadItem` is the first `session.get` of a handler and what it decides,
`ReadParent` the second one (the worker of a new record), `Flush` the flush. A flush locks its row until the
end of the transaction. Two things the mapper does matter and are modelled: an update writes only the columns
whose value differs from the row that was read (`Changed`), and an insert of a key that appeared meanwhile
raises an error that is not `Rejected` (`FailOnDuplicate`), so the whole batch is rolled back. Objects that no
handler holds any more are read again. Rows that wait for each other are a deadlock, which the database breaks
(`BreakDeadlock`). `Crash` can end a request at any step; a committed answer may be lost, because
a phone may send any batch again. An item's `flaw` stands for the checks that do not look at the tables: schema, known
scenario, token. Two of them depend on more than the item (`Passing`): the deployed catalog, and the server's clock, which
a token from a phone that is ahead has to wait for. So the same item may be sent with such a flaw and, later or
earlier, without. The recheck of an attempt is in `Recheck`; its result decides nothing here.

`LocalStore` has one action per function of `db/workers.ts` that writes, and one for attempts and certificates. The
phone's clock may be set to any value. Nothing in the repository sends the outbox yet, so `Push`,
`PushLost` and `ServeLate` are external: they send in the order of `OUTBOX_KIND_ORDER` and `created_at`, lose
requests and serve them again later. `deletedAt` reaches the server and is dropped there, as docs/06
says until T-65.

### Phone

`Phone` extends `LocalStore` and uses its actions: every screen of the app with its buttons and callbacks, over the
same tables. `stack` holds the pages, each with the worker it is about and what it `shown` when it last read; `Reads`
is what a page reads when it opens, `Focused` what it reads again when it comes into focus (`useFocusEffect`; only
Home, Settings, a worker's page and, for the photo, the card do). `PushPage`, `Replace`, `GoBack` and `DismissAll` are
expo-router, which is external: `replace` and `back` act on the page in focus, whichever page calls them. A page
below stays mounted, so a drill (`FinishDrill`), a camera (`ScanCard`, `VerifyCertificate`) or a capture
(`PhotoCaptured`) of a covered page goes on; and while a page moves in (`moving`) the one it covers may be
touched once more (`Touched`), so that a double tap opens two pages. The deletion dialog (`asked`) stays open whatever
happens below it. `Restart` and `KilledWhileKeeping` are Android ending the app: the stack is lost, tables, files and
language stay. `LocaleAfter` is the effect of the worker's page that switches the app to the worker's language.

`ImplementsStore` is the refinement: seen from the tables, every step of the screens is one of `LocalStore` or none.
What is at stake is `SaveRecord`, which stores attempts and certificates only of workers who are there: the code's
`INSERT` does not ask (`StoreRecord`), so this must follow from which pages can be in the stack. A drill is
`TrainingRun`, issuing `Certificates`; here both just end.

### AdminViews

One page of the dashboard (`asked`) and its request: `Open` with the outcome of `current_admin`, one `Read` per
statement (`todo` holds those that have not run, `got` what the others read), the answer with the last one,
`Retry` after a 500 as the dashboard's query client does, and `NextPage` as long as `page` and the last `total` say
there is one. Every endpoint is the sequence of its statements (`Overview` ... `ListCertificates`). A statement sees
what is committed, as `Sync`'s requests do; `ServerNext` interleaves both. `heatmap` looks the
worker of each attempt up among the workers it read, and `overview` and `recertDue` those who are due
(`recert_due`; by the dates any whose certificates were read may be), and fail if one is not there. A supervisor's scope is in the WHERE of
`ScopedWorkers`, in the join of `ScopedRecords`, in `CanSeeSite` after a `get`, and in the lookup by workers read
(`OfWorkers`). Filters of the lists, averages and rankings are left out: no row is added or kept out by them
that scope and order do not already decide.

### Devices

`StoreSeed`, `InsertDeviceRow` and `PhoneDies` are `createDevice` and a phone that is cut off between its two writes.
A request is a process as in `Sync`: it begins (the limiter for a registration, role and token for an approval, the
whole of `device_auth` for a signed call), reads the row, and commits at a later step. The insert meets the primary
key, the update of an approval names only the columns whose values differ from those read. Nothing in the
repository revokes a device, so `RevokeDevice` is the database's administrator. `admitted` and `overlapped` are
history variables.

### Certificates

A token is its body, its signer, whether its bytes are canonical, and the form its numbers are written in, which is
all that the verifiers tell apart (`Tokens`). `AppTokens`, `ServerTokens` and `DashboardTokens` are translated one by
one, in each source's own order of checks. `Certificates` is one worker, phone and site with the server's clock
and the phone's, which is off and may be changed: `Finish` an attempt, `Approve` and `StoreAttestation`, `Issue`
(with the demo build's self-attestation, and saved only if this build verifies it), `Push`, `Revoke`.
`VerifiersAgree` also tries what a smudge, a foreign signer or another build make of each certificate
(`Variants`). `CertStatus` and `Refresher` are evaluated in every state, so that status and due stages are compared
at every second of a certificate's life.

### VerifyPage

A check is one call of `verify()`, a process with a step per `await`: `ShowFirst` after the offline check,
`ServeList` when the list arrives, `ReadCache` and `KeepList` on both sides of the signature check in
`storeRevocations`, `ShowAgain`, `ServeVerify`, `ShowOnline`; `FailOnline` is the `catch`. `job` holds the
call's local variables, `cache` is `localStorage`, shared by tabs. The server publishes lists one after another, and nothing
is assumed of what they name or when they were signed: requests that overlap publish a list that leaves out what the one
before it names (`Revocation`, run `revocation_list`). A build without a root key shows only the server's answer. What a
token's signatures and dates say does not change during a check and is left out.

## Runs

| run | question | result |
|---|---|---|
| `revocation` | Every interleaving and failure of three revoke requests and one fetch over two certificates, with fairness | pass; about 200,000 states |
| `revocation_list` | Does the newest list name every revoked certificate? (docs/06, D-023) | **violated** |
| `revoke_twice` | Does revoking twice change nothing? (docstring) | **violated** |
| `drill` | Every order of taps, scans, timers and renders in five scenarios, in full and as refreshers, through storage and recheck, with fairness | pass; about 230,000 states |
| `drill_late` | Is the overlay placed before later steps? (D-033) | **violated** |
| `sync` | Three requests with any of four batches, in every interleaving and with every failure, or two with a page of the dashboard, with fairness | pass; about 240,000 states |
| `sync_last_write` | Does the newest accepted copy of a worker win? (docs/05, comment) | **violated** |
| `outbox` | Is the phone's newest copy always at the server or queued to win? And do the screens, in every order of touches, captures, ends and restarts, keep to what the database promises? | pass; about 260,000 states |
| `verify_page` | Two checks of two certificates or three of one, with any lists, failures and blocked storage | pass; about 2,800,000 states |
| `verify_cache` | Does a newer list always replace an older one? (comment) | **violated** |
| `devices` | One phone's identity and three requests about its device, with revocation, restarts and a clock | pass; about 1,900,000 states |
| `certificates` | A certificate from its attempts to its end, with a wrong phone clock and three builds | pass; about 410,000 states |

`revocation` shows that a revocation and the list naming it appear together (`RevokedIsListed`), that no
kept list is false (`NoFalseRevocation`), that a request that overlapped with none leaves a complete
newest list (`SoloPublishHeals`), that a REVOKED verdict and a recorded reason can change only after an
overlap (`VerdictStable`, `SequentialRevokeKeepsReason`), and that no request waits forever
(`RequestsFinish`). The two violated runs are the other side: with an overlap, the newest list can miss
a certificate, and a double click can replace the reason.

`drill` checks that a file that loads can be played as it says (`LoadedIsPlayable`; two files in the instance must
not load), the log (`LogIsARun`, `ExtinguishedForReal`, `AnswersTheStepDrawn`), the refinement of `Attempt`
(`IsAnAttempt`), the verdict (`PassedMeansSafe`, `RepositionIsNeutral`), that the server, with its own reading of
the file and its own refresher, finds nothing to flag in what the app scored (`ServerAgrees`), and that every
drill ends and is stored (`EveryDrillIsStored`). `ServerAgrees` is about files that both read alike (`ReadAlike`), which
is what the loader leaves open; without it TLC finds an honest attempt that is flagged. A critical `no_forbidden` rule with
a stray `step` that the file does not have loads (`load.ts:361`); `derive.ts` keeps that name with the steps, and so the rule,
while `refresher.py` (line 49) keeps names of steps alone and drops it, although both say that the two derive the same
(`derive.ts:4`, `refresher.py:6`). The refresher is then scored on two sets of rules. The
other exception is an empty list of variants, with which the app leaves a rule out everywhere and the server
counts it everywhere. No shipped file has either. `drill_late` shows the one
handler without a guard: Continue. A tap just after the audio ended, before the screen is drawn again,
completes the placement step with no overlay; nothing drawn on the overlay can then be tapped, and those
steps can only be skipped, which fails their rules.

`sync` shows that what a phone was told is stored is stored and, for records, never changes
(`AcceptedIsStored`); that records have their worker and duplicate keys need an overlap (`IInv`); that an item
which was rejected as not retryable is accepted from nobody of the site, before or after, unless the catalog or the
clock made it pass (`OnlyPassingFlawsPass`); that lost edits
need an overlap (`OnlyOverlapLosesEdits`); that a batch which ran alone did what
`Ledger` says (`SoloBatchIsSequential`); and that batches end (`BatchesEnd`). Of the views it shows that they fail only
for workers that a batch commits while they read, once for each, so that the dashboard's retries outlast it
(`OnlyNewWorkersFailViews`); that all four ways of scoping agree (`ShownIsInScope`); and that paging to the end
misses no row, unless a worker is renamed meanwhile or a row arrives between the count and the page of one
request (`PagesMissNobody`; without either exception TLC finds a row that is missed). `sync_last_write` is the other
side of the ingest: a phone gives up a slow request, sends it again with a newer edit, and the slow one commits
last. The worker then has an older time and a mixture of columns, and the phone believes both were stored.
The exception of `OnlyPassingFlawsPass` is real as well, and without it TLC finds an item that is rejected for good and
accepted by another request: an attempt that arrives before its scenario is deployed (D-036 has such a time), or a
certificate of a phone whose clock is ahead, until the server's clock comes up to it. "Checks that can never succeed on
retry" (`sync_service.py:3`, docs/05) is not true of these two.
`outbox` shows that with requests served one after the other this cannot happen: `nextUpdatedAt` makes each edit beat
all earlier ones even if the clock is set back, requests are repeated or served late, records included, and
an honest phone is never rejected (`NothingIsLost`). Of the screens it shows that a deletion takes every page of
that worker away, however many dialogs and double touches there were (`DeletedAreGone`); that a page in focus shows
what is stored, though it was changed on other pages (`FocusShowsStored`); and that the screens implement the store
(`ImplementsStore`).

`verify_page` shows that no late answer gets into the card of a newer check (`CardIsOfOneCheck`), that a
kept list gets older only if two checks race (`OnlyRaceKeepsOlder`), and that a card's REVOKED stays (`RevokedStays`)
in all cases but two: the server has published a list that leaves the certificate out after one that names it, which
takes overlapping revocations; or a race has put an older list in the cache and the check goes on with that one. Then an
inspector sees REVOKED turn into VALID. The second takes three checks, and the attempt to prove the property without it is
what found it. `verify_cache` is the race itself: the check that fetched first writes last. Its own card is still
right, as the server's answer follows, but the next offline check uses the older list.

`devices` shows that the secret on the phone is always that of its row, that a phone which was told it is
registered stays so, and that only who holds the key learns a device's status (`IInv`); that a registration is
refused exactly when the window is full (`LimiterIsExact`); and that approval, attestation and last contact go
back only in an overlap (`OnlyOverlapGoesBack`): an approval that read the row before a revocation commits after
it and brings the device back. A retry of a registration that overlaps with the first one is answered 500, where
docs/06 promises 201; the next retry gets it.

`certificates` shows that what the phone issued verifies on every page and is taken in by the server, also
after its attestation ended or was renewed, unless the phone's clock was ahead by more than the skew; then the server
refuses it for good (`OnlyClockInvalidates`). The three verifiers give one verdict (`VerifiersAgree`), except on
numbers written as no signer writes them, where the backend is stricter than the page; the status of a row is the
same in Python, SQL and on the verify page, and the worker lists follow it (`ViewsAgree`); an offered refresher stands
until it is passed (`OfferStandsUntilPassed`).

**Bounds.** Two checks and two lists are enough for a race on the cache and for a late answer; a third
check is needed to meet the older list that such a race has kept, and `ThirdIsOfOne` explores it for one certificate. `MaxIat` 2 lets a list be of an earlier second than
the one before it, of the same or a later one. In
`sync` the batches hold every answer, an older and a newer copy of a worker, a record before its worker, an id
with two contents, and rows in opposite order. Requests are numbered in the order in which they begin, which
leaves out only other names for the same behaviour. `MaxTraffic` lets the page of the dashboard take the place
of one of them: two batches are enough to fill a list and to move a row in it. `PageSize` 1 makes two workers
two pages; views that read the same statements are asked for once. In `outbox` one worker with an attempt and
a certificate and three values of `updatedAt` give edits in one second, after the clock was set back, and a
deletion; a request holds 2 items (50 in the docs), so that the outbox takes several. `MCPhone` has this under the
client (`setting` "client") and the same tables under the screens, which never send: once with one edit or the deletion
("edits"), once with photos and a clock that is set, without either ("photos"). `MaxDepth` 4 is Home, a worker's page,
a page of that worker and one more by a double touch; one photo is captured at a time. Three revokes over two
certificates are the least with two requests for one certificate and one for another; a request runs once, and
a repeated click is another request. `MaxPresses` 1 and `MaxRepositions` 1 bound how often the lever is
pressed and the overlay moved in an attempt; a second press adds another closed pair to the log. The spray
holds 3 samples of capacity (48 in FIRE_01) and the wrong agent needs 2 (4 in the code): enough for on target,
off target, sweep and empty to differ. Cones stop at `minCones`: more only change a mean, which is a free
input. The scenarios have at most 6 steps, but every interaction, rule type and use of variants occurs in one
of them. `drill` launches each file once per kind and mode that makes a difference. In `devices` two key
pairs, two units of window and a limit of 2 put the third registration at the limit and at the edge of the
window, and three requests let an approval overlap with a renewal while the phone polls. In `certificates` a
day has two seconds, an attestation ends before the certificates do, the phone's clock is right or ahead of
the skew, and at most `MaxRecords` 3 attempts and certificates are made: two attempts for a stage and its
anchor, two certificates for a newer one beside a revoked one. Deadlock is not checked: requests that are
answered and drills that are over have nothing left to do.

**Fairness.** `revocation`: weak fairness of each request's next database step: the event loop and the
database run what they have accepted. `sync` assumes the same, and that the database breaks deadlocks; of the views
nothing, as they hold nothing up. Nothing is assumed about new requests or failures. `drill`: a
render follows every `refresh()`, and a worker takes a skip that stays on offer. D-033 promises no more than
that: steps can always be finished or skipped. Both are weak fairness with the enabling condition written out
(`RenderDue`, `SkipOffered`).

## Proofs

Eight modules hold theorems. Each is about the specification that its run checks, for every value of the constants that
the named assumptions admit; TLC evaluates the assumptions on every run. All have one shape: an inductive
invariant (in `sync`, `drill`, `devices` and `certificates` also an INVARIANT of the run), one lemma per
action with a step for each conjunct it can disturb,
and the properties as consequences. Lemmas about operators (positions in filtered lists, the latest of
some times, the first failing check, what a filter keeps of a list, orders by time) stand before the actions.

**Revocation** (`RequestAssumption`: revokes and fetches are different requests; `NoneAssumption`).
`NoFalseRevocation` alone is not inductive: a commit could add a false list. So `ListInProgress` says that a
list being written names only revoked certificates and the one being revoked, and all of them if its
request overlapped with none; `Begun` and `UpdatersOverlap` say which certificate a request writes and that a row
found revoked late was revoked by an overlapping request; `OverlapIsRecorded` and `SerialIsFresh` tie history and
serials to this. `VerdictStable` follows from it and the step: a list that is committed with no overlap is newer and complete.

**Sync** (`ItemsAssumption`: ids of workers and records differ; `TokenAssumption`: a certificate's site is in its
token; `FlawAssumption`: a flaw is found in an item each time it is sent, unless it is one that passes). `IInv` says what a transaction has read, written and answered, which row is locked by whom, and
that a record never changes once committed. `AcceptedIsStored` and `OnlyPassingFlawsPass` follow from it,
`OnlyOverlapLosesEdits` from it and the step. `SoloBatchIsSequential` compares a whole batch with `Ingest`, a fold:
`SoloIInv` adds to `IInv` that a batch which has run alone so far has stored and answered what `Ingest` does of the
items it has handled (`FirstItems`), and that what it reads is the last committed table with its own writes.
`ServerIsSync` carries them over to the server that also answers the dashboard.

Both this and the outbox below rest on `LedgerProofs!IngestByItem`: `Ingest` of a batch passes through one table
after another, each its predecessor with the next item applied, and gives each item the verdict it has at the table
before it. The library's induction takes an operator and cannot be used; `EveryNat` is the same for a set of numbers, from the
minimum that `WellFoundedInduction` gives (`LeastNat`), and the fold's recursion is unfolded with the
theorem on functions over finite sets.

**Devices** (`BoundAssumption`, `WindowAssumption`, `NoneAssumption`). The key of a registered row is the one
on the phone unless the phone lost it before its own row was written, and no answer or token tells otherwise.
`LimiterIsExact` holds for any limit and window: a hit that the deque has dropped is older than the window.

**VerifyPage** (`NoneAssumption`, `IatAssumption`). What each call has read at its await and what its card shows belong together.
`RevokedStays` and `OnlyRaceKeepsOlder` hold for any number of tabs, checks and lists, whatever the lists name and in
whatever seconds they were signed.

**The drill** (`FilesAreLists`: a file has all its parts, steps and rules are lists, steps have ids, and a parameter
is written out or named, not both; `LaunchAssumption`; `LoadedIsTyped`: numbers and points of a loaded file are
numbers, its questions have lists of options; `ValuesAssumption`: JSON null is no name and no list of variants; `NoneAssumption`, which also tells "no outcome" from the outcomes). `LogIsARun` is a statement about positions in the log; `IInv` adds what the session counts (index,
pin, lever, holds) in terms of the log and which of it the screen and the store have. `IsAnAttempt` is the refinement
of `Attempt`, every handler a step or a stutter. `AnswersTheStepDrawn` needs no more than that a handler's guard compares
with the drawn step, and that `Render` is the only action that draws. `PassedMeansSafe` needs every rule
type of `Assessment`. The proofs changed the model: a drill in which no step runs in its variant is over when it
begins, which `Attempt!Init` had excluded; and a critical `no_forbidden` rule with `criticalOn: "forbidden"` names no
step and never fails (`load.ts:312` lets it load), which `PassedMeansSafe` now states. No file does either.

`ExtinguishedForReal` is about the order of events in the log, while the session decides by flags, counters and a scene.
Its inductive invariant `Claims` has one part for each: the log claims nothing that did not happen (`Truthful`: every
forbidden action was chosen, and every fire put out had before it in its step what puts a fire out), a pin the session
holds for pulled was pulled in the log, a lever held down has its pin pulled, and an outcome the screen has drawn as "extinguished" is already backed by
the log. It rests on `AgentIsEarlier`: the step that a spray step takes its agent from stands before it, in the
file and in the refresher derived from it.

`RepositionIsNeutral` holds of every rule type and log. A log without some of its entries numbers those that stay in
the same order (`Renumbers`), so that what a rule reads of it (whether and when something happened first, how many
samples there were, their aims in order, whether the pin was pulled before the first of them) is read the same
(`NumbersInOrder`, `NumbersFirst`, `CountedPin`): no rule reads a reposition. The proof showed two places where `Assessment` had left a
value to TLC's order of evaluation: a choice that was never made, and a time limit for a step that never started.

`ServerAgrees` compares two derivations. The app's refresher keeps the least set of names that has the critical
rules' steps and the placements and is closed under what a step needs (`KeptSteps`); the server adds needs
until nothing grows (`Grown`, as many rounds as steps) and keeps those that are steps of the file. By `GrownIsLeast`
that is the least set of steps closed under the needs that are steps, and by `KeptAlike` what the app keeps of the file's
steps: a round that adds nothing has closed it, one that adds something adds an id of the file, and there are no more
of these than rounds (`RoundKeeps`, `IdsAreFew`); every round stays below every closed set. What the app keeps beyond that are
names of no step, and they decide over a rule only if it has one (`ReadAlike`). So the rules of both sides are the file's
at the same positions (`RulesAlike`), each read to the same points, variants and criticality
(`RuleAlike`), and earned points lie in `0..points` for every rule type, in whole numbers also where a question pays
in shares (`EarnedInRange`). Then `RecheckAgrees`: no reason to flag, the same sums, score, failures and verdict. It needs
that scored questions have an answer and finitely many options, which the loader sees to (`AnswersAreOptions`), and
that what was picked is finite (`PickedIsFinite`, from `Claims`).

`LoadedIsPlayable` is what the checks of the loader come to. It speaks of the steps that a rule of its type scores
(`ScoredSteps`), since the loader looks at no others. A position that a played rule has is that of a step that the
file's rule names (`PositionNames`), so what the loader checked of the file's steps holds of the played ones:
they run where the rule applies (`ScoredRuns`) and offer its answers (`AnswersOffered`) and forbidden acts
(`TagOffered`). A refresher keeps every critical rule (`CriticalStay`, because every rule that loads scores a step,
`RuleScores`), and with a step the scan of the exit it measures against (`ExitsScanned`). This proof, too, changed
the property: the loader does not ask for that scan, so only a scan that the file has can be asked of the refresher.

**AdminViews** (`ViewsAssumption`, `RowsAssumption`, `OrderAssumption`: names and ids have an order). `ViewIInv` says
what has been read and shown at each statement: in scope, in time, and that a row no page has
shown yet is behind the pages that were read (`RowsLeftAreBehind`, by the rank of its place). `PagesMissNobody` holds for
any page size and number of rows. The proof showed that a page is disturbed also by a row that moves while another
one leaves, so that the count stays the same: the exception of `PagesMissNobody` now looks at the places of the rows.

**Certificates** (`DueDaysAssumption`, `TimesAssumption`, `ContentAssumption`, `NoTokenAssumption`). `AppIsDashboard` and
`AppIsServer` say that the verifiers, each in its own order of checks, have one verdict for any token, list and
time; for the backend, if numbers are plain. `IInv` says that every token on the phone and at the server was signed as its
fields say, in the time of its attestation; `OnlyClockInvalidates`, `VerifiersAgree` and `ViewsAgree` follow for any
clocks, modules and validities. `OfferStandsUntilPassed` is proved of each step: a due stage only grows until a refresher is
passed, because a new training cannot be the earliest.

**Phone** (`IdsAssumption`, `NoneAssumption`, `BoundsAssumption`). `DeletedAreGone` is not inductive alone: that a
confirmed deletion finds pages to dismiss depends on what can lie where. `StackOK` says that Home is the first page
and no other, that the pages which a worker's page leads to are above one, that every page's worker is there and
that what it lists is; `DialogOK` that below an open dialog there is a page to dismiss, and two if a capture may
take one away. From it follow `DeletedAreGone`, `FocusShowsStored` and the refinement `ImplementsStore`, for any
number of workers and pages, and `LanguageFollowsWorker`, which no run checks: a worker's page that comes into focus has the app in that worker's
language. The count on the settings page is not part of `FocusShowsStored`: a covered worker's page may store one more
edit after Settings has read.

**The outbox** (`LocalStore`, with the assumptions above: `BatchSize` any number, zero included; ids of
workers and records differ; `None` is no row). `NothingIsLost` takes `StoreIInv`: every row that is queued, under way or at
the server was made on the phone (`Genuine`: a worker's newest copy or a strictly older one, a record as it is
stored, `TableOK` for the server), a record's worker was made before it, and the newest copy and every record are at the
server or queued. The order of a request is that of ranks, so that what stands before a record in it are the
workers that are queued (`RanksAreAll`, `AtRank`); by `IngestByItem` and induction along the request each of its items is
accepted, and a late or repeated request only applies older copies again. `StoreNothingIsLost` is this for
outboxes, requests and tables of any size, `PhoneNothingIsLost` the same under the screens, by the refinement.

Only model-checked, and why:

- `RequestsFinish`, `BatchesEnd`, `EveryDrillIsStored`: liveness under fairness, which the proof system does not reach.

Every other property of a passing run is a theorem. What no theorem says is what a fold over a list computes (the sweeps
that `SweepReversals` counts, the points that `Points` adds up): it is taken as the loop it is translated from.

## Plan

The dashboard pages that still have no module (see below), and the sync client once the app has one.

## Not modelled

AR geometry and sensor filtering are floating-point functions whose results are free inputs here; so is the size of the
simulated fire. Signatures, base64 and token encodings are cryptographic primitives and formats, abstracted to who
signed what in which form. Of scenario files, checks of texts and number formats are left out, and so is the empty
string as the name of a step (which the server takes for none). The dashboard's sign-in is not modelled: whether one user can see what another loaded
(`AuthContext.tsx:30`) depends on the order of the Supabase client's events. The averages and rankings of the
dashboard, the calibration page, card drawing and sharing, speech, strings, dashboard pages, the mock API, demo seeding and key generation compute
or draw what is there; no property here depends on them. A database that fails in the middle of storing an attempt on
the phone loses it (`TrainingRun.tsx:341`): `TrainingRun` has a store that does not fail. `Phone` leaves out camera
permissions, form errors, the settings that only change what is drawn or said, the demo clock (`Refresher` has it), the
note that Santali is a draft (which reads only when Home is mounted whether it is to be shown again,
`SantaliDraftNote.tsx:19`), and file operations that fail half-way. A scan page that has found a worker but is left in
the stack never scans again (`scan.tsx:30`), and after an end between the two file operations of
`saveWorkerPhoto` the later of the two photo names wins, whichever was taken last: `Phone` has both states, and no
property forbids them.
`PROJECT.json` lists every component with its status, and every hazard with the properties that cover it.
