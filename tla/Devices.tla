------------------------------ MODULE Devices ------------------------------
(***************************************************************************)
(* The identity of one phone: createDevice in the app, and in the backend  *)
(* registration behind its rate limiter, approval by an administrator, and *)
(* the authentication of every other call.                                 *)
(*                                                                         *)
(* Key k is the k-th key pair the phone generates, and Foreign any other:  *)
(* a signature is the key that made it.  The phone's device row never      *)
(* changes once it is there, so requests carry one device id.  A request   *)
(* is a READ COMMITTED transaction that reads the row at one step and      *)
(* commits at a later one; its now is the server's time when it began.     *)
(***************************************************************************)
EXTENDS Integers, SequencesExt

CONSTANTS Requests,
          None,          \* SQL NULL, nothing there
          Unread,        \* a row that has not been read
          MaxKeys,       \* bound: key pairs the phone generates
          MaxTime,       \* bound: when the clock stops
          Limit, Window, \* RateLimiter: requests admitted in a window
          Skew,          \* MAX_CLOCK_SKEW_SECONDS
          Validity       \* ATTESTATION_VALIDITY_SECONDS

ASSUME BoundAssumption == {MaxKeys, MaxTime, Limit, Window, Skew, Validity} \subseteq Nat
ASSUME WindowAssumption == Limit > 0 /\ Window > 0

Foreign == 0
Keys == 0 .. MaxKeys
Times == 0 .. MaxTime
Sites == {"DHN-01"}
Statuses == {"pending", "approved", "revoked"}
Roles == {"anonymous", "supervisor", "admin"}

Row == [key : Keys, status : Statuses, lastSeen : Times \cup {None},
        attestation : {None} \cup [dpk : Keys, iat : Times, exp : 0 .. MaxTime + Validity]]

Call == [kind : {"register", "approve", "poll", "sync"}, key : Keys, at : Times]

Answers == Statuses \cup {"401", "403", "404", "409", "422", "429", "500"}

ASSUME NoneAssumption ==
    /\ None # Unread
    /\ None \notin Keys \cup Times
    /\ None \notin Row /\ Unread \notin Row
    /\ None \notin Call
    /\ None \notin Answers
    /\ None \notin [dpk : Keys, iat : Times, exp : 0 .. MaxTime + Validity]

VARIABLES
    made, seed, phoneRow,   \* keys generated; key in the secure store; key in the device row
    creating,               \* createDevice is between its two writes
    now,                    \* the server's clock, in units its windows are counted in
    device,                 \* the server's row of this id, or None
    hits,                   \* the limiter's deque for the phone's address
    call,                   \* the request a process serves, or None
    seen,                   \* the row as the request read it
    answer,                 \* what it was answered, or None
    admitted,               \* history: times of admitted registrations since the server started
    overlapped              \* history: requests that were in flight with another writer of the row

phone == <<made, seed, phoneRow, creating>>
requests == <<call, seen, answer, overlapped>>
vars == <<phone, now, device, hits, admitted, requests>>

Init ==
    /\ made = 0 /\ seed = None /\ phoneRow = None /\ creating = FALSE
    /\ now = 0 /\ device = None
    /\ hits = <<>> /\ admitted = <<>>
    /\ call = [r \in Requests |-> None]
    /\ seen = [r \in Requests |-> Unread]
    /\ answer = [r \in Requests |-> None]
    /\ overlapped = {}

-----------------------------------------------------------------------------
(* The phone *)

\* Mutant: a second press of Save makes a second key.
NoKeyBeingMade == ~creating

\* if (existing !== null) return existing
NeedsDevice == ~creating /\ phoneRow = None

StoreSeed ==
    /\ NeedsDevice
    /\ made < MaxKeys
    /\ made' = made + 1
    /\ seed' = made + 1
    /\ creating' = TRUE
    /\ UNCHANGED <<phoneRow, now, device, hits, admitted, requests>>

InsertDeviceRow ==
    /\ creating
    /\ phoneRow' = seed
    /\ creating' = FALSE
    /\ UNCHANGED <<made, seed, now, device, hits, admitted, requests>>

\* The app is closed or the phone goes off between the two writes.
PhoneDies ==
    /\ creating
    /\ creating' = FALSE
    /\ UNCHANGED <<made, seed, phoneRow, now, device, hits, admitted, requests>>

-----------------------------------------------------------------------------
(* Requests *)

Active(r) == call[r] # None /\ answer[r] = None

ActiveRequests == {r \in Requests : Active(r)}

Start(r, c) ==
    /\ call[r] = None
    /\ call' = [call EXCEPT ![r] = c]
    /\ overlapped' = overlapped \cup
                       (IF ActiveRequests = {} THEN {} ELSE ActiveRequests \cup {r})

Reply(r, a) == answer' = [answer EXCEPT ![r] = a]

\* Mutant: a hit as old as the window is kept.
OlderThanWindow(t) == t < now - Window

Old(t) == t <= now - Window

\* while hits and hits[0] is old: popleft()
Recent(times) ==
    LET kept == {i \in DOMAIN times : ~Old(times[i])}
    IN  IF kept = {} THEN <<>> ELSE SubSeq(times, Min(kept), Len(times))

\* POST /devices/register: the limiter, then the site.  Anyone may send it: the
\* phone for the row it has, and others with this id and a key of their own.
BeginRegister(r, key, site) ==
    LET kept == Recent(hits)
        free == Len(kept) < Limit
    IN  /\ Start(r, [kind |-> "register", key |-> key, at |-> now])
        /\ hits' = IF free THEN Append(kept, now) ELSE kept
        /\ admitted' = IF free THEN Append(admitted, now) ELSE admitted
        /\ CASE ~free -> Reply(r, "429")
             [] free /\ site \notin Sites -> Reply(r, "422")
             [] OTHER -> UNCHANGED answer
        /\ UNCHANGED <<phone, now, device, seen>>

PhoneKeys == IF phoneRow = None THEN {Foreign} ELSE {Foreign, phoneRow}

\* An existing row answers the retry, or refuses another key.
ReadExisting(r) ==
    /\ Active(r) /\ call[r].kind = "register" /\ seen[r] = Unread
    /\ seen' = [seen EXCEPT ![r] = device]
    /\ IF device = None THEN UNCHANGED answer
       ELSE Reply(r, IF device.key = call[r].key THEN device.status ELSE "409")
    /\ UNCHANGED <<phone, now, device, hits, admitted, call, overlapped>>

NewDevice(key) == [key |-> key, status |-> "pending", attestation |-> None, lastSeen |-> None]

\* Mutant: the insert is an upsert.
NeverTaken == FALSE

\* The primary key.
IdTaken == device # None

\* INSERT and COMMIT: a second row with the id is refused, which fails the request.
InsertDevice(r) ==
    /\ Active(r) /\ seen[r] = None
    /\ IF IdTaken
       THEN UNCHANGED device /\ Reply(r, "500")
       ELSE device' = NewDevice(call[r].key) /\ Reply(r, "pending")
    /\ UNCHANGED <<phone, now, hits, admitted, call, seen, overlapped>>

\* POST /admin/devices/{id}/approve: the token and the role come first.
BeginApprove(r, role) ==
    /\ Start(r, [kind |-> "approve", key |-> Foreign, at |-> now])
    /\ CASE role = "anonymous" -> Reply(r, "401")
         [] role = "supervisor" -> Reply(r, "403")
         [] OTHER -> UNCHANGED answer
    /\ UNCHANGED <<phone, now, device, hits, admitted, seen>>

\* Mutant: a revoked device is approved like any other.
ApprovesRow(row) == TRUE

Approvable(row) == row.status # "revoked"

ReadForApproval(r) ==
    /\ Active(r) /\ call[r].kind = "approve" /\ seen[r] = Unread
    /\ seen' = [seen EXCEPT ![r] = device]
    /\ CASE device = None -> Reply(r, "404")
         [] device # None /\ ~Approvable(device) -> Reply(r, "409")
         [] OTHER -> UNCHANGED answer
    /\ UNCHANGED <<phone, now, device, hits, admitted, call, overlapped>>

Attestation(r) == [dpk |-> seen[r].key, iat |-> call[r].at, exp |-> call[r].at + Validity]

\* The UPDATE names the columns whose values differ from those that were read.
CommitApproval(r) ==
    /\ Active(r) /\ call[r].kind = "approve" /\ seen[r] # Unread
    /\ device' = [device EXCEPT
                    !.attestation = Attestation(r),
                    !.status = IF seen[r].status = "approved" THEN @ ELSE "approved"]
    /\ Reply(r, "approved")
    /\ UNCHANGED <<phone, now, hits, admitted, call, seen, overlapped>>

Off(t) == IF t > now THEN t - now ELSE now - t

Permitted == [poll |-> Statuses, sync |-> {"approved"}]

\* Mutant: the status is tested before the signature.
StatusFirst(kind, key, ts) ==
    IF Off(ts) > Skew \/ device = None THEN "401"
    ELSE IF device.status \notin Permitted[kind] THEN "403"
    ELSE IF device.key # key THEN "401" ELSE None

\* device_auth: the refusal, or None.
Refusal(kind, key, ts) ==
    IF Off(ts) > Skew \/ device = None \/ device.key # key THEN "401"
    ELSE IF device.status \notin Permitted[kind] THEN "403" ELSE None

\* GET /devices/me/attestation ("poll") or POST /sync, with the phone's time ts.
BeginSigned(r, kind, key, ts) ==
    LET no == Refusal(kind, key, ts)
    IN  /\ Start(r, [kind |-> kind, key |-> key, at |-> now])
        /\ seen' = IF no = None THEN [seen EXCEPT ![r] = device] ELSE seen
        /\ IF no = None THEN UNCHANGED answer ELSE Reply(r, no)
        /\ UNCHANGED <<phone, now, device, hits, admitted>>

\* last_seen_at is committed; the handler goes on with the row as it was read.
CommitSeen(r) ==
    /\ Active(r) /\ call[r].kind \in DOMAIN Permitted
    /\ device' = [device EXCEPT !.lastSeen = call[r].at]
    /\ Reply(r, seen[r].status)
    /\ UNCHANGED <<phone, now, hits, admitted, call, seen, overlapped>>

\* The connection goes away and the transaction is rolled back.
Fail(r) ==
    /\ Active(r)
    /\ Reply(r, "500")
    /\ UNCHANGED <<phone, now, device, hits, admitted, call, seen, overlapped>>

\* Nothing in the repository revokes a device: its status is set in the database.
RevokeDevice ==
    /\ device # None /\ device.status # "revoked"
    /\ device' = [device EXCEPT !.status = "revoked"]
    /\ overlapped' = overlapped \cup ActiveRequests
    /\ UNCHANGED <<phone, now, hits, admitted, call, seen, answer>>

\* The limiter lives in the process and the requests with it.
ServerRestarts ==
    /\ hits # <<>>
    /\ hits' = <<>> /\ admitted' = <<>>
    /\ answer' = [r \in Requests |-> IF Active(r) THEN "500" ELSE answer[r]]
    /\ UNCHANGED <<phone, now, device, call, seen, overlapped>>

Tick ==
    /\ now < MaxTime
    /\ now' = now + 1
    /\ UNCHANGED <<phone, device, hits, admitted, requests>>

\* The phone signs with the seed in its secure store, once it has a device row.
Signers == IF phoneRow = None THEN {Foreign} ELSE {Foreign, seed}

Begin(r) ==
    \/ \E key \in PhoneKeys, site \in Sites \cup {"unknown"} : BeginRegister(r, key, site)
    \/ \E role \in Roles : BeginApprove(r, role)
    \/ \E kind \in DOMAIN Permitted, key \in Signers, ts \in 0 .. MaxTime :
          BeginSigned(r, kind, key, ts)

Step(r) ==
    \/ ReadExisting(r)
    \/ InsertDevice(r)
    \/ ReadForApproval(r)
    \/ CommitApproval(r)
    \/ CommitSeen(r)

Next ==
    \/ StoreSeed \/ InsertDeviceRow \/ PhoneDies
    \/ \E r \in Requests : Begin(r) \/ Step(r) \/ Fail(r)
    \/ RevokeDevice \/ ServerRestarts \/ Tick

Spec == Init /\ [][Next]_vars

-----------------------------------------------------------------------------
(* Properties *)

\* Every variable has its type, and an approved device has an attestation of the
\* key it registered with.
TypeOK ==
    /\ made \in Keys
    /\ {seed, phoneRow} \subseteq 1 .. MaxKeys \cup {None}
    /\ creating \in BOOLEAN
    /\ now \in Times
    /\ device \in Row \cup {None}
    /\ device # None /\ device.status = "approved" =>
          device.attestation # None /\ device.attestation.dpk = device.key
    /\ hits \in Seq(Times) /\ admitted \in Seq(Times)
    /\ call \in [Requests -> Call \cup {None}]
    /\ seen \in [Requests -> Row \cup {None, Unread}]
    /\ answer \in [Requests -> Answers \cup {None}]
    /\ overlapped \subseteq Requests

\* Whenever the phone is cut off, and however often Save is pressed, the secret it
\* signs with is that of the public key in its row.
SeedMatchesRow == phoneRow # None => seed = phoneRow

Registered(r) == call[r] # None /\ call[r].kind = "register" /\ answer[r] \in Statuses

\* A phone that was told it is registered is: the row holds its key for good, so no
\* retry is refused for its key, and one that meets nobody does not fail at all.
RegisteredForGood ==
    /\ \A r \in Requests : Registered(r) => device # None /\ device.key = call[r].key
    /\ \A r, s \in Requests :
          Registered(r) /\ call[s] # None /\ call[s].kind = "register" /\ call[s].key = call[r].key
          => answer[s] # "409"

\* However late the deque is pruned, a registration is refused exactly if Limit
\* others were admitted in the window that ends now, since the server started.
LimiterIsExact ==
    [][\A r \in Requests :
          call[r] = None /\ call'[r] # None /\ call'[r].kind = "register"
          => (answer'[r] = "429") =
               (Cardinality({i \in DOMAIN admitted : now - admitted[i] < Window}) >= Limit)]_vars

\* A device's approval, attestation and last contact go back only when two requests
\* overlapped: an approval that read the row earlier brings back a device revoked
\* since, or replaces the attestation by an older one.
OnlyOverlapGoesBack ==
    [][ device # None
        /\ \/ device.status = "revoked" /\ device'.status # "revoked"
           \/ device.attestation # None /\ device'.attestation.exp < device.attestation.exp
           \/ device.lastSeen # None /\ device'.lastSeen < device.lastSeen
        => \E r \in overlapped : answer[r] = None /\ answer'[r] # None ]_vars

\* Who does not hold the device's key learns nothing of its status.
StatusIsForTheHolder ==
    \A r \in Requests :
       call[r] # None /\ call[r].kind \in DOMAIN Permitted /\ answer[r] \notin {None, "401", "500"}
       => device # None /\ device.key = call[r].key

\* A phone between its two writes has no row yet.
Creating == creating => seed # None /\ phoneRow = None

\* What a request has read still names the device, whatever became of its status.
ReadsStand ==
    \A r \in Requests :
       /\ call[r] = None => answer[r] = None /\ seen[r] = Unread
       /\ seen[r] \in Row => device # None /\ seen[r].key = device.key
       /\ Active(r) =>
            CASE call[r].kind = "register" -> seen[r] \in {None, Unread}
              [] call[r].kind = "approve" ->
                    seen[r] = Unread \/ (seen[r] \in Row /\ Approvable(seen[r]))
              [] OTHER -> seen[r] \in Row /\ seen[r].key = call[r].key
       /\ call[r] # None /\ call[r].kind = "register" /\ answer[r] = "409"
            => device # None /\ device.key # call[r].key

OverlapIsRecorded ==
    \A r, s \in Requests : Active(r) /\ Active(s) /\ r # s => r \in overlapped

NotAfter(row, time) ==
    /\ row.attestation # None => row.attestation.exp <= time + Validity
    /\ row.lastSeen # None => row.lastSeen <= time

\* The row is of times that have been, and for a request that meets no other as it was
\* read and of times before the request.
RowIsPast ==
    /\ device # None => NotAfter(device, now)
    /\ \A r \in Requests :
          /\ call[r] # None => call[r].at <= now
          /\ Active(r) /\ r \notin overlapped =>
                seen[r] \in {Unread, device} /\ (device # None => NotAfter(device, call[r].at))

\* The deque is the admissions but for a beginning that is older than the window.
DequeIsRecent ==
    LET dropped == Len(admitted) - Len(hits)
    IN  /\ dropped >= 0
        /\ \A i \in DOMAIN hits : hits[i] = admitted[dropped + i]
        /\ \A i \in 1 .. dropped : Old(admitted[i])
        /\ \A i, j \in DOMAIN admitted : i <= j => admitted[i] <= admitted[j]
        /\ \A i \in DOMAIN admitted : admitted[i] <= now

\* What is to hold together: the types, the phone's secret, its registration, what others
\* are told of it, and what requests and the limiter remember of the past.
IInv ==
    /\ TypeOK /\ SeedMatchesRow /\ RegisteredForGood /\ StatusIsForTheHolder
    /\ Creating /\ ReadsStand /\ OverlapIsRecorded /\ RowIsPast /\ DequeIsRecent
=============================================================================
