----------------------------- MODULE Revocation -----------------------------
(***************************************************************************)
(* Certificate revocation in the backend: POST                             *)
(* /v1/admin/certificates/{id}/revoke and GET /v1/revocations, as the      *)
(* database transactions they are.  Each request is a process that runs in *)
(* one READ COMMITTED transaction: a read sees what other transactions     *)
(* have committed plus its own writes, and an UPDATE waits for the row     *)
(* lock of a transaction that has already updated the row.                 *)
(*                                                                         *)
(* A certificate row keeps the time, the reason and the user of its        *)
(* revocation; all three come from the request, so the row is modelled by  *)
(* the request that wrote it.  A row of revocation_lists is its serial id  *)
(* and the set of certificate ids that its SR1 token signs.                *)
(***************************************************************************)
EXTENDS Naturals

CONSTANTS Certs,    \* certificates the server holds
          Revokes,  \* requests to revoke a certificate
          Fetches,  \* requests for the newest list
          None      \* SQL NULL

Requests == Revokes \cup Fetches

ASSUME RequestAssumption == Revokes \cap Fetches = {}
ASSUME NoneAssumption == None \notin Certs \cup Requests

VARIABLES revoked,  \* certificates.revoked_*: the request that revoked it, or None
          lists,    \* committed rows of revocation_lists
          nextId,   \* its serial: a value taken is never given back
          lock,     \* row locks on certificates
          pc,       \* the step each request is at
          target,   \* the certificate a revoke request names
          row,      \* the revocation_lists row a request is writing
          overlapped  \* history: requests that were in flight together with another

vars == <<revoked, lists, nextId, lock, pc, target, row, overlapped>>

ListRow == [id : Nat, cids : SUBSET Certs]

NoRow == [id |-> 0, cids |-> {}]

\* The steps at which a request holds a transaction open.
InFlight == {"read", "update", "select", "insert", "commit"}

Steps == InFlight \cup {"idle", "done", "failed"}

TypeOK ==
    /\ revoked \in [Certs -> Revokes \cup {None}]
    /\ lists \subseteq ListRow
    /\ nextId \in Nat
    /\ lock \in [Certs -> Revokes \cup {None}]
    /\ pc \in [Requests -> Steps]
    /\ target \in [Requests -> Certs \cup {None}]
    /\ row \in [Requests -> ListRow]
    /\ overlapped \subseteq Requests

Init ==
    /\ revoked = [c \in Certs |-> None]
    /\ lists = {}
    /\ nextId = 1
    /\ lock = [c \in Certs |-> None]
    /\ pc = [r \in Requests |-> "idle"]
    /\ target = [r \in Requests |-> None]
    /\ row = [r \in Requests |-> NoRow]
    /\ overlapped = {}

-----------------------------------------------------------------------------
Active(r) == pc[r] \in InFlight

ActiveRequests == {r \in Requests : Active(r)}

RevokedCerts == {c \in Certs : revoked[c] # None}

\* SELECT ... ORDER BY id DESC LIMIT 1
IsNewest(l) == l \in lists /\ \A m \in lists : m.id <= l.id

\* The row a transaction has written and no other can see yet.
OwnWrite(r) == IF r \in Revokes THEN {target[r]} ELSE {}

\* Mutants: the list is read before the flush, at READ UNCOMMITTED, or holds only
\* what is new; a second revoke is not recognised; a lock outlives its transaction.
VisibleBeforeFlush(r) == RevokedCerts
VisibleUncommitted(r) == RevokedCerts \cup {c \in Certs : lock[c] # None}
VisibleNew(r) == OwnWrite(r)
NeverRevoked(r) == FALSE
KeepLocks(r) == UNCHANGED lock

GoTo(r, step) == pc' = [pc EXCEPT ![r] = step]

\* Ending a transaction, either way, releases its row locks.
Unlock(r) == lock' = [c \in Certs |-> IF lock[c] = r THEN None ELSE lock[c]]

\* What SELECT id ... WHERE revoked_at IS NOT NULL returns to the transaction.
Visible(r) == RevokedCerts \cup OwnWrite(r)

AlreadyRevoked(r) == revoked[target[r]] # None

Begin(r, c) ==
    /\ pc[r] = "idle"
    /\ GoTo(r, "read")
    /\ target' = [target EXCEPT ![r] = c]
    /\ overlapped' = overlapped \cup
                       (IF ActiveRequests = {} THEN {} ELSE ActiveRequests \cup {r})
    /\ UNCHANGED <<revoked, lists, nextId, lock, row>>

BeginRevoke(r) == r \in Revokes /\ \E c \in Certs : Begin(r, c)
BeginFetch(r) == r \in Fetches /\ Begin(r, None)

\* session.get(Certificate), then revoke_certificate's early return: a
\* certificate that reads as revoked is answered 200 and left alone.
ReadCertificate(r) ==
    /\ r \in Revokes
    /\ pc[r] = "read"
    /\ GoTo(r, IF AlreadyRevoked(r) THEN "done" ELSE "update")
    /\ UNCHANGED <<revoked, lists, nextId, lock, target, row, overlapped>>

\* flush() of revoked_at, revoked_reason and revoked_by: UPDATE ... WHERE id = ?
UpdateCertificate(r) ==
    /\ r \in Revokes
    /\ pc[r] = "update"
    /\ lock[target[r]] = None
    /\ lock' = [lock EXCEPT ![target[r]] = r]
    /\ GoTo(r, "select")
    /\ UNCHANGED <<revoked, lists, nextId, target, row, overlapped>>

\* GET /revocations: serve the newest list, or sign the first one.
ReadNewestList(r) ==
    /\ r \in Fetches
    /\ pc[r] = "read"
    /\ GoTo(r, IF lists # {} THEN "done" ELSE "select")
    /\ UNCHANGED <<revoked, lists, nextId, lock, target, row, overlapped>>

\* publish_revocation_list reads every revoked id ...
SelectRevoked(r) ==
    /\ pc[r] = "select"
    /\ row' = [row EXCEPT ![r].cids = Visible(r)]
    /\ GoTo(r, "insert")
    /\ UNCHANGED <<revoked, lists, nextId, lock, target, overlapped>>

\* ... signs them and inserts the row, which takes the next serial value.
InsertList(r) ==
    /\ pc[r] = "insert"
    /\ row' = [row EXCEPT ![r].id = nextId]
    /\ nextId' = nextId + 1
    /\ GoTo(r, "commit")
    /\ UNCHANGED <<revoked, lists, lock, target, overlapped>>

Commit(r) ==
    /\ pc[r] = "commit"
    /\ revoked' = [c \in Certs |-> IF c \in OwnWrite(r) THEN r ELSE revoked[c]]
    /\ lists' = lists \cup {row[r]}
    /\ row' = [row EXCEPT ![r] = NoRow]
    /\ Unlock(r)
    /\ GoTo(r, "done")
    /\ UNCHANGED <<nextId, target, overlapped>>

\* The connection or the server goes away: everything the transaction wrote is
\* rolled back, and the answer, if there was to be one, is an error.
Fail(r) ==
    /\ Active(r)
    /\ row' = [row EXCEPT ![r] = NoRow]
    /\ Unlock(r)
    /\ GoTo(r, "failed")
    /\ UNCHANGED <<revoked, lists, nextId, target, overlapped>>

Step(r) ==
    \/ ReadCertificate(r)
    \/ UpdateCertificate(r)
    \/ ReadNewestList(r)
    \/ SelectRevoked(r)
    \/ InsertList(r)
    \/ Commit(r)

Next == \E r \in Requests : BeginRevoke(r) \/ BeginFetch(r) \/ Step(r) \/ Fail(r)

Spec == Init /\ [][Next]_vars

\* The event loop and the database run a request they have accepted; nobody has
\* to send one, and no transaction has to fail.
FairSpec == Spec /\ \A r \in Requests : WF_vars(Step(r))

-----------------------------------------------------------------------------
(* Properties *)

\* What GET /public/verify answers from: the newest list names the certificate.
ShownRevoked(c) == \E l \in lists : IsNewest(l) /\ c \in l.cids

NewestCoversRevoked == \A l \in lists : IsNewest(l) => RevokedCerts \subseteq l.cids

\* No list that was ever signed and kept names a certificate whose revocation did
\* not happen, whichever transactions were rolled back.
NoFalseRevocation == \A l \in lists : l.cids \subseteq RevokedCerts

\* A revocation and the list that announces it are committed together: there is no
\* moment, and no crash, after which one exists without the other.
RevokedIsListed == \A c \in RevokedCerts : \E l \in lists : c \in l.cids

\* The transaction of a request that ran alone leaves a newest list that names every
\* revoked certificate, even those an earlier overlap had dropped from it.
SoloPublishHeals ==
    [][\A r \in Requests :
          /\ pc[r] = "commit" /\ pc'[r] = "done" /\ r \notin overlapped
          => NewestCoversRevoked']_vars

\* The recorded reason, time and user of a revocation change only if two requests
\* overlapped: a second click after the first one's answer changes nothing.
SequentialRevokeKeepsReason ==
    [][\A c \in Certs :
          revoked[c] # None /\ revoked'[c] # revoked[c]
          => revoked[c] \in overlapped /\ revoked'[c] \in overlapped]_vars

\* A certificate the verify page showed REVOKED is not shown VALID again, as long as
\* no two requests have overlapped.
VerdictStable ==
    [][\A c \in Certs :
          ShownRevoked(c) => ShownRevoked(c)' \/ overlapped # {}]_vars

\* Every request that has begun is answered or fails: no request waits for a row
\* lock that is never released.
RequestsFinish == \A r \in Requests : Active(r) ~> pc[r] \in {"done", "failed"}

\* docs/06 and D-023: the newest list names all revoked cids.  It does not.
ListCoversAllRevoked == NewestCoversRevoked

\* The docstring of revoke_certificate: revoking twice changes nothing.  It does.
RevokingTwiceChangesNothing ==
    [][\A c \in Certs : revoked[c] # None => revoked'[c] = revoked[c]]_vars

-----------------------------------------------------------------------------
(* The inductive invariant *)

\* Requests that overlap know it.
OverlapIsRecorded ==
    \A r, s \in Requests : Active(r) /\ Active(s) /\ r # s => r \in overlapped

\* A transaction past its UPDATE holds the row; one on its way to it found the row
\* unrevoked, so a revocation since then is one it overlapped with.
UpdatersOverlap ==
    \A r \in Revokes :
       pc[r] \in {"update", "select", "insert", "commit"} =>
         /\ target[r] \in Certs
         /\ revoked[target[r]] # None =>
              r \in overlapped /\ revoked[target[r]] \in overlapped

Begun ==
    /\ \A r \in Revokes : Active(r) => target[r] \in Certs
    /\ \A c \in Certs : revoked[c] # None => pc[revoked[c]] = "done"

\* The list being signed is true, names the certificate being revoked, and is
\* complete if nothing else was running.
ListInProgress ==
    \A r \in Requests :
       /\ pc[r] \in {"insert", "commit"} =>
            /\ OwnWrite(r) \subseteq row[r].cids
            /\ row[r].cids \subseteq RevokedCerts \cup OwnWrite(r)
            /\ r \notin overlapped => RevokedCerts \subseteq row[r].cids
       /\ pc[r] = "commit" =>
            /\ row[r].id < nextId
            /\ r \notin overlapped => \A l \in lists : l.id < row[r].id

SerialIsFresh == \A l \in lists : l.id < nextId

\* In every state the requests can reach, however they interleave and fail, the rows
\* have their types, transactions know what they overlap with, a list in progress is
\* true and complete as far as its transaction can know, and no committed list is
\* newer than the next serial.  It implies NoFalseRevocation and RevokedIsListed.
IInv ==
    /\ TypeOK
    /\ OverlapIsRecorded
    /\ UpdatersOverlap
    /\ Begun
    /\ ListInProgress
    /\ SerialIsFresh
    /\ NoFalseRevocation
    /\ RevokedIsListed
=============================================================================
