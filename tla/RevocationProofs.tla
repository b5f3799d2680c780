-------------------------- MODULE RevocationProofs --------------------------
(***************************************************************************)
(* Revocation for any number of certificates and requests.  Init gives     *)
(* IInv, each action preserves it (a lemma per action, a step per          *)
(* conjunct), and the safety properties follow from it.                    *)
(***************************************************************************)
EXTENDS Revocation, TLAPS

\* The empty tables satisfy the inductive invariant.
LEMMA InitIInv == Init => IInv
BY NoneAssumption
   DEF Init, IInv, TypeOK, OverlapIsRecorded, UpdatersOverlap, Begun, ListInProgress,
       SerialIsFresh, NoFalseRevocation, RevokedIsListed, Active, InFlight, Steps,
       RevokedCerts, ListRow, NoRow, OwnWrite, Requests

\* A request that is accepted (get_session) preserves it: its history is updated.
LEMMA BeginIInv ==
    ASSUME IInv, NEW r \in Requests, NEW c \in Certs \cup {None},
           r \in Revokes => c \in Certs, Begin(r, c)
    PROVE  IInv'
<1> USE RequestAssumption, NoneAssumption DEF IInv, TypeOK, GoTo, Begin
<1>1. TypeOK'
  <2>1. overlapped' \subseteq Requests
    BY DEF ActiveRequests
  <2>2. pc' \in [Requests -> Steps] /\ target' \in [Requests -> Certs \cup {None}]
    BY DEF Steps, InFlight
  <2>3. QED BY <2>1, <2>2
<1>2. OverlapIsRecorded'
  BY DEF OverlapIsRecorded, Active, ActiveRequests
<1>3. UpdatersOverlap'
  BY DEF UpdatersOverlap
<1>4. Begun'
  BY DEF Begun, Active
<1>5. ListInProgress'
  BY DEF ListInProgress, OwnWrite, RevokedCerts
<1>6. SerialIsFresh'
  BY DEF SerialIsFresh
<1>7. NoFalseRevocation'
  BY DEF NoFalseRevocation, RevokedCerts
<1>8. RevokedIsListed'
  BY DEF RevokedIsListed, RevokedCerts
<1>9. QED BY <1>1, <1>2, <1>3, <1>4, <1>5, <1>6, <1>7, <1>8

\* revoke_certificate's read and early return preserve it.
LEMMA ReadCertificateIInv ==
    ASSUME IInv, NEW r \in Requests, ReadCertificate(r)
    PROVE  IInv'
<1> USE RequestAssumption, NoneAssumption DEF IInv, TypeOK, GoTo, ReadCertificate, AlreadyRevoked
<1>1. TypeOK'
  BY DEF Steps, InFlight
<1>2. OverlapIsRecorded'
  BY DEF OverlapIsRecorded, Active, InFlight
<1>3. UpdatersOverlap'
  BY DEF UpdatersOverlap, Active, InFlight, Begun
<1>4. Begun'
  BY DEF Begun, Active, InFlight
<1>5. ListInProgress'
  BY DEF ListInProgress, OwnWrite, RevokedCerts
<1>6. SerialIsFresh'
  BY DEF SerialIsFresh
<1>7. NoFalseRevocation'
  BY DEF NoFalseRevocation, RevokedCerts
<1>8. RevokedIsListed'
  BY DEF RevokedIsListed, RevokedCerts
<1>9. QED BY <1>1, <1>2, <1>3, <1>4, <1>5, <1>6, <1>7, <1>8

\* The UPDATE and its row lock preserve it.
LEMMA UpdateCertificateIInv ==
    ASSUME IInv, NEW r \in Requests, UpdateCertificate(r)
    PROVE  IInv'
<1> USE RequestAssumption, NoneAssumption DEF IInv, TypeOK, GoTo, UpdateCertificate
<1>1. TypeOK'
  BY DEF Steps, InFlight
<1>2. OverlapIsRecorded'
  BY DEF OverlapIsRecorded, Active, InFlight
<1>3. UpdatersOverlap'
  BY DEF UpdatersOverlap
<1>4. Begun'
  BY DEF Begun, Active, InFlight
<1>5. ListInProgress'
  BY DEF ListInProgress, OwnWrite, RevokedCerts
<1>6. SerialIsFresh'
  BY DEF SerialIsFresh
<1>7. NoFalseRevocation'
  BY DEF NoFalseRevocation, RevokedCerts
<1>8. RevokedIsListed'
  BY DEF RevokedIsListed, RevokedCerts
<1>9. QED BY <1>1, <1>2, <1>3, <1>4, <1>5, <1>6, <1>7, <1>8

\* GET /revocations reading the newest list preserves it.
LEMMA ReadNewestListIInv ==
    ASSUME IInv, NEW r \in Requests, ReadNewestList(r)
    PROVE  IInv'
<1> USE RequestAssumption, NoneAssumption DEF IInv, TypeOK, GoTo, ReadNewestList
<1>1. TypeOK'
  BY DEF Steps, InFlight
<1>2. OverlapIsRecorded'
  BY DEF OverlapIsRecorded, Active, InFlight
<1>3. UpdatersOverlap'
  BY DEF UpdatersOverlap
<1>4. Begun'
  BY DEF Begun, Active
<1>5. ListInProgress'
  BY DEF ListInProgress, OwnWrite, RevokedCerts
<1>6. SerialIsFresh'
  BY DEF SerialIsFresh
<1>7. NoFalseRevocation'
  BY DEF NoFalseRevocation, RevokedCerts
<1>8. RevokedIsListed'
  BY DEF RevokedIsListed, RevokedCerts
<1>9. QED BY <1>1, <1>2, <1>3, <1>4, <1>5, <1>6, <1>7, <1>8

\* Reading the revoked ids preserves it: the list being built is true.
LEMMA SelectRevokedIInv ==
    ASSUME IInv, NEW r \in Requests, SelectRevoked(r)
    PROVE  IInv'
<1> USE RequestAssumption, NoneAssumption DEF IInv, TypeOK, GoTo, SelectRevoked, Visible
<1>1. TypeOK'
  <2>1. RevokedCerts \cup OwnWrite(r) \subseteq Certs
    BY DEF RevokedCerts, OwnWrite, Begun, Active, InFlight
  <2>2. row' \in [Requests -> ListRow]
    BY <2>1 DEF ListRow
  <2>3. pc' \in [Requests -> Steps]
    BY DEF Steps, InFlight
  <2>4. QED BY <2>2, <2>3
<1>2. OverlapIsRecorded'
  BY DEF OverlapIsRecorded, Active, InFlight
<1>3. UpdatersOverlap'
  BY DEF UpdatersOverlap
<1>4. Begun'
  BY DEF Begun, Active, InFlight
<1>5. ListInProgress'
  BY DEF ListInProgress, OwnWrite, RevokedCerts
<1>6. SerialIsFresh'
  BY DEF SerialIsFresh
<1>7. NoFalseRevocation'
  BY DEF NoFalseRevocation, RevokedCerts
<1>8. RevokedIsListed'
  BY DEF RevokedIsListed, RevokedCerts
<1>9. QED BY <1>1, <1>2, <1>3, <1>4, <1>5, <1>6, <1>7, <1>8

\* Taking a serial preserves it: the id is newer than every committed one.
LEMMA InsertListIInv ==
    ASSUME IInv, NEW r \in Requests, InsertList(r)
    PROVE  IInv'
<1> USE RequestAssumption, NoneAssumption DEF IInv, TypeOK, GoTo, InsertList
<1>1. TypeOK'
  BY DEF Steps, ListRow, InFlight
<1>2. OverlapIsRecorded'
  BY DEF OverlapIsRecorded, Active, InFlight
<1>3. UpdatersOverlap'
  BY DEF UpdatersOverlap
<1>4. Begun'
  BY DEF Begun, Active, InFlight
<1>5. ListInProgress'
  BY DEF ListInProgress, OwnWrite, RevokedCerts, SerialIsFresh, ListRow
<1>6. SerialIsFresh'
  BY DEF SerialIsFresh, ListRow
<1>7. NoFalseRevocation'
  BY DEF NoFalseRevocation, RevokedCerts
<1>8. RevokedIsListed'
  BY DEF RevokedIsListed, RevokedCerts
<1>9. QED BY <1>1, <1>2, <1>3, <1>4, <1>5, <1>6, <1>7, <1>8

\* A commit preserves it: the revocation and the list that names it appear together.
LEMMA CommitIInv ==
    ASSUME IInv, NEW r \in Requests, Commit(r)
    PROVE  IInv'
<1> USE RequestAssumption, NoneAssumption DEF IInv, TypeOK, GoTo, Commit, Unlock, NoRow
<1>1. TypeOK'
  BY DEF Steps, ListRow, OwnWrite
<1>2. OverlapIsRecorded'
  BY DEF OverlapIsRecorded, Active, InFlight
<1>3. UpdatersOverlap'
  BY DEF UpdatersOverlap, Active, InFlight, OverlapIsRecorded, Requests
<1>4. Begun'
  BY DEF Begun, Active, InFlight
<1>5. ListInProgress'
  BY DEF ListInProgress, OwnWrite, RevokedCerts, Active, InFlight, OverlapIsRecorded
<1>6. SerialIsFresh'
  BY DEF SerialIsFresh, ListInProgress
<1>7. NoFalseRevocation'
  <2>1. RevokedCerts \subseteq RevokedCerts'
    BY DEF RevokedCerts
  <2>2. OwnWrite(r) \subseteq RevokedCerts'
    BY DEF RevokedCerts, OwnWrite, Begun, Active, InFlight
  <2>3. row[r].cids \subseteq RevokedCerts'
    BY <2>1, <2>2 DEF ListInProgress
  <2>4. QED BY <2>1, <2>3 DEF NoFalseRevocation
<1>8. RevokedIsListed'
  BY DEF RevokedIsListed, RevokedCerts, ListInProgress
<1>9. QED BY <1>1, <1>2, <1>3, <1>4, <1>5, <1>6, <1>7, <1>8

\* A rollback preserves it: nothing the transaction wrote remains.
LEMMA FailIInv ==
    ASSUME IInv, NEW r \in Requests, Fail(r)
    PROVE  IInv'
<1> USE RequestAssumption, NoneAssumption DEF IInv, TypeOK, GoTo, Fail, Unlock, NoRow
<1>1. TypeOK'
  BY DEF Steps, ListRow
<1>2. OverlapIsRecorded'
  BY DEF OverlapIsRecorded, Active
<1>3. UpdatersOverlap'
  BY DEF UpdatersOverlap
<1>4. Begun'
  BY DEF Begun, Active, InFlight
<1>5. ListInProgress'
  BY DEF ListInProgress, OwnWrite, RevokedCerts
<1>6. SerialIsFresh'
  BY DEF SerialIsFresh
<1>7. NoFalseRevocation'
  BY DEF NoFalseRevocation, RevokedCerts
<1>8. RevokedIsListed'
  BY DEF RevokedIsListed, RevokedCerts
<1>9. QED BY <1>1, <1>2, <1>3, <1>4, <1>5, <1>6, <1>7, <1>8

\* Every step of the system preserves it.
LEMMA StepIInv == IInv /\ [Next]_vars => IInv'
<1> SUFFICES ASSUME IInv, [Next]_vars PROVE IInv'
  OBVIOUS
<1>1. CASE UNCHANGED vars
  BY <1>1 DEF vars, IInv, TypeOK, OverlapIsRecorded, UpdatersOverlap, Begun, ListInProgress,
              SerialIsFresh, NoFalseRevocation, RevokedIsListed, Active, RevokedCerts, OwnWrite
<1>2. ASSUME NEW r \in Requests,
             BeginRevoke(r) \/ BeginFetch(r) \/ Step(r) \/ Fail(r)
      PROVE  IInv'
  <2>1. CASE BeginRevoke(r)
    BY <2>1, BeginIInv DEF BeginRevoke
  <2>2. CASE BeginFetch(r)
    BY <2>2, BeginIInv, RequestAssumption DEF BeginFetch
  <2>3. CASE Step(r)
    BY <2>3, ReadCertificateIInv, UpdateCertificateIInv, ReadNewestListIInv,
       SelectRevokedIInv, InsertListIInv, CommitIInv DEF Step
  <2>4. CASE Fail(r)
    BY <2>4, FailIInv
  <2>5. QED BY <1>2, <2>1, <2>2, <2>3, <2>4
<1>3. QED BY <1>1, <1>2 DEF Next

\* The inductive invariant holds in every reachable state, for any number of
\* certificates and of requests to the backend.
THEOREM IInvHolds == Spec => []IInv
<1>1. Init => IInv
  BY InitIInv
<1>2. IInv /\ [Next]_vars => IInv'
  BY StepIInv
<1>3. QED BY <1>1, <1>2, PTL DEF Spec

\* The revocation state keeps its types.
THEOREM TypeCorrect == Spec => []TypeOK
BY IInvHolds, PTL DEF IInv

\* No signed list names a certificate that was not revoked, whatever was rolled back.
THEOREM NoFalseRevocationHolds == Spec => []NoFalseRevocation
BY IInvHolds, PTL DEF IInv

\* A committed revocation is always on a committed list.
THEOREM RevokedIsListedHolds == Spec => []RevokedIsListed
BY IInvHolds, PTL DEF IInv

\* Only a commit takes a request from "commit" to "done".
LEMMA OnlyCommitEnds ==
    ASSUME IInv, NEW r \in Requests, pc[r] = "commit", [Next]_vars, pc'[r] = "done"
    PROVE  Commit(r)
BY DEF IInv, TypeOK, Next, vars, BeginRevoke, BeginFetch, Begin, Step, Fail, GoTo, Requests,
       ReadCertificate, UpdateCertificate, ReadNewestList, SelectRevoked, InsertList, Commit

\* A request that ran alone commits the newest list and it names every revoked
\* certificate, whatever earlier overlaps left out.
THEOREM SoloPublishHealsHolds == Spec => SoloPublishHeals
<1>1. ASSUME IInv, NEW r \in Requests, [Next]_vars,
             pc[r] = "commit", pc'[r] = "done", r \notin overlapped
      PROVE  NewestCoversRevoked'
  <2>1. Commit(r)
    BY <1>1, OnlyCommitEnds
  <2>2. row[r] \in lists' /\ \A l \in lists : l.id < row[r].id
    BY <1>1, <2>1 DEF IInv, ListInProgress, Commit
  <2>3. RevokedCerts' \subseteq row[r].cids
    BY <1>1, <2>1, NoneAssumption DEF IInv, ListInProgress, Commit, RevokedCerts
  <2>4. ASSUME NEW l \in lists', IsNewest(l)'
        PROVE  l = row[r]
    BY <2>1, <2>2, <2>4, <1>1 DEF IsNewest, Commit, IInv, TypeOK, ListRow
  <2>5. QED BY <2>3, <2>4 DEF NewestCoversRevoked
<1>2. IInv /\ [Next]_vars
        => [\A r \in Requests :
              /\ pc[r] = "commit" /\ pc'[r] = "done" /\ r \notin overlapped
              => NewestCoversRevoked']_vars
  BY <1>1
<1>3. QED BY <1>2, IInvHolds, PTL DEF Spec, SoloPublishHeals

\* Only requests that overlap can change what is recorded about a revocation.
THEOREM SequentialRevokeKeepsReasonHolds == Spec => SequentialRevokeKeepsReason
<1>1. ASSUME IInv, [Next]_vars, NEW c \in Certs,
             revoked[c] # None, revoked'[c] # revoked[c]
      PROVE  revoked[c] \in overlapped /\ revoked'[c] \in overlapped
  <2>1. PICK r \in Requests : Commit(r)
    BY <1>1 DEF Next, vars, BeginRevoke, BeginFetch, Begin, Step, Fail, ReadCertificate,
                UpdateCertificate, ReadNewestList, SelectRevoked, InsertList
  <2>2. c \in OwnWrite(r) /\ revoked'[c] = r
    BY <1>1, <2>1 DEF Commit
  <2>3. r \in Revokes /\ target[r] = c
    BY <2>2 DEF OwnWrite
  <2>4. QED BY <1>1, <2>1, <2>2, <2>3 DEF IInv, UpdatersOverlap, Commit
<1>2. IInv /\ [Next]_vars
        => [\A c \in Certs :
              revoked[c] # None /\ revoked'[c] # revoked[c]
              => revoked[c] \in overlapped /\ revoked'[c] \in overlapped]_vars
  BY <1>1
<1>3. QED BY <1>2, IInvHolds, PTL DEF Spec, SequentialRevokeKeepsReason

\* What the verify page has shown REVOKED it goes on showing so, unless requests have
\* overlapped: the next list is newer and names every revoked certificate.
THEOREM VerdictStableHolds == Spec => VerdictStable
<1>1. ASSUME IInv, [Next]_vars, NEW c \in Certs, ShownRevoked(c), overlapped = {}
      PROVE  ShownRevoked(c)'
  <2>1. PICK l \in lists : IsNewest(l) /\ c \in l.cids
    BY <1>1 DEF ShownRevoked
  <2>2. CASE lists' = lists
    BY <2>1, <2>2 DEF ShownRevoked, IsNewest
  <2>3. CASE lists' # lists
    <3>1. PICK r \in Requests : Commit(r)
      BY <1>1, <2>3 DEF Next, vars, BeginRevoke, BeginFetch, Begin, Step, Fail, ReadCertificate,
                        UpdateCertificate, ReadNewestList, SelectRevoked, InsertList
    <3>2. PICK new : new = row[r]
      OBVIOUS
    <3>3. RevokedCerts \subseteq new.cids /\ \A m \in lists : m.id < new.id
      BY <1>1, <3>1, <3>2 DEF IInv, ListInProgress, Commit
    <3>4. new.id \in Nat /\ \A m \in lists : m.id \in Nat
      BY <1>1, <3>2 DEF IInv, TypeOK, ListRow
    <3>5. new \in lists' /\ IsNewest(new)'
      BY <3>1, <3>2, <3>3, <3>4 DEF Commit, IsNewest
    <3>6. c \in new.cids
      BY <1>1, <2>1, <3>3 DEF IInv, NoFalseRevocation
    <3>7. QED BY <3>5, <3>6 DEF ShownRevoked
  <2>4. QED BY <2>2, <2>3
<1>2. IInv /\ [Next]_vars
        => [\A c \in Certs : ShownRevoked(c) => ShownRevoked(c)' \/ overlapped # {}]_vars
  BY <1>1
<1>3. QED BY <1>2, IInvHolds, PTL DEF Spec, VerdictStable
=============================================================================
