--------------------------- MODULE DevicesProofs ---------------------------
(***************************************************************************)
(* The identity of a phone, for any number of requests, keys and times,    *)
(* and any limits.                                                         *)
(***************************************************************************)
EXTENDS Devices, FiniteSetTheorems, SequenceTheorems, WellFoundedInduction, TLAPS

-----------------------------------------------------------------------------
(* The limiter's deque *)

\* A set of natural numbers that is not empty has a least one.
LEMMA LeastNumber ==
    ASSUME NEW S \in SUBSET Nat, S # {}
    PROVE  \E m \in S : \A y \in S : m <= y
<1>1. PICK R : R = OpToRel(<, Nat)
  OBVIOUS
<1>2. \A x, y \in Nat : <<x, y>> \in R <=> x < y
  BY <1>1 DEF OpToRel
<1>3. IsWellFoundedOn(R, Nat)
  BY <1>1, NatLessThanWellFounded
<1>4. PICK m \in S : \A y \in S : ~(<<y, m>> \in R)
  BY <1>3, WFMin
<1>5. ASSUME NEW y \in S PROVE m <= y
  <2>1. m \in Nat /\ y \in Nat /\ ~(<<y, m>> \in R)
    BY <1>4
  <2>2. ~(y < m)
    BY <1>2, <2>1
  <2>3. QED BY <2>1, <2>2
<1>6. QED BY <1>5

\* The bounds are numbers.
LEMMA TimesAreInts == Times \subseteq Int /\ Keys \subseteq Int /\ Window \in Int /\ Validity \in Nat /\ MaxTime \in Nat
<1>1. MaxTime \in Nat /\ MaxKeys \in Nat /\ Window \in Nat /\ Validity \in Nat
  BY BoundAssumption
<1>2. QED BY <1>1 DEF Times, Keys

Sorted(times) == \A i, j \in DOMAIN times : i <= j => times[i] <= times[j]

\* kept is times without a beginning that is old.
IsRecentPart(kept, times) ==
    LET dropped == Len(times) - Len(kept)
    IN  /\ kept \in Seq(Times)
        /\ dropped \in 0 .. Len(times)
        /\ \A i \in DOMAIN kept : kept[i] = times[dropped + i]
        /\ \A i \in DOMAIN kept : ~Old(kept[i])
        /\ \A i \in 1 .. dropped : Old(times[i])

\* Pruning drops the old times and no other, because they are the first ones.
LEMMA RecentDropsOld ==
    ASSUME now \in Times, NEW times \in Seq(Times), Sorted(times)
    PROVE  IsRecentPart(Recent(times), times)
<1>0. PICK kept, dropped : kept = Recent(times) /\ dropped = Len(times) - Len(kept)
  OBVIOUS
<1> DEFINE S == {i \in DOMAIN times : ~Old(times[i])}
<1>1. Recent(times) = IF S = {} THEN <<>> ELSE SubSeq(times, Min(S), Len(times))
  BY DEF Recent
<1>2. CASE S = {}
  <2>1. kept = <<>> /\ dropped = Len(times)
    BY <1>0, <1>1, <1>2
  <2>2. QED BY <1>0, <1>2, <2>1 DEF IsRecentPart
<1>3. CASE S # {}
  <2>1. S \in SUBSET Nat /\ DOMAIN times = 1 .. Len(times) /\ Len(times) \in Nat
    OBVIOUS
  <2>2. PICK m \in S : \A y \in S : m <= y
    <3> HIDE DEF S
    <3>1. QED BY <1>3, <2>1, LeastNumber
  <2>3. PICK n : n = Min(S) /\ n \in S /\ \A y \in S : n <= y
    <3> HIDE DEF S
    <3>1. QED BY <2>2 DEF Min
  <2>4. kept = SubSeq(times, n, Len(times)) /\ n \in 1 .. Len(times)
    BY <1>0, <1>1, <1>3, <2>1, <2>3
  <2> DEFINE len == Len(times)
  <2>5. Len(kept) = len - n + 1 /\ kept \in Seq(Times)
        /\ \A i \in DOMAIN kept : kept[i] = times[n + i - 1]
    <3>1. n \in 1 .. len + 1 /\ len \in 0 .. len /\ n <= len
      BY <2>1, <2>4
    <3>2. /\ SubSeq(times, n, len) \in Seq(Times)
          /\ Len(SubSeq(times, n, len)) = len - n + 1
          /\ \A i \in 1 .. len - n + 1 : SubSeq(times, n, len)[i] = times[n + i - 1]
      BY <3>1, <2>1, SubSeqProperties
    <3>3. QED BY <3>1, <3>2, <2>1, <2>4
  <2>6. dropped = n - 1
    BY <1>0, <2>1, <2>4, <2>5
  <2>7. ASSUME NEW i \in 1 .. dropped PROVE Old(times[i])
    <3>1. i \in DOMAIN times /\ i < n
      BY <2>1, <2>4, <2>6
    <3>2. i \notin S
      <4> HIDE DEF S
      <4>1. QED BY <2>1, <2>3, <3>1
    <3>3. QED BY <3>1, <3>2
  <2>8. \A i \in DOMAIN kept : kept[i] = times[dropped + i] /\ dropped + i \in DOMAIN times
    BY <2>1, <2>4, <2>5, <2>6
  <2>9. ASSUME NEW i \in DOMAIN times, n <= i PROVE ~Old(times[i])
    <3>0. n \in DOMAIN times
      BY <2>1, <2>4
    <3>1. times[n] <= times[i]
      BY <2>9, <3>0 DEF Sorted
    <3>2. times[n] \in Times /\ times[i] \in Times
      BY <2>9, <3>0
    <3>3. ~Old(times[n])
      BY <2>3
    <3>4. times[n] \in Int /\ times[i] \in Int /\ now \in Int
      BY <3>2, TimesAreInts
    <3>5. QED BY <3>1, <3>3, <3>4, TimesAreInts DEF Old
  <2>10. \A i \in DOMAIN kept : ~Old(kept[i])
    BY <2>1, <2>4, <2>5, <2>6, <2>8, <2>9
  <2>11. QED
    BY <1>0, <2>1, <2>4, <2>5, <2>6, <2>7, <2>8, <2>10 DEF IsRecentPart
<1>4. QED BY <1>2, <1>3

InWindow == {i \in DOMAIN admitted : now - admitted[i] < Window}

\* What is left of the deque are the admissions in the window that ends now.
LEMMA DequeIsWindow ==
    ASSUME TypeOK, DequeIsRecent, NEW kept, kept = Recent(hits),
           NEW gone, gone = Len(admitted) - Len(kept)
    PROVE  /\ kept \in Seq(Times)
           /\ gone \in 0 .. Len(admitted)
           /\ \A i \in DOMAIN kept : kept[i] = admitted[gone + i]
           /\ \A i \in 1 .. gone : Old(admitted[i])
           /\ Cardinality(InWindow) = Len(kept)
<1> DEFINE dropped == Len(admitted) - Len(hits)
<1>1. /\ hits \in Seq(Times) /\ admitted \in Seq(Times) /\ now \in Times
      /\ dropped \in Nat
      /\ \A i \in DOMAIN hits : hits[i] = admitted[dropped + i] /\ dropped + i \in DOMAIN admitted
      /\ \A i \in 1 .. dropped : Old(admitted[i])
      /\ Sorted(admitted)
  BY DEF TypeOK, DequeIsRecent, Sorted
<1>2. Sorted(hits)
  BY <1>1 DEF Sorted
<1> HIDE DEF dropped
<1>3. PICK d : d = Len(hits) - Len(kept)
  OBVIOUS
<1>4. /\ kept \in Seq(Times)
      /\ d \in 0 .. Len(hits)
      /\ \A i \in DOMAIN kept : kept[i] = hits[d + i]
      /\ \A i \in DOMAIN kept : ~Old(kept[i])
      /\ \A i \in 1 .. d : Old(hits[i])
  <2>1. hits \in Seq(Times) /\ Sorted(hits) /\ now \in Times /\ kept = Recent(hits)
    BY <1>1, <1>2
  <2>2. IsRecentPart(kept, hits)
    BY <2>1, RecentDropsOld
  <2>3. QED BY <1>3, <2>2 DEF IsRecentPart
<1>5. gone = dropped + d /\ gone \in 0 .. Len(admitted) /\ Len(hits) = Len(admitted) - dropped
  BY <1>1, <1>3, <1>4 DEF dropped
<1>6. \A i \in DOMAIN kept : kept[i] = admitted[gone + i] /\ gone + i \in DOMAIN admitted
  BY <1>1, <1>3, <1>4, <1>5
<1>7. \A i \in 1 .. gone : Old(admitted[i])
  <2> SUFFICES ASSUME NEW i \in 1 .. gone PROVE Old(admitted[i])
    OBVIOUS
  <2>1. CASE i <= dropped
    BY <1>1, <1>5, <2>1
  <2>2. CASE i > dropped
    <3>1. i - dropped \in 1 .. d /\ i - dropped \in DOMAIN hits
      BY <1>1, <1>4, <1>5, <2>2
    <3>2. hits[i - dropped] = admitted[i]
      BY <1>1, <1>5, <3>1
    <3>3. QED BY <1>4, <3>1, <3>2
  <2>3. QED BY <1>1, <1>5, <2>1, <2>2
<1>8. \A i \in DOMAIN admitted : i > gone => ~Old(admitted[i])
  <2> SUFFICES ASSUME NEW i \in DOMAIN admitted, i > gone PROVE ~Old(admitted[i])
    OBVIOUS
  <2>1. i - gone \in DOMAIN kept /\ gone + (i - gone) = i
    BY <1>1, <1>3, <1>4, <1>5
  <2>2. QED BY <1>4, <1>6, <2>1
<1>9. InWindow = (gone + 1) .. Len(admitted)
  <2>1. ASSUME NEW i \in DOMAIN admitted PROVE ~Old(admitted[i]) <=> now - admitted[i] < Window
    <3>1. admitted[i] \in Times
      BY <1>1
    <3>2. admitted[i] \in Int /\ now \in Int
      BY <1>1, <3>1, TimesAreInts
    <3>3. QED BY <3>2, TimesAreInts DEF Old
  <2>2. DOMAIN admitted = 1 .. Len(admitted) /\ Len(admitted) \in Nat
    BY <1>1
  <2>3. ASSUME NEW i \in DOMAIN admitted PROVE now - admitted[i] < Window <=> i \in (gone + 1) .. Len(admitted)
    BY <1>5, <1>7, <1>8, <2>1, <2>2
  <2>4. QED BY <1>5, <2>2, <2>3 DEF InWindow
<1>10. Cardinality(InWindow) = Len(kept)
  <2>1. gone + 1 \in Int /\ Len(admitted) \in Int
    BY <1>1, <1>5
  <2>2. Cardinality(InWindow) = IF gone + 1 > Len(admitted) THEN 0 ELSE Len(admitted) - (gone + 1) + 1
    BY <1>9, <2>1, FS_Interval
  <2>3. QED BY <1>4, <1>5, <2>1, <2>2
<1>11. QED BY <1>4, <1>5, <1>6, <1>7, <1>10

-----------------------------------------------------------------------------
(* The steps *)

\* What only requests, the clock and the limiter change.
ServerIInv ==
    /\ RegisteredForGood /\ StatusIsForTheHolder
    /\ ReadsStand /\ OverlapIsRecorded /\ RowIsPast /\ DequeIsRecent

\* The server knows nothing of what the phone does before it calls.
LEMMA ServerUntouched ==
    ASSUME IInv, UNCHANGED <<now, device, hits, admitted, requests>>
    PROVE  ServerIInv'
<1>1. (RegisteredForGood /\ StatusIsForTheHolder /\ ReadsStand /\ OverlapIsRecorded)'
  BY DEF IInv, requests, RegisteredForGood, Registered, StatusIsForTheHolder, ReadsStand,
         OverlapIsRecorded, Active
<1>2. RowIsPast'
  BY DEF IInv, requests, RowIsPast, Active
<1>3. DequeIsRecent'
  BY DEF IInv, DequeIsRecent, Old
<1>4. QED BY <1>1, <1>2, <1>3 DEF ServerIInv

\* At first there is no key, no row and no request.
LEMMA InitIInv == Init => IInv
<1> SUFFICES ASSUME Init PROVE IInv
  OBVIOUS
<1> USE DEF Init
<1>1. TypeOK
  <2>1. made \in Keys /\ now \in Times
    <3>1. MaxKeys \in Nat /\ MaxTime \in Nat
      BY BoundAssumption
    <3>2. QED BY <3>1 DEF Keys, Times
  <2>2. hits \in Seq(Times) /\ admitted \in Seq(Times)
    OBVIOUS
  <2>3. QED BY <2>1, <2>2 DEF TypeOK
<1>2. SeedMatchesRow /\ Creating /\ OverlapIsRecorded /\ RowIsPast /\ DequeIsRecent
  BY NoneAssumption DEF SeedMatchesRow, Creating, OverlapIsRecorded, RowIsPast, DequeIsRecent, Active
<1>3. RegisteredForGood /\ StatusIsForTheHolder /\ ReadsStand
  BY NoneAssumption DEF RegisteredForGood, Registered, StatusIsForTheHolder, ReadsStand, Active
<1>4. QED BY <1>1, <1>2, <1>3 DEF IInv

\* createDevice: a key is made only when there is no row, and the row is of the key
\* that is in the secure store.
LEMMA PhoneIInv ==
    ASSUME IInv, StoreSeed \/ InsertDeviceRow \/ PhoneDies
    PROVE  IInv'
<1>1. UNCHANGED <<now, device, hits, admitted, requests>>
  BY DEF StoreSeed, InsertDeviceRow, PhoneDies
<1>2. ServerIInv'
  BY <1>1, ServerUntouched
<1>3. TypeOK'
  <2>1. /\ made' \in Keys
        /\ {seed', phoneRow'} \subseteq 1 .. MaxKeys \cup {None}
        /\ creating' \in BOOLEAN
    <3>1. MaxKeys \in Nat
      BY BoundAssumption
    <3>2. CASE StoreSeed
      BY <3>1, <3>2 DEF StoreSeed, IInv, TypeOK, Keys
    <3>3. CASE InsertDeviceRow
      BY <3>3 DEF InsertDeviceRow, IInv, TypeOK
    <3>4. CASE PhoneDies
      BY <3>4 DEF PhoneDies, IInv, TypeOK
    <3>5. QED BY <3>2, <3>3, <3>4
  <2>2. QED BY <1>1, <2>1 DEF IInv, TypeOK, requests
<1>4. (SeedMatchesRow /\ Creating)'
  <2>1. CASE StoreSeed
    <3>1. MaxKeys \in Nat
      BY BoundAssumption
    <3>2. made + 1 \in Keys
      BY <2>1, <3>1 DEF StoreSeed, IInv, TypeOK, Keys
    <3>3. QED BY <2>1, <3>2, NoneAssumption DEF StoreSeed, NeedsDevice, SeedMatchesRow, Creating
  <2>2. CASE InsertDeviceRow
    BY <2>2 DEF InsertDeviceRow, SeedMatchesRow, Creating
  <2>3. CASE PhoneDies
    BY <2>3 DEF PhoneDies, IInv, SeedMatchesRow, Creating
  <2>4. QED BY <2>1, <2>2, <2>3
<1>5. QED BY <1>2, <1>3, <1>4 DEF IInv, ServerIInv

\* Time only makes more of the deque old.
LEMMA TickIInv ==
    ASSUME IInv, Tick
    PROVE  IInv'
<1>1. UNCHANGED <<phone, device, hits, admitted, requests>> /\ now' = now + 1
      /\ now' \in Times /\ now \in Int /\ now' \in Int
  <2>1. MaxTime \in Nat
    BY BoundAssumption
  <2>2. QED BY <2>1 DEF Tick, IInv, TypeOK, Times
<1>2. TypeOK'
  BY <1>1 DEF IInv, TypeOK, phone, requests
<1>3. (SeedMatchesRow /\ Creating)'
  BY <1>1 DEF IInv, SeedMatchesRow, Creating, phone
<1>4. (RegisteredForGood /\ StatusIsForTheHolder /\ ReadsStand /\ OverlapIsRecorded)'
  BY <1>1 DEF IInv, requests, RegisteredForGood, Registered, StatusIsForTheHolder, ReadsStand,
              OverlapIsRecorded, Active
<1>5. RowIsPast'
  <2>1. device # None => NotAfter(device, now)'
    <3> SUFFICES ASSUME device # None PROVE NotAfter(device, now + 1)
      BY <1>1 DEF NotAfter
    <3>1. device \in Row
      BY DEF IInv, TypeOK
    <3>2. device.lastSeen # None => device.lastSeen \in Int
      BY <3>1, TimesAreInts DEF Row
    <3>3. device.attestation # None => device.attestation.exp \in Int
      BY <3>1 DEF Row
    <3>4. QED BY <1>1, <3>2, <3>3, TimesAreInts DEF IInv, RowIsPast, NotAfter
  <2>2. \A r \in Requests : call[r] # None => call[r].at <= now + 1
    <3> SUFFICES ASSUME NEW r \in Requests, call[r] # None PROVE call[r].at <= now + 1
      OBVIOUS
    <3>1. call[r] \in Call /\ call[r].at <= now
      BY DEF IInv, TypeOK, RowIsPast
    <3>2. call[r].at \in Int
      BY <3>1, TimesAreInts DEF Call
    <3>3. QED BY <1>1, <3>1, <3>2
  <2>3. QED BY <1>1, <2>1, <2>2 DEF IInv, RowIsPast, requests, Active
<1>6. DequeIsRecent'
  <2>1. ASSUME NEW i \in DOMAIN admitted
        PROVE  /\ Old(admitted[i]) => Old(admitted[i])'
               /\ admitted[i] <= now => admitted[i] <= now'
    <3>1. admitted[i] \in Times
      BY DEF IInv, TypeOK
    <3>2. admitted[i] \in Int
      BY <3>1, TimesAreInts
    <3>3. QED BY <1>1, <3>2, TimesAreInts DEF Old
  <2>2. \A i \in 1 .. Len(admitted) - Len(hits) : i \in DOMAIN admitted
    BY DEF IInv, TypeOK
  <2>3. QED BY <1>1, <2>1, <2>2 DEF IInv, DequeIsRecent
<1>7. QED BY <1>2, <1>3, <1>4, <1>5, <1>6 DEF IInv

\* A restart loses the deque and every request in flight.
LEMMA RestartIInv ==
    ASSUME IInv, ServerRestarts
    PROVE  IInv'
<1>1. /\ UNCHANGED <<phone, now, device, call, seen, overlapped>>
      /\ hits' = <<>> /\ admitted' = <<>>
      /\ answer' = [r \in Requests |-> IF Active(r) THEN "500" ELSE answer[r]]
  BY DEF ServerRestarts
<1>2. TypeOK'
  <2>1. hits' \in Seq(Times) /\ admitted' \in Seq(Times)
    BY <1>1
  <2>2. answer' \in [Requests -> Answers \cup {None}]
    BY <1>1 DEF IInv, TypeOK, Answers
  <2>3. QED BY <1>1, <2>1, <2>2 DEF IInv, TypeOK, phone
<1>3. (SeedMatchesRow /\ Creating)'
  BY <1>1 DEF IInv, SeedMatchesRow, Creating, phone
<1>4. \A r \in Requests : ~Active(r)'
  BY <1>1, NoneAssumption DEF Active, Answers
<1>5. RegisteredForGood'
  BY <1>1 DEF IInv, RegisteredForGood, Registered, Statuses
<1>6. StatusIsForTheHolder'
  BY <1>1 DEF IInv, StatusIsForTheHolder
<1>7. ReadsStand'
  BY <1>1, <1>4 DEF IInv, ReadsStand, Active
<1>8. (OverlapIsRecorded /\ RowIsPast /\ DequeIsRecent)'
  BY <1>1, <1>4 DEF IInv, OverlapIsRecorded, RowIsPast, DequeIsRecent
<1>9. QED BY <1>2, <1>3, <1>5, <1>6, <1>7, <1>8 DEF IInv

\* A device that is revoked keeps its key and its times.
LEMMA RevokeIInv ==
    ASSUME IInv, RevokeDevice
    PROVE  IInv'
<1>1. /\ device # None /\ device' = [device EXCEPT !.status = "revoked"]
      /\ overlapped' = overlapped \cup ActiveRequests
      /\ UNCHANGED <<phone, now, hits, admitted, call, seen, answer>>
  BY DEF RevokeDevice
<1>2. device \in Row /\ device' \in Row /\ device' # None
  BY <1>1, NoneAssumption DEF IInv, TypeOK, Row, Statuses
<1>3. /\ device'.key = device.key /\ device'.status = "revoked"
      /\ device'.attestation = device.attestation /\ device'.lastSeen = device.lastSeen
  BY <1>1, <1>2 DEF Row
<1>4. TypeOK'
  BY <1>1, <1>2, <1>3 DEF IInv, TypeOK, phone, ActiveRequests
<1>5. (SeedMatchesRow /\ Creating)'
  BY <1>1 DEF IInv, SeedMatchesRow, Creating, phone
<1>6. (RegisteredForGood /\ StatusIsForTheHolder /\ ReadsStand)'
  BY <1>1, <1>2, <1>3 DEF IInv, RegisteredForGood, Registered, StatusIsForTheHolder, ReadsStand,
                           Active
<1>7. OverlapIsRecorded'
  BY <1>1 DEF IInv, OverlapIsRecorded, Active
<1>8. RowIsPast'
  <2>1. \A r \in Requests : Active(r)' => r \in overlapped'
    BY <1>1 DEF Active, ActiveRequests
  <2>2. QED BY <1>1, <1>2, <1>3, <2>1 DEF IInv, RowIsPast, NotAfter
<1>9. DequeIsRecent'
  BY <1>1 DEF IInv, DequeIsRecent, Old
<1>10. QED BY <1>4, <1>5, <1>6, <1>7, <1>8, <1>9 DEF IInv

\* The calls that the phone signs.
Signed == {"poll", "sync"}

\* What a request that arrives may find at once, by its kind.
LEMMA BeginIInv ==
    ASSUME IInv, NEW r \in Requests, NEW c \in Call, c.at = now, Start(r, c),
           UNCHANGED <<phone, now, device>>,
           NEW row, seen' = [seen EXCEPT ![r] = row],
           NEW a \in Answers \cup {None}, answer' = [answer EXCEPT ![r] = a],
           row = Unread \/ (c.kind \in Signed /\ row = device /\ device # None /\ device.key = c.key),
           a = None /\ c.kind \in Signed => row # Unread,
           c.kind = "register" => a \notin Statuses \cup {"409"},
           c.kind \in Signed => a \in {None, "401"} \/ (device # None /\ device.key = c.key),
           hits' \in Seq(Times), admitted' \in Seq(Times), DequeIsRecent'
    PROVE  IInv'
<1> USE DEF IInv
<1>1. /\ call[r] = None /\ call' = [call EXCEPT ![r] = c]
      /\ overlapped' = overlapped \cup (IF ActiveRequests = {} THEN {} ELSE ActiveRequests \cup {r})
  BY DEF Start
<1>2. /\ call'[r] = c /\ seen'[r] = row /\ answer'[r] = a
      /\ \A s \in Requests \ {r} : call'[s] = call[s] /\ seen'[s] = seen[s] /\ answer'[s] = answer[s]
  BY <1>1 DEF TypeOK
<1>3. /\ \A s \in Requests \ {r} : Active(s)' = Active(s)
      /\ c # None
  BY <1>2, NoneAssumption DEF Active
<1>4. device # None => device \in Row
  BY DEF TypeOK
<1>5. TypeOK'
  <2>1. call' \in [Requests -> Call \cup {None}] /\ answer' \in [Requests -> Answers \cup {None}]
    BY <1>1 DEF TypeOK
  <2>2. seen' \in [Requests -> Row \cup {None, Unread}]
    BY <1>4 DEF TypeOK
  <2>3. overlapped' \subseteq Requests
    BY <1>1 DEF TypeOK, ActiveRequests
  <2>4. QED BY <2>1, <2>2, <2>3 DEF TypeOK, phone
<1>6. (SeedMatchesRow /\ Creating)'
  BY DEF SeedMatchesRow, Creating, phone
<1>7. RegisteredForGood'
  BY <1>2 DEF RegisteredForGood, Registered, ReadsStand
<1>8. StatusIsForTheHolder'
  BY <1>2 DEF StatusIsForTheHolder, Permitted, Signed
<1>9. ReadsStand'
  <2> SUFFICES ASSUME NEW s \in Requests
      PROVE  /\ call'[s] = None => answer'[s] = None /\ seen'[s] = Unread
             /\ seen'[s] \in Row => device # None /\ seen'[s].key = device.key
             /\ Active(s)' =>
                  CASE call'[s].kind = "register" -> seen'[s] \in {None, Unread}
                    [] call'[s].kind = "approve" ->
                          seen'[s] = Unread \/ (seen'[s] \in Row /\ Approvable(seen'[s]))
                    [] OTHER -> seen'[s] \in Row /\ seen'[s].key = call'[s].key
             /\ call'[s] # None /\ call'[s].kind = "register" /\ answer'[s] = "409"
                  => device # None /\ device.key # call'[s].key
    BY DEF ReadsStand, Approvable
  <2>1. CASE s # r
    BY <1>2, <1>3, <2>1 DEF ReadsStand
  <2>2. CASE s = r
    <3>1. c.kind \in {"register", "approve"} \cup Signed
      BY DEF Call, Signed
    <3>2. QED BY <1>2, <1>3, <1>4, <2>2, <3>1, NoneAssumption DEF Active, Signed
  <2>3. QED BY <2>1, <2>2
<1>10. OverlapIsRecorded'
  <2>1. \A s \in Requests \ {r} : Active(s) => s \in overlapped' /\ r \in overlapped'
    BY <1>1 DEF ActiveRequests
  <2>2. QED BY <1>3, <2>1 DEF OverlapIsRecorded
<1>11. RowIsPast'
  <2> SUFFICES ASSUME NEW s \in Requests
      PROVE  /\ call'[s] # None => call'[s].at <= now
             /\ Active(s)' /\ s \notin overlapped' =>
                  seen'[s] \in {Unread, device} /\ (device # None => NotAfter(device, call'[s].at))
    BY DEF RowIsPast, NotAfter
  <2>1. CASE s # r
    BY <1>1, <1>2, <1>3, <2>1 DEF RowIsPast
  <2>2. CASE s = r
    <3>1. now \in Int
      BY TimesAreInts DEF TypeOK
    <3>2. QED BY <1>2, <2>2, <3>1 DEF RowIsPast
  <2>3. QED BY <2>1, <2>2
<1>12. QED BY <1>5, <1>6, <1>7, <1>8, <1>9, <1>10, <1>11

\* A step of a request in flight reads the row, or ends the request and may write the row.
LEMMA GoOnIInv ==
    ASSUME IInv, NEW r \in Requests, Active(r),
           UNCHANGED <<phone, now, hits, admitted, call, overlapped>>,
           NEW row, seen' = [seen EXCEPT ![r] = row],
           NEW a \in Answers \cup {None}, answer' = [answer EXCEPT ![r] = a],
           device' # device =>
             /\ a # None /\ device' \in Row /\ NotAfter(device', now)
             /\ device # None => device'.key = device.key
             /\ device'.status = "approved" =>
                   device'.attestation # None /\ device'.attestation.dpk = device'.key,
           row \in {seen[r], device},
           a = None =>
             /\ row = device
             /\ \/ call[r].kind = "register" /\ device = None
                \/ call[r].kind = "approve" /\ device # None /\ Approvable(device),
           call[r].kind = "register" /\ a \in Statuses => device' # None /\ device'.key = call[r].key,
           call[r].kind = "register" /\ a = "409" => device' # None /\ device'.key # call[r].key,
           call[r].kind \in Signed /\ a # "500" => device' # None /\ device'.key = call[r].key
    PROVE  IInv'
<1> USE DEF IInv
<1>1. /\ seen'[r] = row /\ answer'[r] = a /\ call' = call
      /\ \A s \in Requests \ {r} : seen'[s] = seen[s] /\ answer'[s] = answer[s]
      /\ \A s \in Requests \ {r} : Active(s)' = Active(s)
  BY DEF TypeOK, Active
<1>2. /\ device' \in Row \cup {None}
      /\ device # None => device' # None /\ device'.key = device.key
      /\ Active(r)' => device' = device
  BY <1>1, NoneAssumption DEF TypeOK, Active
<1>3. \A s \in Requests \ {r} : Active(s) /\ s \notin overlapped => FALSE
  BY DEF OverlapIsRecorded
<1>4. TypeOK'
  <2>1. answer' \in [Requests -> Answers \cup {None}]
    BY DEF TypeOK
  <2>2. seen' \in [Requests -> Row \cup {None, Unread}]
    BY DEF TypeOK
  <2>3. device' # None /\ device'.status = "approved" =>
           device'.attestation # None /\ device'.attestation.dpk = device'.key
    BY DEF TypeOK
  <2>4. QED BY <1>2, <2>1, <2>2, <2>3 DEF TypeOK, phone
<1>5. (SeedMatchesRow /\ Creating)'
  BY DEF SeedMatchesRow, Creating, phone
<1>6. \A s \in Requests :
         call[s] # None /\ call[s].kind = "register" =>
            /\ answer'[s] \in Statuses => device' # None /\ device'.key = call[s].key
            /\ answer'[s] = "409" => device' # None /\ device'.key # call[s].key
  BY <1>1, <1>2 DEF RegisteredForGood, Registered, ReadsStand
<1>7. RegisteredForGood'
  BY <1>1, <1>6 DEF RegisteredForGood, Registered
<1>8. StatusIsForTheHolder'
  <2> SUFFICES ASSUME NEW s \in Requests, call[s] # None, call[s].kind \in Signed,
                      answer'[s] \notin {None, "401", "500"}
               PROVE  device' # None /\ device'.key = call[s].key
    BY <1>1 DEF StatusIsForTheHolder, Permitted, Signed
  <2>1. CASE s = r
    BY <1>1, <2>1
  <2>2. CASE s # r
    <3>1. device # None /\ device.key = call[s].key
      BY <1>1, <2>2 DEF StatusIsForTheHolder, Permitted, Signed
    <3>2. QED BY <1>2, <3>1, <2>2
  <2>3. QED BY <2>1, <2>2
<1>9. ReadsStand'
  <2> SUFFICES ASSUME NEW s \in Requests
      PROVE  /\ call[s] = None => answer'[s] = None /\ seen'[s] = Unread
             /\ seen'[s] \in Row => device' # None /\ seen'[s].key = device'.key
             /\ Active(s)' =>
                  CASE call[s].kind = "register" -> seen'[s] \in {None, Unread}
                    [] call[s].kind = "approve" ->
                          seen'[s] = Unread \/ (seen'[s] \in Row /\ Approvable(seen'[s]))
                    [] OTHER -> seen'[s] \in Row /\ seen'[s].key = call[s].key
    BY <1>1, <1>6 DEF ReadsStand, Approvable
  <2>1. CASE s # r
    BY <1>1, <1>2, <2>1 DEF ReadsStand
  <2>2. CASE s = r
    <3>1. call[r] # None
      BY DEF Active
    <3>2. row \in Row => device # None /\ row.key = device.key
      BY NoneAssumption DEF ReadsStand
    <3>3. device # None => device \in Row
      BY DEF TypeOK
    <3>4. QED BY <1>1, <1>2, <2>2, <3>1, <3>2, <3>3 DEF Active
  <2>3. QED BY <2>1, <2>2
<1>10. OverlapIsRecorded'
  BY <1>1 DEF OverlapIsRecorded, Active
<1>11. RowIsPast'
  <2>1. device' # None => NotAfter(device', now)
    BY DEF RowIsPast
  <2>2. ASSUME NEW s \in Requests, Active(s)', s \notin overlapped
        PROVE  seen'[s] \in {Unread, device'} /\ (device' # None => NotAfter(device', call[s].at))
    BY <1>1, <1>2, <1>3, <2>2 DEF RowIsPast, Active
  <2>3. QED BY <2>1, <2>2 DEF RowIsPast, NotAfter
<1>12. DequeIsRecent'
  BY DEF DequeIsRecent, Old
<1>13. QED BY <1>4, <1>5, <1>7, <1>8, <1>9, <1>10, <1>11, <1>12

\* A registration: admitted or not, what the limiter remembers is recent.
LEMMA BeginRegisterIInv ==
    ASSUME IInv, NEW r \in Requests, NEW key \in PhoneKeys, NEW site, BeginRegister(r, key, site)
    PROVE  IInv'
<1> DEFINE kept == Recent(hits)
           c == [kind |-> "register", key |-> key, at |-> now]
           gone == Len(admitted) - Len(kept)
<1>1. /\ Start(r, c) /\ UNCHANGED <<phone, now, device, seen>>
      /\ \/ hits' = kept /\ admitted' = admitted
         \/ hits' = Append(kept, now) /\ admitted' = Append(admitted, now)
      /\ \E a \in {"429", "422", None} : answer' = [answer EXCEPT ![r] = a]
  <2>1. call[r] = None /\ answer[r] = None /\ answer = [answer EXCEPT ![r] = None]
    BY DEF BeginRegister, Start, IInv, ReadsStand, TypeOK
  <2>2. answer' = answer \/ answer' = [answer EXCEPT ![r] = "429"] \/ answer' = [answer EXCEPT ![r] = "422"]
    BY DEF BeginRegister, Reply
  <2>3. QED BY <2>1, <2>2 DEF BeginRegister
<1>2. PICK a \in {"429", "422", None} : answer' = [answer EXCEPT ![r] = a]
  BY <1>1
<1>3. a \in Answers \cup {None} /\ a \notin Statuses \cup {"409"}
  BY NoneAssumption DEF Answers, Statuses
<1>4. c \in Call /\ c.at = now /\ c.kind = "register"
  <2>1. key \in Keys /\ now \in Times
    BY BoundAssumption DEF PhoneKeys, IInv, TypeOK, Keys, Foreign
  <2>2. QED BY <2>1 DEF Call
<1>5. seen' = [seen EXCEPT ![r] = Unread]
  BY <1>1 DEF Start, IInv, ReadsStand, TypeOK
<1>6. /\ kept \in Seq(Times)
      /\ gone \in 0 .. Len(admitted)
      /\ \A i \in DOMAIN kept : kept[i] = admitted[gone + i]
      /\ \A i \in 1 .. gone : Old(admitted[i])
  BY DequeIsWindow DEF IInv
<1>7. /\ admitted \in Seq(Times) /\ now \in Times /\ now' = now /\ now \in Int
      /\ \A i, j \in DOMAIN admitted : i <= j => admitted[i] <= admitted[j]
      /\ \A i \in DOMAIN admitted : admitted[i] <= now
  BY <1>1, TimesAreInts DEF IInv, TypeOK, DequeIsRecent
<1> HIDE DEF kept, gone
<1>8. hits' \in Seq(Times) /\ admitted' \in Seq(Times)
  <2>1. Append(kept, now) \in Seq(Times) /\ Append(admitted, now) \in Seq(Times)
    BY <1>6, <1>7
  <2>2. QED BY <1>1, <1>6, <1>7, <2>1
<1>9. DequeIsRecent'
  <2>1. CASE hits' = kept /\ admitted' = admitted
    BY <1>6, <1>7, <2>1 DEF DequeIsRecent, Old, gone
  <2>2. CASE hits' = Append(kept, now) /\ admitted' = Append(admitted, now)
    <3>1. /\ Len(admitted') = Len(admitted) + 1 /\ Len(hits') = Len(kept) + 1
          /\ Len(kept) = Len(admitted) - gone
          /\ \A i \in DOMAIN admitted' :
                 admitted'[i] = IF i = Len(admitted) + 1 THEN now ELSE admitted[i]
          /\ \A i \in DOMAIN hits' : hits'[i] = IF i = Len(kept) + 1 THEN now ELSE kept[i]
      BY <1>6, <1>7, <2>2 DEF gone
    <3>2. Len(admitted') - Len(hits') = gone
      BY <1>6, <1>7, <3>1
    <3>3. \A i \in DOMAIN hits' : hits'[i] = admitted'[gone + i]
      BY <1>6, <1>7, <1>8, <3>1
    <3>4. ASSUME NEW i \in 1 .. gone PROVE Old(admitted'[i])
      <4>1. i \in DOMAIN admitted' /\ i # Len(admitted) + 1
        BY <1>6, <1>7, <1>8, <3>1
      <4>2. admitted'[i] = admitted[i]
        BY <3>1, <4>1
      <4>3. QED BY <1>6, <4>2
    <3>5. \A i \in DOMAIN admitted' : admitted'[i] <= now
      BY <1>7, <1>8, <3>1
    <3>6. \A i, j \in DOMAIN admitted' : i <= j => admitted'[i] <= admitted'[j]
      <4> SUFFICES ASSUME NEW i \in DOMAIN admitted', NEW j \in DOMAIN admitted', i <= j
                   PROVE  admitted'[i] <= admitted'[j]
        OBVIOUS
      <4>1. CASE j = Len(admitted) + 1
        BY <3>1, <3>5, <4>1
      <4>2. CASE j # Len(admitted) + 1
        <5>1. i \in DOMAIN admitted /\ j \in DOMAIN admitted
          BY <1>7, <1>8, <3>1, <4>2
        <5>2. admitted'[i] = admitted[i] /\ admitted'[j] = admitted[j]
          BY <1>7, <3>1, <4>2, <5>1
        <5>3. QED BY <1>7, <5>1, <5>2
      <4>3. QED BY <4>1, <4>2
    <3>7. QED BY <1>6, <1>7, <3>2, <3>3, <3>4, <3>5, <3>6 DEF DequeIsRecent, Old
  <2>3. QED BY <1>1, <2>1, <2>2
<1>10. QED
  <2>1. PICK d : d = c
    OBVIOUS
  <2> HIDE DEF c
  <2>2. d.kind \notin Signed
    BY <1>4, <2>1 DEF Signed
  <2>3. QED BY <1>1, <1>2, <1>3, <1>4, <1>5, <1>8, <1>9, <2>1, <2>2, BeginIInv

\* The deque is as recent as it was when neither it nor the clock moves.
LEMMA DequeUntouched ==
    ASSUME IInv, UNCHANGED <<now, hits, admitted>>
    PROVE  DequeIsRecent' /\ hits' \in Seq(Times) /\ admitted' \in Seq(Times)
BY DEF IInv, TypeOK, DequeIsRecent, Old

\* An approval without the role ends at once.
LEMMA BeginApproveIInv ==
    ASSUME IInv, NEW r \in Requests, NEW role \in Roles, BeginApprove(r, role)
    PROVE  IInv'
<1>1. PICK c : c = [kind |-> "approve", key |-> Foreign, at |-> now]
  OBVIOUS
<1>2. c \in Call /\ c.at = now /\ c.kind = "approve" /\ c.kind \notin Signed
  BY <1>1, BoundAssumption DEF Call, Keys, Foreign, IInv, TypeOK, Signed
<1>3. Start(r, c) /\ UNCHANGED <<phone, now, device, hits, admitted, seen>>
  BY <1>1 DEF BeginApprove
<1>4. call[r] = None /\ answer[r] = None /\ answer = [answer EXCEPT ![r] = None]
      /\ seen = [seen EXCEPT ![r] = Unread]
  BY <1>3 DEF Start, IInv, ReadsStand, TypeOK
<1>5. answer' = answer \/ answer' = [answer EXCEPT ![r] = "401"] \/ answer' = [answer EXCEPT ![r] = "403"]
  BY DEF BeginApprove, Reply
<1>6. PICK a \in {None, "401", "403"} : answer' = [answer EXCEPT ![r] = a]
  BY <1>4, <1>5
<1>7. a \in Answers \cup {None}
  BY DEF Answers
<1>8. DequeIsRecent' /\ hits' \in Seq(Times) /\ admitted' \in Seq(Times)
  BY <1>3, DequeUntouched
<1>9. seen' = [seen EXCEPT ![r] = Unread]
  BY <1>3, <1>4
<1>10. QED BY <1>2, <1>3, <1>6, <1>7, <1>8, <1>9, BeginIInv

\* device_auth reads the row and refuses a bad signature before it looks at the status.
LEMMA BeginSignedIInv ==
    ASSUME IInv, NEW r \in Requests, NEW kind \in DOMAIN Permitted, NEW key \in Signers, NEW ts,
           BeginSigned(r, kind, key, ts)
    PROVE  IInv'
<1>1. PICK c : c = [kind |-> kind, key |-> key, at |-> now]
  OBVIOUS
<1>2. c \in Call /\ c.at = now /\ c.kind = kind /\ c.key = key /\ kind \in Signed
  <2>1. key \in Keys
    BY BoundAssumption DEF Signers, Foreign, Keys, IInv, TypeOK, SeedMatchesRow
  <2>2. kind \in Signed
    BY DEF Permitted, Signed
  <2>3. QED BY <1>1, <2>1, <2>2 DEF Call, IInv, TypeOK, Signed
<1>3. Start(r, c) /\ UNCHANGED <<phone, now, device, hits, admitted>>
  BY <1>1 DEF BeginSigned
<1>4. call[r] = None /\ answer[r] = None /\ answer = [answer EXCEPT ![r] = None]
      /\ seen = [seen EXCEPT ![r] = Unread]
  BY <1>3 DEF Start, IInv, ReadsStand, TypeOK
<1>5. PICK no \in {None, "401", "403"} : no = Refusal(kind, key, ts)
  BY DEF Refusal
<1>6. no \in {None, "403"} => device # None /\ device.key = key
  BY <1>5, NoneAssumption DEF Refusal, Answers
<1>7. answer' = [answer EXCEPT ![r] = no]
  BY <1>4, <1>5 DEF BeginSigned, Reply
<1>8. PICK row : row = (IF no = None THEN device ELSE Unread)
  OBVIOUS
<1>9. seen' = [seen EXCEPT ![r] = row]
  BY <1>4, <1>5, <1>8 DEF BeginSigned
<1>10. row # Unread => no = None /\ row = device
  BY <1>8
<1>11. no = None => row # Unread
  BY <1>6, <1>8, NoneAssumption DEF IInv, TypeOK
<1>12. no \in Answers \cup {None} /\ DequeIsRecent' /\ hits' \in Seq(Times) /\ admitted' \in Seq(Times)
  BY <1>3, DequeUntouched DEF Answers
<1>13. c.kind # "register" /\ (no \in {None, "401"} \/ (device # None /\ device.key = c.key))
  BY <1>2, <1>6 DEF Signed
<1>14. QED BY <1>2, <1>3, <1>6, <1>7, <1>9, <1>10, <1>11, <1>12, <1>13, BeginIInv

\* The row of the id answers a registration, or is seen to be missing.
LEMMA ReadExistingIInv ==
    ASSUME IInv, NEW r \in Requests, ReadExisting(r)
    PROVE  IInv'
<1>1. PICK a : a = IF device = None THEN None ELSE IF device.key = call[r].key THEN device.status ELSE "409"
  OBVIOUS
<1>2. answer[r] = None /\ answer = [answer EXCEPT ![r] = None]
  BY DEF ReadExisting, Active, IInv, TypeOK
<1>3. answer' = [answer EXCEPT ![r] = a]
  BY <1>1, <1>2 DEF ReadExisting, Reply
<1>4. device # None => device \in Row /\ device.status \in Statuses
  BY DEF IInv, TypeOK, Row
<1>5. a \in Answers \cup {None}
  BY <1>1, <1>4 DEF Answers
<1>6. call[r].kind = "register" /\ call[r].kind \notin Signed
  BY DEF ReadExisting, Signed
<1>7. a = None => device = None
  BY <1>1, <1>4, NoneAssumption DEF Answers
<1>8. /\ a \in Statuses => device # None /\ device.key = call[r].key
      /\ a = "409" => device # None /\ device.key # call[r].key
  BY <1>1, <1>4, NoneAssumption DEF Answers, Statuses
<1>9. PICK row : row = device
  OBVIOUS
<1>10. /\ Active(r) /\ UNCHANGED <<phone, now, hits, admitted, call, overlapped>> /\ device' = device
       /\ seen' = [seen EXCEPT ![r] = row]
  BY <1>9 DEF ReadExisting
<1>11. /\ a \in Statuses => device' # None /\ device'.key = call[r].key
       /\ a = "409" => device' # None /\ device'.key # call[r].key
  BY <1>8, <1>10
<1>12. a = None => row = device /\ call[r].kind = "register" /\ device = None
  BY <1>6, <1>7, <1>9
<1>13. row \in {seen[r], device} /\ ~(device' # device)
  BY <1>9, <1>10
<1>14. call[r].kind \in Signed /\ a # "500" => device' # None /\ device'.key = call[r].key
  BY <1>6
<1>15. QED BY <1>3, <1>5, <1>10, <1>11, <1>12, <1>13, <1>14, GoOnIInv

\* The row of a new device is of the key that was sent; an id that is taken by now
\* keeps its row.
LEMMA InsertDeviceIInv ==
    ASSUME IInv, NEW r \in Requests, InsertDevice(r)
    PROVE  IInv'
<1>1. /\ Active(r) /\ seen[r] = None /\ call[r] \in Call
      /\ UNCHANGED <<phone, now, hits, admitted, call, seen, overlapped>>
      /\ seen' = [seen EXCEPT ![r] = None]
  BY DEF InsertDevice, Active, IInv, TypeOK
<1>2. call[r].kind = "register" /\ call[r].kind \notin Signed /\ call[r].key \in Keys
  <2>1. call[r].kind \in {"register", "approve", "poll", "sync"} /\ call[r].key \in Keys
    BY <1>1 DEF Call
  <2>2. None \notin Row /\ None # Unread
    BY NoneAssumption
  <2>3. QED BY <1>1, <2>1, <2>2 DEF IInv, ReadsStand, Signed
<1>3. PICK a : a = IF device # None THEN "500" ELSE "pending"
  OBVIOUS
<1>4. /\ answer' = [answer EXCEPT ![r] = a] /\ a \in Answers \cup {None} /\ a # None
      /\ a # "409"
  BY <1>3, NoneAssumption DEF InsertDevice, IdTaken, Reply, Answers, Statuses
<1>5. CASE device # None
  <2>1. device' = device /\ a = "500"
    BY <1>3, <1>5 DEF InsertDevice, IdTaken
  <2>2. QED BY <1>1, <1>2, <1>4, <2>1, GoOnIInv DEF Statuses
<1>6. CASE device = None
  <2>1. device' = NewDevice(call[r].key)
    BY <1>6 DEF InsertDevice, IdTaken
  <2>2. /\ device' \in Row /\ NotAfter(device', now)
        /\ device'.key = call[r].key /\ device'.status # "approved"
    BY <1>2, <2>1 DEF NewDevice, Row, Statuses, NotAfter
  <2>3. device' # None
    BY <2>2, NoneAssumption
  <2>4. QED BY <1>1, <1>2, <1>4, <1>6, <2>2, <2>3, GoOnIInv
<1>7. QED BY <1>5, <1>6

\* An approval reads a row that it may approve, or ends.
LEMMA ReadForApprovalIInv ==
    ASSUME IInv, NEW r \in Requests, ReadForApproval(r)
    PROVE  IInv'
<1>1. PICK row : row = device
  OBVIOUS
<1>2. /\ Active(r) /\ call[r].kind = "approve" /\ call[r].kind \notin Signed
      /\ UNCHANGED <<phone, now, hits, admitted, call, overlapped>> /\ device' = device
      /\ seen' = [seen EXCEPT ![r] = row]
  BY <1>1 DEF ReadForApproval, Signed
<1>3. PICK a : a = IF device = None THEN "404" ELSE IF ~Approvable(device) THEN "409" ELSE None
  OBVIOUS
<1>4. answer[r] = None /\ answer = [answer EXCEPT ![r] = None]
  BY DEF ReadForApproval, Active, IInv, TypeOK
<1>5. answer' = [answer EXCEPT ![r] = a]
  BY <1>3, <1>4 DEF ReadForApproval, Reply
<1>6. a \in Answers \cup {None} /\ (a = None => device # None /\ Approvable(device))
  BY <1>3, NoneAssumption DEF Answers
<1>7. QED BY <1>1, <1>2, <1>5, <1>6, GoOnIInv

\* An approval attests the key of the row, which no status it overlooks can change.
LEMMA CommitApprovalIInv ==
    ASSUME IInv, NEW r \in Requests, CommitApproval(r)
    PROVE  IInv'
<1>1. /\ Active(r) /\ call[r].kind = "approve" /\ seen[r] # Unread
      /\ UNCHANGED <<phone, now, hits, admitted, call, seen, overlapped>>
      /\ seen' = [seen EXCEPT ![r] = seen[r]]
      /\ answer' = [answer EXCEPT ![r] = "approved"]
  BY DEF CommitApproval, Reply, IInv, TypeOK
<1>2. PICK status : status = IF seen[r].status = "approved" THEN device.status ELSE "approved"
  OBVIOUS
<1>3. device' = [device EXCEPT !.attestation = Attestation(r), !.status = status]
  BY <1>2 DEF CommitApproval
<1>4. seen[r] \in Row /\ device # None /\ device \in Row /\ seen[r].key = device.key
  BY <1>1 DEF IInv, ReadsStand, TypeOK
<1>5. call[r] \in Call /\ call[r].at \in Times /\ call[r].at <= now
  BY <1>1 DEF Active, IInv, TypeOK, Call, RowIsPast
<1>6. /\ Attestation(r) \in [dpk : Keys, iat : Times, exp : 0 .. MaxTime + Validity]
      /\ Attestation(r).dpk = device.key /\ Attestation(r).exp <= now + Validity
  <2>1. MaxTime \in Nat /\ Validity \in Nat
    BY BoundAssumption
  <2>2. now \in 0 .. MaxTime /\ call[r].at \in 0 .. MaxTime
    BY <1>5 DEF IInv, TypeOK, Times
  <2>3. call[r].at + Validity \in 0 .. MaxTime + Validity /\ call[r].at + Validity <= now + Validity
    BY <1>5, <2>1, <2>2
  <2>4. seen[r].key \in Keys
    BY <1>4 DEF Row
  <2>5. QED BY <1>4, <1>5, <2>3, <2>4 DEF Attestation
<1>7. status \in Statuses
  BY <1>2, <1>4 DEF Row, Statuses
<1>8. /\ device'.attestation = Attestation(r) /\ device'.key = device.key
      /\ device'.lastSeen = device.lastSeen /\ device' \in Row
  BY <1>3, <1>4, <1>6, <1>7 DEF Row
<1>9. Attestation(r) # None /\ device' # None
  BY <1>6, <1>8, NoneAssumption
<1>10. NotAfter(device', now)
  BY <1>4, <1>6, <1>8 DEF NotAfter, IInv, RowIsPast
<1>11. "approved" \in Answers \cup {None} /\ "approved" # None
  BY NoneAssumption DEF Answers, Statuses
<1>12. PICK row : row = seen[r]
  OBVIOUS
<1>13. call[r].kind # "register" /\ call[r].kind \notin Signed
  BY <1>1 DEF Signed
<1>14. QED BY <1>1, <1>4, <1>6, <1>8, <1>9, <1>10, <1>11, <1>12, <1>13, GoOnIInv

\* A signed call leaves its time in the row.
LEMMA CommitSeenIInv ==
    ASSUME IInv, NEW r \in Requests, CommitSeen(r)
    PROVE  IInv'
<1>1. /\ Active(r) /\ call[r].kind \in Signed
      /\ UNCHANGED <<phone, now, hits, admitted, call, seen, overlapped>>
      /\ device' = [device EXCEPT !.lastSeen = call[r].at]
      /\ seen' = [seen EXCEPT ![r] = seen[r]]
      /\ answer' = [answer EXCEPT ![r] = seen[r].status]
  BY DEF CommitSeen, Reply, IInv, TypeOK, Permitted, Signed
<1>2. call[r] \in Call /\ call[r].at \in Times /\ call[r].at <= now
      /\ call[r].kind # "register" /\ call[r].kind # "approve"
  BY <1>1 DEF Active, IInv, TypeOK, Call, RowIsPast, Signed
<1>3. /\ seen[r] \in Row /\ device # None /\ device \in Row
      /\ seen[r].key = device.key /\ seen[r].key = call[r].key
  BY <1>1, <1>2 DEF IInv, ReadsStand, TypeOK
<1>4. /\ device' \in Row /\ device'.key = device.key /\ device'.status = device.status
      /\ device'.attestation = device.attestation /\ device'.lastSeen = call[r].at
  BY <1>1, <1>2, <1>3 DEF Row
<1>5. device' # None /\ NotAfter(device', now)
  BY <1>2, <1>3, <1>4, NoneAssumption DEF NotAfter, IInv, RowIsPast
<1>6. device'.status = "approved" => device'.attestation # None /\ device'.attestation.dpk = device'.key
  BY <1>3, <1>4 DEF IInv, TypeOK
<1>7. PICK a : a = seen[r].status
  OBVIOUS
<1>8. a \in Answers \cup {None} /\ a # None
  BY <1>3, <1>7, NoneAssumption DEF Row, Answers
<1>9. PICK row : row = seen[r]
  OBVIOUS
<1>10. QED BY <1>1, <1>2, <1>3, <1>4, <1>5, <1>6, <1>7, <1>8, <1>9, GoOnIInv

\* A request that fails has written nothing.
LEMMA FailIInv ==
    ASSUME IInv, NEW r \in Requests, Fail(r)
    PROVE  IInv'
<1>1. /\ Active(r) /\ UNCHANGED <<phone, now, hits, admitted, call, seen, overlapped>>
      /\ device' = device
      /\ seen' = [seen EXCEPT ![r] = seen[r]]
      /\ answer' = [answer EXCEPT ![r] = "500"]
  BY DEF Fail, Reply, IInv, TypeOK
<1>2. "500" \in Answers \cup {None} /\ "500" # None /\ "500" \notin Statuses
  BY NoneAssumption DEF Answers, Statuses
<1>3. PICK row : row = seen[r]
  OBVIOUS
<1>4. QED BY <1>1, <1>2, <1>3, GoOnIInv

-----------------------------------------------------------------------------
(* What the phone and administrators rely on *)

\* No step of the phone, of a request or of the clock breaks the invariant.
LEMMA StepIInv ==
    ASSUME IInv, [Next]_vars
    PROVE  IInv'
<1>1. CASE UNCHANGED vars
  <2>1. ServerIInv'
    BY <1>1, ServerUntouched DEF vars
  <2>2. (TypeOK /\ SeedMatchesRow /\ Creating)'
    BY <1>1 DEF vars, phone, requests, IInv, TypeOK, SeedMatchesRow, Creating
  <2>3. QED BY <2>1, <2>2 DEF IInv, ServerIInv
<1>2. CASE StoreSeed \/ InsertDeviceRow \/ PhoneDies
  BY <1>2, PhoneIInv
<1>3. CASE RevokeDevice \/ ServerRestarts \/ Tick
  BY <1>3, RevokeIInv, RestartIInv, TickIInv
<1>4. ASSUME NEW r \in Requests, Begin(r) PROVE IInv'
  BY <1>4, BeginRegisterIInv, BeginApproveIInv, BeginSignedIInv DEF Begin
<1>5. ASSUME NEW r \in Requests, Step(r) \/ Fail(r) PROVE IInv'
  BY <1>5, ReadExistingIInv, InsertDeviceIInv, ReadForApprovalIInv, CommitApprovalIInv,
     CommitSeenIInv, FailIInv DEF Step
<1>6. QED BY <1>1, <1>2, <1>3, <1>4, <1>5 DEF Next

\* However often Save is pressed, wherever the phone is cut off, and whoever else calls:
\* the phone signs with the key that it registered, a registration it was told of stands,
\* and an approved device has an attestation of its own key.
THEOREM IInvHolds == Spec => []IInv
<1>1. Init => IInv
  BY InitIInv
<1>2. IInv /\ [Next]_vars => IInv'
  BY StepIInv
<1>3. QED BY <1>1, <1>2, PTL DEF Spec

\* The rate limiter of POST /devices/register refuses exactly the registrations that find
\* Limit others in the window before them.
THEOREM LimiterIsExactHolds == Spec => LimiterIsExact
<1> DEFINE Exact == \A r \in Requests :
              call[r] = None /\ call'[r] # None /\ call'[r].kind = "register"
              => (answer'[r] = "429") =
                   (Cardinality({i \in DOMAIN admitted : now - admitted[i] < Window}) >= Limit)
<1>1. ASSUME IInv, [Next]_vars PROVE Exact
  <2> SUFFICES ASSUME NEW r \in Requests, call[r] = None, call'[r] # None, call'[r].kind = "register"
               PROVE  (answer'[r] = "429") = (Cardinality(InWindow) >= Limit)
    BY DEF InWindow
  <2>1. call \in [Requests -> Call \cup {None}] /\ answer[r] = None
    BY <1>1 DEF IInv, TypeOK, ReadsStand
  <2>2. PICK s \in Requests : Begin(s)
    BY <1>1 DEF Next, vars, requests, StoreSeed, InsertDeviceRow, PhoneDies, Step, ReadExisting,
                InsertDevice, ReadForApproval, CommitApproval, CommitSeen, Fail, RevokeDevice,
                ServerRestarts, Tick
  <2>3. s = r
    BY <2>1, <2>2 DEF Begin, BeginRegister, BeginApprove, BeginSigned, Start
  <2>4. PICK key, site : BeginRegister(r, key, site)
    <3>1. \A c : Start(r, c) => call'[r] = c
      BY <2>1 DEF Start
    <3>2. ASSUME NEW role, BeginApprove(r, role) PROVE FALSE
      BY <3>1, <3>2 DEF BeginApprove
    <3>3. ASSUME NEW kind \in DOMAIN Permitted, NEW key, NEW ts, BeginSigned(r, kind, key, ts)
          PROVE  FALSE
      BY <3>1, <3>3 DEF BeginSigned, Permitted
    <3>4. QED BY <2>2, <2>3, <3>2, <3>3 DEF Begin
  <2>5. Cardinality(InWindow) = Len(Recent(hits)) /\ Recent(hits) \in Seq(Times)
    BY <1>1, DequeIsWindow DEF IInv
  <2>6. (answer'[r] = "429") = ~(Len(Recent(hits)) < Limit)
    <3>1. answer \in [Requests -> Answers \cup {None}] /\ None # "429"
      BY <1>1, NoneAssumption DEF IInv, TypeOK, Answers
    <3>2. CASE Len(Recent(hits)) < Limit
      BY <2>1, <2>4, <3>1, <3>2 DEF BeginRegister, Reply
    <3>3. CASE ~(Len(Recent(hits)) < Limit)
      BY <2>4, <3>1, <3>3 DEF BeginRegister, Reply
    <3>4. QED BY <3>2, <3>3
  <2>7. Limit \in Nat /\ Len(Recent(hits)) \in Nat
    BY <2>5, BoundAssumption
  <2>8. QED BY <2>5, <2>6, <2>7
<1>2. QED BY <1>1, IInvHolds, PTL DEF Spec, LimiterIsExact

\* Only a request that was in flight together with another writer of the row brings back a
\* device revoked meanwhile, an older attestation or an older contact.
THEOREM OnlyOverlapGoesBackHolds == Spec => OnlyOverlapGoesBack
<1> DEFINE Back == \/ device.status = "revoked" /\ device'.status # "revoked"
                   \/ device.attestation # None /\ device'.attestation.exp < device.attestation.exp
                   \/ device.lastSeen # None /\ device'.lastSeen < device.lastSeen
           Overlap == \E r \in overlapped : answer[r] = None /\ answer'[r] # None
<1>1. ASSUME IInv, [Next]_vars, device # None, Back PROVE Overlap
  <2>1. device \in Row
    BY <1>1 DEF IInv, TypeOK
  <2>2. /\ device.lastSeen # None => device.lastSeen \in Int
        /\ device.attestation # None => device.attestation.exp \in Int
    <3>1. device.lastSeen \in Times \cup {None}
      BY <2>1 DEF Row
    <3>2. device.attestation # None => device.attestation.exp \in 0 .. MaxTime + Validity
      BY <2>1 DEF Row
    <3>3. device.attestation # None => device.attestation.exp \in Int
      BY <3>2, TimesAreInts
    <3>4. device.lastSeen # None => device.lastSeen \in Int
      BY <3>1, TimesAreInts
    <3>5. QED BY <3>3, <3>4
  <2>3. device' # device
    BY <1>1, <2>2
  <2>4. ASSUME NEW r \in Requests, CommitApproval(r) \/ CommitSeen(r) PROVE Overlap
    <3>1. Active(r) /\ answer[r] = None /\ call[r] \in Call
      BY <1>1, <2>4 DEF CommitApproval, CommitSeen, Active, IInv, TypeOK
    <3>2. answer'[r] # None
      <4>1. CASE CommitApproval(r)
        BY <1>1, <4>1, NoneAssumption DEF CommitApproval, Reply, IInv, TypeOK, Answers, Statuses
      <4>2. CASE CommitSeen(r)
        <5>1. call[r].kind # "register" /\ call[r].kind # "approve"
          BY <4>2 DEF CommitSeen, Permitted
        <5>2. seen[r] \in Row
          BY <1>1, <3>1, <5>1 DEF IInv, ReadsStand
        <5>3. QED BY <1>1, <4>2, <5>2, NoneAssumption DEF CommitSeen, Reply, IInv, TypeOK, Answers, Row
      <4>3. QED BY <2>4, <4>1, <4>2
    <3>3. SUFFICES ASSUME r \notin overlapped PROVE FALSE
      BY <3>1, <3>2
    <3>4. seen[r] \in {Unread, device} /\ NotAfter(device, call[r].at)
      BY <1>1, <3>1, <3>3 DEF IInv, RowIsPast
    <3>5. CASE CommitApproval(r)
      <4>1. seen[r] = device /\ call[r].kind = "approve"
        BY <3>4, <3>5 DEF CommitApproval
      <4>2. Approvable(device)
        BY <1>1, <2>1, <3>1, <4>1, NoneAssumption DEF IInv, ReadsStand
      <4>3. device'.attestation = Attestation(r) /\ device'.lastSeen = device.lastSeen
        BY <2>1, <3>5 DEF CommitApproval, Row
      <4>4. device'.attestation.exp = call[r].at + Validity /\ call[r].at + Validity \in Int
        <5>1. call[r].at \in Times
          BY <3>1 DEF Call
        <5>2. call[r].at \in Int
          BY <5>1, TimesAreInts
        <5>3. Attestation(r).exp = call[r].at + Validity
          BY DEF Attestation
        <5>4. QED BY <4>3, <5>2, <5>3, TimesAreInts
      <4>5. QED BY <1>1, <2>2, <3>4, <4>2, <4>3, <4>4 DEF NotAfter, Approvable
    <3>6. CASE CommitSeen(r)
      <4>1. device' = [device EXCEPT !.lastSeen = call[r].at]
        BY <3>6 DEF CommitSeen
      <4>2. /\ device'.lastSeen = call[r].at /\ device'.status = device.status
            /\ device'.attestation = device.attestation
        BY <2>1, <4>1 DEF Row
      <4>3. call[r].at \in Int
        BY <3>1, TimesAreInts DEF Call
      <4>4. QED BY <1>1, <2>2, <3>4, <4>2, <4>3 DEF NotAfter
    <3>7. QED BY <2>4, <3>5, <3>6
  <2>5. ASSUME NEW r \in Requests, InsertDevice(r) PROVE FALSE
    BY <1>1, <2>3, <2>5 DEF InsertDevice, IdTaken
  <2>6. CASE RevokeDevice
    <3>1. /\ device'.status = "revoked" /\ device'.lastSeen = device.lastSeen
          /\ device'.attestation = device.attestation
      BY <2>1, <2>6 DEF RevokeDevice, Row
    <3>2. QED BY <1>1, <2>2, <3>1
  <2>7. QED
    BY <1>1, <2>3, <2>4, <2>5, <2>6
    DEF Next, vars, StoreSeed, InsertDeviceRow, PhoneDies, Begin, BeginRegister, BeginApprove,
        BeginSigned, Step, ReadExisting, ReadForApproval, Fail, ServerRestarts, Tick
<1>2. ASSUME IInv, [Next]_vars
      PROVE  device # None /\ Back => Overlap
  BY <1>1, <1>2
<1>3. QED BY <1>2, IInvHolds, PTL DEF Spec, OnlyOverlapGoesBack
=============================================================================
