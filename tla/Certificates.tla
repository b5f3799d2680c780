---------------------------- MODULE Certificates ----------------------------
(***************************************************************************)
(* A certificate's life: the phone finishes attempts, holds an attestation *)
(* the backend signed for its key, and issues certificates offline under   *)
(* its own clock; the backend takes them in under its clock and may revoke *)
(* them; the app, the dashboard and the backend verify and list them.      *)
(*                                                                         *)
(* One worker, one phone and one site.  The phone's clock is offset from   *)
(* the server's, and its owner may change it.  Registration is the subject *)
(* of Devices, the transactions behind a push of Sync, and those behind a  *)
(* revocation of Revocation: here each is one step.                        *)
(***************************************************************************)
EXTENDS Integers, FiniteSetsExt

CONSTANTS
    Root, TestRoot, DeviceKey, Nobody, Weak,   \* keys, and what is none
    NoToken, Site,
    Required,           \* requiredModules(): [id, version, validity] of the playable scenarios
    Shapes,             \* the attempts a worker may finish, but for their time
    RootFiles,          \* what root_public_key.txt may hold
    Offsets,            \* how far the phone's clock may be off
    Skew, Validity, Day, ExpiringWindow, DueDays,
    MaxTime, MaxRecords                        \* bounds: attempts and certificates together

App == INSTANCE AppTokens
Server == INSTANCE ServerTokens
Dashboard == INSTANCE DashboardTokens
INSTANCE Refresher
INSTANCE CertStatus

ASSUME DueDaysAssumption == parseRefresherConfig(DueDays) /\ IsFiniteSet(DueDays)

ASSUME TimesAssumption ==
    /\ Skew \in Nat /\ Validity \in Nat /\ ExpiringWindow \in Nat
    /\ Day \in Nat \ {0}
    /\ Offsets \subseteq Int
    /\ MaxTime \in Nat /\ MaxRecords \in Nat

\* The content has required modules, and a public key that a device registers is a point.
ASSUME ContentAssumption ==
    /\ IsFiniteSet(Required) /\ Required # {}
    /\ \A m \in Required : m.validity \in Nat
    /\ \A s \in Shapes : s.dueDay \in {0} \cup DueDays /\ s.passed \in BOOLEAN
    /\ DeviceKey # Weak

\* A revocation list is not null.
ASSUME NoTokenAssumption ==
    \A at \in 0 .. MaxTime, cids \in SUBSET (1 .. MaxRecords) :
       App!signToken("SR1", [iat |-> at, cids |-> cids], Root) # NoToken

VARIABLES
    file,         \* root_public_key.txt of the app's build
    now, offset,  \* the server's clock; the phone's minus the server's
    approved,     \* attestation the server holds for the device, or NoToken
    stored,       \* attestation the phone holds, or NoToken
    attempts,     \* on the phone
    certs,        \* tokens the phone has issued
    rows,         \* certificates of the server: cid |-> [expiresAt, revoked]
    refused,      \* cids rejected for good
    ahead         \* history: cids issued while the phone's clock was ahead by more than Skew

vars == <<file, now, offset, approved, stored, attempts, certs, rows, refused, ahead>>

TRUST == App!resolveTrust(file, TestRoot)

nowSeconds == now + offset

Init ==
    /\ file \in RootFiles
    /\ now = 0 /\ offset \in Offsets
    /\ approved = NoToken /\ stored = NoToken
    /\ attempts = {} /\ certs = {}
    /\ rows = <<>> /\ refused = {} /\ ahead = {}

-----------------------------------------------------------------------------
Tick ==
    /\ now < MaxTime
    /\ now' = now + 1
    /\ UNCHANGED <<file, offset, approved, stored, attempts, certs, rows, refused, ahead>>

SetPhoneClock ==
    /\ \E o \in Offsets : o # offset /\ now + o >= 0 /\ offset' = o
    /\ UNCHANGED <<file, now, approved, stored, attempts, certs, rows, refused, ahead>>

\* POST /admin/devices/{id}/approve, the first time or to renew.  Bound: a renewal
\* comes when the old attestation has ended or has been used.
Approve ==
    /\ (approved # NoToken /\ certs = {} => approved.body.exp < now)
    /\ approved' = Server!approve_device(DeviceKey, Site, Root, now, Validity)
    /\ UNCHANGED <<file, now, offset, stored, attempts, certs, rows, refused, ahead>>

\* device_auth of a call the phone makes now.
Authenticated == offset \in -Skew .. Skew

\* A poll of /devices/me/attestation that finds the device approved.
StoreAttestation ==
    /\ approved # NoToken /\ Authenticated
    /\ stored' = approved
    /\ UNCHANGED <<file, now, offset, approved, attempts, certs, rows, refused, ahead>>

\* saveAttempt of an attempt that took no time.  Bounds: attempts come before the
\* approval, which they do not depend on, and a day is left to see what follows.
Finish ==
    /\ Cardinality(attempts) < MaxRecords - 1 /\ certs = {} /\ now <= MaxTime - Day
    /\ approved = NoToken
    /\ \E s \in Shapes :
          attempts' = attempts \cup
             {[scenarioId |-> s.id, scenarioVersion |-> s.version, dueDay |-> s.dueDay,
               passed |-> s.passed, startedAt |-> nowSeconds]}
    /\ UNCHANGED <<file, now, offset, approved, stored, certs, rows, refused, ahead>>

\* Mutant: a passed refresher stands for its module.
AnyPass(m) == {a \in attempts : a.passed /\ a.scenarioId = m.id /\ a.scenarioVersion = m.version}

Passes(m) ==
    {a \in attempts : /\ a.passed /\ ~isRefresher(a)
                      /\ a.scenarioId = m.id /\ a.scenarioVersion = m.version}

Missing == {m \in Required : Passes(m) = {}}

\* The newest pass of every required module.
Picked == {CHOOSE a \in Passes(m) : \A b \in Passes(m) : b.startedAt <= a.startedAt : m \in Required}

Usable(token) == App!usableAttestation(token, TRUST.root, DeviceKey, Site, nowSeconds)

\* In demo mode the phone attests itself when it has nothing usable.
AttestationUsed ==
    IF TRUST.mode = "demo" /\ ~Usable(stored)
    THEN App!signToken("SA1",
           App!attestationBody(DeviceKey, Site, nowSeconds, nowSeconds + Validity), TestRoot)
    ELSE stored

Issued(att) ==
    App!signToken("SS1",
       App!certificateBody(Cardinality(certs) + 1, Site, Picked, nowSeconds,
                           {m.validity : m \in Required}, att), DeviceKey)

\* issueCertificate, when it gets past its early returns.  The certificate is saved
\* only if this build verifies it.
Issue ==
    LET token == Issued(AttestationUsed)
    IN  /\ TRUST.mode # "unconfigured"
        /\ Missing = {}
        /\ Usable(AttestationUsed)
        /\ Cardinality(certs) + Cardinality(attempts) < MaxRecords
        /\ stored' = AttestationUsed
        /\ IF App!verifyCertificate(token, TRUST.root, nowSeconds, NoToken).status = "VALID"
           THEN /\ certs' = certs \cup {token}
                /\ ahead' = IF offset > Skew THEN ahead \cup {token.body.cid} ELSE ahead
           ELSE UNCHANGED <<certs, ahead>>
        /\ UNCHANGED <<file, now, offset, approved, attempts, rows, refused>>

\* POST /sync of one queued certificate: an INVALID_* token is rejected for good.
Push ==
    /\ approved # NoToken /\ Authenticated
    /\ \E t \in certs :
          /\ t.body.cid \notin DOMAIN rows \cup refused
          /\ IF Server!verify_certificate(t, Root, now, NoToken).status \in Server!Verified
             THEN /\ rows' = [c \in DOMAIN rows \cup {t.body.cid} |->
                                IF c = t.body.cid
                                THEN [expiresAt |-> t.body.exp, revoked |-> FALSE] ELSE rows[c]]
                  /\ UNCHANGED refused
             ELSE refused' = refused \cup {t.body.cid} /\ UNCHANGED rows
    /\ UNCHANGED <<file, now, offset, approved, stored, attempts, certs, ahead>>

Revoke ==
    /\ \E c \in DOMAIN rows : ~rows[c].revoked /\ rows' = [rows EXCEPT ![c].revoked = TRUE]
    /\ UNCHANGED <<file, now, offset, approved, stored, attempts, certs, refused, ahead>>

Next ==
    \/ Tick \/ SetPhoneClock
    \/ Approve \/ StoreAttestation
    \/ Finish \/ Issue \/ Push \/ Revoke

Spec == Init /\ [][Next]_vars

-----------------------------------------------------------------------------
(* Properties *)

Scenarios == {s.id : s \in Shapes}

Attempt == [scenarioId : Scenarios, scenarioVersion : {s.version : s \in Shapes},
            dueDay : {0} \cup DueDays, passed : BOOLEAN, startedAt : Int]

\* Every variable has its type, a certificate rests on a passed training of the
\* required version of every module, and the server keeps or refuses only what the
\* phone issued.
TypeOK ==
    /\ file \in RootFiles /\ now \in 0 .. MaxTime /\ offset \in Offsets
    /\ approved # NoToken => approved.signer = Root
    /\ stored # NoToken => stored.body.dpk = DeviceKey
    /\ attempts \subseteq Attempt
    /\ {t.body.cid : t \in certs} = 1 .. Cardinality(certs)
    /\ \A t \in certs, m \in Required :
          [scenarioId |-> m.id, scenarioVersion |-> m.version, dueDay |-> 0, passed |-> TRUE]
             \in {[scenarioId |-> a.scenarioId, scenarioVersion |-> a.scenarioVersion,
                   dueDay |-> a.dueDay, passed |-> a.passed] : a \in t.body.mods}
    /\ DOMAIN rows \cup refused \cup ahead \subseteq 1 .. Cardinality(certs)
    /\ DOMAIN rows \cap refused = {}

Real == TRUST.mode = "real"

Attestation ==
    [prefix : {"SA1"}, body : [dpk : {DeviceKey}, site : {Site}, iat : Int, exp : Int],
     signer : {Root, TestRoot}, canonical : {TRUE}, numbers : {App!Plain}]

Certificate ==
    [prefix : {"SS1"},
     body : [cid : Nat, site : {Site}, mods : SUBSET Attempt, iat : Int, exp : Int, att : Attestation],
     signer : {DeviceKey}, canonical : {TRUE}, numbers : {App!Plain}]

\* Issued in the time of its attestation: a clock that reads another time since cannot
\* change that.
IssuedInTime(token) ==
    token.body.att.body.iat <= token.body.iat /\ token.body.iat <= token.body.att.body.exp

\* What a device holds was signed for its key, by the backend or, in demo mode, by itself.
AttestationsAreOurs ==
    /\ approved # NoToken => approved \in Attestation
    /\ stored # NoToken =>
         stored \in Attestation /\ (stored.signer = Root \/ (~Real /\ stored.signer = TestRoot))

\* Certificates have ids of their own, and an attestation by the root that the build trusts.
CertificatesAreOurs ==
    /\ IsFiniteSet(attempts) /\ IsFiniteSet(certs)
    /\ Cardinality(certs) + Cardinality(attempts) <= MaxRecords
    /\ \A t, u \in certs : t.body.cid = u.body.cid => t = u
    /\ \A t \in certs :
          /\ t \in Certificate /\ IssuedInTime(t)
          /\ TRUST.mode # "unconfigured" /\ t.body.att.signer = TRUST.root
          /\ Real => t.body.att.signer = Root
          /\ t.body.iat > now + Skew => t.body.cid \in ahead

\* The server's row is of a certificate that it verified, and has its dates.
RowsAreVerified ==
    /\ \A c \in DOMAIN rows : rows[c] \in [expiresAt : Int, revoked : BOOLEAN]
    /\ \A t \in certs : t.body.cid \in DOMAIN rows =>
          /\ rows[t.body.cid].expiresAt = t.body.exp
          /\ t.body.att.signer = Root
          /\ t.body.iat <= now + Skew
    /\ Real => refused \subseteq ahead

\* Where tokens come from, which is all that their later verification rests on.
IInv == TypeOK /\ AttestationsAreOurs /\ CertificatesAreOurs /\ RowsAreVerified

List(cids, key) == App!signToken("SR1", [iat |-> now, cids |-> cids], key)

Newest == List({c \in DOMAIN rows : rows[c].revoked}, Root)

\* What the phone issued stays verifiable, also after the attestation it carries has
\* expired or was renewed and whatever happens to the phone's clock: it is saved
\* without failing, and neither the page that checks it nor the server that takes it
\* in finds it INVALID, except while a clock behind the phone's is too far behind.
OnlyClockInvalidates ==
    /\ TRUST.mode # "unconfigured" /\ Missing = {} /\ Usable(AttestationUsed) =>
          App!verifyCertificate(Issued(AttestationUsed), TRUST.root, nowSeconds, NoToken).status = "VALID"
    /\ \A t \in certs :
          App!verifyCertificate(t, TRUST.root, now, NoToken).status \notin App!Verified
          => t.body.cid \in ahead /\ t.body.iat > now + Skew
    /\ Real => refused \subseteq ahead

\* A certificate and what a printer's smudge, a foreign signer or another build make of it.
Variants(t) ==
    LET atts == {t.body.att} \cup
                {[t.body.att EXCEPT !.signer = Nobody], [t.body.att EXCEPT !.canonical = FALSE],
                 [t.body.att EXCEPT !.prefix = "SR1"], [t.body.att EXCEPT !.body.dpk = Weak],
                 [t.body.att EXCEPT !.body.site = Nobody],
                 [t.body.att EXCEPT !.body.iat = t.body.iat + 1],
                 [t.body.att EXCEPT !.body.exp = t.body.iat], [t.body.att EXCEPT !.body.exp = t.body.iat - 1]}
                \cup {[t.body.att EXCEPT !.numbers = n] : n \in App!Numbers}
        bodies == {[t EXCEPT !.body.att = a] : a \in atts} \cup
                  {[t EXCEPT !.body.site = Nobody], [t EXCEPT !.canonical = FALSE],
                   [t EXCEPT !.prefix = "SA1"]} \cup {[t EXCEPT !.numbers = n] : n \in App!Numbers}
    IN  bodies \cup {[t EXCEPT !.signer = Nobody]}

Lists(t) ==
    {NoToken, List({}, TRUST.root), List({t.body.cid}, TRUST.root), List({t.body.cid}, Nobody)}

PlainNumbers(t) == t.numbers = App!Plain /\ t.body.att.numbers = App!Plain

\* A verdict depends on the token, the list and the time: it is enough to look at each
\* token while nothing else has happened to it.
OnlyIssued == rows = <<>> /\ refused = {} /\ offset = 0 /\ TRUST.mode # "unconfigured"

\* App, dashboard and backend give every certificate, whole or damaged, the same
\* verdict on it and on the list; backend and page differ only on numbers that no
\* signer writes.
VerifiersAgree ==
    OnlyIssued =>
       \A t \in certs : \A v \in Variants(t), list \in Lists(t) :
          LET app == App!verifyCertificate(v, TRUST.root, now, list)
          IN  /\ app = Dashboard!verifyCertificate(v, TRUST.root, now, list)
              /\ PlainNumbers(v) => app = Server!verify_certificate(v, TRUST.root, now, list)

Rows == {rows[c] : c \in DOMAIN rows}

\* The three places that compute a certificate's state from the same row agree at
\* every second: the chips, the SQL filter and the verify page; and the worker who is
\* counted as certified, shown as expiring or listed as due is the same everywhere.
\* The dashboard's initial training is the attempt the phone's refreshers start from.
ViewsAgree ==
    /\ \A t \in certs : t.body.cid \in DOMAIN rows =>
          LET row == rows[t.body.cid]
              verdict == Server!verify_certificate(t, Root, now, Newest).status
          IN  /\ {s \in CertStatuses : status_clause(s, row, now)} = {cert_status(row, now)}
              /\ verdict = "REVOKED" <=> cert_status(row, now) = "revoked"
              /\ verdict = "EXPIRED" <=> cert_status(row, now) = "expired"
    /\ LET chip == worker_cert_status(Rows, now)
           days == ExpiringWindow \div Day
       IN  /\ recert_due(Rows, now, days) => is_certified(chip)
           /\ chip = "expiring" => recert_due(Rows, now, days)
           /\ chip = "valid" /\ recert_due(Rows, now, days)
                 => \E r \in Rows : days_left(r, now) = days
    /\ \A id \in Scenarios : Trainings(id, attempts) # {} =>
          First(StageAttempts(0, id, attempts)).startedAt = refresherAnchor(id, attempts)

\* Once a refresher is offered it stays until it, or a later one, is passed: neither
\* training again nor a failed refresher withdraws it.  What was passed is not offered
\* again.
OfferStands ==
    nowSeconds' >= nowSeconds =>
       \A id \in Scenarios, demo \in {0, 1} :
          LET before == due(id, attempts, refresherNow(nowSeconds, demo))
              after == due(id, attempts', refresherNow(nowSeconds', demo))
              done == {a.dueDay : a \in {b \in attempts' \ attempts : b.passed /\ b.scenarioId = id}}
          IN  /\ before > 0 /\ (\A d \in done : d < before) => after >= before
              /\ \A d \in done : d > 0 => after # d

OfferStandsUntilPassed == [][OfferStands]_vars
=============================================================================
