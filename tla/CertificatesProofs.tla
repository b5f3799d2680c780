------------------------- MODULE CertificatesProofs -------------------------
(***************************************************************************)
(* A certificate's life for any modules, attempts, clock errors and times. *)
(***************************************************************************)
EXTENDS Certificates, FiniteSetTheorems, WellFoundedInduction, TLAPS

-----------------------------------------------------------------------------
(* Least and greatest *)

\* Of a finite set that is not empty, some element has the least key.
LEMMA LeastByKey ==
    ASSUME NEW S, IsFiniteSet(S), S # {}, NEW key \in [S -> Int]
    PROVE  \E least \in S : \A x \in S : key[least] <= key[x]
<1> DEFINE below(x) == {y \in S : key[y] < key[x]}
<1>1. PICK R : R = OpToRel(<, Nat)
  OBVIOUS
<1>2. \A x, y \in Nat : <<x, y>> \in R <=> x < y
  BY <1>1 DEF OpToRel
<1>3. IsWellFoundedOn(R, Nat)
  BY <1>1, NatLessThanWellFounded
<1>4. \A x \in S : IsFiniteSet(below(x)) /\ Cardinality(below(x)) \in Nat
  BY FS_Subset, FS_CardinalityType
<1>5. PICK sizes : sizes = {Cardinality(below(x)) : x \in S}
  OBVIOUS
<1>6. sizes \subseteq Nat /\ sizes # {}
  BY <1>4, <1>5
<1>7. PICK size \in sizes : \A other \in sizes : ~(<<other, size>> \in R)
  BY <1>3, <1>6, WFMin
<1>8. PICK least \in S : size = Cardinality(below(least))
  BY <1>5
<1>9. ASSUME NEW x \in S, key[x] < key[least]
      PROVE  FALSE
  <2>1. key[x] \in Int /\ key[least] \in Int /\ \A y \in S : key[y] \in Int
    OBVIOUS
  <2>2. \A y \in S : key[y] < key[x] => key[y] < key[least]
    BY <1>9, <2>1
  <2>3. below(x) \subseteq below(least)
    BY <2>2
  <2>4. x \in below(least) /\ x \notin below(x)
    BY <1>9, <2>1
  <2>5. /\ Cardinality(below(x)) <= Cardinality(below(least))
        /\ Cardinality(below(x)) # Cardinality(below(least))
    BY <1>4, <2>3, <2>4, FS_Subset
  <2>6. Cardinality(below(x)) < Cardinality(below(least))
    BY <1>4, <2>5
  <2>7. Cardinality(below(x)) \in sizes
    BY <1>5
  <2>8. QED BY <1>2, <1>4, <1>7, <1>8, <2>6, <2>7
<1>10. \A x \in S : key[least] <= key[x]
  <2>1. \A x \in S : ~(key[x] < key[least]) /\ key[x] \in Int /\ key[least] \in Int
    BY <1>9
  <2>2. QED BY <2>1
<1>11. QED BY <1>10

\* And some element has the greatest one.
LEMMA GreatestByKey ==
    ASSUME NEW S, IsFiniteSet(S), S # {}, NEW key \in [S -> Int]
    PROVE  \E greatest \in S : \A x \in S : key[x] <= key[greatest]
<1>1. PICK negated : negated = [x \in S |-> 0 - key[x]]
  OBVIOUS
<1>2. negated \in [S -> Int]
  BY <1>1
<1>3. PICK greatest \in S : \A x \in S : negated[greatest] <= negated[x]
  BY <1>2, LeastByKey
<1>4. \A x \in S : key[x] \in Int /\ key[greatest] \in Int /\ 0 - key[greatest] <= 0 - key[x]
  BY <1>1, <1>3
<1>5. \A x \in S : key[x] <= key[greatest]
  BY <1>4
<1>6. QED BY <1>5

LEMMA MinIs ==
    ASSUME NEW S \in SUBSET Int, NEW least \in S, \A x \in S : least <= x
    PROVE  Min(S) = least /\ App!Min(S) = least
<1>1. PICK chosen : chosen = CHOOSE x \in S : \A y \in S : x <= y
  OBVIOUS
<1>2. chosen \in S /\ \A y \in S : chosen <= y
  BY <1>1
<1>3. chosen = least
  BY <1>2
<1>4. QED BY <1>1, <1>3 DEF Min, App!Min

LEMMA MaxIs ==
    ASSUME NEW S \in SUBSET Int, NEW greatest \in S, \A x \in S : x <= greatest
    PROVE  Max(S) = greatest
<1>1. PICK chosen : chosen = CHOOSE x \in S : \A y \in S : x >= y
  OBVIOUS
<1>2. chosen \in S /\ \A y \in S : chosen >= y
  BY <1>1
<1>3. chosen = greatest
  BY <1>2
<1>4. QED BY <1>1, <1>3 DEF Max

\* The least and the greatest of a finite set of numbers.
LEMMA Extremes ==
    ASSUME NEW S \in SUBSET Int, IsFiniteSet(S), S # {}
    PROVE  /\ Min(S) \in S /\ \A x \in S : Min(S) <= x
           /\ Max(S) \in S /\ \A x \in S : x <= Max(S)
           /\ App!Min(S) = Min(S)
<1>1. PICK key : key = [x \in S |-> x]
  OBVIOUS
<1>2. key \in [S -> Int] /\ \A x \in S : key[x] = x
  BY <1>1
<1>3. PICK least \in S : \A x \in S : least <= x
  <2>1. PICK least \in S : \A x \in S : key[least] <= key[x]
    BY <1>2, LeastByKey
  <2>2. QED BY <1>2, <2>1
<1>4. PICK greatest \in S : \A x \in S : x <= greatest
  <2>1. PICK greatest \in S : \A x \in S : key[x] <= key[greatest]
    BY <1>2, GreatestByKey
  <2>2. QED BY <1>2, <2>1
<1>5. QED BY <1>3, <1>4, MinIs, MaxIs

\* Whole days grow with the seconds.
LEMMA DaysGrow ==
    ASSUME NEW x \in Int, NEW y \in Int, NEW d \in Nat \ {0}, x <= y
    PROVE  x \div d <= y \div d /\ x \div d \in Int
<1>1. x = d * (x \div d) + (x % d) /\ y = d * (y \div d) + (y % d)
  OBVIOUS
<1>2. x \div d \in Int /\ y \div d \in Int /\ x % d \in 0..(d-1) /\ y % d \in 0..(d-1)
  OBVIOUS
<1>3. PICK p \in Int, q \in Int, r \in 0..(d-1), s \in 0..(d-1) :
         p = x \div d /\ q = y \div d /\ r = x % d /\ s = y % d
  BY <1>2
<1>4. d * p + r <= d * q + s
  BY <1>1, <1>3
<1>5. p > q => d * p >= d * q + d
  OBVIOUS
<1>6. QED BY <1>3, <1>4, <1>5

-----------------------------------------------------------------------------
(* Verdicts *)

\* The three copies of FirstOf are one.
LEMMA SameFirst ==
    ASSUME NEW checks, NEW otherwise
    PROVE  /\ Server!FirstOf(checks, otherwise) = App!FirstOf(checks, otherwise)
           /\ Dashboard!FirstOf(checks, otherwise) = App!FirstOf(checks, otherwise)
BY DEF App!FirstOf, Server!FirstOf, Dashboard!FirstOf, App!Min, Server!Min, Dashboard!Min

\* The first check that fails decides.
LEMMA FirstFailed ==
    ASSUME NEW checks, NEW otherwise, DOMAIN checks \subseteq Int, NEW i \in DOMAIN checks,
           checks[i][1], \A j \in DOMAIN checks : checks[j][1] => i <= j
    PROVE  App!FirstOf(checks, otherwise) = checks[i][2]
<1> DEFINE failed == {j \in DOMAIN checks : checks[j][1]}
<1>1. i \in failed /\ \A j \in failed : i <= j
  OBVIOUS
<1>2. App!Min(failed) = i
  BY <1>1, MinIs
<1>3. QED BY <1>1, <1>2 DEF App!FirstOf

LEMMA NoneFailed ==
    ASSUME NEW checks, NEW otherwise, \A j \in DOMAIN checks : ~checks[j][1]
    PROVE  App!FirstOf(checks, otherwise) = otherwise
BY DEF App!FirstOf

\* The seven checks of the app and of the dashboard, one after the other.
LEMMA SevenChecks ==
    ASSUME NEW checks, DOMAIN checks = 1..7
    PROVE  App!FirstOf(checks, "VALID") =
             IF checks[1][1] THEN checks[1][2]
             ELSE IF checks[2][1] THEN checks[2][2]
             ELSE IF checks[3][1] THEN checks[3][2]
             ELSE IF checks[4][1] THEN checks[4][2]
             ELSE IF checks[5][1] THEN checks[5][2]
             ELSE IF checks[6][1] THEN checks[6][2]
             ELSE IF checks[7][1] THEN checks[7][2]
             ELSE "VALID"
<1>1. 1..7 \subseteq Int
  OBVIOUS
<1>2. PICK first : first = App!FirstOf(checks, "VALID")
  OBVIOUS
<1>3. ASSUME NEW i \in 1..7, checks[i][1], \A j \in 1..7 : checks[j][1] => i <= j
      PROVE  first = checks[i][2]
  BY <1>1, <1>2, <1>3, FirstFailed
<1>4. \A j \in 1..7 : j = 1 \/ j = 2 \/ j = 3 \/ j = 4 \/ j = 5 \/ j = 6 \/ j = 7
  OBVIOUS
<1>5. CASE checks[1][1]
  <2>1. \A j \in 1..7 : checks[j][1] => 1 <= j
    BY <1>4, <1>5
  <2>2. first = checks[1][2]
    BY <1>3, <1>5, <2>1
  <2>3. QED BY <1>2, <1>5, <2>2
<1>6. CASE ~checks[1][1] /\ checks[2][1]
  <2>1. \A j \in 1..7 : checks[j][1] => 2 <= j
    BY <1>4, <1>6
  <2>2. first = checks[2][2]
    BY <1>3, <1>6, <2>1
  <2>3. QED BY <1>2, <1>6, <2>2
<1>7. CASE ~checks[1][1] /\ ~checks[2][1] /\ checks[3][1]
  <2>1. \A j \in 1..7 : checks[j][1] => 3 <= j
    BY <1>4, <1>7
  <2>2. first = checks[3][2]
    BY <1>3, <1>7, <2>1
  <2>3. QED BY <1>2, <1>7, <2>2
<1>8. CASE ~checks[1][1] /\ ~checks[2][1] /\ ~checks[3][1] /\ checks[4][1]
  <2>1. \A j \in 1..7 : checks[j][1] => 4 <= j
    BY <1>4, <1>8
  <2>2. first = checks[4][2]
    BY <1>3, <1>8, <2>1
  <2>3. QED BY <1>2, <1>8, <2>2
<1>9. CASE ~checks[1][1] /\ ~checks[2][1] /\ ~checks[3][1] /\ ~checks[4][1] /\ checks[5][1]
  <2>1. \A j \in 1..7 : checks[j][1] => 5 <= j
    BY <1>4, <1>9
  <2>2. first = checks[5][2]
    BY <1>3, <1>9, <2>1
  <2>3. QED BY <1>2, <1>9, <2>2
<1>10. CASE ~checks[1][1] /\ ~checks[2][1] /\ ~checks[3][1] /\ ~checks[4][1] /\ ~checks[5][1] /\ checks[6][1]
  <2>1. \A j \in 1..7 : checks[j][1] => 6 <= j
    BY <1>4, <1>10
  <2>2. first = checks[6][2]
    BY <1>3, <1>10, <2>1
  <2>3. QED BY <1>2, <1>10, <2>2
<1>11. CASE ~checks[1][1] /\ ~checks[2][1] /\ ~checks[3][1] /\ ~checks[4][1] /\ ~checks[5][1] /\ ~checks[6][1] /\ checks[7][1]
  <2>1. \A j \in 1..7 : checks[j][1] => 7 <= j
    BY <1>4, <1>11
  <2>2. first = checks[7][2]
    BY <1>3, <1>11, <2>1
  <2>3. QED BY <1>2, <1>11, <2>2
<1>12. CASE ~checks[1][1] /\ ~checks[2][1] /\ ~checks[3][1] /\ ~checks[4][1] /\ ~checks[5][1] /\ ~checks[6][1] /\ ~checks[7][1]
  <2>1. \A j \in 1..7 : ~checks[j][1]
    BY <1>4, <1>12
  <2>2. QED BY <1>12, <2>1, NoneFailed
<1>13. QED BY <1>5, <1>6, <1>7, <1>8, <1>9, <1>10, <1>11, <1>12

\* The nine checks of the backend.
LEMMA NineChecks ==
    ASSUME NEW checks, DOMAIN checks = 1..9
    PROVE  App!FirstOf(checks, "VALID") =
             IF checks[1][1] THEN checks[1][2]
             ELSE IF checks[2][1] THEN checks[2][2]
             ELSE IF checks[3][1] THEN checks[3][2]
             ELSE IF checks[4][1] THEN checks[4][2]
             ELSE IF checks[5][1] THEN checks[5][2]
             ELSE IF checks[6][1] THEN checks[6][2]
             ELSE IF checks[7][1] THEN checks[7][2]
             ELSE IF checks[8][1] THEN checks[8][2]
             ELSE IF checks[9][1] THEN checks[9][2]
             ELSE "VALID"
<1>1. 1..9 \subseteq Int
  OBVIOUS
<1>2. PICK first : first = App!FirstOf(checks, "VALID")
  OBVIOUS
<1>3. ASSUME NEW i \in 1..9, checks[i][1], \A j \in 1..9 : checks[j][1] => i <= j
      PROVE  first = checks[i][2]
  BY <1>1, <1>2, <1>3, FirstFailed
<1>4. \A j \in 1..9 : j = 1 \/ j = 2 \/ j = 3 \/ j = 4 \/ j = 5 \/ j = 6 \/ j = 7 \/ j = 8 \/ j = 9
  OBVIOUS
<1>5. CASE checks[1][1]
  <2>1. \A j \in 1..9 : checks[j][1] => 1 <= j
    BY <1>4, <1>5
  <2>2. first = checks[1][2]
    BY <1>3, <1>5, <2>1
  <2>3. QED BY <1>2, <1>5, <2>2
<1>6. CASE ~checks[1][1] /\ checks[2][1]
  <2>1. \A j \in 1..9 : checks[j][1] => 2 <= j
    BY <1>4, <1>6
  <2>2. first = checks[2][2]
    BY <1>3, <1>6, <2>1
  <2>3. QED BY <1>2, <1>6, <2>2
<1>7. CASE ~checks[1][1] /\ ~checks[2][1] /\ checks[3][1]
  <2>1. \A j \in 1..9 : checks[j][1] => 3 <= j
    BY <1>4, <1>7
  <2>2. first = checks[3][2]
    BY <1>3, <1>7, <2>1
  <2>3. QED BY <1>2, <1>7, <2>2
<1>8. CASE ~checks[1][1] /\ ~checks[2][1] /\ ~checks[3][1] /\ checks[4][1]
  <2>1. \A j \in 1..9 : checks[j][1] => 4 <= j
    BY <1>4, <1>8
  <2>2. first = checks[4][2]
    BY <1>3, <1>8, <2>1
  <2>3. QED BY <1>2, <1>8, <2>2
<1>9. CASE ~checks[1][1] /\ ~checks[2][1] /\ ~checks[3][1] /\ ~checks[4][1] /\ checks[5][1]
  <2>1. \A j \in 1..9 : checks[j][1] => 5 <= j
    BY <1>4, <1>9
  <2>2. first = checks[5][2]
    BY <1>3, <1>9, <2>1
  <2>3. QED BY <1>2, <1>9, <2>2
<1>10. CASE ~checks[1][1] /\ ~checks[2][1] /\ ~checks[3][1] /\ ~checks[4][1] /\ ~checks[5][1] /\ checks[6][1]
  <2>1. \A j \in 1..9 : checks[j][1] => 6 <= j
    BY <1>4, <1>10
  <2>2. first = checks[6][2]
    BY <1>3, <1>10, <2>1
  <2>3. QED BY <1>2, <1>10, <2>2
<1>11. CASE ~checks[1][1] /\ ~checks[2][1] /\ ~checks[3][1] /\ ~checks[4][1] /\ ~checks[5][1] /\ ~checks[6][1] /\ checks[7][1]
  <2>1. \A j \in 1..9 : checks[j][1] => 7 <= j
    BY <1>4, <1>11
  <2>2. first = checks[7][2]
    BY <1>3, <1>11, <2>1
  <2>3. QED BY <1>2, <1>11, <2>2
<1>12. CASE ~checks[1][1] /\ ~checks[2][1] /\ ~checks[3][1] /\ ~checks[4][1] /\ ~checks[5][1] /\ ~checks[6][1] /\ ~checks[7][1] /\ checks[8][1]
  <2>1. \A j \in 1..9 : checks[j][1] => 8 <= j
    BY <1>4, <1>12
  <2>2. first = checks[8][2]
    BY <1>3, <1>12, <2>1
  <2>3. QED BY <1>2, <1>12, <2>2
<1>13. CASE ~checks[1][1] /\ ~checks[2][1] /\ ~checks[3][1] /\ ~checks[4][1] /\ ~checks[5][1] /\ ~checks[6][1] /\ ~checks[7][1] /\ ~checks[8][1] /\ checks[9][1]
  <2>1. \A j \in 1..9 : checks[j][1] => 9 <= j
    BY <1>4, <1>13
  <2>2. first = checks[9][2]
    BY <1>3, <1>13, <2>1
  <2>3. QED BY <1>2, <1>13, <2>2
<1>14. CASE ~checks[1][1] /\ ~checks[2][1] /\ ~checks[3][1] /\ ~checks[4][1] /\ ~checks[5][1] /\ ~checks[6][1] /\ ~checks[7][1] /\ ~checks[8][1] /\ ~checks[9][1]
  <2>1. \A j \in 1..9 : ~checks[j][1]
    BY <1>4, <1>14
  <2>2. QED BY <1>14, <2>1, NoneFailed
<1>15. QED BY <1>5, <1>6, <1>7, <1>8, <1>9, <1>10, <1>11, <1>12, <1>13, <1>14

\* The status for the answers to the questions that every verifier asks, in this order.
Verdict(malformed, unattested, unsigned, future, revoked, expired) ==
    IF malformed THEN "INVALID_FORMAT" ELSE IF unattested THEN "INVALID_ATTESTATION"
    ELSE IF unsigned THEN "INVALID_SIGNATURE" ELSE IF future THEN "INVALID_FORMAT"
    ELSE IF revoked THEN "REVOKED" ELSE IF expired THEN "EXPIRED" ELSE "VALID"

LEMMA AppVerdict ==
    ASSUME NEW token, NEW root, NEW at, NEW list,
           NEW cert, cert = token.body, NEW att, att = cert.att.body,
           NEW listed, listed = App!verifyRevocationList(list, root),
           at \in Int, cert.iat \in Int, cert.exp \in Int
    PROVE  App!verifyCertificate(token, root, at, list) =
             App!Answer(Verdict(~(App!splitToken(token, "SS1") /\ App!parseBody(token)),
                                \/ ~App!verifyToken(cert.att, "SA1", root)
                                \/ ~App!publicKeyFromB64url(att.dpk)
                                \/ ~App!Covers(att, cert, at) \/ att.site # cert.site,
                                ~App!verifySignature(att.dpk, token),
                                App!FromFuture(cert, at),
                                listed /\ cert.cid \in list.body.cids,
                                at > cert.exp),
                        IF list = NoToken THEN "NO_LIST" ELSE IF listed THEN "CHECKED" ELSE "INVALID_LIST")
<1>1a. PICK a \in BOOLEAN : a <=> ~(App!splitToken(token, "SS1") /\ App!parseBody(token))
  OBVIOUS
<1>1b. PICK b \in BOOLEAN : b <=> (~App!verifyToken(cert.att, "SA1", root) \/ ~App!publicKeyFromB64url(att.dpk))
  OBVIOUS
<1>1c. PICK c \in BOOLEAN : c <=> (~App!Covers(att, cert, at) \/ att.site # cert.site)
  OBVIOUS
<1>1d. PICK d \in BOOLEAN : d <=> (~App!verifySignature(att.dpk, token))
  OBVIOUS
<1>1e. PICK e \in BOOLEAN : e <=> App!FromFuture(cert, at)
  OBVIOUS
<1>1f. PICK f \in BOOLEAN : f <=> (listed /\ cert.cid \in list.body.cids)
  OBVIOUS
<1>1g. PICK g \in BOOLEAN : g <=> (at > cert.exp)
  OBVIOUS
<1>2. PICK checks :
         checks = << <<~(App!splitToken(token, "SS1") /\ App!parseBody(token)), "INVALID_FORMAT">>,
                     <<(~App!verifyToken(cert.att, "SA1", root) \/ ~App!publicKeyFromB64url(att.dpk)), "INVALID_ATTESTATION">>,
                     <<(~App!Covers(att, cert, at) \/ att.site # cert.site), "INVALID_ATTESTATION">>,
                     <<(~App!verifySignature(att.dpk, token)), "INVALID_SIGNATURE">>,
                     <<App!FromFuture(cert, at), "INVALID_FORMAT">>,
                     <<(listed /\ cert.cid \in list.body.cids), "REVOKED">>,
                     <<(at > cert.exp), "EXPIRED">> >>
  OBVIOUS
<1>3. App!verifyCertificate(token, root, at, list) =
        App!Answer(App!FirstOf(checks, "VALID"),
                   IF list = NoToken THEN "NO_LIST" ELSE IF listed THEN "CHECKED" ELSE "INVALID_LIST")
  BY <1>2 DEF App!verifyCertificate
<1>4. App!FirstOf(checks, "VALID") = Verdict(a, b \/ c, d, e, f, g)
  <2>0. DOMAIN checks = 1..7
    BY <1>2
  <2>a. (checks[1][1] <=> a) /\ checks[1][2] = "INVALID_FORMAT"
    BY <1>2, <1>1a
  <2>b. (checks[2][1] <=> b) /\ checks[2][2] = "INVALID_ATTESTATION"
    BY <1>2, <1>1b
  <2>c. (checks[3][1] <=> c) /\ checks[3][2] = "INVALID_ATTESTATION"
    BY <1>2, <1>1c
  <2>d. (checks[4][1] <=> d) /\ checks[4][2] = "INVALID_SIGNATURE"
    BY <1>2, <1>1d
  <2>e. (checks[5][1] <=> e) /\ checks[5][2] = "INVALID_FORMAT"
    BY <1>2, <1>1e
  <2>f. (checks[6][1] <=> f) /\ checks[6][2] = "REVOKED"
    BY <1>2, <1>1f
  <2>g. (checks[7][1] <=> g) /\ checks[7][2] = "EXPIRED"
    BY <1>2, <1>1g
  <2>1. App!FirstOf(checks, "VALID") =
             IF checks[1][1] THEN checks[1][2]
             ELSE IF checks[2][1] THEN checks[2][2]
             ELSE IF checks[3][1] THEN checks[3][2]
             ELSE IF checks[4][1] THEN checks[4][2]
             ELSE IF checks[5][1] THEN checks[5][2]
             ELSE IF checks[6][1] THEN checks[6][2]
             ELSE IF checks[7][1] THEN checks[7][2]
             ELSE "VALID"
    BY <2>0, SevenChecks
  <2>2. QED BY <2>1, <2>a, <2>b, <2>c, <2>d, <2>e, <2>f, <2>g DEF Verdict
<1>5. QED BY <1>1a, <1>1b, <1>1c, <1>1d, <1>1e, <1>1f, <1>1g, <1>3, <1>4 DEF Verdict

LEMMA DashboardVerdict ==
    ASSUME NEW token, NEW root, NEW at, NEW list,
           NEW cert, cert = token.body, NEW att, att = cert.att.body,
           NEW listed, listed = (list # NoToken /\ Dashboard!verifyRevocationList(list, root)),
           at \in Int, cert.iat \in Int, cert.exp \in Int
    PROVE  Dashboard!verifyCertificate(token, root, at, list) =
             Dashboard!Answer(Verdict(~(Dashboard!splitToken(token, "SS1") /\ Dashboard!parseBody(token)),
                                      \/ ~Dashboard!verifyToken(cert.att, "SA1", root)
                                      \/ att.dpk = Weak
                                      \/ ~(att.iat <= cert.iat /\ cert.iat <= att.exp)
                                      \/ att.site # cert.site,
                                      ~Dashboard!verifySignature(att.dpk, token),
                                      cert.iat > at + Skew,
                                      listed /\ cert.cid \in list.body.cids,
                                      at > cert.exp),
                              IF list = NoToken THEN "NO_LIST" ELSE IF listed THEN "CHECKED" ELSE "INVALID_LIST")
<1>1a. PICK a \in BOOLEAN : a <=> ~(Dashboard!splitToken(token, "SS1") /\ Dashboard!parseBody(token))
  OBVIOUS
<1>1b. PICK b \in BOOLEAN : b <=> (~Dashboard!verifyToken(cert.att, "SA1", root) \/ att.dpk = Weak)
  OBVIOUS
<1>1c. PICK c \in BOOLEAN : c <=> (~(att.iat <= cert.iat /\ cert.iat <= att.exp) \/ att.site # cert.site)
  OBVIOUS
<1>1d. PICK d \in BOOLEAN : d <=> (~Dashboard!verifySignature(att.dpk, token))
  OBVIOUS
<1>1e. PICK e \in BOOLEAN : e <=> (cert.iat > at + Skew)
  OBVIOUS
<1>1f. PICK f \in BOOLEAN : f <=> (listed /\ cert.cid \in list.body.cids)
  OBVIOUS
<1>1g. PICK g \in BOOLEAN : g <=> (at > cert.exp)
  OBVIOUS
<1>2. PICK checks :
         checks = << <<~(Dashboard!splitToken(token, "SS1") /\ Dashboard!parseBody(token)), "INVALID_FORMAT">>,
                     <<(~Dashboard!verifyToken(cert.att, "SA1", root) \/ att.dpk = Weak), "INVALID_ATTESTATION">>,
                     <<(~(att.iat <= cert.iat /\ cert.iat <= att.exp) \/ att.site # cert.site), "INVALID_ATTESTATION">>,
                     <<(~Dashboard!verifySignature(att.dpk, token)), "INVALID_SIGNATURE">>,
                     <<(cert.iat > at + Skew), "INVALID_FORMAT">>,
                     <<(listed /\ cert.cid \in list.body.cids), "REVOKED">>,
                     <<(at > cert.exp), "EXPIRED">> >>
  OBVIOUS
<1>3. Dashboard!verifyCertificate(token, root, at, list) =
        Dashboard!Answer(Dashboard!FirstOf(checks, "VALID"),
                   IF list = NoToken THEN "NO_LIST" ELSE IF listed THEN "CHECKED" ELSE "INVALID_LIST")
  BY <1>2 DEF Dashboard!verifyCertificate
<1>4. App!FirstOf(checks, "VALID") = Verdict(a, b \/ c, d, e, f, g)
  <2>0. DOMAIN checks = 1..7
    BY <1>2
  <2>a. (checks[1][1] <=> a) /\ checks[1][2] = "INVALID_FORMAT"
    BY <1>2, <1>1a
  <2>b. (checks[2][1] <=> b) /\ checks[2][2] = "INVALID_ATTESTATION"
    BY <1>2, <1>1b
  <2>c. (checks[3][1] <=> c) /\ checks[3][2] = "INVALID_ATTESTATION"
    BY <1>2, <1>1c
  <2>d. (checks[4][1] <=> d) /\ checks[4][2] = "INVALID_SIGNATURE"
    BY <1>2, <1>1d
  <2>e. (checks[5][1] <=> e) /\ checks[5][2] = "INVALID_FORMAT"
    BY <1>2, <1>1e
  <2>f. (checks[6][1] <=> f) /\ checks[6][2] = "REVOKED"
    BY <1>2, <1>1f
  <2>g. (checks[7][1] <=> g) /\ checks[7][2] = "EXPIRED"
    BY <1>2, <1>1g
  <2>1. App!FirstOf(checks, "VALID") =
             IF checks[1][1] THEN checks[1][2]
             ELSE IF checks[2][1] THEN checks[2][2]
             ELSE IF checks[3][1] THEN checks[3][2]
             ELSE IF checks[4][1] THEN checks[4][2]
             ELSE IF checks[5][1] THEN checks[5][2]
             ELSE IF checks[6][1] THEN checks[6][2]
             ELSE IF checks[7][1] THEN checks[7][2]
             ELSE "VALID"
    BY <2>0, SevenChecks
  <2>2. QED BY <2>1, <2>a, <2>b, <2>c, <2>d, <2>e, <2>f, <2>g DEF Verdict
<1>5. Dashboard!FirstOf(checks, "VALID") = App!FirstOf(checks, "VALID")
  BY SameFirst
<1>6. QED BY <1>1a, <1>1b, <1>1c, <1>1d, <1>1e, <1>1f, <1>1g, <1>3, <1>4, <1>5 DEF Verdict

LEMMA ServerVerdict ==
    ASSUME NEW token, NEW root, NEW at, NEW list,
           NEW cert, cert = token.body, NEW att, att = cert.att.body,
           NEW revocation, revocation = Server!check_revocation_list(list, root),
           at \in Int, cert.iat \in Int, cert.exp \in Int
    PROVE  Server!verify_certificate(token, root, at, list) =
             Server!Answer(Verdict(~Server!split_token(token, "SS1") \/ ~Server!parse_body(token),
                                   \/ ~Server!verify_token(cert.att, "SA1", root)
                                   \/ ~Server!public_key_from_b64url(att.dpk)
                                   \/ cert.iat \notin att.iat .. att.exp \/ att.site # cert.site,
                                   ~Server!verify_signature(att.dpk, token),
                                   cert.iat > at + Skew,
                                   revocation = "CHECKED" /\ cert.cid \in list.body.cids,
                                   at > cert.exp),
                           revocation)
<1>1a. PICK a \in BOOLEAN : a <=> (~Server!split_token(token, "SS1") \/ ~Server!parse_body(token))
  OBVIOUS
<1>1b. PICK b \in BOOLEAN : b <=> (~Server!verify_token(cert.att, "SA1", root))
  OBVIOUS
<1>1c. PICK c \in BOOLEAN : c <=> (~Server!public_key_from_b64url(att.dpk))
  OBVIOUS
<1>1d. PICK d \in BOOLEAN : d <=> (cert.iat \notin att.iat .. att.exp)
  OBVIOUS
<1>1e. PICK e \in BOOLEAN : e <=> (att.site # cert.site)
  OBVIOUS
<1>1f. PICK f \in BOOLEAN : f <=> (~Server!verify_signature(att.dpk, token))
  OBVIOUS
<1>1g. PICK g \in BOOLEAN : g <=> (cert.iat > at + Skew)
  OBVIOUS
<1>1h. PICK h \in BOOLEAN : h <=> (revocation = "CHECKED" /\ cert.cid \in list.body.cids)
  OBVIOUS
<1>1x. PICK x \in BOOLEAN : x <=> (at > cert.exp)
  OBVIOUS
<1>2. PICK checks :
         checks = << <<(~Server!split_token(token, "SS1") \/ ~Server!parse_body(token)), "INVALID_FORMAT">>,
                     <<(~Server!verify_token(cert.att, "SA1", root)), "INVALID_ATTESTATION">>,
                     <<(~Server!public_key_from_b64url(att.dpk)), "INVALID_ATTESTATION">>,
                     <<(cert.iat \notin att.iat .. att.exp), "INVALID_ATTESTATION">>,
                     <<(att.site # cert.site), "INVALID_ATTESTATION">>,
                     <<(~Server!verify_signature(att.dpk, token)), "INVALID_SIGNATURE">>,
                     <<(cert.iat > at + Skew), "INVALID_FORMAT">>,
                     <<(revocation = "CHECKED" /\ cert.cid \in list.body.cids), "REVOKED">>,
                     <<(at > cert.exp), "EXPIRED">> >>
  OBVIOUS
<1>3. Server!verify_certificate(token, root, at, list) =
        Server!Answer(Server!FirstOf(checks, "VALID"), revocation)
  BY <1>2 DEF Server!verify_certificate
<1>4. App!FirstOf(checks, "VALID") = Verdict(a, b \/ c \/ d \/ e, f, g, h, x)
  <2>0. DOMAIN checks = 1..9
    BY <1>2
  <2>a. (checks[1][1] <=> a) /\ checks[1][2] = "INVALID_FORMAT"
    BY <1>2, <1>1a
  <2>b. (checks[2][1] <=> b) /\ checks[2][2] = "INVALID_ATTESTATION"
    BY <1>2, <1>1b
  <2>c. (checks[3][1] <=> c) /\ checks[3][2] = "INVALID_ATTESTATION"
    BY <1>2, <1>1c
  <2>d. (checks[4][1] <=> d) /\ checks[4][2] = "INVALID_ATTESTATION"
    BY <1>2, <1>1d
  <2>e. (checks[5][1] <=> e) /\ checks[5][2] = "INVALID_ATTESTATION"
    BY <1>2, <1>1e
  <2>f. (checks[6][1] <=> f) /\ checks[6][2] = "INVALID_SIGNATURE"
    BY <1>2, <1>1f
  <2>g. (checks[7][1] <=> g) /\ checks[7][2] = "INVALID_FORMAT"
    BY <1>2, <1>1g
  <2>h. (checks[8][1] <=> h) /\ checks[8][2] = "REVOKED"
    BY <1>2, <1>1h
  <2>x. (checks[9][1] <=> x) /\ checks[9][2] = "EXPIRED"
    BY <1>2, <1>1x
  <2>1. App!FirstOf(checks, "VALID") =
             IF checks[1][1] THEN checks[1][2]
             ELSE IF checks[2][1] THEN checks[2][2]
             ELSE IF checks[3][1] THEN checks[3][2]
             ELSE IF checks[4][1] THEN checks[4][2]
             ELSE IF checks[5][1] THEN checks[5][2]
             ELSE IF checks[6][1] THEN checks[6][2]
             ELSE IF checks[7][1] THEN checks[7][2]
             ELSE IF checks[8][1] THEN checks[8][2]
             ELSE IF checks[9][1] THEN checks[9][2]
             ELSE "VALID"
    BY <2>0, NineChecks
  <2>2. QED BY <2>1, <2>a, <2>b, <2>c, <2>d, <2>e, <2>f, <2>g, <2>h, <2>x DEF Verdict
<1>5. Server!FirstOf(checks, "VALID") = App!FirstOf(checks, "VALID")
  BY SameFirst
<1>6. QED BY <1>1a, <1>1b, <1>1c, <1>1d, <1>1e, <1>1f, <1>1g, <1>1h, <1>1x, <1>3, <1>4, <1>5 DEF Verdict

\* App and dashboard give every token, whole or damaged, the same verdict.
THEOREM AppIsDashboard ==
    ASSUME NEW token, NEW root, NEW at \in Int, NEW list,
           token.body.iat \in Int, token.body.exp \in Int
    PROVE  App!verifyCertificate(token, root, at, list) = Dashboard!verifyCertificate(token, root, at, list)
<1>1. PICK cert, att : cert = token.body /\ att = cert.att.body
  OBVIOUS
<1>2. PICK listed : listed = App!verifyRevocationList(list, root)
  OBVIOUS
<1>3. listed = (list # NoToken /\ Dashboard!verifyRevocationList(list, root))
  BY <1>2 DEF App!verifyRevocationList, Dashboard!verifyRevocationList, App!verifyToken,
              Dashboard!verifyToken, App!splitToken, Dashboard!splitToken, App!verifySignature,
              Dashboard!verifySignature, App!parseBody, Dashboard!parseBody
<1>4. \A status, check : App!Answer(status, check) = Dashboard!Answer(status, check)
  BY DEF App!Answer, Dashboard!Answer, App!Verified, Dashboard!Verified
<1>5. PICK check : check = IF list = NoToken THEN "NO_LIST" ELSE IF listed THEN "CHECKED" ELSE "INVALID_LIST"
  OBVIOUS
<1>6. cert.iat \in Int /\ cert.exp \in Int
  BY <1>1
<1>7. PICK a \in BOOLEAN, b \in BOOLEAN, c \in BOOLEAN, d \in BOOLEAN, e \in BOOLEAN, f \in BOOLEAN :
         /\ a <=> ~(App!splitToken(token, "SS1") /\ App!parseBody(token))
         /\ b <=> (\/ ~App!verifyToken(cert.att, "SA1", root)
                 \/ ~App!publicKeyFromB64url(att.dpk)
                 \/ ~App!Covers(att, cert, at) \/ att.site # cert.site)
         /\ c <=> ~App!verifySignature(att.dpk, token)
         /\ d <=> App!FromFuture(cert, at)
         /\ e <=> (listed /\ cert.cid \in list.body.cids)
         /\ f <=> (at > cert.exp)
  OBVIOUS
<1>8. App!verifyCertificate(token, root, at, list) = App!Answer(Verdict(a, b, c, d, e, f), check)
  BY <1>1, <1>2, <1>5, <1>6, <1>7, AppVerdict DEF Verdict
<1>9. /\ a <=> ~(Dashboard!splitToken(token, "SS1") /\ Dashboard!parseBody(token))
      /\ b <=> (\/ ~Dashboard!verifyToken(cert.att, "SA1", root)
              \/ att.dpk = Weak
              \/ ~(att.iat <= cert.iat /\ cert.iat <= att.exp)
              \/ att.site # cert.site)
      /\ c <=> ~Dashboard!verifySignature(att.dpk, token)
      /\ d <=> (cert.iat > at + Skew)
  BY <1>7 DEF App!verifyToken, Dashboard!verifyToken, App!splitToken, Dashboard!splitToken,
          App!verifySignature, Dashboard!verifySignature, App!parseBody, Dashboard!parseBody,
          App!publicKeyFromB64url, App!Covers, App!FromFuture
<1>10. Dashboard!verifyCertificate(token, root, at, list) = Dashboard!Answer(Verdict(a, b, c, d, e, f), check)
  BY <1>1, <1>3, <1>5, <1>6, <1>7, <1>9, DashboardVerdict DEF Verdict
<1>11. QED BY <1>4, <1>8, <1>10

\* The backend gives a token the same verdict, if the numbers in it and in the list are plain.
THEOREM AppIsServer ==
    ASSUME NEW token, NEW root, NEW at \in Int, NEW list, PlainNumbers(token),
           list # NoToken => list.numbers = App!Plain,
           token.body.iat \in Int, token.body.exp \in Int,
           token.body.att.body.iat \in Int, token.body.att.body.exp \in Int
    PROVE  App!verifyCertificate(token, root, at, list) = Server!verify_certificate(token, root, at, list)
<1>1. PICK cert, att : cert = token.body /\ att = cert.att.body
  OBVIOUS
<1>2. PICK listed : listed = App!verifyRevocationList(list, root)
  OBVIOUS
<1>3. PICK revocation : revocation = Server!check_revocation_list(list, root)
  OBVIOUS
<1>4. /\ revocation = (IF list = NoToken THEN "NO_LIST" ELSE IF listed THEN "CHECKED" ELSE "INVALID_LIST")
      /\ listed => list # NoToken
      /\ listed \in BOOLEAN
  BY <1>2, <1>3 DEF Server!check_revocation_list, App!verifyRevocationList, App!verifyToken,
              Server!verify_token, App!splitToken, Server!split_token, App!verifySignature,
              Server!verify_signature, App!parseBody, Server!parse_body, App!Plain
<1>5. \A status, check : App!Answer(status, check) = Server!Answer(status, check)
  BY DEF App!Answer, Server!Answer, App!Verified, Server!Verified
<1>6. /\ cert.iat \in Int /\ cert.exp \in Int
      /\ cert.iat \in att.iat .. att.exp <=> att.iat <= cert.iat /\ cert.iat <= att.exp
  BY <1>1
<1>7. token.numbers = App!Plain /\ cert.att.numbers = App!Plain
  BY <1>1 DEF PlainNumbers
<1>8. PICK a \in BOOLEAN, b \in BOOLEAN, c \in BOOLEAN, d \in BOOLEAN, e \in BOOLEAN, f \in BOOLEAN :
         /\ a <=> ~(App!splitToken(token, "SS1") /\ App!parseBody(token))
         /\ b <=> (\/ ~App!verifyToken(cert.att, "SA1", root)
                 \/ ~App!publicKeyFromB64url(att.dpk)
                 \/ ~App!Covers(att, cert, at) \/ att.site # cert.site)
         /\ c <=> ~App!verifySignature(att.dpk, token)
         /\ d <=> App!FromFuture(cert, at)
         /\ e <=> (listed /\ cert.cid \in list.body.cids)
         /\ f <=> (at > cert.exp)
  OBVIOUS
<1>9. App!verifyCertificate(token, root, at, list) = App!Answer(Verdict(a, b, c, d, e, f), revocation)
  BY <1>1, <1>2, <1>4, <1>6, <1>8, AppVerdict DEF Verdict
<1>10. a <=> (~Server!split_token(token, "SS1") \/ ~Server!parse_body(token))
  BY <1>7, <1>8 DEF App!splitToken, Server!split_token, App!parseBody, Server!parse_body, App!Plain
<1>11. b <=> (\/ ~Server!verify_token(cert.att, "SA1", root)
            \/ ~Server!public_key_from_b64url(att.dpk)
            \/ cert.iat \notin att.iat .. att.exp \/ att.site # cert.site)
  BY <1>6, <1>7, <1>8
      DEF App!verifyToken, Server!verify_token, App!splitToken, Server!split_token,
          App!verifySignature, Server!verify_signature, App!parseBody, Server!parse_body,
          App!publicKeyFromB64url, Server!public_key_from_b64url, App!Covers, App!Plain
<1>12. /\ c <=> ~Server!verify_signature(att.dpk, token)
       /\ d <=> (cert.iat > at + Skew)
  BY <1>8 DEF App!verifySignature, Server!verify_signature, App!FromFuture
<1>13. e <=> (revocation = "CHECKED" /\ cert.cid \in list.body.cids)
  BY <1>4, <1>8
<1>14. Server!verify_certificate(token, root, at, list) = Server!Answer(Verdict(a, b, c, d, e, f), revocation)
  BY <1>1, <1>3, <1>6, <1>8, <1>10, <1>11, <1>12, <1>13, ServerVerdict DEF Verdict
<1>15. QED BY <1>5, <1>9, <1>14

-----------------------------------------------------------------------------
(* Certificates of ours *)

\* The fields of an attestation for the phone, whoever signed it.
IsAttestation(token) ==
    /\ token.prefix = "SA1" /\ token.canonical /\ token.numbers = App!Plain
    /\ token.body.dpk = DeviceKey /\ token.body.site = Site
    /\ token.body.iat \in Int /\ token.body.exp \in Int

\* The fields of what the phone signs in the time of such an attestation.
IsCertificate(token) ==
    /\ token.prefix = "SS1" /\ token.canonical /\ token.numbers = App!Plain
    /\ token.signer = DeviceKey /\ token.body.site = Site
    /\ token.body.iat \in Int /\ token.body.exp \in Int
    /\ IsAttestation(token.body.att)
    /\ IssuedInTime(token)

LEMMA AttestationFields ==
    ASSUME NEW token \in Attestation
    PROVE  IsAttestation(token)
<1>1. PICK body : body = token.body
  OBVIOUS
<1>2. body \in [dpk : {DeviceKey}, site : {Site}, iat : Int, exp : Int]
  BY <1>1 DEF Attestation
<1>3. token.prefix = "SA1" /\ token.canonical /\ token.numbers = App!Plain
  BY DEF Attestation
<1>4. QED BY <1>1, <1>2, <1>3 DEF IsAttestation

LEMMA CertificateFields ==
    ASSUME NEW token \in Certificate, IssuedInTime(token)
    PROVE  IsCertificate(token)
<1>1. PICK body : body = token.body
  OBVIOUS
<1>2. body \in [cid : Nat, site : {Site}, mods : SUBSET Attempt, iat : Int, exp : Int, att : Attestation]
  BY <1>1 DEF Certificate
<1>3. token.prefix = "SS1" /\ token.canonical /\ token.numbers = App!Plain /\ token.signer = DeviceKey
  BY DEF Certificate
<1>4. IsAttestation(body.att)
  BY <1>2, AttestationFields
<1>5. QED BY <1>1, <1>2, <1>3, <1>4 DEF IsCertificate

\* A certificate of ours fails only for its attestation's signer or for the time.
LEMMA OursVerdict ==
    ASSUME NEW t, IsCertificate(t), NEW root, NEW at \in Int, NEW list
    PROVE  App!verifyCertificate(t, root, at, list).status =
             IF t.body.att.signer # root THEN "INVALID_ATTESTATION"
             ELSE IF t.body.iat > at + Skew THEN "INVALID_FORMAT"
             ELSE IF App!verifyRevocationList(list, root) /\ t.body.cid \in list.body.cids THEN "REVOKED"
             ELSE IF at > t.body.exp THEN "EXPIRED" ELSE "VALID"
<1>1. PICK cert, att, listed :
         cert = t.body /\ att = cert.att.body /\ listed = App!verifyRevocationList(list, root)
  OBVIOUS
<1>2. cert.iat \in Int /\ cert.exp \in Int
  BY <1>1 DEF IsCertificate
<1>3. PICK a \in BOOLEAN, b \in BOOLEAN, c \in BOOLEAN, d \in BOOLEAN, e \in BOOLEAN, f \in BOOLEAN :
         /\ a <=> ~(App!splitToken(t, "SS1") /\ App!parseBody(t))
         /\ b <=> (\/ ~App!verifyToken(cert.att, "SA1", root)
                   \/ ~App!publicKeyFromB64url(att.dpk)
                   \/ ~App!Covers(att, cert, at) \/ att.site # cert.site)
         /\ c <=> ~App!verifySignature(att.dpk, t)
         /\ d <=> App!FromFuture(cert, at)
         /\ e <=> (listed /\ cert.cid \in list.body.cids)
         /\ f <=> (at > cert.exp)
  OBVIOUS
<1>4. PICK check : App!verifyCertificate(t, root, at, list) = App!Answer(Verdict(a, b, c, d, e, f), check)
  BY <1>1, <1>2, <1>3, AppVerdict DEF Verdict
<1>5. App!verifyCertificate(t, root, at, list).status = Verdict(a, b, c, d, e, f)
  <2>1. PICK answer, status : answer = App!verifyCertificate(t, root, at, list) /\ status = Verdict(a, b, c, d, e, f)
    OBVIOUS
  <2>2. answer = App!Answer(status, check)
    BY <1>4, <2>1
  <2>3. answer.status = status
    BY <2>2 DEF App!Answer
  <2>4. QED BY <2>1, <2>3
<1>6. ~a /\ ~c
  BY <1>1, <1>3 DEF IsCertificate, IsAttestation, App!splitToken, App!parseBody, App!Plain, App!verifySignature
<1>7. b <=> t.body.att.signer # root
  BY <1>1, <1>3, ContentAssumption
     DEF IsCertificate, IsAttestation, App!verifyToken, App!splitToken, App!parseBody, App!Plain,
         App!verifySignature, App!publicKeyFromB64url, App!Covers, IssuedInTime
<1>8. QED BY <1>1, <1>3, <1>5, <1>6, <1>7 DEF Verdict, App!FromFuture

\* The server's answer on it is the same.
LEMMA ServerOursVerdict ==
    ASSUME NEW t, IsCertificate(t), NEW root, NEW at \in Int, NEW list,
           list # NoToken => list.numbers = App!Plain
    PROVE  Server!verify_certificate(t, root, at, list) = App!verifyCertificate(t, root, at, list)
<1>1. PlainNumbers(t)
  BY DEF IsCertificate, IsAttestation, PlainNumbers
<1>2. /\ t.body.iat \in Int /\ t.body.exp \in Int
      /\ t.body.att.body.iat \in Int /\ t.body.att.body.exp \in Int
  BY DEF IsCertificate, IsAttestation
<1>3. QED BY <1>1, <1>2, AppIsServer

-----------------------------------------------------------------------------
(* What is issued *)

\* Of the passes of a module, Picked takes the newest.
LEMMA NewestPass ==
    ASSUME IInv, Missing = {}, NEW m \in Required
    PROVE  (CHOOSE a \in Passes(m) : \A b \in Passes(m) : b.startedAt <= a.startedAt) \in Passes(m)
<1>1. Passes(m) # {} /\ Passes(m) \subseteq attempts /\ attempts \subseteq Attempt /\ IsFiniteSet(attempts)
  BY DEF Missing, Passes, IInv, TypeOK, CertificatesAreOurs
<1>2. IsFiniteSet(Passes(m))
  BY <1>1, FS_Subset
<1>3. PICK key : key = [a \in Passes(m) |-> a.startedAt]
  OBVIOUS
<1>4. key \in [Passes(m) -> Int]
  BY <1>1, <1>3 DEF Attempt
<1>5. PICK newest \in Passes(m) : \A b \in Passes(m) : key[b] <= key[newest]
  BY <1>1, <1>2, <1>4, GreatestByKey
<1>6. \A b \in Passes(m) : b.startedAt <= newest.startedAt
  BY <1>3, <1>5
<1>7. QED BY <1>6

LEMMA PickedAreAttempts ==
    ASSUME IInv, Missing = {}
    PROVE  Picked \subseteq Attempt
<1>1. ASSUME NEW m \in Required
      PROVE  (CHOOSE a \in Passes(m) : \A b \in Passes(m) : b.startedAt <= a.startedAt) \in Attempt
  BY NewestPass DEF Passes, IInv, TypeOK
<1>2. QED BY <1>1 DEF Picked

LEMMA PickedCoversModules ==
    ASSUME IInv, Missing = {}, NEW m \in Required
    PROVE  [scenarioId |-> m.id, scenarioVersion |-> m.version, dueDay |-> 0, passed |-> TRUE]
             \in {[scenarioId |-> a.scenarioId, scenarioVersion |-> a.scenarioVersion,
                   dueDay |-> a.dueDay, passed |-> a.passed] : a \in Picked}
<1>1. PICK a : a = CHOOSE c \in Passes(m) : \A b \in Passes(m) : b.startedAt <= c.startedAt
  OBVIOUS
<1>2. a \in Passes(m)
  BY <1>1, NewestPass
<1>3. a \in Picked
  BY <1>1 DEF Picked
<1>4. a \in Attempt /\ a.passed /\ ~(a.dueDay > 0) /\ a.scenarioId = m.id /\ a.scenarioVersion = m.version
  BY <1>2 DEF Passes, isRefresher, IInv, TypeOK
<1>5. \A d \in DueDays : d \in Nat
  BY DueDaysAssumption DEF parseRefresherConfig
<1>6. a.dueDay \in {0} \cup DueDays /\ a.passed \in BOOLEAN
  BY <1>4 DEF Attempt
<1>7. a.dueDay = 0
  <2>1. PICK day : day = a.dueDay
    OBVIOUS
  <2>2. day = 0 \/ day \in DueDays
    BY <1>6, <2>1
  <2>3. day \in Nat
    BY <1>5, <2>2
  <2>4. QED BY <1>4, <2>1, <2>3
<1>8. a.passed = TRUE
  BY <1>4, <1>6
<1>9. QED BY <1>3, <1>4, <1>7, <1>8

\* The least of the modules' validities is one that a date can be made of.
LEMMA ValidityIsNat == App!Min({m.validity : m \in Required}) \in Nat
<1>1. PICK S : S = {m.validity : m \in Required}
  OBVIOUS
<1>2. S \subseteq Nat
  BY <1>1, ContentAssumption
<1>3. PICK key : key = [m \in Required |-> m.validity]
  OBVIOUS
<1>4. key \in [Required -> Int]
  BY <1>3, ContentAssumption
<1>5. PICK least \in Required : \A m \in Required : key[least] <= key[m]
  BY <1>4, ContentAssumption, LeastByKey
<1>6. \A m \in Required : least.validity <= m.validity
  BY <1>3, <1>5
<1>7. least.validity \in S /\ \A v \in S : least.validity <= v
  BY <1>1, <1>6
<1>8. PICK v \in S : v = least.validity
  BY <1>7
<1>9. S \in SUBSET Int /\ \A x \in S : v <= x
  BY <1>2, <1>7, <1>8
<1>10. App!Min(S) = v
  BY <1>8, <1>9, MinIs
<1>11. QED BY <1>1, <1>2, <1>8, <1>10

\* What the phone attests itself with in demo mode, or has, is an attestation of its own.
LEMMA UsedIsOurs ==
    ASSUME IInv, Usable(AttestationUsed)
    PROVE  /\ AttestationUsed \in Attestation
           /\ AttestationUsed # NoToken
           /\ AttestationUsed.signer = TRUST.root
           /\ AttestationUsed.body.iat <= nowSeconds /\ nowSeconds <= AttestationUsed.body.exp
           /\ AttestationUsed.signer = Root \/ (~Real /\ AttestationUsed.signer = TestRoot)
<1>1. nowSeconds \in Int
  BY TimesAssumption DEF IInv, TypeOK, nowSeconds
<1>2. PICK att : att = AttestationUsed
  OBVIOUS
<1>3. att # NoToken /\ att.signer = TRUST.root /\ att.body.iat <= nowSeconds /\ nowSeconds <= att.body.exp
  BY <1>2 DEF Usable, App!usableAttestation, App!verifyToken, App!verifySignature
<1>4. CASE TRUST.mode = "demo" /\ ~Usable(stored)
  <2>1. att = App!signToken("SA1", App!attestationBody(DeviceKey, Site, nowSeconds, nowSeconds + Validity), TestRoot)
    BY <1>2, <1>4 DEF AttestationUsed
  <2>2. att \in Attestation /\ att.signer = TestRoot
    BY <1>1, <2>1, TimesAssumption DEF Attestation, App!signToken, App!Token, App!attestationBody, App!Plain
  <2>3. ~Real
    BY <1>4 DEF Real
  <2>4. QED BY <1>2, <1>3, <2>2, <2>3
<1>5. CASE ~(TRUST.mode = "demo" /\ ~Usable(stored))
  <2>1. att = stored
    BY <1>2, <1>5 DEF AttestationUsed
  <2>2. QED BY <1>2, <1>3, <2>1 DEF IInv, AttestationsAreOurs
<1>6. QED BY <1>4, <1>5

LEMMA IssuedIsOurs ==
    ASSUME IInv, Missing = {}, Usable(AttestationUsed), NEW token, token = Issued(AttestationUsed)
    PROVE  /\ token \in Certificate /\ IssuedInTime(token)
           /\ token.body.cid = Cardinality(certs) + 1
           /\ token.body.iat = nowSeconds /\ nowSeconds \in Int
           /\ token.body.exp \in Int /\ nowSeconds <= token.body.exp
           /\ token.body.att = AttestationUsed
           /\ token.body.mods = Picked
<1>1. nowSeconds \in Int
  BY TimesAssumption DEF IInv, TypeOK, nowSeconds
<1>2. PICK att : att = AttestationUsed
  OBVIOUS
<1>3. att \in Attestation /\ att.body.iat <= nowSeconds /\ nowSeconds <= att.body.exp
  BY <1>2, UsedIsOurs
<1>4. PICK v \in Nat : v = App!Min({m.validity : m \in Required})
  BY ValidityIsNat
<1>5. PICK body : body = [cid |-> Cardinality(certs) + 1, site |-> Site, mods |-> Picked, iat |-> nowSeconds,
                          exp |-> nowSeconds + v, att |-> att]
  OBVIOUS
<1>6. token = App!signToken("SS1", body, DeviceKey)
  BY <1>2, <1>4, <1>5 DEF Issued, App!certificateBody
<1>7. token = [prefix |-> "SS1", body |-> body, signer |-> DeviceKey, canonical |-> TRUE, numbers |-> App!Plain]
  BY <1>6 DEF App!signToken, App!Token
<1>8. Cardinality(certs) \in Nat
  BY FS_CardinalityType DEF IInv, CertificatesAreOurs
<1>9. Picked \subseteq Attempt
  BY PickedAreAttempts
<1>10. body \in [cid : Nat, site : {Site}, mods : SUBSET Attempt, iat : Int, exp : Int, att : Attestation]
  BY <1>1, <1>3, <1>5, <1>8, <1>9
<1>11. token \in Certificate
  BY <1>7, <1>10 DEF Certificate
<1>12. token.body = body
  BY <1>7
<1>13. QED BY <1>1, <1>2, <1>3, <1>5, <1>11, <1>12 DEF IssuedInTime

-----------------------------------------------------------------------------
(* The inductive invariant *)

LEMMA InitIInv == Init => IInv
<1> SUFFICES ASSUME Init PROVE IInv
  OBVIOUS
<1>1. IsFiniteSet({}) /\ Cardinality({}) = 0 /\ 1 .. 0 = {}
  BY FS_EmptySet
<1>2. DOMAIN rows = {}
  BY DEF Init
<1>3. TypeOK
  <2>1. {t.body.cid : t \in certs} = 1 .. Cardinality(certs)
    BY <1>1 DEF Init
  <2>2. QED BY <1>1, <1>2, <2>1, TimesAssumption DEF Init, TypeOK
<1>4. AttestationsAreOurs
  BY DEF Init, AttestationsAreOurs
<1>5. CertificatesAreOurs
  BY <1>1, TimesAssumption DEF Init, CertificatesAreOurs
<1>6. RowsAreVerified
  BY <1>2 DEF Init, RowsAreVerified
<1>7. QED BY <1>3, <1>4, <1>5, <1>6 DEF IInv

\* Later, what was not from the future still is not.
LEMMA TickIInv ==
    ASSUME IInv, Tick
    PROVE  IInv'
<1>1. /\ now \in 0 .. MaxTime /\ now < MaxTime /\ now' = now + 1
      /\ MaxTime \in Nat /\ Skew \in Nat
  BY TimesAssumption DEF IInv, TypeOK, Tick
<1>2. now' \in 0 .. MaxTime
  BY <1>1
<1>3. \A i \in Int : (i > now' + Skew => i > now + Skew) /\ (i <= now + Skew => i <= now' + Skew)
  BY <1>1
<1>4. \A t \in certs : t.body.iat \in Int
  BY CertificateFields DEF IInv, CertificatesAreOurs, IsCertificate
<1>5. TRUST' = TRUST /\ Real' = Real
  BY DEF Tick, TRUST, Real
<1>6. TypeOK'
  BY <1>2 DEF IInv, TypeOK, Tick
<1>7. AttestationsAreOurs'
  BY <1>5 DEF IInv, AttestationsAreOurs, Tick
<1>8. CertificatesAreOurs'
  BY <1>3, <1>4, <1>5 DEF IInv, CertificatesAreOurs, Tick
<1>9. RowsAreVerified'
  BY <1>3, <1>4, <1>5 DEF IInv, RowsAreVerified, Tick
<1>10. QED BY <1>6, <1>7, <1>8, <1>9 DEF IInv

LEMMA SetPhoneClockIInv ==
    ASSUME IInv, SetPhoneClock
    PROVE  IInv'
<1>1. TRUST' = TRUST /\ Real' = Real
  BY DEF SetPhoneClock, TRUST, Real
<1>2. TypeOK'
  BY DEF IInv, TypeOK, SetPhoneClock
<1>3. AttestationsAreOurs'
  BY <1>1 DEF IInv, AttestationsAreOurs, SetPhoneClock
<1>4. CertificatesAreOurs'
  BY <1>1 DEF IInv, CertificatesAreOurs, SetPhoneClock
<1>5. RowsAreVerified'
  BY <1>1 DEF IInv, RowsAreVerified, SetPhoneClock
<1>6. QED BY <1>2, <1>3, <1>4, <1>5 DEF IInv

LEMMA ApproveIInv ==
    ASSUME IInv, Approve
    PROVE  IInv'
<1>1. TRUST' = TRUST /\ Real' = Real
  BY DEF Approve, TRUST, Real
<1>2. now \in Int /\ now + Validity \in Int
  BY TimesAssumption DEF IInv, TypeOK
<1>3. approved' = Server!approve_device(DeviceKey, Site, Root, now, Validity)
  BY DEF Approve
<1>4. approved' \in Attestation /\ approved'.signer = Root
  BY <1>2, <1>3
     DEF Attestation, Server!approve_device, Server!Token, App!Plain, Server!Plain
<1>5. TypeOK'
  BY <1>4 DEF IInv, TypeOK, Approve
<1>6. AttestationsAreOurs'
  BY <1>1, <1>4 DEF IInv, AttestationsAreOurs, Approve
<1>7. CertificatesAreOurs'
  BY <1>1 DEF IInv, CertificatesAreOurs, Approve
<1>8. RowsAreVerified'
  BY <1>1 DEF IInv, RowsAreVerified, Approve
<1>9. QED BY <1>5, <1>6, <1>7, <1>8 DEF IInv

LEMMA StoreAttestationIInv ==
    ASSUME IInv, StoreAttestation
    PROVE  IInv'
<1>1. TRUST' = TRUST /\ Real' = Real
  BY DEF StoreAttestation, TRUST, Real
<1>2. stored' \in Attestation /\ stored'.signer = Root
  BY DEF IInv, TypeOK, AttestationsAreOurs, StoreAttestation
<1>3. TypeOK'
  BY <1>2, AttestationFields DEF IInv, TypeOK, StoreAttestation, IsAttestation
<1>4. AttestationsAreOurs'
  BY <1>1, <1>2 DEF IInv, AttestationsAreOurs, StoreAttestation
<1>5. CertificatesAreOurs'
  BY <1>1 DEF IInv, CertificatesAreOurs, StoreAttestation
<1>6. RowsAreVerified'
  BY <1>1 DEF IInv, RowsAreVerified, StoreAttestation
<1>7. QED BY <1>3, <1>4, <1>5, <1>6 DEF IInv

LEMMA FinishIInv ==
    ASSUME IInv, Finish
    PROVE  IInv'
<1>1. TRUST' = TRUST /\ Real' = Real
  BY DEF Finish, TRUST, Real
<1>2. PICK s \in Shapes :
          attempts' = attempts \cup
             {[scenarioId |-> s.id, scenarioVersion |-> s.version, dueDay |-> s.dueDay,
               passed |-> s.passed, startedAt |-> nowSeconds]}
  BY DEF Finish
<1>3. PICK a : a = [scenarioId |-> s.id, scenarioVersion |-> s.version, dueDay |-> s.dueDay,
                    passed |-> s.passed, startedAt |-> nowSeconds]
  OBVIOUS
<1>4. nowSeconds \in Int
  BY TimesAssumption DEF IInv, TypeOK, nowSeconds
<1>5. a \in Attempt
  BY <1>2, <1>3, <1>4, ContentAssumption DEF Attempt, Scenarios
<1>6. attempts' = attempts \cup {a}
  BY <1>2, <1>3
<1>7. TypeOK'
  BY <1>5, <1>6 DEF IInv, TypeOK, Finish
<1>8. AttestationsAreOurs'
  BY <1>1 DEF IInv, AttestationsAreOurs, Finish
<1>9. CertificatesAreOurs'
  <2>1. IsFiniteSet(attempts) /\ certs = {} /\ certs' = {} /\ Cardinality(attempts) < MaxRecords - 1
    BY DEF IInv, CertificatesAreOurs, Finish
  <2>2. /\ IsFiniteSet(attempts')
        /\ Cardinality(attempts') \in Nat /\ Cardinality(attempts) \in Nat
        /\ Cardinality(attempts') <= Cardinality(attempts) + 1
    <3>1. IsFiniteSet(attempts \cup {a})
      BY <2>1, FS_AddElement
    <3>2. \/ Cardinality(attempts \cup {a}) = Cardinality(attempts)
          \/ Cardinality(attempts \cup {a}) = Cardinality(attempts) + 1
      BY <2>1, FS_AddElement
    <3>3. Cardinality(attempts) \in Nat
      BY <2>1, FS_CardinalityType
    <3>4. QED BY <1>6, <3>1, <3>2, <3>3
  <2>3. IsFiniteSet(certs') /\ Cardinality(certs') = 0
    BY <2>1, FS_EmptySet
  <2>4. Cardinality(certs') + Cardinality(attempts') <= MaxRecords
    BY <2>1, <2>2, <2>3, TimesAssumption
  <2>5. QED BY <2>1, <2>2, <2>3, <2>4 DEF CertificatesAreOurs
<1>10. RowsAreVerified'
  BY <1>1 DEF IInv, RowsAreVerified, Finish
<1>11. QED BY <1>7, <1>8, <1>9, <1>10 DEF IInv

LEMMA RevokeIInv ==
    ASSUME IInv, Revoke
    PROVE  IInv'
<1>1. TRUST' = TRUST /\ Real' = Real
  BY DEF Revoke, TRUST, Real
<1>2. PICK c \in DOMAIN rows : rows' = [rows EXCEPT ![c].revoked = TRUE]
  BY DEF Revoke
<1>3. \A d \in DOMAIN rows : rows[d] \in [expiresAt : Int, revoked : BOOLEAN]
  BY DEF IInv, RowsAreVerified
<1>4. DOMAIN rows' = DOMAIN rows
  BY <1>2
<1>5. \A d \in DOMAIN rows :
         rows'[d] \in [expiresAt : Int, revoked : BOOLEAN] /\ rows'[d].expiresAt = rows[d].expiresAt
  BY <1>2, <1>3
<1>6. TypeOK'
  BY <1>4 DEF IInv, TypeOK, Revoke
<1>7. AttestationsAreOurs'
  BY <1>1 DEF IInv, AttestationsAreOurs, Revoke
<1>8. CertificatesAreOurs'
  BY <1>1 DEF IInv, CertificatesAreOurs, Revoke
<1>9. RowsAreVerified'
  BY <1>1, <1>4, <1>5 DEF IInv, RowsAreVerified, Revoke
<1>10. QED BY <1>6, <1>7, <1>8, <1>9 DEF IInv

\* What the server takes in it verified, and what it refuses in a real build was from
\* the future.
LEMMA PushIInv ==
    ASSUME IInv, Push
    PROVE  IInv'
<1>1. TRUST' = TRUST /\ Real' = Real
  BY DEF Push, TRUST, Real
<1>2. PICK t \in certs :
          /\ t.body.cid \notin DOMAIN rows \cup refused
          /\ IF Server!verify_certificate(t, Root, now, NoToken).status \in Server!Verified
             THEN /\ rows' = [c \in DOMAIN rows \cup {t.body.cid} |->
                                IF c = t.body.cid
                                THEN [expiresAt |-> t.body.exp, revoked |-> FALSE] ELSE rows[c]]
                  /\ UNCHANGED refused
             ELSE refused' = refused \cup {t.body.cid} /\ UNCHANGED rows
  BY DEF Push
<1>3. UNCHANGED <<file, now, offset, approved, stored, attempts, certs, ahead>>
  BY DEF Push
<1>4. PICK cid : cid = t.body.cid
  OBVIOUS
<1>5. cid \in 1 .. Cardinality(certs)
  BY <1>4 DEF IInv, TypeOK
<1>6. IsCertificate(t) /\ now \in Int
  BY CertificateFields DEF IInv, CertificatesAreOurs, TypeOK
<1>7. t.body.iat \in Int /\ t.body.exp \in Int
  BY <1>6 DEF IsCertificate
<1>8. PICK status : status = Server!verify_certificate(t, Root, now, NoToken).status
  OBVIOUS
<1>9. status = IF t.body.att.signer # Root THEN "INVALID_ATTESTATION"
               ELSE IF t.body.iat > now + Skew THEN "INVALID_FORMAT"
               ELSE IF now > t.body.exp THEN "EXPIRED" ELSE "VALID"
  <2>1. PICK none : none = NoToken
    OBVIOUS
  <2>2. ~App!verifyRevocationList(none, Root)
    BY <2>1 DEF App!verifyRevocationList
  <2>3. Server!verify_certificate(t, Root, now, none) = App!verifyCertificate(t, Root, now, none)
    BY <1>6, <2>1, ServerOursVerdict
  <2>4. QED BY <1>6, <1>8, <2>1, <2>2, <2>3, OursVerdict
<1>10. AttestationsAreOurs'
  BY <1>1, <1>3 DEF IInv, AttestationsAreOurs
<1>11. CertificatesAreOurs'
  BY <1>1, <1>3 DEF IInv, CertificatesAreOurs
<1>12. CASE status \in Server!Verified
  <2>1. t.body.att.signer = Root /\ ~(t.body.iat > now + Skew)
    BY <1>9, <1>12 DEF Server!Verified
  <2>2. t.body.iat <= now + Skew
    BY <1>6, <1>7, <2>1, TimesAssumption
  <2>3. /\ rows' = [c \in DOMAIN rows \cup {cid} |->
                      IF c = cid THEN [expiresAt |-> t.body.exp, revoked |-> FALSE] ELSE rows[c]]
        /\ refused' = refused
    BY <1>2, <1>4, <1>8, <1>12
  <2>4. DOMAIN rows' = DOMAIN rows \cup {cid}
    BY <2>3
  <2>5. TypeOK'
    BY <1>2, <1>3, <1>4, <1>5, <2>3, <2>4 DEF IInv, TypeOK
  <2>6. RowsAreVerified'
    <3>1. \A c \in DOMAIN rows' : rows'[c] \in [expiresAt : Int, revoked : BOOLEAN]
      BY <1>7, <2>3, <2>4 DEF IInv, RowsAreVerified
    <3>2. ASSUME NEW u \in certs', u.body.cid \in DOMAIN rows'
          PROVE  /\ rows'[u.body.cid].expiresAt = u.body.exp
                 /\ u.body.att.signer = Root
                 /\ u.body.iat <= now' + Skew
      <4>1. CASE u.body.cid = cid
        <5>1. u = t
          BY <1>2, <1>3, <1>4, <3>2, <4>1 DEF IInv, CertificatesAreOurs
        <5>2. rows'[cid].expiresAt = t.body.exp
          BY <2>3
        <5>3. QED BY <1>3, <1>4, <2>1, <2>2, <5>1, <5>2
      <4>2. CASE u.body.cid # cid
        <5>1. u.body.cid \in DOMAIN rows /\ rows'[u.body.cid] = rows[u.body.cid]
          BY <2>3, <2>4, <3>2, <4>2
        <5>2. QED BY <1>3, <3>2, <5>1 DEF IInv, RowsAreVerified
      <4>3. QED BY <4>1, <4>2
    <3>3. Real' => refused' \subseteq ahead'
      BY <1>1, <1>3, <2>3 DEF IInv, RowsAreVerified
    <3>4. QED BY <3>1, <3>2, <3>3 DEF RowsAreVerified
  <2>7. QED BY <1>10, <1>11, <2>5, <2>6 DEF IInv
<1>13. CASE status \notin Server!Verified
  <2>1. refused' = refused \cup {cid} /\ rows' = rows
    BY <1>2, <1>4, <1>8, <1>13
  <2>2. TypeOK'
    BY <1>2, <1>3, <1>4, <1>5, <2>1 DEF IInv, TypeOK
  <2>3. Real => cid \in ahead
    <3>1. Real => t.body.att.signer = Root
      BY DEF IInv, CertificatesAreOurs
    <3>2. Real => t.body.iat > now + Skew
      BY <1>9, <1>13, <3>1 DEF Server!Verified
    <3>3. QED BY <1>4, <3>2 DEF IInv, CertificatesAreOurs
  <2>4. RowsAreVerified'
    BY <1>1, <1>3, <2>1, <2>3 DEF IInv, RowsAreVerified
  <2>5. QED BY <1>10, <1>11, <2>2, <2>4 DEF IInv
<1>14. QED BY <1>12, <1>13

\* What is issued has an id of its own, and is from the future only if the phone's clock is.
LEMMA IssueIInv ==
    ASSUME IInv, Issue
    PROVE  IInv'
<1>1. TRUST' = TRUST /\ Real' = Real
  BY DEF Issue, TRUST, Real
<1>2. PICK token : token = Issued(AttestationUsed)
  OBVIOUS
<1>3. /\ TRUST.mode # "unconfigured"
      /\ Missing = {}
      /\ Usable(AttestationUsed)
      /\ Cardinality(certs) + Cardinality(attempts) < MaxRecords
      /\ stored' = AttestationUsed
      /\ IF App!verifyCertificate(token, TRUST.root, nowSeconds, NoToken).status = "VALID"
         THEN /\ certs' = certs \cup {token}
              /\ ahead' = IF offset > Skew THEN ahead \cup {token.body.cid} ELSE ahead
         ELSE UNCHANGED <<certs, ahead>>
      /\ UNCHANGED <<file, now, offset, approved, attempts, rows, refused>>
  BY <1>2 DEF Issue
<1>4. AttestationsAreOurs' /\ stored'.body.dpk = DeviceKey
  <2>1. PICK att : att = AttestationUsed
    OBVIOUS
  <2>2. att \in Attestation /\ (att.signer = Root \/ (~Real /\ att.signer = TestRoot))
    BY <1>3, <2>1, UsedIsOurs
  <2>3. QED BY <1>1, <1>3, <2>1, <2>2, AttestationFields DEF IInv, AttestationsAreOurs, IsAttestation
<1>5. CASE UNCHANGED <<certs, ahead>>
  <2>1. TypeOK'
    BY <1>3, <1>4, <1>5 DEF IInv, TypeOK
  <2>2. CertificatesAreOurs'
    BY <1>1, <1>3, <1>5 DEF IInv, CertificatesAreOurs
  <2>3. RowsAreVerified'
    BY <1>1, <1>3, <1>5 DEF IInv, RowsAreVerified
  <2>4. QED BY <1>4, <2>1, <2>2, <2>3 DEF IInv
<1>6. CASE /\ certs' = certs \cup {token}
           /\ ahead' = IF offset > Skew THEN ahead \cup {token.body.cid} ELSE ahead
  <2>1. PICK n : n = Cardinality(certs)
    OBVIOUS
  <2>2. IsFiniteSet(certs) /\ n \in Nat /\ Cardinality(attempts) \in Nat /\ IsFiniteSet(attempts)
    BY <2>1, FS_CardinalityType DEF IInv, CertificatesAreOurs
  <2>3. /\ token \in Certificate /\ IssuedInTime(token)
        /\ token.body.cid = n + 1
        /\ token.body.iat = nowSeconds /\ nowSeconds \in Int
        /\ token.body.att = AttestationUsed
        /\ token.body.mods = Picked
    BY <1>2, <1>3, <2>1, IssuedIsOurs
  <2>4. \A t \in certs : t.body.cid \in 1 .. n
    BY <2>1 DEF IInv, TypeOK
  <2>5. token \notin certs
    BY <2>2, <2>3, <2>4
  <2>6. IsFiniteSet(certs') /\ Cardinality(certs') = n + 1
    <3>1. IsFiniteSet(certs \cup {token}) /\ Cardinality(certs \cup {token}) = Cardinality(certs) + 1
      BY <2>2, <2>5, FS_AddElement
    <3>2. QED BY <1>6, <2>1, <3>1
  <2>7. TypeOK'
    <3>1. {t.body.cid : t \in certs'} = 1 .. Cardinality(certs')
      <4>1. {t.body.cid : t \in certs} = 1 .. n
        BY <2>1 DEF IInv, TypeOK
      <4>2. {t.body.cid : t \in certs'} = {t.body.cid : t \in certs} \cup {n + 1}
        BY <1>6, <2>3
      <4>3. 1 .. (n + 1) = (1 .. n) \cup {n + 1}
        BY <2>2
      <4>4. QED BY <2>6, <4>1, <4>2, <4>3
    <3>2. ASSUME NEW t \in certs', NEW m \in Required'
          PROVE  [scenarioId |-> m.id, scenarioVersion |-> m.version, dueDay |-> 0, passed |-> TRUE]
                   \in {[scenarioId |-> a.scenarioId, scenarioVersion |-> a.scenarioVersion,
                         dueDay |-> a.dueDay, passed |-> a.passed] : a \in t.body.mods}
      <4>1. CASE t \in certs
        BY <4>1 DEF IInv, TypeOK
      <4>2. CASE t = token
        BY <1>3, <2>3, <4>2, PickedCoversModules
      <4>3. QED BY <1>6, <4>1, <4>2
    <3>3. DOMAIN rows' \cup refused' \cup ahead' \subseteq 1 .. Cardinality(certs')
      <4>1. DOMAIN rows \cup refused \cup ahead \subseteq 1 .. n
        BY <2>1 DEF IInv, TypeOK
      <4>2. ahead' \subseteq ahead \cup {n + 1}
        BY <1>6, <2>3
      <4>3. QED BY <1>3, <2>2, <2>6, <4>1, <4>2
    <3>4. QED BY <1>3, <1>4, <3>1, <3>2, <3>3 DEF IInv, TypeOK
  <2>8. CertificatesAreOurs'
    <3>1. Cardinality(certs') + Cardinality(attempts') <= MaxRecords
      BY <1>3, <2>1, <2>2, <2>6, TimesAssumption
    <3>2. ASSUME NEW t \in certs', NEW u \in certs', t.body.cid = u.body.cid
          PROVE  t = u
      <4>1. t \in certs /\ u \in certs => t = u
        BY <3>2 DEF IInv, CertificatesAreOurs
      <4>2. n + 1 \notin 1 .. n
        BY <2>2
      <4>3. t = token /\ u \in certs => FALSE
        BY <2>3, <2>4, <3>2, <4>2
      <4>4. u = token /\ t \in certs => FALSE
        BY <2>3, <2>4, <3>2, <4>2
      <4>5. QED BY <1>6, <4>1, <4>3, <4>4
    <3>3. ASSUME NEW t \in certs'
          PROVE  /\ t \in Certificate /\ IssuedInTime(t)
                 /\ TRUST'.mode # "unconfigured" /\ t.body.att.signer = TRUST'.root
                 /\ Real' => t.body.att.signer = Root
                 /\ t.body.iat > now' + Skew => t.body.cid \in ahead'
      <4>1. CASE t \in certs
        BY <1>1, <1>3, <1>6, <4>1 DEF IInv, CertificatesAreOurs
      <4>2. CASE t = token
        <5>1. PICK att : att = AttestationUsed
          OBVIOUS
        <5>2. att.signer = TRUST.root /\ (att.signer = Root \/ ~Real)
          BY <1>3, <5>1, UsedIsOurs
        <5>3. now \in Int /\ offset \in Int /\ Skew \in Int
          BY TimesAssumption DEF IInv, TypeOK
        <5>4. nowSeconds > now + Skew => offset > Skew
          BY <5>3 DEF nowSeconds
        <5>5. nowSeconds > now + Skew => token.body.cid \in ahead'
          BY <1>6, <5>4
        <5>6. QED BY <1>1, <1>3, <2>3, <4>2, <5>1, <5>2, <5>5
      <4>3. QED BY <1>6, <4>1, <4>2
    <3>4. QED BY <1>3, <2>2, <2>6, <3>1, <3>2, <3>3 DEF CertificatesAreOurs
  <2>9. RowsAreVerified'
    <3>1. token.body.cid \notin DOMAIN rows
      <4>1. DOMAIN rows \subseteq 1 .. n
        BY <2>1 DEF IInv, TypeOK
      <4>2. QED BY <2>2, <2>3, <4>1
    <3>2. ASSUME NEW t \in certs', t.body.cid \in DOMAIN rows'
          PROVE  /\ rows'[t.body.cid].expiresAt = t.body.exp
                 /\ t.body.att.signer = Root
                 /\ t.body.iat <= now' + Skew
      <4>1. t \in certs
        BY <1>3, <1>6, <3>1, <3>2
      <4>2. QED BY <1>3, <3>2, <4>1 DEF IInv, RowsAreVerified
    <3>3. Real' => refused' \subseteq ahead'
      BY <1>1, <1>3, <1>6 DEF IInv, RowsAreVerified
    <3>4. QED BY <1>3, <3>2, <3>3 DEF IInv, RowsAreVerified
  <2>10. QED BY <1>4, <2>7, <2>8, <2>9 DEF IInv
<1>7. QED BY <1>3, <1>5, <1>6

\* Every step keeps the invariant.
LEMMA NextIInv == IInv /\ [Next]_vars => IInv'
<1> SUFFICES ASSUME IInv, [Next]_vars PROVE IInv'
  OBVIOUS
<1>1. CASE UNCHANGED vars
  <2>1. UNCHANGED <<file, now, offset, approved, stored, attempts, certs, rows, refused, ahead>>
    BY <1>1 DEF vars
  <2>2. TRUST' = TRUST /\ Real' = Real
    BY <2>1 DEF TRUST, Real
  <2>3. QED BY <2>1, <2>2 DEF IInv, TypeOK, AttestationsAreOurs, CertificatesAreOurs, RowsAreVerified
<1>2. QED BY <1>1, TickIInv, SetPhoneClockIInv, ApproveIInv, StoreAttestationIInv, FinishIInv, IssueIInv,
             PushIInv, RevokeIInv DEF Next

\* What the phone issued and what it rests on: every reachable state has the invariant.
THEOREM IInvHolds == Spec => []IInv
BY InitIInv, NextIInv, PTL DEF Spec

\* Every certificate rests on a passed training of every required module, and the server
\* keeps or refuses only what the phone issued.
THEOREM TypeOKHolds == Spec => []TypeOK
<1>1. IInv => TypeOK
  BY DEF IInv
<1>2. QED BY <1>1, IInvHolds, PTL

-----------------------------------------------------------------------------
(* The verdicts agree, and only a clock spoils one *)

\* What the phone would issue is valid; what it issued is invalid to nobody whose clock
\* is not behind by more than the skew.
LEMMA IInvOnlyClock == IInv => OnlyClockInvalidates
<1> SUFFICES ASSUME IInv PROVE OnlyClockInvalidates
  OBVIOUS
<1>1. PICK none : none = NoToken
  OBVIOUS
<1>2. \A root : ~App!verifyRevocationList(none, root)
  BY <1>1 DEF App!verifyRevocationList
<1>3. ASSUME TRUST.mode # "unconfigured", Missing = {}, Usable(AttestationUsed)
      PROVE  App!verifyCertificate(Issued(AttestationUsed), TRUST.root, nowSeconds, NoToken).status = "VALID"
  <2>1. PICK token : token = Issued(AttestationUsed)
    OBVIOUS
  <2>2. PICK at \in Int : at = nowSeconds
    BY TimesAssumption DEF IInv, TypeOK, nowSeconds
  <2>3. PICK root : root = TRUST.root
    OBVIOUS
  <2>4. IsCertificate(token) /\ token.body.iat = at /\ at <= token.body.exp /\ token.body.exp \in Int
    BY <1>3, <2>1, <2>2, IssuedIsOurs, CertificateFields
  <2>5. token.body.att.signer = root
    BY <1>3, <2>1, <2>3, IssuedIsOurs, UsedIsOurs
  <2>6. ~(token.body.iat > at + Skew) /\ ~(at > token.body.exp)
    BY <2>2, <2>4, TimesAssumption
  <2>7. App!verifyCertificate(token, root, at, none).status = "VALID"
    BY <1>2, <2>4, <2>5, <2>6, OursVerdict
  <2>8. QED BY <1>1, <2>1, <2>2, <2>3, <2>7
<1>4. ASSUME NEW t \in certs,
             App!verifyCertificate(t, TRUST.root, now, NoToken).status \notin App!Verified
      PROVE  t.body.cid \in ahead /\ t.body.iat > now + Skew
  <2>1. PICK root : root = TRUST.root
    OBVIOUS
  <2>2. IsCertificate(t) /\ now \in Int
    BY CertificateFields DEF IInv, CertificatesAreOurs, TypeOK
  <2>3. t.body.att.signer = root
    BY <2>1 DEF IInv, CertificatesAreOurs
  <2>4. PICK status : status = App!verifyCertificate(t, root, now, none).status
    OBVIOUS
  <2>5. status = IF t.body.iat > now + Skew THEN "INVALID_FORMAT"
                 ELSE IF now > t.body.exp THEN "EXPIRED" ELSE "VALID"
    BY <1>2, <2>2, <2>3, <2>4, OursVerdict
  <2>6. t.body.iat > now + Skew
    BY <1>1, <1>4, <2>1, <2>4, <2>5 DEF App!Verified
  <2>7. QED BY <2>6 DEF IInv, CertificatesAreOurs
<1>5. Real => refused \subseteq ahead
  BY DEF IInv, RowsAreVerified
<1>6. QED BY <1>3, <1>4, <1>5 DEF OnlyClockInvalidates

\* A damaged certificate still has dates.
LEMMA VariantsHaveDates ==
    ASSUME NEW t \in Certificate, NEW v \in Variants(t)
    PROVE  /\ v.body.iat \in Int /\ v.body.exp \in Int
           /\ v.body.att.body.iat \in Int /\ v.body.att.body.exp \in Int
<1> DEFINE Dated(a) == a.body.iat \in Int /\ a.body.exp \in Int
<1>1. PICK cert, att : cert = t.body /\ att = cert.att
  OBVIOUS
<1>2. /\ DOMAIN t = {"prefix", "body", "signer", "canonical", "numbers"}
      /\ cert \in [cid : Nat, site : {Site}, mods : SUBSET Attempt, iat : Int, exp : Int, att : Attestation]
  BY <1>1 DEF Certificate
<1>3. /\ DOMAIN cert = {"cid", "site", "mods", "iat", "exp", "att"}
      /\ cert.iat \in Int /\ cert.exp \in Int /\ att \in Attestation
  BY <1>1, <1>2
<1>4. PICK body : body = att.body
  OBVIOUS
<1>5. /\ DOMAIN att = {"prefix", "body", "signer", "canonical", "numbers"}
      /\ DOMAIN body = {"dpk", "site", "iat", "exp"}
      /\ body.iat \in Int /\ body.exp \in Int
  BY <1>3, <1>4 DEF Attestation
<1>6. PICK signer, weak, site, late, ended, early, canonical, prefix :
         /\ signer = [att EXCEPT !.signer = Nobody]
         /\ canonical = [att EXCEPT !.canonical = FALSE]
         /\ prefix = [att EXCEPT !.prefix = "SR1"]
         /\ weak = [att EXCEPT !.body.dpk = Weak]
         /\ site = [att EXCEPT !.body.site = Nobody]
         /\ late = [att EXCEPT !.body.iat = cert.iat + 1]
         /\ ended = [att EXCEPT !.body.exp = cert.iat]
         /\ early = [att EXCEPT !.body.exp = cert.iat - 1]
  OBVIOUS
<1>7. Dated(signer) /\ Dated(canonical) /\ Dated(prefix)
  BY <1>4, <1>5, <1>6
<1>8. Dated(weak) /\ Dated(site)
  BY <1>4, <1>5, <1>6
<1>9. Dated(late) /\ Dated(ended) /\ Dated(early)
  BY <1>3, <1>4, <1>5, <1>6
<1>10. \A n \in App!Numbers : Dated([att EXCEPT !.numbers = n])
  BY <1>4, <1>5
<1>11. PICK atts :
         atts = {t.body.att} \cup
                {[t.body.att EXCEPT !.signer = Nobody], [t.body.att EXCEPT !.canonical = FALSE],
                 [t.body.att EXCEPT !.prefix = "SR1"], [t.body.att EXCEPT !.body.dpk = Weak],
                 [t.body.att EXCEPT !.body.site = Nobody],
                 [t.body.att EXCEPT !.body.iat = t.body.iat + 1],
                 [t.body.att EXCEPT !.body.exp = t.body.iat], [t.body.att EXCEPT !.body.exp = t.body.iat - 1]}
                \cup {[t.body.att EXCEPT !.numbers = n] : n \in App!Numbers}
  OBVIOUS
<1>12. \A a \in atts : Dated(a)
  <2>1. atts = {att} \cup {signer, canonical, prefix, weak, site, late, ended, early}
               \cup {[att EXCEPT !.numbers = n] : n \in App!Numbers}
    BY <1>1, <1>6, <1>11
  <2>2. QED BY <1>4, <1>5, <1>7, <1>8, <1>9, <1>10, <2>1
<1>13. Variants(t) =
         {[t EXCEPT !.body.att = a] : a \in atts} \cup
         {[t EXCEPT !.body.site = Nobody], [t EXCEPT !.canonical = FALSE], [t EXCEPT !.prefix = "SA1"]}
         \cup {[t EXCEPT !.numbers = n] : n \in App!Numbers} \cup {[t EXCEPT !.signer = Nobody]}
  BY <1>11 DEF Variants
<1>14. CASE v \in {[t EXCEPT !.body.att = a] : a \in atts}
  <2>1. PICK a \in atts : v = [t EXCEPT !.body.att = a]
    BY <1>14
  <2>2. v.body = [cert EXCEPT !.att = a]
    BY <1>1, <1>2, <2>1
  <2>3. v.body.iat = cert.iat /\ v.body.exp = cert.exp /\ v.body.att = a
    BY <1>3, <2>2
  <2>4. QED BY <1>3, <1>12, <2>3
<1>15. CASE v = [t EXCEPT !.body.site = Nobody]
  <2>1. v.body = [cert EXCEPT !.site = Nobody]
    BY <1>1, <1>2, <1>15
  <2>2. v.body.iat = cert.iat /\ v.body.exp = cert.exp /\ v.body.att = att
    BY <1>1, <1>3, <2>1
  <2>3. QED BY <1>3, <1>4, <1>5, <2>2
<1>16. CASE v.body = t.body
  BY <1>1, <1>3, <1>4, <1>5, <1>16
<1>17. v.body = t.body \/ v = [t EXCEPT !.body.site = Nobody] \/ v \in {[t EXCEPT !.body.att = a] : a \in atts}
  BY <1>2, <1>13
<1>18. QED BY <1>14, <1>15, <1>16, <1>17

LEMMA IInvVerifiersAgree == IInv => VerifiersAgree
<1> SUFFICES ASSUME IInv, NEW t \in certs, NEW v \in Variants(t), NEW list \in Lists(t)
             PROVE  /\ App!verifyCertificate(v, TRUST.root, now, list)
                         = Dashboard!verifyCertificate(v, TRUST.root, now, list)
                    /\ PlainNumbers(v) =>
                         App!verifyCertificate(v, TRUST.root, now, list)
                         = Server!verify_certificate(v, TRUST.root, now, list)
  BY DEF VerifiersAgree
<1>1. t \in Certificate /\ now \in Int
  BY DEF IInv, CertificatesAreOurs, TypeOK
<1>2. /\ v.body.iat \in Int /\ v.body.exp \in Int
      /\ v.body.att.body.iat \in Int /\ v.body.att.body.exp \in Int
  BY <1>1, VariantsHaveDates
<1>3. list # NoToken => list.numbers = App!Plain
  BY DEF Lists, List, App!signToken, App!Token
<1>4. PICK root : root = TRUST.root
  OBVIOUS
<1>5. App!verifyCertificate(v, root, now, list) = Dashboard!verifyCertificate(v, root, now, list)
  BY <1>1, <1>2, AppIsDashboard
<1>6. PlainNumbers(v) =>
        App!verifyCertificate(v, root, now, list) = Server!verify_certificate(v, root, now, list)
  BY <1>1, <1>2, <1>3, AppIsServer
<1>7. QED BY <1>4, <1>5, <1>6

\* What the phone issued stays verifiable: nothing but a clock invalidates a certificate.
THEOREM OnlyClockInvalidatesHolds == Spec => []OnlyClockInvalidates
BY IInvHolds, IInvOnlyClock, PTL

\* App, dashboard and backend agree on every certificate, whole or damaged.
THEOREM VerifiersAgreeHolds == Spec => []VerifiersAgree
BY IInvHolds, IInvVerifiersAgree, PTL

-----------------------------------------------------------------------------
(* The views agree *)

RowType == [expiresAt : Int, revoked : BOOLEAN]

\* Chips, filter: each row is shown under the one status that it has.
LEMMA OneStatus ==
    ASSUME NEW row \in RowType, NEW at \in Int
    PROVE  /\ {s \in CertStatuses : status_clause(s, row, at)} = {cert_status(row, at)}
           /\ cert_status(row, at) =
                IF row.revoked THEN "revoked" ELSE IF row.expiresAt < at THEN "expired"
                ELSE IF row.expiresAt <= at + ExpiringWindow THEN "expiring" ELSE "valid"
<1>1. row.expiresAt \in Int /\ row.revoked \in BOOLEAN /\ ExpiringWindow \in Nat
  BY TimesAssumption DEF RowType
<1>2. PICK end \in Int : end = row.expiresAt
  BY <1>1
<1>3. end - at \in 0 .. ExpiringWindow <=> ~(end < at) /\ end <= at + ExpiringWindow
  BY <1>1, <1>2
<1>4. at > end <=> end < at
  BY <1>2
<1>5. cert_status(row, at) =
         IF row.revoked THEN "revoked" ELSE IF end < at THEN "expired"
         ELSE IF end <= at + ExpiringWindow THEN "expiring" ELSE "valid"
  BY <1>1, <1>2, <1>3, <1>4 DEF cert_status
<1>6. /\ status_clause("revoked", row, at) <=> row.revoked
      /\ status_clause("expired", row, at) <=> ~row.revoked /\ end < at
      /\ status_clause("expiring", row, at) <=>
           ~row.revoked /\ ~(end < at) /\ end <= at + ExpiringWindow
      /\ status_clause("valid", row, at) <=> ~row.revoked /\ end > at + ExpiringWindow
  BY <1>2 DEF status_clause, ExpiredInSql
<1>7. end > at + ExpiringWindow <=> ~(end < at) /\ ~(end <= at + ExpiringWindow)
  BY <1>1, <1>2
<1>8. \A s \in CertStatuses : status_clause(s, row, at) <=> s = cert_status(row, at)
  BY <1>1, <1>5, <1>6, <1>7 DEF CertStatuses
<1>9. cert_status(row, at) \in CertStatuses
  BY <1>5 DEF CertStatuses
<1>10. QED BY <1>2, <1>5, <1>8, <1>9

\* A worker's chip is the best status of their rows.
LEMMA ChipIs ==
    ASSUME NEW rs \in SUBSET RowType, NEW at \in Int
    PROVE  worker_cert_status(rs, at) =
             IF \E c \in rs : cert_status(c, at) = "valid" THEN "valid"
             ELSE IF \E c \in rs : cert_status(c, at) = "expiring" THEN "expiring"
             ELSE IF \E c \in rs : cert_status(c, at) = "expired" THEN "expired"
             ELSE IF \E c \in rs : cert_status(c, at) = "revoked" THEN "revoked" ELSE "none"
<1>1. PICK ranks : ranks = {i \in DOMAIN BestFirst : \E c \in rs : cert_status(c, at) = BestFirst[i]}
  OBVIOUS
<1>2. /\ DOMAIN BestFirst = {1, 2, 3, 4}
      /\ BestFirst[1] = "valid" /\ BestFirst[2] = "expiring"
      /\ BestFirst[3] = "expired" /\ BestFirst[4] = "revoked"
  BY DEF BestFirst
<1>3. /\ 1 \in ranks <=> \E c \in rs : cert_status(c, at) = "valid"
      /\ 2 \in ranks <=> \E c \in rs : cert_status(c, at) = "expiring"
      /\ 3 \in ranks <=> \E c \in rs : cert_status(c, at) = "expired"
      /\ 4 \in ranks <=> \E c \in rs : cert_status(c, at) = "revoked"
  BY <1>1, <1>2
<1>4. ranks \subseteq {1, 2, 3, 4} /\ ranks \in SUBSET Int
  BY <1>1, <1>2
<1>5. PICK chip : chip = worker_cert_status(rs, at)
  OBVIOUS
<1>6. chip = IF ranks = {} THEN "none" ELSE BestFirst[Min(ranks)]
  BY <1>1, <1>5 DEF worker_cert_status
<1>7. ASSUME NEW first \in ranks, \A i \in ranks : first <= i
      PROVE  chip = BestFirst[first]
  BY <1>4, <1>6, <1>7, MinIs
<1>8. CASE 1 \in ranks
  <2>1. \A i \in ranks : 1 <= i
    BY <1>4
  <2>2. chip = BestFirst[1]
    BY <1>7, <1>8, <2>1
  <2>3. QED BY <1>2, <1>3, <1>5, <1>8, <2>2
<1>9. CASE 1 \notin ranks /\ 2 \in ranks
  <2>1. \A i \in ranks : 2 <= i
    BY <1>4, <1>9
  <2>2. chip = BestFirst[2]
    BY <1>7, <1>9, <2>1
  <2>3. QED BY <1>2, <1>3, <1>5, <1>9, <2>2
<1>10. CASE 1 \notin ranks /\ 2 \notin ranks /\ 3 \in ranks
  <2>1. \A i \in ranks : 3 <= i
    BY <1>4, <1>10
  <2>2. chip = BestFirst[3]
    BY <1>7, <1>10, <2>1
  <2>3. QED BY <1>2, <1>3, <1>5, <1>10, <2>2
<1>11. CASE 1 \notin ranks /\ 2 \notin ranks /\ 3 \notin ranks /\ 4 \in ranks
  <2>1. \A i \in ranks : 4 <= i
    BY <1>4, <1>11
  <2>2. chip = BestFirst[4]
    BY <1>7, <1>11, <2>1
  <2>3. QED BY <1>2, <1>3, <1>5, <1>11, <2>2
<1>12. CASE ranks = {}
  BY <1>3, <1>5, <1>6, <1>12
<1>13. QED BY <1>4, <1>8, <1>9, <1>10, <1>11, <1>12

\* Who is listed as due holds a certificate, who is shown as expiring is listed, and
\* who is shown as valid is listed only on the last of the days.
LEMMA DueAndChip ==
    ASSUME NEW rs \in SUBSET RowType, IsFiniteSet(rs), NEW at \in Int,
           NEW chip, chip = worker_cert_status(rs, at),
           NEW days, days = ExpiringWindow \div Day
    PROVE  /\ recert_due(rs, at, days) => is_certified(chip)
           /\ chip = "expiring" => recert_due(rs, at, days)
           /\ chip = "valid" /\ recert_due(rs, at, days) => \E r \in rs : days_left(r, at) = days
<1>1. ExpiringWindow \in Nat /\ Day \in Nat \ {0}
  BY TimesAssumption
<1>2. \A r \in rs : r.expiresAt \in Int /\ r.revoked \in BOOLEAN
  BY DEF RowType
<1>3. \A r \in rs :
        cert_status(r, at) =
           IF r.revoked THEN "revoked" ELSE IF r.expiresAt < at THEN "expired"
           ELSE IF r.expiresAt <= at + ExpiringWindow THEN "expiring" ELSE "valid"
  BY OneStatus
<1>4. ASSUME NEW r \in rs
      PROVE  /\ days_left(r, at) \in Int
             /\ days_left(r, at) >= 0 => ~(r.expiresAt < at)
             /\ ~(r.expiresAt < at) => days_left(r, at) >= 0
             /\ r.expiresAt <= at + ExpiringWindow => days_left(r, at) <= days
             /\ ~(r.expiresAt <= at + ExpiringWindow) => days_left(r, at) >= days
  <2>1. PICK left \in Int : left = r.expiresAt - at
    BY <1>2
  <2>2. PICK window \in Int : window = ExpiringWindow
    BY <1>1
  <2>3. days_left(r, at) = left \div Day
    BY <2>1 DEF days_left
  <2>4. left \div Day \in Int
    BY <1>1, DaysGrow
  <2>5. 0 \div Day = 0
    BY <1>1
  <2>6. 0 <= left => 0 <= left \div Day
    <3>1. 0 <= left => 0 \div Day <= left \div Day
      BY <1>1, DaysGrow
    <3>2. QED BY <2>5, <3>1
  <2>7. left < 0 => left \div Day < 0
    <3>1. left = Day * (left \div Day) + (left % Day) /\ left % Day \in 0 .. (Day - 1)
      BY <1>1
    <3>2. PICK q \in Int, r1 \in 0 .. (Day - 1) : q = left \div Day /\ r1 = left % Day
      BY <2>4, <3>1
    <3>3. left = Day * q + r1
      BY <3>1, <3>2
    <3>4. q >= 0 => Day * q >= 0
      BY <1>1
    <3>5. q >= 0 => left >= 0
      BY <1>1, <3>3, <3>4
    <3>6. QED BY <3>2, <3>5
  <2>8. left <= window => left \div Day <= window \div Day
    BY <1>1, DaysGrow
  <2>9. window <= left => window \div Day <= left \div Day
    BY <1>1, DaysGrow
  <2>10. PICK d \in Int : d = left \div Day
    BY <2>4
  <2>11. PICK w \in Int : w = window \div Day
    BY <1>1, DaysGrow
  <2>12. days = w
    BY <2>2, <2>11
  <2>13. r.expiresAt < at <=> left < 0
    BY <1>2, <2>1
  <2>14. r.expiresAt <= at + ExpiringWindow <=> left <= window
    BY <1>1, <1>2, <2>1, <2>2
  <2>15. /\ d >= 0 => ~(left < 0)
         /\ ~(left < 0) => d >= 0
         /\ left <= window => d <= w
         /\ ~(left <= window) => d >= w
    BY <2>6, <2>7, <2>8, <2>9, <2>10, <2>11
  <2>16. QED BY <2>3, <2>10, <2>12, <2>13, <2>14, <2>15
<1>5. days \in Int
  BY <1>1, DaysGrow
<1>6. ASSUME recert_due(rs, at, days)
      PROVE  \E c \in rs : /\ ~c.revoked /\ \A d \in rs : ~d.revoked => d.expiresAt <= c.expiresAt
                           /\ days_left(c, at) \in 0 .. days
  BY <1>6 DEF recert_due, NotRevoked
<1>7. recert_due(rs, at, days) => is_certified(chip)
  <2>1. SUFFICES ASSUME recert_due(rs, at, days) PROVE is_certified(chip)
    OBVIOUS
  <2>2. PICK c \in rs : ~c.revoked /\ days_left(c, at) \in 0 .. days
    BY <1>6, <2>1
  <2>3. ~(c.expiresAt < at)
    BY <1>4, <1>5, <2>2
  <2>4. cert_status(c, at) = "valid" \/ cert_status(c, at) = "expiring"
    BY <1>3, <2>2, <2>3
  <2>5. chip = "valid" \/ chip = "expiring"
    BY <2>4, ChipIs
  <2>6. QED BY <2>5 DEF is_certified
<1>8. chip = "expiring" => recert_due(rs, at, days)
  <2>1. SUFFICES ASSUME chip = "expiring" PROVE recert_due(rs, at, days)
    OBVIOUS
  <2>2. PICK c \in rs : cert_status(c, at) = "expiring"
    BY <2>1, ChipIs
  <2>3. \A r \in rs : cert_status(r, at) # "valid"
    BY <2>1, ChipIs
  <2>4. ~c.revoked /\ ~(c.expiresAt < at)
    BY <1>3, <2>2
  <2>5. PICK kept : kept = NotRevoked(rs)
    OBVIOUS
  <2>6. kept \subseteq rs /\ IsFiniteSet(kept) /\ c \in kept /\ \A r \in kept : ~r.revoked
    BY <2>4, <2>5, FS_Subset DEF NotRevoked
  <2>7. PICK key : key = [r \in kept |-> r.expiresAt]
    OBVIOUS
  <2>8. key \in [kept -> Int]
    BY <1>2, <2>6, <2>7
  <2>9. PICK newest \in kept : \A r \in kept : key[r] <= key[newest]
    BY <2>6, <2>8, GreatestByKey
  <2>10. \A r \in kept : r.expiresAt <= newest.expiresAt
    BY <2>7, <2>9
  <2>11. newest \in rs /\ ~newest.revoked
    BY <2>6
  <2>12. ~(newest.expiresAt < at)
    BY <1>2, <2>4, <2>6, <2>10, <2>11
  <2>13. newest.expiresAt <= at + ExpiringWindow
    BY <1>3, <2>3, <2>11, <2>12
  <2>14. days_left(newest, at) \in 0 .. days
    BY <1>4, <1>5, <2>11, <2>12, <2>13
  <2>15. QED BY <2>5, <2>10, <2>14 DEF recert_due
<1>9. chip = "valid" /\ recert_due(rs, at, days) => \E r \in rs : days_left(r, at) = days
  <2>1. SUFFICES ASSUME chip = "valid", recert_due(rs, at, days)
                 PROVE  \E r \in rs : days_left(r, at) = days
    OBVIOUS
  <2>2. PICK c \in rs : /\ ~c.revoked /\ \A d \in rs : ~d.revoked => d.expiresAt <= c.expiresAt
                        /\ days_left(c, at) \in 0 .. days
    BY <1>6, <2>1
  <2>3. PICK v \in rs : cert_status(v, at) = "valid"
    BY <2>1, ChipIs
  <2>4. ~v.revoked /\ ~(v.expiresAt <= at + ExpiringWindow)
    BY <1>3, <2>3
  <2>5. ~(c.expiresAt <= at + ExpiringWindow)
    BY <1>1, <1>2, <2>2, <2>4
  <2>6. days_left(c, at) >= days
    BY <1>4, <2>5
  <2>7. days_left(c, at) = days
    BY <1>4, <1>5, <2>2, <2>6
  <2>8. QED BY <2>7
<1>10. QED BY <1>7, <1>8, <1>9

\* The first training, for the phone's refreshers and for the dashboard's figures.
LEMMA FirstTraining ==
    ASSUME NEW S \in SUBSET Attempt, IsFiniteSet(S), NEW id, Trainings(id, S) # {}
    PROVE  \E least \in Trainings(id, S) :
              /\ refresherAnchor(id, S) = least.startedAt /\ least.startedAt \in Int
              /\ \A a \in Trainings(id, S) : least.startedAt <= a.startedAt
<1>1. PICK T : T = Trainings(id, S)
  OBVIOUS
<1>2. T \subseteq S /\ IsFiniteSet(T) /\ T # {}
  BY <1>1, FS_Subset DEF Trainings
<1>3. \A a \in T : a.startedAt \in Int
  BY <1>2 DEF Attempt
<1>4. PICK key : key = [a \in T |-> a.startedAt]
  OBVIOUS
<1>5. key \in [T -> Int]
  BY <1>3, <1>4
<1>6. PICK least \in T : \A a \in T : key[least] <= key[a]
  BY <1>2, <1>5, LeastByKey
<1>7. \A a \in T : least.startedAt <= a.startedAt
  BY <1>4, <1>6
<1>8. PICK starts : starts = {a.startedAt : a \in T}
  OBVIOUS
<1>9. PICK start \in starts : start = least.startedAt
  BY <1>8
<1>10. starts \in SUBSET Int /\ \A x \in starts : start <= x
  BY <1>3, <1>7, <1>8, <1>9
<1>11. Min(starts) = start
  BY <1>10, MinIs
<1>12. refresherAnchor(id, S) = start
  BY <1>1, <1>8, <1>11 DEF refresherAnchor
<1>13. QED BY <1>1, <1>3, <1>7, <1>9, <1>12

LEMMA FirstIsAnchor ==
    ASSUME NEW S \in SUBSET Attempt, IsFiniteSet(S), NEW id, Trainings(id, S) # {}
    PROVE  First(StageAttempts(0, id, S)).startedAt = refresherAnchor(id, S)
<1>1. \A d \in DueDays : d \in Nat
  BY DueDaysAssumption DEF parseRefresherConfig
<1>2. \A a \in S : a.dueDay \in {0} \cup DueDays
  BY DEF Attempt
<1>3. \A d : d \in {0} \cup DueDays => (~(d > 0) <=> (IF d > 0 THEN d ELSE 0) = 0)
  BY <1>1
<1>4. StageAttempts(0, id, S) = Trainings(id, S)
  BY <1>2, <1>3 DEF StageAttempts, Trainings, refresher_day, isRefresher
<1>5. PICK least \in Trainings(id, S) :
              /\ refresherAnchor(id, S) = least.startedAt /\ least.startedAt \in Int
              /\ \A a \in Trainings(id, S) : least.startedAt <= a.startedAt
  BY FirstTraining
<1>6. PICK first : first = First(Trainings(id, S))
  OBVIOUS
<1>7. first \in Trainings(id, S) /\ \A a \in Trainings(id, S) : first.startedAt <= a.startedAt
  BY <1>5, <1>6 DEF First
<1>8. first.startedAt \in Int
  BY <1>7 DEF Trainings, Attempt
<1>9. first.startedAt = least.startedAt
  BY <1>5, <1>7, <1>8
<1>10. QED BY <1>4, <1>5, <1>6, <1>9

LEMMA RowsFinite ==
    ASSUME IInv
    PROVE  Rows \in SUBSET RowType /\ IsFiniteSet(Rows)
<1>1. PICK cids : cids = DOMAIN rows
  OBVIOUS
<1>2. IsFiniteSet(cids)
  <2>1. Cardinality(certs) \in Nat
    BY FS_CardinalityType DEF IInv, CertificatesAreOurs
  <2>2. IsFiniteSet(1 .. Cardinality(certs))
    BY <2>1, FS_Interval
  <2>3. cids \subseteq 1 .. Cardinality(certs)
    BY <1>1 DEF IInv, TypeOK
  <2>4. QED BY <2>2, <2>3, FS_Subset
<1>3. PICK f : f = [c \in cids |-> rows[c]]
  OBVIOUS
<1>4. Rows = {rows[c] : c \in cids}
  BY <1>1 DEF Rows
<1>5. f \in Surjection(cids, Rows)
  BY <1>3, <1>4 DEF Surjection
<1>6. IsFiniteSet(Rows)
  BY <1>2, <1>5, FS_Surjection
<1>7. Rows \in SUBSET RowType
  BY <1>1, <1>4 DEF IInv, RowsAreVerified, RowType
<1>8. QED BY <1>6, <1>7

\* The newest list is one, of ids that the server has rows for.
LEMMA NewestIsAList ==
    ASSUME IInv
    PROVE  /\ Newest # NoToken /\ Newest.numbers = App!Plain
           /\ App!verifyRevocationList(Newest, Root)
           /\ \A c \in DOMAIN rows : c \in Newest.body.cids <=> rows[c].revoked
<1>1. PICK cids : cids = {c \in DOMAIN rows : rows[c].revoked}
  OBVIOUS
<1>2. cids \subseteq 1 .. MaxRecords
  <2>1. /\ Cardinality(certs) \in Nat /\ Cardinality(attempts) \in Nat
        /\ Cardinality(certs) + Cardinality(attempts) <= MaxRecords
    BY FS_CardinalityType DEF IInv, CertificatesAreOurs
  <2>2. DOMAIN rows \subseteq 1 .. Cardinality(certs)
    BY DEF IInv, TypeOK
  <2>3. QED BY <1>1, <2>1, <2>2, TimesAssumption
<1>3. PICK body : body = [iat |-> now, cids |-> cids]
  OBVIOUS
<1>4. Newest = App!signToken("SR1", body, Root)
  BY <1>1, <1>3 DEF Newest, List
<1>5. Newest # NoToken
  <2>1. now \in 0 .. MaxTime
    BY DEF IInv, TypeOK
  <2>2. App!signToken("SR1", [iat |-> now, cids |-> cids], Root) # NoToken
    BY <1>2, <2>1, NoTokenAssumption
  <2>3. QED BY <1>3, <1>4, <2>2
<1>6. Newest = [prefix |-> "SR1", body |-> body, signer |-> Root, canonical |-> TRUE, numbers |-> App!Plain]
  BY <1>4 DEF App!signToken, App!Token
<1>7. Newest.body.cids = cids
  BY <1>3, <1>6
<1>8. App!verifyRevocationList(Newest, Root)
  BY <1>5, <1>6
     DEF App!verifyRevocationList, App!verifyToken, App!splitToken, App!verifySignature, App!parseBody, App!Plain
<1>9. QED BY <1>1, <1>5, <1>6, <1>7, <1>8

\* Chips, filter, verify page and due list agree at every second.
LEMMA IInvViewsAgree == IInv => ViewsAgree
<1> SUFFICES ASSUME IInv PROVE ViewsAgree
  OBVIOUS
<1>1. now \in Int /\ Skew \in Int
  BY TimesAssumption DEF IInv, TypeOK
<1>2. ASSUME NEW t \in certs, t.body.cid \in DOMAIN rows,
             NEW row, row = rows[t.body.cid],
             NEW verdict, verdict = Server!verify_certificate(t, Root, now, Newest).status
      PROVE  /\ {s \in CertStatuses : status_clause(s, row, now)} = {cert_status(row, now)}
             /\ verdict = "REVOKED" <=> cert_status(row, now) = "revoked"
             /\ verdict = "EXPIRED" <=> cert_status(row, now) = "expired"
  <2>1. row \in RowType
    BY <1>2 DEF IInv, RowsAreVerified, RowType
  <2>2. /\ row.expiresAt = t.body.exp /\ t.body.att.signer = Root /\ t.body.iat <= now + Skew
    BY <1>2 DEF IInv, RowsAreVerified
  <2>3. IsCertificate(t)
    BY CertificateFields DEF IInv, CertificatesAreOurs
  <2>4. t.body.iat \in Int /\ t.body.exp \in Int
    BY <2>3 DEF IsCertificate
  <2>5. ~(t.body.iat > now + Skew)
    BY <1>1, <2>2, <2>4
  <2>6. PICK list : list = Newest
    OBVIOUS
  <2>7. /\ list # NoToken /\ list.numbers = App!Plain
        /\ App!verifyRevocationList(list, Root)
        /\ t.body.cid \in list.body.cids <=> row.revoked
    BY <1>2, <2>6, NewestIsAList
  <2>8. Server!verify_certificate(t, Root, now, list) = App!verifyCertificate(t, Root, now, list)
    BY <1>1, <2>3, <2>7, ServerOursVerdict
  <2>9. App!verifyCertificate(t, Root, now, list).status =
           IF row.revoked THEN "REVOKED" ELSE IF now > t.body.exp THEN "EXPIRED" ELSE "VALID"
    BY <1>1, <2>2, <2>3, <2>5, <2>7, OursVerdict
  <2>10. verdict = IF row.revoked THEN "REVOKED" ELSE IF now > t.body.exp THEN "EXPIRED" ELSE "VALID"
    BY <1>2, <2>6, <2>8, <2>9
  <2>11. now > t.body.exp <=> row.expiresAt < now
    BY <1>1, <2>2, <2>4
  <2>12. QED BY <1>1, <2>1, <2>10, <2>11, OneStatus
<1>3. PICK chip, days : chip = worker_cert_status(Rows, now) /\ days = ExpiringWindow \div Day
  OBVIOUS
<1>4. /\ recert_due(Rows, now, days) => is_certified(chip)
      /\ chip = "expiring" => recert_due(Rows, now, days)
      /\ chip = "valid" /\ recert_due(Rows, now, days) => \E r \in Rows : days_left(r, now) = days
  BY <1>1, <1>3, RowsFinite, DueAndChip
<1>5. ASSUME NEW id \in Scenarios, Trainings(id, attempts) # {}
      PROVE  First(StageAttempts(0, id, attempts)).startedAt = refresherAnchor(id, attempts)
  BY <1>5, FirstIsAnchor DEF IInv, TypeOK, CertificatesAreOurs
<1>6. QED BY <1>2, <1>3, <1>4, <1>5 DEF ViewsAgree

\* Every view of the same rows says the same.
THEOREM ViewsAgreeHolds == Spec => []ViewsAgree
BY IInvHolds, IInvViewsAgree, PTL

-----------------------------------------------------------------------------
(* Refreshers *)

\* The latest covered stage: no pass covers more, and it is none or some pass covers it.
LEMMA CoveredIs ==
    ASSUME NEW S \in SUBSET Attempt, NEW id
    PROVE  /\ Covered(id, S) \in Nat
           /\ \A a \in S : a.scenarioId = id /\ a.passed => a.dueDay \in Nat /\ a.dueDay <= Covered(id, S)
           /\ \/ Covered(id, S) = 0
              \/ \E a \in S : a.scenarioId = id /\ a.passed /\ a.dueDay = Covered(id, S)
<1>1. IsFiniteSet(DueDays) /\ DueDays \subseteq Nat
  BY DueDaysAssumption DEF parseRefresherConfig
<1>2. \A a \in S : a.dueDay \in {0} \cup DueDays
  BY DEF Attempt
<1>3. PICK days : days = {0} \cup {a.dueDay : a \in {b \in S : b.scenarioId = id /\ b.passed}}
  OBVIOUS
<1>4. days \subseteq DueDays \cup {0} /\ 0 \in days
  BY <1>2, <1>3
<1>5. IsFiniteSet(DueDays \cup {0})
  BY <1>1, FS_AddElement
<1>6. IsFiniteSet(days) /\ days # {}
  BY <1>4, <1>5, FS_Subset
<1>7. days \in SUBSET Int /\ \A d \in days : d \in Nat
  BY <1>1, <1>4
<1>8. Max(days) \in days /\ \A d \in days : d <= Max(days)
  BY <1>6, <1>7, Extremes
<1>9. PICK covered \in days : covered = Covered(id, S) /\ \A d \in days : d <= covered
  BY <1>3, <1>8 DEF Covered
<1>10. \A a \in S : a.scenarioId = id /\ a.passed => a.dueDay \in days
  BY <1>3
<1>11. covered = 0 \/ \E a \in S : a.scenarioId = id /\ a.passed /\ a.dueDay = covered
  BY <1>3, <1>9
<1>12. QED BY <1>7, <1>9, <1>10, <1>11

\* What is due is the latest open stage whose day has come.
LEMMA DueIs ==
    ASSUME NEW S \in SUBSET Attempt, IsFiniteSet(S), NEW id, NEW at \in Int,
           NEW d, d = due(id, S, at)
    PROVE  /\ d \in Nat
           /\ d > 0 => /\ Trainings(id, S) # {} /\ d \in DueDays /\ d > Covered(id, S)
                       /\ refresherAnchor(id, S) + d * Day <= at
           /\ Trainings(id, S) # {} =>
                \A e \in DueDays :
                   e > Covered(id, S) /\ refresherAnchor(id, S) + e * Day <= at => e <= d
<1>1. IsFiniteSet(DueDays) /\ \A e \in DueDays : e \in Nat
  BY DueDaysAssumption DEF parseRefresherConfig
<1>2. CASE Trainings(id, S) = {}
  BY <1>2 DEF due
<1>3. CASE Trainings(id, S) # {}
  <2>1. PICK days : days = {0} \cup {e \in Open(id, S) : IsDue(e, id, S, at)}
    OBVIOUS
  <2>2. \A e \in days : e = 0 \/ (e \in DueDays /\ e > Covered(id, S) /\ refresherAnchor(id, S) + e * Day <= at)
    BY <2>1 DEF Open, IsDue
  <2>3. \A e \in DueDays : e > Covered(id, S) /\ refresherAnchor(id, S) + e * Day <= at => e \in days
    BY <2>1 DEF Open, IsDue
  <2>4. days \subseteq DueDays \cup {0} /\ days # {}
    BY <2>1, <2>2
  <2>5. IsFiniteSet(days)
    BY <1>1, <2>4, FS_AddElement, FS_Subset
  <2>6. days \in SUBSET Int /\ \A e \in days : e \in Nat
    BY <1>1, <2>4
  <2>7. Max(days) \in days /\ \A e \in days : e <= Max(days)
    BY <2>4, <2>5, <2>6, Extremes
  <2>8. d = Max(days)
    BY <1>3, <2>1 DEF due
  <2>9. d \in days /\ \A e \in days : e <= d
    BY <2>7, <2>8
  <2>10. d \in Nat
    BY <2>6, <2>9
  <2>11. d > 0 => d \in DueDays /\ d > Covered(id, S) /\ refresherAnchor(id, S) + d * Day <= at
    <3>1. d = 0 \/ (d \in DueDays /\ d > Covered(id, S) /\ refresherAnchor(id, S) + d * Day <= at)
      BY <2>2, <2>9
    <3>2. QED BY <3>1
  <2>12. \A e \in DueDays : e > Covered(id, S) /\ refresherAnchor(id, S) + e * Day <= at => e <= d
    BY <2>3, <2>9
  <2>13. QED BY <1>3, <2>10, <2>11, <2>12
<1>4. QED BY <1>2, <1>3

\* More attempts and a later time take no offer back, except by a pass.
LEMMA OfferGrows ==
    ASSUME NEW S \in SUBSET Attempt, IsFiniteSet(S), NEW T \in SUBSET Attempt, IsFiniteSet(T), S \subseteq T,
           NEW id, NEW at \in Int, NEW then \in Int, at <= then,
           NEW before, before = due(id, S, at), NEW after, after = due(id, T, then),
           NEW done, done = {a.dueDay : a \in {b \in T \ S : b.passed /\ b.scenarioId = id}}
    PROVE  /\ before > 0 /\ (\A d \in done : d < before) => after >= before
           /\ \A d \in done : d > 0 => after # d
<1>1. before \in Nat /\ after \in Nat /\ Day \in Nat
  BY DueIs, TimesAssumption
<1>2. ASSUME before > 0, \A d \in done : d < before
      PROVE  after >= before
  <2>1. /\ Trainings(id, S) # {} /\ before \in DueDays /\ before > Covered(id, S)
        /\ refresherAnchor(id, S) + before * Day <= at
    BY <1>2, DueIs
  <2>2. Trainings(id, S) \subseteq Trainings(id, T)
    BY DEF Trainings
  <2>3. PICK first \in Trainings(id, S) : refresherAnchor(id, S) = first.startedAt /\ first.startedAt \in Int
    BY <2>1, FirstTraining
  <2>4. PICK start \in Int : start = first.startedAt
    BY <2>3
  <2>5. PICK anchor \in Int : anchor = refresherAnchor(id, T) /\ anchor <= start
    <3>1. PICK least \in Trainings(id, T) :
                /\ refresherAnchor(id, T) = least.startedAt /\ least.startedAt \in Int
                /\ \A a \in Trainings(id, T) : least.startedAt <= a.startedAt
      BY <2>1, <2>2, FirstTraining
    <3>2. QED BY <2>2, <2>3, <2>4, <3>1
  <2>6. PICK wait \in Int : wait = before * Day
    BY <1>1
  <2>7. anchor + wait <= then
    BY <2>1, <2>3, <2>4, <2>5, <2>6
  <2>8. before > Covered(id, T)
    <3>1. ASSUME NEW a \in T, a.scenarioId = id, a.passed, a.dueDay = Covered(id, T)
          PROVE  a.dueDay < before
      <4>1. CASE a \in S
        <5>1. Covered(id, S) \in Nat /\ a.dueDay \in Nat /\ a.dueDay <= Covered(id, S)
          BY <3>1, <4>1, CoveredIs
        <5>2. QED BY <1>1, <2>1, <5>1
      <4>2. CASE a \notin S
        BY <1>2, <3>1, <4>2
      <4>3. QED BY <4>1, <4>2
    <3>2. Covered(id, T) \in Nat
      BY CoveredIs
    <3>3. Covered(id, T) = 0 \/ Covered(id, T) < before
      BY <3>1, CoveredIs
    <3>4. QED BY <1>1, <1>2, <3>2, <3>3
  <2>9. Trainings(id, T) # {}
    BY <2>1, <2>2
  <2>10. before <= after
    BY <2>1, <2>5, <2>6, <2>7, <2>8, <2>9, DueIs
  <2>11. QED BY <1>1, <2>10
<1>3. ASSUME NEW d \in done, d > 0, after = d
      PROVE  FALSE
  <2>1. PICK a \in T : a.passed /\ a.scenarioId = id /\ a.dueDay = d
    OBVIOUS
  <2>2. after > Covered(id, T)
    BY <1>3, DueIs
  <2>3. Covered(id, T) \in Nat /\ a.dueDay <= Covered(id, T)
    BY <2>1, CoveredIs
  <2>4. QED BY <1>1, <1>3, <2>1, <2>2, <2>3
<1>4. QED BY <1>2, <1>3

LEMMA NextOfferStands == IInv /\ IInv' /\ [Next]_vars => [OfferStands]_vars
<1> SUFFICES ASSUME IInv, IInv', [Next]_vars PROVE OfferStands
  OBVIOUS
<1>1. attempts \subseteq attempts'
  BY DEF Next, vars, Tick, SetPhoneClock, Approve, StoreAttestation, Finish, Issue, Push, Revoke
<1>2. /\ attempts \in SUBSET Attempt /\ IsFiniteSet(attempts)
      /\ attempts' \in SUBSET Attempt /\ IsFiniteSet(attempts')
  BY DEF IInv, TypeOK, CertificatesAreOurs
<1>3. PICK t \in Int, u \in Int : t = nowSeconds /\ u = nowSeconds'
  <2>1. nowSeconds \in Int /\ nowSeconds' \in Int
    BY TimesAssumption DEF IInv, TypeOK, nowSeconds
  <2>2. QED BY <2>1
<1>4. ASSUME nowSeconds' >= nowSeconds, NEW id \in Scenarios, NEW demo \in {0, 1}
      PROVE  LET before == due(id, attempts, refresherNow(nowSeconds, demo))
                 after == due(id, attempts', refresherNow(nowSeconds', demo))
                 done == {a.dueDay : a \in {b \in attempts' \ attempts : b.passed /\ b.scenarioId = id}}
             IN  /\ before > 0 /\ (\A d \in done : d < before) => after >= before
                 /\ \A d \in done : d > 0 => after # d
  <2>1. PICK shift \in Int : shift = demo * Day
    BY TimesAssumption
  <2>2. PICK at \in Int : at = t + shift
    BY <1>3, <2>1
  <2>3. PICK then \in Int : then = u + shift
    BY <1>3, <2>1
  <2>4. at <= then
    <3>1. u >= t
      BY <1>3, <1>4
    <3>2. QED BY <1>3, <2>1, <2>2, <2>3, <3>1
  <2>5. at = refresherNow(nowSeconds, demo) /\ then = refresherNow(nowSeconds', demo)
    BY <1>3, <2>1, <2>2, <2>3 DEF refresherNow
  <2>6. PICK before, after, done :
           /\ before = due(id, attempts, at) /\ after = due(id, attempts', then)
           /\ done = {a.dueDay : a \in {b \in attempts' \ attempts : b.passed /\ b.scenarioId = id}}
    OBVIOUS
  <2>7. /\ before > 0 /\ (\A d \in done : d < before) => after >= before
        /\ \A d \in done : d > 0 => after # d
    BY <1>1, <1>2, <2>2, <2>3, <2>4, <2>6, OfferGrows
  <2>8. QED BY <2>5, <2>6, <2>7
<1>5. QED BY <1>4 DEF OfferStands

\* Once a refresher is offered it stays until it, or a later one, is passed.
THEOREM OfferStandsUntilPassedHolds == Spec => OfferStandsUntilPassed
BY IInvHolds, NextOfferStands, PTL DEF Spec, OfferStandsUntilPassed
=============================================================================
