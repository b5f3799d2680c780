------------------------------ MODULE AppTokens ------------------------------
(***************************************************************************)
(* Tokens in the phone app: src/mobile/src/core/certificates.              *)
(***************************************************************************)
EXTENDS Tokens

CONSTANT Skew  \* CLOCK_SKEW_SECONDS

splitToken(token, prefix) == token.canonical /\ token.prefix = prefix

parseBody(token) == token.numbers # "above 2^53"

verifySignature(key, token) == token.signer = key

verifyToken(token, prefix, key) ==
    splitToken(token, prefix) /\ verifySignature(key, token) /\ parseBody(token)

verifyRevocationList(list, root) == list # NoToken /\ verifyToken(list, "SR1", root)

publicKeyFromB64url(key) == key # Weak

\* Mutants: the attestation must still be valid when the certificate is checked; a
\* certificate issued up to the very second of the skew is from the future.
CoversNow(att, cert, now) == att.iat <= cert.iat /\ now <= att.exp
FromFutureAtSkew(cert, now) == cert.iat >= now + Skew

Covers(att, cert, now) == att.iat <= cert.iat /\ cert.iat <= att.exp

FromFuture(cert, now) == cert.iat > now + Skew

verifyCertificate(token, root, now, list) ==
    LET cert == token.body
        att == cert.att.body
        listed == verifyRevocationList(list, root)
    IN  Answer(
          FirstOf(<< <<~(splitToken(token, "SS1") /\ parseBody(token)), "INVALID_FORMAT">>,
                     <<~verifyToken(cert.att, "SA1", root) \/ ~publicKeyFromB64url(att.dpk),
                       "INVALID_ATTESTATION">>,
                     <<~Covers(att, cert, now) \/ att.site # cert.site, "INVALID_ATTESTATION">>,
                     <<~verifySignature(att.dpk, token), "INVALID_SIGNATURE">>,
                     <<FromFuture(cert, now), "INVALID_FORMAT">>,
                     <<listed /\ cert.cid \in list.body.cids, "REVOKED">>,
                     <<now > cert.exp, "EXPIRED">> >>, "VALID"),
          IF list = NoToken THEN "NO_LIST" ELSE IF listed THEN "CHECKED" ELSE "INVALID_LIST")

-----------------------------------------------------------------------------
(* What the app signs *)

\* usableAttestation: the stored token, if it is root-signed for this device's key
\* and site and covers the phone's time.
usableAttestation(token, root, key, site, now) ==
    /\ token # NoToken
    /\ verifyToken(token, "SA1", root)
    /\ token.body.dpk = key /\ token.body.site = site
    /\ token.body.iat <= now /\ now <= token.body.exp

attestationBody(key, site, iat, exp) == [dpk |-> key, site |-> site, iat |-> iat, exp |-> exp]

certificateBody(cid, site, mods, iat, validity, att) ==
    [cid |-> cid, site |-> site, mods |-> mods, iat |-> iat, exp |-> iat + Min(validity), att |-> att]

signToken(prefix, body, seed) == Token(prefix, body, seed)

\* resolveTrust: the root this build trusts, from what root_public_key.txt holds.
resolveTrust(file, testRoot) ==
    CASE file = testRoot -> [mode |-> "unconfigured"]
      [] file = "placeholder" -> [mode |-> "demo", root |-> testRoot]
      [] file \in {"garbled", Weak} -> [mode |-> "unconfigured"]
      [] OTHER -> [mode |-> "real", root |-> file]
=============================================================================
