--------------------------- MODULE DashboardTokens ---------------------------
(***************************************************************************)
(* Tokens in the dashboard: src/dashboard/src/lib/cert.  Its awaits share  *)
(* nothing that another call could change, so a check is one step.         *)
(***************************************************************************)
EXTENDS Tokens

CONSTANT Skew  \* CLOCK_SKEW_SECONDS

splitToken(token, prefix) == token.canonical /\ token.prefix = prefix

parseBody(token) == token.numbers # "above 2^53"

verifySignature(key, token) == token.signer = key

verifyToken(token, prefix, key) ==
    splitToken(token, prefix) /\ verifySignature(key, token) /\ parseBody(token)

verifyRevocationList(list, root) == verifyToken(list, "SR1", root)

verifyCertificate(token, root, now, list) ==
    LET cert == token.body
        att == cert.att.body
        revocations == list # NoToken /\ verifyRevocationList(list, root)
    IN  Answer(
          FirstOf(<< <<~(splitToken(token, "SS1") /\ parseBody(token)), "INVALID_FORMAT">>,
                     <<~verifyToken(cert.att, "SA1", root) \/ att.dpk = Weak, "INVALID_ATTESTATION">>,
                     <<~(att.iat <= cert.iat /\ cert.iat <= att.exp) \/ att.site # cert.site,
                       "INVALID_ATTESTATION">>,
                     <<~verifySignature(att.dpk, token), "INVALID_SIGNATURE">>,
                     <<cert.iat > now + Skew, "INVALID_FORMAT">>,
                     <<revocations /\ cert.cid \in list.body.cids, "REVOKED">>,
                     <<now > cert.exp, "EXPIRED">> >>, "VALID"),
          CASE list = NoToken -> "NO_LIST"
            [] list # NoToken /\ revocations -> "CHECKED"
            [] OTHER -> "INVALID_LIST")
=============================================================================
