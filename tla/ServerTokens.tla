---------------------------- MODULE ServerTokens ----------------------------
(***************************************************************************)
(* Tokens in the backend: src/backend/app/crypto.                          *)
(***************************************************************************)
EXTENDS Tokens

CONSTANT Skew  \* CLOCK_SKEW_SECONDS

split_token(token, prefix) == token.prefix = prefix /\ token.canonical

parse_body(token) == token.numbers # "point zero"

verify_signature(key, token) == token.signer = key

verify_token(token, prefix, key) ==
    split_token(token, prefix) /\ verify_signature(key, token) /\ parse_body(token)

public_key_from_b64url(key) == key # Weak

check_revocation_list(list, root) ==
    CASE list = NoToken -> "NO_LIST"
      [] list # NoToken /\ verify_token(list, "SR1", root) -> "CHECKED"
      [] OTHER -> "INVALID_LIST"

verify_certificate(token, root, now, list) ==
    LET cert == token.body
        att == cert.att.body
        revocation == check_revocation_list(list, root)
    IN  Answer(
          FirstOf(<< <<~split_token(token, "SS1") \/ ~parse_body(token), "INVALID_FORMAT">>,
                     <<~verify_token(cert.att, "SA1", root), "INVALID_ATTESTATION">>,
                     <<~public_key_from_b64url(att.dpk), "INVALID_ATTESTATION">>,
                     <<cert.iat \notin att.iat .. att.exp, "INVALID_ATTESTATION">>,
                     <<att.site # cert.site, "INVALID_ATTESTATION">>,
                     <<~verify_signature(att.dpk, token), "INVALID_SIGNATURE">>,
                     <<cert.iat > now + Skew, "INVALID_FORMAT">>,
                     <<revocation = "CHECKED" /\ cert.cid \in list.body.cids, "REVOKED">>,
                     <<now > cert.exp, "EXPIRED">> >>, "VALID"),
          revocation)

\* approve_device: what the administrator's approval signs.
approve_device(key, site, root, now, validity) ==
    Token("SA1", [dpk |-> key, site |-> site, iat |-> now, exp |-> now + validity], root)
=============================================================================
