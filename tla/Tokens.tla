------------------------------- MODULE Tokens -------------------------------
(***************************************************************************)
(* The signed tokens of docs/04 as data: SA1 (an attestation), SS1 (a      *)
(* certificate, which carries an SA1) and SR1 (the revocation list).       *)
(*                                                                         *)
(* A token is its prefix, its body, the key whose signature over the       *)
(* transmitted bytes it carries, whether its three parts are canonical,    *)
(* and how the numbers of its body are written.  JavaScript reads 17.0 as  *)
(* the integer 17 and no integer above 2^53; the backend reads the first   *)
(* as a float and the second as it stands.  Signers write plain integers.  *)
(***************************************************************************)
EXTENDS Integers, FiniteSetsExt

CONSTANTS Nobody,   \* no key: the signature does not verify
          NoToken,  \* null
          Weak      \* a public key that is no point of prime order

Plain == "plain"
Numbers == {Plain, "point zero", "above 2^53"}

Token(prefix, body, key) ==
    [prefix |-> prefix, body |-> body, signer |-> key, canonical |-> TRUE, numbers |-> Plain]

\* The status of the first check that fails, or the last one.
FirstOf(checks, otherwise) ==
    LET failed == {i \in DOMAIN checks : checks[i][1]}
    IN  IF failed = {} THEN otherwise ELSE checks[Min(failed)][2]

\* The statuses whose body was verified.
Verified == {"VALID", "EXPIRED", "REVOKED"}

\* What a verifier answers: the status and, if it came to the list, what it made of it.
Answer(status, check) ==
    [status |-> status, revocation |-> IF status \in Verified THEN check ELSE "not reached"]
=============================================================================
