---------------------------- MODULE MCVerifyPage ----------------------------
(***************************************************************************)
(* Two checks of two certificates; or three of one, the least that can     *)
(* leave an older list in the cache to a check that has read a newer one.  *)
(***************************************************************************)
EXTENDS VerifyPage, TLC

Symmetry == Permutations(Checks) \cup Permutations(Certs)

\* Once the third check runs, all are of one certificate and no list names another.
ThirdIsOfOne ==
    (\A c \in Checks : Runs(c)) =>
       \E cert \in Certs :
          /\ \A c \in Checks : job[c].cert = cert
          /\ \A list \in Lists : published[list].cids \subseteq {cert}
=============================================================================
