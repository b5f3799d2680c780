----------------------------- MODULE CertStatus -----------------------------
(***************************************************************************)
(* What the admin views say of certificates and workers: the chips, the    *)
(* SQL filter behind the certificate list, and who is due to be certified  *)
(* again.  A certificate is its row [expiresAt, revoked].                  *)
(***************************************************************************)
EXTENDS Integers, FiniteSetsExt

CONSTANTS Day,             \* seconds of a day
          ExpiringWindow   \* EXPIRING_WINDOW_SECONDS

CertStatuses == {"valid", "expiring", "expired", "revoked"}

cert_status(cert, now) ==
    CASE cert.revoked -> "revoked"
      [] ~cert.revoked /\ now > cert.expiresAt -> "expired"
      [] ~cert.revoked /\ cert.expiresAt - now \in 0 .. ExpiringWindow -> "expiring"
      [] OTHER -> "valid"

\* Mutant: the filter's expiry is one second early.
ExpiredAtExp(cert, now) == cert.expiresAt <= now

ExpiredInSql(cert, now) == cert.expiresAt < now

\* The rows the certificate list shows under a status.
status_clause(status, cert, now) ==
    CASE status = "revoked" -> cert.revoked
      [] status = "expired" -> ~cert.revoked /\ ExpiredInSql(cert, now)
      [] status = "expiring" -> /\ ~cert.revoked /\ ~ExpiredInSql(cert, now)
                                /\ cert.expiresAt <= now + ExpiringWindow
      [] status = "valid" -> ~cert.revoked /\ cert.expiresAt > now + ExpiringWindow

BestFirst == <<"valid", "expiring", "expired", "revoked">>

\* A worker's chip: the best of their certificates.
worker_cert_status(certs, now) ==
    LET ranks == {i \in DOMAIN BestFirst : \E c \in certs : cert_status(c, now) = BestFirst[i]}
    IN  IF ranks = {} THEN "none" ELSE BestFirst[Min(ranks)]

is_certified(status) == status \in {"valid", "expiring"}

days_left(cert, now) == (cert.expiresAt - now) \div Day

\* Mutant: the newest certificate counts even when it was revoked.
AllCerts(certs) == certs

NotRevoked(certs) == {c \in certs : ~c.revoked}

\* A worker is due if their newest certificate that is not revoked ends within days.
recert_due(certs, now, days) ==
    \E c \in NotRevoked(certs) :
       /\ \A d \in NotRevoked(certs) : d.expiresAt <= c.expiresAt
       /\ days_left(c, now) \in 0 .. days
=============================================================================
