---------------------------- MODULE MCRevocation ----------------------------
\* Two certificates, three revoke requests (one of them a retry or a second
\* administrator) and one fetch of the list.
EXTENDS Revocation
=============================================================================
