----------------------------- MODULE MCDevices -----------------------------
\* Three requests of any kind, two key pairs, a window of two units with room
\* for one registration fewer than the requests.
EXTENDS Devices

Symmetry == Permutations(Requests)
=============================================================================
