--------------------------- MODULE MCCertificates ---------------------------
\* One required module at version 2, with attempts of an older version, failed ones
\* and refreshers for two stages; a day of two seconds, an attestation that expires
\* before the certificates do, and a phone clock up to two seconds wrong.
EXTENDS Certificates

Modules == {[id |-> "FIRE_01", version |-> 2, validity |-> 3]}

ClockErrors == {0, 2}

Drill(version, dueDay, passed) ==
    [id |-> "FIRE_01", version |-> version, dueDay |-> dueDay, passed |-> passed]

Drills == {Drill(2, 0, TRUE), Drill(2, 0, FALSE), Drill(1, 0, TRUE),
           Drill(2, 1, TRUE), Drill(2, 1, FALSE), Drill(2, 2, TRUE)}
=============================================================================
