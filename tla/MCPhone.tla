------------------------------ MODULE MCPhone ------------------------------
\* The database in three settings: under an external client, which sends while records are
\* made as LocalStore allows them, and under the screens, which fill the outbox and never
\* send: once with an edit or the deletion, once with photos and a clock that is set.
EXTENDS Phone

VARIABLE setting

MCInit == PhoneInit /\ setting \in {"client", "edits", "photos"}

\* Each worker of the phone is stored at most twice.
OneEdit == \A w \in Workers : workers'[w] # None => workers'[w].updatedAt <= 2
NoEdit == \A w \in Workers : workers[w] # None => workers'[w] = workers[w]

MCNext ==
    /\ UNCHANGED setting
    /\ \/ setting = "client" /\ Next /\ UNCHANGED screenVars
       \/ setting = "edits" /\ PhoneNext /\ UNCHANGED clock /\ OneEdit
       \/ setting = "photos" /\ PhoneNext /\ NoEdit /\ UNCHANGED records

MCSpec == MCInit /\ [][MCNext]_<<phoneVars, setting>>
=============================================================================
