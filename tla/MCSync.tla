------------------------------- MODULE MCSync -------------------------------
(***************************************************************************)
(* Two workers, two attempts and a certificate.  Every kind of answer, an  *)
(* older and a newer copy of a worker, records before their worker, the    *)
(* same id with other content, an attempt sent before its scenario is      *)
(* deployed and after, a token that is ahead of the server's clock and is  *)
(* not any more, and rows in opposite order.                               *)
(***************************************************************************)
EXTENDS Sync

Worker(id, site, name, lang, at) ==
    [kind |-> "worker", id |-> id, flaw |-> None, site |-> site,
     displayName |-> name, preferredLang |-> lang, updatedAt |-> at]

Record(kind, id, worker, content, site) ==
    [kind |-> kind, id |-> id, flaw |-> None, worker |-> worker, content |-> content,
     site |-> site]

Batch(site, items) == [site |-> site, items |-> items]

Enrol == Worker("w1", "s1", "ravi", "hi", 1)
Renamed == Worker("w1", "s1", "aman", "hi", 2)
InOdia == Worker("w1", "s1", "ravi", "or", 3)
Other == Worker("w2", "s1", "asha", "hi", 1)
OtherLater == Worker("w2", "s1", "asha", "or", 2)
Drill == Record("attempt", "a1", "w1", "run", "s1")
OtherDrill == Record("attempt", "a2", "w2", "run", "s1")
Card == Record("certificate", "c1", "w2", "token", "s1")

MCBatches ==
    { Batch("s1", <<Enrol, Renamed, Other>>),
      Batch("s1", <<Drill, OtherLater, OtherDrill>>),
      Batch("s1", <<Card, OtherLater, [Drill EXCEPT !.flaw = "unknown_scenario"], InOdia>>),
      Batch("s2", <<[Drill EXCEPT !.content = "other"], [Other EXCEPT !.site = "s2"],
                    Enrol, [Card EXCEPT !.flaw = "invalid_certificate"], Card>>) }

\* One phone that retries while its first request is still being served.
EditBatches ==
    { Batch("s1", <<Enrol>>), Batch("s1", <<Enrol, Renamed>>), Batch("s1", <<Renamed, InOdia>>) }
=============================================================================
