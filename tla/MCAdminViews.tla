----------------------------- MODULE MCAdminViews -----------------------------
(***************************************************************************)
(* MCSync's batches with one page of the dashboard.  An admin, a           *)
(* supervisor of one of the two sites, a user without a profile, and       *)
(* requests without a token or with one that is not valid.  The retention  *)
(* view and the list of sites read what the overview reads.                *)
(***************************************************************************)
EXTENDS MCSync, AdminViews

Caller(token, profile) == [token |-> token, profile |-> profile]

MCCallers ==
    { Caller("good", [role |-> "admin", sites |-> {}]),
      Caller("good", [role |-> "supervisor", sites |-> {"s1"}]),
      Caller("good", None), Caller("none", None), Caller("bad", None) }

MCKinds ==
    {"overview", "heatmap", "recertDue", "workers", "attempts", "certificates", "worker",
     "attempt", "export", "devices"}

MCByName == << <<"aman", "w1">>, <<"asha", "w2">>, <<"ravi", "w1">> >>

MCNewest == <<"a2", "a1", "c1">>
=============================================================================
