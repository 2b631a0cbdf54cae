---------------------------- MODULE MCPlatesPage ----------------------------
(***************************************************************************)
(* Instances of PlatesPage for TLC: two plates of one name, published,     *)
(* waiting for their verification or not yet submitted.                    *)
(***************************************************************************)
EXTENDS PlatesPage, TLC

CONSTANTS p1, p2

MCName == [p \in Plates |-> "plate"]
MCHooks == {"submit", "remove", "move"} \cup Plates

Row(s) == [status |-> s, org |-> Personal]
MCStarts ==
    {p1 :> Row("published") @@ p2 :> Row("published"),
     p1 :> Row("pending") @@ p2 :> Row("unknown")}
=============================================================================
