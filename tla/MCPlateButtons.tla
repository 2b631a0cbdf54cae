---------------------------- MODULE MCPlateButtons ----------------------------
(***************************************************************************)
(* An instance of PlateButtons for TLC: the account of the tab, which may  *)
(* be deleted, and one more; the owner only looks on.  One fault, one      *)
(* whole row held, one rendering kept.                                     *)
(***************************************************************************)
EXTENDS PlateButtons, TLC

CONSTANTS me, other, owner

Untouched == card = <<0, 0, 0, FALSE>>

\* Nobody has used the tab yet, and all rate alike; beside a whole row that is held
\* two requests are enough.
Idle ==
    /\ pages = {} /\ calls = <<0, 0>> /\ Untouched /\ ~bookmarked
    /\ \A i \in Ids : requests[i].kind = "review" => requests[i].want = 1
    /\ copies = {} \/ Len(requests) <= 2

\* The tab is used while the account alone sends requests, and nobody holds a row,
\* which the buttons do not see: three toggles, or two requests of any kinds.
InTab ==
    /\ copies = {}
    /\ \A i \in Ids : requests[i].account = Me
    /\ \/ Len(requests) <= 2
       \/ Untouched /\ \A i \in Ids : requests[i].kind = "bookmark"

\* A bound: what the server does is explored with the tab idle, what the tab shows
\* with fewer requests.
Bound == Idle \/ InTab
=============================================================================
