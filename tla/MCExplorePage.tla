--------------------------- MODULE MCExplorePage ---------------------------
(***************************************************************************)
(* An instance of ExplorePage for TLC: a search, a category that has no    *)
(* plates, a tag and a badge; up to nine pages of plates.                 *)
(***************************************************************************)
EXTENDS ExplorePage, TLC

CONSTANTS q1, q2, cat, tag, badge

MCCounts == cat :> 0 @@ tag :> 2 @@ badge :> 1

MCTotal ==
    [f \in Filters |->
        IF f.search = q2 \/ cat \in f.picked THEN 0
        ELSE 9 - Cardinality(f.picked) - (IF f.search = q1 THEN 1 ELSE 0)]

MCAddresses ==
    {NoFilter} \cup {[search |-> NoQuery, picked |-> {o}] : o \in {cat, tag}}
=============================================================================
