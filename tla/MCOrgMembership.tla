-------------------------- MODULE MCOrgMembership --------------------------
(***************************************************************************)
(* Instances of OrgMembership for TLC: the owner, and one other user who   *)
(* may have several accounts with one address.                             *)
(***************************************************************************)
EXTENDS OrgMembership, TLC

MCEmail == [a \in Accounts |-> IF a = Owner THEN "owner@" ELSE "user@"]

MCSymmetry == Permutations(Requests) \cup Permutations(Accounts \ {Owner})
=============================================================================
