----------------------------- MODULE MCIdentity -----------------------------
(***************************************************************************)
(* Instances of Identity for TLC: an identity with the address people      *)
(* register with, and one whose provider hides the address.                *)
(***************************************************************************)
EXTENDS Identity, TLC

MCIdentityEmail ==
    [i \in Identities |-> IF i = "hidden" THEN NoEmail ELSE CHOOSE e \in Emails : TRUE]

MCSymmetry == Permutations(Requests)
=============================================================================
