------------------------ MODULE MCOrganizationsPage ------------------------
(***************************************************************************)
(* Instances of OrganizationsPage for TLC: two organizations, of which the *)
(* user may own, have joined or be invited to each when the page opens.    *)
(***************************************************************************)
EXTENDS OrganizationsPage, TLC

CONSTANTS o1, o2

MCKeys == {"me", "invitations"} \cup Orgs

Row(r, i, o) == [exists |-> TRUE, role |-> r, renamed |-> FALSE, invitesMe |-> i, other |-> o]

MCStarts ==
    {o1 :> Row("owner", "none", "member") @@ o2 :> Row("none", "admin", "none"),
     o1 :> Row("member", "none", "none") @@ o2 :> Row("admin", "none", "invited"),
     o1 :> Row("member", "none", "none") @@ o2 :> NoOrgRow}
=============================================================================
