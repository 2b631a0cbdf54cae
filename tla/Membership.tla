----------------------------- MODULE Membership -----------------------------
(***************************************************************************)
(* What the organization service is to promise about the members of one    *)
(* organization: a role is held because somebody who could manage the      *)
(* organization offered it to that account, and the owner's membership     *)
(* does not end.  How requests, rows and statements bring this about is    *)
(* left to OrgMembership.                                                  *)
(***************************************************************************)
CONSTANTS
    Accounts,  \* accounts that may belong to the organization
    Owner      \* organizations.owner_id

VARIABLES
    roles,     \* what each account is in the organization, "none" if nothing
    offers,    \* every role that was ever offered
    managers   \* accounts that have ever been able to manage the organization

Grants == {"admin", "member"}
Roles  == {"none", "owner"} \cup Grants
Offers == [by : Accounts, to : Accounts, role : Grants]

\* The organization is created with its owner, whose membership may be missing.
Init ==
    /\ \E role \in {"owner", "none"} :
          roles = [a \in Accounts |-> IF a = Owner THEN role ELSE "none"]
    /\ offers = {}
    /\ managers = {Owner}

\* A manager, or one who was when the request began, offers a role to accounts.
Offer(by, accounts, role) ==
    /\ by \in managers
    /\ offers' = offers \cup {[by |-> by, to |-> a, role |-> role] : a \in accounts}
    /\ UNCHANGED <<roles, managers>>

\* An account takes a role it was offered.
Join(offer) ==
    /\ roles' = [roles EXCEPT ![offer.to] = offer.role]
    /\ managers' = IF offer.role = "admin" THEN managers \cup {offer.to} ELSE managers
    /\ UNCHANGED offers

\* A member leaves or is removed.
Depart(a) ==
    /\ a # Owner
    /\ roles' = [roles EXCEPT ![a] = "none"]
    /\ UNCHANGED <<offers, managers>>

Next ==
    \/ \E by \in Accounts, accounts \in SUBSET Accounts, role \in Grants :
          Offer(by, accounts, role)
    \/ \E offer \in offers : Join(offer)
    \/ \E a \in Accounts : Depart(a)

Spec == Init /\ [][Next]_<<roles, offers, managers>>
=============================================================================
