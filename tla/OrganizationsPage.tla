-------------------------- MODULE OrganizationsPage --------------------------
(***************************************************************************)
(* The organizations tab of the account page:                              *)
(* web/src/presentation/components/account/OrganizationsManager.tsx with   *)
(* the hooks of useOrganizations.ts, one user in one browser tab against   *)
(* the server.  Every button disables itself while its hook is pending,    *)
(* yet dialogs can be dismissed while they wait, which resets the hook:    *)
(* answers then arrive on a page that has moved on.                        *)
(*                                                                         *)
(* What is typed is not kept, except whether the name that confirms a      *)
(* deletion was.  A dialog is modal: nothing behind it is clicked.         *)
(***************************************************************************)
EXTENDS QueryClient

CONSTANTS
    Orgs,     \* organizations
    None,     \* no organization
    Starts    \* what the tables may say when the page is opened

VARIABLES
    server,   \* what the tables say of each organization
    edit,     \* editingId
    remove,   \* confirmingOrg
    typed,    \* the organization whose name confirmOrgNameInput spells
    leave,    \* confirmingLeaveOrg
    members   \* managingMembersOrg

forms == <<edit, remove, typed, leave, members>>
vars == <<clientVars, server, forms>>

Roles == {"none", "member", "admin", "owner"}

\* The user's own role and invitation, and one other account.
OrgRows ==
    [exists : BOOLEAN, role : Roles, renamed : BOOLEAN,
     invitesMe : {"none", "member", "admin"}, other : {"none", "invited", "member"}]

NoOrgRow == [exists |-> FALSE, role |-> "none", renamed |-> FALSE,
             invitesMe |-> "none", other |-> "none"]

ASSUME OrganizationsAssumption ==
    /\ None \notin Orgs
    /\ Orgs \cap {"me", "invitations"} = {}
    /\ Keys = {"me", "invitations"} \cup Orgs
    /\ Hooks = {"create", "update", "remove", "leave", "invite", "removeMember",
                "revoke", "accept", "decline"}
    /\ Starts \subseteq [Orgs -> OrgRows]
    /\ \A s \in Starts, o \in Orgs :
          s[o].invitesMe # "none" => s[o].exists /\ s[o].role = "none"
    /\ MaxCalls \in Nat

Calls ==
    [hook : Hooks, org : Orgs, own : BOOLEAN,
     editing : Orgs \cup {None},
     status : {"sent", "applied", "succeeded", "failed", "lost"}]

\* The key of an organization stands for its members and its invitations, which
\* are queries of their own that every hook invalidates together.
Manages(o) == server[o].exists /\ server[o].role \in {"admin", "owner"}

Listed(k) ==
    CASE k = "me" -> [o \in Orgs |-> [role |-> server[o].role, renamed |-> server[o].renamed]]
      [] k = "invitations" -> [o \in Orgs |-> server[o].invitesMe]
      [] k \in Orgs -> [role |-> server[k].role, other |-> server[k].other]

Lists(k) ==
    CASE k = "me" -> [Orgs -> [role : Roles, renamed : BOOLEAN]]
      [] k = "invitations" -> [Orgs -> {"none", "member", "admin"}]
      [] k \in Orgs -> [role : Roles, other : {"none", "invited", "member"}]

TypeOK ==
    /\ cache = [k \in Keys |-> cache[k]]
    /\ \A k \in Keys : cache[k] \in EntriesOver(Lists(k))
    /\ calls \in Seq(Calls)
    /\ Len(calls) <= MaxCalls
    /\ observed \in [Hooks -> 0..Len(calls)]
    /\ server \in [Orgs -> OrgRows]
    /\ {edit, remove, typed, leave, members} \subseteq Orgs \cup {None}

Init ==
    /\ cache = Mounted([k \in Keys |-> NoEntry], {"me", "invitations"})
    /\ calls = <<>>
    /\ observed = [h \in Hooks |-> 0]
    /\ server \in Starts
    /\ edit = None /\ remove = None /\ typed = None /\ leave = None /\ members = None

--------------------------------------------------------------------------------
(* What is shown. *)

\* useOrganizationMembers and useOrganizationInvitations are enabled by the modal.
Active == {"me", "invitations"} \cup ({members} \ {None})

NoDialog == remove = None /\ leave = None /\ members = None

RowRole(o) == IF cache["me"].data = NoData THEN "none" ELSE cache["me"].data[o].role

\* A row shows its buttons unless it shows the form that edits it.
RowOf(o) == NoDialog /\ RowRole(o) # "none" /\ edit # o
EditFormOf(o) == NoDialog /\ RowRole(o) # "none" /\ edit = o

Other(o) == IF cache[o].data = NoData THEN "none" ELSE cache[o].data.other

Call(h, o) == [hook |-> h, org |-> o, own |-> FALSE, editing |-> edit, status |-> "sent"]

--------------------------------------------------------------------------------
(* The handlers of the page. *)

CanCreate == NoDialog /\ ~IsPending("create")

\* The new organization is one the server has no row of.
handleCreate(o) ==
    /\ CanCreate
    /\ ~server[o].exists
    /\ \A i \in CallIds : calls[i].org # o
    /\ Send(Call("create", o))
    /\ UNCHANGED <<cache, server, forms>>

startEditing(o) ==
    /\ RowOf(o)
    /\ RowRole(o) \in {"owner", "admin"}
    /\ ~IsPending("remove") /\ ~IsPending("leave")
    /\ edit' = o
    /\ UNCHANGED <<clientVars, server, remove, typed, leave, members>>

cancelEditing(o) ==
    /\ EditFormOf(o)
    /\ ~IsPending("update")
    /\ edit' = None
    /\ UNCHANGED <<clientVars, server, remove, typed, leave, members>>

handleUpdate(o) ==
    /\ EditFormOf(o)
    /\ ~IsPending("update")
    /\ Send(Call("update", o))
    /\ UNCHANGED <<cache, server, forms>>

OpenRemove(o) ==
    /\ EditFormOf(o)
    /\ ~IsPending("update") /\ ~IsPending("remove")
    /\ Forget("remove")
    /\ remove' = o
    /\ typed' = None
    /\ UNCHANGED <<cache, calls, server, edit, leave, members>>

canRemoveOrganization == remove # None /\ typed = remove

TypeOrgName ==
    /\ remove # None
    /\ ~canRemoveOrganization
    /\ typed' = remove
    /\ UNCHANGED <<clientVars, server, edit, remove, leave, members>>

\* Escape and a click outside work while the hook is pending, Cancel does not.
DismissRemove ==
    /\ remove # None
    /\ Forget("remove")
    /\ remove' = None
    /\ typed' = None
    /\ UNCHANGED <<cache, calls, server, edit, leave, members>>

onConfirmRemoveOrganization ==
    /\ canRemoveOrganization
    /\ ~IsPending("remove")
    /\ Send(Call("remove", remove))
    /\ UNCHANGED <<cache, server, forms>>

OpenLeave(o) ==
    /\ RowOf(o)
    /\ RowRole(o) = "member"
    /\ ~IsPending("leave") /\ ~IsPending("remove")
    /\ Forget("leave")
    /\ leave' = o
    /\ UNCHANGED <<cache, calls, server, edit, remove, typed, members>>

DismissLeave ==
    /\ leave # None
    /\ Forget("leave")
    /\ leave' = None
    /\ UNCHANGED <<cache, calls, server, edit, remove, typed, members>>

onConfirmLeaveOrganization ==
    /\ leave # None
    /\ ~IsPending("leave")
    /\ Send(Call("leave", leave))
    /\ UNCHANGED <<cache, server, forms>>

\* The modal keeps the row as it was listed, and so the role of that moment.
OpenMembers(o) ==
    /\ RowOf(o)
    /\ RowRole(o) \in {"owner", "admin"}
    /\ ~IsPending("remove") /\ ~IsPending("leave")
    /\ members' = o
    /\ cache' = Mounted(cache, {o})
    /\ UNCHANGED <<calls, observed, server, edit, remove, typed, leave>>

CloseMembers ==
    /\ members # None
    /\ members' = None
    /\ UNCHANGED <<clientVars, server, edit, remove, typed, leave>>

onInvite ==
    /\ members # None
    /\ ~IsPending("invite")
    /\ Send(Call("invite", members))
    /\ UNCHANGED <<cache, server, forms>>

\* Every listed member but the owner can be removed, the user's own account too.
RemoveMember ==
    /\ members # None
    /\ ~IsPending("removeMember")
    /\ cache[members].data # NoData
    /\ \/ Other(members) = "member" /\ Send(Call("removeMember", members))
       \/ /\ cache[members].data.role \in {"member", "admin"}
          /\ Send([Call("removeMember", members) EXCEPT !.own = TRUE])
    /\ UNCHANGED <<cache, server, forms>>

Revoke ==
    /\ members # None
    /\ ~IsPending("revoke")
    /\ Other(members) = "invited"
    /\ Send(Call("revoke", members))
    /\ UNCHANGED <<cache, server, forms>>

AnswerInvitation(o) ==
    /\ NoDialog
    /\ cache["invitations"].data # NoData
    /\ cache["invitations"].data[o] # "none"
    /\ \E h \in {"accept", "decline"} :
          /\ ~IsPending(h)
          /\ Send(Call(h, o))
    /\ UNCHANGED <<cache, server, forms>>

--------------------------------------------------------------------------------
(* The server. *)

Effect(c) ==
    LET row == server[c.org] IN
    CASE c.hook = "create" -> [row EXCEPT !.exists = TRUE, !.role = "owner"]
      [] c.hook = "update" -> [row EXCEPT !.renamed = TRUE]
      [] c.hook = "remove" -> NoOrgRow
      [] c.hook = "leave" -> [row EXCEPT !.role = "none"]
      [] c.hook = "invite" -> [row EXCEPT !.other = "invited"]
      [] c.hook = "removeMember" ->
            IF c.own THEN [row EXCEPT !.role = "none"] ELSE [row EXCEPT !.other = "none"]
      [] c.hook = "revoke" -> [row EXCEPT !.other = "none"]
      [] c.hook = "accept" -> [row EXCEPT !.role = row.invitesMe, !.invitesMe = "none"]
      [] c.hook = "decline" -> [row EXCEPT !.invitesMe = "none"]

Allowed(c) ==
    LET row == server[c.org] IN
    CASE c.hook = "create" -> ~row.exists
      [] c.hook = "update" -> Manages(c.org)
      [] c.hook = "remove" -> row.exists /\ row.role = "owner"
      [] c.hook = "leave" -> row.role \in {"member", "admin"}
      [] c.hook = "invite" -> Manages(c.org) /\ row.other = "none"
      [] c.hook = "removeMember" ->
            /\ Manages(c.org)
            /\ IF c.own THEN row.role = "admin" ELSE row.other = "member"
      [] c.hook = "revoke" -> Manages(c.org) /\ row.other = "invited"
      [] c.hook \in {"accept", "decline"} -> row.invitesMe # "none"

Apply(i) ==
    /\ calls[i].status = "sent"
    /\ Allowed(calls[i])
    /\ server' = [server EXCEPT ![calls[i].org] = Effect(calls[i])]
    /\ Applied(i)
    /\ UNCHANGED <<cache, observed, forms>>

ServeList(k) ==
    /\ k \in Orgs => Manages(k)
    /\ Serve(k, Listed(k))
    /\ UNCHANGED <<calls, observed, server, forms>>

--------------------------------------------------------------------------------
(* What arrives at the browser. *)

DeliverList(k) == Deliver(k) /\ UNCHANGED <<calls, observed, server, forms>>

\* The lists of an organization are refused to who no longer manages it.
LoseList(k) ==
    /\ k \in Orgs /\ ~Manages(k)
    /\ FetchFails(k)
    /\ UNCHANGED <<calls, observed, server, forms>>

\* A slip: accepting an invitation leaves the organizations as they were listed.
Touched_Forgotten(c) ==
    CASE c.hook \in {"create", "update", "remove", "leave", "invite"} -> Keys
      [] c.hook = "removeMember" -> {"me", c.org}
      [] c.hook = "revoke" -> {c.org}
      [] c.hook \in {"accept", "decline"} -> {"invitations"}

\* The keys the onSuccess of a hook invalidates.
Touched(c) ==
    CASE c.hook \in {"create", "update", "remove", "leave", "invite"} -> Keys
      [] c.hook = "removeMember" -> {"me", c.org}
      [] c.hook = "revoke" -> {c.org}
      [] c.hook = "accept" -> {"me", "invitations"}
      [] c.hook = "decline" -> {"invitations"}

\* A slip: leaving closes the edit form of whatever organization.
Continue_AnyForm(c) ==
    /\ edit' = IF c.hook \in {"update", "remove", "leave"} THEN None ELSE edit
    /\ remove' = IF c.hook = "remove" THEN None ELSE remove
    /\ typed' = IF c.hook = "remove" THEN None ELSE typed
    /\ leave' = IF c.hook = "leave" THEN None ELSE leave
    /\ UNCHANGED members

\* What the handler does after its await, on whatever is open by then.
Continue(c) ==
    /\ edit' = IF c.hook = "update" \/ (c.hook \in {"remove", "leave"} /\ c.editing = c.org)
               THEN None ELSE edit
    /\ remove' = IF c.hook = "remove" THEN None ELSE remove
    /\ typed' = IF c.hook = "remove" THEN None ELSE typed
    /\ leave' = IF c.hook = "leave" THEN None ELSE leave
    /\ UNCHANGED members

Succeed(i) ==
    /\ Succeeded(i)
    /\ cache' = Invalidated(cache, Touched(calls[i]), Active)
    /\ Continue(calls[i])
    /\ UNCHANGED <<observed, server>>

Fail(i) == NotSucceeded(i) /\ UNCHANGED <<cache, observed, server, forms>>

--------------------------------------------------------------------------------

User ==
    \/ \E o \in Orgs :
          \/ handleCreate(o) \/ startEditing(o) \/ cancelEditing(o) \/ handleUpdate(o)
          \/ OpenRemove(o) \/ OpenLeave(o) \/ OpenMembers(o) \/ AnswerInvitation(o)
    \/ TypeOrgName \/ DismissRemove \/ onConfirmRemoveOrganization
    \/ DismissLeave \/ onConfirmLeaveOrganization
    \/ CloseMembers \/ onInvite \/ RemoveMember \/ Revoke

Next ==
    \/ User
    \/ \E i \in CallIds : Apply(i) \/ Succeed(i) \/ Fail(i)
    \/ \E k \in Keys : ServeList(k) \/ DeliverList(k) \/ LoseList(k)

Spec == Init /\ [][Next]_vars

--------------------------------------------------------------------------------
(* Properties. *)

\* Once every change was answered, a list that counts as fresh is the server's,
\* whatever loads and changes overlapped: each hook of useOrganizations.ts
\* invalidates every list its change shows in.  A list whose first load was under
\* way when the change was answered is the exception: it is not loaded again.
ListsAgree ==
    (\A i \in CallIds : calls[i].status \notin {"applied", "lost"}) =>
        \A k \in Keys : cache[k].valid /\ ~cache[k].late => cache[k].data = Listed(k)

\* The error in the dialog that deletes or leaves an organization is the answer to
\* a request about that organization, although requests outlive their dialogs.
ErrorOfDialog ==
    /\ remove # None /\ HasError("remove") => calls[observed["remove"]].org = remove
    /\ leave # None /\ HasError("leave") => calls[observed["leave"]].org = leave

\* The answer to a request about another organization closes the edit form of an
\* organization only when that form was opened while the answer was under way:
\* handlers close what is open when they continue, not what they were started on.
ClosesNoOlderForm ==
    [][\A i \in CallIds :
          InFlight(i) /\ calls'[i].status = "succeeded" /\ edit # None /\ edit' = None =>
              edit = calls[i].org \/ edit # calls[i].editing]_vars
=============================================================================
