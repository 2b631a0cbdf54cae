--------------------------- MODULE OrgMembership ---------------------------
(***************************************************************************)
(* One organization with its members and invitations, under the requests   *)
(* of api/service/organization/organization.go.  A request loads rows,     *)
(* checks the caller, and then writes statement by statement what it       *)
(* loaded; no transaction joins the statements.  Each action is one of     *)
(* them, with the reads before the first write taken together where they   *)
(* read what cannot change.                                                *)
(*                                                                         *)
(* PostgreSQL keeps a unique index on (organization, account) of the       *)
(* members and one on (organization, email) of the pending invitations,    *)
(* and foreign keys to the organization (api/lib/db.go, api/model).        *)
(***************************************************************************)
EXTENDS Integers

CONSTANTS
    Accounts,    \* accounts of the registry
    Owner,       \* organizations.owner_id
    Emails,      \* addresses of users
    Email,       \* the address of an account's user; accounts may share one
    Requests,    \* API requests that can be in flight at once
    MaxRequests  \* bound: API requests in a behaviour

ASSUME OrgAssumption ==
    /\ Owner \in Accounts
    /\ Email \in [Accounts -> Emails]
    /\ MaxRequests \in Nat

VARIABLES
    exists,       \* the organization's row
    hasPlates,    \* some plate belongs to the organization
    members,      \* the organization_member row of each account
    invitations,  \* the organization_invitation rows
    expired,      \* ids of the invitations whose expires_at has passed
    request,      \* what each API request holds in memory
    started,      \* API requests started so far
    offers,       \* history: the roles that were offered
    managers,     \* history: accounts that could manage the organization
    joined        \* history: ids of the invitations some account joined with

tables == <<exists, hasPlates, members, invitations, expired>>
history == <<offers, managers, joined>>
vars == <<tables, request, started, history>>

Roster == INSTANCE Membership WITH roles <- [a \in Accounts |-> members[a].role]

Grants == {"admin", "member"}
Roles  == {"none", "owner"} \cup Grants

\* Rows are told apart by their ids: the number of the request that made them.
Ids == 0..MaxRequests

MemberRows == [id : Ids, role : Roles]

NoMember == [id |-> 0, role |-> "none"]

InvitationRows ==
    [id : Ids, by : Accounts, email : Emails, role : Grants,
     status : {"pending", "accepted", "declined"}]

NoInvitation ==
    [id |-> 0, by |-> Owner, email |-> Email[Owner], role |-> "member",
     status |-> "declined"]

RequestStates ==
    [pc : {"idle", "inviting", "removing", "revoking", "accepting", "joining",
           "joined", "declining", "updating", "deleting"},
     account    : Accounts,        \* who accepts, or whose membership ends
     invitation : InvitationRows,  \* the struct it loaded or is to create
     member     : MemberRows]      \* the member it read, or the id of a new one

Idle == [pc |-> "idle", account |-> Owner, invitation |-> NoInvitation,
         member |-> NoMember]

\* Every variable keeps its type: no request writes a role that may not be
\* granted or a status outside the enums of model/organization_*.go.
TypeOK ==
    /\ exists \in BOOLEAN
    /\ hasPlates \in BOOLEAN
    /\ members \in [Accounts -> MemberRows]
    /\ invitations \subseteq InvitationRows
    /\ expired \subseteq Ids
    /\ request \in [Requests -> RequestStates]
    /\ started \in 0..MaxRequests
    /\ offers \subseteq [by : Accounts, to : Accounts, role : Grants]
    /\ managers \subseteq Accounts
    /\ joined \subseteq Ids

-----------------------------------------------------------------------------
\* Create makes the organization and drops the error of making its owner a member.
Init ==
    /\ exists = TRUE
    /\ hasPlates = FALSE
    /\ \E role \in {"owner", "none"} :
          members = [a \in Accounts |->
                        IF a = Owner THEN [id |-> 0, role |-> role] ELSE NoMember]
    /\ invitations = {}
    /\ expired = {}
    /\ request = [r \in Requests |-> Idle]
    /\ started = 0
    /\ offers = {}
    /\ managers = {Owner}
    /\ joined = {}

\* canManageOrg.
CanManage(a) == a = Owner \/ members[a].role \in {"owner", "admin"}

\* A request has loaded what it needs and passed its checks.
Begin(r, state) ==
    /\ request[r].pc = "idle"
    /\ started < MaxRequests
    /\ request' = [request EXCEPT ![r] = state]
    /\ started' = started + 1
    /\ UNCHANGED <<tables, history>>

Continue(r, state) == request' = [request EXCEPT ![r] = state] /\ UNCHANGED started

Finish(r) == Continue(r, Idle)

-----------------------------------------------------------------------------
(***************************************************************************)
(* Managers: InviteMember, RevokeInvitation, RemoveMember, and Leave.      *)
(***************************************************************************)

\* A slip: the role of the input is not validated.
LoadToInvite_AnyRole(r) ==
    \E by \in Accounts, email \in Emails, role \in Grants \cup {"owner"} :
        /\ exists /\ CanManage(by)
        /\ Begin(r, [Idle EXCEPT !.pc = "inviting",
                       !.invitation = [id |-> started + 1, by |-> by, email |-> email,
                                       role |-> role, status |-> "pending"]])

LoadToInvite(r) ==
    \E by \in Accounts, email \in Emails, role \in Grants :
        /\ exists /\ CanManage(by)
        /\ Begin(r, [Idle EXCEPT !.pc = "inviting",
                       !.invitation = [id |-> started + 1, by |-> by, email |-> email,
                                       role |-> role, status |-> "pending"]])

\* The INSERT fails when the organization is gone or the address has a pending
\* invitation, an expired one that nobody cleaned up included.
CreateInvitation(r) ==
    /\ request[r].pc = "inviting"
    /\ LET i == request[r].invitation
       IN  IF exists /\ \A j \in invitations : j.status = "pending" => j.email # i.email
           THEN /\ invitations' = invitations \cup {i}
                /\ offers' = offers \cup
                     {[by |-> i.by, to |-> a, role |-> i.role] :
                         a \in {b \in Accounts : Email[b] = i.email}}
           ELSE UNCHANGED <<invitations, offers>>
    /\ Finish(r)
    /\ UNCHANGED <<exists, hasPlates, members, expired, managers, joined>>

LoadToRevoke(r) ==
    \E by \in Accounts, i \in invitations :
        /\ exists /\ CanManage(by)
        /\ Begin(r, [Idle EXCEPT !.pc = "revoking", !.invitation = i])

DeleteInvitation(r) ==
    /\ request[r].pc = "revoking"
    /\ invitations' = {i \in invitations : i.id # request[r].invitation.id}
    /\ Finish(r)
    /\ UNCHANGED <<exists, hasPlates, members, expired, history>>

\* RemoveMember by a manager, Leave by the member itself; never of the owner.
LoadToRemove(r) ==
    \E by \in Accounts, a \in Accounts :
        /\ exists /\ (CanManage(by) \/ by = a)
        /\ a # Owner
        /\ members[a].role # "none"
        /\ Begin(r, [Idle EXCEPT !.pc = "removing", !.account = a])

DeleteMember(r) ==
    /\ request[r].pc = "removing"
    /\ members' = [members EXCEPT ![request[r].account] = NoMember]
    /\ Finish(r)
    /\ UNCHANGED <<exists, hasPlates, invitations, expired, history>>

-----------------------------------------------------------------------------
(***************************************************************************)
(* The invited: AcceptInvitation and DeclineInvitation.                    *)
(***************************************************************************)

\* A slip: the invitation's address is not compared with the caller's.
LoadInvitation_AnyAccount(r) ==
    \E a \in Accounts, i \in invitations :
        /\ i.status = "pending"
        /\ i.id \notin expired
        /\ Begin(r, [pc |-> "accepting", account |-> a, invitation |-> i,
                     member |-> [NoMember EXCEPT !.id = started + 1]])

LoadInvitation(r) ==
    \E a \in Accounts, i \in invitations :
        /\ i.status = "pending"
        /\ i.id \notin expired
        /\ Email[a] = i.email
        /\ Begin(r, [pc |-> "accepting", account |-> a, invitation |-> i,
                     member |-> [NoMember EXCEPT !.id = started + 1]])

ReadMember(r) ==
    /\ request[r].pc = "accepting"
    /\ LET member == members[request[r].account]
       IN  Continue(r, [request[r] EXCEPT !.pc = "joining",
                          !.member = IF member.role = "none" THEN @ ELSE member])
    /\ UNCHANGED <<tables, history>>

\* Create of a new row, or Save of the row that was read.  Save inserts when that
\* row is gone; either way a row of another id makes the statement fail, as does
\* an organization that is gone.
CanWriteMember(r) ==
    LET member == members[request[r].account]
    IN  exists /\ (member.role = "none" \/ member.id = request[r].member.id)

JoinWith(r) ==
    LET a == request[r].account
        i == request[r].invitation
    IN  /\ members' = [members EXCEPT ![a] = [id |-> request[r].member.id, role |-> i.role]]
        /\ managers' = IF i.role = "admin" THEN managers \cup {a} ELSE managers
        /\ joined' = joined \cup {i.id}

WriteMember(r) ==
    /\ request[r].pc = "joining"
    /\ \/ /\ CanWriteMember(r)
          /\ JoinWith(r)
          /\ Continue(r, [request[r] EXCEPT !.pc = "joined"])
       \/ /\ ~CanWriteMember(r)
          /\ Finish(r)
          /\ UNCHANGED <<members, managers, joined>>
    /\ UNCHANGED <<exists, hasPlates, invitations, expired, offers>>

\* Save of the invitation that was loaded, with its answer; it inserts the row
\* again when it is gone.
SaveInvitation(r, status) ==
    /\ LET i == [request[r].invitation EXCEPT !.status = status]
       IN  invitations' = IF exists
                          THEN {j \in invitations : j.id # i.id} \cup {i}
                          ELSE invitations
    /\ Finish(r)
    /\ UNCHANGED <<exists, hasPlates, members, expired, history>>

\* A slip: the answer is saved before the member is written.
SaveAccepted_Early(r) ==
    request[r].pc \in {"joining", "joined"} /\ SaveInvitation(r, "accepted")

\* A slip: the invitation is saved as it was loaded.
SaveAccepted_AsLoaded(r) ==
    request[r].pc = "joined" /\ SaveInvitation(r, request[r].invitation.status)

SaveAccepted(r) == request[r].pc = "joined" /\ SaveInvitation(r, "accepted")

\* DeclineInvitation compares the address and nothing else.
LoadToDecline(r) ==
    \E a \in Accounts, i \in invitations :
        /\ Email[a] = i.email
        /\ Begin(r, [Idle EXCEPT !.pc = "declining", !.invitation = i])

SaveDeclined(r) == request[r].pc = "declining" /\ SaveInvitation(r, "declined")

-----------------------------------------------------------------------------
(***************************************************************************)
(* The organization's own row: Update and Delete.                          *)
(***************************************************************************)
LoadToUpdate(r) ==
    /\ exists
    /\ \E by \in Accounts : CanManage(by)
    /\ Begin(r, [Idle EXCEPT !.pc = "updating"])

\* Save of the organization: it inserts the row again when it is gone.
SaveOrganization(r) ==
    /\ request[r].pc = "updating"
    /\ exists' = TRUE
    /\ Finish(r)
    /\ UNCHANGED <<hasPlates, members, invitations, expired, history>>

\* The owner asks, and CountPlates is zero.
LoadToDelete(r) ==
    /\ exists
    /\ ~hasPlates
    /\ Begin(r, [Idle EXCEPT !.pc = "deleting"])

\* The foreign keys refuse while a member, an invitation or a plate refers to it.
DeleteOrganization(r) ==
    /\ request[r].pc = "deleting"
    /\ exists' = (exists /\ (\/ hasPlates
                             \/ invitations # {}
                             \/ \E a \in Accounts : members[a].role # "none"))
    /\ Finish(r)
    /\ UNCHANGED <<hasPlates, members, invitations, expired, history>>

-----------------------------------------------------------------------------
\* The process dies or a statement fails: what was written stays.
Interrupt(r) ==
    /\ request[r].pc # "idle"
    /\ Finish(r)
    /\ UNCHANGED <<tables, history>>

\* An invitation's week is over.  Only of pending ones does anybody ask.
Expire ==
    /\ \E i \in invitations :
          /\ i.status = "pending"
          /\ i.id \notin expired
          /\ expired' = expired \cup {i.id}
    /\ UNCHANGED <<exists, hasPlates, members, invitations, request, started, history>>

\* DeleteExpiredPending, which the two list requests begin with.
DeleteExpiredPending ==
    /\ \E i \in invitations : i.status = "pending" /\ i.id \in expired
    /\ invitations' = {i \in invitations : i.status = "pending" => i.id \notin expired}
    /\ UNCHANGED <<exists, hasPlates, members, expired, request, started, history>>

\* The organization's first plate is submitted or moved in, its last moved out.
MovePlates ==
    /\ exists
    /\ hasPlates' = ~hasPlates
    /\ UNCHANGED <<exists, members, invitations, expired, request, started, history>>

RequestStep(r) ==
    \/ LoadToInvite(r)
    \/ CreateInvitation(r)
    \/ LoadToRevoke(r)
    \/ DeleteInvitation(r)
    \/ LoadToRemove(r)
    \/ DeleteMember(r)
    \/ LoadInvitation(r)
    \/ ReadMember(r)
    \/ WriteMember(r)
    \/ SaveAccepted(r)
    \/ LoadToDecline(r)
    \/ SaveDeclined(r)
    \/ LoadToUpdate(r)
    \/ SaveOrganization(r)
    \/ LoadToDelete(r)
    \/ DeleteOrganization(r)
    \/ Interrupt(r)

Next ==
    \/ \E r \in Requests : RequestStep(r)
    \/ Expire
    \/ DeleteExpiredPending
    \/ MovePlates

Spec == Init /\ [][Next]_vars

-----------------------------------------------------------------------------
\* An invitation that reads `accepted` has let somebody in: however the requests
\* over it overlap or break off, the answer is never recorded ahead of the member.
AcceptedHadJoined ==
    \A i \in invitations : i.status = "accepted" => i.id \in joined

\* An answered invitation never becomes pending again, although every answer
\* saves a whole row that was loaded earlier, over later answers or a deletion.
AnsweredStaysAnswered ==
    [][\A i \in invitations, j \in invitations' :
          i.id = j.id /\ i.status # "pending" => j.status # "pending"]_vars

\* The service implements Membership: nobody holds a role that a manager did not
\* offer to that account, whatever copies requests carry, and no removal, leave or
\* resurrected row ends the owner's membership.
ImplementsMembership == Roster!Spec
=============================================================================
