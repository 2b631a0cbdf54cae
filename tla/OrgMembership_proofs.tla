----------------------- MODULE OrgMembership_proofs -----------------------
(***************************************************************************)
(* What TLAPS proves of OrgMembership, for every set of accounts, requests *)
(* and addresses and for every bound: types, the two properties of         *)
(* invitations, and that it implements Membership.                         *)
(***************************************************************************)
EXTENDS OrgMembership, TLAPS

-----------------------------------------------------------------------------
(***************************************************************************)
(* Type correctness.                                                       *)
(***************************************************************************)

\* The empty request, and one with another step, account or row, is a request.
LEMMA RequestTypes ==
    /\ NoMember \in MemberRows
    /\ NoInvitation \in InvitationRows
    /\ Idle \in RequestStates
BY OrgAssumption
DEF NoMember, MemberRows, Ids, Roles, Grants, NoInvitation, InvitationRows, Idle,
    RequestStates

\* What a request holds is of its type when the whole is.
LEMMA HeldTypes ==
    ASSUME TypeOK, NEW r \in Requests
    PROVE  /\ request[r] \in RequestStates
           /\ request[r].account \in Accounts
           /\ request[r].invitation \in InvitationRows
           /\ request[r].member \in MemberRows
           /\ request[r].invitation.id \in Ids
           /\ request[r].invitation.role \in Grants
BY DEF TypeOK, RequestStates, InvitationRows

\* A request that begins with a state of its type keeps the types.
LEMMA BeginType ==
    ASSUME TypeOK, NEW r \in Requests, NEW s \in RequestStates, Begin(r, s)
    PROVE  TypeOK'
BY OrgAssumption DEF Begin, TypeOK, tables, history

\* A request that goes on or ends keeps the type of the requests.
LEMMA ContinueType ==
    ASSUME TypeOK, NEW r \in Requests, NEW s \in RequestStates, Continue(r, s)
    PROVE  request' \in [Requests -> RequestStates] /\ started' \in 0..MaxRequests
BY DEF Continue, TypeOK

LEMMA FinishType ==
    ASSUME TypeOK, NEW r \in Requests, Finish(r)
    PROVE  request' \in [Requests -> RequestStates] /\ started' \in 0..MaxRequests
BY RequestTypes, ContinueType DEF Finish

\* An answered copy of an invitation is an invitation.
LEMMA AnswerType ==
    ASSUME TypeOK, NEW r \in Requests, NEW status \in {"accepted", "declined"},
           SaveInvitation(r, status)
    PROVE  TypeOK'
<1>1. [request[r].invitation EXCEPT !.status = status] \in InvitationRows
    BY HeldTypes DEF InvitationRows
<1>2. invitations' \subseteq InvitationRows
    BY <1>1 DEF SaveInvitation, TypeOK
<1> QED
    BY <1>2, FinishType DEF SaveInvitation, TypeOK, history

\* It holds of the initial states.
LEMMA OrgTypeInit == Init => TypeOK
<1> SUFFICES ASSUME Init PROVE TypeOK
    OBVIOUS
<1>1. members \in [Accounts -> MemberRows]
    <2>1. PICK role \in {"owner", "none"} :
              members = [a \in Accounts |->
                            IF a = Owner THEN [id |-> 0, role |-> role] ELSE NoMember]
        BY DEF Init
    <2>2. [id |-> 0, role |-> role] \in MemberRows
        BY OrgAssumption DEF MemberRows, Ids, Roles
    <2> QED
        BY <2>1, <2>2, RequestTypes
<1>2. request \in [Requests -> RequestStates]
    BY RequestTypes DEF Init
<1>3. started \in 0..MaxRequests /\ managers \subseteq Accounts
    BY OrgAssumption DEF Init
<1> QED
    BY <1>1, <1>2, <1>3 DEF Init, TypeOK

\* Every step of a request keeps it.
LEMMA OrgTypeRequest ==
    ASSUME TypeOK, NEW r \in Requests, RequestStep(r)
    PROVE  TypeOK'
<1>0. started + 1 \in Ids \/ ~(started < MaxRequests)
    BY OrgAssumption DEF TypeOK, Ids
<1>1. CASE LoadToInvite(r)
    <2>1. PICK by \in Accounts, email \in Emails, role \in Grants :
              Begin(r, [Idle EXCEPT !.pc = "inviting",
                          !.invitation = [id |-> started + 1, by |-> by, email |-> email,
                                          role |-> role, status |-> "pending"]])
        BY <1>1 DEF LoadToInvite
    <2>2. [id |-> started + 1, by |-> by, email |-> email,
           role |-> role, status |-> "pending"] \in InvitationRows
        BY <1>0, <2>1 DEF Begin, InvitationRows
    <2>3. [Idle EXCEPT !.pc = "inviting",
             !.invitation = [id |-> started + 1, by |-> by, email |-> email,
                             role |-> role, status |-> "pending"]] \in RequestStates
        BY <2>2, RequestTypes DEF RequestStates
    <2> QED
        BY <2>1, <2>3, BeginType
<1>2. CASE CreateInvitation(r)
    <2> DEFINE i == request[r].invitation
               new == {[by |-> i.by, to |-> a, role |-> i.role] :
                          a \in {b \in Accounts : Email[b] = i.email}}
    <2>1. i \in InvitationRows /\ i.by \in Accounts /\ i.role \in Grants
        BY HeldTypes DEF InvitationRows
    <2>2. new \subseteq [by : Accounts, to : Accounts, role : Grants]
        BY <2>1
    <2>3. /\ invitations' \in {invitations, invitations \cup {i}}
          /\ offers' \in {offers, offers \cup new}
        BY <1>2 DEF CreateInvitation
    <2>4. /\ invitations' \subseteq InvitationRows
          /\ offers' \subseteq [by : Accounts, to : Accounts, role : Grants]
        BY <2>1, <2>2, <2>3 DEF TypeOK
    <2> QED
        BY <1>2, <2>4, FinishType DEF CreateInvitation, TypeOK
<1>3. CASE LoadToRevoke(r) \/ LoadToDecline(r)
    <2>1. PICK pc \in {"revoking", "declining"}, i \in invitations :
              Begin(r, [Idle EXCEPT !.pc = pc, !.invitation = i])
        BY <1>3 DEF LoadToRevoke, LoadToDecline
    <2>2. [Idle EXCEPT !.pc = pc, !.invitation = i] \in RequestStates
        BY RequestTypes DEF RequestStates, TypeOK
    <2> QED
        BY <2>1, <2>2, BeginType
<1>4. CASE DeleteInvitation(r)
    BY <1>4, FinishType DEF DeleteInvitation, TypeOK, history
<1>5. CASE LoadToRemove(r)
    <2>1. PICK a \in Accounts : Begin(r, [Idle EXCEPT !.pc = "removing", !.account = a])
        BY <1>5 DEF LoadToRemove
    <2>2. [Idle EXCEPT !.pc = "removing", !.account = a] \in RequestStates
        BY RequestTypes DEF RequestStates
    <2> QED
        BY <2>1, <2>2, BeginType
<1>6. CASE DeleteMember(r)
    <2>1. members' \in [Accounts -> MemberRows]
        BY <1>6, RequestTypes DEF DeleteMember, TypeOK
    <2> QED
        BY <1>6, <2>1, FinishType DEF DeleteMember, TypeOK, history
<1>7. CASE LoadInvitation(r)
    <2> DEFINE new == [NoMember EXCEPT !.id = started + 1]
    <2>1. PICK a \in Accounts, i \in invitations :
              Begin(r, [pc |-> "accepting", account |-> a, invitation |-> i,
                        member |-> new])
        BY <1>7 DEF LoadInvitation
    <2>2. new \in MemberRows
        BY <1>0, <2>1, RequestTypes DEF Begin, MemberRows
    <2>3. [pc |-> "accepting", account |-> a, invitation |-> i,
           member |-> new] \in RequestStates
        BY <2>2 DEF RequestStates, TypeOK
    <2> HIDE DEF new
    <2> QED
        BY <2>1, <2>3, BeginType
<1>8. CASE ReadMember(r)
    <2> DEFINE member == members[request[r].account]
               next == [request[r] EXCEPT !.pc = "joining",
                           !.member = IF member.role = "none" THEN @ ELSE member]
    <2>1. member \in MemberRows
        BY HeldTypes DEF TypeOK
    <2>2. next \in RequestStates
        BY <2>1, HeldTypes DEF RequestStates
    <2>3. Continue(r, next)
        BY <1>8 DEF ReadMember
    <2> HIDE DEF next
    <2> QED
        BY <1>8, <2>2, <2>3, ContinueType DEF ReadMember, TypeOK, tables, history
<1>9. CASE WriteMember(r)
    <2>1. CASE CanWriteMember(r) /\ JoinWith(r)
               /\ Continue(r, [request[r] EXCEPT !.pc = "joined"])
        <3>1. [request[r] EXCEPT !.pc = "joined"] \in RequestStates
            BY HeldTypes DEF RequestStates
        <3>2. [id |-> request[r].member.id, role |-> request[r].invitation.role]
                \in MemberRows
            BY HeldTypes DEF MemberRows, Roles
        <3>3. members' \in [Accounts -> MemberRows]
            BY <2>1, <3>2 DEF JoinWith, TypeOK
        <3>4. managers' \subseteq Accounts /\ joined' \subseteq Ids
            BY <2>1, HeldTypes DEF JoinWith, TypeOK
        <3> QED
            BY <1>9, <2>1, <3>1, <3>3, <3>4, ContinueType DEF WriteMember, TypeOK
    <2>2. CASE Finish(r) /\ UNCHANGED <<members, managers, joined>>
        BY <1>9, <2>2, FinishType DEF WriteMember, TypeOK
    <2> QED
        BY <1>9, <2>1, <2>2 DEF WriteMember
<1>10. CASE SaveAccepted(r) \/ SaveDeclined(r)
    BY <1>10, AnswerType DEF SaveAccepted, SaveDeclined
<1>11. CASE LoadToUpdate(r) \/ LoadToDelete(r)
    <2>1. PICK pc \in {"updating", "deleting"} : Begin(r, [Idle EXCEPT !.pc = pc])
        BY <1>11 DEF LoadToUpdate, LoadToDelete
    <2>2. [Idle EXCEPT !.pc = pc] \in RequestStates
        BY RequestTypes DEF RequestStates
    <2> QED
        BY <2>1, <2>2, BeginType
<1>12. CASE SaveOrganization(r) \/ DeleteOrganization(r)
    BY <1>12, FinishType DEF SaveOrganization, DeleteOrganization, TypeOK, history
<1>13. CASE Interrupt(r)
    BY <1>13, FinishType DEF Interrupt, TypeOK, tables, history
<1> QED
    BY <1>1, <1>2, <1>3, <1>4, <1>5, <1>6, <1>7, <1>8, <1>9, <1>10, <1>11, <1>12, <1>13
    DEF RequestStep

\* Every step keeps it.
LEMMA OrgTypeStep == TypeOK /\ [Next]_vars => TypeOK'
<1> SUFFICES ASSUME TypeOK, [Next]_vars PROVE TypeOK'
    OBVIOUS
<1>1. ASSUME NEW r \in Requests, RequestStep(r) PROVE TypeOK'
    BY <1>1, OrgTypeRequest
<1>2. CASE Expire
    <2>1. expired' \subseteq Ids
        BY <1>2 DEF Expire, TypeOK, InvitationRows
    <2> QED
        BY <1>2, <2>1 DEF Expire, TypeOK, history
<1>3. CASE DeleteExpiredPending \/ MovePlates
    BY <1>3 DEF DeleteExpiredPending, MovePlates, TypeOK, history
<1>4. CASE UNCHANGED vars
    BY <1>4 DEF vars, tables, history, TypeOK
<1> QED
    BY <1>1, <1>2, <1>3, <1>4 DEF Next

\* TypeOK is an invariant: no request writes a role that may not be granted or a
\* status outside the enums, into a table or into its own copies.
THEOREM OrgTypeCorrect == Spec => []TypeOK
BY OrgTypeInit, OrgTypeStep, PTL DEF Spec

-----------------------------------------------------------------------------
(***************************************************************************)
(* Accepted invitations.  Inductive: a request that is about to record the *)
(* acceptance has written the member already.                              *)
(***************************************************************************)
JoinedBeforeSave ==
    \A r \in Requests : request[r].pc = "joined" => request[r].invitation.id \in joined

NewIsPending ==
    \A r \in Requests :
        request[r].pc = "inviting" => request[r].invitation.status = "pending"

JoinedInv == AcceptedHadJoined /\ JoinedBeforeSave /\ NewIsPending

\* It holds of the initial states.
LEMMA JoinedInit == Init => JoinedInv
BY DEF Init, JoinedInv, AcceptedHadJoined, JoinedBeforeSave, NewIsPending, Idle

\* Every step keeps it.
LEMMA JoinedStep == TypeOK /\ JoinedInv /\ [Next]_vars => JoinedInv'
<1> SUFFICES ASSUME TypeOK, JoinedInv, [Next]_vars PROVE JoinedInv'
    OBVIOUS
<1> USE DEF JoinedInv, AcceptedHadJoined, JoinedBeforeSave, NewIsPending
<1>1. ASSUME NEW r \in Requests, NEW s, Begin(r, s),
             s.pc # "joined", s.pc = "inviting" => s.invitation.status = "pending"
      PROVE  JoinedInv'
    BY <1>1 DEF Begin, TypeOK, tables, history
<1>2. ASSUME NEW r \in Requests, Finish(r), joined' = joined,
             \A i \in invitations' : i \in invitations \/ i.status # "accepted"
                                     \/ i.id \in joined
      PROVE  JoinedInv'
    BY <1>2 DEF Finish, Continue, Idle, TypeOK
<1>3. ASSUME NEW r \in Requests, RequestStep(r) PROVE JoinedInv'
    <2>1. CASE LoadToInvite(r)
        <3>1. PICK by \in Accounts, email \in Emails, role \in Grants :
                  Begin(r, [Idle EXCEPT !.pc = "inviting",
                              !.invitation = [id |-> started + 1, by |-> by,
                                              email |-> email, role |-> role,
                                              status |-> "pending"]])
            BY <2>1 DEF LoadToInvite
        <3> QED
            BY <1>1, <3>1 DEF Idle
    <2>2. CASE LoadToRevoke(r) \/ LoadToRemove(r) \/ LoadInvitation(r) \/ LoadToDecline(r)
               \/ LoadToUpdate(r) \/ LoadToDelete(r)
        BY <1>1, <2>2 DEF LoadToRevoke, LoadToRemove, LoadInvitation, LoadToDecline,
            LoadToUpdate, LoadToDelete, Idle
    <2>3. CASE CreateInvitation(r)
        BY <1>2, <2>3 DEF CreateInvitation
    <2>4. CASE DeleteInvitation(r) \/ DeleteMember(r) \/ SaveOrganization(r)
               \/ DeleteOrganization(r) \/ Interrupt(r)
        BY <1>2, <2>4 DEF DeleteInvitation, DeleteMember, SaveOrganization,
            DeleteOrganization, Interrupt, tables, history
    <2>5. CASE ReadMember(r)
        BY <2>5, HeldTypes DEF ReadMember, Continue, TypeOK, tables, history, RequestStates
    <2>6. CASE WriteMember(r)
        <3>1. CASE JoinWith(r) /\ Continue(r, [request[r] EXCEPT !.pc = "joined"])
            BY <2>6, <3>1, HeldTypes
            DEF WriteMember, JoinWith, Continue, TypeOK, RequestStates
        <3>2. CASE Finish(r) /\ UNCHANGED <<members, managers, joined>>
            BY <1>2, <2>6, <3>2 DEF WriteMember
        <3> QED
            BY <2>6, <3>1, <3>2 DEF WriteMember
    <2>7. CASE SaveAccepted(r)
        <3> DEFINE i == [request[r].invitation EXCEPT !.status = "accepted"]
        <3>1. i.id \in joined
            BY <2>7, HeldTypes DEF SaveAccepted, InvitationRows
        <3>2. \A j \in invitations' : j \in invitations \/ j = i
            BY <2>7 DEF SaveAccepted, SaveInvitation
        <3> QED
            BY <1>2, <2>7, <3>1, <3>2 DEF SaveAccepted, SaveInvitation, history
    <2>8. CASE SaveDeclined(r)
        <3> DEFINE i == [request[r].invitation EXCEPT !.status = "declined"]
        <3>1. i.status = "declined"
            BY HeldTypes DEF InvitationRows
        <3>2. \A j \in invitations' : j \in invitations \/ j = i
            BY <2>8 DEF SaveDeclined, SaveInvitation
        <3> QED
            BY <1>2, <2>8, <3>1, <3>2 DEF SaveDeclined, SaveInvitation, history
    <2> QED
        BY <1>3, <2>1, <2>2, <2>3, <2>4, <2>5, <2>6, <2>7, <2>8 DEF RequestStep
<1>4. CASE Expire \/ DeleteExpiredPending \/ MovePlates
    BY <1>4 DEF Expire, DeleteExpiredPending, MovePlates, history
<1>5. CASE UNCHANGED vars
    BY <1>5 DEF vars, tables, history
<1> QED
    BY <1>3, <1>4, <1>5 DEF Next

\* The answer `accepted` is never recorded ahead of the member it speaks of, for
\* any number of overlapping and broken-off requests.
THEOREM AcceptedAlwaysJoined == Spec => []AcceptedHadJoined
<1>1. Spec => [](TypeOK /\ JoinedInv)
    BY OrgTypeInit, OrgTypeStep, JoinedInit, JoinedStep, PTL DEF Spec
<1>2. JoinedInv => AcceptedHadJoined
    BY DEF JoinedInv
<1> QED
    BY <1>1, <1>2, PTL

-----------------------------------------------------------------------------
(***************************************************************************)
(* Answered invitations.  A request that is about to create an invitation  *)
(* holds an id that no row has and that no other request holds, and rows   *)
(* have ids of their own; so no old copy can meet a new pending row.       *)
(***************************************************************************)
UniqueIds == \A i, j \in invitations : i.id = j.id => i = j

IdsAreOld ==
    /\ \A i \in invitations : i.id <= started
    /\ \A r \in Requests : request[r].invitation.id <= started

NewIdsAreFresh ==
    \A r \in Requests : request[r].pc = "inviting" =>
        /\ request[r].invitation.id > 0
        /\ \A i \in invitations : i.id # request[r].invitation.id
        /\ \A q \in Requests \ {r} : request[q].invitation.id # request[r].invitation.id

IdInv == UniqueIds /\ IdsAreOld /\ NewIdsAreFresh

\* It holds of the initial states.
LEMMA IdInit == Init => IdInv
BY DEF Init, IdInv, UniqueIds, IdsAreOld, NewIdsAreFresh, Idle, NoInvitation

\* Every step keeps it.
LEMMA IdStep == TypeOK /\ IdInv /\ [Next]_vars => IdInv'
<1> SUFFICES ASSUME TypeOK, IdInv, [Next]_vars PROVE IdInv'
    OBVIOUS
<1>0. /\ UniqueIds /\ IdsAreOld /\ NewIdsAreFresh
      /\ started \in Nat
      /\ \A i \in invitations : i.id \in Nat
      /\ \A r \in Requests : request[r].invitation.id \in Nat
    BY OrgAssumption, HeldTypes DEF IdInv, TypeOK, InvitationRows, Ids
<1>1. ASSUME NEW r \in Requests, NEW s, Begin(r, s),
             \/ s.pc = "inviting" /\ s.invitation.id = started + 1
             \/ s.pc # "inviting" /\ \E i \in invitations : s.invitation.id = i.id
             \/ s.pc # "inviting" /\ s.invitation.id = 0
      PROVE  IdInv'
    <2>1. /\ request' = [request EXCEPT ![r] = s]
          /\ request \in [Requests -> RequestStates]
          /\ started' = started + 1
          /\ invitations' = invitations
        BY <1>1 DEF Begin, tables, TypeOK
    <2>2. s.invitation.id \in Nat /\ s.invitation.id <= started + 1
        BY <1>0, <1>1 DEF IdsAreOld
    <2>3. UniqueIds' /\ IdsAreOld'
        BY <1>0, <2>1, <2>2 DEF UniqueIds, IdsAreOld
    <2>4. ASSUME NEW q \in Requests, request'[q].pc = "inviting"
          PROVE  /\ request'[q].invitation.id > 0
                 /\ \A i \in invitations' : i.id # request'[q].invitation.id
                 /\ \A p \in Requests \ {q} :
                       request'[p].invitation.id # request'[q].invitation.id
        <3>1. CASE q = r
            BY <1>0, <1>1, <2>1, <2>4, <3>1 DEF IdsAreOld
        <3>2. CASE q # r
            BY <1>0, <1>1, <2>1, <2>4, <3>2 DEF IdsAreOld, NewIdsAreFresh
        <3> QED
            BY <3>1, <3>2
    <2> QED
        BY <2>3, <2>4 DEF IdInv, NewIdsAreFresh
<1>2. ASSUME NEW r \in Requests, Finish(r),
             \/ invitations' \subseteq invitations
             \/ \E i : /\ i.id = request[r].invitation.id
                       /\ \/ invitations' = {j \in invitations : j.id # i.id} \cup {i}
                          \/ /\ request[r].pc = "inviting"
                             /\ invitations' = invitations \cup {i}
      PROVE  IdInv'
    <2>1. /\ request' = [request EXCEPT ![r] = Idle]
          /\ request \in [Requests -> RequestStates]
          /\ started' = started
          /\ Idle.pc = "idle" /\ Idle.invitation.id = 0
        BY <1>2 DEF Finish, Continue, TypeOK, Idle, NoInvitation
    <2>2. \A i \in invitations' : \/ i \in invitations
                                  \/ i.id = request[r].invitation.id
        BY <1>2
    <2>3. UniqueIds'
        BY <1>0, <1>2 DEF UniqueIds, NewIdsAreFresh
    <2>4. IdsAreOld'
        BY <1>0, <2>1, <2>2 DEF IdsAreOld
    <2>5. NewIdsAreFresh'
        BY <1>0, <2>1, <2>2 DEF NewIdsAreFresh
    <2> QED
        BY <2>3, <2>4, <2>5 DEF IdInv
<1>3. ASSUME NEW r \in Requests, NEW s, Continue(r, s), invitations' = invitations,
             s.pc # "inviting", s.invitation = request[r].invitation
      PROVE  IdInv'
    BY <1>0, <1>3 DEF Continue, TypeOK, IdInv, UniqueIds, IdsAreOld, NewIdsAreFresh
<1>4. ASSUME NEW r \in Requests, RequestStep(r) PROVE IdInv'
    <2>1. CASE LoadToInvite(r)
        <3>1. PICK by \in Accounts, email \in Emails, role \in Grants :
                  Begin(r, [Idle EXCEPT !.pc = "inviting",
                              !.invitation = [id |-> started + 1, by |-> by,
                                              email |-> email, role |-> role,
                                              status |-> "pending"]])
            BY <2>1 DEF LoadToInvite
        <3> QED
            BY <1>1, <3>1 DEF Idle
    <2>2. CASE LoadToRevoke(r) \/ LoadInvitation(r) \/ LoadToDecline(r)
        BY <1>1, <2>2 DEF LoadToRevoke, LoadInvitation, LoadToDecline, Idle
    <2>3. CASE LoadToRemove(r) \/ LoadToUpdate(r) \/ LoadToDelete(r)
        BY <1>1, <2>3 DEF LoadToRemove, LoadToUpdate, LoadToDelete, Idle, NoInvitation
    <2>4. CASE CreateInvitation(r)
        BY <1>2, <2>4 DEF CreateInvitation
    <2>5. CASE DeleteInvitation(r) \/ DeleteMember(r) \/ SaveOrganization(r)
               \/ DeleteOrganization(r) \/ Interrupt(r)
        BY <1>2, <2>5 DEF DeleteInvitation, DeleteMember, SaveOrganization,
            DeleteOrganization, Interrupt, tables
    <2>6. CASE ReadMember(r)
        <3>1. PICK m : Continue(r, [request[r] EXCEPT !.pc = "joining", !.member = m])
            BY <2>6, HeldTypes DEF ReadMember, RequestStates
        <3> QED
            BY <1>3, <2>6, <3>1, HeldTypes DEF ReadMember, tables, RequestStates
    <2>7. CASE WriteMember(r)
        BY <1>2, <1>3, <2>7, HeldTypes DEF WriteMember, RequestStates
    <2>8. ASSUME NEW status \in {"accepted", "declined"}, SaveInvitation(r, status)
          PROVE  IdInv'
        <3> DEFINE i == [request[r].invitation EXCEPT !.status = status]
        <3>1. i.id = request[r].invitation.id
            BY HeldTypes DEF InvitationRows
        <3>2. invitations' \in {invitations, {j \in invitations : j.id # i.id} \cup {i}}
            BY <2>8 DEF SaveInvitation
        <3> HIDE DEF i
        <3> QED
            BY <1>2, <2>8, <3>1, <3>2 DEF SaveInvitation
    <2> QED
        BY <1>4, <2>1, <2>2, <2>3, <2>4, <2>5, <2>6, <2>7, <2>8
        DEF RequestStep, SaveAccepted, SaveDeclined
<1>5. CASE Expire \/ DeleteExpiredPending \/ MovePlates
    BY <1>0, <1>5 DEF Expire, DeleteExpiredPending, MovePlates, IdInv, UniqueIds,
        IdsAreOld, NewIdsAreFresh
<1>6. CASE UNCHANGED vars
    BY <1>0, <1>6 DEF vars, tables, IdInv, UniqueIds, IdsAreOld, NewIdsAreFresh
<1> QED
    BY <1>4, <1>5, <1>6 DEF Next

\* What a step may not do to an answered invitation.
KeepsAnswers ==
    \A i \in invitations, j \in invitations' :
        i.id = j.id /\ i.status # "pending" => j.status # "pending"

\* Rows that a step writes are answered, or have an id that no row had.
LEMMA AnswersStep == TypeOK /\ IdInv /\ [Next]_vars => KeepsAnswers
<1> SUFFICES ASSUME TypeOK, IdInv, [Next]_vars PROVE KeepsAnswers
    OBVIOUS
<1>1. ASSUME \A j \in invitations' : j \in invitations PROVE KeepsAnswers
    BY <1>1 DEF KeepsAnswers, IdInv, UniqueIds
<1>2. ASSUME NEW r \in Requests, RequestStep(r) PROVE KeepsAnswers
    <2>1. CASE CreateInvitation(r)
        <3>1. \A j \in invitations' : j \in invitations \/ j = request[r].invitation
            BY <2>1 DEF CreateInvitation
        <3>2. \A i \in invitations : i.id # request[r].invitation.id
            BY <2>1 DEF CreateInvitation, IdInv, NewIdsAreFresh
        <3> QED
            BY <3>1, <3>2 DEF KeepsAnswers, IdInv, UniqueIds
    <2>2. ASSUME NEW status \in {"accepted", "declined"}, SaveInvitation(r, status)
          PROVE  KeepsAnswers
        <3> DEFINE new == [request[r].invitation EXCEPT !.status = status]
        <3>1. new.status # "pending"
            BY HeldTypes DEF InvitationRows
        <3>2. \A j \in invitations' : j \in invitations \/ j = new
            BY <2>2 DEF SaveInvitation
        <3> QED
            BY <3>1, <3>2 DEF KeepsAnswers, IdInv, UniqueIds
    <2>3. CASE DeleteInvitation(r)
        BY <1>1, <2>3 DEF DeleteInvitation
    <2>4. CASE invitations' = invitations
        BY <1>1, <2>4
    <2> QED
        BY <1>2, <2>1, <2>2, <2>3, <2>4
        DEF RequestStep, SaveAccepted, SaveDeclined, LoadToInvite, LoadToRevoke,
            LoadToRemove, LoadInvitation, LoadToDecline, LoadToUpdate, LoadToDelete,
            Begin, DeleteMember, ReadMember, WriteMember, SaveOrganization,
            DeleteOrganization, Interrupt, tables
<1>3. CASE Expire \/ DeleteExpiredPending \/ MovePlates
    BY <1>1, <1>3 DEF Expire, DeleteExpiredPending, MovePlates
<1>4. CASE UNCHANGED vars
    BY <1>1, <1>4 DEF vars, tables
<1> QED
    BY <1>2, <1>3, <1>4 DEF Next

\* An answered invitation never becomes pending again, although each answer saves
\* a copy that later answers, revocations and clean-ups may have overtaken.
THEOREM AnswersStay == Spec => AnsweredStaysAnswered
<1>1. TypeOK /\ IdInv /\ [Next]_vars => [KeepsAnswers]_vars
    BY AnswersStep
<1>2. Spec => [][KeepsAnswers]_vars
    BY <1>1, OrgTypeInit, OrgTypeStep, IdInit, IdStep, PTL DEF Spec
<1> QED
    BY <1>2 DEF AnsweredStaysAnswered, KeepsAnswers

-----------------------------------------------------------------------------
(***************************************************************************)
(* OrgMembership implements Membership.  The tables alone do not show it:  *)
(* the step that makes a member writes what its request loaded, perhaps    *)
(* long ago.  What is inductive is that every invitation, stored or held   *)
(* by a request, was offered by somebody who could manage the organization *)
(* to every account with its address.                                      *)
(***************************************************************************)
OfferedTo(i, a) == [by |-> i.by, to |-> a, role |-> i.role] \in offers

Offered(i) == \A a \in Accounts : Email[a] = i.email => OfferedTo(i, a)

ManagersAreKnown == \A a \in Accounts : CanManage(a) => a \in managers

CopiesAreOffered ==
    \A r \in Requests :
        /\ request[r].pc = "inviting" => request[r].invitation.by \in managers
        /\ request[r].pc \in {"accepting", "joining", "joined", "declining"}
              => Offered(request[r].invitation)
        /\ request[r].pc \in {"accepting", "joining"}
              => Email[request[r].account] = request[r].invitation.email
        /\ request[r].pc = "removing" => request[r].account # Owner

RosterInv ==
    /\ ManagersAreKnown
    /\ \A i \in invitations : Offered(i)
    /\ CopiesAreOffered

\* What the members are in the sense of Membership.
roles == [a \in Accounts |-> members[a].role]

\* It holds of the initial states, which are initial states of Membership.
LEMMA RosterInit == Init => RosterInv /\ Roster!Init
<1> SUFFICES ASSUME Init PROVE RosterInv /\ Roster!Init
    OBVIOUS
<1>1. PICK role \in {"owner", "none"} :
          members = [a \in Accounts |->
                        IF a = Owner THEN [id |-> 0, role |-> role] ELSE NoMember]
    BY DEF Init
<1>2. roles = [a \in Accounts |-> IF a = Owner THEN role ELSE "none"]
    BY <1>1 DEF roles, NoMember
<1>3. Roster!Init
    BY <1>2 DEF Init, Roster!Init, roles
<1>4. ManagersAreKnown
    BY <1>1 DEF Init, ManagersAreKnown, CanManage, NoMember
<1>5. CopiesAreOffered
    BY DEF Init, CopiesAreOffered, Idle
<1> QED
    BY <1>3, <1>4, <1>5 DEF Init, RosterInv

\* A request that begins or ends, and what the tables lose, keep it.
LEMMA RosterBegin ==
    ASSUME TypeOK, RosterInv, NEW r \in Requests, NEW s, Begin(r, s),
           s.pc = "inviting" => s.invitation.by \in managers,
           s.pc \in {"accepting", "joining", "joined", "declining"}
              => Offered(s.invitation),
           s.pc \in {"accepting", "joining"} => Email[s.account] = s.invitation.email,
           s.pc = "removing" => s.account # Owner
    PROVE  RosterInv'
BY DEF Begin, TypeOK, RosterInv, ManagersAreKnown, CanManage, CopiesAreOffered, Offered,
    OfferedTo, tables, history

LEMMA RosterFinish ==
    ASSUME TypeOK, RosterInv, NEW r \in Requests, Finish(r),
           offers' = offers, managers' = managers,
           \A a \in Accounts : members'[a] = members[a] \/ members'[a].role = "none",
           \A i \in invitations' : i \in invitations \/ Offered(i)
    PROVE  RosterInv'
BY DEF Finish, Continue, Idle, TypeOK, RosterInv, ManagersAreKnown, CanManage,
    CopiesAreOffered, Offered, OfferedTo

\* Every step of a request keeps it.
LEMMA RosterRequest ==
    ASSUME TypeOK, RosterInv, NEW r \in Requests, RequestStep(r)
    PROVE  RosterInv'
<1>1. CASE LoadToInvite(r)
    <2>1. PICK by \in Accounts, email \in Emails, role \in Grants :
              /\ CanManage(by)
              /\ Begin(r, [Idle EXCEPT !.pc = "inviting",
                             !.invitation = [id |-> started + 1, by |-> by,
                                             email |-> email, role |-> role,
                                             status |-> "pending"]])
        BY <1>1 DEF LoadToInvite
    <2>2. by \in managers
        BY <2>1 DEF RosterInv, ManagersAreKnown
    <2> QED
        BY <2>1, <2>2, RosterBegin DEF Idle
<1>2. CASE CreateInvitation(r)
    <2> DEFINE i == request[r].invitation
               new == {[by |-> i.by, to |-> a, role |-> i.role] :
                          a \in {b \in Accounts : Email[b] = i.email}}
    <2>1. CASE UNCHANGED <<invitations, offers>>
        BY <1>2, <2>1, RosterFinish DEF CreateInvitation
    <2>2. CASE invitations' = invitations \cup {i} /\ offers' = offers \cup new
        <3>1. \A j : Offered(j) => Offered(j)'
            BY <2>2 DEF Offered, OfferedTo
        <3>2. \A j : j = i => Offered(j)'
            BY <2>2 DEF Offered, OfferedTo
        <3>3. \A j \in invitations' : Offered(j)'
            BY <2>2, <3>1, <3>2 DEF RosterInv
        <3>4. CopiesAreOffered'
            BY <1>2, <3>1
            DEF CreateInvitation, Finish, Continue, Idle, TypeOK, RosterInv, CopiesAreOffered
        <3>5. ManagersAreKnown'
            BY <1>2 DEF CreateInvitation, RosterInv, ManagersAreKnown, CanManage
        <3> QED
            BY <3>3, <3>4, <3>5 DEF RosterInv
    <2> QED
        BY <1>2, <2>1, <2>2 DEF CreateInvitation
<1>3. CASE LoadToRevoke(r) \/ LoadToRemove(r) \/ LoadToUpdate(r) \/ LoadToDelete(r)
    BY <1>3, RosterBegin
    DEF LoadToRevoke, LoadToRemove, LoadToUpdate, LoadToDelete, Idle
<1>4. CASE LoadInvitation(r) \/ LoadToDecline(r)
    BY <1>4, RosterBegin DEF LoadInvitation, LoadToDecline, Idle, RosterInv
<1>5. CASE DeleteInvitation(r) \/ SaveOrganization(r) \/ DeleteOrganization(r)
           \/ Interrupt(r)
    BY <1>5, RosterFinish
    DEF DeleteInvitation, SaveOrganization, DeleteOrganization, Interrupt, tables, history
<1>6. CASE DeleteMember(r)
    <2>1. \A a \in Accounts : members'[a] = members[a] \/ members'[a].role = "none"
        BY <1>6 DEF DeleteMember, TypeOK, NoMember
    <2> QED
        BY <1>6, <2>1, RosterFinish DEF DeleteMember, history
<1>7. CASE ReadMember(r)
    <2>1. PICK m : request' = [request EXCEPT ![r] =
                      [request[r] EXCEPT !.pc = "joining", !.member = m]]
        BY <1>7, HeldTypes DEF ReadMember, Continue, RequestStates
    <2>2. CopiesAreOffered'
        BY <1>7, <2>1, HeldTypes
        DEF ReadMember, tables, history, TypeOK, RequestStates, RosterInv,
            CopiesAreOffered, Offered, OfferedTo
    <2> QED
        BY <1>7, <2>2
        DEF ReadMember, tables, history, RosterInv, ManagersAreKnown, CanManage, Offered,
            OfferedTo
<1>8. CASE WriteMember(r)
    <2>1. CASE JoinWith(r) /\ Continue(r, [request[r] EXCEPT !.pc = "joined"])
        <3>1. managers \subseteq managers' /\ offers' = offers
            BY <1>8, <2>1 DEF WriteMember, JoinWith
        <3>2. ManagersAreKnown'
            BY <2>1, <3>1, HeldTypes
            DEF JoinWith, RosterInv, ManagersAreKnown, CanManage, TypeOK, Grants
        <3>3. \A j : Offered(j)' = Offered(j)
            BY <3>1 DEF Offered, OfferedTo
        <3>4. Offered(request[r].invitation)
            BY <1>8 DEF WriteMember, RosterInv, CopiesAreOffered
        <3>5. request' = [request EXCEPT ![r] = [request[r] EXCEPT !.pc = "joined"]]
            BY <2>1 DEF Continue
        <3>6. /\ request'[r].pc = "joined"
              /\ request'[r].invitation = request[r].invitation
              /\ \A q \in Requests \ {r} : request'[q] = request[q]
            BY <3>5, HeldTypes DEF TypeOK, RequestStates
        <3>7. CopiesAreOffered'
            BY <3>1, <3>3, <3>4, <3>6 DEF RosterInv, CopiesAreOffered
        <3> QED
            BY <1>8, <3>2, <3>3, <3>7 DEF WriteMember, RosterInv
    <2>2. CASE Finish(r) /\ UNCHANGED <<members, managers, joined>>
        BY <1>8, <2>2, RosterFinish DEF WriteMember
    <2> QED
        BY <1>8, <2>1, <2>2 DEF WriteMember
<1>9. ASSUME NEW status \in {"accepted", "declined"}, SaveInvitation(r, status),
             request[r].pc \in {"joined", "declining"}
      PROVE  RosterInv'
    <2> DEFINE new == [request[r].invitation EXCEPT !.status = status]
    <2>1. Offered(new)
        BY <1>9, HeldTypes
        DEF RosterInv, CopiesAreOffered, Offered, OfferedTo, InvitationRows
    <2>2. \A j \in invitations' : j \in invitations \/ j = new
        BY <1>9 DEF SaveInvitation
    <2> QED
        BY <1>9, <2>1, <2>2, RosterFinish DEF SaveInvitation, history
<1> QED
    BY <1>1, <1>2, <1>3, <1>4, <1>5, <1>6, <1>7, <1>8, <1>9
    DEF RequestStep, SaveAccepted, SaveDeclined

\* Every step keeps it.
LEMMA RosterStep == TypeOK /\ RosterInv /\ [Next]_vars => RosterInv'
<1> SUFFICES ASSUME TypeOK, RosterInv, [Next]_vars PROVE RosterInv'
    OBVIOUS
<1>1. ASSUME NEW r \in Requests, RequestStep(r) PROVE RosterInv'
    BY <1>1, RosterRequest
<1>2. CASE Expire \/ DeleteExpiredPending \/ MovePlates \/ UNCHANGED vars
    BY <1>2
    DEF Expire, DeleteExpiredPending, MovePlates, vars, tables, history, RosterInv,
        ManagersAreKnown, CanManage, CopiesAreOffered, Offered, OfferedTo
<1> QED
    BY <1>1, <1>2 DEF Next

\* Every step is a step of Membership or leaves its variables alone.
LEMMA StepIsMembershipStep ==
    TypeOK /\ RosterInv /\ [Next]_vars => [Roster!Next]_<<roles, offers, managers>>
<1> SUFFICES ASSUME TypeOK, RosterInv, [Next]_vars
             PROVE  Roster!Next \/ UNCHANGED <<roles, offers, managers>>
    OBVIOUS
<1>1. ASSUME UNCHANGED <<members, offers, managers>>
      PROVE  UNCHANGED <<roles, offers, managers>>
    BY <1>1 DEF roles
<1>2. ASSUME NEW r \in Requests, CreateInvitation(r)
      PROVE  Roster!Next \/ UNCHANGED <<roles, offers, managers>>
    <2> DEFINE i == request[r].invitation
               S == {b \in Accounts : Email[b] = i.email}
               new == {[by |-> i.by, to |-> a, role |-> i.role] : a \in S}
    <2>1. roles' = roles /\ managers' = managers
        BY <1>2 DEF CreateInvitation, roles
    <2>2. i.by \in managers /\ i.by \in Accounts /\ i.role \in Grants
        BY <1>2, HeldTypes DEF CreateInvitation, RosterInv, CopiesAreOffered, InvitationRows
    <2>3. CASE offers' = offers \cup new
        <3>1. Roster!Offer(i.by, S, i.role)
            BY <2>1, <2>2, <2>3 DEF Roster!Offer, roles
        <3>2. S \in SUBSET Accounts /\ i.role \in Roster!Grants
            BY <2>2 DEF Roster!Grants, Grants
        <3> QED
            BY <2>2, <3>1, <3>2 DEF Roster!Next
    <2>4. CASE offers' = offers
        BY <2>1, <2>4
    <2> QED
        BY <1>2, <2>3, <2>4 DEF CreateInvitation
<1>3. ASSUME NEW r \in Requests, DeleteMember(r) PROVE Roster!Next
    <2>1. PICK a \in Accounts : a = request[r].account
        BY HeldTypes
    <2>2. a # Owner
        BY <1>3, <2>1 DEF DeleteMember, RosterInv, CopiesAreOffered
    <2>3. roles' = [roles EXCEPT ![a] = "none"]
        BY <1>3, <2>1 DEF DeleteMember, TypeOK, NoMember, roles
    <2>4. Roster!Depart(a)
        BY <1>3, <2>2, <2>3 DEF DeleteMember, Roster!Depart, roles, history
    <2> QED
        BY <2>4 DEF Roster!Next
<1>4. ASSUME NEW r \in Requests, WriteMember(r)
      PROVE  Roster!Next \/ UNCHANGED <<roles, offers, managers>>
    <2>1. CASE JoinWith(r)
        <3>1. PICK a \in Accounts, i \in InvitationRows :
                  a = request[r].account /\ i = request[r].invitation
            BY HeldTypes
        <3>2. PICK offer \in offers : offer = [by |-> i.by, to |-> a, role |-> i.role]
            BY <1>4, <3>1 DEF WriteMember, RosterInv, CopiesAreOffered, Offered, OfferedTo
        <3>3. roles' = [roles EXCEPT ![a] = i.role]
            BY <2>1, <3>1 DEF JoinWith, TypeOK, roles
        <3>4. Roster!Join(offer)
            BY <1>4, <2>1, <3>1, <3>2, <3>3 DEF WriteMember, JoinWith, Roster!Join, roles
        <3> QED
            BY <3>4 DEF Roster!Next
    <2>2. CASE UNCHANGED <<members, managers, joined>>
        BY <1>1, <1>4, <2>2 DEF WriteMember
    <2> QED
        BY <1>4, <2>1, <2>2 DEF WriteMember
<1>5. ASSUME NEW r \in Requests, RequestStep(r), ~CreateInvitation(r), ~DeleteMember(r),
             ~WriteMember(r)
      PROVE  UNCHANGED <<roles, offers, managers>>
    BY <1>1, <1>5
    DEF RequestStep, LoadToInvite, LoadToRevoke, LoadToRemove, LoadInvitation,
        LoadToDecline, LoadToUpdate, LoadToDelete, Begin, DeleteInvitation, ReadMember,
        SaveAccepted, SaveDeclined, SaveInvitation, SaveOrganization, DeleteOrganization,
        Interrupt, tables, history
<1>6. CASE Expire \/ DeleteExpiredPending \/ MovePlates \/ UNCHANGED vars
    BY <1>1, <1>6
    DEF Expire, DeleteExpiredPending, MovePlates, vars, tables, history
<1> QED
    BY <1>2, <1>3, <1>4, <1>5, <1>6 DEF Next

\* The service implements Membership, for any number of accounts and requests:
\* roles come from offers by managers, and the owner's membership does not end.
THEOREM MembershipImplemented == Spec => ImplementsMembership
<1>1. Spec => Roster!Init /\ [][Roster!Next]_<<roles, offers, managers>>
    BY OrgTypeInit, OrgTypeStep, RosterInit, RosterStep, StepIsMembershipStep, PTL
    DEF Spec
<1> QED
    BY <1>1, PTL DEF ImplementsMembership, Roster!Spec, roles
=============================================================================
