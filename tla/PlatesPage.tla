----------------------------- MODULE PlatesPage -----------------------------
(***************************************************************************)
(* The pages on which users keep their plates: the plates tab of the       *)
(* account page (web/src/presentation/components/account/OwnedPlates.tsx   *)
(* with plates/PendingVerification.tsx) and the form that submits one      *)
(* (submit/SubmitRepositoryForm.tsx), over the hooks of usePlates.ts, for  *)
(* one user in one browser tab.                                            *)
(*                                                                         *)
(* Unlike the organizations tab, this one keeps its errors in state of its *)
(* own and never resets a hook: a dismissed request keeps the buttons of   *)
(* the next dialog disabled until it is answered.  Plates may share a      *)
(* name, and the name is what a dialog asks for.  A list that cannot be    *)
(* loaded is asked for until it can.                                       *)
(***************************************************************************)
EXTENDS QueryClient

CONSTANTS
    Plates,    \* the user's plates, before and after they are submitted
    Names,     \* names of plates
    Name,      \* the name of each plate
    Orgs,      \* organizations of the user
    Personal,  \* no organization
    None,      \* no plate, no name, no choice
    Starts     \* what the tables may say when the page is opened

VARIABLES
    server,           \* the user's plates in the tables
    page,             \* which of the two pages is mounted
    organizationId,   \* the organization chosen in the form
    confirmingPlate,  \* the plate of the removal dialog
    confirmName,      \* what was typed into it
    removeError,      \* the call whose error the removal dialog shows, 0 for none
    orgDialogPlate,   \* the row of the organization dialog, as it was listed
    selectedOrg,      \* the choices made in organization dialogs
    confirmingMove,   \* the plate and the target of the move dialog
    moveName,         \* what was typed into it
    moveError,        \* the call whose error the move dialog shows, 0 for none
    typedFor,         \* history: the plate whose dialog was typed into since it opened
    openedDuring      \* history: the call in flight when the open dialog was opened

removal == <<confirmingPlate, confirmName, removeError>>
move == <<orgDialogPlate, selectedOrg, confirmingMove, moveName, moveError>>
history == <<typedFor, openedDuring>>
vars == <<clientVars, server, page, organizationId, removal, move, history>>

Owners == Orgs \cup {Personal}
Rows == [status : {"unknown", "pending", "published", "removed"}, org : Owners]
Lists == [Plates -> Rows]

ASSUME PlatesAssumption ==
    /\ Name \in [Plates -> Names]
    /\ None \notin Plates \cup Names \cup Owners
    /\ Keys = {"plates"}
    /\ Hooks = {"submit", "remove", "move"} \cup Plates
    /\ Plates \cap {"submit", "remove", "move"} = {}
    /\ Starts \subseteq Lists
    /\ MaxCalls \in Nat

\* here: the component that sent the call is still mounted.
Calls ==
    [hook : Hooks, plate : Plates, org : Owners, here : BOOLEAN,
     status : {"sent", "applied", "succeeded", "failed", "lost"}]

Moves == [plate : Plates, target : Owners]
NoMove == [plate |-> None, target |-> None]
NoRow == [plate |-> None, org |-> None]

TypeOK ==
    /\ cache \in [Keys -> EntriesOver(Lists)]
    /\ calls \in Seq(Calls)
    /\ Len(calls) <= MaxCalls
    /\ observed \in [Hooks -> 0..Len(calls)]
    /\ server \in Lists
    /\ page \in {"plates", "submit"}
    /\ organizationId \in Owners
    /\ confirmingPlate \in Plates \cup {None}
    /\ {confirmName, moveName} \subseteq Names \cup {None}
    /\ {removeError, moveError, openedDuring} \subseteq 0..Len(calls)
    /\ orgDialogPlate \in [plate : Plates, org : Owners] \cup {NoRow}
    /\ selectedOrg \in [Plates -> Owners \cup {None}]
    /\ confirmingMove \in Moves \cup {NoMove}
    /\ typedFor \in Plates \cup {None}

\* OwnedPlates as it is mounted.
Unopened ==
    /\ confirmingPlate' = None /\ confirmName' = None /\ removeError' = 0
    /\ orgDialogPlate' = NoRow /\ selectedOrg' = [p \in Plates |-> None]
    /\ confirmingMove' = NoMove /\ moveName' = None /\ moveError' = 0
    /\ typedFor' = None /\ openedDuring' = 0

Init ==
    /\ cache = Mounted([k \in Keys |-> NoEntry], {"plates"})
    /\ calls = <<>>
    /\ observed = [h \in Hooks |-> 0]
    /\ server \in Starts
    /\ page = "plates"
    /\ organizationId = Personal
    /\ confirmingPlate = None /\ confirmName = None /\ removeError = 0
    /\ orgDialogPlate = NoRow /\ selectedOrg = [p \in Plates |-> None]
    /\ confirmingMove = NoMove /\ moveName = None /\ moveError = 0
    /\ typedFor = None /\ openedDuring = 0

--------------------------------------------------------------------------------
(* What is shown. *)

Active == IF page = "plates" THEN Keys ELSE {}

RemoveDialog == confirmingPlate # None
MoveDialog == confirmingMove # NoMove
OrganizationDialog == orgDialogPlate # NoRow
NoDialog == ~RemoveDialog /\ ~MoveDialog /\ ~OrganizationDialog

\* The list is shown once it has arrived, and later while it is loaded again.
ListedAs(p, status) ==
    /\ page = "plates" /\ NoDialog
    /\ cache["plates"].data # NoData
    /\ cache["plates"].data[p].status = status

InFlightOf(h) == IF IsPending(h) THEN observed[h] ELSE 0

\* The spinner of one plate: the hook is pending and removingId or movingId is it.
Busy(h, p) == IsPending(h) /\ calls[observed[h]].plate = p

canRemove == RemoveDialog /\ confirmName = Name[confirmingPlate]
canMove == MoveDialog /\ moveName = Name[confirmingMove.plate]

Call(h, p, o) == [hook |-> h, plate |-> p, org |-> o, here |-> TRUE, status |-> "sent"]

--------------------------------------------------------------------------------
(* Navigation: the page that is left is unmounted, its calls go on. *)

Orphaned(s) == [i \in 1..Len(s) |-> [s[i] EXCEPT !.here = FALSE]]

Show(target) ==
    /\ page' = target
    /\ organizationId' = Personal
    /\ observed' = [h \in Hooks |-> 0]
    /\ Unopened

Navigate ==
    /\ Show(IF page = "plates" THEN "submit" ELSE "plates")
    /\ calls' = Orphaned(calls)
    /\ cache' = IF page = "submit" THEN Mounted(cache, Keys) ELSE cache
    /\ UNCHANGED server

--------------------------------------------------------------------------------
(* The form that submits a plate. *)

ChooseOrganization ==
    /\ page = "submit"
    /\ \E o \in Owners \ {organizationId} : organizationId' = o
    /\ UNCHANGED <<clientVars, server, page, removal, move, history>>

handleSubmit(p) ==
    /\ page = "submit"
    /\ ~IsPending("submit")
    /\ server[p].status = "unknown"
    /\ \A i \in CallIds : calls[i].plate # p
    /\ Send(Call("submit", p, organizationId))
    /\ UNCHANGED <<cache, server, page, organizationId, removal, move, history>>

--------------------------------------------------------------------------------
(* Verification and removal. *)

handleRetryVerification(p) ==
    /\ ListedAs(p, "pending")
    /\ ~IsPending(p)
    /\ Send(Call(p, p, Personal))
    /\ UNCHANGED <<cache, server, page, organizationId, removal, move, history>>

\* A slip: the dialog opens with what was last typed.
OpenRemove_KeepsInput(p) ==
    /\ ListedAs(p, "pending") \/ ListedAs(p, "published")
    /\ ~Busy("remove", p)
    /\ confirmingPlate' = p
    /\ removeError' = 0
    /\ typedFor' = None
    /\ openedDuring' = InFlightOf("remove")
    /\ UNCHANGED <<clientVars, server, page, organizationId, confirmName, move>>

\* A slip: the dialog opens with the error of the last one.
OpenRemove_KeepsError(p) ==
    /\ ListedAs(p, "pending") \/ ListedAs(p, "published")
    /\ ~Busy("remove", p)
    /\ confirmingPlate' = p
    /\ confirmName' = None
    /\ typedFor' = None
    /\ openedDuring' = InFlightOf("remove")
    /\ UNCHANGED <<clientVars, server, page, organizationId, removeError, move>>

OpenRemove(p) ==
    /\ ListedAs(p, "pending") \/ ListedAs(p, "published")
    /\ ~Busy("remove", p)
    /\ confirmingPlate' = p
    /\ confirmName' = None
    /\ removeError' = 0
    /\ typedFor' = None
    /\ openedDuring' = InFlightOf("remove")
    /\ UNCHANGED <<clientVars, server, page, organizationId, move>>

TypePlateName ==
    /\ RemoveDialog
    /\ ~canRemove
    /\ confirmName' = Name[confirmingPlate]
    /\ typedFor' = confirmingPlate
    /\ UNCHANGED <<clientVars, server, page, organizationId, confirmingPlate, removeError,
                   move, openedDuring>>

DismissRemove ==
    /\ RemoveDialog
    /\ confirmingPlate' = None
    /\ confirmName' = None
    /\ removeError' = 0
    /\ UNCHANGED <<clientVars, server, page, organizationId, move, history>>

onConfirmRemove ==
    /\ canRemove
    /\ ~IsPending("remove")
    /\ removeError' = 0
    /\ Send(Call("remove", confirmingPlate, Personal))
    /\ UNCHANGED <<cache, server, page, organizationId, confirmingPlate, confirmName, move,
                   history>>

--------------------------------------------------------------------------------
(* Moving a plate: an organization is chosen in one dialog, confirmed in another. *)

OpenOrganization(p) ==
    /\ ListedAs(p, "published")
    /\ orgDialogPlate' = [plate |-> p, org |-> cache["plates"].data[p].org]
    /\ UNCHANGED <<clientVars, server, page, organizationId, removal, selectedOrg,
                   confirmingMove, moveName, moveError, history>>

Selected ==
    LET p == orgDialogPlate.plate IN
    IF selectedOrg[p] = None THEN orgDialogPlate.org ELSE selectedOrg[p]

SelectOrganization ==
    /\ OrganizationDialog
    /\ ~Busy("move", orgDialogPlate.plate)
    /\ \E o \in Owners \ {Selected} :
          selectedOrg' = [selectedOrg EXCEPT ![orgDialogPlate.plate] = o]
    /\ UNCHANGED <<clientVars, server, page, organizationId, removal, orgDialogPlate,
                   confirmingMove, moveName, moveError, history>>

CloseOrganization ==
    /\ OrganizationDialog
    /\ orgDialogPlate' = NoRow
    /\ UNCHANGED <<clientVars, server, page, organizationId, removal, selectedOrg,
                   confirmingMove, moveName, moveError, history>>

\* Choosing the organization the row was listed with shows a message and no dialog.
OpenMove ==
    /\ OrganizationDialog
    /\ ~Busy("move", orgDialogPlate.plate)
    /\ Selected # orgDialogPlate.org
    /\ confirmingMove' = [plate |-> orgDialogPlate.plate, target |-> Selected]
    /\ orgDialogPlate' = NoRow
    /\ moveName' = None
    /\ moveError' = 0
    /\ typedFor' = None
    /\ openedDuring' = InFlightOf("move")
    /\ UNCHANGED <<clientVars, server, page, organizationId, removal, selectedOrg>>

TypeMoveName ==
    /\ MoveDialog
    /\ ~canMove
    /\ moveName' = Name[confirmingMove.plate]
    /\ typedFor' = confirmingMove.plate
    /\ UNCHANGED <<clientVars, server, page, organizationId, removal, orgDialogPlate,
                   selectedOrg, confirmingMove, moveError, openedDuring>>

DismissMove ==
    /\ MoveDialog
    /\ confirmingMove' = NoMove
    /\ moveName' = None
    /\ moveError' = 0
    /\ UNCHANGED <<clientVars, server, page, organizationId, removal, orgDialogPlate,
                   selectedOrg, history>>

onConfirmMoveOrganization ==
    /\ canMove
    /\ ~IsPending("move")
    /\ moveError' = 0
    /\ Send(Call("move", confirmingMove.plate, confirmingMove.target))
    /\ UNCHANGED <<cache, server, page, organizationId, removal, orgDialogPlate, selectedOrg,
                   confirmingMove, moveName, history>>

--------------------------------------------------------------------------------
(* The server. *)

Effect(c) ==
    CASE c.hook = "submit" -> [status |-> "pending", org |-> c.org]
      [] c.hook = "remove" -> [server[c.plate] EXCEPT !.status = "removed"]
      [] c.hook = "move" -> [server[c.plate] EXCEPT !.org = c.org]
      [] c.hook \in Plates -> [server[c.plate] EXCEPT !.status = "published"]

Allowed(c) ==
    CASE c.hook = "submit" -> server[c.plate].status = "unknown"
      [] c.hook \in {"remove", "move"} -> server[c.plate].status \in {"pending", "published"}
      [] c.hook \in Plates -> server[c.plate].status = "pending"

Apply(i) ==
    /\ calls[i].status = "sent"
    /\ Allowed(calls[i])
    /\ server' = [server EXCEPT ![calls[i].plate] = Effect(calls[i])]
    /\ Applied(i)
    /\ UNCHANGED <<cache, observed, page, organizationId, removal, move, history>>

ServeList(k) ==
    /\ Serve(k, server)
    /\ UNCHANGED <<calls, observed, server, page, organizationId, removal, move, history>>

--------------------------------------------------------------------------------
(* What arrives at the browser. *)

DeliverList(k) ==
    /\ Deliver(k)
    /\ UNCHANGED <<calls, observed, server, page, organizationId, removal, move, history>>

\* A slip: a verified plate is left as it was listed.
Touched_NotVerified(c) == IF c.hook \in Plates THEN {} ELSE Keys

\* Every mutation of a plate invalidates every list of plates.
Touched(c) == Keys

\* After a removal or a move the handler closes the dialog that is open by then.
ContinueRemove(c) ==
    /\ confirmingPlate' = IF c.hook = "remove" /\ c.here THEN None ELSE confirmingPlate
    /\ UNCHANGED <<confirmName, removeError>>

ContinueMove(c) ==
    IF c.hook = "move" /\ c.here
    THEN /\ selectedOrg' = [selectedOrg EXCEPT ![c.plate] = c.org]
         /\ confirmingMove' = NoMove
         /\ moveName' = None
         /\ orgDialogPlate' = IF orgDialogPlate.plate = c.plate THEN NoRow ELSE orgDialogPlate
         /\ UNCHANGED moveError
    ELSE UNCHANGED move

Succeed(i) ==
    /\ calls[i].hook # "submit"
    /\ Succeeded(i)
    /\ cache' = Invalidated(cache, Touched(calls[i]), Active)
    /\ ContinueRemove(calls[i])
    /\ ContinueMove(calls[i])
    /\ UNCHANGED <<observed, server, page, organizationId, history>>

\* The form shows the plates tab when it is answered, wherever the user is by then.
SucceedSubmit(i) ==
    /\ calls[i].hook = "submit"
    /\ calls[i].status = "applied"
    /\ LET settled == [calls EXCEPT ![i].status = "succeeded"]
           fresh == Invalidated(cache, Touched(calls[i]), Active)
       IN IF page = "submit"
          THEN /\ Show("plates")
               /\ calls' = Orphaned(settled)
               /\ cache' = Mounted(fresh, Keys)
          ELSE /\ calls' = settled
               /\ cache' = fresh
               /\ UNCHANGED <<observed, page, organizationId, removal, move, history>>
    /\ UNCHANGED server

Fail(i) ==
    /\ NotSucceeded(i)
    /\ removeError' = IF calls[i].hook = "remove" /\ calls[i].here THEN i ELSE removeError
    /\ moveError' = IF calls[i].hook = "move" /\ calls[i].here THEN i ELSE moveError
    /\ UNCHANGED <<cache, observed, server, page, organizationId, confirmingPlate, confirmName,
                   orgDialogPlate, selectedOrg, confirmingMove, moveName, history>>

--------------------------------------------------------------------------------

User ==
    \/ Navigate \/ ChooseOrganization
    \/ \E p \in Plates :
          \/ handleSubmit(p) \/ handleRetryVerification(p) \/ OpenRemove(p)
          \/ OpenOrganization(p)
    \/ TypePlateName \/ DismissRemove \/ onConfirmRemove
    \/ SelectOrganization \/ CloseOrganization \/ OpenMove
    \/ TypeMoveName \/ DismissMove \/ onConfirmMoveOrganization

Next ==
    \/ User
    \/ \E i \in CallIds : Apply(i) \/ Succeed(i) \/ SucceedSubmit(i) \/ Fail(i)
    \/ \E k \in Keys : ServeList(k) \/ DeliverList(k)

Spec == Init /\ [][Next]_vars

--------------------------------------------------------------------------------
(* Properties. *)

\* A plate is removed or moved only after its name was typed into its own dialog
\* since that was opened, although another plate may have the same name and the
\* input is not emptied by an answer.
TypedInItsDialog ==
    [][\A i \in 1..Len(calls') :
          i > Len(calls) /\ calls'[i].hook \in {"remove", "move"} =>
              typedFor = calls'[i].plate]_vars

\* The removal and the move dialog show errors of their own plate, or of the one
\* call that was in flight when they were opened; never one that was there before.
ErrorIsRecent ==
    /\ RemoveDialog /\ removeError # 0 =>
           calls[removeError].plate = confirmingPlate \/ removeError = openedDuring
    /\ MoveDialog /\ moveError # 0 =>
           calls[moveError].plate = confirmingMove.plate \/ moveError = openedDuring

\* Once every change was answered, the list of plates that counts as fresh is the
\* server's, except a first load that was under way when a change was answered.
ListsAgree ==
    (\A i \in CallIds : calls[i].status \notin {"applied", "lost"}) =>
        \A k \in Keys : cache[k].valid /\ ~cache[k].late => cache[k].data = server
=============================================================================
