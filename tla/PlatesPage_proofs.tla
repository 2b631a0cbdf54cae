------------------------ MODULE PlatesPage_proofs ------------------------
(***************************************************************************)
(* What holds of the plates tab and of the form that submits a plate for   *)
(* every set of plates, organizations and names, names shared by plates    *)
(* included, and for every number of requests.                             *)
(***************************************************************************)
EXTENDS PlatesPage, Integers, TLAPS

USE PlatesAssumption

--------------------------------------------------------------------------------
(* The query client. *)

Quiet(s) == \A i \in 1..Len(s) : s[i].status \notin {"applied", "lost"}

\* Of one query: what counts as fresh, and what will, are the rows of the server.
AgreesWith(e, rows) ==
    /\ e.valid /\ ~e.late => e.data = rows
    /\ e.fetch = "answered" /\ ~e.late => e.answer = rows

LEMMA RefetchedEntry ==
    ASSUME NEW D, NEW e \in EntriesOver(D), NEW rows
    PROVE  Refetched(e) \in EntriesOver(D) /\ AgreesWith(Refetched(e), rows)
  <1>1. /\ Refetched(e) \in EntriesOver(D)
        /\ Refetched(e).fetch = "asked" /\ Refetched(e).valid = FALSE
    BY DEF Refetched, EntriesOver
  <1> QED
    BY <1>1 DEF AgreesWith

LEMMA MountedEntries ==
    ASSUME NEW D, NEW c \in [Keys -> EntriesOver(D)], NEW keys, NEW rows
    PROVE  /\ Mounted(c, keys) \in [Keys -> EntriesOver(D)]
           /\ (\A k \in Keys : AgreesWith(c[k], rows)) =>
                  \A k \in Keys : AgreesWith(Mounted(c, keys)[k], rows)
  BY RefetchedEntry DEF Mounted

\* Invalidated queries claim nothing, whether they are loaded again or not.
LEMMA InvalidatedEntries ==
    ASSUME NEW D, NEW c \in [Keys -> EntriesOver(D)], NEW active, NEW rows
    PROVE  /\ Invalidated(c, Keys, active) \in [Keys -> EntriesOver(D)]
           /\ \A k \in Keys : AgreesWith(Invalidated(c, Keys, active)[k], rows)
  <1> DEFINE i == Invalidated(c, Keys, active)
  <1>1. ASSUME NEW k \in Keys PROVE i[k] \in EntriesOver(D) /\ AgreesWith(i[k], rows)
    <2>1. CASE i[k] = Refetched(c[k])
      BY <2>1, RefetchedEntry
    <2>2. CASE i[k] = [c[k] EXCEPT !.valid = FALSE, !.late = c[k].fetch # "idle"]
      <3> DEFINE late == c[k].fetch # "idle"
      <3>1. late \in BOOLEAN /\ (late = FALSE => c[k].fetch = "idle")
        OBVIOUS
      <3>2. i[k] = [c[k] EXCEPT !.valid = FALSE, !.late = late]
        BY <2>2
      <3> HIDE DEF late, i
      <3>3. /\ i[k] \in EntriesOver(D) /\ i[k].valid = FALSE
            /\ i[k].late = late /\ i[k].fetch = c[k].fetch
        BY <3>1, <3>2 DEF EntriesOver
      <3> QED
        BY <3>1, <3>3 DEF AgreesWith
    <2> QED
      BY <2>1, <2>2 DEF Invalidated
  <1>2. i = [k \in Keys |-> i[k]]
    BY DEF Invalidated
  <1> QED
    BY <1>1, <1>2

LEMMA DeliveredEntry ==
    ASSUME NEW D, NEW e \in EntriesOver(D), NEW rows, AgreesWith(e, rows), e.fetch = "answered"
    PROVE  LET d == [e EXCEPT !.data = e.answer, !.valid = TRUE,
                              !.fetch = "idle", !.answer = NoData]
           IN  d \in EntriesOver(D) /\ AgreesWith(d, rows)
  BY DEF EntriesOver, AgreesWith

LEMMA ServedEntry ==
    ASSUME NEW D, NEW e \in EntriesOver(D), NEW rows \in D, AgreesWith(e, rows)
    PROVE  LET d == [e EXCEPT !.fetch = "answered", !.answer = rows]
           IN  d \in EntriesOver(D) /\ AgreesWith(d, rows)
  BY DEF EntriesOver, AgreesWith

--------------------------------------------------------------------------------
(* The invariant. *)

CacheOK == cache \in [Keys -> EntriesOver(Lists)]

CallsOK ==
    /\ calls \in Seq(Calls)
    /\ Len(calls) <= MaxCalls
    /\ observed \in [Hooks -> 0..Len(calls)]

FormsOK ==
    /\ page \in {"plates", "submit"}
    /\ organizationId \in Owners
    /\ confirmingPlate \in Plates \cup {None}
    /\ {confirmName, moveName} \subseteq Names \cup {None}
    /\ orgDialogPlate \in [plate : Plates, org : Owners] \cup {NoRow}
    /\ selectedOrg \in [Plates -> Owners \cup {None}]
    /\ confirmingMove \in Moves \cup {NoMove}
    /\ typedFor \in Plates \cup {None}

CountsOK == {removeError, moveError, openedDuring} \subseteq 0..Len(calls)

\* Dialogs are modal.
OneDialog ==
    /\ RemoveDialog => ~MoveDialog /\ ~OrganizationDialog
    /\ MoveDialog => ~OrganizationDialog

\* Whatever an open dialog's input holds was typed since it opened.
TypedInDialog ==
    /\ RemoveDialog /\ confirmName # None => typedFor = confirmingPlate
    /\ MoveDialog /\ moveName # None => typedFor = confirmingMove.plate

Waited(i) == calls[i].here /\ InFlight(i)

\* A page waits for one removal and one move at most, those its hooks observe.
WaitsForObserved ==
    \A i \in CallIds :
        Waited(i) /\ calls[i].hook \in {"remove", "move"} => observed[calls[i].hook] = i

\* What an open dialog may still be told of.
InTime ==
    /\ RemoveDialog => \A i \in CallIds : Waited(i) /\ calls[i].hook = "remove" =>
           calls[i].plate = confirmingPlate \/ i = openedDuring
    /\ MoveDialog => \A i \in CallIds : Waited(i) /\ calls[i].hook = "move" =>
           calls[i].plate = confirmingMove.plate \/ i = openedDuring

Agree == Quiet(calls) => \A k \in Keys : AgreesWith(cache[k], server)

ServerOK == server \in Lists

PagesInv ==
    /\ CacheOK /\ CallsOK /\ ServerOK /\ FormsOK /\ CountsOK
    /\ OneDialog /\ TypedInDialog /\ WaitsForObserved /\ InTime /\ ErrorIsRecent
    /\ Agree

DialogsInv == OneDialog /\ TypedInDialog /\ InTime /\ ErrorIsRecent

--------------------------------------------------------------------------------
(* Steps that send nothing. *)

\* The calls of s, with some of them answered and some no longer waited for.
Later(s, t) ==
    /\ Len(t) = Len(s)
    /\ \A i \in 1..Len(s) :
          /\ t[i].plate = s[i].plate /\ t[i].hook = s[i].hook
          /\ t[i].here => s[i].here
          /\ t[i].status \in {"sent", "applied"} => s[i].status \in {"sent", "applied"}

LEMMA LaterCalls ==
    ASSUME CallsOK, WaitsForObserved, calls' \in Seq(Calls), Later(calls, calls'),
           observed' = observed
    PROVE  CallsOK' /\ WaitsForObserved'
  BY DEF CallsOK, WaitsForObserved, Waited, InFlight, CallIds, Later

\* Dialogs stay as they are or close.
LEMMA DialogsShrink ==
    ASSUME PagesInv, Later(calls, calls'),
           confirmingPlate' \in {confirmingPlate, None}, confirmName' \in {confirmName, None},
           removeError' \in {removeError, 0},
           confirmingMove' \in {confirmingMove, NoMove}, moveName' \in {moveName, None},
           moveError' \in {moveError, 0},
           orgDialogPlate' \in {orgDialogPlate, NoRow},
           UNCHANGED history
    PROVE  DialogsInv' /\ CountsOK'
  <1>1. OneDialog'
    BY DEF PagesInv, OneDialog, RemoveDialog, MoveDialog, OrganizationDialog
  <1>2. TypedInDialog'
    BY DEF PagesInv, TypedInDialog, RemoveDialog, MoveDialog, history
  <1>3. InTime'
    BY DEF PagesInv, InTime, RemoveDialog, MoveDialog, history, Waited, InFlight, CallIds, Later
  <1>4. CountsOK'
    BY DEF PagesInv, CountsOK, Later, history, CallsOK
  <1>5. ErrorIsRecent'
    <2>1. /\ removeError \in 0..Len(calls) /\ moveError \in 0..Len(calls)
          /\ Len(calls) \in Nat /\ Len(calls') = Len(calls)
      BY DEF PagesInv, CountsOK, Later, CallsOK
    <2>2. RemoveDialog' /\ removeError' # 0 =>
              calls'[removeError'].plate = confirmingPlate' \/ removeError' = openedDuring'
      BY <2>1 DEF PagesInv, ErrorIsRecent, RemoveDialog, history, Later
    <2>3. MoveDialog' /\ moveError' # 0 =>
              calls'[moveError'].plate = confirmingMove'.plate \/ moveError' = openedDuring'
      BY <2>1 DEF PagesInv, ErrorIsRecent, MoveDialog, history, Later
    <2> QED
      BY <2>2, <2>3 DEF ErrorIsRecent
  <1> QED
    BY <1>1, <1>2, <1>3, <1>4, <1>5 DEF DialogsInv

LEMMA LaterItself ==
    ASSUME PagesInv, UNCHANGED <<calls, observed>>
    PROVE  Later(calls, calls') /\ CallsOK' /\ WaitsForObserved'
  BY DEF PagesInv, CallsOK, Later, WaitsForObserved, Waited, InFlight, CallIds

LEMMA SameRows ==
    ASSUME PagesInv, UNCHANGED <<cache, server>>, Quiet(calls') => Quiet(calls)
    PROVE  CacheOK' /\ ServerOK' /\ Agree'
  BY DEF PagesInv, CacheOK, ServerOK, Agree

LEMMA Assembled ==
    ASSUME CacheOK', CallsOK', ServerOK', FormsOK', CountsOK', DialogsInv',
           WaitsForObserved', Agree'
    PROVE  PagesInv'
  BY DEF PagesInv, DialogsInv

--------------------------------------------------------------------------------
(* Dialogs and inputs. *)

\* Input that closes dialogs or leaves them open.
LEMMA InputKeeps ==
    ASSUME PagesInv, UNCHANGED <<clientVars, server, history>>, FormsOK',
           confirmingPlate' \in {confirmingPlate, None}, confirmName' \in {confirmName, None},
           removeError' \in {removeError, 0},
           confirmingMove' \in {confirmingMove, NoMove}, moveName' \in {moveName, None},
           moveError' \in {moveError, 0},
           orgDialogPlate' \in {orgDialogPlate, NoRow}
    PROVE  PagesInv'
  <1>1. UNCHANGED <<calls, observed, cache, server>>
    BY DEF clientVars
  <1> QED
    BY <1>1, LaterItself, DialogsShrink, SameRows, Assembled

LEMMA ClosingKeeps ==
    PagesInv /\ (ChooseOrganization \/ DismissRemove \/ DismissMove
                   \/ SelectOrganization \/ CloseOrganization) => PagesInv'
  <1> SUFFICES ASSUME PagesInv, ChooseOrganization \/ DismissRemove \/ DismissMove
                                  \/ SelectOrganization \/ CloseOrganization
               PROVE  PagesInv'
    OBVIOUS
  <1>1. UNCHANGED <<clientVars, server, history>>
    BY DEF ChooseOrganization, DismissRemove, DismissMove, SelectOrganization,
       CloseOrganization
  <1>2. FormsOK'
    <2>1. FormsOK /\ UNCHANGED <<typedFor, openedDuring>>
      BY <1>1 DEF PagesInv, history
    <2>2. CASE ChooseOrganization
      BY <2>1, <2>2 DEF ChooseOrganization, FormsOK, removal, move
    <2>3. CASE DismissRemove
      BY <2>1, <2>3 DEF DismissRemove, FormsOK, removal, move
    <2>4. CASE DismissMove
      BY <2>1, <2>4 DEF DismissMove, FormsOK, removal, move
    <2>5. CASE SelectOrganization
      <3>1. selectedOrg' \in [Plates -> Owners \cup {None}]
        BY <2>1, <2>5 DEF SelectOrganization, FormsOK
      <3> QED
        BY <2>1, <2>5, <3>1 DEF SelectOrganization, FormsOK, removal, move
    <2>6. CASE CloseOrganization
      BY <2>1, <2>6 DEF CloseOrganization, FormsOK, removal, move
    <2> QED
      BY <2>2, <2>3, <2>4, <2>5, <2>6
  <1>3. /\ confirmingPlate' \in {confirmingPlate, None}
        /\ confirmName' \in {confirmName, None}
        /\ removeError' \in {removeError, 0}
    BY DEF ChooseOrganization, DismissRemove, DismissMove, SelectOrganization,
       CloseOrganization, removal
  <1>4. /\ confirmingMove' \in {confirmingMove, NoMove}
        /\ moveName' \in {moveName, None}
        /\ moveError' \in {moveError, 0}
        /\ orgDialogPlate' \in {orgDialogPlate, NoRow}
    BY DEF ChooseOrganization, DismissRemove, DismissMove, SelectOrganization,
       CloseOrganization, move
  <1> QED
    BY <1>1, <1>2, <1>3, <1>4, InputKeeps

LEMMA InFlightOfType ==
    ASSUME PagesInv, NEW h \in {"remove", "move"}
    PROVE  /\ InFlightOf(h) \in 0..Len(calls)
           /\ \A i \in CallIds : Waited(i) /\ calls[i].hook = h => i = InFlightOf(h)
  <1>1. observed[h] \in 0..Len(calls) /\ Len(calls) \in Nat
    BY DEF PagesInv, CallsOK
  <1>2. InFlightOf(h) \in 0..Len(calls)
    BY <1>1 DEF InFlightOf
  <1>3. ASSUME NEW i \in CallIds, Waited(i), calls[i].hook = h
        PROVE  i = InFlightOf(h)
    <2>1. observed[h] = i /\ i # 0
      BY <1>3 DEF PagesInv, WaitsForObserved, CallIds
    <2> QED
      BY <1>3, <2>1 DEF InFlightOf, IsPending, Waited
  <1> QED
    BY <1>2, <1>3

\* A dialog opens alone, empty and without an error.
LEMMA OpeningKeeps ==
    PagesInv /\ ((\E p \in Plates : OpenRemove(p)) \/ OpenMove) => PagesInv'
  <1> SUFFICES ASSUME PagesInv, (\E p \in Plates : OpenRemove(p)) \/ OpenMove
               PROVE  PagesInv'
    OBVIOUS
  <1>1. UNCHANGED <<calls, observed, cache, server>>
    BY DEF OpenRemove, OpenMove, clientVars
  <1>2. CacheOK' /\ ServerOK' /\ Agree' /\ CallsOK' /\ WaitsForObserved'
    BY <1>1, SameRows, LaterItself
  <1>3. ASSUME NEW p \in Plates, OpenRemove(p) PROVE PagesInv'
    <2>1. NoDialog
      BY <1>3 DEF OpenRemove, ListedAs
    <2>2. OneDialog' /\ TypedInDialog' /\ ErrorIsRecent'
      BY <1>3, <2>1 DEF OpenRemove, OneDialog, TypedInDialog, ErrorIsRecent, NoDialog,
         RemoveDialog, MoveDialog, OrganizationDialog, move
    <2>3. InTime'
      BY <1>1, <1>3, <2>1, InFlightOfType DEF OpenRemove, InTime, NoDialog,
         RemoveDialog, MoveDialog, move, CallIds, Waited, InFlight
    <2>4. FormsOK'
      BY <1>3 DEF OpenRemove, FormsOK, PagesInv, move
    <2>5. CountsOK'
      BY <1>1, <1>3, InFlightOfType DEF OpenRemove, CountsOK, PagesInv, move, CallsOK
    <2> QED
      BY <1>2, <2>2, <2>3, <2>4, <2>5, Assembled DEF DialogsInv
  <1>4. CASE OpenMove
    <2>0. /\ orgDialogPlate.plate \in Plates /\ Selected \in Owners
          /\ orgDialogPlate \in [plate : Plates, org : Owners]
      BY <1>4 DEF OpenMove, PagesInv, FormsOK, Selected, OrganizationDialog
    <2>1. ~RemoveDialog /\ OrganizationDialog
      BY <1>4 DEF OpenMove, PagesInv, OneDialog
    <2>2. OneDialog' /\ TypedInDialog' /\ ErrorIsRecent'
      BY <1>4, <2>1 DEF OpenMove, OneDialog, TypedInDialog, ErrorIsRecent,
         RemoveDialog, MoveDialog, OrganizationDialog, removal
    <2>3. InTime'
      BY <1>1, <1>4, <2>1, InFlightOfType DEF OpenMove, InTime,
         RemoveDialog, MoveDialog, removal, CallIds, Waited, InFlight
    <2>4. FormsOK'
      BY <1>4, <2>0 DEF OpenMove, FormsOK, PagesInv, removal, Moves
    <2>5. CountsOK'
      BY <1>1, <1>4, InFlightOfType DEF OpenMove, CountsOK, PagesInv, removal, CallsOK
    <2> QED
      BY <1>2, <2>2, <2>3, <2>4, <2>5, Assembled DEF DialogsInv
  <1> QED
    BY <1>3, <1>4

\* The organization dialog opens alone, with the organization that was listed.
LEMMA OrganizationOpens ==
    ASSUME PagesInv, NEW p \in Plates, OpenOrganization(p) PROVE PagesInv'
  <1>1. UNCHANGED <<calls, observed, cache, server>> /\ UNCHANGED <<removal, history>>
    BY DEF OpenOrganization, clientVars
  <1>2. CacheOK' /\ ServerOK' /\ Agree' /\ CallsOK' /\ WaitsForObserved'
    BY <1>1, SameRows, LaterItself
  <1>3. NoDialog
    BY DEF OpenOrganization, ListedAs
  <1>4. UNCHANGED <<confirmingPlate, confirmingMove, removeError, moveError>>
    BY <1>1 DEF OpenOrganization, removal
  <1>5. OneDialog' /\ InTime' /\ ErrorIsRecent' /\ TypedInDialog'
    BY <1>3, <1>4 DEF OneDialog, InTime, ErrorIsRecent, TypedInDialog, NoDialog, RemoveDialog,
       MoveDialog, OrganizationDialog
  <1>6. CountsOK'
    BY <1>1, <1>4 DEF PagesInv, CountsOK, history
  <1>7. orgDialogPlate' \in [plate : Plates, org : Owners]
    <2>1. cache["plates"].data \in Lists
      BY DEF PagesInv, CacheOK, EntriesOver, OpenOrganization, ListedAs
    <2>2. cache["plates"].data[p].org \in Owners
      BY <2>1 DEF Lists, Rows
    <2> QED
      BY <2>2 DEF OpenOrganization
  <1>8. FormsOK'
    BY <1>1, <1>7 DEF OpenOrganization, PagesInv, FormsOK, removal, history
  <1> QED
    BY <1>2, <1>5, <1>6, <1>8, Assembled DEF DialogsInv

\* Typing tells the name of the dialog that is open.
LEMMA TypingKeeps == PagesInv /\ (TypePlateName \/ TypeMoveName) => PagesInv'
  <1> SUFFICES ASSUME PagesInv, TypePlateName \/ TypeMoveName
               PROVE  PagesInv'
    OBVIOUS
  <1>1. UNCHANGED <<calls, observed, cache, server>>
    BY DEF TypePlateName, TypeMoveName, clientVars
  <1>2. CacheOK' /\ ServerOK' /\ Agree' /\ CallsOK' /\ WaitsForObserved'
    BY <1>1, SameRows, LaterItself
  <1>3. FormsOK /\ CountsOK
    BY DEF PagesInv
  <1>4. UNCHANGED <<confirmingPlate, confirmingMove, orgDialogPlate, removeError, moveError,
                    openedDuring>>
    BY DEF TypePlateName, TypeMoveName, removal, move
  <1>5. OneDialog' /\ InTime' /\ ErrorIsRecent' /\ CountsOK'
    BY <1>1, <1>4 DEF PagesInv, OneDialog, InTime, ErrorIsRecent, CountsOK, RemoveDialog,
       MoveDialog, OrganizationDialog, CallIds, Waited, InFlight
  <1>6. TypedInDialog'
    BY <1>4 DEF PagesInv, TypedInDialog, OneDialog, RemoveDialog, MoveDialog, TypePlateName,
       TypeMoveName
  <1>7. FormsOK'
    <2>1. CASE TypePlateName
      <3>1. confirmingPlate \in Plates /\ Name[confirmingPlate] \in Names
        BY <1>3, <2>1 DEF TypePlateName, RemoveDialog, FormsOK
      <3> QED
        BY <1>3, <2>1, <3>1 DEF TypePlateName, FormsOK, move
    <2>2. CASE TypeMoveName
      <3>1. confirmingMove.plate \in Plates /\ Name[confirmingMove.plate] \in Names
        BY <1>3, <2>2 DEF TypeMoveName, MoveDialog, FormsOK, Moves
      <3> QED
        BY <1>3, <2>2, <3>1 DEF TypeMoveName, FormsOK, removal
    <2> QED
      BY <2>1, <2>2
  <1> QED
    BY <1>2, <1>5, <1>6, <1>7, Assembled DEF DialogsInv

--------------------------------------------------------------------------------
(* Requests. *)

\* A request of a dialog is about the plate of the dialog, and is sent when no
\* other one of its hook is in flight.
LEMMA SendingKeeps ==
    ASSUME PagesInv, NEW c \in Calls, Send(c), c.status = "sent",
           UNCHANGED <<cache, server, page, organizationId, confirmingPlate, confirmName,
                       orgDialogPlate, selectedOrg, confirmingMove, moveName, history>>,
           removeError' \in {removeError, 0}, moveError' \in {moveError, 0},
           c.hook \in {"remove", "move"} => ~IsPending(c.hook),
           c.hook = "remove" => c.plate = confirmingPlate,
           c.hook = "move" => c.plate = confirmingMove.plate
    PROVE  PagesInv'
  <1>1. /\ calls \in Seq(Calls) /\ Len(calls) \in Nat
        /\ observed \in [Hooks -> 0..Len(calls)]
        /\ CountsOK
    BY DEF PagesInv, CallsOK
  <1>2. /\ calls' = Append(calls, c) /\ Len(calls) + 1 <= MaxCalls
        /\ observed' = [observed EXCEPT ![c.hook] = Len(calls) + 1]
    BY <1>1 DEF Send
  <1>3. /\ calls' \in Seq(Calls) /\ Len(calls') = Len(calls) + 1
        /\ \A i \in 1..Len(calls) : calls'[i] = calls[i]
        /\ calls'[Len(calls) + 1] = c
    BY <1>1, <1>2
  <1>4. c.hook \in Hooks
    BY DEF Calls
  <1>5. CallsOK'
    BY <1>1, <1>2, <1>3, <1>4 DEF CallsOK
  <1>6. CountsOK'
    BY <1>1, <1>3 DEF CountsOK, history
  <1>7. WaitsForObserved'
    <2> SUFFICES ASSUME NEW i \in 1..Len(calls'), Waited(i)',
                        calls'[i].hook \in {"remove", "move"}
                 PROVE  observed'[calls'[i].hook] = i
      BY DEF WaitsForObserved, CallIds
    <2>1. CASE i \in 1..Len(calls)
      <3>1. Waited(i) /\ calls[i].hook = calls'[i].hook
        BY <1>3, <2>1 DEF Waited, InFlight
      <3>2. observed[calls[i].hook] = i
        BY <2>1, <3>1 DEF PagesInv, WaitsForObserved, CallIds
      <3>3. IsPending(calls[i].hook)
        BY <2>1, <3>1, <3>2 DEF IsPending, Waited
      <3>4. c.hook # calls[i].hook
        BY <3>1, <3>3
      <3> QED
        BY <1>1, <1>2, <3>1, <3>2, <3>4
    <2>2. CASE i = Len(calls) + 1
      BY <1>1, <1>2, <1>3, <1>4, <2>2
    <2> QED
      BY <1>1, <1>3, <2>1, <2>2
  <1>8. InTime'
    <2>1. ASSUME NEW i \in 1..Len(calls'), Waited(i)', i # Len(calls) + 1
          PROVE  i \in CallIds /\ Waited(i) /\ calls'[i] = calls[i]
      BY <1>1, <1>3, <2>1 DEF CallIds, Waited, InFlight
    <2>2. ASSUME RemoveDialog', NEW i \in 1..Len(calls'), Waited(i)', calls'[i].hook = "remove"
          PROVE  calls'[i].plate = confirmingPlate' \/ i = openedDuring'
      BY <1>3, <2>1, <2>2 DEF PagesInv, InTime, RemoveDialog, history
    <2>3. ASSUME MoveDialog', NEW i \in 1..Len(calls'), Waited(i)', calls'[i].hook = "move"
          PROVE  calls'[i].plate = confirmingMove'.plate \/ i = openedDuring'
      BY <1>3, <2>1, <2>3 DEF PagesInv, InTime, MoveDialog, history
    <2> QED
      BY <2>2, <2>3 DEF InTime, CallIds
  <1>9. ErrorIsRecent'
    <2>1. removeError \in 0..Len(calls) /\ moveError \in 0..Len(calls)
      BY <1>1 DEF CountsOK
    <2>2. RemoveDialog' /\ removeError' # 0 =>
              calls'[removeError'].plate = confirmingPlate' \/ removeError' = openedDuring'
      BY <1>3, <2>1 DEF PagesInv, ErrorIsRecent, RemoveDialog, history
    <2>3. MoveDialog' /\ moveError' # 0 =>
              calls'[moveError'].plate = confirmingMove'.plate \/ moveError' = openedDuring'
      BY <1>3, <2>1 DEF PagesInv, ErrorIsRecent, MoveDialog, history
    <2> QED
      BY <2>2, <2>3 DEF ErrorIsRecent
  <1>10. FormsOK' /\ OneDialog' /\ TypedInDialog'
    BY DEF PagesInv, FormsOK, OneDialog, TypedInDialog, RemoveDialog, MoveDialog,
       OrganizationDialog, history
  <1>11. Quiet(calls') => Quiet(calls)
    BY <1>1, <1>3 DEF Quiet
  <1>12. CacheOK' /\ ServerOK' /\ Agree'
    BY <1>11, SameRows
  <1> QED
    BY <1>5, <1>6, <1>7, <1>8, <1>9, <1>10, <1>12, Assembled DEF DialogsInv

LEMMA RequestKeeps ==
    PagesInv /\ ((\E p \in Plates : handleSubmit(p) \/ handleRetryVerification(p))
                   \/ onConfirmRemove \/ onConfirmMoveOrganization) => PagesInv'
  <1> SUFFICES ASSUME PagesInv,
                      (\E p \in Plates : handleSubmit(p) \/ handleRetryVerification(p))
                         \/ onConfirmRemove \/ onConfirmMoveOrganization
               PROVE  PagesInv'
    OBVIOUS
  <1>0. FormsOK
    BY DEF PagesInv
  <1>1. ASSUME NEW p \in Plates, handleSubmit(p) PROVE PagesInv'
    <2>1. Call("submit", p, organizationId) \in Calls
      BY <1>0 DEF Call, Calls, FormsOK
    <2> QED
      BY <1>1, <2>1, SendingKeeps DEF handleSubmit, Call, removal, move
  <1>2. ASSUME NEW p \in Plates, handleRetryVerification(p) PROVE PagesInv'
    <2>1. Call(p, p, Personal) \in Calls /\ p \notin {"remove", "move"}
      BY DEF Call, Calls, Owners
    <2> QED
      BY <1>2, <2>1, SendingKeeps DEF handleRetryVerification, Call, removal, move
  <1>3. CASE onConfirmRemove
    <2>1. Call("remove", confirmingPlate, Personal) \in Calls
      BY <1>0, <1>3 DEF Call, Calls, Owners, onConfirmRemove, canRemove, RemoveDialog, FormsOK
    <2> QED
      BY <1>3, <2>1, SendingKeeps DEF onConfirmRemove, Call, move
  <1>4. CASE onConfirmMoveOrganization
    <2>1. Call("move", confirmingMove.plate, confirmingMove.target) \in Calls
      BY <1>0, <1>4 DEF Call, Calls, onConfirmMoveOrganization, canMove, MoveDialog,
         FormsOK, Moves
    <2> QED
      BY <1>4, <2>1, SendingKeeps DEF onConfirmMoveOrganization, Call, removal
  <1> QED
    BY <1>1, <1>2, <1>3, <1>4

--------------------------------------------------------------------------------
(* The server, and what arrives. *)

Statuses == {"sent", "applied", "succeeded", "failed", "lost"}

LEMMA StatusSet ==
    ASSUME PagesInv, NEW i \in CallIds, NEW s \in Statuses,
           s \in {"sent", "applied"} => calls[i].status \in {"sent", "applied"},
           NEW t, t = [calls EXCEPT ![i].status = s]
    PROVE  /\ calls[i] \in Calls
           /\ t \in Seq(Calls) /\ Later(calls, t) /\ t[i].status = s
           /\ \A j \in CallIds \ {i} : t[j] = calls[j]
           /\ s \in {"applied", "lost"} => ~Quiet(t)
           /\ calls[i].status \notin {"applied", "lost"} /\ Quiet(t) => Quiet(calls)
  <1>1. calls \in Seq(Calls) /\ calls[i] \in Calls /\ Len(calls) \in Nat
    BY DEF PagesInv, CallsOK, CallIds
  <1>2. [calls[i] EXCEPT !.status = s] \in Calls
    BY <1>1 DEF Calls, Statuses
  <1>3. t = [calls EXCEPT ![i] = [calls[i] EXCEPT !.status = s]]
    OBVIOUS
  <1>4. t \in Seq(Calls) /\ Len(t) = Len(calls)
    BY <1>1, <1>2, <1>3 DEF CallIds
  <1>5. t[i] = [calls[i] EXCEPT !.status = s] /\ \A j \in CallIds \ {i} : t[j] = calls[j]
    BY <1>1, <1>3 DEF CallIds
  <1>6. /\ t[i].status = s /\ t[i].plate = calls[i].plate
        /\ t[i].hook = calls[i].hook /\ t[i].here = calls[i].here
    BY <1>1, <1>5 DEF Calls
  <1>7. Later(calls, t)
    BY <1>4, <1>5, <1>6 DEF Later, CallIds
  <1>8. s \in {"applied", "lost"} => ~Quiet(t)
    BY <1>4, <1>6 DEF Quiet, CallIds
  <1>9. calls[i].status \notin {"applied", "lost"} /\ Quiet(t) => Quiet(calls)
    BY <1>4, <1>5 DEF Quiet, CallIds
  <1> QED
    BY <1>1, <1>4, <1>5, <1>6, <1>7, <1>8, <1>9

LEMMA OrphanedCalls ==
    ASSUME NEW s \in Seq(Calls)
    PROVE  /\ Orphaned(s) \in Seq(Calls) /\ Len(Orphaned(s)) = Len(s)
           /\ \A i \in 1..Len(s) : Orphaned(s)[i] \in Calls /\ ~Orphaned(s)[i].here
           /\ \A i \in 1..Len(s) : Orphaned(s)[i].status = s[i].status
           /\ Quiet(Orphaned(s)) => Quiet(s)
  <1> DEFINE o == Orphaned(s)
  <1>1. ASSUME NEW i \in 1..Len(s)
        PROVE  o[i] \in Calls /\ o[i].here = FALSE /\ o[i].status = s[i].status
    <2>1. s[i] \in Calls /\ o[i] = [s[i] EXCEPT !.here = FALSE]
      BY DEF Orphaned
    <2> QED
      BY <2>1 DEF Calls
  <1>2. o = [i \in 1..Len(s) |-> o[i]] /\ Len(s) \in Nat
    BY DEF Orphaned
  <1> HIDE DEF o
  <1>3. o \in Seq(Calls) /\ Len(o) = Len(s)
    <2>1. o \in [1..Len(s) -> Calls]
      BY <1>1, <1>2
    <2> QED
      BY <1>2, <2>1
  <1> QED
    BY <1>1, <1>3 DEF Quiet, o

\* A page that is shown waits for nothing and has no dialog.
LEMMA ShowKeeps ==
    ASSUME PagesInv, NEW target \in {"plates", "submit"}, Show(target),
           NEW s \in Seq(Calls), Len(s) = Len(calls), calls' = Orphaned(s)
    PROVE  CallsOK' /\ FormsOK' /\ CountsOK' /\ DialogsInv' /\ WaitsForObserved'
  <1>1. Len(calls) \in Nat /\ Len(calls) <= MaxCalls
    BY DEF PagesInv, CallsOK
  <1>2. /\ calls' \in Seq(Calls) /\ Len(calls') = Len(calls)
        /\ \A i \in 1..Len(calls') : ~calls'[i].here
    BY OrphanedCalls
  <1>3. CallsOK'
    BY <1>1, <1>2 DEF CallsOK, Show
  <1>4. FormsOK' /\ CountsOK'
    BY <1>1, <1>2 DEF FormsOK, CountsOK, Show, Unopened, Owners
  <1>5. WaitsForObserved'
    BY <1>2 DEF WaitsForObserved, Waited, CallIds
  <1>6. DialogsInv'
    BY DEF DialogsInv, OneDialog, TypedInDialog, InTime, ErrorIsRecent, RemoveDialog,
       MoveDialog, OrganizationDialog, Show, Unopened
  <1> QED
    BY <1>3, <1>4, <1>5, <1>6

LEMMA NavigateKeeps == PagesInv /\ Navigate => PagesInv'
  <1> SUFFICES ASSUME PagesInv, Navigate PROVE PagesInv'
    OBVIOUS
  <1>1. calls \in Seq(Calls) /\ CacheOK /\ ServerOK /\ Agree
    BY DEF PagesInv, CallsOK
  <1>2. /\ Show(IF page = "plates" THEN "submit" ELSE "plates")
        /\ calls' = Orphaned(calls) /\ server' = server
    BY DEF Navigate
  <1>3. CallsOK' /\ FormsOK' /\ CountsOK' /\ DialogsInv' /\ WaitsForObserved'
    BY <1>1, <1>2, ShowKeeps
  <1>4. Quiet(calls') => Quiet(calls)
    BY <1>1, <1>2, OrphanedCalls
  <1>5. CASE cache' = cache
    BY <1>1, <1>2, <1>3, <1>4, <1>5, SameRows, Assembled
  <1>6. CASE cache' = Mounted(cache, Keys)
    <2>1. CacheOK'
      BY <1>1, <1>6, MountedEntries DEF CacheOK
    <2>2. Agree'
      BY <1>1, <1>2, <1>4, <1>6, MountedEntries DEF CacheOK, Agree
    <2> QED
      BY <1>1, <1>2, <1>3, <2>1, <2>2, Assembled DEF ServerOK
  <1> QED
    BY <1>5, <1>6 DEF Navigate

LEMMA ApplyKeeps == ASSUME PagesInv, NEW i \in CallIds, Apply(i) PROVE PagesInv'
  <1>1. /\ calls' = [calls EXCEPT ![i].status = "applied"] /\ calls[i].status = "sent"
        /\ server' = [server EXCEPT ![calls[i].plate] = Effect(calls[i])]
    BY DEF Apply, Applied
  <1>2. /\ calls[i] \in Calls /\ calls' \in Seq(Calls)
        /\ Later(calls, calls') /\ ~Quiet(calls')
    BY <1>1, StatusSet DEF Statuses
  <1>3. CallsOK' /\ WaitsForObserved'
    BY <1>2, LaterCalls DEF PagesInv, Apply
  <1>4. DialogsInv' /\ CountsOK'
    BY <1>2, DialogsShrink DEF Apply, removal, move
  <1>5. FormsOK' /\ CacheOK'
    BY DEF PagesInv, FormsOK, CacheOK, Apply, removal, move, history
  <1>6. ServerOK'
    <2>1. server \in [Plates -> Rows]
      BY DEF PagesInv, ServerOK, Lists
    <2>2. server[calls[i].plate] \in Rows /\ calls[i].org \in Owners
      BY <1>2, <2>1 DEF Calls
    <2>3. Effect(calls[i]) \in Rows
      BY <1>2, <2>2 DEF Effect, Rows, Calls
    <2> QED
      BY <1>1, <2>1, <2>3 DEF ServerOK, Lists
  <1>7. Agree'
    BY <1>2 DEF Agree
  <1> QED
    BY <1>3, <1>4, <1>5, <1>6, <1>7, Assembled

LEMMA ListKeeps ==
    ASSUME PagesInv, NEW k \in Keys, ServeList(k) \/ DeliverList(k)
    PROVE  PagesInv'
  <1>1. UNCHANGED <<calls, observed, server, page, organizationId, removal, move, history>>
    BY DEF ServeList, DeliverList
  <1>2. CallsOK' /\ WaitsForObserved' /\ DialogsInv' /\ CountsOK'
    BY <1>1, LaterItself, DialogsShrink DEF removal, move
  <1>3. FormsOK' /\ ServerOK'
    BY <1>1 DEF PagesInv, FormsOK, ServerOK, removal, move, history
  <1>4. cache \in [Keys -> EntriesOver(Lists)] /\ server \in Lists
    BY DEF PagesInv, CacheOK, ServerOK
  <1>5. ASSUME NEW e \in EntriesOver(Lists), cache' = [cache EXCEPT ![k] = e],
               AgreesWith(cache[k], server) => AgreesWith(e, server)
        PROVE  CacheOK' /\ Agree'
    BY <1>1, <1>4, <1>5 DEF PagesInv, CacheOK, Agree, Quiet
  <1>6. CASE ServeList(k)
    <2> DEFINE e == [cache[k] EXCEPT !.fetch = "answered", !.answer = server]
    <2>1. cache' = [cache EXCEPT ![k] = e]
      BY <1>6 DEF ServeList, Serve
    <2>2. e \in EntriesOver(Lists)
      BY <1>4 DEF EntriesOver
    <2>3. AgreesWith(cache[k], server) => AgreesWith(e, server)
      BY <1>4, ServedEntry
    <2> HIDE DEF e
    <2> QED
      BY <1>2, <1>3, <1>5, <2>1, <2>2, <2>3, Assembled
  <1>7. CASE DeliverList(k)
    <2> DEFINE e == [cache[k] EXCEPT !.data = cache[k].answer, !.valid = TRUE,
                                     !.fetch = "idle", !.answer = NoData]
    <2>1. cache' = [cache EXCEPT ![k] = e] /\ cache[k].fetch = "answered"
      BY <1>7 DEF DeliverList, Deliver
    <2>2. e \in EntriesOver(Lists)
      BY <1>4 DEF EntriesOver
    <2>3. AgreesWith(cache[k], server) => AgreesWith(e, server)
      BY <1>4, <2>1, DeliveredEntry
    <2> HIDE DEF e
    <2> QED
      BY <1>2, <1>3, <1>5, <2>1, <2>2, <2>3, Assembled
  <1> QED
    BY <1>6, <1>7

LEMMA SucceedKeeps == ASSUME PagesInv, NEW i \in CallIds, Succeed(i) PROVE PagesInv'
  <1>1. /\ calls' = [calls EXCEPT ![i].status = "succeeded"]
        /\ cache' = Invalidated(cache, Keys, Active)
        /\ UNCHANGED <<observed, server, page, organizationId, history>>
    BY DEF Succeed, Succeeded, Touched
  <1>2. calls[i] \in Calls /\ calls' \in Seq(Calls) /\ Later(calls, calls')
    BY <1>1, StatusSet DEF Statuses
  <1>3. CallsOK' /\ WaitsForObserved'
    BY <1>1, <1>2, LaterCalls DEF PagesInv
  <1>4. /\ confirmingPlate' \in {confirmingPlate, None} /\ confirmName' = confirmName
        /\ removeError' = removeError
    BY DEF Succeed, ContinueRemove
  <1>5. /\ confirmingMove' \in {confirmingMove, NoMove} /\ moveName' \in {moveName, None}
        /\ moveError' = moveError /\ orgDialogPlate' \in {orgDialogPlate, NoRow}
    BY DEF Succeed, ContinueMove, move
  <1>6. DialogsInv' /\ CountsOK'
    BY <1>1, <1>2, <1>4, <1>5, DialogsShrink
  <1>7. FormsOK'
    <2>1. FormsOK /\ UNCHANGED typedFor
      BY <1>1 DEF PagesInv, history
    <2>2. selectedOrg' \in [Plates -> Owners \cup {None}]
      BY <1>2, <2>1 DEF Succeed, ContinueMove, move, FormsOK, Calls
    <2> QED
      BY <1>1, <1>4, <1>5, <2>1, <2>2 DEF FormsOK
  <1>8. CacheOK' /\ Agree' /\ ServerOK'
    BY <1>1, InvalidatedEntries DEF PagesInv, CacheOK, Agree, ServerOK
  <1> QED
    BY <1>3, <1>6, <1>7, <1>8, Assembled

LEMMA SucceedSubmitKeeps ==
    ASSUME PagesInv, NEW i \in CallIds, SucceedSubmit(i) PROVE PagesInv'
  <1> DEFINE settled == [calls EXCEPT ![i].status = "succeeded"]
             fresh == Invalidated(cache, Keys, Active)
  <1>1. settled \in Seq(Calls) /\ Later(calls, settled) /\ Len(settled) = Len(calls)
    <2>1. calls[i].status = "applied"
      BY DEF SucceedSubmit
    <2>2. settled = [calls EXCEPT ![i].status = "succeeded"]
      OBVIOUS
    <2> HIDE DEF settled
    <2>3. settled \in Seq(Calls) /\ Later(calls, settled)
      BY <2>1, <2>2, StatusSet DEF Statuses
    <2> QED
      BY <2>3 DEF Later
  <1>2. server' = server /\ CacheOK /\ ServerOK
    BY DEF SucceedSubmit, PagesInv
  <1>3. /\ fresh \in [Keys -> EntriesOver(Lists)]
        /\ \A k \in Keys : AgreesWith(fresh[k], server)
    BY <1>2, InvalidatedEntries DEF CacheOK
  <1>4. CASE page = "submit"
    <2>1. Show("plates") /\ calls' = Orphaned(settled) /\ cache' = Mounted(fresh, Keys)
      BY <1>4 DEF SucceedSubmit, Touched
    <2> HIDE DEF settled, fresh
    <2>2. CallsOK' /\ FormsOK' /\ CountsOK' /\ DialogsInv' /\ WaitsForObserved'
      BY <1>1, <2>1, ShowKeeps
    <2>3. CacheOK' /\ Agree' /\ ServerOK'
      BY <1>2, <1>3, <2>1, MountedEntries DEF CacheOK, Agree, ServerOK
    <2> QED
      BY <2>2, <2>3, Assembled
  <1>5. CASE page # "submit"
    <2>1. /\ calls' = settled /\ cache' = fresh
          /\ UNCHANGED <<observed, page, organizationId, removal, move, history>>
      BY <1>5 DEF SucceedSubmit, Touched
    <2> HIDE DEF settled, fresh
    <2>2. CallsOK' /\ WaitsForObserved'
      BY <1>1, <2>1, LaterCalls DEF PagesInv
    <2>3. DialogsInv' /\ CountsOK'
      BY <1>1, <2>1, DialogsShrink DEF removal, move
    <2>4. FormsOK'
      BY <2>1 DEF PagesInv, FormsOK, removal, move, history
    <2>5. CacheOK' /\ Agree' /\ ServerOK'
      BY <1>2, <1>3, <2>1 DEF CacheOK, Agree, ServerOK
    <2> QED
      BY <2>2, <2>3, <2>4, <2>5, Assembled
  <1> QED
    BY <1>4, <1>5

\* The error is of a call the page waited for: InTime says what it is about.
LEMMA FailKeeps == ASSUME PagesInv, NEW i \in CallIds, Fail(i) PROVE PagesInv'
  <1> DEFINE s == IF calls[i].status = "applied" THEN "lost" ELSE "failed"
  <1>1. /\ calls' = [calls EXCEPT ![i].status = s] /\ InFlight(i)
        /\ UNCHANGED <<cache, observed, server, page, organizationId, confirmingPlate,
                       confirmName, orgDialogPlate, selectedOrg, confirmingMove, moveName,
                       history>>
    BY DEF Fail, NotSucceeded
  <1>2. s \in {"lost", "failed"} /\ (calls[i].status = "applied" => s = "lost")
    OBVIOUS
  <1> HIDE DEF s
  <1>3. /\ calls[i] \in Calls /\ calls' \in Seq(Calls) /\ Later(calls, calls')
        /\ Quiet(calls') => Quiet(calls)
    <2>1. calls[i].status \in {"sent", "applied"}
      BY <1>1 DEF InFlight
    <2> QED
      BY <1>1, <1>2, <2>1, StatusSet DEF Statuses
  <1>4. CallsOK' /\ WaitsForObserved'
    BY <1>1, <1>3, LaterCalls DEF PagesInv
  <1>5. CacheOK' /\ ServerOK' /\ Agree'
    BY <1>1, <1>3, SameRows
  <1>6. FormsOK' /\ OneDialog' /\ TypedInDialog'
    BY <1>1 DEF PagesInv, FormsOK, OneDialog, TypedInDialog, RemoveDialog, MoveDialog,
       OrganizationDialog, history
  <1>7. InTime'
    BY <1>1, <1>3 DEF PagesInv, InTime, RemoveDialog, MoveDialog, history, Waited, InFlight,
       CallIds, Later
  <1>8. Len(calls) \in Nat /\ Len(calls') = Len(calls) /\ CountsOK /\ i \in 1..Len(calls)
    BY <1>3 DEF PagesInv, CallsOK, Later, CallIds
  <1>9. CountsOK'
    BY <1>1, <1>8 DEF CountsOK, Fail, history
  <1>10. \A j \in 1..Len(calls) : calls'[j].plate = calls[j].plate
    BY <1>3 DEF Later
  <1>11. ErrorIsRecent'
    <2>1. removeError \in 0..Len(calls) /\ moveError \in 0..Len(calls)
      BY <1>8 DEF CountsOK
    <2>2. ASSUME RemoveDialog', removeError' # 0
          PROVE  calls'[removeError'].plate = confirmingPlate' \/ removeError' = openedDuring'
      <3>1. CASE removeError' = removeError
        BY <1>1, <1>10, <2>1, <2>2, <3>1 DEF PagesInv, ErrorIsRecent, RemoveDialog, history
      <3>2. CASE removeError' = i /\ calls[i].hook = "remove" /\ calls[i].here
        BY <1>1, <1>8, <1>10, <2>2, <3>2 DEF PagesInv, InTime, RemoveDialog, history, Waited,
           CallIds
      <3> QED
        BY <3>1, <3>2 DEF Fail
    <2>3. ASSUME MoveDialog', moveError' # 0
          PROVE  calls'[moveError'].plate = confirmingMove'.plate \/ moveError' = openedDuring'
      <3>1. CASE moveError' = moveError
        BY <1>1, <1>10, <2>1, <2>3, <3>1 DEF PagesInv, ErrorIsRecent, MoveDialog, history
      <3>2. CASE moveError' = i /\ calls[i].hook = "move" /\ calls[i].here
        BY <1>1, <1>8, <1>10, <2>3, <3>2 DEF PagesInv, InTime, MoveDialog, history, Waited,
           CallIds
      <3> QED
        BY <3>1, <3>2 DEF Fail
    <2> QED
      BY <2>2, <2>3 DEF ErrorIsRecent
  <1> QED
    BY <1>4, <1>5, <1>6, <1>7, <1>9, <1>11, Assembled DEF DialogsInv

--------------------------------------------------------------------------------
(* The theorems. *)

LEMMA InitPagesInv == Init => PagesInv
  <1> SUFFICES ASSUME Init PROVE PagesInv
    OBVIOUS
  <1>1. [k \in Keys |-> NoEntry] \in [Keys -> EntriesOver(Lists)]
    BY DEF NoEntry, EntriesOver
  <1>2. \A k \in Keys : AgreesWith([j \in Keys |-> NoEntry][k], server)
    BY DEF NoEntry, AgreesWith
  <1>3. CacheOK
    BY <1>1, MountedEntries DEF CacheOK, Init
  <1>4. Agree
    BY <1>1, <1>2, MountedEntries DEF Agree, Init
  <1>5. calls = <<>> /\ Len(calls) = 0
    BY DEF Init
  <1>6. CallsOK /\ ServerOK
    BY <1>5 DEF Init, CallsOK, ServerOK
  <1>7. FormsOK /\ CountsOK
    BY <1>5 DEF Init, FormsOK, CountsOK, Owners
  <1>8. OneDialog /\ TypedInDialog /\ InTime /\ ErrorIsRecent
    BY DEF Init, OneDialog, TypedInDialog, InTime, ErrorIsRecent, RemoveDialog, MoveDialog,
       OrganizationDialog
  <1>9. WaitsForObserved
    BY <1>5 DEF WaitsForObserved, CallIds
  <1> QED
    BY <1>3, <1>4, <1>6, <1>7, <1>8, <1>9 DEF PagesInv

LEMMA StutterKeeps == PagesInv /\ UNCHANGED vars => PagesInv'
  <1> SUFFICES ASSUME PagesInv, UNCHANGED vars PROVE PagesInv'
    OBVIOUS
  <1>1. UNCHANGED <<clientVars, server, history>> /\ FormsOK'
    BY DEF vars, PagesInv, FormsOK, removal, move, history
  <1> QED
    BY <1>1, InputKeeps DEF vars, removal, move

LEMMA NextKeeps == PagesInv /\ [Next]_vars => PagesInv'
  <1> SUFFICES ASSUME PagesInv, [Next]_vars PROVE PagesInv'
    OBVIOUS
  <1>1. CASE User
    BY <1>1, NavigateKeeps, ClosingKeeps, OpeningKeeps, OrganizationOpens, TypingKeeps,
       RequestKeeps DEF User
  <1>2. CASE \E i \in CallIds : Apply(i) \/ Succeed(i) \/ SucceedSubmit(i) \/ Fail(i)
    BY <1>2, ApplyKeeps, SucceedKeeps, SucceedSubmitKeeps, FailKeeps
  <1>3. CASE \E k \in Keys : ServeList(k) \/ DeliverList(k)
    BY <1>3, ListKeeps
  <1>4. CASE UNCHANGED vars
    BY <1>4, StutterKeeps
  <1> QED
    BY <1>1, <1>2, <1>3, <1>4 DEF Next

LEMMA PagesAlways == Spec => []PagesInv
  BY InitPagesInv, NextKeeps, PTL DEF Spec

\* The list, the calls, the page and its dialogs have their types, whatever rows
\* the tables hold and in whatever order the answers come.
THEOREM PlatesPageTypes == Spec => []TypeOK
  <1>1. PagesInv => TypeOK
    BY DEF PagesInv, CacheOK, CallsOK, ServerOK, FormsOK, CountsOK, TypeOK
  <1> QED
    BY <1>1, PagesAlways, PTL

\* An error a dialog shows is of its own plate, or of the one call that was in
\* flight when it was opened, however many plates there are.
THEOREM PlatesPageErrorIsRecent == Spec => []ErrorIsRecent
  <1>1. PagesInv => ErrorIsRecent
    BY DEF PagesInv
  <1> QED
    BY <1>1, PagesAlways, PTL

\* A list that counts as fresh is the one of the tables, once every change was
\* answered.
THEOREM PlatesPageListsAgree == Spec => []ListsAgree
  <1>1. PagesInv => ListsAgree
    BY DEF PagesInv, Agree, AgreesWith, ListsAgree, Quiet, CallIds
  <1> QED
    BY <1>1, PagesAlways, PTL

\* A plate is removed or moved only after its name was typed into the dialog that
\* is open for it, although plates may share names.
THEOREM PlatesPageTypedInItsDialog == Spec => TypedInItsDialog
  <1> DEFINE Typed == \A i \in 1..Len(calls') :
                         i > Len(calls) /\ calls'[i].hook \in {"remove", "move"} =>
                             typedFor = calls'[i].plate
  <1>1. ASSUME PagesInv, [Next]_vars PROVE [Typed]_vars
    <2> SUFFICES ASSUME Next, NEW i \in 1..Len(calls'), i > Len(calls),
                        calls'[i].hook \in {"remove", "move"}
                 PROVE  typedFor = calls'[i].plate
      BY <1>1
    <2>0. calls \in Seq(Calls) /\ Len(calls) \in Nat /\ FormsOK /\ TypedInDialog
      BY <1>1 DEF PagesInv, CallsOK
    <2>1. ASSUME NEW c, calls' = Append(calls, c) PROVE calls'[i] = c
      BY <2>0, <2>1
    <2>2. ASSUME Len(calls') = Len(calls) PROVE FALSE
      BY <2>0, <2>2
    <2>3. CASE onConfirmRemove
      <3>1. calls'[i] = Call("remove", confirmingPlate, Personal)
        BY <2>1, <2>3 DEF onConfirmRemove, Send
      <3>2. confirmingPlate \in Plates /\ confirmName # None
        BY <2>0, <2>3 DEF onConfirmRemove, canRemove, RemoveDialog, FormsOK
      <3> QED
        BY <2>0, <2>3, <3>1, <3>2 DEF TypedInDialog, onConfirmRemove, canRemove, Call
    <2>4. CASE onConfirmMoveOrganization
      <3>1. calls'[i] = Call("move", confirmingMove.plate, confirmingMove.target)
        BY <2>1, <2>4 DEF onConfirmMoveOrganization, Send
      <3>2. confirmingMove.plate \in Plates /\ moveName # None
        BY <2>0, <2>4 DEF onConfirmMoveOrganization, canMove, MoveDialog, FormsOK, Moves
      <3> QED
        BY <2>0, <2>4, <3>1, <3>2 DEF TypedInDialog, onConfirmMoveOrganization, canMove, Call
    <2>5. ASSUME NEW p \in Plates, handleSubmit(p) \/ handleRetryVerification(p) PROVE FALSE
      <3>1. calls'[i].hook = "submit" \/ calls'[i].hook = p
        BY <2>1, <2>5 DEF handleSubmit, handleRetryVerification, Send, Call
      <3> QED
        BY <3>1
    <2>6. CASE /\ ~onConfirmRemove /\ ~onConfirmMoveOrganization
               /\ \A p \in Plates : ~handleSubmit(p) /\ ~handleRetryVerification(p)
      <3>1. CASE User
        <4>1. UNCHANGED calls \/ calls' = Orphaned(calls)
          BY <2>6, <3>1 DEF User, Navigate, ChooseOrganization, OpenRemove, OpenOrganization,
             TypePlateName, DismissRemove, SelectOrganization, CloseOrganization, OpenMove,
             TypeMoveName, DismissMove, clientVars
        <4> QED
          BY <2>0, <2>2, <4>1, OrphanedCalls
      <3>2. ASSUME NEW j \in CallIds,
                   Apply(j) \/ Succeed(j) \/ SucceedSubmit(j) \/ Fail(j)
            PROVE  FALSE
        <4>1. ASSUME NEW s PROVE Len([calls EXCEPT ![j].status = s]) = Len(calls)
          BY <2>0 DEF CallIds
        <4>2. CASE Apply(j) \/ Succeed(j) \/ Fail(j)
          BY <2>2, <4>1, <4>2 DEF Apply, Applied, Succeed, Succeeded, Fail, NotSucceeded
        <4>3. CASE SucceedSubmit(j)
          <5> DEFINE settled == [calls EXCEPT ![j].status = "succeeded"]
          <5>1. calls[j].status = "applied"
            BY <4>3 DEF SucceedSubmit
          <5>2. settled \in Seq(Calls) /\ Len(settled) = Len(calls)
            BY <1>1, <4>1, <5>1, StatusSet DEF Statuses
          <5>3. calls' = settled \/ calls' = Orphaned(settled)
            BY <4>3 DEF SucceedSubmit
          <5> HIDE DEF settled
          <5> QED
            BY <2>2, <5>2, <5>3, OrphanedCalls
        <4> QED
          BY <3>2, <4>2, <4>3
      <3>3. ASSUME NEW k \in Keys, ServeList(k) \/ DeliverList(k) PROVE FALSE
        BY <2>2, <3>3 DEF ServeList, DeliverList
      <3> QED
        BY <3>1, <3>2, <3>3 DEF Next
    <2> QED
      BY <2>3, <2>4, <2>5, <2>6
  <1> QED
    BY <1>1, PagesAlways, PTL DEF Spec, TypedInItsDialog
=============================================================================
