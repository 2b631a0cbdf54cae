---------------------- MODULE OrganizationsPage_proofs ----------------------
(***************************************************************************)
(* What holds of the organizations tab for every set of organizations and  *)
(* every number of requests: the lists agree with the tables once every    *)
(* change was answered, and errors and answers reach the dialog and the    *)
(* form they are about.                                                    *)
(***************************************************************************)
EXTENDS OrganizationsPage, Integers, TLAPS

USE OrganizationsAssumption

--------------------------------------------------------------------------------
(* The invariant. *)

CacheOK ==
    /\ cache = [k \in Keys |-> cache[k]]
    /\ \A k \in Keys : cache[k] \in EntriesOver(Lists(k))

CallsOK ==
    /\ calls \in Seq(Calls)
    /\ Len(calls) <= MaxCalls
    /\ observed \in [Hooks -> 0..Len(calls)]

FormsOK == {edit, remove, typed, leave, members} \subseteq Orgs \cup {None}

\* A hook observes a call of its own.
ObservesOwn == \A h \in Hooks : observed[h] # 0 => calls[observed[h]].hook = h

\* What the hook of an open dialog observes was sent from that dialog.
DialogSent ==
    /\ remove # None /\ observed["remove"] # 0 => calls[observed["remove"]].org = remove
    /\ leave # None /\ observed["leave"] # 0 => calls[observed["leave"]].org = leave

\* An update is sent from the form of its organization.
UpdatesItsForm ==
    \A i \in CallIds : calls[i].hook = "update" => calls[i].editing = calls[i].org

\* Who is invited is no member.
ServerOK ==
    /\ server \in [Orgs -> OrgRows]
    /\ \A o \in Orgs : server[o].invitesMe # "none" => server[o].exists /\ server[o].role = "none"

\* Every answer to a query of an organization was given to who managed it.
ToManagers ==
    \A o \in Orgs :
        /\ cache[o].valid => cache[o].data.role \in {"admin", "owner"}
        /\ cache[o].fetch = "answered" => cache[o].answer.role \in {"admin", "owner"}

\* No change that shows in the list of k is in the tables and unanswered.
Settled(s, k) ==
    \A i \in 1..Len(s) : s[i].status \in {"applied", "lost"} => k \notin Touched(s[i])

AgreesWith(e, rows) ==
    /\ e.valid /\ ~e.late => e.data = rows
    /\ e.fetch = "answered" /\ ~e.late => e.answer = rows

\* Stronger than ListsAgree: list by list, and of the answers under way too.
Agree == \A k \in Keys : Settled(calls, k) => AgreesWith(cache[k], Listed(k))

RequestsInv == CallsOK /\ FormsOK /\ ObservesOwn /\ DialogSent /\ UpdatesItsForm
RowsInv == CacheOK /\ ServerOK /\ ToManagers /\ Agree
OrgsInv == RequestsInv /\ RowsInv

--------------------------------------------------------------------------------
(* The query client. *)

\* Refetched queries claim nothing.
LEMMA RefetchedEntry ==
    ASSUME NEW D, NEW e \in EntriesOver(D)
    PROVE  /\ Refetched(e) \in EntriesOver(D)
           /\ Refetched(e).valid = FALSE /\ Refetched(e).fetch = "asked"
  BY DEF Refetched, EntriesOver

LEMMA InvalidatedEntry ==
    ASSUME CacheOK, NEW keys, cache' = Invalidated(cache, keys, Active), NEW k \in Keys
    PROVE  /\ cache'[k] \in EntriesOver(Lists(k))
           /\ k \notin keys => cache'[k] = cache[k]
           /\ k \in keys =>
                  /\ cache'[k].valid = FALSE /\ (cache'[k].fetch = "answered" => cache'[k].late)
                  /\ cache'[k].fetch = "answered" =>
                         cache[k].fetch = "answered" /\ cache'[k].answer = cache[k].answer
  <1> DEFINE D == Lists(k)
             old == cache[k]
             new == cache'[k]
  <1>1. old \in EntriesOver(D)
    BY DEF CacheOK
  <1>2. new = IF k \notin keys THEN old
              ELSE IF k \in Active /\ (old.fetch = "idle" \/ old.data # NoData)
              THEN Refetched(old)
              ELSE [old EXCEPT !.valid = FALSE, !.late = old.fetch # "idle"]
    BY DEF Invalidated
  <1> HIDE DEF D, old, new
  <1>3. CASE k \notin keys
    BY <1>1, <1>2, <1>3 DEF D, old, new
  <1>4. CASE k \in keys /\ new = Refetched(old)
    <2>1. new \in EntriesOver(D) /\ new.valid = FALSE /\ new.fetch = "asked"
      BY <1>1, <1>4, RefetchedEntry
    <2> QED
      BY <1>4, <2>1 DEF D, new
  <1>5. CASE k \in keys /\ new = [old EXCEPT !.valid = FALSE, !.late = old.fetch # "idle"]
    <2> DEFINE late == old.fetch # "idle"
    <2>1. late \in BOOLEAN /\ (late = FALSE => old.fetch = "idle")
      OBVIOUS
    <2>2. new = [old EXCEPT !.valid = FALSE, !.late = late]
      BY <1>5
    <2> HIDE DEF late
    <2>3. /\ new \in EntriesOver(D) /\ new.valid = FALSE
          /\ new.late = late /\ new.fetch = old.fetch /\ new.answer = old.answer
      BY <1>1, <2>1, <2>2 DEF EntriesOver
    <2>4. new.fetch = "answered" => new.late
      BY <2>1, <2>3
    <2> QED
      BY <1>5, <2>3, <2>4 DEF D, old, new
  <1> QED
    BY <1>2, <1>3, <1>4, <1>5

\* What a list says has the type of the list.
LEMMA ListedType == ASSUME ServerOK, NEW k \in Keys PROVE Listed(k) \in Lists(k)
  <1>1. \A o \in Orgs : server[o] \in OrgRows
    BY DEF ServerOK
  <1>2. CASE k = "me"
    BY <1>1, <1>2 DEF Listed, Lists, OrgRows
  <1>3. CASE k = "invitations"
    BY <1>1, <1>3 DEF Listed, Lists, OrgRows
  <1>4. CASE k \in Orgs
    BY <1>1, <1>4 DEF Listed, Lists, OrgRows
  <1> QED
    BY <1>2, <1>3, <1>4

--------------------------------------------------------------------------------
(* The rows and the lists. *)

LEMMA SameRows ==
    ASSUME RowsInv, UNCHANGED <<cache, server>>,
           \A k \in Keys : Settled(calls', k) => Settled(calls, k)
    PROVE  RowsInv'
  BY DEF RowsInv, CacheOK, ServerOK, ToManagers, Agree, Listed

\* The list of one key changes, and claims no more than it did.
LEMMA OneList ==
    ASSUME RowsInv, UNCHANGED <<calls, server>>, NEW k \in Keys, NEW e \in EntriesOver(Lists(k)),
           cache' = [cache EXCEPT ![k] = e],
           AgreesWith(cache[k], Listed(k)) => AgreesWith(e, Listed(k)),
           k \in Orgs => /\ e.valid => e.data.role \in {"admin", "owner"}
                         /\ e.fetch = "answered" => e.answer.role \in {"admin", "owner"}
    PROVE  RowsInv'
  <1>1. cache' = [j \in Keys |-> IF j = k THEN e ELSE cache[j]]
    BY DEF RowsInv, CacheOK
  <1>2. \A j \in Keys : cache'[j] = IF j = k THEN e ELSE cache[j]
    BY <1>1
  <1>3. CacheOK'
    BY <1>1, <1>2 DEF RowsInv, CacheOK
  <1>4. ToManagers'
    BY <1>2 DEF RowsInv, ToManagers
  <1>5. \A j \in Keys : Listed(j)' = Listed(j)
    BY DEF Listed
  <1>6. Agree'
    BY <1>2, <1>5 DEF RowsInv, Agree
  <1> QED
    BY <1>3, <1>4, <1>6 DEF RowsInv, ServerOK

--------------------------------------------------------------------------------
(* The calls. *)

Statuses == {"sent", "applied", "succeeded", "failed", "lost"}

\* The calls of s, some of them answered.
Later(s, t) ==
    /\ Len(t) = Len(s)
    /\ \A i \in 1..Len(s) :
          /\ t[i].hook = s[i].hook /\ t[i].org = s[i].org
          /\ t[i].editing = s[i].editing /\ t[i].own = s[i].own

LEMMA StatusSet ==
    ASSUME CallsOK, NEW i \in CallIds, NEW s \in Statuses,
           calls' = [calls EXCEPT ![i].status = s]
    PROVE  /\ calls[i] \in Calls
           /\ calls' \in Seq(Calls) /\ Later(calls, calls') /\ calls'[i].status = s
           /\ \A j \in CallIds \ {i} : calls'[j] = calls[j]
           /\ \A j \in CallIds : Touched(calls'[j]) = Touched(calls[j])
           /\ Len(calls) \in Nat
  <1>1. calls \in Seq(Calls) /\ calls[i] \in Calls /\ Len(calls) \in Nat
    BY DEF CallsOK, CallIds
  <1>2. [calls[i] EXCEPT !.status = s] \in Calls
    BY <1>1 DEF Calls, Statuses
  <1>3. calls' = [calls EXCEPT ![i] = [calls[i] EXCEPT !.status = s]]
    OBVIOUS
  <1>4. calls' \in Seq(Calls) /\ Len(calls') = Len(calls)
    BY <1>1, <1>2, <1>3 DEF CallIds
  <1>5. /\ calls'[i] = [calls[i] EXCEPT !.status = s]
        /\ \A j \in CallIds \ {i} : calls'[j] = calls[j]
    BY <1>1, <1>3 DEF CallIds
  <1>6. /\ calls'[i].status = s /\ calls'[i].hook = calls[i].hook
        /\ calls'[i].org = calls[i].org /\ calls'[i].editing = calls[i].editing
        /\ calls'[i].own = calls[i].own
    BY <1>1, <1>5 DEF Calls
  <1>7. Later(calls, calls')
    BY <1>4, <1>5, <1>6 DEF Later, CallIds
  <1>8. \A j \in CallIds : Touched(calls'[j]) = Touched(calls[j])
    BY <1>5, <1>6 DEF Touched
  <1> QED
    BY <1>1, <1>4, <1>5, <1>6, <1>7, <1>8

\* Answers change what is open only by closing it.
LEMMA AnswersKeep ==
    ASSUME RequestsInv, calls' \in Seq(Calls), Later(calls, calls'), observed' = observed,
           remove' \in {remove, None}, leave' \in {leave, None}, edit' \in {edit, None},
           typed' \in {typed, None}, members' = members
    PROVE  RequestsInv'
  <1>1. /\ Len(calls) \in Nat /\ Len(calls') = Len(calls)
        /\ observed \in [Hooks -> 0..Len(calls)]
    BY DEF RequestsInv, CallsOK, Later
  <1>2. CallsOK' /\ FormsOK'
    BY <1>1 DEF RequestsInv, CallsOK, FormsOK
  <1>3. \A h \in Hooks : observed[h] # 0 => observed[h] \in 1..Len(calls)
    BY <1>1
  <1>4. ObservesOwn'
    BY <1>3 DEF RequestsInv, ObservesOwn, Later
  <1>5. DialogSent'
    BY <1>3 DEF RequestsInv, DialogSent, Later
  <1>6. UpdatesItsForm'
    BY <1>1 DEF RequestsInv, UpdatesItsForm, Later, CallIds
  <1> QED
    BY <1>2, <1>4, <1>5, <1>6 DEF RequestsInv

\* Input opens a dialog whose hook observes nothing, or closes what is open.
LEMMA InputKeeps ==
    ASSUME OrgsInv, UNCHANGED <<cache, calls, server>>, FormsOK',
           observed' = observed \/ \E h \in {"remove", "leave"} : Forget(h),
           remove' \in {remove, None} \/ observed'["remove"] = 0,
           leave' \in {leave, None} \/ observed'["leave"] = 0
    PROVE  OrgsInv'
  <1>1. /\ Len(calls) \in Nat
        /\ observed \in [Hooks -> 0..Len(calls)]
    BY DEF OrgsInv, RequestsInv, CallsOK
  <1>2. observed' \in [Hooks -> 0..Len(calls)] /\ \A h \in Hooks : observed'[h] \in {observed[h], 0}
    BY <1>1 DEF Forget
  <1>3. CallsOK' /\ ObservesOwn' /\ UpdatesItsForm'
    <2>1. CallsOK'
      BY <1>2 DEF OrgsInv, RequestsInv, CallsOK
    <2>2. ASSUME NEW h \in Hooks, observed'[h] # 0 PROVE calls'[observed'[h]].hook = h
      <3>1. observed'[h] = observed[h] /\ calls' = calls
        BY <1>2, <2>2
      <3> QED
        BY <2>2, <3>1 DEF OrgsInv, RequestsInv, ObservesOwn
    <2>3. ObservesOwn'
      BY <2>2 DEF ObservesOwn
    <2>4. UpdatesItsForm'
      BY DEF OrgsInv, RequestsInv, UpdatesItsForm, CallIds
    <2> QED
      BY <2>1, <2>3, <2>4
  <1>4. DialogSent'
    BY <1>2 DEF OrgsInv, RequestsInv, DialogSent
  <1>5. RowsInv'
    BY SameRows DEF OrgsInv
  <1> QED
    BY <1>3, <1>4, <1>5 DEF OrgsInv, RequestsInv

LEMMA FormKeeps ==
    OrgsInv /\ ((\E o \in Orgs : startEditing(o) \/ cancelEditing(o) \/ OpenRemove(o)
                                     \/ OpenLeave(o))
                  \/ TypeOrgName \/ DismissRemove \/ DismissLeave \/ CloseMembers) => OrgsInv'
  <1> SUFFICES ASSUME OrgsInv,
                      (\E o \in Orgs : startEditing(o) \/ cancelEditing(o) \/ OpenRemove(o)
                                          \/ OpenLeave(o))
                         \/ TypeOrgName \/ DismissRemove \/ DismissLeave \/ CloseMembers
               PROVE  OrgsInv'
    OBVIOUS
  <1>0. FormsOK /\ observed \in [Hooks -> 0..Len(calls)]
    BY DEF OrgsInv, RequestsInv, CallsOK
  <1>1. UNCHANGED <<cache, calls, server>>
    BY DEF startEditing, cancelEditing, OpenRemove, OpenLeave, TypeOrgName, DismissRemove,
       DismissLeave, CloseMembers, clientVars
  <1>2. FormsOK'
    BY <1>0 DEF FormsOK, startEditing, cancelEditing, OpenRemove, OpenLeave, TypeOrgName,
       DismissRemove, DismissLeave, CloseMembers
  <1>3. observed' = observed \/ \E h \in {"remove", "leave"} : Forget(h)
    BY DEF startEditing, cancelEditing, OpenRemove, OpenLeave, TypeOrgName, DismissRemove,
       DismissLeave, CloseMembers, clientVars
  <1>4. remove' \in {remove, None} \/ observed'["remove"] = 0
    BY <1>0 DEF startEditing, cancelEditing, OpenRemove, OpenLeave, TypeOrgName, DismissRemove,
       DismissLeave, CloseMembers, Forget
  <1>5. leave' \in {leave, None} \/ observed'["leave"] = 0
    BY <1>0 DEF startEditing, cancelEditing, OpenRemove, OpenLeave, TypeOrgName, DismissRemove,
       DismissLeave, CloseMembers, Forget
  <1> QED
    BY <1>1, <1>2, <1>3, <1>4, <1>5, InputKeeps

\* The modal loads the lists of its organization unless they are fresh.
LEMMA OpenMembersKeeps == ASSUME OrgsInv, NEW o \in Orgs, OpenMembers(o) PROVE OrgsInv'
  <1>1. UNCHANGED <<calls, observed, server, edit, remove, typed, leave>>
    BY DEF OpenMembers
  <1>2. RequestsInv'
    BY <1>1 DEF OpenMembers, OrgsInv, RequestsInv, CallsOK, FormsOK, ObservesOwn, DialogSent,
       UpdatesItsForm, CallIds
  <1>3. cache' = Mounted(cache, {o}) /\ o \in Keys
    BY DEF OpenMembers
  <1>4. RowsInv /\ cache = [k \in Keys |-> cache[k]] /\ cache[o] \in EntriesOver(Lists(o))
    BY <1>3 DEF OrgsInv, RowsInv, CacheOK
  <1>5. CASE cache' = cache
    BY <1>1, <1>2, <1>4, <1>5, SameRows DEF OrgsInv
  <1>6. CASE cache' = [cache EXCEPT ![o] = Refetched(cache[o])]
    <2>1. /\ Refetched(cache[o]) \in EntriesOver(Lists(o))
          /\ Refetched(cache[o]).valid = FALSE /\ Refetched(cache[o]).fetch = "asked"
      BY <1>4, RefetchedEntry
    <2>2. AgreesWith(Refetched(cache[o]), Listed(o))
      BY <2>1 DEF AgreesWith
    <2> QED
      BY <1>1, <1>2, <1>3, <1>4, <1>6, <2>1, <2>2, OneList DEF OrgsInv
  <1>7. cache' = cache \/ cache' = [cache EXCEPT ![o] = Refetched(cache[o])]
    <2>1. CASE ~cache[o].valid /\ cache[o].fetch = "idle"
      <3>1. cache' = [k \in Keys |-> IF k = o THEN Refetched(cache[k]) ELSE cache[k]]
        BY <1>3, <2>1 DEF Mounted
      <3> QED
        BY <1>4, <3>1
    <2>2. CASE ~(~cache[o].valid /\ cache[o].fetch = "idle")
      <3>1. cache' = [k \in Keys |-> cache[k]]
        BY <1>3, <2>2 DEF Mounted
      <3> QED
        BY <1>4, <3>1
    <2> QED
      BY <2>1, <2>2
  <1> QED
    BY <1>5, <1>6, <1>7

--------------------------------------------------------------------------------
(* Requests. *)

LEMMA SendingKeeps ==
    ASSUME OrgsInv, NEW c \in Calls, Send(c), c.status = "sent",
           UNCHANGED <<cache, server, forms>>,
           c.hook = "remove" => c.org = remove, c.hook = "leave" => c.org = leave,
           c.hook = "update" => c.editing = c.org
    PROVE  OrgsInv'
  <1>1. /\ calls \in Seq(Calls) /\ Len(calls) \in Nat
        /\ observed \in [Hooks -> 0..Len(calls)] /\ RequestsInv
    BY DEF OrgsInv, RequestsInv, CallsOK
  <1>2. /\ calls' = Append(calls, c) /\ Len(calls) + 1 <= MaxCalls
        /\ observed' = [observed EXCEPT ![c.hook] = Len(calls) + 1]
    BY <1>1 DEF Send
  <1>3. /\ calls' \in Seq(Calls) /\ Len(calls') = Len(calls) + 1
        /\ \A i \in 1..Len(calls) : calls'[i] = calls[i]
        /\ calls'[Len(calls) + 1] = c
    BY <1>1, <1>2
  <1>4. c.hook \in Hooks
    BY DEF Calls
  <1>5. CallsOK' /\ FormsOK'
    BY <1>1, <1>2, <1>3, <1>4 DEF CallsOK, FormsOK, forms, RequestsInv
  <1>6. \A h \in Hooks : IF h = c.hook THEN observed'[h] = Len(calls) + 1
                         ELSE observed'[h] = observed[h] /\ observed[h] \in 0..Len(calls)
    BY <1>1, <1>2, <1>4
  <1>7. ASSUME NEW h \in Hooks, observed'[h] # 0
        PROVE  \/ h = c.hook /\ calls'[observed'[h]] = c
               \/ /\ observed'[h] = observed[h] /\ observed[h] # 0
                  /\ calls'[observed'[h]] = calls[observed[h]]
    <2>1. CASE h = c.hook
      BY <1>3, <1>6, <2>1
    <2>2. CASE h # c.hook
      <3>1. observed'[h] = observed[h] /\ observed[h] \in 1..Len(calls)
        BY <1>1, <1>6, <1>7, <2>2
      <3> QED
        BY <1>1, <1>3, <3>1
    <2> QED
      BY <2>1, <2>2
  <1>8. ObservesOwn' /\ DialogSent'
    <2>1. ASSUME NEW h \in Hooks, observed'[h] # 0 PROVE calls'[observed'[h]].hook = h
      <3>1. observed[h] # 0 => calls[observed[h]].hook = h
        BY <1>1 DEF RequestsInv, ObservesOwn
      <3> QED
        BY <1>7, <2>1, <3>1
    <2>2. ObservesOwn'
      BY <2>1 DEF ObservesOwn
    <2>3. ASSUME remove' # None, observed'["remove"] # 0
          PROVE  calls'[observed'["remove"]].org = remove'
      BY <1>1, <1>7, <2>3 DEF RequestsInv, DialogSent, forms
    <2>4. ASSUME leave' # None, observed'["leave"] # 0
          PROVE  calls'[observed'["leave"]].org = leave'
      BY <1>1, <1>7, <2>4 DEF RequestsInv, DialogSent, forms
    <2> QED
      BY <2>2, <2>3, <2>4 DEF DialogSent
  <1>9. UpdatesItsForm'
    <2> SUFFICES ASSUME NEW i \in 1..Len(calls'), calls'[i].hook = "update"
                 PROVE  calls'[i].editing = calls'[i].org
      BY DEF UpdatesItsForm, CallIds
    <2>1. CASE i \in 1..Len(calls)
      BY <1>1, <1>3, <2>1 DEF RequestsInv, UpdatesItsForm, CallIds
    <2>2. CASE i = Len(calls) + 1
      BY <1>3, <2>2
    <2> QED
      BY <1>1, <1>3, <2>1, <2>2
  <1>10. \A k \in Keys : Settled(calls', k) => Settled(calls, k)
    BY <1>1, <1>3 DEF Settled
  <1>11. RowsInv'
    BY <1>10, SameRows DEF OrgsInv
  <1> QED
    BY <1>5, <1>8, <1>9, <1>11 DEF OrgsInv, RequestsInv

LEMMA CallType ==
    ASSUME FormsOK, NEW h \in Hooks, NEW o \in Orgs
    PROVE  /\ Call(h, o) \in Calls
           /\ [Call(h, o) EXCEPT !.own = TRUE] \in Calls
           /\ [Call(h, o) EXCEPT !.own = TRUE].hook = h
           /\ [Call(h, o) EXCEPT !.own = TRUE].status = "sent"
  BY DEF Call, Calls, FormsOK

LEMMA RequestKeeps ==
    OrgsInv /\ ((\E o \in Orgs : handleCreate(o) \/ handleUpdate(o) \/ AnswerInvitation(o))
                  \/ onConfirmRemoveOrganization \/ onConfirmLeaveOrganization \/ onInvite
                  \/ RemoveMember \/ Revoke) => OrgsInv'
  <1> SUFFICES ASSUME OrgsInv,
                      (\E o \in Orgs : handleCreate(o) \/ handleUpdate(o) \/ AnswerInvitation(o))
                         \/ onConfirmRemoveOrganization \/ onConfirmLeaveOrganization
                         \/ onInvite \/ RemoveMember \/ Revoke
               PROVE  OrgsInv'
    OBVIOUS
  <1>0. FormsOK
    BY DEF OrgsInv, RequestsInv
  <1>1. ASSUME NEW h \in Hooks, NEW o \in Orgs, Send(Call(h, o)),
               UNCHANGED <<cache, server, forms>>,
               h = "remove" => o = remove, h = "leave" => o = leave, h = "update" => edit = o
        PROVE  OrgsInv'
    <2> DEFINE c == Call(h, o)
    <2>1. c.hook = h /\ c.org = o /\ c.status = "sent" /\ c.editing = edit
      BY DEF Call
    <2>2. c \in Calls /\ Send(c)
      BY <1>0, <1>1, CallType
    <2> HIDE DEF c
    <2> QED
      BY <1>1, <2>1, <2>2, SendingKeeps
  <1>2. ASSUME NEW o \in Orgs, handleCreate(o) \/ handleUpdate(o) \/ AnswerInvitation(o)
        PROVE  OrgsInv'
    <2>1. CASE handleCreate(o)
      BY <1>1, <2>1 DEF handleCreate
    <2>2. CASE handleUpdate(o)
      BY <1>1, <2>2 DEF handleUpdate, EditFormOf
    <2>3. CASE AnswerInvitation(o)
      BY <1>1, <2>3 DEF AnswerInvitation
    <2> QED
      BY <1>2, <2>1, <2>2, <2>3
  <1>3. CASE onConfirmRemoveOrganization
    BY <1>0, <1>1, <1>3 DEF onConfirmRemoveOrganization, canRemoveOrganization, FormsOK
  <1>4. CASE onConfirmLeaveOrganization
    BY <1>0, <1>1, <1>4 DEF onConfirmLeaveOrganization, FormsOK
  <1>5. CASE onInvite
    BY <1>0, <1>1, <1>5 DEF onInvite, FormsOK
  <1>6. CASE RemoveMember
    <2>1. members \in Orgs /\ UNCHANGED <<cache, server, forms>>
      BY <1>0, <1>6 DEF RemoveMember, FormsOK
    <2>2. CASE Send(Call("removeMember", members))
      BY <1>1, <2>1, <2>2
    <2>3. CASE Send([Call("removeMember", members) EXCEPT !.own = TRUE])
      <3> DEFINE c == [Call("removeMember", members) EXCEPT !.own = TRUE]
      <3>1. c \in Calls /\ c.hook = "removeMember" /\ c.status = "sent"
        BY <1>0, <2>1, CallType
      <3>2. Send(c)
        BY <2>3
      <3> HIDE DEF c
      <3> QED
        BY <2>1, <3>1, <3>2, SendingKeeps
    <2> QED
      BY <1>6, <2>2, <2>3 DEF RemoveMember
  <1>7. CASE Revoke
    BY <1>0, <1>1, <1>7 DEF Revoke, FormsOK
  <1> QED
    BY <1>2, <1>3, <1>4, <1>5, <1>6, <1>7

--------------------------------------------------------------------------------
(* The server, and what arrives. *)

\* A change shows in no list that its answer does not invalidate, except that who
\* accepts an invitation changes the list of an organization nobody was shown.
LEMMA Untouched ==
    ASSUME ServerOK, NEW c \in Calls, Allowed(c),
           server' = [server EXCEPT ![c.org] = Effect(c)],
           NEW k \in Keys, k \notin Touched(c)
    PROVE  \/ Listed(k)' = Listed(k)
           \/ k \in Orgs /\ Listed(k).role = "none"
  <1>1. /\ c.org \in Orgs /\ c.hook \in Hooks /\ server \in [Orgs -> OrgRows]
        /\ \A o \in Orgs : server[o] \in OrgRows
    BY DEF Calls, ServerOK
  <1>2. server'[c.org] = Effect(c) /\ \A o \in Orgs \ {c.org} : server'[o] = server[o]
    BY <1>1
  <1>3. c.hook \in {"removeMember", "revoke", "accept", "decline"}
    BY <1>1 DEF Touched
  <1>4. CASE k \in Orgs
    <2>1. k # "me" /\ k # "invitations"
      BY <1>4
    <2>2. CASE k # c.org
      BY <1>2, <1>4, <2>1, <2>2 DEF Listed
    <2>3. CASE k = c.org /\ c.hook = "decline"
      BY <1>1, <1>2, <1>4, <2>1, <2>3 DEF Listed, Effect, OrgRows
    <2>4. CASE k = c.org /\ c.hook = "accept"
      <3>1. server[k].role = "none"
        BY <1>4, <2>4 DEF ServerOK, Allowed
      <3> QED
        BY <1>4, <2>1, <3>1 DEF Listed
    <2>5. CASE k = c.org /\ c.hook \in {"removeMember", "revoke"}
      BY <2>5 DEF Touched
    <2> QED
      BY <1>3, <2>2, <2>3, <2>4, <2>5
  <1>5. CASE k = "me"
    <2>1. c.hook \in {"revoke", "decline"}
      BY <1>3, <1>5 DEF Touched
    <2>2. \A o \in Orgs : server'[o].role = server[o].role /\ server'[o].renamed = server[o].renamed
      <3>1. server[c.org] \in OrgRows
        BY <1>1
      <3>2. Effect(c).role = server[c.org].role /\ Effect(c).renamed = server[c.org].renamed
        BY <2>1, <3>1 DEF Effect, OrgRows
      <3> QED
        BY <1>2, <3>2
    <2> QED
      BY <1>5, <2>2 DEF Listed
  <1>6. CASE k = "invitations"
    <2>1. c.hook \in {"removeMember", "revoke"}
      BY <1>3, <1>6 DEF Touched
    <2>2. \A o \in Orgs : server'[o].invitesMe = server[o].invitesMe
      BY <1>1, <1>2, <2>1 DEF Effect, OrgRows
    <2> QED
      BY <1>6, <2>2 DEF Listed
  <1> QED
    BY <1>4, <1>5, <1>6

LEMMA EffectRows ==
    ASSUME ServerOK, NEW c \in Calls, Allowed(c),
           server' = [server EXCEPT ![c.org] = Effect(c)]
    PROVE  ServerOK'
  <1>1. /\ c.org \in Orgs /\ c.hook \in Hooks /\ server \in [Orgs -> OrgRows]
        /\ server[c.org] \in OrgRows
        /\ server[c.org].invitesMe # "none" =>
               server[c.org].exists /\ server[c.org].role = "none"
    BY DEF Calls, ServerOK
  <1> DEFINE row == Effect(c)
  <1>2. row \in OrgRows /\ (row.invitesMe # "none" => row.exists /\ row.role = "none")
    <2>1. CASE c.hook \in {"create", "update", "remove"}
      BY <1>1, <2>1 DEF Effect, OrgRows, Roles, NoOrgRow, Allowed
    <2>2. CASE c.hook \in {"leave", "invite", "removeMember"}
      BY <1>1, <2>2 DEF Effect, OrgRows, Roles, Allowed, Manages
    <2>3. CASE c.hook \in {"revoke", "accept", "decline"}
      BY <1>1, <2>3 DEF Effect, OrgRows, Roles, Allowed, Manages
    <2> QED
      BY <1>1, <2>1, <2>2, <2>3
  <1>3. server' = [server EXCEPT ![c.org] = row]
    OBVIOUS
  <1> HIDE DEF row
  <1> QED
    BY <1>1, <1>2, <1>3 DEF ServerOK

LEMMA ApplyKeeps == ASSUME OrgsInv, NEW i \in CallIds, Apply(i) PROVE OrgsInv'
  <1>0. CallsOK /\ ServerOK
    BY DEF OrgsInv, RequestsInv, RowsInv
  <1>1. /\ calls' = [calls EXCEPT ![i].status = "applied"] /\ calls[i].status = "sent"
        /\ server' = [server EXCEPT ![calls[i].org] = Effect(calls[i])] /\ Allowed(calls[i])
        /\ UNCHANGED <<cache, observed, forms>>
    BY DEF Apply, Applied
  <1>2. /\ calls[i] \in Calls /\ calls' \in Seq(Calls) /\ Later(calls, calls')
        /\ calls'[i].status = "applied"
        /\ \A j \in CallIds \ {i} : calls'[j] = calls[j]
        /\ \A j \in CallIds : Touched(calls'[j]) = Touched(calls[j])
        /\ Len(calls) \in Nat
    BY <1>0, <1>1, StatusSet DEF Statuses
  <1>3. RequestsInv'
    BY <1>1, <1>2, AnswersKeep DEF OrgsInv, forms
  <1>4. ServerOK'
    BY <1>0, <1>1, <1>2, EffectRows
  <1>5. CacheOK' /\ ToManagers'
    BY <1>1 DEF OrgsInv, RowsInv, CacheOK, ToManagers
  <1>6. Agree'
    <2> SUFFICES ASSUME NEW k \in Keys, Settled(calls', k)
                 PROVE  AgreesWith(cache[k], Listed(k)')
      BY <1>1 DEF Agree, AgreesWith
    <2>1. k \notin Touched(calls[i]) /\ Settled(calls, k)
      BY <1>1, <1>2 DEF Settled, Later, CallIds
    <2>2. AgreesWith(cache[k], Listed(k))
      BY <2>1 DEF OrgsInv, RowsInv, Agree
    <2>3. CASE Listed(k)' = Listed(k)
      BY <2>2, <2>3
    <2>4. CASE k \in Orgs /\ Listed(k).role = "none"
      <3>1. /\ cache[k].valid => cache[k].data.role \in {"admin", "owner"}
            /\ cache[k].fetch = "answered" => cache[k].answer.role \in {"admin", "owner"}
        BY <2>4 DEF OrgsInv, RowsInv, ToManagers
      <3> QED
        BY <2>2, <2>4, <3>1 DEF AgreesWith
    <2> QED
      BY <1>0, <1>1, <1>2, <2>1, <2>3, <2>4, Untouched
  <1> QED
    BY <1>3, <1>4, <1>5, <1>6 DEF OrgsInv, RowsInv

\* The lists a change shows in claim nothing once it is answered.
LEMMA SucceedKeeps == ASSUME OrgsInv, NEW i \in CallIds, Succeed(i) PROVE OrgsInv'
  <1>0. CallsOK /\ RowsInv
    BY DEF OrgsInv, RequestsInv
  <1>1. /\ calls' = [calls EXCEPT ![i].status = "succeeded"]
        /\ cache' = Invalidated(cache, Touched(calls[i]), Active)
        /\ UNCHANGED <<observed, server>>
    BY DEF Succeed, Succeeded
  <1>2. /\ calls[i] \in Calls /\ calls' \in Seq(Calls) /\ Later(calls, calls')
        /\ \A j \in CallIds \ {i} : calls'[j] = calls[j]
        /\ \A j \in CallIds : Touched(calls'[j]) = Touched(calls[j])
        /\ Len(calls) \in Nat
    BY <1>0, <1>1, StatusSet DEF Statuses
  <1>3. RequestsInv'
    BY <1>1, <1>2, AnswersKeep DEF OrgsInv, Succeed, Continue
  <1>4. ASSUME NEW k \in Keys
        PROVE  /\ cache'[k] \in EntriesOver(Lists(k))
               /\ k \notin Touched(calls[i]) => cache'[k] = cache[k]
               /\ k \in Touched(calls[i]) =>
                      /\ cache'[k].valid = FALSE /\ (cache'[k].fetch = "answered" => cache'[k].late)
                      /\ cache'[k].fetch = "answered" =>
                             cache[k].fetch = "answered" /\ cache'[k].answer = cache[k].answer
    <2> DEFINE touched == Touched(calls[i])
    <2>1. CacheOK /\ cache' = Invalidated(cache, touched, Active)
      BY <1>0, <1>1 DEF RowsInv
    <2> HIDE DEF touched
    <2> QED
      BY <2>1, InvalidatedEntry DEF touched
  <1>5. cache' = [k \in Keys |-> cache'[k]]
    BY <1>1 DEF Invalidated
  <1>6. CacheOK'
    BY <1>4, <1>5 DEF CacheOK, Lists
  <1>7. ServerOK' /\ \A k \in Keys : Listed(k)' = Listed(k)
    BY <1>0, <1>1 DEF RowsInv, ServerOK, Listed
  <1>8. ToManagers'
    <2> SUFFICES ASSUME NEW o \in Orgs
                 PROVE  /\ cache'[o].valid => cache'[o].data.role \in {"admin", "owner"}
                        /\ cache'[o].fetch = "answered" =>
                               cache'[o].answer.role \in {"admin", "owner"}
      BY DEF ToManagers
    <2>1. o \in Keys
      OBVIOUS
    <2>2. /\ cache[o].valid => cache[o].data.role \in {"admin", "owner"}
          /\ cache[o].fetch = "answered" => cache[o].answer.role \in {"admin", "owner"}
      BY <1>0 DEF RowsInv, ToManagers
    <2> QED
      BY <1>4, <2>1, <2>2
  <1>9. Agree'
    <2> SUFFICES ASSUME NEW k \in Keys, Settled(calls', k)
                 PROVE  AgreesWith(cache'[k], Listed(k))
      BY <1>7 DEF Agree, AgreesWith
    <2>1. CASE k \in Touched(calls[i])
      BY <1>4, <2>1 DEF AgreesWith
    <2>2. CASE k \notin Touched(calls[i])
      <3>1. Settled(calls, k)
        BY <1>2, <2>2 DEF Settled, Later, CallIds
      <3> QED
        BY <1>0, <1>4, <2>2, <3>1 DEF RowsInv, Agree
    <2> QED
      BY <2>1, <2>2
  <1> QED
    BY <1>3, <1>6, <1>7, <1>8, <1>9 DEF OrgsInv, RowsInv

LEMMA FailKeeps == ASSUME OrgsInv, NEW i \in CallIds, Fail(i) PROVE OrgsInv'
  <1> DEFINE s == IF calls[i].status = "applied" THEN "lost" ELSE "failed"
  <1>0. CallsOK /\ RowsInv
    BY DEF OrgsInv, RequestsInv
  <1>1. /\ calls' = [calls EXCEPT ![i].status = s] /\ calls[i].status \in {"sent", "applied"}
        /\ UNCHANGED <<cache, observed, server, forms>>
    BY DEF Fail, NotSucceeded, InFlight
  <1>2. s \in Statuses /\ (calls[i].status = "applied" => s = "lost")
    BY DEF Statuses
  <1> HIDE DEF s
  <1>3. /\ calls' \in Seq(Calls) /\ Later(calls, calls') /\ calls'[i].status = s
        /\ \A j \in CallIds \ {i} : calls'[j] = calls[j]
        /\ \A j \in CallIds : Touched(calls'[j]) = Touched(calls[j])
    BY <1>0, <1>1, <1>2, StatusSet
  <1>4. RequestsInv'
    BY <1>1, <1>3, AnswersKeep DEF OrgsInv, forms
  <1>5. \A k \in Keys : Settled(calls', k) => Settled(calls, k)
    BY <1>1, <1>2, <1>3 DEF Settled, Later, CallIds
  <1> QED
    BY <1>0, <1>1, <1>4, <1>5, SameRows DEF OrgsInv

LEMMA ListKeeps ==
    ASSUME OrgsInv, NEW k \in Keys, ServeList(k) \/ DeliverList(k) \/ LoseList(k)
    PROVE  OrgsInv'
  <1>1. UNCHANGED <<calls, observed, server, forms>>
    BY DEF ServeList, DeliverList, LoseList
  <1>2. RequestsInv'
    BY <1>1 DEF OrgsInv, RequestsInv, CallsOK, FormsOK, ObservesOwn, DialogSent, UpdatesItsForm,
       CallIds, forms
  <1>3. /\ RowsInv /\ ServerOK /\ cache[k] \in EntriesOver(Lists(k))
        /\ cache = [j \in Keys |-> cache[j]]
        /\ k \in Orgs =>
               /\ cache[k].valid => cache[k].data.role \in {"admin", "owner"}
               /\ cache[k].fetch = "answered" => cache[k].answer.role \in {"admin", "owner"}
    BY DEF OrgsInv, RowsInv, CacheOK, ToManagers
  <1>4. CASE ServeList(k)
    <2> DEFINE e == [cache[k] EXCEPT !.fetch = "answered", !.answer = Listed(k)]
    <2>1. cache' = [cache EXCEPT ![k] = e] /\ (k \in Orgs => Manages(k))
      BY <1>4 DEF ServeList, Serve
    <2>2. Listed(k) \in Lists(k)
      BY <1>3, ListedType
    <2>3. /\ e \in EntriesOver(Lists(k)) /\ e.answer = Listed(k) /\ e.data = cache[k].data
          /\ e.valid = cache[k].valid /\ e.late = cache[k].late
      BY <1>3, <2>2 DEF EntriesOver
    <2> HIDE DEF e
    <2>4. k \in Orgs => Listed(k).role \in {"admin", "owner"}
      BY <2>1 DEF Listed, Manages
    <2> QED
      BY <1>1, <1>2, <1>3, <2>1, <2>3, <2>4, OneList DEF OrgsInv, AgreesWith
  <1>5. CASE DeliverList(k)
    <2> DEFINE e == [cache[k] EXCEPT !.data = cache[k].answer, !.valid = TRUE,
                                     !.fetch = "idle", !.answer = NoData]
    <2>1. cache' = [cache EXCEPT ![k] = e] /\ cache[k].fetch = "answered"
      BY <1>5 DEF DeliverList, Deliver
    <2>2. /\ e \in EntriesOver(Lists(k)) /\ e.data = cache[k].answer /\ e.fetch = "idle"
          /\ e.late = cache[k].late
      BY <1>3 DEF EntriesOver
    <2> HIDE DEF e
    <2> QED
      BY <1>1, <1>2, <1>3, <2>1, <2>2, OneList DEF OrgsInv, AgreesWith
  <1>6. CASE LoseList(k)
    <2> DEFINE e == [cache[k] EXCEPT !.fetch = "idle", !.answer = NoData]
    <2>1. cache' = [cache EXCEPT ![k] = e]
      BY <1>6 DEF LoseList, FetchFails
    <2>2. /\ e \in EntriesOver(Lists(k)) /\ e.data = cache[k].data /\ e.fetch = "idle"
          /\ e.late = cache[k].late /\ e.valid = cache[k].valid
      BY <1>3 DEF EntriesOver
    <2> HIDE DEF e
    <2> QED
      BY <1>1, <1>2, <1>3, <2>1, <2>2, OneList DEF OrgsInv, AgreesWith
  <1> QED
    BY <1>4, <1>5, <1>6

--------------------------------------------------------------------------------
(* The theorems. *)

LEMMA InitOrgsInv == Init => OrgsInv
  <1> SUFFICES ASSUME Init PROVE OrgsInv
    OBVIOUS
  <1>1. calls = <<>> /\ Len(calls) = 0
    BY DEF Init
  <1>2. RequestsInv
    BY <1>1 DEF Init, RequestsInv, CallsOK, FormsOK, ObservesOwn, DialogSent, UpdatesItsForm,
       CallIds
  <1>3. ASSUME NEW k \in Keys
        PROVE  cache[k] \in EntriesOver(Lists(k)) /\ ~cache[k].valid
               /\ cache[k].fetch # "answered"
    <2>1. NoEntry \in EntriesOver(Lists(k)) /\ ~NoEntry.valid /\ NoEntry.fetch = "idle"
      BY DEF NoEntry, EntriesOver
    <2>2. cache[k] = NoEntry \/ cache[k] = Refetched(NoEntry)
      BY DEF Init, Mounted
    <2> QED
      BY <2>1, <2>2, RefetchedEntry
  <1>4. cache = [k \in Keys |-> cache[k]]
    BY DEF Init, Mounted
  <1>5. CacheOK /\ ToManagers /\ Agree
    BY <1>3, <1>4 DEF CacheOK, ToManagers, Agree, AgreesWith
  <1>6. ServerOK
    BY DEF Init, ServerOK
  <1> QED
    BY <1>2, <1>5, <1>6 DEF OrgsInv, RowsInv

LEMMA NextKeeps == OrgsInv /\ [Next]_vars => OrgsInv'
  <1> SUFFICES ASSUME OrgsInv, [Next]_vars PROVE OrgsInv'
    OBVIOUS
  <1>1. CASE User
    BY <1>1, FormKeeps, OpenMembersKeeps, RequestKeeps DEF User
  <1>2. CASE \E i \in CallIds : Apply(i) \/ Succeed(i) \/ Fail(i)
    BY <1>2, ApplyKeeps, SucceedKeeps, FailKeeps
  <1>3. CASE \E k \in Keys : ServeList(k) \/ DeliverList(k) \/ LoseList(k)
    BY <1>3, ListKeeps
  <1>4. CASE UNCHANGED vars
    <2>1. FormsOK'
      BY <1>4 DEF vars, forms, OrgsInv, RequestsInv, FormsOK
    <2> QED
      BY <1>4, <2>1, InputKeeps DEF vars, forms, clientVars
  <1> QED
    BY <1>1, <1>2, <1>3, <1>4 DEF Next

LEMMA OrgsAlways == Spec => []OrgsInv
  BY InitOrgsInv, NextKeeps, PTL DEF Spec

\* The lists, the calls and what is open have their types.
THEOREM OrganizationsPageTypes == Spec => []TypeOK
  <1>1. OrgsInv => TypeOK
    BY DEF OrgsInv, RequestsInv, RowsInv, CacheOK, CallsOK, ServerOK, FormsOK, TypeOK
  <1> QED
    BY <1>1, OrgsAlways, PTL

\* A list that counts as fresh is the one of the tables, once every change was
\* answered: each hook invalidates every list its change shows in.
THEOREM OrganizationsPageListsAgree == Spec => []ListsAgree
  <1>1. OrgsInv => ListsAgree
    BY DEF OrgsInv, RowsInv, Agree, AgreesWith, Settled, ListsAgree, CallIds
  <1> QED
    BY <1>1, OrgsAlways, PTL

\* The error in a dialog that removes or leaves an organization is the answer to a
\* request that was sent from it.
THEOREM OrganizationsPageErrorOfDialog == Spec => []ErrorOfDialog
  <1>1. OrgsInv => ErrorOfDialog
    BY DEF OrgsInv, RequestsInv, DialogSent, HasError, ErrorOfDialog
  <1> QED
    BY <1>1, OrgsAlways, PTL

\* An answer closes the edit form of another organization only when that form was
\* opened while the answer was under way.
THEOREM OrganizationsPageClosesNoOlderForm == Spec => ClosesNoOlderForm
  <1> DEFINE Kept == \A i \in CallIds :
                        InFlight(i) /\ calls'[i].status = "succeeded" /\ edit # None
                          /\ edit' = None => edit = calls[i].org \/ edit # calls[i].editing
  <1>1. ASSUME OrgsInv, [Next]_vars PROVE [Kept]_vars
    <2> SUFFICES ASSUME Next, NEW i \in CallIds, InFlight(i), calls'[i].status = "succeeded",
                        edit # None, edit' = None, edit = calls[i].editing
                 PROVE  edit = calls[i].org
      BY <1>1
    <2>0. /\ calls \in Seq(Calls) /\ Len(calls) \in Nat /\ i \in 1..Len(calls)
          /\ calls[i].status \in {"sent", "applied"} /\ CallsOK /\ UpdatesItsForm
      BY <1>1 DEF OrgsInv, RequestsInv, CallsOK, CallIds, InFlight
    <2>1. ASSUME NEW j \in CallIds, Succeed(j) PROVE edit = calls[i].org
      <3>1. calls' = [calls EXCEPT ![j].status = "succeeded"]
        BY <2>1 DEF Succeed, Succeeded
      <3>2. \A l \in CallIds \ {j} : calls'[l] = calls[l]
        BY <2>0, <3>1, StatusSet DEF Statuses
      <3>3. i = j
        BY <2>0, <3>2
      <3>4. calls[i].hook = "update" \/ calls[i].editing = calls[i].org
        BY <2>1, <3>3 DEF Succeed, Continue
      <3> QED
        BY <2>0, <3>4 DEF UpdatesItsForm
    <2>2. ASSUME NEW j \in CallIds, Apply(j) \/ Fail(j) PROVE FALSE
      BY <2>2 DEF Apply, Fail, forms
    <2>3. ASSUME NEW k \in Keys, ServeList(k) \/ DeliverList(k) \/ LoseList(k) PROVE FALSE
      BY <2>3 DEF ServeList, DeliverList, LoseList, forms
    <2>4. ASSUME User PROVE FALSE
      <3>1. UNCHANGED edit \/ UNCHANGED calls
        BY <2>4 DEF User, handleCreate, startEditing, cancelEditing, handleUpdate, OpenRemove,
           OpenLeave, OpenMembers, AnswerInvitation, TypeOrgName, DismissRemove,
           onConfirmRemoveOrganization, DismissLeave, onConfirmLeaveOrganization, CloseMembers,
           onInvite, RemoveMember, Revoke, forms, clientVars
      <3> QED
        BY <2>0, <3>1
    <2> QED
      BY <2>1, <2>2, <2>3, <2>4 DEF Next
  <1> QED
    BY <1>1, OrgsAlways, PTL DEF Spec, ClosesNoOlderForm
=============================================================================
