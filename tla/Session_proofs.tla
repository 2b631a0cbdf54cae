-------------------------- MODULE Session_proofs --------------------------
(***************************************************************************)
(* What holds of a session for every set of accounts and names and every   *)
(* number of requests: whose answer of /me is shown, and what a deletion   *)
(* deletes.                                                                *)
(***************************************************************************)
EXTENDS Session, Integers, TLAPS

USE SessionAssumption

MeType ==
    [data : Rows \cup {None}, valid : BOOLEAN, fetch : {"idle", "asked", "answered"},
     as : Accounts \cup {None}, answer : Rows \cup {None}, late : BOOLEAN]

\* A load knows the account whose token it carries, and its answer is that account's.
MeOK ==
    /\ token \in Accounts \cup {None}
    /\ me \in MeType
    /\ me.fetch # "idle" => me.as \in Accounts /\ ~me.valid
    /\ me.fetch = "answered" => me.answer \in Rows /\ me.answer.account = me.as

ServerOK == server \in [Accounts -> Rows] /\ \A a \in Accounts : server[a].account = a

CallOK(c) ==
    /\ c \in Calls
    /\ c.hook = "none" => c.status \in {"lost", "over"}
    /\ c.status = "applied" => c.as \in Accounts

CallsOK == calls \in Seq({c \in Calls : CallOK(c)})

EditType == [open : BOOLEAN, input : Names \cup {None}, call : Nat]

\* The dialogs are part of the details.
DialogsOK ==
    /\ edit \in EditType
    /\ edit.open \/ deletion.open => Details(page, token, me)

\* Unless the token was replaced, what is kept of /me and what is loaded are about the
\* account of the token, and nothing is kept when there is none.
TokenOf ==
    ~replaced =>
        /\ token = None => me = Unanswered
        /\ token # None /\ me.data # None => me.data.account = token
        /\ me.fetch # "idle" => me.as = token

Quiet(s) == \A i \in 1..Len(s) : s[i].status \notin {"applied", "lost"}

\* When every change was answered, what counts as fresh, and an answer on its way that
\* will, are rows of the server.
Fresh ==
    Quiet(calls) =>
        /\ me.valid /\ ~me.late => me.data = server[me.data.account]
        /\ me.fetch = "answered" /\ ~me.late => me.answer = server[me.as]

--------------------------------------------------------------------------------
(* The query of /me. *)

LEMMA UnansweredType == Unanswered \in MeType
  BY DEF Unanswered, MeType

LEMMA LoadingMe ==
    ASSUME NEW m \in MeType, NEW t \in Accounts
    PROVE  /\ Loading(m, t) \in MeType
           /\ Loading(m, t).data = m.data /\ Loading(m, t).fetch = "asked"
           /\ Loading(m, t).as = t /\ ~Loading(m, t).valid
  BY DEF Loading, MeType

\* Whatever is invalidated is not fresh, and a load under way is late or new.
LEMMA InvalidatedMe ==
    ASSUME NEW m \in MeType, NEW t \in Accounts \cup {None}
    PROVE  /\ Invalidated(m, t) \in MeType
           /\ Invalidated(m, t).data = m.data /\ ~Invalidated(m, t).valid
           /\ \/ /\ t # None
                 /\ Invalidated(m, t).fetch = "asked" /\ Invalidated(m, t).as = t
              \/ /\ Invalidated(m, t).fetch = m.fetch /\ Invalidated(m, t).as = m.as
                 /\ Invalidated(m, t).answer = m.answer
                 /\ m.fetch # "idle" => Invalidated(m, t).late
  <1>1. CASE t # None /\ (m.fetch = "idle" \/ m.data # None)
    BY <1>1, LoadingMe DEF Invalidated
  <1>2. CASE ~ (t # None /\ (m.fetch = "idle" \/ m.data # None))
    BY <1>2 DEF Invalidated, MeType
  <1> QED
    BY <1>1, <1>2

LEMMA InvalidatedUnanswered == Invalidated(Unanswered, None) = Unanswered
  BY DEF Invalidated, Unanswered

\* After a change was answered nothing that is known counts as fresh.
LEMMA InvalidatedKeeps ==
    ASSUME MeOK, NEW t \in Accounts \cup {None}, token' = t, me' = Invalidated(me, t)
    PROVE  MeOK' /\ Fresh'
  <1>0. me \in MeType
    BY DEF MeOK
  <1>1. /\ me' \in MeType /\ ~me'.valid
        /\ \/ t # None /\ me'.fetch = "asked" /\ me'.as = t
           \/ /\ me'.fetch = me.fetch /\ me'.as = me.as /\ me'.answer = me.answer
              /\ me.fetch # "idle" => me'.late
    BY <1>0, InvalidatedMe
  <1>2. MeOK'
    BY <1>1 DEF MeOK
  <1>3. Fresh'
    BY <1>1 DEF Fresh
  <1> QED
    BY <1>2, <1>3

LEMMA InvalidatedToken ==
    ASSUME MeOK, TokenOf, token' = token, me' = Invalidated(me, token), replaced' = replaced
    PROVE  TokenOf'
  <1> SUFFICES ASSUME ~replaced PROVE TokenOf'
    BY DEF TokenOf
  <1>1. CASE token = None
    <2>1. me = Unanswered
      BY <1>1 DEF TokenOf
    <2>2. me' = Unanswered
      BY <1>1, <2>1, InvalidatedUnanswered
    <2> QED
      BY <2>2 DEF TokenOf, Unanswered
  <1>2. CASE token # None
    BY <1>2, InvalidatedMe DEF TokenOf, MeOK
  <1> QED
    BY <1>1, <1>2

LEMMA LogoutKeeps ==
    ASSUME token' \in Accounts \cup {None}, me' = Unanswered, replaced' = FALSE
    PROVE  MeOK' /\ TokenOf' /\ Fresh'
  BY UnansweredType DEF MeOK, TokenOf, Fresh, Unanswered

LEMMA SetTokenKeeps ==
    ASSUME MeOK, TokenOf, NEW t \in Accounts \cup {None}, SetToken(t), me' = me
    PROVE  MeOK' /\ TokenOf'
  <1>1. MeOK'
    BY DEF MeOK, SetToken
  <1>2. TokenOf'
    <2>1. CASE replaced'
      BY <2>1 DEF TokenOf
    <2>2. CASE ~replaced' /\ t = token
      BY <2>2 DEF TokenOf, SetToken
    <2>3. CASE ~replaced' /\ me = Unanswered
      BY <2>3 DEF TokenOf, SetToken, Unanswered
    <2> QED
      BY <2>1, <2>2, <2>3 DEF SetToken
  <1> QED
    BY <1>1, <1>2

--------------------------------------------------------------------------------
(* The calls. *)

GoodCalls == {c \in Calls : CallOK(c)}

LEMMA OverCall == Over \in GoodCalls /\ Lost \in GoodCalls
  BY DEF GoodCalls, Calls, CallOK, Over, Lost

LEMMA ReplaceCall ==
    ASSUME CallsOK, NEW i \in CallIds, NEW c \in GoodCalls
    PROVE  /\ [calls EXCEPT ![i] = c] \in Seq(GoodCalls)
           /\ Len([calls EXCEPT ![i] = c]) = Len(calls)
           /\ [calls EXCEPT ![i] = c][i] = c
           /\ \A j \in CallIds : j # i => [calls EXCEPT ![i] = c][j] = calls[j]
  BY DEF CallsOK, GoodCalls, CallIds

LEMMA CallType ==
    ASSUME CallsOK, NEW i \in CallIds
    PROVE  calls[i] \in GoodCalls /\ calls[i] \in Calls /\ CallOK(calls[i])
  BY DEF CallsOK, GoodCalls, CallIds

\* A page that is left forgets its calls: nothing else of them changes.
LEMMA OrphanedKeeps ==
    ASSUME NEW s \in Seq(GoodCalls)
    PROVE  /\ Orphaned(s) \in Seq(GoodCalls)
           /\ Len(Orphaned(s)) = Len(s)
           /\ \A i \in 1..Len(s) : /\ Orphaned(s)[i].status = s[i].status
                                   /\ Orphaned(s)[i].hook = s[i].hook
  <1> DEFINE o == [i \in 1..Len(s) |-> [s[i] EXCEPT !.here = FALSE]]
  <1>1. \A i \in 1..Len(s) : /\ [s[i] EXCEPT !.here = FALSE] \in GoodCalls
                             /\ [s[i] EXCEPT !.here = FALSE].status = s[i].status
                             /\ [s[i] EXCEPT !.here = FALSE].hook = s[i].hook
    <2> TAKE i \in 1..Len(s)
    <2>1. s[i] \in GoodCalls
      OBVIOUS
    <2> QED
      BY <2>1 DEF GoodCalls, Calls, CallOK
  <1>2. o \in Seq(GoodCalls) /\ Len(o) = Len(s)
    BY <1>1
  <1>3. Orphaned(s) = o \/ Orphaned(s) = s
    BY DEF Orphaned
  <1> QED
    BY <1>1, <1>2, <1>3

LEMMA SendKeeps ==
    ASSUME CallsOK, NEW h \in {"login", "username", "save", "profile", "delete"},
           NEW as \in Accounts \cup {None}, NEW n \in Names \cup {None}, Send(h, as, n)
    PROVE  /\ CallsOK'
           /\ Quiet(calls') => Quiet(calls)
           /\ Len(calls') = Len(calls) + 1
           /\ calls'[Len(calls) + 1].hook = h
           /\ calls'[Len(calls) + 1].as = as
  <1> DEFINE b == h \in {"save", "profile"}
             c == [hook |-> h, as |-> as, name |-> n, here |-> b, status |-> "sent"]
  <1>0. b \in BOOLEAN
    BY SMT
  <1>2. calls' = Append(calls, c) /\ calls \in Seq(GoodCalls)
    BY DEF Send, CallsOK, GoodCalls
  <1> HIDE DEF b
  <1>1. c \in GoodCalls
    BY <1>0 DEF GoodCalls, Calls, CallOK
  <1>3. /\ calls' \in Seq(GoodCalls) /\ Len(calls') = Len(calls) + 1
        /\ \A i \in 1..Len(calls) : calls'[i] = calls[i]
        /\ calls'[Len(calls) + 1] = c
    BY <1>1, <1>2
  <1>4. calls'[Len(calls) + 1].hook = h /\ calls'[Len(calls) + 1].as = as
    BY <1>3
  <1> HIDE DEF c
  <1>5. Quiet(calls') => Quiet(calls)
    <2> SUFFICES ASSUME Quiet(calls'), NEW i \in 1..Len(calls)
                 PROVE  calls[i].status \notin {"applied", "lost"}
      BY DEF Quiet
    <2>1. i \in 1..Len(calls') /\ calls'[i] = calls[i]
      BY <1>2, <1>3
    <2> QED
      BY <2>1 DEF Quiet
  <1>6. CallsOK'
    BY <1>3 DEF CallsOK, GoodCalls
  <1> QED
    BY <1>3, <1>4, <1>5, <1>6

--------------------------------------------------------------------------------
(* What steps leave alone. *)

SInv == MeOK /\ ServerOK /\ CallsOK /\ DialogsOK /\ TokenOf /\ Fresh

LEMMA SameToken ==
    ASSUME SInv, UNCHANGED <<token, me, replaced>>
    PROVE  MeOK' /\ TokenOf'
  BY DEF SInv, MeOK, TokenOf

LEMMA SameServer ==
    ASSUME SInv, UNCHANGED server
    PROVE  ServerOK'
  BY DEF SInv, ServerOK

LEMMA SameAnswers ==
    ASSUME SInv, UNCHANGED <<me, server>>, Quiet(calls') => Quiet(calls)
    PROVE  Fresh'
  BY DEF SInv, Fresh

\* The dialogs go with the details.
LEMMA LeavingKeeps ==
    ASSUME SInv, Leaving
    PROVE  DialogsOK'
  <1>1. Details(page, token, me)' <=> Details(page', token', me')
    BY DEF Details
  <1>2. CASE Details(page, token, me) /\ ~Details(page', token', me')
    <2>1. edit' = Closed /\ deletion' = Closed
      BY <1>2 DEF Leaving
    <2>2. Closed \in EditType /\ ~Closed.open
      BY DEF Closed, EditType
    <2> QED
      BY <2>1, <2>2 DEF DialogsOK
  <1>3. CASE ~ (Details(page, token, me) /\ ~Details(page', token', me'))
    BY <1>1, <1>3 DEF Leaving, DialogsOK, SInv
  <1> QED
    BY <1>2, <1>3

LEMMA SameDetails ==
    ASSUME SInv, UNCHANGED <<page, token>>, me.data # None => me'.data # None,
           edit' \in EditType, edit'.open \/ deletion'.open => Details(page, token, me)
    PROVE  DialogsOK'
  BY DEF DialogsOK, Details

\* A step that only moves from page to page.
LEMMA MovesOn ==
    ASSUME SInv, UNCHANGED <<token, me, server, replaced>>, Leaving,
           NEW s \in Seq(GoodCalls), calls' = Orphaned(s), Len(s) = Len(calls),
           Quiet(s) => Quiet(calls)
    PROVE  SInv'
  <1>1. /\ calls' \in Seq(GoodCalls) /\ Len(calls') = Len(s)
        /\ \A i \in 1..Len(s) : calls'[i].status = s[i].status
    BY OrphanedKeeps
  <1>2. CallsOK'
    BY <1>1 DEF CallsOK, GoodCalls
  <1>3. Quiet(calls') => Quiet(calls)
    BY <1>1 DEF Quiet
  <1> QED
    BY <1>2, <1>3, SameToken, SameServer, SameAnswers, LeavingKeeps DEF SInv

LEMMA SameCalls == SInv => calls \in Seq(GoodCalls)
  BY DEF SInv, CallsOK, GoodCalls

--------------------------------------------------------------------------------
(* The query of /me. *)

LEMMA QueryKeeps ==
    ASSUME SInv, UNCHANGED <<token, server, calls, page, dialogs>>,
           MeOK', TokenOf', Fresh', me.data # None => me'.data # None
    PROVE  SInv'
  <1>1. DialogsOK'
    BY SameDetails DEF dialogs, DialogsOK, SInv
  <1>2. CallsOK'
    BY DEF CallsOK, SInv
  <1> QED
    BY <1>1, <1>2, SameServer DEF SInv

LEMMA FetchMeKeeps == SInv /\ FetchMe => SInv'
  <1> SUFFICES ASSUME SInv, FetchMe PROVE SInv'
    OBVIOUS
  <1>1. token \in Accounts /\ me \in MeType
    BY DEF SInv, MeOK, FetchMe
  <1>2. /\ me' \in MeType /\ me'.data = me.data /\ me'.fetch = "asked"
        /\ me'.as = token /\ ~me'.valid
    BY <1>1, LoadingMe DEF FetchMe
  <1>3. MeOK' /\ TokenOf' /\ Fresh'
    BY <1>1, <1>2 DEF SInv, MeOK, TokenOf, Fresh, FetchMe
  <1> QED
    BY <1>2, <1>3, QueryKeeps DEF FetchMe

LEMMA ServeMeKeeps == SInv /\ ServeMe => SInv'
  <1> SUFFICES ASSUME SInv, ServeMe PROVE SInv'
    OBVIOUS
  <1>1. /\ me \in MeType /\ me.as \in Accounts /\ ~me.valid
        /\ server[me.as] \in Rows /\ server[me.as].account = me.as
    BY DEF SInv, MeOK, ServerOK, ServeMe
  <1>2. /\ me' \in MeType /\ me'.data = me.data /\ me'.fetch = "answered"
        /\ me'.as = me.as /\ ~me'.valid /\ me'.answer = server[me.as]
    BY <1>1 DEF ServeMe, MeType
  <1>3. MeOK' /\ TokenOf' /\ Fresh'
    BY <1>1, <1>2 DEF SInv, MeOK, TokenOf, Fresh, ServeMe
  <1> QED
    BY <1>2, <1>3, QueryKeeps DEF ServeMe

LEMMA MeFailsKeeps == SInv /\ MeFails => SInv'
  <1> SUFFICES ASSUME SInv, MeFails PROVE SInv'
    OBVIOUS
  <1>1. me \in MeType /\ ~me.valid
    BY DEF SInv, MeOK, MeFails
  <1>2. me' \in MeType /\ me'.data = me.data /\ me'.fetch = "idle" /\ ~me'.valid
    <2>1. me' = [me EXCEPT !.fetch = "idle", !.as = None, !.answer = None, !.late = FALSE]
      BY DEF MeFails
    <2> QED
      BY <1>1, <2>1 DEF MeType
  <1>3. MeOK' /\ Fresh'
    BY <1>1, <1>2 DEF SInv, MeOK, Fresh, MeFails
  <1>4. ~replaced => token # None
    BY DEF SInv, TokenOf, MeFails, Unanswered
  <1>5. TokenOf'
    BY <1>2, <1>4 DEF SInv, TokenOf, MeFails
  <1> QED
    BY <1>2, <1>3, <1>5, QueryKeeps DEF MeFails

\* An answer to the token of this moment ends the time under which the token was
\* replaced.
LEMMA MeArrivesKeeps == SInv /\ MeArrives => SInv'
  <1> SUFFICES ASSUME SInv, MeArrives PROVE SInv'
    OBVIOUS
  <1>1. /\ me \in MeType /\ me.as \in Accounts /\ ~me.valid
        /\ me.answer \in Rows /\ me.answer.account = me.as
    BY DEF SInv, MeOK, MeArrives
  <1>2. /\ me' \in MeType /\ me'.data = me.answer /\ me'.fetch = "idle"
        /\ me'.late = me.late
    BY <1>1 DEF MeArrives, MeType
  <1>3. MeOK'
    BY <1>2 DEF SInv, MeOK, MeArrives
  <1>4. TokenOf'
    <2> SUFFICES ASSUME ~replaced' PROVE TokenOf'
      BY DEF TokenOf
    <2>1. me.as = token
      BY DEF MeArrives, SInv, TokenOf
    <2> QED
      BY <1>1, <1>2, <2>1 DEF TokenOf, MeArrives
  <1>5. Fresh'
    BY <1>1, <1>2 DEF Fresh, SInv, MeArrives
  <1> QED
    BY <1>1, <1>2, <1>3, <1>4, <1>5, QueryKeeps DEF MeArrives

LEMMA MeIsOldKeeps == SInv /\ MeIsOld => SInv'
  <1> SUFFICES ASSUME SInv, MeIsOld PROVE SInv'
    OBVIOUS
  <1>1. /\ me' \in MeType /\ me'.data = me.data /\ me'.fetch = me.fetch
        /\ me'.as = me.as /\ ~me'.valid /\ me'.answer = me.answer /\ me'.late = me.late
    BY DEF SInv, MeOK, MeIsOld, MeType
  <1>2. MeOK' /\ Fresh'
    BY <1>1 DEF SInv, MeOK, Fresh, MeIsOld
  <1>3. ~replaced => token # None
    BY DEF SInv, TokenOf, MeIsOld, Unanswered
  <1>4. TokenOf'
    BY <1>1, <1>3 DEF SInv, TokenOf, MeIsOld
  <1> QED
    BY <1>1, <1>2, <1>4, QueryKeeps DEF MeIsOld

--------------------------------------------------------------------------------
(* The user. *)

LEMMA LogoutStep ==
    ASSUME SInv, Logout, ServerOK', CallsOK', DialogsOK'
    PROVE  SInv'
  BY LogoutKeeps DEF SInv, Logout

LEMMA OrphanedCallsOK ==
    ASSUME NEW s \in Seq(GoodCalls), calls' = Orphaned(s)
    PROVE  CallsOK'
  BY OrphanedKeeps DEF CallsOK, GoodCalls

LEMMA HandleLogoutKeeps == SInv /\ handleLogout => SInv'
  <1> SUFFICES ASSUME SInv, handleLogout PROVE SInv'
    OBVIOUS
  <1>1. CallsOK'
    BY SameCalls, OrphanedCallsOK DEF handleLogout
  <1> QED
    BY <1>1, SameServer, LeavingKeeps, LogoutStep DEF handleLogout

\* A request is sent: what the session knows stays.
LEMMA SendingKeeps ==
    ASSUME SInv, UNCHANGED <<token, me, server, page, replaced>>,
           edit' \in EditType, edit'.open \/ deletion'.open => edit.open \/ deletion.open,
           NEW h \in {"login", "username", "save", "profile", "delete"},
           NEW as \in Accounts \cup {None}, NEW n \in Names \cup {None}, Send(h, as, n)
    PROVE  SInv'
  <1>1. CallsOK' /\ (Quiet(calls') => Quiet(calls))
    BY SendKeeps DEF SInv
  <1>2. DialogsOK'
    BY SameDetails DEF SInv, DialogsOK
  <1> QED
    BY <1>1, <1>2, SameToken, SameServer, SameAnswers DEF SInv

LEMMA HandleSubmitKeeps == SInv /\ handleSubmit => SInv'
  <1> SUFFICES ASSUME SInv, handleSubmit PROVE SInv'
    OBVIOUS
  <1>1. PICK a \in Accounts : Send("login", a, None)
    BY DEF handleSubmit
  <1> QED
    BY <1>1, SendingKeeps DEF handleSubmit, dialogs, SInv, DialogsOK

LEMMA SetUsernameKeeps == SInv /\ SetUsername => SInv'
  <1> SUFFICES ASSUME SInv, SetUsername PROVE SInv'
    OBVIOUS
  <1>1. PICK n \in Names : Send("username", token, n)
    BY DEF SetUsername
  <1>2. token \in Accounts \cup {None}
    BY DEF SInv, MeOK
  <1> QED
    BY <1>1, <1>2, SendingKeeps DEF SetUsername, dialogs, SInv, DialogsOK

\* The token is set by a page that is opened with one, or in another tab.
LEMMA TokenIsSet ==
    ASSUME SInv, NEW t \in Accounts \cup {None}, SetToken(t), UNCHANGED <<me, server>>,
           calls' = Orphaned(calls), Leaving
    PROVE  SInv'
  <1>1. MeOK' /\ TokenOf'
    BY SetTokenKeeps DEF SInv
  <1>2. /\ calls' \in Seq(GoodCalls) /\ Len(calls') = Len(calls)
        /\ \A i \in 1..Len(calls) : calls'[i].status = calls[i].status
    BY SameCalls, OrphanedKeeps
  <1>3. Quiet(calls') => Quiet(calls)
    BY <1>2 DEF Quiet
  <1>4. CallsOK'
    BY <1>2 DEF CallsOK, GoodCalls
  <1> QED
    BY <1>1, <1>3, <1>4, SameServer, SameAnswers, LeavingKeeps DEF SInv

LEMMA SetTokenStepsKeep == SInv /\ (CallbackHandler \/ HandleStorage) => SInv'
  <1> SUFFICES ASSUME SInv, CallbackHandler \/ HandleStorage PROVE SInv'
    OBVIOUS
  <1>1. PICK t \in Accounts \cup {None} : SetToken(t)
    BY DEF CallbackHandler, HandleStorage
  <1> QED
    BY <1>1, TokenIsSet DEF CallbackHandler, HandleStorage

LEMMA LoadKeeps == SInv /\ Load => SInv'
  <1> SUFFICES ASSUME SInv, Load PROVE SInv'
    OBVIOUS
  <1>1. MeOK' /\ TokenOf' /\ Fresh'
    BY LogoutKeeps DEF Load, SInv, MeOK
  <1>2. CallsOK'
    <2>1. \A i \in CallIds : (IF calls[i].status \in {"lost", "sent", "applied"}
                              THEN Lost ELSE Over) \in GoodCalls
      BY OverCall
    <2> QED
      BY <2>1, SameCalls DEF Load, CallsOK, GoodCalls, CallIds
  <1>3. DialogsOK'
    BY DEF Load, DialogsOK, Closed, EditType
  <1> QED
    BY <1>1, <1>2, <1>3, SameServer DEF SInv, Load

LEMMA NavigationKeeps == SInv /\ (Navigate \/ RedirectForUsername) => SInv'
  BY SameCalls, MovesOn DEF Navigate, RedirectForUsername

\* A dialog is opened, typed into or closed.
LEMMA DialogKeeps ==
    ASSUME SInv, UNCHANGED <<token, me, server, calls, page, replaced>>,
           edit' \in EditType, edit'.open \/ deletion'.open => Details(page, token, me)
    PROVE  SInv'
  <1>1. DialogsOK'
    BY SameDetails
  <1>2. CallsOK' /\ Fresh'
    BY SameAnswers DEF SInv, CallsOK
  <1> QED
    BY <1>1, <1>2, SameToken, SameServer DEF SInv

LEMMA DialogStepsKeep ==
    SInv /\ (OpenEdit \/ TypeUsername \/ CloseEdit \/ OpenDelete \/ TypeConfirm \/ CloseDelete)
        => SInv'
  <1> SUFFICES ASSUME SInv,
               OpenEdit \/ TypeUsername \/ CloseEdit \/ OpenDelete \/ TypeConfirm \/ CloseDelete
               PROVE SInv'
    OBVIOUS
  <1>1. /\ edit \in EditType
        /\ edit.open \/ deletion.open => Details(page, token, me)
    BY DEF SInv, DialogsOK
  <1>2. CASE OpenEdit
    <2>1. Me.name \in Names \cup {None}
      BY <1>2 DEF OpenEdit, NoDialog, Details, Me, SInv, MeOK, MeType, Rows
    <2>2. edit' \in EditType /\ edit'.open
      BY <1>2, <2>1 DEF OpenEdit, Closed, EditType
    <2> QED
      BY <1>2, <2>2, DialogKeeps DEF OpenEdit, NoDialog
  <1>3. CASE OpenDelete
    BY <1>1, <1>3, DialogKeeps DEF OpenDelete, NoDialog
  <1>4. CASE TypeUsername
    <2>1. edit' \in EditType
      BY <1>1, <1>4 DEF TypeUsername, EditType
    <2> QED
      BY <1>1, <1>4, <2>1, DialogKeeps DEF TypeUsername
  <1>5. CASE TypeConfirm
    BY <1>1, <1>5, DialogKeeps DEF TypeConfirm
  <1>6. CASE CloseEdit
    <2>1. edit' \in EditType /\ ~edit'.open
      BY <1>6 DEF CloseEdit, Closed, EditType
    <2> QED
      BY <1>1, <1>6, <2>1, DialogKeeps DEF CloseEdit
  <1>7. CASE CloseDelete
    BY <1>1, <1>7, DialogKeeps DEF CloseDelete, Closed
  <1> QED
    BY <1>2, <1>3, <1>4, <1>5, <1>6, <1>7

LEMMA HandleDeleteKeeps == SInv /\ handleDelete => SInv'
  <1> SUFFICES ASSUME SInv, handleDelete PROVE SInv'
    OBVIOUS
  <1>1. token \in Accounts \cup {None}
    BY DEF SInv, MeOK
  <1>2. deletion.open /\ edit' \in EditType
    BY DEF handleDelete, canDelete, SInv, DialogsOK
  <1> QED
    BY <1>1, <1>2, SendingKeeps DEF handleDelete

LEMMA HandleSaveKeeps == SInv /\ handleSave => SInv'
  <1> SUFFICES ASSUME SInv, handleSave PROVE SInv'
    OBVIOUS
  <1>1. token \in Accounts \cup {None}
    BY DEF SInv, MeOK
  <1>2. edit.open /\ edit \in EditType
    BY DEF handleSave, SInv, DialogsOK
  <1>3. Len(calls) + 1 \in Nat
    BY SameCalls
  <1>4. edit' \in EditType
    BY <1>2, <1>3 DEF handleSave, EditType
  <1>5. CASE Send("profile", token, None)
    BY <1>1, <1>2, <1>4, <1>5, SendingKeeps DEF handleSave
  <1>6. CASE Send("save", token, edit.input) /\ edit.input # None
    <2>1. edit.input \in Names \cup {None}
      BY <1>2 DEF EditType
    <2> QED
      BY <1>1, <1>2, <1>4, <1>6, <2>1, SendingKeeps DEF handleSave
  <1> QED
    BY <1>5, <1>6 DEF handleSave

--------------------------------------------------------------------------------
(* The server and its answers. *)

\* What is applied is not answered yet: nothing is claimed of what is kept.
LEMMA ApplyKeeps == SInv /\ (\E i \in CallIds : Apply(i)) => SInv'
  <1> SUFFICES ASSUME SInv, NEW i \in CallIds, Apply(i) PROVE SInv'
    OBVIOUS
  <1> DEFINE c == calls[i]
             d == [c EXCEPT !.status = "applied"]
  <1>1. c \in Calls /\ CallOK(c) /\ c.as \in Accounts /\ c.status = "sent"
    BY CallType DEF SInv, Apply, Allowed, Calls
  <1>2. d \in GoodCalls /\ d.status = "applied"
    BY <1>1 DEF GoodCalls, Calls, CallOK
  <1>3. calls' = [calls EXCEPT ![i] = d]
    BY DEF Apply
  <1>4. /\ calls' \in Seq(GoodCalls) /\ Len(calls') = Len(calls) /\ calls'[i] = d
    BY <1>2, <1>3, ReplaceCall DEF SInv
  <1>5. CallsOK'
    BY <1>4 DEF CallsOK, GoodCalls
  <1>6. Fresh'
    BY <1>2, <1>4 DEF Fresh, Quiet, CallIds
  <1>7. server[c.as] \in Rows /\ server[c.as].account = c.as
    BY <1>1 DEF SInv, ServerOK
  <1>8. Effect(c) \in Rows /\ Effect(c).account = c.as
    BY <1>1, <1>7 DEF Effect, Calls, CallOK, Rows
  <1>9. ServerOK'
    BY <1>1, <1>8 DEF ServerOK, SInv, Apply
  <1>10. DialogsOK'
    BY SameDetails DEF SInv, DialogsOK, Apply, dialogs
  <1> QED
    BY <1>5, <1>6, <1>9, <1>10, SameToken DEF SInv, Apply

\* The calls after one of them was answered.
LEMMA OneCallChanges ==
    ASSUME SInv, NEW i \in CallIds, NEW d \in GoodCalls, calls' = [calls EXCEPT ![i] = d]
    PROVE  /\ CallsOK'
           /\ d.status \in {"applied", "lost"} => ~Quiet(calls')
           /\ calls[i].status \notin {"applied", "lost"} => (Quiet(calls') => Quiet(calls))
  <1>1. /\ calls' \in Seq(GoodCalls) /\ Len(calls') = Len(calls) /\ calls'[i] = d
        /\ \A j \in CallIds : j # i => calls'[j] = calls[j]
    BY ReplaceCall DEF SInv
  <1> QED
    BY <1>1 DEF CallsOK, GoodCalls, Quiet, CallIds

\* The answer to a change: /me is asked for again.
LEMMA AskedAgain ==
    ASSUME SInv, me' = Invalidated(me, token), UNCHANGED <<token, server, page, replaced>>,
           CallsOK', edit' \in EditType,
           edit'.open \/ deletion'.open => edit.open \/ deletion.open
    PROVE  SInv'
  <1>1. token \in Accounts \cup {None} /\ me \in MeType
    BY DEF SInv, MeOK
  <1>2. MeOK' /\ Fresh' /\ TokenOf'
    BY <1>1, InvalidatedKeeps, InvalidatedToken DEF SInv
  <1>3. me'.data = me.data
    BY <1>1, InvalidatedMe
  <1>4. DialogsOK'
    BY <1>3, SameDetails DEF SInv, DialogsOK
  <1> QED
    BY <1>2, <1>4, SameServer DEF SInv

LEMMA LoggedInKeeps == SInv /\ (\E i \in CallIds : LoggedIn(i)) => SInv'
  <1> SUFFICES ASSUME SInv, NEW i \in CallIds, LoggedIn(i) PROVE SInv'
    OBVIOUS
  <1> DEFINE c == calls[i]
             d == [c EXCEPT !.status = "succeeded"]
  <1>1. c \in Calls /\ CallOK(c) /\ c.as \in Accounts /\ c.hook = "login"
    BY CallType DEF SInv, LoggedIn, Answered, CallOK
  <1>2. d \in GoodCalls
    BY <1>1 DEF GoodCalls, Calls, CallOK
  <1>3. CallsOK'
    <2>1. calls' = Orphaned([calls EXCEPT ![i] = d])
      BY DEF LoggedIn
    <2>2. [calls EXCEPT ![i] = d] \in Seq(GoodCalls)
      BY <1>2, ReplaceCall DEF SInv
    <2> QED
      BY <2>1, <2>2, OrphanedCallsOK
  <1>4. me \in MeType /\ token' = c.as /\ me' = Invalidated(me, c.as)
    BY DEF LoggedIn, SInv, MeOK
  <1>5. MeOK' /\ Fresh'
    BY <1>1, <1>4, InvalidatedKeeps DEF SInv
  <1>6. TokenOf'
    <2> SUFFICES ASSUME ~replaced' PROVE TokenOf'
      BY DEF TokenOf
    <2>1. ~replaced /\ token \in {None, c.as} /\ c.as # None
      BY <1>1 DEF LoggedIn
    <2>2. me'.data = me.data
      BY <1>1, <1>4, InvalidatedMe
    <2>3. me'.fetch # "idle" => me'.as = c.as
      BY <1>1, <1>4, <2>1, InvalidatedMe DEF SInv, TokenOf, Unanswered
    <2>4. me.data # None => me.data.account = c.as
      BY <2>1 DEF SInv, TokenOf, Unanswered
    <2> QED
      BY <1>4, <2>1, <2>2, <2>3, <2>4 DEF TokenOf
  <1> QED
    BY <1>3, <1>5, <1>6, SameServer, LeavingKeeps DEF SInv, LoggedIn

\* A hook was answered: who sent the change still waits.
LEMMA HookAnswered ==
    ASSUME SInv, NEW i \in CallIds, calls[i].hook # "none",
           calls' = [calls EXCEPT ![i].status = "succeeded"],
           me' = Invalidated(me, token), UNCHANGED <<token, server, page, dialogs, replaced>>
    PROVE  SInv'
  <1> DEFINE d == [calls[i] EXCEPT !.status = "succeeded"]
  <1>1. d \in GoodCalls
    BY CallType DEF SInv, GoodCalls, Calls, CallOK
  <1>2. CallsOK'
    BY <1>1, OneCallChanges
  <1> QED
    BY <1>2, AskedAgain DEF dialogs, SInv, DialogsOK

LEMMA UsernameSetKeeps == SInv /\ (\E i \in CallIds : UsernameSet(i)) => SInv'
  BY HookAnswered DEF UsernameSet, Answered

LEMMA UsernameSavedKeeps == SInv /\ (\E i \in CallIds : UsernameSaved(i)) => SInv'
  BY HookAnswered DEF UsernameSaved, Answered

LEMMA ProfileSavedKeeps == SInv /\ (\E i \in CallIds : ProfileSaved(i)) => SInv'
  BY HookAnswered DEF ProfileSaved, Answered

\* Who waited goes on: a call that had its answer becomes another, or is over.
LEMMA GoesOn ==
    ASSUME SInv, NEW i \in CallIds, NEW d \in GoodCalls, Reloaded(i),
           calls' = [calls EXCEPT ![i] = d],
           UNCHANGED <<token, me, server, page, replaced>>,
           edit' \in EditType, edit'.open \/ deletion'.open => edit.open \/ deletion.open
    PROVE  SInv'
  <1>1. CallsOK' /\ (Quiet(calls') => Quiet(calls))
    BY OneCallChanges DEF Reloaded
  <1>2. DialogsOK'
    BY SameDetails DEF SInv, DialogsOK
  <1> QED
    BY <1>1, <1>2, SameToken, SameServer, SameAnswers DEF SInv

LEMMA SaveProfileKeeps == SInv /\ (\E i \in CallIds : SaveProfile(i)) => SInv'
  <1> SUFFICES ASSUME SInv, NEW i \in CallIds, SaveProfile(i) PROVE SInv'
    OBVIOUS
  <1> DEFINE d == [calls[i] EXCEPT !.hook = "profile", !.as = token, !.name = None,
                                   !.status = "sent"]
  <1>1. token \in Accounts \cup {None}
    BY DEF SInv, MeOK
  <1>2. d \in GoodCalls
    <2>1. calls[i] \in Calls
      BY CallType DEF SInv
    <2>2. d \in Calls /\ d.hook = "profile" /\ d.status = "sent"
      BY <1>1, <2>1 DEF Calls
    <2> QED
      BY <2>2 DEF GoodCalls, CallOK
  <1>3. calls' = [calls EXCEPT ![i] = d]
    BY DEF SaveProfile
  <1>4. edit' \in EditType /\ (edit'.open \/ deletion'.open => edit.open \/ deletion.open)
    BY DEF SaveProfile, dialogs, SInv, DialogsOK
  <1> HIDE DEF d
  <1> QED
    BY <1>2, <1>3, <1>4, GoesOn DEF SaveProfile

LEMMA SavedKeeps == SInv /\ (\E i \in CallIds : Saved(i)) => SInv'
  <1> SUFFICES ASSUME SInv, NEW i \in CallIds, Saved(i) PROVE SInv'
    OBVIOUS
  <1>1. Closed \in EditType /\ ~Closed.open
    BY DEF Closed, EditType
  <1>2. edit' \in EditType /\ (edit'.open \/ deletion'.open => edit.open \/ deletion.open)
    BY <1>1 DEF Saved, SInv, DialogsOK
  <1> QED
    BY <1>2, OverCall, GoesOn DEF Saved

LEMMA DeletedKeeps == SInv /\ (\E i \in CallIds : Deleted(i)) => SInv'
  <1> SUFFICES ASSUME SInv, NEW i \in CallIds, Deleted(i) PROVE SInv'
    OBVIOUS
  <1>1. [calls EXCEPT ![i] = Over] \in Seq(GoodCalls)
    BY OverCall, ReplaceCall DEF SInv
  <1>2. CallsOK'
    BY <1>1, OrphanedCallsOK DEF Deleted
  <1>3. DialogsOK'
    BY DEF Deleted, DialogsOK, Closed, EditType
  <1> QED
    BY <1>2, <1>3, SameServer, LogoutStep DEF Deleted

\* A refused call did nothing; of one whose answer is lost nothing is known.
LEMMA FailKeeps == SInv /\ (\E i \in CallIds : Fail(i)) => SInv'
  <1> SUFFICES ASSUME SInv, NEW i \in CallIds, Fail(i) PROVE SInv'
    OBVIOUS
  <1> DEFINE d == IF calls[i].status = "applied" THEN Lost ELSE Over
  <1>1. calls' = [calls EXCEPT ![i] = d] /\ d \in GoodCalls
    BY OverCall DEF Fail
  <1>2. CallsOK'
    BY <1>1, OneCallChanges
  <1>3. Quiet(calls') => Quiet(calls)
    <2>1. CASE calls[i].status = "applied"
      <3>1. calls' = [calls EXCEPT ![i] = Lost] /\ Lost.status = "lost"
        BY <1>1, <2>1 DEF Lost, Over
      <3> QED
        BY <3>1, OverCall, OneCallChanges
    <2>2. CASE calls[i].status = "sent"
      BY <1>1, <2>2, OneCallChanges
    <2> QED
      BY <2>1, <2>2 DEF Fail, InFlight
  <1>4. edit \in EditType /\ (edit.open \/ deletion.open => Details(page, token, me))
    BY DEF SInv, DialogsOK
  <1>5. edit' \in EditType /\ (edit'.open => edit.open)
    BY <1>4 DEF Fail, EditType
  <1>6. deletion'.open => deletion.open
    BY DEF Fail
  <1>7. DialogsOK'
    BY <1>4, <1>5, <1>6, SameDetails DEF Fail
  <1> QED
    BY <1>2, <1>3, <1>7, SameToken, SameServer, SameAnswers DEF SInv, Fail

LEMMA LeaveFormKeeps == SInv /\ (\E i \in CallIds : LeaveForm(i)) => SInv'
  <1> SUFFICES ASSUME SInv, NEW i \in CallIds, LeaveForm(i) PROVE SInv'
    OBVIOUS
  <1> DEFINE s == [calls EXCEPT ![i] = Over]
  <1>1. /\ s \in Seq(GoodCalls) /\ Len(s) = Len(calls)
        /\ \A j \in CallIds : j # i => s[j] = calls[j]
    BY OverCall, ReplaceCall DEF SInv
  <1>2. calls[i].status = "succeeded"
    BY DEF LeaveForm, Reloaded
  <1>3. Quiet(s) => Quiet(calls)
    BY <1>1, <1>2 DEF Quiet, CallIds
  <1>4. calls' = Orphaned(s)
    BY DEF LeaveForm
  <1> HIDE DEF s
  <1> QED
    BY <1>1, <1>3, <1>4, MovesOn DEF LeaveForm

--------------------------------------------------------------------------------

LEMMA SessionInvariant == Spec => []SInv
<1>1. Init => SInv
  <2> SUFFICES ASSUME Init PROVE SInv
    OBVIOUS
  <2>1. MeOK /\ TokenOf /\ Fresh
    BY UnansweredType DEF Init, MeOK, TokenOf, Fresh, Unanswered
  <2>2. ServerOK
    BY DEF Init, ServerOK
  <2>3. CallsOK
    BY DEF Init, CallsOK
  <2>4. DialogsOK
    BY DEF Init, DialogsOK, Closed, EditType
  <2> QED
    BY <2>1, <2>2, <2>3, <2>4 DEF SInv
<1>2. SInv /\ [Next]_vars => SInv'
  <2>1. SInv /\ UNCHANGED vars => SInv'
    BY DEF vars, dialogs, SInv, MeOK, ServerOK, CallsOK, DialogsOK, TokenOf, Fresh, Quiet,
       Details
  <2> QED
    BY <2>1, FetchMeKeeps, ServeMeKeeps, MeArrivesKeeps, MeIsOldKeeps, HandleLogoutKeeps,
       HandleSubmitKeeps, SetTokenStepsKeep, LoadKeeps, NavigationKeeps, SetUsernameKeeps,
       DialogStepsKeep, HandleSaveKeeps, HandleDeleteKeeps, ApplyKeeps, LoggedInKeeps,
       UsernameSetKeeps, UsernameSavedKeeps, ProfileSavedKeeps, DeletedKeeps, FailKeeps,
       LeaveFormKeeps, MeFailsKeeps, SaveProfileKeeps, SavedKeeps
    DEF Next
<1> QED
  BY <1>1, <1>2, PTL DEF Spec

\* MeAgrees: once every change was answered, the account that is shown as fresh is the
\* one of the token, as the server has it, whatever loads, changes and pages overlapped.
THEOREM SessionMeAgrees == Spec => []MeAgrees
<1>1. SInv => MeAgrees
  <2> SUFFICES ASSUME SInv, SignedIn, me.valid, ~me.late, ~replaced, Quiet(calls)
               PROVE  me.data = server[token]
    BY DEF MeAgrees, Quiet, CallIds
  <2>1. token # None /\ me.data # None
    BY DEF SignedIn, Me
  <2>2. me.data.account = token
    BY <2>1 DEF SInv, TokenOf
  <2>3. me.data = server[me.data.account]
    BY DEF SInv, Fresh
  <2> QED
    BY <2>2, <2>3
<1> QED
  BY <1>1, SessionInvariant, PTL

\* DeletesTheConfirmed: while the token was not replaced under what is shown, what is
\* deleted is the account on the screen, whose name was typed.
THEOREM SessionDeletesTheConfirmed == Spec => DeletesTheConfirmed
<1> DEFINE Step == \A i \in CallIds' :
          i \notin CallIds /\ calls'[i].hook = "delete" /\ ~replaced =>
              calls'[i].as = me.data.account /\ deletion.input = NameShown
<1>1. SInv /\ [Next]_vars => [Step]_vars
  <2> SUFFICES ASSUME SInv, [Next]_vars, NEW i \in CallIds', i \notin CallIds,
                      calls'[i].hook = "delete", ~replaced
               PROVE  calls'[i].as = me.data.account /\ deletion.input = NameShown
    OBVIOUS
  <2>0. calls \in Seq(GoodCalls) /\ CallIds = 1..Len(calls) /\ CallIds' = 1..Len(calls')
    BY SameCalls DEF CallIds
  <2>1. ASSUME NEW h \in {"login", "username", "save", "profile", "delete"},
               NEW as \in Accounts \cup {None}, NEW n \in Names \cup {None}, Send(h, as, n)
        PROVE  h = "delete" /\ calls'[i].as = as
    <3>1. /\ Len(calls') = Len(calls) + 1
          /\ calls'[Len(calls) + 1].hook = h
          /\ calls'[Len(calls) + 1].as = as
      BY <2>1, SendKeeps DEF SInv
    <3>2. i = Len(calls) + 1
      BY <2>0, <3>1
    <3> QED
      BY <3>1, <3>2
  <2>2. token \in Accounts \cup {None} /\ edit \in EditType
    BY DEF SInv, MeOK, DialogsOK
  <2>3. ~ handleSubmit
    BY <2>1 DEF handleSubmit
  <2>4. ~ SetUsername
    BY <2>1, <2>2 DEF SetUsername
  <2>5. ~ handleSave
    BY <2>1, <2>2 DEF handleSave, EditType
  <2>6. CASE handleDelete
    <3>1. Send("delete", token, None) /\ deletion.open /\ deletion.input = NameShown
      BY <2>6 DEF handleDelete, canDelete
    <3>2. calls'[i].as = token
      BY <2>1, <2>2, <3>1
    <3>3. token # None /\ me.data # None
      BY <3>1 DEF SInv, DialogsOK, Details
    <3> QED
      BY <3>1, <3>2, <3>3 DEF SInv, TokenOf
  <2>7. Len(calls') # Len(calls)
    BY <2>0
  <2>8. ASSUME NEW s \in Seq(GoodCalls), Len(s) = Len(calls), calls' = Orphaned(s)
        PROVE  FALSE
    BY <2>7, <2>8, OrphanedKeeps
  <2>9. ASSUME NEW j \in CallIds, NEW d \in GoodCalls
        PROVE  /\ [calls EXCEPT ![j] = d] \in Seq(GoodCalls)
               /\ Len([calls EXCEPT ![j] = d]) = Len(calls)
    BY ReplaceCall DEF SInv
  <2>10. ~ (handleLogout \/ CallbackHandler \/ HandleStorage \/ Navigate
              \/ RedirectForUsername)
    BY <2>0, <2>8 DEF handleLogout, CallbackHandler, HandleStorage, Navigate,
       RedirectForUsername
  <2>11. ~ Load
    BY <2>0, <2>7 DEF Load
  <2>12. ASSUME NEW j \in CallIds
         PROVE  ~ (LoggedIn(j) \/ Deleted(j) \/ LeaveForm(j))
    <3>1. ~ LoggedIn(j)
      <4> SUFFICES ASSUME LoggedIn(j) PROVE FALSE
        OBVIOUS
      <4>1. [calls[j] EXCEPT !.status = "succeeded"] \in GoodCalls
        BY CallType DEF LoggedIn, Answered, SInv, GoodCalls, Calls, CallOK
      <4> QED
        BY <2>8, <2>9, <4>1 DEF LoggedIn
    <3> QED
      BY <2>8, <2>9, <3>1, OverCall DEF Deleted, LeaveForm
  <2>13. ASSUME NEW j \in CallIds
         PROVE  ~ (Apply(j) \/ UsernameSet(j) \/ UsernameSaved(j) \/ ProfileSaved(j)
                     \/ Fail(j) \/ SaveProfile(j) \/ Saved(j))
    BY <2>0, <2>7 DEF Apply, UsernameSet, UsernameSaved, ProfileSaved, Fail, SaveProfile,
       Saved
  <2>14. ~ UNCHANGED calls
    BY <2>7
  <2> QED
    BY <2>3, <2>4, <2>5, <2>6, <2>10, <2>11, <2>12, <2>13, <2>14
    DEF Next, vars, FetchMe, ServeMe, MeFails, MeArrives, MeIsOld, OpenEdit, TypeUsername, CloseEdit,
        OpenDelete, TypeConfirm, CloseDelete
<1> QED
  BY <1>1, SessionInvariant, PTL DEF Spec, DeletesTheConfirmed
=============================================================================
