------------------------------- MODULE Session -------------------------------
(***************************************************************************)
(* Who is signed in, as one tab of the web front end sees it: the token in *)
(* localStorage, which other tabs and two pages change as well             *)
(* (AuthService.ts), the answer of /me that the hooks of useAuth.ts keep   *)
(* without asking whose token fetched it, and the dialogs that change the  *)
(* profile or delete the account (EditProfileModal.tsx,                    *)
(* DeleteAccountModal.tsx).  A request carries the token of the moment it  *)
(* is sent; nothing waits for the requests of a dialog that was closed.    *)
(***************************************************************************)
EXTENDS Naturals, Sequences

CONSTANTS
    Accounts, Names,
    None,      \* no token, no name, no dialog, no answer
    Starts,    \* rows the server may start with
    MaxCalls   \* bound: requests of forms and dialogs in a behaviour

VARIABLES
    token,     \* what localStorage holds
    me,        \* the query of /me
    server,    \* the row of each account
    calls,     \* requests of forms and dialogs, in order
    page,      \* the page that is mounted
    edit,      \* the dialog that edits the profile: its username, and its request
    deletion,  \* the dialog that deletes the account: its input, and its request
    replaced   \* history: the token changed under an answer of /me or a load of it:
               \* elsewhere, or by a form that signs in over a session

dialogs == <<edit, deletion>>
vars == <<token, me, server, calls, page, dialogs, replaced>>

\* "arrival" is a page that a provider or a mailed link leads to; "other" is every
\* other page, the one with the login form among them.
Pages == {"account", "set-username", "arrival", "other"}
Rows == [account : Accounts, exists : BOOLEAN, name : Names \cup {None}, saved : BOOLEAN]

\* A call whose answer is awaited by something else than its hook has succeeded until
\* /me was loaded again; then a save of the username goes on to the profile.  here: the
\* page that sent the save is still mounted.  A call that was dealt with is over; one
\* whose answer was lost is not, whatever it did.
Calls ==
    [hook : {"login", "username", "save", "profile", "delete", "none"},
     as : Accounts \cup {None}, name : Names \cup {None}, here : BOOLEAN,
     status : {"sent", "applied", "succeeded", "lost", "over"}]
Over == [hook |-> "none", as |-> None, name |-> None, here |-> FALSE, status |-> "over"]
Lost == [Over EXCEPT !.status = "lost"]

Unanswered == [data |-> None, valid |-> FALSE, fetch |-> "idle", as |-> None,
               answer |-> None, late |-> FALSE]

Closed == [open |-> FALSE, input |-> None, call |-> 0]

ASSUME SessionAssumption ==
    /\ None \notin Accounts \cup Names \cup Rows
    /\ Accounts \cap Names = {}
    /\ Starts \subseteq {s \in [Accounts -> Rows] : \A a \in Accounts : s[a].account = a}
    /\ MaxCalls \in Nat

Init ==
    /\ token = None
    /\ me = Unanswered
    /\ server \in Starts
    /\ calls = <<>>
    /\ page = "other"
    /\ edit = Closed /\ deletion = Closed
    /\ replaced = FALSE

--------------------------------------------------------------------------------
(* The token and the query of /me. *)

CallIds == 1..Len(calls)
InFlight(i) == calls[i].status \in {"sent", "applied"}

\* useMe hides the answer while there is no token.
Me == IF token = None THEN None ELSE me.data
SignedIn == Me # None
NameShown == IF Me.name = None THEN Me.account ELSE Me.name

Loading(m, as) ==
    [m EXCEPT !.valid = FALSE, !.fetch = "asked", !.as = as, !.answer = None, !.late = FALSE]

\* invalidateQueries(["me"]): a first load under way is not started again.
Invalidated(m, as) ==
    IF as # None /\ (m.fetch = "idle" \/ m.data # None) THEN Loading(m, as)
    ELSE [m EXCEPT !.valid = FALSE, !.late = (m.fetch # "idle")]

\* The details of the account are shown on its page as long as there are any.
Details(p, t, m) == p = "account" /\ t # None /\ m.data # None

\* What is lost with the details: the dialogs, and who waits for their requests.
Leaving ==
    IF Details(page, token, me) /\ ~Details(page', token', me')
    THEN edit' = Closed /\ deletion' = Closed
    ELSE UNCHANGED <<edit, deletion>>

Orphaned(s) ==
    IF Details(page, token, me) /\ ~Details(page', token', me')
    THEN [i \in 1..Len(s) |-> [s[i] EXCEPT !.here = FALSE]]
    ELSE s

\* setToken in another tab, or in a page that is opened with a token.
SetToken(t) ==
    /\ token' = t
    /\ replaced' = (replaced \/ (t # token /\ me # Unanswered))

\* useMe asks when it is mounted or enabled, and later when its answer is old.
FetchMe ==
    /\ token # None
    /\ ~me.valid /\ me.fetch = "idle"
    /\ me' = Loading(me, token)
    /\ UNCHANGED <<token, server, calls, page, dialogs, replaced>>

ServeMe ==
    /\ me.fetch = "asked" /\ server[me.as].exists
    /\ me' = [me EXCEPT !.fetch = "answered", !.answer = server[me.as]]
    /\ UNCHANGED <<token, server, calls, page, dialogs, replaced>>

\* Refused, as for an account that is gone, or failed on either way: it is not tried
\* again, and an earlier answer stays.
MeFails ==
    /\ me.fetch # "idle"
    /\ me' = [me EXCEPT !.fetch = "idle", !.as = None, !.answer = None, !.late = FALSE]
    /\ UNCHANGED <<token, server, calls, page, dialogs, replaced>>

MeArrives ==
    /\ me.fetch = "answered"
    /\ me' = [me EXCEPT !.data = me.answer, !.valid = TRUE, !.fetch = "idle",
                        !.as = None, !.answer = None]
    /\ replaced' = (replaced /\ me.as # token)
    /\ UNCHANGED <<token, server, calls, page, dialogs>>

\* Five minutes later.
MeIsOld ==
    /\ me.valid
    /\ me' = [me EXCEPT !.valid = FALSE]
    /\ UNCHANGED <<token, server, calls, page, dialogs, replaced>>

--------------------------------------------------------------------------------
(* Signing in and out. *)

\* A slip: signing out leaves the answers of the session in the client.
Logout_KeepsAnswers == token' = None /\ UNCHANGED <<me, replaced>>

\* useLogout: the client forgets everything, loads under way included.
Logout ==
    /\ token' = None
    /\ me' = Unanswered
    /\ replaced' = FALSE

handleLogout ==
    /\ SignedIn
    /\ Logout
    /\ page' = "other"
    /\ UNCHANGED server
    /\ calls' = Orphaned(calls)
    /\ Leaving

Send(hook, as, name) ==
    /\ Len(calls) < MaxCalls
    /\ calls' = Append(calls, [hook |-> hook, as |-> as, name |-> name,
                               here |-> hook \in {"save", "profile"}, status |-> "sent"])

\* LoginForm is shown whoever is signed in; mounted again, it does not know of a
\* request that is still under way.
handleSubmit ==
    /\ page = "other"
    /\ \E a \in Accounts : Send("login", a, None)
    /\ UNCHANGED <<token, me, server, page, dialogs, replaced>>

\* The page sets the token it is given; by then the navigation bar above it may have
\* asked for /me with the token that was there.
CallbackHandler ==
    /\ page = "arrival"
    /\ \E a \in Accounts : server[a].exists /\ SetToken(a)
    /\ page' = "other"
    /\ UNCHANGED <<me, server>>
    /\ calls' = Orphaned(calls)
    /\ Leaving

\* The storage event tells of a token, or of none, set in another tab.
HandleStorage ==
    /\ \E t \in {a \in Accounts : server[a].exists} \cup {None} : t # token /\ SetToken(t)
    /\ UNCHANGED <<me, server, page>>
    /\ calls' = Orphaned(calls)
    /\ Leaving

--------------------------------------------------------------------------------
(* Pages. *)

\* The document is loaded, again or from a link elsewhere: nothing but localStorage
\* is kept.  (A request that reaches the server only after that is left out.)
Load ==
    /\ \E p \in Pages : page' = p
    /\ me' = Unanswered
    /\ calls' = [i \in CallIds |-> IF calls[i].status \in {"lost", "sent", "applied"}
                                   THEN Lost ELSE Over]
    /\ edit' = Closed /\ deletion' = Closed
    /\ replaced' = FALSE
    /\ UNCHANGED <<token, server>>

\* Links, Back and Forward.
Navigate ==
    /\ \E p \in Pages \ {"arrival", page} : page' = p
    /\ UNCHANGED <<token, me, server, replaced>>
    /\ calls' = Orphaned(calls)
    /\ Leaving

\* The navigation bar sends who has no username to the page that asks for one, and
\* that page sends back who has one.
RedirectForUsername ==
    /\ SignedIn
    /\ \/ Me.name = None /\ page # "set-username" /\ page' = "set-username"
       \/ Me.name # None /\ page = "set-username" /\ page' = "other"
    /\ UNCHANGED <<token, me, server, replaced>>
    /\ calls' = Orphaned(calls)
    /\ Leaving

\* The form is shown to everybody without a username, signed in or not; it too can be
\* mounted again before it has its answer.
SetUsername ==
    /\ page = "set-username"
    /\ me.fetch = "idle" \/ me.data # None
    /\ SignedIn => Me.name = None
    /\ \E n \in Names : Send("username", token, n)
    /\ UNCHANGED <<token, me, server, page, dialogs, replaced>>

\* Who sent a change waits until /me was loaded again, or could not be.  (Where another
\* change starts the load anew the client stops waiting; here it waits for that one.)
Reloaded(i) == calls[i].status = "succeeded" /\ me.fetch = "idle"

\* Then both forms leave, from wherever the user is by then; the login form only if
\* there is an answer.
LeaveForm(i) ==
    /\ Reloaded(i) /\ calls[i].hook \in {"login", "username"}
    /\ page' = IF calls[i].hook = "username" \/ me.valid THEN "other" ELSE page
    /\ UNCHANGED <<token, me, server, replaced>>
    /\ calls' = Orphaned([calls EXCEPT ![i] = Over])
    /\ Leaving

--------------------------------------------------------------------------------
(* The dialogs of the account. *)

NoDialog == Details(page, token, me) /\ ~edit.open /\ ~deletion.open

\* EditProfileModal: the inputs hold what was shown when it was opened.
OpenEdit ==
    /\ NoDialog
    /\ edit' = [Closed EXCEPT !.open = TRUE, !.input = Me.name]
    /\ UNCHANGED <<token, me, server, calls, page, deletion, replaced>>

TypeUsername ==
    /\ edit.open
    /\ \E n \in Names \ {edit.input} : edit' = [edit EXCEPT !.input = n]
    /\ UNCHANGED <<token, me, server, calls, page, deletion, replaced>>

\* Escape closes it while it saves, too.
CloseEdit ==
    /\ edit.open
    /\ edit' = Closed
    /\ UNCHANGED <<token, me, server, calls, page, deletion, replaced>>

handleSave ==
    /\ edit.open /\ edit.call = 0
    /\ IF Me.name # None /\ edit.input \notin {None, Me.name}
       THEN Send("save", token, edit.input)
       ELSE Send("profile", token, None)
    /\ edit' = [edit EXCEPT !.call = Len(calls) + 1]
    /\ UNCHANGED <<token, me, server, page, deletion, replaced>>

OpenDelete ==
    /\ NoDialog
    /\ deletion' = [Closed EXCEPT !.open = TRUE]
    /\ UNCHANGED <<token, me, server, calls, page, edit, replaced>>

TypeConfirm ==
    /\ deletion.open
    /\ deletion' = [deletion EXCEPT !.input = NameShown]
    /\ UNCHANGED <<token, me, server, calls, page, edit, replaced>>

CloseDelete ==
    /\ deletion.open
    /\ deletion' = Closed
    /\ UNCHANGED <<token, me, server, calls, page, edit, replaced>>

canDelete == deletion.open /\ deletion.input = NameShown

handleDelete ==
    /\ canDelete /\ deletion.call = 0
    /\ Send("delete", token, None)
    /\ deletion' = [deletion EXCEPT !.call = Len(calls) + 1]
    /\ UNCHANGED <<token, me, server, page, edit, replaced>>

--------------------------------------------------------------------------------
(* The server. *)

Allowed(c) ==
    /\ c.as # None /\ server[c.as].exists
    /\ c.hook \in {"username", "save"} => \A a \in Accounts : server[a].name # c.name

Effect(c) ==
    CASE c.hook = "login" -> server[c.as]
      [] c.hook \in {"username", "save"} -> [server[c.as] EXCEPT !.name = c.name]
      [] c.hook = "profile" -> [server[c.as] EXCEPT !.saved = TRUE]
      [] c.hook = "delete" -> [server[c.as] EXCEPT !.exists = FALSE, !.name = None]

Apply(i) ==
    /\ calls[i].status = "sent"
    /\ Allowed(calls[i])
    /\ server' = [server EXCEPT ![calls[i].as] = Effect(calls[i])]
    /\ calls' = [calls EXCEPT ![i].status = "applied"]
    /\ UNCHANGED <<token, me, page, dialogs, replaced>>

--------------------------------------------------------------------------------
(* Answers. *)

Answered(i, hook) == calls[i].status = "applied" /\ calls[i].hook = hook

\* LoginUseCase sets the token, useLogin asks for /me again.
LoggedIn(i) ==
    /\ Answered(i, "login")
    /\ token' = calls[i].as
    /\ replaced' = (replaced \/ token \notin {None, calls[i].as})
    /\ me' = Invalidated(me, calls[i].as)
    /\ UNCHANGED <<server, page>>
    /\ calls' = Orphaned([calls EXCEPT ![i].status = "succeeded"])
    /\ Leaving

UsernameSet(i) ==
    /\ Answered(i, "username")
    /\ me' = Invalidated(me, token)
    /\ calls' = [calls EXCEPT ![i].status = "succeeded"]
    /\ UNCHANGED <<token, server, page, dialogs, replaced>>

\* The hooks of the dialog ask for /me again, too, and the dialog waits for it.
UsernameSaved(i) ==
    /\ Answered(i, "save")
    /\ me' = Invalidated(me, token)
    /\ calls' = [calls EXCEPT ![i].status = "succeeded"]
    /\ UNCHANGED <<token, server, page, dialogs, replaced>>

\* The second request of a save carries the token of this moment.
SaveProfile(i) ==
    /\ Reloaded(i) /\ calls[i].hook = "save"
    /\ calls' = [calls EXCEPT ![i] = [@ EXCEPT !.hook = "profile", !.as = token,
                                                !.name = None, !.status = "sent"]]
    /\ UNCHANGED <<token, me, server, page, dialogs, replaced>>

\* A slip: the profile is shown as it was until it is old.
ProfileSaved_NotAskedAgain(i) ==
    /\ Answered(i, "profile")
    /\ calls' = [calls EXCEPT ![i].status = "succeeded"]
    /\ UNCHANGED <<token, me, server, page, dialogs, replaced>>

ProfileSaved(i) ==
    /\ Answered(i, "profile")
    /\ me' = Invalidated(me, token)
    /\ calls' = [calls EXCEPT ![i].status = "succeeded"]
    /\ UNCHANGED <<token, server, page, dialogs, replaced>>

\* onSaved closes the dialog that is open by then.
Saved(i) ==
    /\ Reloaded(i) /\ calls[i].hook = "profile"
    /\ calls' = [calls EXCEPT ![i] = Over]
    /\ edit' = IF calls[i].here THEN Closed ELSE edit
    /\ UNCHANGED <<token, me, server, page, deletion, replaced>>

\* onDeleted signs out whoever is signed in by then.
Deleted(i) ==
    /\ Answered(i, "delete")
    /\ Logout
    /\ page' = "other"
    /\ UNCHANGED server
    /\ calls' = Orphaned([calls EXCEPT ![i] = Over])
    /\ edit' = Closed /\ deletion' = Closed

\* Refused, or the answer did not arrive: the dialog that sent the call says so.
Fail(i) ==
    /\ InFlight(i)
    /\ calls' = [calls EXCEPT ![i] = IF @.status = "applied" THEN Lost ELSE Over]
    /\ edit' = IF edit.call = i THEN [edit EXCEPT !.call = 0] ELSE edit
    /\ deletion' = IF deletion.call = i THEN [deletion EXCEPT !.call = 0] ELSE deletion
    /\ UNCHANGED <<token, me, server, page, replaced>>

--------------------------------------------------------------------------------

Next ==
    \/ FetchMe \/ ServeMe \/ MeFails \/ MeArrives \/ MeIsOld
    \/ handleLogout \/ handleSubmit \/ CallbackHandler \/ HandleStorage
    \/ Load \/ Navigate \/ RedirectForUsername \/ SetUsername
    \/ OpenEdit \/ TypeUsername \/ CloseEdit \/ handleSave
    \/ OpenDelete \/ TypeConfirm \/ CloseDelete \/ handleDelete
    \/ \E i \in CallIds :
          \/ Apply(i) \/ LoggedIn(i) \/ UsernameSet(i) \/ UsernameSaved(i) \/ ProfileSaved(i)
          \/ Deleted(i) \/ Fail(i) \/ LeaveForm(i) \/ SaveProfile(i) \/ Saved(i)

Spec == Init /\ [][Next]_vars

--------------------------------------------------------------------------------
(* Properties. *)

\* Once every change was answered, an answer of /me that is shown and counts as fresh
\* is the server's row of the account of the token: unless the token was replaced
\* under it, or a first load was under way when a change was answered.
MeAgrees ==
    SignedIn /\ me.valid /\ ~me.late /\ ~replaced
        /\ (\A i \in CallIds : calls[i].status \notin {"applied", "lost"})
        => me.data = server[token]

\* The account that is deleted is the one whose name is shown, and that name was
\* typed, unless the token was replaced under what is shown: whoever signs in after
\* somebody else signed out never deletes with the other's name.
DeletesTheConfirmed ==
    [][\A i \in CallIds' :
          i \notin CallIds /\ calls'[i].hook = "delete" /\ ~replaced =>
              calls'[i].as = me.data.account /\ deletion.input = NameShown]_vars
=============================================================================
