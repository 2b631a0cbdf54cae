------------------------------ MODULE Identity ------------------------------
(***************************************************************************)
(* Users, their accounts and their one-time tokens, under the requests of  *)
(* api/service/auth/auth_service.go.  A user is who signs in, by password  *)
(* or by a provider; an account is what plates and organizations refer to, *)
(* and a user may have one per provider.  As in the other services a       *)
(* request reads rows, works on copies and saves whole rows; only DeleteMe *)
(* writes in one transaction, whose reads still see other requests' commits *)
(* (PostgreSQL's READ COMMITTED).                                          *)
(*                                                                         *)
(* PostgreSQL keeps users' emails unique and the foreign keys from account *)
(* and token to user.  A statement that would violate either is not taken: *)
(* it fails, which is Interrupt.                                           *)
(***************************************************************************)
EXTENDS Integers

CONSTANTS
    Emails,                \* addresses people register with
    NoEmail,               \* the empty address, which the unique index counts too
    Identities,            \* identities at OAuth providers
    Local,                 \* the provider of accounts without an OAuth identity
    IdentityEmail,         \* the address in a provider's profile, NoEmail if hidden
    VerificationRequired,  \* auth.email_verification.enabled
    Requests,              \* API requests that can be in flight at once
    MaxRequests            \* bound: API requests in a behaviour

ASSUME IdentityAssumption ==
    /\ NoEmail \notin Emails
    /\ Local \notin Identities
    /\ IdentityEmail \in [Identities -> Emails \cup {NoEmail}]
    /\ VerificationRequired \in BOOLEAN
    /\ MaxRequests \in Nat

VARIABLES
    users,     \* the "user" rows
    accounts,  \* the account rows
    tokens,    \* the email_verification and password_reset rows
    request,   \* what each API request holds in memory
    started,   \* API requests started so far
    proved,    \* history: users created active, or whose verification was opened
    mailed,    \* history: users a password reset was mailed to
    done       \* history: ids of the tokens whose effect was saved

tables == <<users, accounts, tokens>>
history == <<proved, mailed, done>>
vars == <<tables, request, started, history>>

\* A row's id is the number of the request that made it; 0 is no row.
Ids == 0..MaxRequests

\* A password is "first" as long as it is the one its user was created with, and
\* "later" once a reset has chosen it; OAuth users have none.
UserRows ==
    [exists   : BOOLEAN,
     email    : Emails \cup {NoEmail},
     active   : BOOLEAN,
     password : {"none", "first", "later"}]

NoUser == [exists |-> FALSE, email |-> NoEmail, active |-> FALSE, password |-> "none"]

AccountRows == [id : Ids, user : Ids, identity : Identities \cup {Local}]

NoAccount == [id |-> 0, user |-> 0, identity |-> Local]

TokenRows ==
    [id : Ids, user : Ids, kind : {"verification", "reset"},
     status : {"live", "used", "expired"}]

Steps == {"idle", "registering", "issuing", "verifying", "activating", "activated",
          "entering", "opening", "looking", "enrolling", "refreshing", "naming",
          "saving", "replacing", "relinking", "profiling", "picturing", "requesting",
          "resetting", "rehashing", "rehashed", "deleting", "leaving", "emptied"}

RequestStates ==
    [pc : Steps, id : Ids,
     user : Ids, row : UserRows,  \* the user it works on, and its copy of the row
     account : AccountRows,       \* the account it read or is to create
     token : Ids]                 \* the token it was given

Idle == [pc |-> "idle", id |-> 0, user |-> 0, row |-> NoUser,
         account |-> NoAccount, token |-> 0]

\* Every variable keeps its type.
TypeOK ==
    /\ users \in [Ids -> UserRows]
    /\ accounts \subseteq AccountRows
    /\ tokens \subseteq TokenRows
    /\ request \in [Requests -> RequestStates]
    /\ started \in 0..MaxRequests
    /\ proved \subseteq Ids
    /\ mailed \subseteq Ids
    /\ done \subseteq Ids

Init ==
    /\ users = [u \in Ids |-> NoUser]
    /\ accounts = {}
    /\ tokens = {}
    /\ request = [r \in Requests |-> Idle]
    /\ started = 0
    /\ proved = {}
    /\ mailed = {}
    /\ done = {}

-----------------------------------------------------------------------------
\* A request has read what it needs and passed its checks.
Begin(r, state) ==
    /\ request[r].pc = "idle"
    /\ started < MaxRequests
    /\ request' = [request EXCEPT ![r] = [state EXCEPT !.id = started + 1]]
    /\ started' = started + 1

Continue(r, state) == request' = [request EXCEPT ![r] = state] /\ UNCHANGED started

Goto(r, step) == Continue(r, [request[r] EXCEPT !.pc = step])

Finish(r) == Continue(r, Idle)

\* A row may be inserted or saved: no other user has its address.
EmailFree(u, row) == \A v \in Ids \ {u} : users[v].exists => users[v].email # row.email

InsertUser(r, u, row) ==
    /\ EmailFree(u, row)
    /\ users' = [users EXCEPT ![u] = row]
    /\ proved' = IF row.active THEN proved \cup {u} ELSE proved

-----------------------------------------------------------------------------
(***************************************************************************)
(* Register.                                                               *)
(***************************************************************************)
LoadToRegister(r) ==
    \E email \in Emails :
        LET row == [exists |-> TRUE, email |-> email,
                    active |-> ~VerificationRequired, password |-> "first"]
        IN  /\ EmailFree(0, row)
            /\ Begin(r, [Idle EXCEPT !.pc = "registering", !.user = started + 1,
                                     !.row = row])
            /\ UNCHANGED <<tables, history>>

CreateUser(r) ==
    /\ request[r].pc = "registering"
    /\ InsertUser(r, request[r].user, request[r].row)
    /\ IF VerificationRequired THEN Goto(r, "issuing") ELSE Finish(r)
    /\ UNCHANGED <<accounts, tokens, mailed, done>>

CreateVerification(r) ==
    /\ request[r].pc = "issuing"
    /\ users[request[r].user].exists
    /\ tokens' = tokens \cup {[id |-> request[r].id, user |-> request[r].user,
                               kind |-> "verification", status |-> "live"]}
    /\ Finish(r)
    /\ UNCHANGED <<users, accounts, history>>

-----------------------------------------------------------------------------
(***************************************************************************)
(* VerifyEmail and ResetPassword: read the token, read its user, save the  *)
(* user, mark the token.                                                   *)
(***************************************************************************)
LoadVerification(r) ==
    \E t \in tokens :
        /\ t.kind = "verification"
        /\ t.status = "live"
        /\ Begin(r, [Idle EXCEPT !.pc = "verifying", !.user = t.user, !.token = t.id])
        /\ proved' = proved \cup {t.user}
        /\ UNCHANGED <<tables, mailed, done>>

\* A slip: the two kinds of token are not told apart.
LoadReset_AnyKind(r) ==
    \E t \in tokens :
        /\ t.status = "live"
        /\ Begin(r, [Idle EXCEPT !.pc = "resetting", !.user = t.user, !.token = t.id])
        /\ UNCHANGED <<tables, history>>

LoadReset(r) ==
    \E t \in tokens :
        /\ t.kind = "reset"
        /\ t.status = "live"
        /\ Begin(r, [Idle EXCEPT !.pc = "resetting", !.user = t.user, !.token = t.id])
        /\ UNCHANGED <<tables, history>>

\* GetByID of the user, and what the handler makes of the copy.
ReadUser(r) ==
    LET q   == request[r]
        row == users[q.user]
    IN  /\ \/ /\ q.pc = "verifying" /\ row.exists
              /\ Continue(r, [q EXCEPT !.pc = "activating",
                                       !.row = [row EXCEPT !.active = TRUE]])
           \/ /\ q.pc = "resetting" /\ row.exists
              /\ Continue(r, [q EXCEPT !.pc = "rehashing",
                                       !.row = [row EXCEPT !.password = "later"]])
           \/ /\ q.pc \in {"naming", "picturing"} /\ row.exists
              /\ Continue(r, [q EXCEPT !.pc = "saving", !.row = row])
           \/ /\ q.pc = "naming" /\ ~row.exists
              /\ Goto(r, "replacing")
        /\ UNCHANGED <<tables, history>>

\* userRepository.Update: Save of the whole copy, inserted again when it is gone.
SaveUser(r) ==
    LET q == request[r]
    IN  /\ EmailFree(q.user, q.row)
        /\ users' = [users EXCEPT ![q.user] = q.row]
        /\ \/ q.pc = "activating" /\ Goto(r, "activated") /\ done' = done \cup {q.token}
           \/ q.pc = "rehashing" /\ Goto(r, "rehashed") /\ done' = done \cup {q.token}
           \/ q.pc = "saving" /\ Finish(r) /\ UNCHANGED done
        /\ UNCHANGED <<accounts, tokens, proved, mailed>>

\* A slip: the token is marked before the user is saved.
MarkUsed_Early(r) ==
    /\ request[r].pc \in {"activating", "activated", "rehashing", "rehashed"}
    /\ tokens' = {IF t.id = request[r].token THEN [t EXCEPT !.status = "used"] ELSE t :
                     t \in tokens}
    /\ IF request[r].pc = "activated" THEN Goto(r, "entering")
       ELSE IF request[r].pc = "rehashed" THEN Finish(r)
       ELSE UNCHANGED <<request, started>>
    /\ UNCHANGED <<users, accounts, history>>

MarkUsed(r) ==
    /\ tokens' = {IF t.id = request[r].token THEN [t EXCEPT !.status = "used"] ELSE t :
                     t \in tokens}
    /\ \/ request[r].pc = "activated" /\ Goto(r, "entering")
       \/ request[r].pc = "rehashed" /\ Finish(r)
    /\ UNCHANGED <<users, accounts, history>>

\* RequestPasswordReset.  The counts that may refuse it are not kept.
LoadToRequestReset(r) ==
    \E u \in Ids :
        /\ users[u].exists
        /\ users[u].email # NoEmail
        /\ Begin(r, [Idle EXCEPT !.pc = "requesting", !.user = u])
        /\ UNCHANGED <<tables, history>>

CreateReset(r) ==
    /\ request[r].pc = "requesting"
    /\ users[request[r].user].exists
    /\ tokens' = tokens \cup {[id |-> request[r].id, user |-> request[r].user,
                               kind |-> "reset", status |-> "live"]}
    /\ mailed' = mailed \cup {request[r].user}
    /\ Finish(r)
    /\ UNCHANGED <<users, accounts, proved, done>>

-----------------------------------------------------------------------------
(***************************************************************************)
(* Signing in: LoginLocal, the end of VerifyEmail, OAuthCallback.          *)
(***************************************************************************)

\* A slip: LoginLocal does not ask whether the user is active.
LoadToLogin_Inactive(r) ==
    \E u \in Ids :
        /\ users[u].exists
        /\ users[u].password # "none"
        /\ Begin(r, [Idle EXCEPT !.pc = "entering", !.user = u])
        /\ UNCHANGED <<tables, history>>

LoadToLogin(r) ==
    \E u \in Ids :
        /\ users[u].exists
        /\ users[u].active
        /\ users[u].password # "none"
        /\ Begin(r, [Idle EXCEPT !.pc = "entering", !.user = u])
        /\ UNCHANGED <<tables, history>>

\* findOrCreateLocalAccount: any account of the user will do.
FindAccount(r) ==
    /\ request[r].pc = "entering"
    /\ IF \E a \in accounts : a.user = request[r].user
       THEN Finish(r)
       ELSE Continue(r, [request[r] EXCEPT !.pc = "opening",
                           !.account = [id |-> request[r].id, user |-> request[r].user,
                                        identity |-> Local]])
    /\ UNCHANGED <<tables, history>>

CreateAccount(r) ==
    /\ request[r].pc = "opening"
    /\ users[request[r].account.user].exists
    /\ accounts' = accounts \cup {request[r].account}
    /\ Finish(r)
    /\ UNCHANGED <<users, tokens, history>>

\* OAuthCallback after the exchange with the provider: GetByProvider.
LoadIdentity(r) ==
    /\ \E i \in Identities :
          \/ \E a \in accounts :
                /\ a.identity = i
                /\ Begin(r, [Idle EXCEPT !.pc = "refreshing", !.account = a])
          \/ /\ \A a \in accounts : a.identity # i
             /\ Begin(r, [Idle EXCEPT !.pc = "looking",
                            !.account = [id |-> started + 1, user |-> 0, identity |-> i]])
    /\ UNCHANGED <<tables, history>>

\* findOrCreateOAuthUser: the user with the profile's address, else a new one.
FindOAuthUser(r) ==
    LET q     == request[r]
        email == IdentityEmail[q.account.identity]
        found == {u \in Ids : users[u].exists /\ users[u].email = email}
    IN  /\ q.pc = "looking"
        /\ \/ /\ email # NoEmail
              /\ \E u \in found :
                    Continue(r, [q EXCEPT !.pc = "opening", !.account.user = u])
           \/ /\ email = NoEmail \/ found = {}
              /\ Continue(r, [q EXCEPT !.pc = "enrolling", !.user = q.id,
                                !.row = [exists |-> TRUE, email |-> email,
                                         active |-> TRUE, password |-> "none"]])
        /\ UNCHANGED <<tables, history>>

CreateOAuthUser(r) ==
    /\ request[r].pc = "enrolling"
    /\ InsertUser(r, request[r].user, request[r].row)
    /\ Continue(r, [request[r] EXCEPT !.pc = "opening",
                                      !.account.user = request[r].user])
    /\ UNCHANGED <<accounts, tokens, mailed, done>>

-----------------------------------------------------------------------------
(***************************************************************************)
(* The signed-in account: UpdateProfile, SetUsername, DeleteMe.            *)
(***************************************************************************)
LoadAccount(r) ==
    \E a \in accounts, step \in {"profiling", "naming", "deleting"} :
        /\ Begin(r, [Idle EXCEPT !.pc = step, !.user = a.user, !.account = a])
        /\ UNCHANGED <<tables, history>>

\* accountRepository.Update: Save of the copy, inserted again when it is gone.
\* UpdateProfile goes on to the user when it was given a picture.
SaveAccount(r) ==
    LET q == request[r]
    IN  /\ users[q.account.user].exists
        /\ accounts' = {a \in accounts : a.id # q.account.id} \cup {q.account}
        /\ \/ q.pc \in {"refreshing", "relinking", "profiling"} /\ Finish(r)
           \/ q.pc = "profiling" /\ Goto(r, "picturing")
        /\ UNCHANGED <<users, tokens, history>>

\* SetUsername of an account whose user is gone by now gets a user of its own,
\* with an empty address.
CreateNamedUser(r) ==
    /\ request[r].pc = "replacing"
    /\ InsertUser(r, request[r].id, [exists |-> TRUE, email |-> NoEmail,
                                     active |-> TRUE, password |-> "none"])
    /\ Continue(r, [request[r] EXCEPT !.pc = "relinking",
                                      !.account.user = request[r].id])
    /\ UNCHANGED <<accounts, tokens, mailed, done>>

Others(r) ==
    {a \in accounts : a.user = request[r].account.user /\ a.id # request[r].account.id}

\* DeleteMe's transaction has deleted the account for itself and counts the
\* committed rest.
CountRemaining(r) ==
    /\ request[r].pc = "deleting"
    /\ Goto(r, IF Others(r) = {} THEN "emptied" ELSE "leaving")
    /\ UNCHANGED <<tables, history>>

\* It commits; the foreign key refuses when the user has got an account meanwhile.
CommitDelete(r) ==
    /\ accounts' = {a \in accounts : a.id # request[r].account.id}
    /\ \/ /\ request[r].pc = "leaving"
          /\ UNCHANGED <<users, tokens>>
       \/ /\ request[r].pc = "emptied"
          /\ Others(r) = {}
          /\ users' = [users EXCEPT ![request[r].account.user] = NoUser]
          /\ tokens' = {t \in tokens : t.user # request[r].account.user}
    /\ Finish(r)
    /\ UNCHANGED history

-----------------------------------------------------------------------------
\* The process dies, a statement fails, or the request is refused.
Interrupt(r) ==
    /\ request[r].pc # "idle"
    /\ Finish(r)
    /\ UNCHANGED <<tables, history>>

\* A token's expires_at passes.
Expire ==
    /\ \E t \in tokens :
          /\ t.status = "live"
          /\ tokens' = (tokens \ {t}) \cup {[t EXCEPT !.status = "expired"]}
    /\ UNCHANGED <<users, accounts, request, started, history>>

RequestStep(r) ==
    \/ LoadToRegister(r)
    \/ CreateUser(r)
    \/ CreateVerification(r)
    \/ LoadVerification(r)
    \/ LoadReset(r)
    \/ ReadUser(r)
    \/ SaveUser(r)
    \/ MarkUsed(r)
    \/ LoadToRequestReset(r)
    \/ CreateReset(r)
    \/ LoadToLogin(r)
    \/ FindAccount(r)
    \/ CreateAccount(r)
    \/ LoadIdentity(r)
    \/ FindOAuthUser(r)
    \/ CreateOAuthUser(r)
    \/ LoadAccount(r)
    \/ SaveAccount(r)
    \/ CreateNamedUser(r)
    \/ CountRemaining(r)
    \/ CommitDelete(r)
    \/ Interrupt(r)

Next == Expire \/ \E r \in Requests : RequestStep(r)

Spec == Init /\ [][Next]_vars

-----------------------------------------------------------------------------
\* Nobody gets in unproved: a user is active, or has a local account, only after
\* the address was verified, a provider vouched for it, or no verification is
\* required - whatever old copies of the row are saved over it.
ProofComesFirst ==
    /\ \A u \in Ids : users[u].exists /\ users[u].active => u \in proved
    /\ \A a \in accounts : a.identity = Local => a.user \in proved

\* A password other than the one a user was created with goes back to a reset
\* that was mailed to that user; no save of an old copy carries one elsewhere.
PasswordWasMailed ==
    \A u \in Ids : users[u].password = "later" => u \in mailed

\* A token is spent only on an effect that was saved: a request that breaks off
\* leaves its token usable, never used up for nothing.
SpentTookEffect == \A t \in tokens : t.status = "used" => t.id \in done
=============================================================================
