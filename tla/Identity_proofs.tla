-------------------------- MODULE Identity_proofs --------------------------
(***************************************************************************)
(* What TLAPS proves of the API process.  Of Identity, for every set of    *)
(* addresses, identities and requests and for every bound: types, and the  *)
(* three properties of proofs, passwords and tokens.  Of ConnectionPool,   *)
(* for any number of requests, connections and attempts: what they hold,   *)
(* who pings, and that somebody goes on.                                   *)
(***************************************************************************)
EXTENDS Identity, ConnectionPool, FiniteSetTheorems, TLAPS

-----------------------------------------------------------------------------
(***************************************************************************)
(* Type correctness.                                                       *)
(***************************************************************************)

\* The empty rows and the idle request are of their types.
LEMMA EmptyTypes ==
    /\ NoUser \in UserRows
    /\ NoAccount \in AccountRows
    /\ Idle \in RequestStates
BY IdentityAssumption
DEF NoUser, UserRows, NoAccount, AccountRows, Ids, Idle, RequestStates, Steps

\* A request that looks for its user holds an identity: a fact the types rest on,
\* because the address it looks for is that of the identity.
LookingHasIdentity ==
    \A r \in Requests :
        request[r].pc \in {"looking", "enrolling"} =>
            request[r].account.identity \in Identities

\* What a request holds is of its type when the whole is.
LEMMA HeldTypes ==
    ASSUME TypeOK, NEW r \in Requests
    PROVE  /\ request[r] \in RequestStates
           /\ request[r].pc \in Steps
           /\ request[r].id \in Ids
           /\ request[r].user \in Ids
           /\ request[r].row \in UserRows
           /\ request[r].account \in AccountRows
           /\ request[r].account.user \in Ids
           /\ request[r].token \in Ids
BY DEF TypeOK, RequestStates, AccountRows

\* A request that goes on or ends keeps the type of the requests.
LEMMA ContinueType ==
    ASSUME TypeOK, NEW r \in Requests, NEW s \in RequestStates, Continue(r, s)
    PROVE  request' \in [Requests -> RequestStates] /\ started' \in 0..MaxRequests
BY DEF Continue, TypeOK

LEMMA FinishType ==
    ASSUME TypeOK, NEW r \in Requests, Finish(r)
    PROVE  request' \in [Requests -> RequestStates] /\ started' \in 0..MaxRequests
BY EmptyTypes, ContinueType DEF Finish

LEMMA GotoType ==
    ASSUME TypeOK, NEW r \in Requests, NEW step \in Steps, Goto(r, step)
    PROVE  request' \in [Requests -> RequestStates] /\ started' \in 0..MaxRequests
<1>1. [request[r] EXCEPT !.pc = step] \in RequestStates
    BY HeldTypes DEF RequestStates
<1> QED
    BY <1>1, ContinueType DEF Goto

\* A request that begins keeps it too; its number is an id.
LEMMA BeginType ==
    ASSUME TypeOK, NEW r \in Requests, NEW s \in RequestStates, Begin(r, s)
    PROVE  /\ request' \in [Requests -> RequestStates]
           /\ started' \in 0..MaxRequests
           /\ started + 1 \in Ids
<1>1. started + 1 \in Ids
    BY IdentityAssumption DEF TypeOK, Begin, Ids
<1>2. [s EXCEPT !.id = started + 1] \in RequestStates
    BY <1>1 DEF RequestStates
<1> QED
    BY <1>1, <1>2, IdentityAssumption DEF TypeOK, Begin, Ids

\* So does one that inserts a user.
LEMMA InsertType ==
    ASSUME TypeOK, NEW r \in Requests, NEW u \in Ids, NEW row \in UserRows,
           InsertUser(r, u, row)
    PROVE  users' \in [Ids -> UserRows] /\ proved' \subseteq Ids
BY DEF TypeOK, InsertUser

\* The initial states.
LEMMA IdentityTypeInit == Init => TypeOK
BY EmptyTypes, IdentityAssumption DEF Init, TypeOK

\* The actions that begin a request.
LEMMA TypeOfBeginnings ==
    ASSUME TypeOK, NEW r \in Requests,
           \/ LoadToRegister(r) \/ LoadVerification(r) \/ LoadReset(r)
           \/ LoadToRequestReset(r) \/ LoadToLogin(r) \/ LoadIdentity(r) \/ LoadAccount(r)
    PROVE  TypeOK'
<1>0. started < MaxRequests => started + 1 \in Ids
    BY IdentityAssumption DEF TypeOK, Ids
<1>1. CASE LoadToRegister(r)
    <2>1. PICK email \in Emails :
              Begin(r, [Idle EXCEPT !.pc = "registering", !.user = started + 1,
                          !.row = [exists |-> TRUE, email |-> email,
                                   active |-> ~VerificationRequired,
                                   password |-> "first"]])
        BY <1>1 DEF LoadToRegister
    <2>2. [exists |-> TRUE, email |-> email, active |-> ~VerificationRequired,
           password |-> "first"] \in UserRows
        BY IdentityAssumption DEF UserRows
    <2>3. [Idle EXCEPT !.pc = "registering", !.user = started + 1,
             !.row = [exists |-> TRUE, email |-> email,
                      active |-> ~VerificationRequired,
                      password |-> "first"]] \in RequestStates
        BY <1>0, <2>1, <2>2, EmptyTypes DEF Begin, RequestStates, Steps
    <2>4. request' \in [Requests -> RequestStates] /\ started' \in 0..MaxRequests
        BY <2>1, <2>3, BeginType
    <2> QED
        BY <1>1, <2>4 DEF LoadToRegister, TypeOK, tables, history
<1>2. CASE LoadVerification(r) \/ LoadReset(r)
    <2>1. PICK t \in tokens, step \in {"verifying", "resetting"} :
              Begin(r, [Idle EXCEPT !.pc = step, !.user = t.user, !.token = t.id])
              /\ proved' \subseteq proved \cup {t.user}
        BY <1>2 DEF LoadVerification, LoadReset, history
    <2>2. t.user \in Ids /\ t.id \in Ids
        BY DEF TypeOK, TokenRows
    <2>3. [Idle EXCEPT !.pc = step, !.user = t.user, !.token = t.id] \in RequestStates
        BY <2>2, EmptyTypes DEF RequestStates, Steps
    <2>4. request' \in [Requests -> RequestStates] /\ started' \in 0..MaxRequests
        BY <2>1, <2>3, BeginType
    <2> QED
        BY <1>2, <2>1, <2>2, <2>4
        DEF LoadVerification, LoadReset, TypeOK, tables, history
<1>3. CASE LoadToRequestReset(r) \/ LoadToLogin(r)
    <2>1. PICK u \in Ids, step \in {"requesting", "entering"} :
              Begin(r, [Idle EXCEPT !.pc = step, !.user = u])
        BY <1>3 DEF LoadToRequestReset, LoadToLogin
    <2>2. [Idle EXCEPT !.pc = step, !.user = u] \in RequestStates
        BY EmptyTypes DEF RequestStates, Steps
    <2>3. request' \in [Requests -> RequestStates] /\ started' \in 0..MaxRequests
        BY <2>1, <2>2, BeginType
    <2> QED
        BY <1>3, <2>3 DEF LoadToRequestReset, LoadToLogin, TypeOK, tables, history
<1>4. CASE LoadIdentity(r)
    <2>1. PICK a \in AccountRows, step \in {"refreshing", "looking"} :
              Begin(r, [Idle EXCEPT !.pc = step, !.account = a])
        <3>1. PICK i \in Identities :
                 \/ \E a \in accounts :
                       Begin(r, [Idle EXCEPT !.pc = "refreshing", !.account = a])
                 \/ Begin(r, [Idle EXCEPT !.pc = "looking",
                                !.account = [id |-> started + 1, user |-> 0,
                                             identity |-> i]])
            BY <1>4 DEF LoadIdentity
        <3>0. started < MaxRequests
            BY <3>1 DEF Begin
        <3>2. started + 1 \in Ids /\ 0 \in Ids
            BY <1>0, <3>0, IdentityAssumption DEF Ids
        <3>3. [id |-> started + 1, user |-> 0, identity |-> i] \in AccountRows
            BY <3>2 DEF AccountRows
        <3> QED
            BY <3>1, <3>3 DEF TypeOK
    <2>2. [Idle EXCEPT !.pc = step, !.account = a] \in RequestStates
        BY EmptyTypes DEF RequestStates, Steps
    <2>3. request' \in [Requests -> RequestStates] /\ started' \in 0..MaxRequests
        BY <2>1, <2>2, BeginType
    <2> QED
        BY <1>4, <2>3 DEF LoadIdentity, TypeOK, tables, history
<1>5. CASE LoadAccount(r)
    <2>1. PICK a \in accounts, step \in {"profiling", "naming", "deleting"} :
              Begin(r, [Idle EXCEPT !.pc = step, !.user = a.user, !.account = a])
        BY <1>5 DEF LoadAccount
    <2>2. a \in AccountRows /\ a.user \in Ids
        BY DEF TypeOK, AccountRows
    <2>3. [Idle EXCEPT !.pc = step, !.user = a.user, !.account = a] \in RequestStates
        BY <2>2, EmptyTypes DEF RequestStates, Steps
    <2>4. request' \in [Requests -> RequestStates] /\ started' \in 0..MaxRequests
        BY <2>1, <2>3, BeginType
    <2> QED
        BY <1>5, <2>4 DEF LoadAccount, TypeOK, tables, history
<1> QED
    BY <1>1, <1>2, <1>3, <1>4, <1>5

\* The actions that read for their copies, or end.
LEMMA TypeOfReads ==
    ASSUME TypeOK, LookingHasIdentity, NEW r \in Requests,
           \/ ReadUser(r) \/ FindAccount(r) \/ FindOAuthUser(r) \/ CountRemaining(r)
           \/ Interrupt(r)
    PROVE  TypeOK'
<1> DEFINE q == request[r]
<1> SUFFICES request' \in [Requests -> RequestStates] /\ started' \in 0..MaxRequests
    BY DEF ReadUser, FindAccount, FindOAuthUser, CountRemaining, Interrupt, TypeOK,
        tables, history
<1>1. CASE ReadUser(r)
    <2>1. \A step \in Steps, row \in UserRows :
              [q EXCEPT !.pc = step, !.row = row] \in RequestStates
        BY HeldTypes DEF RequestStates
    <2>2. users[q.user] \in UserRows
        BY HeldTypes DEF TypeOK
    <2>3. /\ [users[q.user] EXCEPT !.active = TRUE] \in UserRows
          /\ [users[q.user] EXCEPT !.password = "later"] \in UserRows
        BY <2>2 DEF UserRows
    <2>4. \/ Goto(r, "replacing")
          \/ \E step \in {"activating", "rehashing", "saving"}, row \in UserRows :
                Continue(r, [q EXCEPT !.pc = step, !.row = row])
        BY <1>1, <2>2, <2>3 DEF ReadUser
    <2>5. {"replacing", "activating", "rehashing", "saving"} \subseteq Steps
        BY DEF Steps
    <2> QED
        BY <2>1, <2>4, <2>5, ContinueType, GotoType
<1>2. CASE FindAccount(r)
    <2>1. [id |-> q.id, user |-> q.user, identity |-> Local] \in AccountRows
        BY HeldTypes DEF AccountRows
    <2>2. [q EXCEPT !.pc = "opening",
             !.account = [id |-> q.id, user |-> q.user, identity |-> Local]]
              \in RequestStates
        BY <2>1, HeldTypes DEF RequestStates, Steps
    <2> QED
        BY <1>2, <2>2, ContinueType, FinishType DEF FindAccount
<1>3. CASE FindOAuthUser(r)
    <2> DEFINE email == IdentityEmail[q.account.identity]
               row   == [exists |-> TRUE, email |-> email,
                         active |-> TRUE, password |-> "none"]
               new   == [q EXCEPT !.pc = "enrolling", !.user = q.id, !.row = row]
    <2>1. CASE \E u \in Ids : Continue(r, [q EXCEPT !.pc = "opening", !.account.user = u])
        <3>1. PICK u \in Ids : Continue(r, [q EXCEPT !.pc = "opening", !.account.user = u])
            BY <2>1
        <3>2. [q EXCEPT !.pc = "opening", !.account.user = u] \in RequestStates
            BY HeldTypes DEF RequestStates, AccountRows, Steps
        <3> QED
            BY <3>1, <3>2, ContinueType
    <2>2. CASE Continue(r, new) /\ q.account.identity \in Identities
        <3>1. row \in UserRows
            BY <2>2, IdentityAssumption DEF UserRows
        <3> HIDE DEF row
        <3>2. new \in RequestStates
            BY <3>1, HeldTypes DEF RequestStates, Steps
        <3> QED
            BY <2>2, <3>2, ContinueType
    <2> QED
        BY <1>3, <2>1, <2>2 DEF FindOAuthUser, LookingHasIdentity
<1>4. CASE CountRemaining(r)
    BY <1>4, GotoType DEF CountRemaining, Steps
<1>5. CASE Interrupt(r)
    BY <1>5, FinishType DEF Interrupt
<1> QED
    BY <1>1, <1>2, <1>3, <1>4, <1>5

\* The actions that write users.
LEMMA TypeOfUserWrites ==
    ASSUME TypeOK, NEW r \in Requests,
           \/ CreateUser(r) \/ SaveUser(r) \/ CreateOAuthUser(r) \/ CreateNamedUser(r)
    PROVE  TypeOK'
<1> DEFINE q == request[r]
<1>1. CASE CreateUser(r)
    <2>1. users' \in [Ids -> UserRows] /\ proved' \subseteq Ids
        BY <1>1, HeldTypes, InsertType DEF CreateUser
    <2>2. request' \in [Requests -> RequestStates] /\ started' \in 0..MaxRequests
        BY <1>1, FinishType, GotoType DEF CreateUser, Steps
    <2> QED
        BY <1>1, <2>1, <2>2 DEF CreateUser, TypeOK
<1>2. CASE SaveUser(r)
    <2>1. request' \in [Requests -> RequestStates] /\ started' \in 0..MaxRequests
        BY <1>2, FinishType, GotoType DEF SaveUser, Steps
    <2>2. users' \in [Ids -> UserRows] /\ done' \subseteq Ids
        BY <1>2, HeldTypes DEF SaveUser, TypeOK
    <2> QED
        BY <1>2, <2>1, <2>2 DEF SaveUser, TypeOK
<1>3. CASE CreateOAuthUser(r)
    <2>1. users' \in [Ids -> UserRows] /\ proved' \subseteq Ids
        BY <1>3, HeldTypes, InsertType DEF CreateOAuthUser
    <2>2. [q EXCEPT !.pc = "opening", !.account.user = q.user] \in RequestStates
        BY HeldTypes DEF RequestStates, AccountRows, Steps
    <2>3. request' \in [Requests -> RequestStates] /\ started' \in 0..MaxRequests
        BY <1>3, <2>2, ContinueType DEF CreateOAuthUser
    <2> QED
        BY <1>3, <2>1, <2>3 DEF CreateOAuthUser, TypeOK
<1>4. CASE CreateNamedUser(r)
    <2>1. [exists |-> TRUE, email |-> NoEmail, active |-> TRUE, password |-> "none"]
              \in UserRows
        BY DEF UserRows
    <2>2. users' \in [Ids -> UserRows] /\ proved' \subseteq Ids
        BY <1>4, <2>1, HeldTypes, InsertType DEF CreateNamedUser
    <2>3. [q EXCEPT !.pc = "relinking", !.account.user = q.id] \in RequestStates
        BY HeldTypes DEF RequestStates, AccountRows, Steps
    <2>4. request' \in [Requests -> RequestStates] /\ started' \in 0..MaxRequests
        BY <1>4, <2>3, ContinueType DEF CreateNamedUser
    <2> QED
        BY <1>4, <2>2, <2>4 DEF CreateNamedUser, TypeOK
<1> QED
    BY <1>1, <1>2, <1>3, <1>4

\* The actions that write accounts and tokens.
LEMMA TypeOfOtherWrites ==
    ASSUME TypeOK, NEW r \in Requests,
           \/ CreateVerification(r) \/ CreateReset(r) \/ MarkUsed(r)
           \/ CreateAccount(r) \/ SaveAccount(r) \/ CommitDelete(r)
    PROVE  TypeOK'
<1> DEFINE q == request[r]
<1>1. CASE CreateVerification(r) \/ CreateReset(r)
    <2>1. \A kind \in {"verification", "reset"} :
              [id |-> q.id, user |-> q.user, kind |-> kind, status |-> "live"] \in TokenRows
        BY HeldTypes DEF TokenRows
    <2>2. tokens' \subseteq TokenRows /\ mailed' \subseteq Ids
        BY <1>1, <2>1, HeldTypes DEF CreateVerification, CreateReset, TypeOK, history
    <2> QED
        BY <1>1, <2>2, FinishType DEF CreateVerification, CreateReset, TypeOK, history
<1>2. CASE MarkUsed(r)
    <2>1. \A t \in tokens : [t EXCEPT !.status = "used"] \in TokenRows
        BY DEF TypeOK, TokenRows
    <2>2. tokens' \subseteq TokenRows
        BY <1>2, <2>1 DEF MarkUsed, TypeOK
    <2>3. request' \in [Requests -> RequestStates] /\ started' \in 0..MaxRequests
        BY <1>2, FinishType, GotoType DEF MarkUsed, Steps
    <2> QED
        BY <1>2, <2>2, <2>3 DEF MarkUsed, TypeOK, history
<1>3. CASE CreateAccount(r)
    BY <1>3, HeldTypes, FinishType DEF CreateAccount, TypeOK, history
<1>4. CASE SaveAccount(r)
    <2>1. request' \in [Requests -> RequestStates] /\ started' \in 0..MaxRequests
        BY <1>4, FinishType, GotoType DEF SaveAccount, Steps
    <2> QED
        BY <1>4, <2>1, HeldTypes DEF SaveAccount, TypeOK, history
<1>5. CASE CommitDelete(r)
    <2>1. users' \in [Ids -> UserRows] /\ tokens' \subseteq TokenRows
        BY <1>5, EmptyTypes DEF CommitDelete, TypeOK
    <2> QED
        BY <1>5, <2>1, FinishType DEF CommitDelete, TypeOK, history
<1> QED
    BY <1>1, <1>2, <1>3, <1>4, <1>5

\* Every step keeps the types.
LEMMA IdentityTypeStep == TypeOK /\ LookingHasIdentity /\ [Next]_vars => TypeOK'
<1> SUFFICES ASSUME TypeOK, LookingHasIdentity, [Next]_vars PROVE TypeOK'
    OBVIOUS
<1>1. ASSUME NEW r \in Requests, RequestStep(r) PROVE TypeOK'
    BY <1>1, TypeOfBeginnings, TypeOfReads, TypeOfUserWrites, TypeOfOtherWrites
    DEF RequestStep
<1>2. CASE Expire
    <2>1. \A t \in tokens : [t EXCEPT !.status = "expired"] \in TokenRows
        BY DEF TypeOK, TokenRows
    <2> QED
        BY <1>2, <2>1 DEF Expire, TypeOK, history
<1>3. CASE UNCHANGED vars
    BY <1>3 DEF vars, tables, history, TypeOK
<1> QED
    BY <1>1, <1>2, <1>3 DEF Next

-----------------------------------------------------------------------------
(***************************************************************************)
(* The invariant.  What a request holds is sound with respect to the three *)
(* histories: a copy of a user is active or has a later password only if   *)
(* the user's proof or reset is recorded, an account it is about to write  *)
(* belongs to a user as it should, and a token it is about to mark has     *)
(* taken effect.  The histories only grow, so a copy stays sound however   *)
(* old it gets; and the tables take their rows from sound copies.          *)
(***************************************************************************)
Sound(q, p, m, d) ==
    /\ q.pc \in {"looking", "enrolling"} => q.account.identity \in Identities
    /\ q.pc \in {"verifying", "activating", "activated", "entering"} => q.user \in p
    /\ q.pc \in {"activating", "rehashing", "saving"} /\ q.row.active => q.user \in p
    /\ q.pc \in {"opening", "refreshing", "profiling", "relinking"}
           /\ q.account.identity = Local => q.account.user \in p
    /\ q.pc = "resetting" => q.user \in m
    /\ q.pc \in {"activating", "rehashing", "saving"} /\ q.row.password = "later"
           => q.user \in m
    /\ q.pc \in {"registering", "enrolling"} => q.row.password # "later"
    /\ q.pc \in {"activated", "rehashed"} => q.token \in d

RequestsSound == \A r \in Requests : Sound(request[r], proved, mailed, done)

ResetsWereMailed == \A t \in tokens : t.kind = "reset" => t.user \in mailed

TablesSound ==
    ProofComesFirst /\ PasswordWasMailed /\ SpentTookEffect /\ ResetsWereMailed

IdentityInv == RequestsSound /\ TablesSound

HistoryGrows == proved \subseteq proved' /\ mailed \subseteq mailed' /\ done \subseteq done'

\* The idle request is sound, and the first conjunct is what the types need.
LEMMA IdleSound == ASSUME NEW p, NEW m, NEW d PROVE Sound(Idle, p, m, d)
BY DEF Sound, Idle

LEMMA SoundLooking == RequestsSound => LookingHasIdentity
BY DEF RequestsSound, Sound, LookingHasIdentity

\* A step that changes one request to a sound one keeps them all sound.
LEMMA SoundFrame ==
    ASSUME TypeOK, RequestsSound, HistoryGrows, NEW r \in Requests, NEW s,
           request' = [request EXCEPT ![r] = s], Sound(s, proved', mailed', done')
    PROVE  RequestsSound'
<1> SUFFICES ASSUME NEW x \in Requests
             PROVE  Sound(request'[x], proved', mailed', done')
    BY DEF RequestsSound
<1>1. Sound(request[x], proved, mailed, done)
    BY DEF RequestsSound
<1>2. Sound(request[x], proved', mailed', done')
    BY <1>1 DEF Sound, HistoryGrows
<1>3. request'[x] = IF x = r THEN s ELSE request[x]
    BY DEF TypeOK
<1> QED
    BY <1>2, <1>3

LEMMA SoundFinish ==
    ASSUME TypeOK, RequestsSound, HistoryGrows, NEW r \in Requests, Finish(r)
    PROVE  RequestsSound'
BY SoundFrame, IdleSound DEF Finish, Continue

\* Tables nobody writes stay sound.
LEMMA SoundTables ==
    ASSUME TablesSound, HistoryGrows, UNCHANGED tables
    PROVE  TablesSound'
BY DEF TablesSound, ProofComesFirst, PasswordWasMailed, SpentTookEffect,
    ResetsWereMailed, HistoryGrows, tables

\* The initial states.
LEMMA IdentityInit == Init => IdentityInv
<1> SUFFICES ASSUME Init PROVE IdentityInv
    OBVIOUS
<1>1. RequestsSound
    BY IdleSound DEF Init, RequestsSound
<1>2. TablesSound
    BY DEF Init, TablesSound, ProofComesFirst, PasswordWasMailed, SpentTookEffect,
        ResetsWereMailed, NoUser
<1> QED
    BY <1>1, <1>2 DEF IdentityInv

\* The actions that begin a request.
LEMMA SoundBeginnings ==
    ASSUME TypeOK, IdentityInv, NEW r \in Requests,
           \/ LoadToRegister(r) \/ LoadVerification(r) \/ LoadReset(r)
           \/ LoadToRequestReset(r) \/ LoadToLogin(r) \/ LoadIdentity(r) \/ LoadAccount(r)
    PROVE  IdentityInv'
<1> USE DEF IdentityInv
<1>0. HistoryGrows /\ UNCHANGED tables
    BY DEF LoadToRegister, LoadVerification, LoadReset, LoadToRequestReset, LoadToLogin,
        LoadIdentity, LoadAccount, HistoryGrows, history
<1>1. SUFFICES RequestsSound'
    BY <1>0, SoundTables
<1>2. ASSUME NEW s, Begin(r, s), Sound([s EXCEPT !.id = started + 1],
                                       proved', mailed', done')
      PROVE  RequestsSound'
    BY <1>0, <1>2, SoundFrame DEF Begin
<1>3. CASE LoadToRegister(r)
    BY <1>2, <1>3 DEF LoadToRegister, Sound, Idle
<1>4. CASE LoadVerification(r)
    BY <1>2, <1>4 DEF LoadVerification, Sound, Idle
<1>5. CASE LoadReset(r)
    BY <1>2, <1>5 DEF LoadReset, Sound, Idle, TablesSound, ResetsWereMailed, history
<1>6. CASE LoadToRequestReset(r)
    BY <1>2, <1>6 DEF LoadToRequestReset, Sound, Idle
<1>7. CASE LoadToLogin(r)
    BY <1>2, <1>7 DEF LoadToLogin, Sound, Idle, TablesSound, ProofComesFirst, history
<1>8. CASE LoadIdentity(r)
    BY <1>2, <1>8, IdentityAssumption
    DEF LoadIdentity, Sound, Idle, TablesSound, ProofComesFirst, history
<1>9. CASE LoadAccount(r)
    BY <1>2, <1>9 DEF LoadAccount, Sound, Idle, TablesSound, ProofComesFirst, history
<1> QED
    BY <1>3, <1>4, <1>5, <1>6, <1>7, <1>8, <1>9

\* The actions that read for their copies, or end.
LEMMA SoundReads ==
    ASSUME TypeOK, IdentityInv, NEW r \in Requests,
           \/ ReadUser(r) \/ FindAccount(r) \/ FindOAuthUser(r) \/ CountRemaining(r)
           \/ Interrupt(r)
    PROVE  IdentityInv'
<1> USE DEF IdentityInv
<1> DEFINE q == request[r]
<1>0. HistoryGrows /\ UNCHANGED tables /\ UNCHANGED history
    BY DEF ReadUser, FindAccount, FindOAuthUser, CountRemaining, Interrupt, HistoryGrows,
        history
<1>1. SUFFICES RequestsSound'
    BY <1>0, SoundTables
<1>2. ASSUME NEW s, Continue(r, s), Sound(s, proved, mailed, done)
      PROVE  RequestsSound'
    BY <1>0, <1>2, SoundFrame DEF Continue, history
<1>3. Sound(q, proved, mailed, done) /\ q \in RequestStates
    BY HeldTypes DEF RequestsSound
<1>4. CASE ReadUser(r)
    <2> DEFINE row == users[q.user]
    <2>1. /\ row \in UserRows
          /\ row.exists /\ row.active => q.user \in proved
          /\ row.password = "later" => q.user \in mailed
        BY HeldTypes DEF TypeOK, TablesSound, ProofComesFirst, PasswordWasMailed
    <2> HIDE DEF row
    <2>2. CASE q.pc = "verifying" /\ row.exists
               /\ Continue(r, [q EXCEPT !.pc = "activating",
                                        !.row = [row EXCEPT !.active = TRUE]])
        BY <1>2, <1>3, <2>1, <2>2 DEF Sound, RequestStates, UserRows
    <2>3. CASE q.pc = "resetting" /\ row.exists
               /\ Continue(r, [q EXCEPT !.pc = "rehashing",
                                        !.row = [row EXCEPT !.password = "later"]])
        BY <1>2, <1>3, <2>1, <2>3 DEF Sound, RequestStates, UserRows
    <2>4. CASE row.exists /\ Continue(r, [q EXCEPT !.pc = "saving", !.row = row])
        BY <1>2, <1>3, <2>1, <2>4 DEF Sound, RequestStates
    <2>5. CASE Goto(r, "replacing")
        BY <1>2, <1>3, <2>5 DEF Goto, Sound, RequestStates
    <2> QED
        BY <1>4, <2>2, <2>3, <2>4, <2>5 DEF ReadUser, row
<1>5. CASE FindAccount(r)
    <2>1. CASE Finish(r)
        BY <1>0, <2>1, SoundFinish
    <2>2. CASE q.pc = "entering"
               /\ Continue(r, [q EXCEPT !.pc = "opening",
                                 !.account = [id |-> q.id, user |-> q.user,
                                              identity |-> Local]])
        BY <1>2, <1>3, <2>2 DEF Sound, RequestStates
    <2> QED
        BY <1>5, <2>1, <2>2 DEF FindAccount
<1>6. CASE FindOAuthUser(r)
    <2> DEFINE email == IdentityEmail[q.account.identity]
    <2>1. CASE q.pc = "looking"
               /\ \E u \in Ids : Continue(r, [q EXCEPT !.pc = "opening",
                                                       !.account.user = u])
        BY <1>2, <1>3, <2>1, IdentityAssumption DEF Sound, RequestStates, AccountRows
    <2>2. CASE q.pc = "looking"
               /\ Continue(r, [q EXCEPT !.pc = "enrolling", !.user = q.id,
                                 !.row = [exists |-> TRUE, email |-> email,
                                          active |-> TRUE, password |-> "none"]])
        BY <1>2, <1>3, <2>2 DEF Sound, RequestStates
    <2> QED
        BY <1>6, <2>1, <2>2 DEF FindOAuthUser
<1>7. CASE CountRemaining(r)
    BY <1>2, <1>3, <1>7 DEF CountRemaining, Goto, Sound, RequestStates
<1>8. CASE Interrupt(r)
    BY <1>0, <1>8, SoundFinish DEF Interrupt
<1> QED
    BY <1>4, <1>5, <1>6, <1>7, <1>8

\* A row that is sound for its user may be written: users keep what the
\* properties ask of them.
LEMMA SoundRow ==
    ASSUME TypeOK, TablesSound, HistoryGrows, NEW u \in Ids, NEW row,
           users' = [users EXCEPT ![u] = row], UNCHANGED <<accounts, tokens>>,
           row.exists /\ row.active => u \in proved',
           row.password = "later" => u \in mailed'
    PROVE  TablesSound'
<1>1. \A v \in Ids : users'[v] = IF v = u THEN row ELSE users[v]
    BY DEF TypeOK
<1> QED
    BY <1>1 DEF TablesSound, ProofComesFirst, PasswordWasMailed, SpentTookEffect,
        ResetsWereMailed, HistoryGrows

\* The actions that write users.
LEMMA SoundUserWrites ==
    ASSUME TypeOK, IdentityInv, NEW r \in Requests,
           \/ CreateUser(r) \/ SaveUser(r) \/ CreateOAuthUser(r) \/ CreateNamedUser(r)
    PROVE  IdentityInv'
<1> USE DEF IdentityInv
<1> DEFINE q == request[r]
<1>0. HistoryGrows
    BY DEF CreateUser, SaveUser, CreateOAuthUser, CreateNamedUser, InsertUser, HistoryGrows
<1>1. Sound(q, proved, mailed, done) /\ q \in RequestStates
    BY HeldTypes DEF RequestsSound
<1>2. q.user \in Ids /\ q.id \in Ids
    BY HeldTypes
<1>3. CASE CreateUser(r)
    <2>1. TablesSound'
        BY <1>0, <1>1, <1>2, <1>3, SoundRow DEF CreateUser, InsertUser, Sound
    <2>2. Sound([q EXCEPT !.pc = "issuing"], proved', mailed', done')
        BY <1>1 DEF Sound, RequestStates
    <2>3. RequestsSound'
        BY <1>0, <1>3, <2>2, SoundFinish, SoundFrame DEF CreateUser, Goto, Continue
    <2> QED
        BY <2>1, <2>3
<1>4. CASE SaveUser(r)
    <2>1. TablesSound'
        BY <1>0, <1>1, <1>2, <1>4, SoundRow DEF SaveUser, Sound
    <2>2. CASE q.pc = "activating" /\ Goto(r, "activated") /\ done' = done \cup {q.token}
        <3>1. Sound([q EXCEPT !.pc = "activated"], proved', mailed', done')
            BY <1>1, <1>4, <2>2 DEF Sound, RequestStates, SaveUser
        <3> QED
            BY <1>0, <2>1, <2>2, <3>1, SoundFrame DEF Goto, Continue
    <2>3. CASE q.pc = "rehashing" /\ Goto(r, "rehashed") /\ done' = done \cup {q.token}
        <3>1. Sound([q EXCEPT !.pc = "rehashed"], proved', mailed', done')
            BY <1>1, <1>4, <2>3 DEF Sound, RequestStates, SaveUser
        <3> QED
            BY <1>0, <2>1, <2>3, <3>1, SoundFrame DEF Goto, Continue
    <2>4. CASE Finish(r)
        BY <1>0, <2>1, <2>4, SoundFinish
    <2> QED
        BY <1>4, <2>2, <2>3, <2>4 DEF SaveUser
<1>5. CASE CreateOAuthUser(r)
    <2>1. TablesSound'
        BY <1>0, <1>1, <1>2, <1>5, SoundRow DEF CreateOAuthUser, InsertUser, Sound
    <2>2. q.account.identity # Local
        BY <1>1, <1>5, IdentityAssumption DEF CreateOAuthUser, Sound
    <2>3. Sound([q EXCEPT !.pc = "opening", !.account.user = q.user],
                proved', mailed', done')
        BY <1>1, <2>2 DEF Sound, RequestStates, AccountRows
    <2> QED
        BY <1>0, <1>5, <2>1, <2>3, SoundFrame DEF CreateOAuthUser, Continue
<1>6. CASE CreateNamedUser(r)
    <2> DEFINE row == [exists |-> TRUE, email |-> NoEmail, active |-> TRUE,
                       password |-> "none"]
    <2>1. InsertUser(r, q.id, row) /\ UNCHANGED <<accounts, tokens, mailed, done>>
        BY <1>6 DEF CreateNamedUser
    <2>2. q.id \in proved'
        BY <2>1 DEF InsertUser
    <2>3. TablesSound'
        BY <1>0, <1>2, <2>1, <2>2, SoundRow DEF InsertUser
    <2>4. Sound([q EXCEPT !.pc = "relinking", !.account.user = q.id],
                proved', mailed', done')
        BY <1>1, <2>2 DEF Sound, RequestStates, AccountRows
    <2> QED
        BY <1>0, <1>6, <2>3, <2>4, SoundFrame DEF CreateNamedUser, Continue
<1> QED
    BY <1>3, <1>4, <1>5, <1>6

\* The actions that write accounts and tokens.
LEMMA SoundOtherWrites ==
    ASSUME TypeOK, IdentityInv, NEW r \in Requests,
           \/ CreateVerification(r) \/ CreateReset(r) \/ MarkUsed(r)
           \/ CreateAccount(r) \/ SaveAccount(r) \/ CommitDelete(r)
    PROVE  IdentityInv'
<1> USE DEF IdentityInv
<1> DEFINE q == request[r]
<1>0. HistoryGrows
    BY DEF CreateVerification, CreateReset, MarkUsed, CreateAccount, SaveAccount,
        CommitDelete, HistoryGrows, history
<1>1. Sound(q, proved, mailed, done) /\ q \in RequestStates
    BY HeldTypes DEF RequestsSound
<1>2. ASSUME NEW step \in {"entering", "picturing"}, Goto(r, step),
             step = "entering" => q.user \in proved
      PROVE  RequestsSound'
    <2>1. Sound([q EXCEPT !.pc = step], proved', mailed', done')
        BY <1>0, <1>1, <1>2 DEF Sound, RequestStates, HistoryGrows
    <2> QED
        BY <1>0, <1>2, <2>1, SoundFrame DEF Goto, Continue
<1>3. Finish(r) => RequestsSound'
    BY <1>0, SoundFinish
<1>4. CASE CreateVerification(r) \/ CreateReset(r)
    <2>1. TablesSound'
        BY <1>4 DEF CreateVerification, CreateReset, TablesSound, ProofComesFirst,
            PasswordWasMailed, SpentTookEffect, ResetsWereMailed, history
    <2> QED
        BY <1>3, <1>4, <2>1 DEF CreateVerification, CreateReset
<1>5. CASE MarkUsed(r)
    <2>1. q.token \in done
        BY <1>1, <1>5 DEF MarkUsed, Sound
    <2>2. \A t \in tokens' : \E s \in tokens :
              /\ t.id = s.id /\ t.user = s.user /\ t.kind = s.kind
              /\ t.status = s.status \/ s.id = q.token
        BY <1>5 DEF MarkUsed, TypeOK, TokenRows
    <2>3. TablesSound'
        BY <1>5, <2>1, <2>2 DEF MarkUsed, TablesSound, ProofComesFirst,
            PasswordWasMailed, SpentTookEffect, ResetsWereMailed, history
    <2> QED
        BY <1>1, <1>2, <1>3, <1>5, <2>3 DEF MarkUsed, Sound
<1>6. CASE CreateAccount(r) \/ SaveAccount(r)
    <2>1. q.account.identity = Local => q.account.user \in proved
        BY <1>1, <1>6 DEF CreateAccount, SaveAccount, Sound
    <2>2. accounts' \subseteq accounts \cup {q.account}
        BY <1>6 DEF CreateAccount, SaveAccount
    <2>3. TablesSound'
        BY <1>6, <2>1, <2>2 DEF CreateAccount, SaveAccount, TablesSound, ProofComesFirst,
            PasswordWasMailed, SpentTookEffect, ResetsWereMailed, history
    <2> QED
        BY <1>2, <1>3, <1>6, <2>3 DEF CreateAccount, SaveAccount
<1>7. CASE CommitDelete(r)
    <2>1. \A u \in Ids : users'[u] \in {users[u], NoUser}
        BY <1>7 DEF CommitDelete, TypeOK
    <2>2. accounts' \subseteq accounts /\ tokens' \subseteq tokens
        BY <1>7 DEF CommitDelete
    <2>3. TablesSound'
        BY <1>7, <2>1, <2>2 DEF CommitDelete, NoUser, TablesSound, ProofComesFirst,
            PasswordWasMailed, SpentTookEffect, ResetsWereMailed, history
    <2> QED
        BY <1>3, <1>7, <2>3 DEF CommitDelete
<1> QED
    BY <1>4, <1>5, <1>6, <1>7

\* Every step keeps the invariant.
LEMMA IdentityStep == TypeOK /\ IdentityInv /\ [Next]_vars => IdentityInv'
<1> SUFFICES ASSUME TypeOK, IdentityInv, [Next]_vars PROVE IdentityInv'
    OBVIOUS
<1>1. ASSUME NEW r \in Requests, RequestStep(r) PROVE IdentityInv'
    BY <1>1, SoundBeginnings, SoundReads, SoundUserWrites, SoundOtherWrites
    DEF RequestStep
<1>2. CASE Expire
    <2>1. RequestsSound'
        BY <1>2 DEF Expire, IdentityInv, RequestsSound, history
    <2>2. \A t \in tokens' : \E s \in tokens :
              /\ t.id = s.id /\ t.user = s.user /\ t.kind = s.kind
              /\ t.status = s.status \/ t.status = "expired"
        BY <1>2 DEF Expire, TypeOK, TokenRows
    <2>3. TablesSound'
        BY <1>2, <2>2 DEF Expire, IdentityInv, TablesSound, ProofComesFirst,
            PasswordWasMailed, SpentTookEffect, ResetsWereMailed, history
    <2> QED
        BY <2>1, <2>3 DEF IdentityInv
<1>3. CASE UNCHANGED vars
    BY <1>3 DEF vars, tables, history, IdentityInv, RequestsSound, TablesSound,
        ProofComesFirst, PasswordWasMailed, SpentTookEffect, ResetsWereMailed
<1> QED
    BY <1>1, <1>2, <1>3 DEF Next

-----------------------------------------------------------------------------
(***************************************************************************)
(* The theorems.                                                           *)
(***************************************************************************)

\* Types and invariant hold together: the types of an OAuth login rest on the
\* identity its request holds.
THEOREM IdentityInvariant == Spec => [](TypeOK /\ IdentityInv)
<1>1. Init => TypeOK /\ IdentityInv
    BY IdentityTypeInit, IdentityInit
<1>2. TypeOK /\ IdentityInv /\ [Next]_vars => (TypeOK /\ IdentityInv)'
    BY IdentityTypeStep, IdentityStep, SoundLooking DEF IdentityInv
<1> QED
    BY <1>1, <1>2, PTL DEF Spec

\* Every variable keeps its type under every interleaving of the requests.
THEOREM IdentityTypeCorrect == Spec => []TypeOK
BY IdentityInvariant, PTL

\* Nobody is active, and no local account exists, without a proof of the address
\* (Register, VerifyEmail, findOrCreateLocalAccount), however the requests overlap.
THEOREM ProofAlwaysFirst == Spec => []ProofComesFirst
<1>1. IdentityInv => ProofComesFirst
    BY DEF IdentityInv, TablesSound
<1> QED
    BY <1>1, IdentityInvariant, PTL

\* A password a user was not created with was chosen through a reset that was
\* mailed to this user (RequestPasswordReset, ResetPassword).
THEOREM LaterPasswordWasMailed == Spec => []PasswordWasMailed
<1>1. IdentityInv => PasswordWasMailed
    BY DEF IdentityInv, TablesSound
<1> QED
    BY <1>1, IdentityInvariant, PTL

\* A verification or reset token is marked used only after the user it is for was
\* saved (VerifyEmail, ResetPassword).
THEOREM SpentAlwaysTookEffect == Spec => []SpentTookEffect
<1>1. IdentityInv => SpentTookEffect
    BY DEF IdentityInv, TablesSound
<1> QED
    BY <1>1, IdentityInvariant, PTL

--------------------------------------------------------------------------------
(* The pool of connections. *)

\* What a request holds by what it is about to do: nothing is kept when it is over, and
\* only a write whose BEGIN was not answered has one connection less than it needs.
HeldAt(q) ==
    /\ q.at \in {"idle", "begin"} => q.held = 0
    /\ q.at = "acquire" => q.kind # "used" /\ q.held = Released(q)
    /\ q.at \in {"guard", "ping", "run"} =>
          /\ q.kind = "query" => q.held = IF q.at = "run" THEN 1 ELSE 0
          /\ q.kind = "write" => q.held \in {0, 1}
          /\ q.kind = "used" => q.held = 1
          /\ q.kind = "ignored" => q.held \in {1, 2}
    /\ q.at = "commit" => InTransaction(q.kind) /\ q.held = 1

HandlersInv ==
    \A r \in Handlers :
        /\ HeldAt(handler[r])
        /\ handler[r].at = "begin" => InTransaction(handler[r].kind)
        /\ handler[r].at \notin {"idle", "commit"} => handler[r].left > 0

HandlerRows ==
    [kind : Kinds, at : {"idle", "begin", "acquire", "guard", "ping", "run", "commit"},
     left : 0..Statements, held : 0..2, pings : 0..Attempts]

\* checking is the one that pings: one at a time, and the flag is never left behind.
OneChecks == \A r \in Handlers : handler[r].at = "ping" <=> checking = r

\* The requests never hold more connections than SetMaxOpenConns allows.
WithinLimit == Used <= Limit

PoolInv == PoolTypeOK /\ HandlersInv /\ OneChecks /\ WithinLimit

Holding(h, n) == {r \in Handlers : h[r].held >= n}
Held(h) == Cardinality(Holding(h, 1)) + Cardinality(Holding(h, 2))

LEMMA UsedIsHeld == Used = Held(handler) /\ Used' = Held(handler')
  BY DEF Used, Held, Holding

LEMMA HoldingFinite ==
    ASSUME NEW h, NEW n
    PROVE  /\ IsFiniteSet(Holding(h, n)) /\ Cardinality(Holding(h, n)) \in Nat
  <1>1. Holding(h, n) \in SUBSET Handlers /\ IsFiniteSet(Handlers)
    BY PoolAssumption DEF Holding
  <1> QED
    BY <1>1, FS_Subset, FS_CardinalityType

LEMMA HoldingBounds ==
    ASSUME NEW h, NEW g, NEW n, NEW r
    PROVE  /\ Holding(g, n) \subseteq Holding(h, n)
                 => Cardinality(Holding(g, n)) <= Cardinality(Holding(h, n))
           /\ Holding(g, n) \subseteq Holding(h, n) \cup {r}
                 => Cardinality(Holding(g, n)) <= Cardinality(Holding(h, n)) + 1
  <1> DEFINE G == Holding(g, n)
             H == Holding(h, n)
  <1>1. /\ IsFiniteSet(G) /\ Cardinality(G) \in Nat
        /\ IsFiniteSet(H) /\ Cardinality(H) \in Nat
    BY HoldingFinite
  <1> HIDE DEF G, H
  <1>2. G \subseteq H => Cardinality(G) <= Cardinality(H)
    BY <1>1, FS_Subset
  <1>3. G \subseteq H \cup {r} => Cardinality(G) <= Cardinality(H) + 1
    <2>1. /\ IsFiniteSet(H \cup {r})
          /\ Cardinality(H \cup {r}) <= Cardinality(H) + 1
      <3>1. /\ IsFiniteSet(H \cup {r})
            /\ Cardinality(H \cup {r}) = IF r \in H THEN Cardinality(H) ELSE Cardinality(H) + 1
        BY <1>1, FS_AddElement
      <3> QED
        BY <1>1, <3>1
    <2>2. Cardinality(H \cup {r}) \in Nat
      BY <2>1, FS_CardinalityType
    <2>3. G \subseteq H \cup {r} => Cardinality(G) <= Cardinality(H \cup {r})
      BY <2>1, FS_Subset
    <2> QED
      BY <1>1, <2>1, <2>2, <2>3
  <1> QED
    BY <1>2, <1>3 DEF G, H

\* One request takes one connection more, or none.
LEMMA HeldStep ==
    ASSUME NEW h \in [Handlers -> HandlerRows], NEW g \in [Handlers -> HandlerRows],
           NEW r \in Handlers, \A s \in Handlers : s # r => g[s] = h[s]
    PROVE  /\ Held(h) \in Nat /\ Held(g) \in Nat
           /\ g[r].held <= h[r].held => Held(g) <= Held(h)
           /\ g[r].held <= h[r].held + 1 => Held(g) <= Held(h) + 1
  <1>1. \A n \in {1, 2} : /\ Cardinality(Holding(h, n)) \in Nat
                          /\ Cardinality(Holding(g, n)) \in Nat
    BY HoldingFinite
  <1>2. g[r].held \in 0..2 /\ h[r].held \in 0..2
    BY DEF HandlerRows
  <1>3. ASSUME g[r].held <= h[r].held
        PROVE  \A n \in {1, 2} : Cardinality(Holding(g, n)) <= Cardinality(Holding(h, n))
    <2>1. ASSUME NEW n \in {1, 2} PROVE Holding(g, n) \subseteq Holding(h, n)
      <3>1. ASSUME NEW s \in Handlers, g[s].held >= n PROVE h[s].held >= n
        BY <1>2, <1>3, <2>1, <3>1
      <3> QED
        BY <3>1 DEF Holding
    <2> QED
      BY <2>1, HoldingBounds
  <1>4. CASE g[r].held = h[r].held + 1
    <2> DEFINE n == g[r].held
               m == IF n = 1 THEN 2 ELSE 1
    <2>1. n \in {1, 2} /\ m \in {1, 2} /\ n # m
      BY <1>2, <1>4
    <2>2. Holding(g, n) \subseteq Holding(h, n) \cup {r}
      BY DEF Holding
    <2>3. Holding(g, m) \subseteq Holding(h, m)
      <3>1. (g[r].held >= m) => (h[r].held >= m)
        BY <1>2, <1>4
      <3> HIDE DEF m
      <3> QED
        BY <3>1 DEF Holding
    <2>4. Cardinality(Holding(g, n)) <= Cardinality(Holding(h, n)) + 1
      BY <2>2, HoldingBounds
    <2>5. Cardinality(Holding(g, m)) <= Cardinality(Holding(h, m))
      BY <2>3, HoldingBounds
    <2>6. Held(g) <= Held(h) + 1
      <3> HIDE DEF n, m
      <3>1. Held(g) = Cardinality(Holding(g, n)) + Cardinality(Holding(g, m))
        BY <1>1, <2>1 DEF Held
      <3>2. Held(h) = Cardinality(Holding(h, n)) + Cardinality(Holding(h, m))
        BY <1>1, <2>1 DEF Held
      <3> QED
        BY <1>1, <2>1, <2>4, <2>5, <3>1, <3>2
    <2>7. ~(g[r].held <= h[r].held)
      BY <1>2, <1>4
    <2> QED
      BY <1>1, <2>6, <2>7 DEF Held
  <1>5. CASE g[r].held # h[r].held + 1
    <2>1. g[r].held <= h[r].held + 1 => g[r].held <= h[r].held
      BY <1>2, <1>5
    <2> QED
      BY <1>1, <1>3, <2>1 DEF Held
  <1> QED
    BY <1>4, <1>5

\* What a step of one request has to leave behind.
LEMMA OneMoves ==
    ASSUME PoolInv, NEW r \in Handlers, NEW q \in HandlerRows,
           handler' = [handler EXCEPT ![r] = q], up' \in BOOLEAN, due' \in BOOLEAN,
           HeldAt(q),
           q.at = "begin" => InTransaction(q.kind),
           q.at \notin {"idle", "commit"} => q.left > 0,
           \/ q.held <= handler[r].held
           \/ Free /\ q.held <= handler[r].held + 1,
           \/ q.at = "ping" /\ checking' = r /\ checking \in {None, r}
           \/ q.at # "ping" /\ checking' = IF handler[r].at = "ping" THEN None ELSE checking
    PROVE  PoolInv'
  <1>1. /\ handler \in [Handlers -> HandlerRows] /\ handler' \in [Handlers -> HandlerRows]
        /\ handler'[r] = q /\ \A s \in Handlers : s # r => handler'[s] = handler[s]
    BY DEF PoolInv, PoolTypeOK, HandlerRows
  <1>2. PoolTypeOK'
    <2>1. checking' \in Handlers \cup {None}
      BY DEF PoolInv, PoolTypeOK
    <2> QED
      BY <1>1, <2>1 DEF PoolTypeOK, HandlerRows
  <1>3. HandlersInv'
    <2>1. ASSUME NEW s \in Handlers
          PROVE  /\ HeldAt(handler'[s])
                 /\ handler'[s].at = "begin" => InTransaction(handler'[s].kind)
                 /\ handler'[s].at \notin {"idle", "commit"} => handler'[s].left > 0
      BY <1>1 DEF PoolInv, HandlersInv
    <2> QED
      BY <2>1 DEF HandlersInv
  <1>4. OneChecks'
    <2>1. \A s \in Handlers : handler[s].at = "ping" <=> checking = s
      BY DEF PoolInv, OneChecks
    <2>2. \A s \in Handlers : handler'[s].at = "ping" <=> checking' = s
      BY <1>1, <2>1, PoolAssumption
    <2> QED
      BY <2>2 DEF OneChecks
  <1>5. WithinLimit'
    <2>1. /\ Held(handler) \in Nat /\ Held(handler') \in Nat
          /\ q.held <= handler[r].held => Held(handler') <= Held(handler)
          /\ q.held <= handler[r].held + 1 => Held(handler') <= Held(handler) + 1
      BY <1>1, HeldStep
    <2>2. Used = Held(handler) /\ Used' = Held(handler') /\ Used <= Limit
      BY UsedIsHeld DEF PoolInv, WithinLimit
    <2>3. Used' <= Limit
      BY <2>1, <2>2, PoolAssumption DEF Free
    <2> QED
      BY <2>3 DEF WithinLimit
  <1> QED
    BY <1>2, <1>3, <1>4, <1>5 DEF PoolInv

LEMMA EndsInv ==
    ASSUME PoolInv, NEW r \in Handlers, Ends(r), up' = up, due' = due,
           checking' = IF handler[r].at = "ping" THEN None ELSE checking
    PROVE  PoolInv'
  <1>1. /\ IdleHandler \in HandlerRows /\ IdleHandler.held = 0 /\ IdleHandler.at = "idle"
        /\ HeldAt(IdleHandler)
    BY PoolAssumption DEF IdleHandler, HandlerRows, Kinds, HeldAt
  <1>2. up' \in BOOLEAN /\ due' \in BOOLEAN /\ handler[r].held \in Nat
    BY DEF PoolInv, PoolTypeOK
  <1>3. 0 <= handler[r].held
    BY <1>2
  <1> QED
    BY <1>1, <1>2, <1>3, OneMoves DEF Ends

\* The rows that the steps leave, field by field.
HandlerSteps == {"idle", "begin", "acquire", "guard", "ping", "run", "commit"}

Moved(p, a, n) == [p EXCEPT !.at = a, !.pings = n]
Retried(p, n) == [p EXCEPT !.pings = n]
Taken(p, a, h) == [p EXCEPT !.at = a, !.held = h]
Ran(p, l, h, a) == [p EXCEPT !.left = l, !.held = h, !.at = a]
Arrived(p, k, a, l) == [p EXCEPT !.kind = k, !.at = a, !.left = l]

LEMMA GoesRow ==
    ASSUME NEW p \in HandlerRows, NEW a \in HandlerSteps, NEW n \in 0..Attempts
    PROVE  LET q == Moved(p, a, n) IN
           /\ q \in HandlerRows
           /\ q.kind = p.kind /\ q.at = a /\ q.left = p.left /\ q.held = p.held
  BY DEF HandlerRows, HandlerSteps, Moved

LEMMA PingRow ==
    ASSUME NEW p \in HandlerRows, NEW n \in 0..Attempts
    PROVE  LET q == Retried(p, n) IN
           /\ q \in HandlerRows
           /\ q.kind = p.kind /\ q.at = p.at /\ q.left = p.left /\ q.held = p.held
  BY DEF HandlerRows, HandlerSteps, Retried

LEMMA AcquireRow ==
    ASSUME NEW p \in HandlerRows, NEW a \in HandlerSteps, NEW h \in 0..2
    PROVE  LET q == Taken(p, a, h) IN
           /\ q \in HandlerRows
           /\ q.kind = p.kind /\ q.at = a /\ q.left = p.left /\ q.held = h
  BY DEF HandlerRows, HandlerSteps, Taken

LEMMA RunRow ==
    ASSUME NEW p \in HandlerRows, NEW l \in 0..Statements, NEW h \in 0..2, NEW a \in HandlerSteps
    PROVE  LET q == Ran(p, l, h, a) IN
           /\ q \in HandlerRows
           /\ q.kind = p.kind /\ q.at = a /\ q.left = l /\ q.held = h
  BY DEF HandlerRows, HandlerSteps, Ran

LEMMA ArriveRow ==
    ASSUME NEW p \in HandlerRows, NEW k \in Kinds, NEW a \in HandlerSteps, NEW l \in 0..Statements
    PROVE  LET q == Arrived(p, k, a, l) IN
           /\ q \in HandlerRows
           /\ q.kind = k /\ q.at = a /\ q.left = l /\ q.held = p.held
  BY DEF HandlerRows, HandlerSteps, Arrived

\* Waiting for the guard ends with a ping, or without one.
LEMMA GoesInv ==
    ASSUME PoolInv, NEW r \in Handlers, NEW at, Goes(r, at), up' = up, due' \in BOOLEAN,
           handler[r].at \in {"guard", "ping"},
           \/ at = "ping" /\ checking' = r /\ checking \in {None, r}
           \/ /\ at = AfterGuard(handler[r].kind)
              /\ checking' = IF handler[r].at = "ping" THEN None ELSE checking
    PROVE  PoolInv'
  <1> DEFINE q == Moved(handler[r], at, 0)
  <1>1. handler[r] \in HandlerRows /\ up' \in BOOLEAN
    BY DEF PoolInv, PoolTypeOK, HandlerRows
  <1>2. handler' = [handler EXCEPT ![r] = q]
    BY <1>1 DEF Goes, Moved, PoolInv, PoolTypeOK
  <1>3. at \in {"ping", "acquire", "run"}
    BY DEF AfterGuard
  <1>4. /\ q \in HandlerRows /\ q.kind = handler[r].kind /\ q.held = handler[r].held
        /\ q.left = handler[r].left /\ q.at = at
    <2>1. 0 \in 0..Attempts /\ at \in HandlerSteps
      BY <1>3, PoolAssumption DEF HandlerSteps
    <2> QED
      BY <1>1, <2>1, GoesRow
  <1>5. HeldAt(handler[r]) /\ handler[r].left > 0 /\ handler[r].held \in 0..2
        /\ handler[r].kind \in Kinds
    BY <1>1 DEF PoolInv, HandlersInv, HandlerRows
  <1> HIDE DEF q
  <1>6. HeldAt(q)
    BY <1>4, <1>5 DEF HeldAt, AfterGuard, Released, InTransaction, Kinds
  <1>7. q.held <= handler[r].held
    BY <1>4, <1>5
  <1>8. q.at = "ping" <=> at = "ping"
    BY <1>4
  <1>9. \/ q.at = "ping" /\ checking' = r /\ checking \in {None, r}
        \/ q.at # "ping" /\ checking' = IF handler[r].at = "ping" THEN None ELSE checking
    BY <1>4 DEF AfterGuard
  <1>10. q.at \notin {"idle", "begin", "commit"} /\ q.left > 0
    BY <1>3, <1>4, <1>5
  <1> QED
    BY <1>1, <1>2, <1>4, <1>6, <1>7, <1>9, <1>10, OneMoves

LEMMA GuardInv ==
    ASSUME PoolInv, NEW r \in Handlers, Guard(r)
    PROVE  PoolInv'
  <1>1. up' = up /\ due' \in BOOLEAN
    BY DEF Guard, SkipCheck, StartCheck, PoolInv, PoolTypeOK
  <1>2. CASE SkipCheck(r)
    BY <1>1, <1>2, GoesInv DEF SkipCheck
  <1>3. CASE StartCheck(r)
    BY <1>1, <1>3, GoesInv DEF StartCheck
  <1> QED
    BY <1>2, <1>3 DEF Guard

LEMMA PingInv ==
    ASSUME PoolInv, NEW r \in Handlers, Ping(r)
    PROVE  PoolInv'
  <1>1. /\ handler[r].at = "ping" /\ up' = up /\ due' \in BOOLEAN /\ checking = r
        /\ handler[r] \in HandlerRows
    BY DEF Ping, PingAnswered, PingTimesOut, PoolInv, PoolTypeOK, OneChecks, HandlerRows
  <1>2. CASE PingAnswered(r)
    BY <1>1, <1>2, GoesInv DEF PingAnswered
  <1>3. CASE PingTimesOut(r) /\ handler[r].pings < Attempts
    <2> DEFINE q == Retried(handler[r], handler[r].pings + 1)
    <2>1. handler' = [handler EXCEPT ![r] = q] /\ checking' = checking /\ due' = due
      BY <1>1, <1>3 DEF PingTimesOut, Retried, PoolInv, PoolTypeOK
    <2>2. handler[r].pings + 1 \in 0..Attempts
      BY <1>1, <1>3, PoolAssumption DEF HandlerRows
    <2>3. /\ q \in HandlerRows /\ q.kind = handler[r].kind /\ q.held = handler[r].held
          /\ q.left = handler[r].left /\ q.at = "ping" /\ q.held <= handler[r].held
      <3>1. /\ q \in HandlerRows /\ q.kind = handler[r].kind /\ q.at = handler[r].at
            /\ q.left = handler[r].left /\ q.held = handler[r].held
        BY <1>1, <2>2, PingRow
      <3> HIDE DEF q
      <3> QED
        BY <1>1, <3>1 DEF HandlerRows
    <2>4. HeldAt(handler[r]) /\ handler[r].left > 0
      BY <1>1 DEF PoolInv, HandlersInv
    <2> HIDE DEF q
    <2>5. HeldAt(q)
      BY <1>1, <2>3, <2>4 DEF HeldAt
    <2>6. up' \in BOOLEAN
      BY <1>1 DEF PoolInv, PoolTypeOK
    <2> QED
      BY <1>1, <2>1, <2>3, <2>4, <2>5, <2>6, OneMoves
  <1>4. CASE PingTimesOut(r) /\ ~(handler[r].pings < Attempts)
    BY <1>1, <1>4, EndsInv DEF PingTimesOut
  <1> QED
    BY <1>2, <1>3, <1>4 DEF Ping

\* A step that makes no difference to who checks.
LEMMA WorkInv ==
    ASSUME PoolInv, NEW r \in Handlers, NEW q \in HandlerRows,
           handler' = [handler EXCEPT ![r] = q], UNCHANGED <<up, due, checking>>,
           HeldAt(q), handler[r].at # "ping", q.at # "ping",
           q.at = "begin" => InTransaction(q.kind),
           q.at \notin {"idle", "commit"} => q.left > 0,
           \/ q.held <= handler[r].held
           \/ Free /\ q.held <= handler[r].held + 1
    PROVE  PoolInv'
  <1>1. up' \in BOOLEAN /\ due' \in BOOLEAN
    BY DEF PoolInv, PoolTypeOK
  <1> QED
    BY <1>1, OneMoves

LEMMA ArriveInv ==
    ASSUME PoolInv, NEW r \in Handlers, Arrive(r)
    PROVE  PoolInv'
  <1>1. PICK kind \in Kinds :
          handler' = [handler EXCEPT ![r] =
              [IdleHandler EXCEPT !.kind = kind,
                           !.at = IF InTransaction(kind) THEN "begin" ELSE FirstOf(kind),
                           !.left = IF InTransaction(kind) THEN Statements ELSE 1]]
    BY DEF Arrive
  <1> DEFINE at == IF InTransaction(kind) THEN "begin" ELSE FirstOf(kind)
             left == IF InTransaction(kind) THEN Statements ELSE 1
             q == Arrived(IdleHandler, kind, at, left)
  <1>2. /\ IdleHandler \in HandlerRows /\ IdleHandler.held = 0
    BY PoolAssumption DEF IdleHandler, HandlerRows, Kinds
  <1>3. left \in 0..Statements /\ left > 0
    BY PoolAssumption
  <1>4. /\ handler' = [handler EXCEPT ![r] = q] /\ UNCHANGED <<up, due, checking>>
        /\ handler[r].at = "idle" /\ handler[r].held \in 0..2
    BY <1>1 DEF Arrive, Arrived, PoolInv, PoolTypeOK
  <1>5. at \in {"begin", "acquire", "guard"}
    BY DEF FirstOf
  <1> HIDE DEF q, left
  <1>6. q \in HandlerRows /\ q.at = at /\ q.held = 0 /\ q.left > 0 /\ q.kind = kind
    <2>1. at \in HandlerSteps
      BY <1>5 DEF HandlerSteps
    <2> HIDE DEF at
    <2>2. /\ q \in HandlerRows /\ q.at = at /\ q.held = IdleHandler.held /\ q.left = left
          /\ q.kind = kind
      BY <1>2, <1>3, <2>1, ArriveRow DEF q
    <2> QED
      BY <1>2, <1>3, <2>2
  <1>7. HeldAt(q) /\ (q.at = "begin" => InTransaction(q.kind))
    BY <1>6 DEF HeldAt, FirstOf, Released, InTransaction, Kinds
  <1>8. q.held <= handler[r].held /\ q.at # "ping"
    BY <1>4, <1>5, <1>6
  <1> HIDE DEF at
  <1> QED
    BY <1>4, <1>6, <1>7, <1>8, WorkInv

LEMMA BeginInv ==
    ASSUME PoolInv, NEW r \in Handlers, BeginTransaction(r)
    PROVE  PoolInv'
  <1>1. /\ handler[r].at = "begin" /\ Free /\ UNCHANGED <<up, due, checking>>
        /\ handler[r] \in HandlerRows /\ HeldAt(handler[r]) /\ handler[r].left > 0
        /\ InTransaction(handler[r].kind)
    BY DEF BeginTransaction, PoolInv, PoolTypeOK, HandlersInv, HandlerRows
  <1>2. CASE up
    <2> DEFINE q == Taken(handler[r], FirstOf(handler[r].kind), 1)
    <2>1. handler' = [handler EXCEPT ![r] = q]
      BY <1>2 DEF BeginTransaction, Taken, PoolInv, PoolTypeOK
    <2>2. /\ q \in HandlerRows /\ q.kind = handler[r].kind /\ q.left = handler[r].left
          /\ q.at = FirstOf(handler[r].kind) /\ q.held = 1
      <3> DEFINE p == handler[r]
                 at == FirstOf(handler[r].kind)
      <3>1. at \in HandlerSteps /\ 1 \in 0..2
        BY DEF FirstOf, HandlerSteps
      <3> QED
        BY <1>1, <3>1, AcquireRow
    <2> HIDE DEF q
    <2>3. HeldAt(q) /\ q.at \in {"acquire", "guard"}
      BY <1>1, <2>2 DEF HeldAt, FirstOf, Released, InTransaction
    <2>4. q.held <= handler[r].held + 1
      BY <1>1, <2>2 DEF HeldAt
    <2> QED
      BY <1>1, <2>1, <2>2, <2>3, <2>4, WorkInv
  <1>3. CASE ~up
    BY <1>1, <1>3, EndsInv DEF BeginTransaction
  <1> QED
    BY <1>2, <1>3

LEMMA AcquireInv ==
    ASSUME PoolInv, NEW r \in Handlers, Acquire(r)
    PROVE  PoolInv'
  <1>1. /\ handler[r].at = "acquire" /\ Free /\ UNCHANGED <<up, due, checking>>
        /\ handler[r] \in HandlerRows /\ HeldAt(handler[r]) /\ handler[r].left > 0
    BY DEF Acquire, PoolInv, PoolTypeOK, HandlersInv, HandlerRows
  <1> DEFINE kind == handler[r].kind
             more == IF up \/ kind = "query" THEN handler[r].held + 1 ELSE handler[r].held
             q == Taken(handler[r], AfterAcquire(kind), more)
  <1>2. handler' = [handler EXCEPT ![r] = q]
    BY DEF Acquire, Taken, PoolInv, PoolTypeOK
  <1>3. /\ handler[r].held = Released(handler[r]) /\ kind \in {"query", "write", "ignored"}
        /\ handler[r].held = IF kind = "ignored" THEN 1 ELSE 0
    BY <1>1 DEF HeldAt, HandlerRows, Kinds, Released, InTransaction
  <1>4. /\ more \in 0..2 /\ more <= handler[r].held + 1
        /\ kind = "query" => more = 1
        /\ kind = "write" => more \in {0, 1}
        /\ kind = "ignored" => more \in {1, 2}
    BY <1>3
  <1>5. /\ q \in HandlerRows /\ q.kind = kind /\ q.left = handler[r].left
        /\ q.at = AfterAcquire(kind) /\ q.held = more
    <2> DEFINE p == handler[r]
               at == AfterAcquire(kind)
    <2>1. at \in HandlerSteps
      BY DEF AfterAcquire, HandlerSteps
    <2> HIDE DEF more
    <2> QED
      BY <1>1, <1>4, <2>1, AcquireRow
  <1> HIDE DEF q, more
  <1>6. HeldAt(q) /\ q.at \in {"run", "guard"}
    BY <1>3, <1>4, <1>5 DEF HeldAt, AfterAcquire
  <1> QED
    BY <1>1, <1>2, <1>4, <1>5, <1>6, WorkInv

\* A statement puts back what it took; the transaction keeps its connection.
LEMMA RunInv ==
    ASSUME PoolInv, NEW r \in Handlers, Run(r)
    PROVE  PoolInv'
  <1>1. /\ handler[r].at = "run" /\ UNCHANGED <<up, due, checking>> /\ Connected(handler[r])
        /\ handler[r] \in HandlerRows /\ HeldAt(handler[r]) /\ handler[r].left > 0
    BY DEF Run, PoolInv, PoolTypeOK, HandlersInv, HandlerRows
  <1> DEFINE p == handler[r]
             left == p.left - 1
  <1>2. left \in 0..Statements /\ (left # 0 => left > 0)
    BY <1>1, PoolAssumption DEF HandlerRows
  <1>3. Released(p) \in {0, 1} /\ Released(p) <= p.held
    BY <1>1 DEF Released, Connected
  <1>4. CASE left = 0 /\ ~InTransaction(p.kind)
    <2> DEFINE q == [IdleHandler EXCEPT !.held = Released(p)]
    <2>1. handler' = [handler EXCEPT ![r] = q] /\ Released(p) = 0
      BY <1>4 DEF Run, Released
    <2>2. q = IdleHandler
      BY <2>1 DEF IdleHandler
    <2>3. Ends(r)
      BY <2>1, <2>2 DEF Ends
    <2> QED
      BY <1>1, <2>3, EndsInv
  <1>5. CASE ~(left = 0 /\ ~InTransaction(p.kind))
    <2> DEFINE at == IF left = 0 THEN "commit" ELSE FirstOf(p.kind)
               q == Ran(p, left, Released(p), at)
    <2>1. handler' = [handler EXCEPT ![r] = q]
      BY <1>5 DEF Run, Ran
    <2>2. at \in {"commit", "acquire", "guard"}
      BY DEF FirstOf
    <2>3. /\ q \in HandlerRows /\ q.kind = p.kind /\ q.left = left /\ q.at = at
          /\ q.held = Released(p)
      <3> DEFINE held == Released(p)
      <3>1. held \in 0..2 /\ at \in HandlerSteps
        BY <1>3, <2>2 DEF HandlerSteps
      <3> HIDE DEF left, at
      <3> QED
        BY <1>1, <1>2, <3>1, RunRow
    <2> HIDE DEF q
    <2>4. HeldAt(q)
      BY <1>1, <1>3, <1>5, <2>3 DEF HeldAt, FirstOf, Released, InTransaction, HandlerRows, Kinds
    <2>5. q.at \notin {"idle", "commit", "begin", "ping"} => q.left > 0
      BY <1>2, <2>3
    <2> QED
      BY <1>1, <1>3, <2>1, <2>2, <2>3, <2>4, <2>5, WorkInv
  <1> QED
    BY <1>4, <1>5

LEMMA PoolInvariant == PoolSpec => []PoolInv
  <1>1. PoolInit => PoolInv
    <2>1. SUFFICES ASSUME PoolInit PROVE PoolInv
      OBVIOUS
    <2>2. /\ IdleHandler \in HandlerRows /\ HeldAt(IdleHandler) /\ IdleHandler.at = "idle"
          /\ IdleHandler.held = 0
      BY PoolAssumption DEF IdleHandler, HandlerRows, Kinds, HeldAt
    <2>3. /\ handler \in [Handlers -> HandlerRows] /\ \A r \in Handlers : handler[r] = IdleHandler
          /\ checking = None /\ {up, due} \subseteq BOOLEAN
      BY <2>1, <2>2 DEF PoolInit
    <2>4. PoolTypeOK /\ HandlersInv
      BY <2>2, <2>3 DEF PoolTypeOK, HandlersInv, HandlerRows
    <2>5. OneChecks
      BY <2>2, <2>3, PoolAssumption DEF OneChecks
    <2>6. WithinLimit
      <3>1. Holding(handler, 1) = {} /\ Holding(handler, 2) = {}
        BY <2>2, <2>3 DEF Holding
      <3>2. Used = 0
        BY <3>1, FS_EmptySet, UsedIsHeld DEF Held
      <3> QED
        BY <3>2, PoolAssumption DEF WithinLimit
    <2> QED
      BY <2>4, <2>5, <2>6 DEF PoolInv
  <1>2. PoolInv /\ [PoolNext]_poolVars => PoolInv'
    <2> SUFFICES ASSUME PoolInv, [PoolNext]_poolVars PROVE PoolInv'
      OBVIOUS
    <2>1. ASSUME NEW r \in Handlers, Arrive(r) \/ Connect(r) \/ Guard(r) \/ Ping(r) PROVE PoolInv'
      BY <2>1, ArriveInv, BeginInv, AcquireInv, GuardInv, PingInv DEF Connect
    <2>2. ASSUME NEW r \in Handlers, Execute(r) \/ Cancel(r) PROVE PoolInv'
      <3>1. CASE Run(r)
        BY <3>1, RunInv
      <3>2. CASE Commit(r) \/ StatementFails(r) \/ Cancel(r)
        BY <3>2, EndsInv DEF Commit, StatementFails, Cancel
      <3> QED
        BY <2>2, <3>1, <3>2 DEF Execute
    <2>3. CASE Outage \/ Elapse \/ UNCHANGED poolVars
      <3>1. UNCHANGED <<checking, handler>> /\ {up', due'} \subseteq BOOLEAN
        BY <2>3 DEF Outage, Elapse, poolVars, PoolInv, PoolTypeOK
      <3> QED
        BY <3>1 DEF PoolInv, PoolTypeOK, HandlersInv, OneChecks, WithinLimit, Used
    <2> QED
      BY <2>1, <2>2, <2>3 DEF PoolNext
  <1> QED
    BY <1>1, <1>2, PTL DEF PoolSpec

\* PoolTypeOK: no request holds more than two connections or pings more often than the
\* guard allows, for any number of requests, connections, attempts and statements.
THEOREM PoolTypes == PoolSpec => []PoolTypeOK
  <1>1. PoolInv => PoolTypeOK
    BY DEF PoolInv
  <1> QED
    BY <1>1, PoolInvariant, PTL

\* The guard pings for one request at a time, and its flag is set exactly as long as that
\* request pings: no error path leaves it set, which would switch the guard off.
THEOREM OneCheckAtATime == PoolSpec => []OneChecks
  <1>1. PoolInv => OneChecks
    BY DEF PoolInv
  <1> QED
    BY <1>1, PoolInvariant, PTL

\* The connections in use never exceed the limit, and a request that is over holds none
\* of them, whichever of its steps failed.
THEOREM NothingLeaks ==
    PoolSpec => [](WithinLimit /\ \A r \in Handlers : handler[r].at = "idle" => handler[r].held = 0)
  <1>1. PoolInv => WithinLimit /\ \A r \in Handlers : handler[r].at = "idle" => handler[r].held = 0
    BY DEF PoolInv, HandlersInv, HeldAt
  <1> QED
    BY <1>1, PoolInvariant, PTL

\* SomebodyGoesOn: the deadlock of the pool needs as many transactions that do not use
\* their connection as there are connections, for every limit and number of requests.
THEOREM NoCircleBelowLimit == PoolSpec => []SomebodyGoesOn
  <1>1. PoolInv => SomebodyGoesOn
    <2>1. SUFFICES ASSUME PoolInv, Cardinality(Ignored) < Limit,
                          \A r \in Handlers : handler[r].held > 0 =>
                              handler[r].at \in {"begin", "acquire"}
                   PROVE  Free
      BY DEF SomebodyGoesOn
    <2>2. \A r \in Handlers : handler[r].held \in 0..2 /\ HeldAt(handler[r])
      BY <2>1 DEF PoolInv, PoolTypeOK, HandlersInv
    <2>3. ASSUME NEW r \in Handlers, handler[r].held > 0
          PROVE  handler[r].held = 1 /\ r \in Ignored
      <3>1. handler[r].at = "acquire" /\ handler[r].kind # "used"
            /\ handler[r].held = Released(handler[r])
        BY <2>1, <2>2, <2>3 DEF HeldAt
      <3> QED
        BY <2>2, <2>3, <3>1 DEF Released, InTransaction, Ignored
    <2>4. Holding(handler, 1) \subseteq Ignored /\ Holding(handler, 2) = {}
      BY <2>2, <2>3 DEF Holding
    <2>5. IsFiniteSet(Ignored)
      <3>1. Ignored \in SUBSET Handlers /\ IsFiniteSet(Handlers)
        BY PoolAssumption DEF Ignored
      <3> QED
        BY <3>1, FS_Subset
    <2>6. Cardinality(Holding(handler, 1)) <= Cardinality(Ignored)
          /\ Cardinality(Holding(handler, 2)) = 0
      BY <2>4, <2>5, FS_Subset, FS_EmptySet
    <2>7. Cardinality(Holding(handler, 1)) \in Nat /\ Cardinality(Ignored) \in Nat
      BY <2>5, HoldingFinite, FS_CardinalityType
    <2>8. Used = Cardinality(Holding(handler, 1)) + Cardinality(Holding(handler, 2))
      BY UsedIsHeld DEF Held
    <2> QED
      BY <2>1, <2>6, <2>7, <2>8, PoolAssumption DEF Free
  <1> QED
    BY <1>1, PoolInvariant, PTL
=============================================================================
