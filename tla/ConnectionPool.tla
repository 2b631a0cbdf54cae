--------------------------- MODULE ConnectionPool ---------------------------
(***************************************************************************)
(* The connections to PostgreSQL that the requests of one API process      *)
(* share, and the guard that pings the database before a statement         *)
(* (api/lib/db.go).                                                        *)
(*                                                                         *)
(* SubmitRepository and ReplaceTags open a transaction, which takes a      *)
(* connection, and do not use it: each of their statements waits for a     *)
(* second one.  DeleteMe uses the connection of its transaction.  Other    *)
(* handlers send their statements one by one.  What the statements do is   *)
(* the subject of other modules.                                           *)
(***************************************************************************)
EXTENDS Naturals, FiniteSets

CONSTANTS
    Handlers,    \* requests served at once
    None,        \* no request
    Limit,       \* SetMaxOpenConns
    Attempts,    \* pings after the first one failed
    Statements   \* statements of a transaction

VARIABLES
    up,          \* the database answers
    due,         \* checkInterval has passed since lastCheck
    checking,    \* the request that pings, None for 0
    handler      \* what each request is about to do

poolVars == <<up, due, checking, handler>>

ASSUME PoolAssumption ==
    /\ IsFiniteSet(Handlers) /\ None \notin Handlers
    /\ Limit \in Nat \ {0} /\ Attempts \in Nat /\ Statements \in Nat \ {0}

\* ignored: SubmitRepository and ReplaceTags.  used: DeleteMe.  alone: a statement
\* outside of a transaction, a query or a write.
Kinds == {"ignored", "used", "query", "write"}

IdleHandler == [kind |-> "query", at |-> "idle", left |-> 0, held |-> 0, pings |-> 0]

PoolTypeOK ==
    /\ {up, due} \subseteq BOOLEAN
    /\ checking \in Handlers \cup {None}
    /\ handler \in [Handlers ->
          [kind : Kinds, at : {"idle", "begin", "acquire", "guard", "ping", "run", "commit"},
           left : 0..Statements, held : 0..2, pings : 0..Attempts]]

PoolInit ==
    /\ up = TRUE /\ due = FALSE
    /\ checking = None
    /\ handler = [r \in Handlers |-> IdleHandler]

\* Connections are held by one request each, two at most.
Used ==
    LET holding(n) == Cardinality({r \in Handlers : handler[r].held >= n})
    IN holding(1) + holding(2)
Free == Used < Limit

InTransaction(kind) == kind \in {"ignored", "used"}

\* A slip: DeleteMe does not use the connection of its transaction either.
FirstOf_NoneUsed(kind) == IF kind = "query" THEN "guard" ELSE "acquire"

\* The guard runs before a query, and in a write after gorm has begun the transaction
\* of that one statement.
FirstOf(kind) == IF kind \in {"ignored", "write"} THEN "acquire" ELSE "guard"
AfterGuard(kind) == IF kind = "query" THEN "acquire" ELSE "run"
AfterAcquire(kind) == IF kind = "query" THEN "run" ELSE "guard"

Goes(r, at) == handler' = [handler EXCEPT ![r].at = at, ![r].pings = 0]

\* An error rolls the transaction back; whatever was held is free again.
Ends(r) == handler' = [handler EXCEPT ![r] = IdleHandler]

Arrive(r) ==
    /\ handler[r].at = "idle"
    /\ \E kind \in Kinds :
          handler' = [handler EXCEPT ![r] =
              [IdleHandler EXCEPT !.kind = kind,
                           !.at = IF InTransaction(kind) THEN "begin" ELSE FirstOf(kind),
                           !.left = IF InTransaction(kind) THEN Statements ELSE 1]]
    /\ UNCHANGED <<up, due, checking>>

BeginTransaction(r) ==
    /\ handler[r].at = "begin"
    /\ Free
    /\ IF up THEN handler' = [handler EXCEPT ![r].at = FirstOf(handler[r].kind), ![r].held = 1]
             ELSE Ends(r)
    /\ UNCHANGED <<up, due, checking>>

\* A write whose BEGIN was not answered goes through the guard all the same.
Acquire(r) ==
    LET kind == handler[r].kind
    IN /\ handler[r].at = "acquire"
       /\ Free
       /\ handler' = [handler EXCEPT ![r].at = AfterAcquire(kind),
                                     ![r].held = IF up \/ kind = "query" THEN @ + 1 ELSE @]
       /\ UNCHANGED <<up, due, checking>>

--------------------------------------------------------------------------------
(* ensureConnected. *)

\* Checked a moment ago, or somebody else is checking: the statement is tried.
SkipCheck(r) ==
    /\ handler[r].at = "guard"
    /\ ~due \/ checking # None
    /\ Goes(r, AfterGuard(handler[r].kind))
    /\ UNCHANGED <<up, due, checking>>

StartCheck(r) ==
    /\ handler[r].at = "guard"
    /\ due /\ checking = None
    /\ checking' = r
    /\ Goes(r, "ping")
    /\ UNCHANGED <<up, due>>

\* A ping takes a connection of the pool for a moment.
PingAnswered(r) ==
    /\ handler[r].at = "ping"
    /\ up /\ Free
    /\ due' = FALSE
    /\ checking' = None
    /\ Goes(r, AfterGuard(handler[r].kind))
    /\ UNCHANGED up

\* A slip: the flag is set back only after a ping that was answered.
PingTimesOut_KeepsChecking(r) ==
    /\ handler[r].at = "ping"
    /\ ~up \/ ~Free
    /\ IF handler[r].pings < Attempts
       THEN handler' = [handler EXCEPT ![r].pings = @ + 1]
       ELSE Ends(r)
    /\ UNCHANGED <<up, due, checking>>

\* The database does not answer or no connection was to be had; after the last
\* attempt the statement fails, and the next one checks again.
PingTimesOut(r) ==
    /\ handler[r].at = "ping"
    /\ ~up \/ ~Free
    /\ IF handler[r].pings < Attempts
       THEN handler' = [handler EXCEPT ![r].pings = @ + 1] /\ UNCHANGED checking
       ELSE Ends(r) /\ checking' = None
    /\ UNCHANGED <<up, due>>

--------------------------------------------------------------------------------
(* Statements. *)

\* A slip: the connection of a statement is not put back.
Released_Never(q) == q.held

\* What is held between two statements: the connection of the transaction.
Released(q) == IF InTransaction(q.kind) THEN 1 ELSE 0

\* False only after a failed BEGIN.
Connected(q) == q.held = IF q.kind = "ignored" THEN 2 ELSE 1

\* With its last statement a request outside of a transaction is over.
Run(r) ==
    LET q == handler[r]
        left == q.left - 1
    IN /\ q.at = "run"
       /\ up /\ Connected(q)
       /\ handler' = [handler EXCEPT ![r] =
              IF left = 0 /\ ~InTransaction(q.kind) THEN [IdleHandler EXCEPT !.held = Released(q)]
              ELSE [q EXCEPT !.left = left, !.held = Released(q),
                             !.at = IF left = 0 THEN "commit" ELSE FirstOf(q.kind)]]
       /\ UNCHANGED <<up, due, checking>>

\* The connection is lost, a constraint forbids the statement, or the commit fails.
StatementFails(r) ==
    /\ handler[r].at \in {"run", "commit"}
    /\ Ends(r)
    /\ UNCHANGED <<up, due, checking>>

Commit(r) ==
    /\ handler[r].at = "commit"
    /\ up
    /\ Ends(r)
    /\ UNCHANGED <<up, due, checking>>

\* The client goes away: waiting for a connection ends, a ping does not.
Cancel(r) ==
    /\ handler[r].at \in {"begin", "acquire"}
    /\ Ends(r)
    /\ UNCHANGED <<up, due, checking>>

--------------------------------------------------------------------------------

Outage == up' = ~up /\ UNCHANGED <<due, checking, handler>>

Elapse == ~due /\ due' = TRUE /\ UNCHANGED <<up, checking, handler>>

Connect(r) == BeginTransaction(r) \/ Acquire(r)
Guard(r) == SkipCheck(r) \/ StartCheck(r)
Ping(r) == PingAnswered(r) \/ PingTimesOut(r)
Execute(r) == Run(r) \/ Commit(r) \/ StatementFails(r)

PoolNext ==
    \/ \E r \in Handlers :
          Arrive(r) \/ Connect(r) \/ Guard(r) \/ Ping(r) \/ Execute(r) \/ Cancel(r)
    \/ Outage \/ Elapse

PoolSpec == PoolInit /\ [][PoolNext]_poolVars

\* database/sql gives a connection that is put back to one of those who wait, drawn at
\* random: who waits while connections are put back again and again gets one.  Pings
\* time out, statements are answered or fail.
PoolFairness ==
    \A r \in Handlers :
        /\ SF_poolVars(Connect(r)) /\ WF_poolVars(Guard(r))
        /\ WF_poolVars(Ping(r)) /\ WF_poolVars(Execute(r))

FairPoolSpec == PoolSpec /\ PoolFairness

--------------------------------------------------------------------------------
(* Properties. *)

\* Transactions that hold a connection they do not use.
Ignored == {r \in Handlers : handler[r].kind = "ignored" /\ handler[r].at # "begin"}

\* Nobody waits for everybody: as long as submissions and replacements of tags leave a
\* connection to the others, a pool without a free one has lent one to a request that
\* does not wait for another.
SomebodyGoesOn ==
    Cardinality(Ignored) < Limit /\ ~Free =>
        \E r \in Handlers : handler[r].held > 0 /\ handler[r].at \notin {"begin", "acquire"}

\* While fewer submissions and replacements of tags are in their transactions than the
\* pool has connections, every request ends, however the database comes and goes and
\* whoever pings: beyond that number they wait for each other until clients give up.
EndsBelowLimit ==
    [](Cardinality(Ignored) < Limit) =>
        \A r \in Handlers : handler[r].at # "idle" ~> handler[r].at = "idle"

\* Whoever checks the connection stops to, also when the pool itself has no connection
\* left for the ping: others do not go on unchecked for ever.
ChecksEnd == checking # None ~> checking = None
=============================================================================
