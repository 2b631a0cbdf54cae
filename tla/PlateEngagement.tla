--------------------------- MODULE PlateEngagement ---------------------------
(***************************************************************************)
(* Bookmarks and ratings of one plate at the server: SetBookmark of        *)
(* api/service/plate/lifecycle_ops.go and SubmitReview of                  *)
(* api/service/plate/review_badge_ops.go, statement by statement, and      *)
(* whatever else writes the columns and tables they use: whole plate rows  *)
(* saved by the sync worker and the handlers, an account that is deleted,  *)
(* a removal of the plate that breaks off.                                 *)
(*                                                                         *)
(* Neither table has a unique index over plate and account, no handler     *)
(* runs in a transaction, and a review saves the plate row it loaded       *)
(* before, counter of bookmarks included.                                  *)
(***************************************************************************)
EXTENDS Integers, Sequences, FiniteSets

CONSTANTS
    Accounts,    \* accounts that sign in
    Owner,       \* the owner of the plate
    Deletable,   \* accounts that may be deleted
    Ratings,     \* numbers of stars
    MaxRequests, \* bound: requests in a behaviour
    MaxCopies,   \* bound: whole rows held at once
    MaxFaults    \* bound: requests interrupted and removals begun, in a behaviour

VARIABLES
    members,     \* plate_member: rows of each account, bookmarked or not
    reviews,     \* plate_review
    count,       \* plate.bookmark_count
    average,     \* plate.avg_rating, as the reviews it is the average of
    requests,    \* the requests, in the order they were sent
    copies,      \* whole rows of the plate that somebody read and may save
    removing,    \* which rows a removal of the plate is at
    deleted,     \* accounts deleted
    faults,      \* interrupted requests and removals so far
    disturbed,   \* history: columns of the plate that were put wrong
    doubled,     \* history: accounts whose requests of a kind met each other or a deletion
    alone        \* history: reviews under way that met no other review

tables == <<members, reviews, count, average>>
others == <<copies, removing, deleted>>
history == <<faults, disturbed, doubled, alone>>
engagementVars == <<tables, requests, others, history>>

ASSUME PlateEngagementAssumption ==
    /\ Deletable \subseteq Accounts \ {Owner}
    /\ Ratings \subseteq Nat \ {0}
    /\ MaxRequests \in Nat /\ MaxCopies \in Nat /\ MaxFaults \in Nat

Kinds == {"bookmark", "review"}
Steps == {"sent", "read", "checked", "written", "listed", "done", "conflict", "failed"}

\* A review is known by the request that created it.
Reviews == [by : Nat, account : Accounts, rating : Ratings]

\* want: the rating, or 1 for a bookmark and 0 for none.
Requests ==
    [kind : Kinds, account : Accounts, want : Ratings \cup {0, 1}, at : Steps,
     found : {"none", "on", "off"}, loaded : Int, listed : SUBSET Reviews]

Copies == [count : Int, average : SUBSET Reviews]

Own(a) == {v \in reviews : v.account = a}
Bookmarks == Cardinality({a \in Accounts : members[a].on > 0})

EngagementTypeOK ==
    /\ members \in [Accounts -> [on : Nat, off : Nat]]
    /\ reviews \subseteq Reviews
    /\ count \in Int
    /\ average \subseteq Reviews
    /\ requests \in Seq(Requests) /\ Len(requests) <= MaxRequests
    /\ copies \subseteq Copies
    /\ removing \in {"nothing", "members", "reviews"}
    /\ deleted \subseteq Deletable
    /\ faults \in 0..MaxFaults
    /\ disturbed \subseteq {"count", "average"}
    /\ doubled \subseteq Accounts \X Kinds
    /\ alone \subseteq 1..MaxRequests

\* The owner's row is written with the plate.
EngagementInit ==
    /\ members = [a \in Accounts |-> [on |-> 0, off |-> IF a = Owner THEN 1 ELSE 0]]
    /\ reviews = {}
    /\ count = 0 /\ average = {}
    /\ requests = <<>>
    /\ copies = {} /\ removing = "nothing" /\ deleted = {}
    /\ faults = 0 /\ disturbed = {} /\ doubled = {} /\ alone = {}

--------------------------------------------------------------------------------
(* Requests. *)

Ids == 1..Len(requests)
Running(i) == requests[i].at \in {"read", "checked", "written", "listed"}
Finished(i) == requests[i].at \in {"done", "conflict", "failed"}
Beside(kind) == {i \in Ids : Running(i) /\ requests[i].kind = kind}
Toggles(a) == {i \in Beside("bookmark") : requests[i].account = a}

Send(kind, account, want) ==
    /\ Len(requests) < MaxRequests
    /\ requests' = Append(requests,
          [kind |-> kind, account |-> account, want |-> want, at |-> "sent",
           found |-> "none", loaded |-> 0, listed |-> {}])

Step(i, at) == requests' = [requests EXCEPT ![i].at = at]

\* What the handler read is no longer needed.
Return(i, at) ==
    requests' = [requests EXCEPT
        ![i] = [@ EXCEPT !.at = at, !.found = "none", !.loaded = 0, !.listed = {}]]

\* Bookkeeping: what is no longer sure once request i starts beside the others.
Overlapping(i) ==
    LET kind == requests[i].kind
        mine == {j \in Beside(kind) : requests[j].account = requests[i].account}
    IN /\ disturbed' = disturbed \cup
             (IF (kind = "bookmark" /\ mine # {}) \/
                    Beside(IF kind = "bookmark" THEN "review" ELSE "bookmark") # {}
              THEN {"count"} ELSE {})
       /\ doubled' = doubled \cup {<<requests[j].account, kind>> : j \in mine}
       /\ alone' = IF kind = "bookmark" THEN alone
                   ELSE IF Beside("review") = {} THEN alone \cup {i}
                   ELSE alone \ Beside("review")
       /\ UNCHANGED faults

--------------------------------------------------------------------------------
(* SetBookmark. *)

FoundRow(a) ==
    {f \in {"none", "on", "off"} :
        CASE f = "on" -> members[a].on > 0
          [] f = "off" -> members[a].off > 0
          [] f = "none" -> members[a].on = 0 /\ members[a].off = 0}

Wanted(r) == IF r.want = 1 THEN "on" ELSE "off"

\* A slip: asking twice for the same counts twice.
Unchanged_Never(r, found) == r.want = 0 /\ found = "none"

\* Nothing to do: no row and none wanted, or the row says so already.
Unchanged(r, found) == found = Wanted(r) \/ (found = "none" /\ r.want = 0)

ReadMember(i) ==
    LET r == requests[i] IN
    /\ r.kind = "bookmark" /\ r.at = "sent"
    /\ \E f \in FoundRow(r.account) :
          IF Unchanged(r, f) THEN Return(i, "done")
          ELSE requests' = [requests EXCEPT ![i].found = f, ![i].at = "read"]
    /\ Overlapping(i)
    /\ UNCHANGED <<tables, others>>

\* Create, which the foreign key refuses to a deleted account, or SetBookmarked on
\* every row of the account.
WriteMember(i) ==
    LET r == requests[i]
        row == members[r.account]
        all == row.on + row.off
        refused == r.found = "none" /\ r.account \in deleted
    IN /\ r.kind = "bookmark" /\ r.at = "read"
       /\ members' = [members EXCEPT ![r.account] =
              IF refused THEN row
              ELSE IF r.found = "none" THEN [row EXCEPT !.on = @ + 1]
              ELSE IF r.want = 1 THEN [on |-> all, off |-> 0]
              ELSE [on |-> 0, off |-> all]]
       /\ Return(i, IF refused THEN "failed" ELSE "written")
       /\ UNCHANGED <<reviews, count, average, others, history>>

CountBookmark(i) ==
    LET r == requests[i] IN
    /\ r.kind = "bookmark" /\ r.at = "written"
    /\ count' = IF r.want = 1 THEN count + 1 ELSE count - 1
    /\ Return(i, "done")
    /\ UNCHANGED <<members, reviews, average, others, history>>

--------------------------------------------------------------------------------
(* SubmitReview. *)

LoadPlate(i) ==
    LET r == requests[i] IN
    /\ r.kind = "review" /\ r.at = "sent"
    /\ IF r.account = Owner THEN Return(i, "failed") /\ UNCHANGED history
       ELSE /\ requests' = [requests EXCEPT ![i].loaded = count, ![i].at = "read"]
            /\ Overlapping(i)
    /\ UNCHANGED <<tables, others>>

\* A slip: the check for a review of the account is left out.
CheckReview_Skipped(i) ==
    /\ requests[i].kind = "review" /\ requests[i].at = "read"
    /\ Step(i, "checked")
    /\ UNCHANGED <<tables, others, history>>

CheckReview(i) ==
    LET r == requests[i] IN
    /\ r.kind = "review" /\ r.at = "read"
    /\ IF Own(r.account) # {} THEN Return(i, "conflict") ELSE Step(i, "checked")
    /\ UNCHANGED <<tables, others, history>>

\* The foreign key refuses the review of a deleted account.
CreateReview(i) ==
    LET r == requests[i] IN
    /\ r.kind = "review" /\ r.at = "checked"
    /\ IF r.account \in deleted
       THEN Return(i, "failed") /\ UNCHANGED reviews
       ELSE /\ reviews' = reviews \cup {[by |-> i, account |-> r.account, rating |-> r.want]}
            /\ Step(i, "written")
    /\ UNCHANGED <<members, count, average, others, history>>

\* A slip: the average leaves the new review out.
ListReviews_Before(i) ==
    /\ requests[i].kind = "review" /\ requests[i].at = "written"
    /\ requests' = [requests EXCEPT
           ![i].listed = {v \in reviews : v.by # i}, ![i].at = "listed"]
    /\ UNCHANGED <<tables, others, history>>

\* Without a review left the plate is not saved.
ListReviews(i) ==
    /\ requests[i].kind = "review" /\ requests[i].at = "written"
    /\ IF reviews = {}
       THEN /\ Return(i, "done")
            /\ disturbed' = disturbed \cup {"average"}
       ELSE /\ requests' = [requests EXCEPT ![i].listed = reviews, ![i].at = "listed"]
            /\ UNCHANGED disturbed
    /\ UNCHANGED <<tables, others, faults, doubled, alone>>

\* The whole row is written as it was loaded, with the new average.
SavePlate(i) ==
    /\ requests[i].kind = "review" /\ requests[i].at = "listed"
    /\ count' = requests[i].loaded
    /\ average' = requests[i].listed
    /\ Return(i, "done")
    /\ disturbed' = IF i \in alone THEN disturbed \ {"average"} ELSE disturbed \cup {"average"}
    /\ UNCHANGED <<members, reviews, others, faults, doubled, alone>>

\* A statement fails or the process stops.  The review's last two statements fail
\* without notice: it is answered as done.
Interrupt(i) ==
    LET r == requests[i]
        noted == r.kind = "bookmark" \/ r.at \notin {"written", "listed"}
    IN /\ r.at = "sent" \/ Running(i)
       /\ faults < MaxFaults /\ faults' = faults + 1
       /\ \/ Return(i, "failed")
          \/ ~noted /\ Return(i, "done")
       /\ disturbed' = disturbed \cup
             (IF r.kind = "bookmark" /\ r.at = "written" THEN {"count"} ELSE {}) \cup
             (IF r.kind = "review" /\ ~noted THEN {"average"} ELSE {})
       /\ UNCHANGED <<tables, others, doubled, alone>>

--------------------------------------------------------------------------------
(* Who else writes them. *)

\* The worker, Update, Archive, Approve, Reject and VerifyRepository read the whole row.
LoadCopy ==
    /\ Cardinality(copies) < MaxCopies
    /\ copies' = copies \cup {[count |-> count, average |-> average]}
    /\ UNCHANGED <<tables, requests, removing, deleted, history>>

\* They save it, counter and average as they were read; the worker may do so twice.
SaveCopy(c) ==
    /\ count' = c.count /\ average' = c.average
    /\ copies' \in {copies, copies \ {c}}
    /\ disturbed' = disturbed \cup (IF c.count # count THEN {"count"} ELSE {})
                              \cup (IF c.average # average THEN {"average"} ELSE {})
    /\ UNCHANGED <<members, reviews, requests, removing, deleted, faults, doubled, alone>>

DropCopy(c) ==
    /\ copies' = copies \ {c}
    /\ UNCHANGED <<tables, requests, removing, deleted, history>>

\* Bookkeeping for rows that go: nobody counts them again.
Dropping(accounts, gone) ==
    LET met == {a \in accounts : Toggles(a) # {}} IN
    /\ disturbed' = disturbed
          \cup (IF met # {} \/ \E a \in accounts : members[a].on > 0 THEN {"count"} ELSE {})
          \cup (IF gone # {} THEN {"average"} ELSE {})
    /\ doubled' = doubled \cup (met \X {"bookmark"})
    /\ alone' = IF gone = {} THEN alone
                ELSE alone \ {i \in Ids : requests[i].at = "listed"}

NoRow == [on |-> 0, off |-> 0]

\* DeleteMe, in one transaction.  The owner's account takes the plate with it.
DeleteMe(a) ==
    /\ a \in Deletable \ deleted
    /\ deleted' = deleted \cup {a}
    /\ members' = [members EXCEPT ![a] = NoRow]
    /\ reviews' = reviews \ Own(a)
    /\ Dropping({a}, Own(a))
    /\ UNCHANGED <<count, average, requests, copies, removing, faults>>

\* Remove deletes the members account by account, then the reviews one by one, each
\* in a statement of its own; which of them its lists held is left open.
RemoveMember(a) ==
    /\ members[a] # NoRow
    /\ \/ removing = "members" /\ UNCHANGED faults
       \/ removing = "nothing" /\ faults < MaxFaults /\ faults' = faults + 1
    /\ removing' = "members"
    /\ members' = [members EXCEPT ![a] = NoRow]
    /\ Dropping({a}, {})
    /\ UNCHANGED <<reviews, count, average, requests, copies, deleted>>

RemoveReview(v) ==
    /\ removing \in {"members", "reviews"} /\ removing' = "reviews"
    /\ reviews' = reviews \ {v}
    /\ Dropping({}, {v})
    /\ UNCHANGED <<members, count, average, requests, copies, deleted, faults>>

\* A statement fails; if none does, the plate goes next.
RemoveFails ==
    /\ removing # "nothing" /\ removing' = "nothing"
    /\ UNCHANGED <<tables, requests, copies, deleted, history>>

--------------------------------------------------------------------------------

Client ==
    /\ \E a \in Accounts :
          \/ \E want \in {0, 1} : Send("bookmark", a, want)
          \/ \E n \in Ratings : Send("review", a, n)
    /\ UNCHANGED <<tables, others, history>>

Server(i) ==
    \/ ReadMember(i) \/ WriteMember(i) \/ CountBookmark(i)
    \/ LoadPlate(i) \/ CheckReview(i) \/ CreateReview(i) \/ ListReviews(i) \/ SavePlate(i)
    \/ Interrupt(i)

Others ==
    \/ LoadCopy
    \/ \E c \in copies : SaveCopy(c) \/ DropCopy(c)
    \/ \E a \in Accounts : DeleteMe(a) \/ RemoveMember(a)
    \/ \E v \in reviews : RemoveReview(v)
    \/ RemoveFails

EngagementNext == Client \/ Others \/ \E i \in Ids : Server(i)

EngagementSpec == EngagementInit /\ [][EngagementNext]_engagementVars

--------------------------------------------------------------------------------
(* Properties. *)

Uncounted(want) ==
    Cardinality({i \in Ids : requests[i].kind = "bookmark" /\ requests[i].at = "written"
                             /\ requests[i].want = want})

\* However toggles of different accounts interleave, the counter of the plate is
\* the number of its bookmarks, but for those written and not yet counted.  It goes
\* wrong only by an interruption between the two statements, by toggles of one
\* account at once, beside a review, which saves the counter it loaded, by a whole
\* row saved with a counter that has changed since it was read, and when a
\* bookmark's row is deleted with its account or by a removal that breaks off.
CountIsBookmarks ==
    "count" \notin disturbed => count = Bookmarks - Uncounted(1) + Uncounted(0)

\* A review that meets no other one leaves the average of all reviews behind,
\* whatever bookmarks are set meanwhile and whatever put it wrong before.  From then
\* on it goes wrong only by a review that met another one, was interrupted or found
\* none left, by a whole row saved with an average that has changed since it was
\* read, and when a review is deleted.
AverageIsOfReviews ==
    "average" \notin disturbed /\ ~(\E i \in Ids : requests[i].at \in {"written", "listed"}
                                                   /\ requests[i].kind = "review")
        => average = reviews

\* An account reviews a plate once unless two of its reviews overlap; a review that
\* was interrupted or is deleted meanwhile makes no second one.
OneReview == \A a \in Accounts : <<a, "review">> \notin doubled => Cardinality(Own(a)) <= 1
=============================================================================
