--------------------------- MODULE PlatePage_proofs ---------------------------
(***************************************************************************)
(* What holds of the page of a plate and of what is done on it.  Bookmarks *)
(* and ratings at the server (PlateEngagement) come first: for every set   *)
(* of accounts, any number of overlapping requests and whole-row saves,    *)
(* deletions and interruptions.  Then the buttons of a tab (PlateButtons), *)
(* with answers lost and renderings of any age, and the page (PlatePage):  *)
(* whatever plates consist of, whatever fetches fail and whatever hash the *)
(* address has.                                                            *)
(***************************************************************************)
EXTENDS PlatePage, PlateButtons, FiniteSetTheorems, WellFoundedInduction, TLAPS

--------------------------------------------------------------------------------
(* The inductive invariants of the server. *)

\* Requests have the shape that the handlers give them.
RequestShape ==
    /\ requests \in Seq(Requests) /\ Len(requests) <= MaxRequests
    /\ \A i \in Ids :
          /\ requests[i].kind = "review" => requests[i].want \in Ratings
          /\ requests[i].kind = "bookmark" =>
                /\ requests[i].want \in {0, 1}
                /\ requests[i].at \notin {"checked", "listed", "conflict"}

TableShape ==
    /\ members \in [Accounts -> [on : Nat, off : Nat]]
    /\ reviews \subseteq Reviews
    /\ count \in Int
    /\ average \subseteq Reviews

OthersShape ==
    /\ copies \subseteq Copies
    /\ removing \in {"nothing", "members", "reviews"}
    /\ deleted \subseteq Deletable

HistoryShape ==
    /\ faults \in 0..MaxFaults
    /\ disturbed \subseteq {"count", "average"}
    /\ doubled \subseteq Accounts \X Kinds

Shape == RequestShape /\ TableShape /\ OthersShape /\ HistoryShape

\* The rows of an account agree, and say what the toggle under way read in them, as long
\* as no two of its toggles have met; if they have, the counter is not sure either.
RowsOf(a) ==
    /\ members[a].on = 0 \/ members[a].off = 0
    /\ \A i, j \in Toggles(a) : i = j
    /\ \A i \in Toggles(a) : requests[i].at = "read" =>
          requests[i].found \in FoundRow(a) /\ ~Unchanged(requests[i], requests[i].found)

BookmarkRows ==
    \A a \in Accounts : IF <<a, "bookmark">> \in doubled THEN "count" \in disturbed ELSE RowsOf(a)

\* Nobody toggles while a review is under way, so that the counter it saves is the one
\* there is.
CountInv ==
    /\ IsFiniteSet({a \in Accounts : members[a].on > 0})
    /\ CountIsBookmarks
    /\ "count" \notin disturbed =>
          /\ Beside("bookmark") = {} \/ Beside("review") = {}
          /\ \A i \in Beside("review") : requests[i].loaded = count

\* A review that met no other one is the only one under way, and what it has listed is
\* all there is.
AverageInv ==
    /\ AverageIsOfReviews
    /\ \A i \in alone :
          /\ i \in Ids /\ requests[i].kind = "review" /\ requests[i].at # "sent"
          /\ Running(i) => Beside("review") \subseteq {i}
          /\ requests[i].at = "listed" => requests[i].listed = reviews

\* The account has no review while one of its reviews is past the check.
OneReviewInv ==
    \A a \in Accounts : <<a, "review">> \notin doubled =>
       /\ \A v, w \in Own(a) : v = w
       /\ \A i, j \in Beside("review") :
             requests[i].account = a /\ requests[j].account = a => i = j
       /\ \A i \in Beside("review") :
             requests[i].account = a /\ requests[i].at = "checked" => Own(a) = {}

--------------------------------------------------------------------------------
(* What the steps of a request leave behind. *)

LEMMA ElementType ==
    ASSUME NEW S, NEW s \in Seq(S), NEW i \in 1..Len(s)
    PROVE  s[i] \in S
  OBVIOUS

LEMMA ReplaceElement ==
    ASSUME NEW S, NEW s \in Seq(S), NEW i \in 1..Len(s), NEW r \in S
    PROVE  /\ [s EXCEPT ![i] = r] \in Seq(S)
           /\ Len([s EXCEPT ![i] = r]) = Len(s)
           /\ [s EXCEPT ![i] = r][i] = r
           /\ \A j \in 1..Len(s) : j # i => [s EXCEPT ![i] = r][j] = s[j]
  OBVIOUS

LEMMA AppendElement ==
    ASSUME NEW S, NEW s \in Seq(S), NEW r \in S
    PROVE  /\ Append(s, r) \in Seq(S)
           /\ Len(Append(s, r)) = Len(s) + 1
           /\ Append(s, r)[Len(s) + 1] = r
           /\ \A j \in 1..Len(s) : Append(s, r)[j] = s[j]
  OBVIOUS

LEMMA RequestType ==
    ASSUME requests \in Seq(Requests), NEW i \in Ids
    PROVE  /\ requests[i] \in Requests
           /\ requests[i].kind \in Kinds /\ requests[i].account \in Accounts
           /\ requests[i].want \in Ratings \cup {0, 1}
           /\ requests[i].at \in Steps /\ requests[i].found \in {"none", "on", "off"}
           /\ requests[i].loaded \in Int /\ requests[i].listed \in SUBSET Reviews
  <1>1. requests[i] \in Requests
    BY ElementType DEF Ids
  <1> QED
    BY <1>1 DEF Requests

\* Request i goes on, the others stay; what was asked for does not change.
Moves(i) ==
    /\ requests' \in Seq(Requests) /\ Len(requests') = Len(requests) /\ Ids' = Ids
    /\ \A j \in Ids : j # i => requests'[j] = requests[j]
    /\ requests'[i].kind = requests[i].kind /\ requests'[i].account = requests[i].account
    /\ requests'[i].want = requests[i].want

LEMMA ReplaceMoves ==
    ASSUME requests \in Seq(Requests), NEW i \in Ids, NEW r \in Requests,
           requests' = [requests EXCEPT ![i] = r],
           r.kind = requests[i].kind, r.account = requests[i].account,
           r.want = requests[i].want
    PROVE  Moves(i) /\ requests'[i] = r
  <1>1. /\ requests' \in Seq(Requests) /\ Len(requests') = Len(requests)
        /\ requests'[i] = r
        /\ \A j \in 1..Len(requests) : j # i => requests'[j] = requests[j]
    BY ReplaceElement DEF Ids
  <1> QED
    BY <1>1 DEF Moves, Ids

\* Of the request nothing but the step, and what it has read, changes.
Reaches(i, at, found, loaded, listed) ==
    /\ Moves(i)
    /\ requests'[i].at = at /\ requests'[i].found = found
    /\ requests'[i].loaded = loaded /\ requests'[i].listed = listed

LEMMA UpdateReaches ==
    ASSUME requests \in Seq(Requests), NEW i \in Ids, NEW at \in Steps,
           NEW found \in {"none", "on", "off"}, NEW loaded \in Int,
           NEW listed \in SUBSET Reviews,
           requests' = [requests EXCEPT ![i] = [@ EXCEPT
                            !.at = at, !.found = found, !.loaded = loaded, !.listed = listed]]
    PROVE  Reaches(i, at, found, loaded, listed)
  <1> DEFINE r == [requests[i] EXCEPT
                      !.at = at, !.found = found, !.loaded = loaded, !.listed = listed]
  <1>1. requests[i] \in Requests
    BY RequestType
  <1>2. /\ r \in Requests
        /\ r.kind = requests[i].kind /\ r.account = requests[i].account
        /\ r.want = requests[i].want
        /\ r.at = at /\ r.found = found /\ r.loaded = loaded /\ r.listed = listed
    BY <1>1 DEF Requests
  <1>3. requests' = [requests EXCEPT ![i] = r]
    OBVIOUS
  <1> HIDE DEF r
  <1>4. Moves(i) /\ requests'[i] = r
    BY <1>2, <1>3, ReplaceMoves
  <1> QED
    BY <1>2, <1>4 DEF Reaches

LEMMA StepReaches ==
    ASSUME requests \in Seq(Requests), NEW i \in Ids, NEW at \in Steps, Step(i, at)
    PROVE  Reaches(i, at, requests[i].found, requests[i].loaded, requests[i].listed)
  <1> DEFINE q == requests[i]
             r == [q EXCEPT !.at = at, !.found = q.found, !.loaded = q.loaded,
                            !.listed = q.listed]
  <1>1. q \in Requests
    BY RequestType
  <1>2. [q EXCEPT !.at = at] = r
    BY <1>1 DEF Requests
  <1>3. requests' = [requests EXCEPT ![i] = r]
    BY <1>2 DEF Step
  <1> QED
    BY <1>3, RequestType, UpdateReaches

\* A request that ends, and one that reaches its next statement with what it has read.
Ends(i, at) == Moves(i) /\ requests'[i].at = at

LEMMA ReturnEnds ==
    ASSUME requests \in Seq(Requests), NEW i \in Ids, NEW at \in Steps, Return(i, at)
    PROVE  Ends(i, at)
  <1>1. requests' = [requests EXCEPT ![i] = [@ EXCEPT
            !.at = at, !.found = "none", !.loaded = 0, !.listed = {}]]
    BY DEF Return
  <1>2. "none" \in {"none", "on", "off"} /\ 0 \in Int /\ {} \in SUBSET Reviews
    OBVIOUS
  <1>3. Reaches(i, at, "none", 0, {})
    BY <1>1, <1>2, UpdateReaches
  <1> QED
    BY <1>3 DEF Reaches, Ends

\* A new request is the last one.
Arrives(kind, account, want) ==
    /\ requests' \in Seq(Requests) /\ Len(requests') <= MaxRequests
    /\ Len(requests') = Len(requests) + 1
    /\ Len(requests') \in Ids' /\ Ids' = Ids \cup {Len(requests')} /\ Len(requests') \notin Ids
    /\ \A j \in Ids : requests'[j] = requests[j]
    /\ requests'[Len(requests')].kind = kind /\ requests'[Len(requests')].account = account
    /\ requests'[Len(requests')].want = want /\ requests'[Len(requests')].at = "sent"

LEMMA SendArrives ==
    ASSUME requests \in Seq(Requests), NEW kind \in Kinds, NEW account \in Accounts,
           NEW want \in Ratings \cup {0, 1}, Send(kind, account, want)
    PROVE  Arrives(kind, account, want)
  <1> DEFINE r == [kind |-> kind, account |-> account, want |-> want,
                   at |-> "sent", found |-> "none", loaded |-> 0, listed |-> {}]
  <1>1. r \in Requests
    BY DEF Requests, Steps
  <1>2. /\ requests' = Append(requests, r) /\ Len(requests) < MaxRequests
        /\ Len(requests) \in Nat
    BY DEF Send
  <1>3. r.kind = kind /\ r.account = account /\ r.want = want /\ r.at = "sent"
    OBVIOUS
  <1> HIDE DEF r
  <1>4. /\ requests' \in Seq(Requests) /\ Len(requests') = Len(requests) + 1
        /\ requests'[Len(requests) + 1] = r
        /\ \A j \in 1..Len(requests) : requests'[j] = requests[j]
    BY <1>1, <1>2, AppendElement
  <1>5. Len(requests') \in Ids' /\ Ids' = Ids \cup {Len(requests')} /\ Len(requests') \notin Ids
    BY <1>2, <1>4 DEF Ids
  <1>6. Len(requests') <= MaxRequests
    BY <1>2, <1>4, PlateEngagementAssumption
  <1> QED
    BY <1>3, <1>4, <1>5, <1>6 DEF Arrives, Ids

\* Which requests are under way after one of them moved or a new one came.
LEMMA BesideMoves ==
    ASSUME NEW i \in Ids, Moves(i), NEW kind
    PROVE  /\ Beside(kind)' \subseteq Beside(kind) \cup {i}
           /\ Beside(kind) \subseteq Beside(kind)' \cup {i}
           /\ i \in Beside(kind)' <=> requests[i].kind = kind /\ Running(i)'
           /\ \A a : /\ Toggles(a)' \subseteq Toggles(a) \cup {i}
                     /\ requests[i].kind # "bookmark" \/ requests[i].account # a =>
                           Toggles(a)' = Toggles(a)
  BY DEF Moves, Beside, Toggles, Running

LEMMA BesideArrives ==
    ASSUME NEW kind, NEW account, NEW want, Arrives(kind, account, want)
    PROVE  /\ \A k : Beside(k)' = Beside(k)
           /\ \A a : Toggles(a)' = Toggles(a)
  BY DEF Arrives, Beside, Toggles, Running

\* What the bookkeeping notes when request i starts; of the columns nothing it noted is
\* taken back.
LEMMA OverlappingNotes ==
    ASSUME requests \in Seq(Requests), HistoryShape, NEW i \in Ids, Overlapping(i)
    PROVE  /\ disturbed \subseteq disturbed' /\ disturbed' \subseteq disturbed \cup {"count"}
           /\ doubled \subseteq doubled' /\ doubled' \subseteq Accounts \X Kinds
           /\ faults' = faults
           /\ \A j \in Beside(requests[i].kind) : requests[j].account = requests[i].account =>
                 /\ <<requests[i].account, requests[i].kind>> \in doubled'
                 /\ requests[i].kind = "bookmark" => "count" \in disturbed'
           /\ \A a : <<a, "bookmark">> \in doubled' /\ "count" \notin disturbed' =>
                 <<a, "bookmark">> \in doubled
           /\ requests[i].kind = "bookmark" /\ Beside("review") # {} => "count" \in disturbed'
           /\ requests[i].kind = "review" /\ Beside("bookmark") # {} => "count" \in disturbed'
           /\ requests[i].kind = "bookmark" => alone' = alone
           /\ requests[i].kind = "review" =>
                 IF Beside("review") = {} THEN alone' = alone \cup {i}
                 ELSE alone' = alone \ Beside("review")
  <1> DEFINE kind == requests[i].kind
             mine == {j \in Beside(kind) : requests[j].account = requests[i].account}
             other == IF kind = "bookmark" THEN "review" ELSE "bookmark"
  <1>1. kind \in Kinds /\ requests[i].account \in Accounts
    BY RequestType
  <1>2. /\ disturbed' = disturbed \cup
              (IF (kind = "bookmark" /\ mine # {}) \/ Beside(other) # {} THEN {"count"} ELSE {})
        /\ doubled' = doubled \cup {<<requests[j].account, kind>> : j \in mine}
        /\ alone' = IF kind = "bookmark" THEN alone
                    ELSE IF Beside("review") = {} THEN alone \cup {i}
                    ELSE alone \ Beside("review")
        /\ faults' = faults
    BY DEF Overlapping
  <1>3. \A j \in mine : <<requests[j].account, kind>> = <<requests[i].account, kind>>
    OBVIOUS
  <1>4. doubled' \subseteq Accounts \X Kinds
    BY <1>1, <1>2, <1>3 DEF HistoryShape
  <1>5. \A j \in Beside(kind) : requests[j].account = requests[i].account =>
           /\ <<requests[i].account, kind>> \in doubled'
           /\ kind = "bookmark" => "count" \in disturbed'
    BY <1>2, <1>3
  <1>6. \A a : <<a, "bookmark">> \in doubled' /\ "count" \notin disturbed' =>
           <<a, "bookmark">> \in doubled
    BY <1>2
  <1>7. /\ kind = "bookmark" /\ Beside("review") # {} => "count" \in disturbed'
        /\ kind = "review" /\ Beside("bookmark") # {} => "count" \in disturbed'
    BY <1>2
  <1> QED
    BY <1>1, <1>2, <1>4, <1>5, <1>6, <1>7 DEF Kinds

\* The steps of the handlers, request by request.
LEMMA ReadMemberStep ==
    ASSUME Shape, NEW i \in Ids, ReadMember(i)
    PROVE  \E f \in FoundRow(requests[i].account) :
              IF Unchanged(requests[i], f) THEN Ends(i, "done")
              ELSE Reaches(i, "read", f, requests[i].loaded, requests[i].listed)
  <1>1. requests \in Seq(Requests)
    BY DEF Shape, RequestShape
  <1>2. PICK f \in FoundRow(requests[i].account) :
           IF Unchanged(requests[i], f) THEN Return(i, "done")
           ELSE requests' = [requests EXCEPT ![i].found = f, ![i].at = "read"]
    BY DEF ReadMember
  <1>3. CASE Unchanged(requests[i], f)
    BY <1>1, <1>2, <1>3, ReturnEnds DEF Steps
  <1>4. CASE ~Unchanged(requests[i], f)
    <2> DEFINE q == requests[i]
               r == [q EXCEPT !.at = "read", !.found = f, !.loaded = q.loaded,
                              !.listed = q.listed]
    <2>1. q \in Requests
      BY <1>1, RequestType
    <2>2. [[q EXCEPT !.found = f] EXCEPT !.at = "read"] = r
      BY <2>1 DEF Requests
    <2>3. requests' = [requests EXCEPT ![i] = r]
      BY <1>1, <1>2, <1>4, <2>2
    <2>4. f \in {"none", "on", "off"} /\ "read" \in Steps
      BY DEF FoundRow, Steps
    <2>5. Reaches(i, "read", f, q.loaded, q.listed)
      BY <1>1, <2>3, <2>4, RequestType, UpdateReaches
    <2> QED
      BY <1>4, <2>5
  <1> QED
    BY <1>3, <1>4

LEMMA WriteMemberStep ==
    ASSUME Shape, NEW i \in Ids, WriteMember(i)
    PROVE  IF requests[i].found = "none" /\ requests[i].account \in deleted
           THEN Ends(i, "failed") ELSE Ends(i, "written")
  BY ReturnEnds DEF WriteMember, Steps, Shape, RequestShape

LEMMA CountBookmarkStep ==
    ASSUME Shape, NEW i \in Ids, CountBookmark(i)
    PROVE  Ends(i, "done")
  BY ReturnEnds DEF CountBookmark, Steps, Shape, RequestShape

LEMMA LoadPlateStep ==
    ASSUME Shape, NEW i \in Ids, LoadPlate(i)
    PROVE  \/ Ends(i, "failed") /\ UNCHANGED history
           \/ /\ Reaches(i, "read", requests[i].found, count, requests[i].listed)
              /\ Overlapping(i)
  <1>1. requests \in Seq(Requests) /\ count \in Int
    BY DEF Shape, RequestShape, TableShape
  <1>2. CASE requests[i].account = Owner
    BY <1>1, <1>2, ReturnEnds DEF LoadPlate, Steps
  <1>3. CASE requests[i].account # Owner
    <2> DEFINE q == requests[i]
               r == [q EXCEPT !.at = "read", !.found = q.found, !.loaded = count,
                              !.listed = q.listed]
    <2>1. q \in Requests
      BY <1>1, RequestType
    <2>2. [[q EXCEPT !.loaded = count] EXCEPT !.at = "read"] = r
      BY <2>1 DEF Requests
    <2>3. requests' = [requests EXCEPT ![i] = r]
      BY <1>1, <1>3, <2>2 DEF LoadPlate
    <2>4. "read" \in Steps
      BY DEF Steps
    <2>5. Reaches(i, "read", q.found, count, q.listed)
      BY <1>1, <2>3, <2>4, RequestType, UpdateReaches
    <2> QED
      BY <1>3, <2>5 DEF LoadPlate
  <1> QED
    BY <1>2, <1>3

LEMMA CheckReviewStep ==
    ASSUME Shape, NEW i \in Ids, CheckReview(i)
    PROVE  IF Own(requests[i].account) # {} THEN Ends(i, "conflict")
           ELSE Reaches(i, "checked", requests[i].found, requests[i].loaded, requests[i].listed)
  BY ReturnEnds, StepReaches DEF CheckReview, Steps, Shape, RequestShape

LEMMA CreateReviewStep ==
    ASSUME Shape, NEW i \in Ids, CreateReview(i)
    PROVE  IF requests[i].account \in deleted
           THEN Ends(i, "failed") /\ UNCHANGED reviews
           ELSE /\ Reaches(i, "written", requests[i].found, requests[i].loaded,
                           requests[i].listed)
                /\ reviews' = reviews \cup {[by |-> i, account |-> requests[i].account,
                                             rating |-> requests[i].want]}
  BY ReturnEnds, StepReaches DEF CreateReview, Steps, Shape, RequestShape

LEMMA ListReviewsStep ==
    ASSUME Shape, NEW i \in Ids, ListReviews(i)
    PROVE  IF reviews = {} THEN Ends(i, "done") /\ disturbed' = disturbed \cup {"average"}
           ELSE /\ Reaches(i, "listed", requests[i].found, requests[i].loaded, reviews)
                /\ UNCHANGED disturbed
  <1>1. requests \in Seq(Requests) /\ reviews \in SUBSET Reviews
    BY DEF Shape, RequestShape, TableShape
  <1>2. CASE reviews = {}
    BY <1>1, <1>2, ReturnEnds DEF ListReviews, Steps
  <1>3. CASE reviews # {}
    <2> DEFINE q == requests[i]
               r == [q EXCEPT !.at = "listed", !.found = q.found, !.loaded = q.loaded,
                              !.listed = reviews]
    <2>1. q \in Requests
      BY <1>1, RequestType
    <2>2. [[q EXCEPT !.listed = reviews] EXCEPT !.at = "listed"] = r
      BY <2>1 DEF Requests
    <2>3. requests' = [requests EXCEPT ![i] = r]
      BY <1>1, <1>3, <2>2 DEF ListReviews
    <2>4. "listed" \in Steps
      BY DEF Steps
    <2>5. Reaches(i, "listed", q.found, q.loaded, reviews)
      BY <1>1, <2>3, <2>4, RequestType, UpdateReaches
    <2> QED
      BY <1>3, <2>5 DEF ListReviews
  <1> QED
    BY <1>2, <1>3

LEMMA SavePlateStep ==
    ASSUME Shape, NEW i \in Ids, SavePlate(i)
    PROVE  Ends(i, "done")
  BY ReturnEnds DEF SavePlate, Steps, Shape, RequestShape

LEMMA InterruptStep ==
    ASSUME Shape, NEW i \in Ids, Interrupt(i)
    PROVE  \/ Ends(i, "failed")
           \/ /\ requests[i].kind = "review" /\ requests[i].at \in {"written", "listed"}
              /\ Ends(i, "done")
  <1>1. requests \in Seq(Requests)
    BY DEF Shape, RequestShape
  <1>2. \/ Return(i, "failed")
        \/ /\ requests[i].kind = "review" /\ requests[i].at \in {"written", "listed"}
           /\ Return(i, "done")
    BY <1>1, RequestType DEF Interrupt, Kinds
  <1> QED
    BY <1>1, <1>2, ReturnEnds DEF Steps

\* The requests that appear.
LEMMA ClientStep ==
    ASSUME Shape, Client
    PROVE  /\ UNCHANGED <<tables, others, history>>
           /\ \E kind \in Kinds, a \in Accounts, want \in Ratings \cup {0, 1} :
                 /\ Arrives(kind, a, want)
                 /\ want \in IF kind = "review" THEN Ratings ELSE {0, 1}
  <1>1. requests \in Seq(Requests)
    BY DEF Shape, RequestShape
  <1>2. PICK a \in Accounts :
           \/ \E want \in {0, 1} : Send("bookmark", a, want)
           \/ \E n \in Ratings : Send("review", a, n)
    BY DEF Client
  <1>3. ASSUME NEW want \in {0, 1}, Send("bookmark", a, want)
        PROVE  Arrives("bookmark", a, want) /\ "bookmark" \in Kinds /\ want \in Ratings \cup {0, 1}
    BY <1>1, <1>3, SendArrives DEF Kinds
  <1>4. ASSUME NEW n \in Ratings, Send("review", a, n)
        PROVE  Arrives("review", a, n) /\ "review" \in Kinds /\ n \in Ratings \cup {0, 1}
    BY <1>1, <1>4, SendArrives DEF Kinds
  <1> QED
    BY <1>2, <1>3, <1>4 DEF Client

\* What the others do: requests go on, rows of members may go, and whatever is noted of
\* toggles is noted of the counter.
LEMMA OthersStep ==
    ASSUME Shape, Others
    PROVE  /\ UNCHANGED requests
           /\ members' \in [Accounts -> [on : Nat, off : Nat]]
           /\ reviews' \subseteq reviews
           /\ disturbed \subseteq disturbed' /\ disturbed' \subseteq {"count", "average"}
           /\ doubled \subseteq doubled' /\ doubled' \subseteq Accounts \X Kinds
           /\ \A a : <<a, "bookmark">> \in doubled' => <<a, "bookmark">> \in doubled
                                                       \/ "count" \in disturbed'
           /\ \A a \in Accounts : members'[a] # members[a] =>
                 /\ members'[a] = NoRow
                 /\ Toggles(a) # {} => <<a, "bookmark">> \in doubled'
                 /\ members[a].on > 0 => "count" \in disturbed'
           /\ count' \in Int /\ (count' # count => "count" \in disturbed')
           /\ average' \subseteq Reviews /\ (average' # average => "average" \in disturbed')
           /\ alone' \subseteq alone
           /\ reviews' # reviews => /\ "average" \in disturbed'
                                    /\ \A i \in alone' : i \in Ids => requests[i].at # "listed"
           /\ faults' \in 0..MaxFaults
           /\ OthersShape'
  <1> USE DEF Shape, TableShape, OthersShape, HistoryShape
  <1>1. CASE LoadCopy \/ \E c \in copies : DropCopy(c)
    <2>1. [count |-> count, average |-> average] \in Copies
      BY DEF Copies
    <2> QED
      BY <1>1, <2>1 DEF LoadCopy, DropCopy, tables, history
  <1>2. ASSUME NEW c \in copies, SaveCopy(c)
        PROVE  /\ UNCHANGED <<requests, members, reviews, doubled, alone, faults>>
               /\ disturbed \subseteq disturbed' /\ disturbed' \subseteq {"count", "average"}
               /\ count' \in Int /\ (count' # count => "count" \in disturbed')
               /\ average' \subseteq Reviews /\ (average' # average => "average" \in disturbed')
               /\ OthersShape'
    <2>1. c.count \in Int /\ c.average \subseteq Reviews
      BY DEF Copies
    <2> QED
      BY <1>2, <2>1 DEF SaveCopy
  <1>3. ASSUME NEW A \in SUBSET Accounts, NEW gone, Dropping(A, gone)
        PROVE  /\ disturbed \subseteq disturbed' /\ disturbed' \subseteq {"count", "average"}
               /\ doubled \subseteq doubled' /\ doubled' \subseteq Accounts \X Kinds
               /\ \A a : <<a, "bookmark">> \in doubled' => <<a, "bookmark">> \in doubled
                                                           \/ "count" \in disturbed'
               /\ \A a \in A : /\ Toggles(a) # {} => <<a, "bookmark">> \in doubled'
                               /\ members[a].on > 0 => "count" \in disturbed'
               /\ alone' \subseteq alone
               /\ gone # {} => /\ "average" \in disturbed'
                               /\ \A i \in alone' : i \in Ids => requests[i].at # "listed"
    BY <1>3 DEF Dropping, Kinds
  <1>4. NoRow \in [on : Nat, off : Nat]
    BY DEF NoRow
  <1>5. ASSUME NEW a \in Accounts, DeleteMe(a)
        PROVE  /\ members' \in [Accounts -> [on : Nat, off : Nat]]
               /\ members'[a] = NoRow /\ \A b \in Accounts : b # a => members'[b] = members[b]
               /\ reviews' = reviews \ Own(a) /\ Dropping({a}, Own(a))
               /\ UNCHANGED <<requests, count, average, faults>> /\ OthersShape'
    BY <1>4, <1>5 DEF DeleteMe
  <1>6. ASSUME NEW a \in Accounts, RemoveMember(a)
        PROVE  /\ members' \in [Accounts -> [on : Nat, off : Nat]]
               /\ members'[a] = NoRow /\ \A b \in Accounts : b # a => members'[b] = members[b]
               /\ reviews' = reviews /\ Dropping({a}, {})
               /\ UNCHANGED <<requests, count, average>> /\ OthersShape'
               /\ faults' \in 0..MaxFaults
    BY <1>4, <1>6, PlateEngagementAssumption DEF RemoveMember
  <1>7. ASSUME NEW v \in reviews, RemoveReview(v)
        PROVE  /\ reviews' = reviews \ {v} /\ Dropping({}, {v})
               /\ UNCHANGED <<members, requests, count, average, faults>> /\ OthersShape'
    BY <1>7 DEF RemoveReview
  <1>8. CASE \E c \in copies : SaveCopy(c)
    BY <1>2, <1>8
  <1>9. CASE \E a \in Accounts : DeleteMe(a)
    <2>1. PICK a \in Accounts : DeleteMe(a)
      BY <1>9
    <2>2. reviews' # reviews => Own(a) # {}
      BY <1>5, <2>1
    <2>3. {a} \in SUBSET Accounts
      OBVIOUS
    <2>4. /\ disturbed \subseteq disturbed' /\ disturbed' \subseteq {"count", "average"}
          /\ doubled \subseteq doubled' /\ doubled' \subseteq Accounts \X Kinds
          /\ \A b : <<b, "bookmark">> \in doubled' => <<b, "bookmark">> \in doubled
                                                      \/ "count" \in disturbed'
          /\ Toggles(a) # {} => <<a, "bookmark">> \in doubled'
          /\ members[a].on > 0 => "count" \in disturbed'
          /\ alone' \subseteq alone
          /\ Own(a) # {} => /\ "average" \in disturbed'
                            /\ \A i \in alone' : i \in Ids => requests[i].at # "listed"
      BY <1>3, <1>5, <2>1, <2>3
    <2> QED
      BY <1>5, <2>1, <2>2, <2>4
  <1>10. CASE \E a \in Accounts : RemoveMember(a)
    <2>1. PICK a \in Accounts : RemoveMember(a)
      BY <1>10
    <2>2. {a} \in SUBSET Accounts
      OBVIOUS
    <2>3. /\ disturbed \subseteq disturbed' /\ disturbed' \subseteq {"count", "average"}
          /\ doubled \subseteq doubled' /\ doubled' \subseteq Accounts \X Kinds
          /\ \A b : <<b, "bookmark">> \in doubled' => <<b, "bookmark">> \in doubled
                                                      \/ "count" \in disturbed'
          /\ Toggles(a) # {} => <<a, "bookmark">> \in doubled'
          /\ members[a].on > 0 => "count" \in disturbed'
          /\ alone' \subseteq alone
      BY <1>3, <1>6, <2>1, <2>2
    <2> QED
      BY <1>6, <2>1, <2>3
  <1>11. CASE \E v \in reviews : RemoveReview(v)
    BY <1>3, <1>7, <1>11
  <1>12. CASE RemoveFails
    BY <1>12 DEF RemoveFails, tables, history
  <1> QED
    BY <1>1, <1>8, <1>9, <1>10, <1>11, <1>12 DEF Others

LEMMA WriteMemberRows ==
    ASSUME Shape, NEW i \in Ids, WriteMember(i), NEW a, a = requests[i].account
    PROVE  /\ members' \in [Accounts -> [on : Nat, off : Nat]]
           /\ \A b \in Accounts : b # a => members'[b] = members[b]
           /\ requests[i].found = "none" =>
                 IF a \in deleted THEN members'[a] = members[a]
                 ELSE members'[a].on = members[a].on + 1 /\ members'[a].off = members[a].off
           /\ requests[i].found # "none" /\ requests[i].want = 1 =>
                 members'[a].on = members[a].on + members[a].off /\ members'[a].off = 0
           /\ requests[i].found # "none" /\ requests[i].want = 0 =>
                 members'[a].on = 0 /\ members'[a].off = members[a].on + members[a].off
  <1> DEFINE row == members[a]
             q == requests[i]
             new == IF q.found = "none" /\ a \in deleted THEN row
                    ELSE IF q.found = "none" THEN [row EXCEPT !.on = @ + 1]
                    ELSE IF q.want = 1 THEN [on |-> row.on + row.off, off |-> 0]
                    ELSE [on |-> 0, off |-> row.on + row.off]
  <1>1. a \in Accounts /\ members \in [Accounts -> [on : Nat, off : Nat]]
    BY RequestType DEF Shape, RequestShape, TableShape
  <1>2. row \in [on : Nat, off : Nat] /\ row.on \in Nat /\ row.off \in Nat
    BY <1>1
  <1>3. /\ new \in [on : Nat, off : Nat]
        /\ q.found = "none" =>
              IF a \in deleted THEN new = row
              ELSE new.on = row.on + 1 /\ new.off = row.off
        /\ q.found # "none" /\ q.want = 1 => new.on = row.on + row.off /\ new.off = 0
        /\ q.found # "none" /\ q.want = 0 => new.on = 0 /\ new.off = row.on + row.off
    BY <1>2
  <1>4. members' = [members EXCEPT ![a] = new]
    BY DEF WriteMember
  <1> HIDE DEF new
  <1>5. members'[a] = new /\ \A b \in Accounts : b # a => members'[b] = members[b]
    BY <1>1, <1>4
  <1> QED
    BY <1>1, <1>3, <1>4, <1>5

--------------------------------------------------------------------------------
(* Types. *)

\* A request keeps its shape when it stays at steps of its kind.
LEMMA MovesShape ==
    ASSUME RequestShape, NEW i \in Ids, Moves(i),
           requests[i].kind = "bookmark" => requests'[i].at \notin {"checked", "listed", "conflict"}
    PROVE  RequestShape'
  BY DEF RequestShape, Moves

LEMMA ServerShape ==
    ASSUME Shape, NEW i \in Ids, Server(i)
    PROVE  Shape'
  <1>a. /\ RequestShape /\ TableShape /\ HistoryShape /\ OthersShape
        /\ requests \in Seq(Requests) /\ requests[i].kind \in Kinds
        /\ requests[i].account \in Accounts
    BY RequestType DEF Shape, RequestShape
  <1>b. ASSUME Overlapping(i) PROVE HistoryShape'
    BY <1>a, <1>b, OverlappingNotes DEF HistoryShape
  <1>c. ASSUME UNCHANGED others PROVE OthersShape'
    BY <1>a, <1>c DEF others, OthersShape
  <1>d. ASSUME UNCHANGED history PROVE HistoryShape'
    BY <1>a, <1>d DEF history, HistoryShape
  <1>e. ASSUME UNCHANGED tables PROVE TableShape'
    BY <1>a, <1>e DEF tables, TableShape
  <1>1. CASE ReadMember(i)
    <2>1. requests[i].kind = "bookmark" /\ Moves(i) /\ requests'[i].at \in {"done", "read"}
      BY <1>1, ReadMemberStep DEF ReadMember, Reaches, Ends
    <2> QED
      BY <1>a, <1>b, <1>c, <1>e, <1>1, <2>1, MovesShape DEF ReadMember, Shape
  <1>2. CASE WriteMember(i)
    <2>1. Moves(i) /\ requests'[i].at \in {"failed", "written"}
      BY <1>2, WriteMemberStep DEF Ends
    <2>2. TableShape'
      BY <1>a, <1>2, WriteMemberRows DEF WriteMember, TableShape
    <2> QED
      BY <1>a, <1>c, <1>d, <1>2, <2>1, <2>2, MovesShape DEF WriteMember, Shape
  <1>3. CASE CountBookmark(i)
    <2>1. Moves(i) /\ requests'[i].at = "done"
      BY <1>3, CountBookmarkStep DEF Ends
    <2>2. TableShape'
      BY <1>a, <1>3 DEF CountBookmark, TableShape
    <2> QED
      BY <1>a, <1>c, <1>d, <1>3, <2>1, <2>2, MovesShape DEF CountBookmark, Shape
  <1>4. CASE LoadPlate(i)
    <2>1. requests[i].kind = "review" /\ Moves(i)
      BY <1>4, LoadPlateStep DEF LoadPlate, Reaches, Ends
    <2>2. HistoryShape'
      BY <1>b, <1>d, <1>4 DEF LoadPlate
    <2> QED
      BY <1>a, <1>c, <1>e, <1>4, <2>1, <2>2, MovesShape DEF LoadPlate, Shape
  <1>5. CASE CheckReview(i)
    <2>1. requests[i].kind = "review" /\ Moves(i)
      BY <1>5, CheckReviewStep DEF CheckReview, Reaches, Ends
    <2> QED
      BY <1>a, <1>c, <1>d, <1>e, <1>5, <2>1, MovesShape DEF CheckReview, Shape
  <1>6. CASE CreateReview(i)
    <2>1. requests[i].kind = "review" /\ Moves(i)
      BY <1>6, CreateReviewStep DEF CreateReview, Reaches, Ends
    <2>2. [by |-> i, account |-> requests[i].account, rating |-> requests[i].want] \in Reviews
      BY <1>a, <2>1 DEF RequestShape, Reviews, Ids
    <2>3. TableShape'
      BY <1>a, <1>6, <2>2 DEF CreateReview, TableShape
    <2> QED
      BY <1>a, <1>c, <1>d, <1>6, <2>1, <2>3, MovesShape DEF CreateReview, Shape
  <1>7. CASE ListReviews(i)
    <2>1. /\ requests[i].kind = "review" /\ Moves(i)
          /\ disturbed' \subseteq {"count", "average"}
      BY <1>a, <1>7, ListReviewsStep DEF ListReviews, Reaches, Ends, HistoryShape
    <2>2. HistoryShape'
      BY <1>a, <1>7, <2>1 DEF ListReviews, HistoryShape
    <2> QED
      BY <1>a, <1>c, <1>e, <1>7, <2>1, <2>2, MovesShape DEF ListReviews, Shape
  <1>8. CASE SavePlate(i)
    <2>1. /\ requests[i].kind = "review" /\ Moves(i)
          /\ requests[i].loaded \in Int /\ requests[i].listed \subseteq Reviews
      BY <1>a, <1>8, SavePlateStep, RequestType DEF SavePlate, Ends
    <2>2. TableShape' /\ HistoryShape'
      BY <1>a, <1>8, <2>1 DEF SavePlate, TableShape, HistoryShape
    <2> QED
      BY <1>a, <1>c, <1>8, <2>1, <2>2, MovesShape DEF SavePlate, Shape
  <1>9. CASE Interrupt(i)
    <2>1. Moves(i) /\ requests'[i].at \in {"failed", "done"}
      BY <1>9, InterruptStep DEF Ends
    <2>2. HistoryShape'
      BY <1>a, <1>9, PlateEngagementAssumption DEF Interrupt, HistoryShape
    <2> QED
      BY <1>a, <1>c, <1>e, <1>9, <2>1, <2>2, MovesShape DEF Interrupt, Shape
  <1> QED
    BY <1>1, <1>2, <1>3, <1>4, <1>5, <1>6, <1>7, <1>8, <1>9 DEF Server

LEMMA ClientShape ==
    ASSUME Shape, Client
    PROVE  Shape'
  <1>1. TableShape' /\ OthersShape' /\ HistoryShape'
    BY ClientStep DEF tables, others, history, Shape, TableShape, OthersShape, HistoryShape
  <1>2. PICK kind \in Kinds, a \in Accounts, want \in Ratings \cup {0, 1} :
           /\ Arrives(kind, a, want)
           /\ want \in IF kind = "review" THEN Ratings ELSE {0, 1}
    BY ClientStep
  <1>3. RequestShape'
    BY <1>2 DEF Arrives, Shape, RequestShape
  <1> QED
    BY <1>1, <1>3 DEF Shape

LEMMA OthersKeepShape ==
    ASSUME Shape, Others
    PROVE  Shape'
  <1>1. RequestShape'
    BY OthersStep DEF Shape, RequestShape, Ids
  <1>2. TableShape' /\ HistoryShape' /\ OthersShape'
    BY OthersStep DEF Shape, TableShape, HistoryShape
  <1> QED
    BY <1>1, <1>2 DEF Shape

--------------------------------------------------------------------------------
(* The rows of the members. *)

\* A row found is a row there is.
LEMMA FoundRows ==
    ASSUME NEW a, NEW f
    PROVE  f \in FoundRow(a) <=>
              \/ f = "on" /\ members[a].on > 0
              \/ f = "off" /\ members[a].off > 0
              \/ f = "none" /\ members[a].on = 0 /\ members[a].off = 0
  BY DEF FoundRow

\* A toggle that has something to do.
LEMMA ToDo ==
    ASSUME NEW r, r.want \in {0, 1}, NEW f \in {"none", "on", "off"}
    PROVE  Unchanged(r, f) <=> IF r.want = 1 THEN f = "on" ELSE f # "on"
  BY DEF Unchanged, Wanted

\* What a toggle wants does not change, and so neither what it finds to do.
LEMMA UnchangedMoves ==
    ASSUME NEW i \in Ids, Moves(i), NEW f
    PROVE  Unchanged(requests'[i], f) <=> Unchanged(requests[i], f)
  BY DEF Unchanged, Wanted, Moves

\* The rows of an account stay sure when its toggles only end.
LEMMA RowsOfKept ==
    ASSUME NEW a, RowsOf(a), members'[a] = members[a], Toggles(a)' \subseteq Toggles(a),
           \A i \in Toggles(a)' : requests'[i].at = "read" => requests'[i] = requests[i]
    PROVE  RowsOf(a)'
  <1>1. FoundRow(a)' = FoundRow(a)
    BY DEF FoundRow
  <1> QED
    BY <1>1 DEF RowsOf

LEMMA OthersToggles ==
    ASSUME NEW i \in Ids, Moves(i), NEW a,
           requests[i].kind # "bookmark" \/ requests[i].account # a
    PROVE  /\ Toggles(a)' = Toggles(a)
           /\ \A j \in Toggles(a) : requests'[j] = requests[j]
  <1>1. Toggles(a)' = Toggles(a)
    BY BesideMoves
  <1>2. \A j \in Toggles(a) : j \in Ids /\ j # i
    BY DEF Toggles, Beside
  <1> QED
    BY <1>1, <1>2 DEF Moves

LEMMA EndedToggles ==
    ASSUME NEW i \in Ids, Moves(i), NEW a, requests'[i].at \in {"done", "failed", "conflict"}
    PROVE  /\ Toggles(a)' = Toggles(a) \ {i}
           /\ \A j \in Toggles(a)' : requests'[j] = requests[j]
  <1>1. ~Running(i)'
    BY DEF Running
  <1>2. \A j \in Ids \ {i} : requests'[j] = requests[j] /\ (Running(j)' <=> Running(j))
    BY DEF Moves, Running
  <1>3. Ids' = Ids
    BY DEF Moves
  <1> QED
    BY <1>1, <1>2, <1>3 DEF Toggles, Beside

LEMMA ServerRowsOf ==
    ASSUME Shape, NEW i \in Ids, Server(i), NEW a \in Accounts, RowsOf(a),
           <<a, "bookmark">> \notin doubled'
    PROVE  RowsOf(a)'
  <1>a. /\ requests \in Seq(Requests) /\ HistoryShape
        /\ requests[i].account \in Accounts /\ requests[i].kind \in Kinds
    BY RequestType DEF Shape, RequestShape
  <1>1. CASE ReadMember(i)
    <2> DEFINE b == requests[i].account
    <2>1. PICK f \in FoundRow(b) :
             IF Unchanged(requests[i], f) THEN Ends(i, "done")
             ELSE Reaches(i, "read", f, requests[i].loaded, requests[i].listed)
      BY <1>1, ReadMemberStep
    <2>2. Moves(i) /\ UNCHANGED members /\ requests[i].kind = "bookmark"
      BY <1>1, <2>1 DEF Reaches, Ends, ReadMember, tables
    <2>3. CASE a # b
      <3>1. /\ Toggles(a)' = Toggles(a) /\ members'[a] = members[a]
            /\ \A j \in Toggles(a) : requests'[j] = requests[j]
        BY <2>2, <2>3, OthersToggles
      <3> QED
        BY <3>1, RowsOfKept
    <2>4. CASE a = b
      <3>1. Toggles(a) = {}
        BY <1>a, <1>1, <2>2, <2>4, OverlappingNotes DEF ReadMember, Toggles
      <3>2. Toggles(a)' \subseteq {i}
        BY <2>2, <3>1, BesideMoves
      <3>3. CASE Unchanged(requests[i], f)
        <4>1. Toggles(a)' = {}
          BY <2>1, <3>2, <3>3 DEF Toggles, Beside, Running, Ends
        <4> QED
          BY <2>2, <4>1, RowsOfKept
      <3>4. CASE ~Unchanged(requests[i], f)
        <4>1. requests'[i].found = f /\ ~Unchanged(requests'[i], f)
          BY <2>1, <2>2, <3>4, UnchangedMoves DEF Reaches
        <4>2. FoundRow(a)' = FoundRow(a)
          BY <2>2 DEF FoundRow
        <4> QED
          BY <2>2, <2>4, <3>2, <4>1, <4>2 DEF RowsOf
      <3> QED
        BY <3>3, <3>4
    <2> QED
      BY <2>3, <2>4
  <1>2. CASE WriteMember(i)
    <2>1. /\ requests[i].kind = "bookmark" /\ requests[i].at = "read" /\ Moves(i)
          /\ requests'[i].at # "read"
      BY <1>2, WriteMemberStep DEF WriteMember, Ends
    <2>2. CASE a # requests[i].account
      <3>1. Toggles(a)' = Toggles(a) /\ \A j \in Toggles(a) : requests'[j] = requests[j]
        BY <2>1, <2>2, OthersToggles
      <3>2. members'[a] = members[a]
        BY <1>2, <2>2, WriteMemberRows
      <3> QED
        BY <3>1, <3>2, RowsOfKept
    <2>3. CASE a = requests[i].account
      <3>1. i \in Toggles(a)
        BY <2>1, <2>3 DEF Toggles, Beside, Running
      <3>2. Toggles(a) = {i} /\ requests[i].found \in FoundRow(a)
        BY <2>1, <3>1 DEF RowsOf
      <3>3. Toggles(a)' \subseteq {i}
        BY <2>1, <3>2, BesideMoves
      <3>4. requests[i].want \in {0, 1} /\ members[a].on \in Nat /\ members[a].off \in Nat
        BY <2>1 DEF Shape, RequestShape, TableShape
      <3>5. members'[a].on = 0 \/ members'[a].off = 0
        BY <1>2, <2>3, <3>2, <3>4, WriteMemberRows, FoundRows DEF RowsOf
      <3> QED
        BY <2>1, <3>3, <3>5 DEF RowsOf
    <2> QED
      BY <2>2, <2>3
  <1>3. CASE LoadPlate(i) \/ CheckReview(i) \/ CreateReview(i) \/ ListReviews(i) \/ SavePlate(i)
    <2>1. requests[i].kind = "review" /\ Moves(i) /\ UNCHANGED members
      BY <1>3, LoadPlateStep, CheckReviewStep, CreateReviewStep, ListReviewsStep, SavePlateStep
         DEF LoadPlate, CheckReview, CreateReview, ListReviews, SavePlate, Reaches, Ends, tables
    <2> QED
      BY <2>1, OthersToggles, RowsOfKept
  <1>4. CASE CountBookmark(i) \/ Interrupt(i)
    <2>1. Moves(i) /\ requests'[i].at \in {"done", "failed"} /\ UNCHANGED members
      BY <1>4, CountBookmarkStep, InterruptStep DEF CountBookmark, Interrupt, Ends, tables
    <2> QED
      BY <2>1, EndedToggles, RowsOfKept
  <1> QED
    BY <1>1, <1>2, <1>3, <1>4 DEF Server

\* Of toggles nothing is noted but what is noted of the counter too.
LEMMA ServerDoubles ==
    ASSUME Shape, NEW i \in Ids, Server(i)
    PROVE  /\ doubled \subseteq doubled' /\ doubled' \subseteq Accounts \X Kinds
           /\ \A a : <<a, "bookmark">> \in doubled' /\ "count" \notin disturbed' =>
                 <<a, "bookmark">> \in doubled
           /\ "count" \in disturbed => "count" \in disturbed'
  <1>a. requests \in Seq(Requests) /\ HistoryShape
    BY DEF Shape, RequestShape
  <1>1. CASE ReadMember(i) \/ LoadPlate(i)
    <2>1. Overlapping(i) \/ UNCHANGED history
      BY <1>1 DEF ReadMember, LoadPlate
    <2> QED
      BY <1>a, <2>1, OverlappingNotes DEF history, HistoryShape
  <1>2. CASE ~(ReadMember(i) \/ LoadPlate(i))
    BY <1>a, <1>2 DEF Server, WriteMember, CountBookmark, CheckReview, CreateReview, ListReviews,
                      SavePlate, Interrupt, history, HistoryShape
  <1> QED
    BY <1>1, <1>2

LEMMA OthersRowsOf ==
    ASSUME Shape, Others, NEW a \in Accounts, RowsOf(a), <<a, "bookmark">> \notin doubled'
    PROVE  RowsOf(a)'
  <1>1. UNCHANGED requests /\ Toggles(a)' = Toggles(a)
    BY OthersStep DEF Toggles, Beside, Ids, Running
  <1>2. CASE members'[a] = members[a]
    BY <1>1, <1>2, RowsOfKept
  <1>3. CASE members'[a] # members[a]
    BY <1>1, <1>3, OthersStep DEF RowsOf, NoRow
  <1> QED
    BY <1>2, <1>3

LEMMA ArrivesRowsOf ==
    ASSUME NEW kind, NEW account, NEW want, Arrives(kind, account, want),
           NEW a, RowsOf(a), members' = members
    PROVE  RowsOf(a)'
  BY BesideArrives, RowsOfKept DEF Arrives, Toggles, Beside

LEMMA BookmarkRowsStep ==
    ASSUME Shape, BookmarkRows, EngagementNext
    PROVE  BookmarkRows'
  <1>1. ASSUME NEW i \in Ids, Server(i) PROVE BookmarkRows'
    BY <1>1, ServerRowsOf, ServerDoubles DEF BookmarkRows
  <1>2. CASE Others
    BY <1>2, OthersRowsOf, OthersStep DEF BookmarkRows
  <1>3. CASE Client
    BY <1>3, ClientStep, ArrivesRowsOf DEF BookmarkRows, tables, history
  <1> QED
    BY <1>1, <1>2, <1>3 DEF EngagementNext

--------------------------------------------------------------------------------
(* The counter of bookmarks. *)

\* Toggles that are written and not yet counted.
Waiting(want) == {i \in Ids : requests[i].kind = "bookmark" /\ requests[i].at = "written"
                              /\ requests[i].want = want}
Bookmarked == {a \in Accounts : members[a].on > 0}

LEMMA WaitingFinite ==
    ASSUME requests \in Seq(Requests), NEW want
    PROVE  IsFiniteSet(Waiting(want)) /\ Cardinality(Waiting(want)) \in Nat
  <1>1. IsFiniteSet(1..Len(requests))
    BY FS_Interval
  <1>2. Waiting(want) \subseteq 1..Len(requests)
    BY DEF Waiting, Ids
  <1> QED
    BY <1>1, <1>2, FS_Subset, FS_CardinalityType

\* The parts of CountInv besides the finiteness of the bookmarks.
CountKnown ==
    "count" \notin disturbed =>
       /\ count = Cardinality(Bookmarked) - Cardinality(Waiting(1)) + Cardinality(Waiting(0))
       /\ Beside("bookmark") = {} \/ Beside("review") = {}
       /\ \A i \in Beside("review") : requests[i].loaded = count

LEMMA CountParts ==
    /\ CountInv <=> IsFiniteSet(Bookmarked) /\ CountKnown
    /\ CountInv' <=> IsFiniteSet(Bookmarked') /\ CountKnown'
  BY DEF CountInv, CountKnown, CountIsBookmarks, Bookmarks, Uncounted, Bookmarked, Waiting

\* Steps that neither change the bookmarks nor those not yet counted.
LEMMA CountKept ==
    ASSUME CountInv, Bookmarked' \subseteq Bookmarked, disturbed \ {"average"} \subseteq disturbed',
           "count" \notin disturbed' =>
              /\ UNCHANGED count /\ Bookmarked' = Bookmarked
              /\ Waiting(0)' = Waiting(0) /\ Waiting(1)' = Waiting(1)
              /\ Beside("bookmark")' = {} \/ Beside("review")' = {}
              /\ \A i \in Beside("review")' : requests'[i].loaded = count
    PROVE  CountInv'
  <1>1. IsFiniteSet(Bookmarked') /\ CountKnown
    BY CountParts, FS_Subset
  <1>2. CountKnown'
    BY <1>1 DEF CountKnown
  <1> QED
    BY <1>1, <1>2, CountParts

LEMMA WaitingKept ==
    ASSUME NEW i \in Ids, Moves(i),
           ~(requests[i].kind = "bookmark" /\ requests[i].at = "written"),
           ~(requests'[i].kind = "bookmark" /\ requests'[i].at = "written")
    PROVE  Waiting(0)' = Waiting(0) /\ Waiting(1)' = Waiting(1)
  BY DEF Moves, Waiting

\* Requests that end, or go on where nobody waits to be counted.
LEMMA CountMoves ==
    ASSUME CountInv, NEW i \in Ids, Moves(i), UNCHANGED members,
           disturbed \ {"average"} \subseteq disturbed',
           "count" \notin disturbed' =>
              /\ UNCHANGED count
              /\ ~(requests[i].kind = "bookmark" /\ requests[i].at = "written")
              /\ ~(requests'[i].kind = "bookmark" /\ requests'[i].at = "written"),
           Running(i)' => Running(i),
           Running(i)' /\ requests[i].kind = "review" => requests'[i].loaded = requests[i].loaded
    PROVE  CountInv'
  <1>1. Bookmarked' = Bookmarked
    BY DEF Bookmarked
  <1>2. CASE "count" \in disturbed'
    BY <1>1, <1>2, CountKept
  <1>3. CASE "count" \notin disturbed'
    <2>1. CountKnown /\ "count" \notin disturbed
      BY <1>3, CountParts
    <2>2. Waiting(0)' = Waiting(0) /\ Waiting(1)' = Waiting(1)
      BY <1>3, WaitingKept
    <2>3. \A k : Beside(k)' \subseteq Beside(k)
      BY DEF Moves, Beside, Running
    <2>4. \A j \in Beside("review")' : requests'[j].loaded = requests[j].loaded
      BY DEF Moves, Beside
    <2>5. \A j \in Beside("review")' : requests'[j].loaded = count
      BY <2>1, <2>3, <2>4 DEF CountKnown
    <2>6. Beside("bookmark")' = {} \/ Beside("review")' = {}
      BY <2>1, <2>3 DEF CountKnown
    <2> QED
      BY <1>1, <1>3, <2>2, <2>5, <2>6, CountKept
  <1> QED
    BY <1>2, <1>3

LEMMA WriteMemberCount ==
    ASSUME Shape, BookmarkRows, CountInv, NEW i \in Ids, WriteMember(i)
    PROVE  CountInv'
  <1> DEFINE a == requests[i].account
             q == requests[i]
  <1>a. /\ requests \in Seq(Requests) /\ HistoryShape /\ count \in Int
        /\ a \in Accounts /\ q.found \in {"none", "on", "off"}
        /\ IsFiniteSet(Bookmarked) /\ CountKnown
    BY RequestType, CountParts DEF Shape, RequestShape, TableShape
  <1>b. /\ Cardinality(Bookmarked) \in Nat
        /\ Cardinality(Waiting(0)) \in Nat /\ Cardinality(Waiting(1)) \in Nat
        /\ IsFiniteSet(Waiting(0)) /\ IsFiniteSet(Waiting(1))
    BY <1>a, WaitingFinite, FS_CardinalityType
  <1>1. /\ q.kind = "bookmark" /\ q.at = "read" /\ Moves(i)
        /\ requests'[i].at = IF q.found = "none" /\ a \in deleted THEN "failed" ELSE "written"
        /\ UNCHANGED <<count, disturbed>> /\ q.want \in {0, 1}
    BY <1>a, WriteMemberStep DEF WriteMember, Ends, history, Shape, RequestShape
  <1>2. /\ members' \in [Accounts -> [on : Nat, off : Nat]]
        /\ \A b \in Accounts : b # a => members'[b] = members[b]
    BY WriteMemberRows
  <1>3. IsFiniteSet(Bookmarked')
    <2>1. Bookmarked' \subseteq Bookmarked \cup {a}
      BY <1>2 DEF Bookmarked
    <2> QED
      BY <1>a, <2>1, FS_AddElement, FS_Subset
  <1>4. ASSUME "count" \notin disturbed
        PROVE  count = Cardinality(Bookmarked') - Cardinality(Waiting(1)') + Cardinality(Waiting(0)')
    <2>1. RowsOf(a) /\ i \in Toggles(a)
      BY <1>a, <1>1, <1>4 DEF BookmarkRows, Toggles, Beside, Running
    <2>2. q.found \in FoundRow(a) /\ ~Unchanged(q, q.found)
      BY <1>1, <2>1 DEF RowsOf
    <2>3. /\ members[a].on \in Nat /\ members[a].off \in Nat
          /\ members[a].on = 0 \/ members[a].off = 0
      BY <1>a, <2>1 DEF Shape, TableShape, RowsOf
    <2>4. count = Cardinality(Bookmarked) - Cardinality(Waiting(1)) + Cardinality(Waiting(0))
      BY <1>a, <1>4 DEF CountKnown
    <2>5. i \notin Waiting(0) /\ i \notin Waiting(1)
      BY <1>1 DEF Waiting
    <2>6. CASE q.found = "none" /\ a \in deleted
      <3>1. \A b \in Accounts : members'[b] = members[b]
        BY <1>2, <2>6, WriteMemberRows
      <3>2. Bookmarked' = Bookmarked
        BY <3>1 DEF Bookmarked
      <3> QED
        BY <1>1, <2>4, <2>6, <3>2, WaitingKept
    <2>7. CASE q.want = 1 /\ ~(q.found = "none" /\ a \in deleted)
      <3>1. q.found # "on"
        BY <1>a, <1>1, <2>2, <2>7, ToDo
      <3>2. members[a].on = 0
        BY <1>a, <2>2, <2>3, <3>1, FoundRows
      <3>3. members'[a].on > 0
        BY <1>a, <2>2, <2>3, <2>7, <3>1, <3>2, FoundRows, WriteMemberRows
      <3>4. a \in Bookmarked' /\ a \notin Bookmarked
        BY <1>a, <3>2, <3>3 DEF Bookmarked
      <3>5. Bookmarked' = Bookmarked \cup {a}
        BY <1>2, <3>4 DEF Bookmarked
      <3>6. Waiting(0)' = Waiting(0) /\ Waiting(1)' = Waiting(1) \cup {i}
        BY <1>1, <2>7 DEF Waiting, Moves
      <3>7. /\ Cardinality(Bookmarked') = Cardinality(Bookmarked) + 1
            /\ Cardinality(Waiting(1)') = Cardinality(Waiting(1)) + 1
        BY <1>a, <1>b, <2>5, <3>4, <3>5, <3>6, FS_AddElement
      <3> QED
        BY <1>a, <1>b, <2>4, <3>6, <3>7
    <2>8. CASE q.want = 0
      <3>1. q.found = "on"
        BY <1>a, <1>1, <2>2, <2>8, ToDo
      <3>2. a \in Bookmarked /\ members'[a].on = 0
        BY <1>a, <2>2, <2>8, <3>1, FoundRows, WriteMemberRows DEF Bookmarked
      <3>3. Bookmarked' = Bookmarked \ {a}
        BY <1>2, <3>2 DEF Bookmarked
      <3>4. Waiting(1)' = Waiting(1) /\ Waiting(0)' = Waiting(0) \cup {i}
        BY <1>1, <2>8, <3>1 DEF Waiting, Moves
      <3>5. Cardinality(Bookmarked \ {a}) = Cardinality(Bookmarked) - 1
        BY <1>a, <3>2, FS_RemoveElement
      <3>6. Cardinality(Waiting(0) \cup {i}) = Cardinality(Waiting(0)) + 1
        BY <1>b, <2>5, FS_AddElement
      <3>7. /\ Cardinality(Bookmarked') = Cardinality(Bookmarked) - 1
            /\ Cardinality(Waiting(0)') = Cardinality(Waiting(0)) + 1
        BY <3>3, <3>4, <3>5, <3>6
      <3> QED
        BY <1>a, <1>b, <2>4, <3>4, <3>7
    <2> QED
      BY <1>1, <2>6, <2>7, <2>8
  <1>5. CountKnown'
    <2>1. \A k : Beside(k)' \subseteq Beside(k)
      BY <1>1 DEF Moves, Beside, Running
    <2>2. \A j \in Beside("review")' : requests'[j] = requests[j]
      BY <1>1 DEF Moves, Beside
    <2> QED
      BY <1>a, <1>1, <1>4, <2>1, <2>2 DEF CountKnown
  <1> QED
    BY <1>3, <1>5, CountParts

LEMMA CountBookmarkCount ==
    ASSUME Shape, CountInv, NEW i \in Ids, CountBookmark(i)
    PROVE  CountInv'
  <1> DEFINE q == requests[i]
  <1>a. /\ requests \in Seq(Requests) /\ count \in Int
        /\ IsFiniteSet(Bookmarked) /\ CountKnown
    BY CountParts DEF Shape, RequestShape, TableShape
  <1>b. /\ Cardinality(Bookmarked) \in Nat
        /\ Cardinality(Waiting(0)) \in Nat /\ Cardinality(Waiting(1)) \in Nat
        /\ IsFiniteSet(Waiting(0)) /\ IsFiniteSet(Waiting(1))
    BY <1>a, WaitingFinite, FS_CardinalityType
  <1>1. /\ q.kind = "bookmark" /\ q.at = "written" /\ Moves(i)
        /\ requests'[i].at = "done" /\ UNCHANGED <<members, disturbed>> /\ q.want \in {0, 1}
        /\ count' = IF q.want = 1 THEN count + 1 ELSE count - 1
    BY <1>a, CountBookmarkStep DEF CountBookmark, Ends, history, Shape, RequestShape
  <1>2. Bookmarked' = Bookmarked
    BY <1>1 DEF Bookmarked
  <1>3. ASSUME "count" \notin disturbed
        PROVE  count' = Cardinality(Bookmarked') - Cardinality(Waiting(1)') + Cardinality(Waiting(0)')
    <2>1. count = Cardinality(Bookmarked) - Cardinality(Waiting(1)) + Cardinality(Waiting(0))
      BY <1>a, <1>3 DEF CountKnown
    <2>2. CASE q.want = 1
      <3>1. i \in Waiting(1) /\ Waiting(1)' = Waiting(1) \ {i} /\ Waiting(0)' = Waiting(0)
        BY <1>1, <2>2 DEF Waiting, Moves
      <3>2. Cardinality(Waiting(1)') = Cardinality(Waiting(1)) - 1
        BY <1>b, <3>1, FS_RemoveElement
      <3> QED
        BY <1>a, <1>b, <1>1, <1>2, <2>1, <2>2, <3>1, <3>2
    <2>3. CASE q.want = 0
      <3>1. i \in Waiting(0) /\ Waiting(0)' = Waiting(0) \ {i} /\ Waiting(1)' = Waiting(1)
        BY <1>1, <2>3 DEF Waiting, Moves
      <3>2. Cardinality(Waiting(0)') = Cardinality(Waiting(0)) - 1
        BY <1>b, <3>1, FS_RemoveElement
      <3> QED
        BY <1>a, <1>b, <1>1, <1>2, <2>1, <2>3, <3>1, <3>2
    <2> QED
      BY <1>1, <2>2, <2>3
  <1>4. CountKnown'
    <2>1. \A k : Beside(k)' \subseteq Beside(k)
      BY <1>1 DEF Moves, Beside, Running
    <2>2. i \in Beside("bookmark")
      BY <1>1 DEF Beside, Running
    <2> QED
      BY <1>a, <1>1, <1>3, <2>1, <2>2 DEF CountKnown
  <1> QED
    BY <1>a, <1>2, <1>4, CountParts

\* A request that starts: beside one of the other kind the counter is not sure.
LEMMA StartCount ==
    ASSUME Shape, CountInv, NEW i \in Ids, ReadMember(i) \/ LoadPlate(i)
    PROVE  CountInv'
  <1>a. requests \in Seq(Requests) /\ HistoryShape /\ CountKnown
    BY CountParts DEF Shape, RequestShape
  <1>1. /\ requests[i].at = "sent" /\ Moves(i) /\ UNCHANGED <<members, count>>
        /\ requests'[i].at \in {"done", "failed", "read"}
        /\ requests'[i].at = "read" /\ requests[i].kind = "review" => requests'[i].loaded = count
        /\ Overlapping(i) \/ (requests'[i].at = "failed" /\ UNCHANGED history)
        /\ requests[i].kind \in {"bookmark", "review"}
    BY ReadMemberStep, LoadPlateStep DEF ReadMember, LoadPlate, Reaches, Ends, tables
  <1>2. /\ Bookmarked' = Bookmarked
        /\ Waiting(0)' = Waiting(0) /\ Waiting(1)' = Waiting(1)
    BY <1>1, WaitingKept DEF Bookmarked
  <1>3. \A k : Beside(k)' \subseteq Beside(k) \cup (IF requests[i].kind = k THEN {i} ELSE {})
    BY <1>1 DEF Moves, Beside, Running
  <1>4. CASE Overlapping(i)
    <2>1. disturbed \subseteq disturbed' /\
          ("count" \notin disturbed' =>
              /\ requests[i].kind = "bookmark" => Beside("review") = {}
              /\ requests[i].kind = "review" => Beside("bookmark") = {})
      BY <1>a, <1>4, OverlappingNotes
    <2>2. ASSUME "count" \notin disturbed'
          PROVE  /\ Beside("bookmark")' = {} \/ Beside("review")' = {}
                 /\ \A j \in Beside("review")' : requests'[j].loaded = count
      <3>1. "count" \notin disturbed
        BY <2>1, <2>2
      <3>2. CASE requests[i].kind = "bookmark"
        <4>1. Beside("review")' = {}
          BY <1>3, <2>1, <2>2, <3>2
        <4> QED
          BY <4>1
      <3>3. CASE requests[i].kind = "review"
        <4>1. Beside("bookmark")' = {}
          BY <1>3, <2>1, <2>2, <3>3
        <4>2. ASSUME NEW j \in Beside("review")' PROVE requests'[j].loaded = count
          <5>1. CASE j = i
            BY <1>1, <3>3, <4>2, <5>1 DEF Beside, Running
          <5>2. CASE j # i
            BY <1>a, <1>1, <1>3, <3>1, <4>2, <5>2 DEF CountKnown, Moves, Beside
          <5> QED
            BY <5>1, <5>2
        <4> QED
          BY <4>1, <4>2
      <3> QED
        BY <1>1, <3>2, <3>3
    <2> QED
      BY <1>1, <1>2, <2>1, <2>2, CountKept
  <1>5. CASE requests'[i].at = "failed" /\ UNCHANGED history
    BY <1>1, <1>5, CountMoves DEF history, Running, Moves
  <1> QED
    BY <1>1, <1>4, <1>5

LEMMA ServerCount ==
    ASSUME Shape, BookmarkRows, CountInv, NEW i \in Ids, Server(i)
    PROVE  CountInv'
  <1>1. CASE ReadMember(i) \/ LoadPlate(i)
    BY <1>1, StartCount
  <1>2. CASE WriteMember(i)
    BY <1>2, WriteMemberCount
  <1>3. CASE CountBookmark(i)
    BY <1>3, CountBookmarkCount
  <1>4. CASE CheckReview(i) \/ CreateReview(i) \/ ListReviews(i)
    <2>1. /\ requests[i].kind = "review" /\ Moves(i) /\ UNCHANGED <<members, count>>
          /\ disturbed \subseteq disturbed'
          /\ Running(i)
          /\ \/ requests'[i].loaded = requests[i].loaded
             \/ requests'[i].at \in {"conflict", "done", "failed"}
      BY <1>4, CheckReviewStep, CreateReviewStep, ListReviewsStep
         DEF CheckReview, CreateReview, ListReviews, Reaches, Ends, tables, history, Running
    <2> QED
      BY <2>1, CountMoves DEF Moves, Running
  <1>5. CASE SavePlate(i)
    <2>1. /\ requests[i].kind = "review" /\ Moves(i) /\ UNCHANGED members
          /\ disturbed \ {"average"} \subseteq disturbed' /\ disturbed' \subseteq disturbed \cup {"average"}
          /\ Running(i) /\ requests'[i].at = "done" /\ count' = requests[i].loaded
      BY <1>5, SavePlateStep DEF SavePlate, Ends, Running
    <2>2. "count" \notin disturbed' => UNCHANGED count
      BY <2>1, CountParts DEF CountKnown, Beside
    <2> QED
      BY <2>1, <2>2, CountMoves DEF Moves, Running
  <1>6. CASE Interrupt(i)
    <2>1. /\ Moves(i) /\ requests'[i].at \in {"failed", "done"}
          /\ UNCHANGED <<members, count>> /\ disturbed \subseteq disturbed'
          /\ requests[i].kind = "bookmark" /\ requests[i].at = "written" =>
                "count" \in disturbed'
      BY <1>6, InterruptStep DEF Interrupt, Ends, tables
    <2> QED
      BY <2>1, CountMoves DEF Moves, Running
  <1> QED
    BY <1>1, <1>2, <1>3, <1>4, <1>5, <1>6 DEF Server

LEMMA CountInvStep ==
    ASSUME Shape, BookmarkRows, CountInv, EngagementNext
    PROVE  CountInv'
  <1>1. ASSUME NEW i \in Ids, Server(i) PROVE CountInv'
    BY <1>1, ServerCount
  <1>2. CASE Others
    <2>1. /\ UNCHANGED requests /\ disturbed \subseteq disturbed'
          /\ "count" \notin disturbed' => UNCHANGED count
          /\ \A a \in Accounts : members'[a] # members[a] =>
                members'[a].on = 0 /\ (members[a].on > 0 => "count" \in disturbed')
      <3>1. NoRow.on = 0
        BY DEF NoRow
      <3>2. \A a \in Accounts : members'[a] # members[a] =>
               members'[a] = NoRow /\ (members[a].on > 0 => "count" \in disturbed')
        BY <1>2, OthersStep
      <3>3. /\ UNCHANGED requests /\ disturbed \subseteq disturbed'
            /\ "count" \notin disturbed' => UNCHANGED count
        BY <1>2, OthersStep
      <3> QED
        BY <3>1, <3>2, <3>3
    <2>2. Bookmarked' \subseteq Bookmarked /\ ("count" \notin disturbed' => Bookmarked' = Bookmarked)
      BY <2>1 DEF Bookmarked
    <2>3. /\ Waiting(0)' = Waiting(0) /\ Waiting(1)' = Waiting(1)
          /\ \A k : Beside(k)' = Beside(k)
      BY <2>1 DEF Waiting, Beside, Running, Ids
    <2> QED
      BY <2>1, <2>2, <2>3, CountKept, CountParts DEF CountKnown
  <1>3. CASE Client
    <2>1. UNCHANGED <<members, count, disturbed>>
      BY <1>3 DEF Client, tables, history
    <2>2. PICK kind \in Kinds, a \in Accounts, want \in Ratings \cup {0, 1} : Arrives(kind, a, want)
      BY <1>3, ClientStep
    <2>3. Waiting(0)' = Waiting(0) /\ Waiting(1)' = Waiting(1) /\ Bookmarked' = Bookmarked
      BY <2>1, <2>2 DEF Arrives, Waiting, Bookmarked
    <2>4. \A k : Beside(k)' = Beside(k)
      BY <2>2, BesideArrives
    <2>5. \A j \in Beside("review") : requests'[j] = requests[j]
      BY <2>2 DEF Arrives, Beside
    <2> QED
      BY <2>1, <2>3, <2>4, <2>5, CountKept, CountParts DEF CountKnown
  <1> QED
    BY <1>1, <1>2, <1>3 DEF EngagementNext

--------------------------------------------------------------------------------
(* The average of the reviews. *)

\* Steps that leave the reviews alone: what is listed is what there is, and a review
\* that stops before its average is saved is noted.
LEMMA AverageKept ==
    ASSUME AverageInv, NEW i \in Ids, Moves(i), UNCHANGED <<reviews, average, alone>>,
           "average" \in disturbed => "average" \in disturbed',
           requests[i].kind = "review" =>
              /\ requests'[i].at # "sent" /\ (Running(i)' => Running(i))
              /\ requests[i].at \in {"written", "listed"} =>
                    "average" \in disturbed' \/ requests'[i].at \in {"written", "listed"}
              /\ requests'[i].at = "listed" => requests'[i].listed = reviews
    PROVE  AverageInv'
  <1>1. \A j \in Ids : j # i => requests'[j] = requests[j] /\ (Running(j)' <=> Running(j))
    BY DEF Moves, Running
  <1>2. Ids' = Ids /\ requests'[i].kind = requests[i].kind
    BY DEF Moves
  <1>3. AverageIsOfReviews'
    <2>1. SUFFICES ASSUME "average" \notin disturbed',
                          ~(\E j \in Ids : requests'[j].at \in {"written", "listed"}
                                           /\ requests'[j].kind = "review")
                   PROVE  average = reviews
      BY <1>2 DEF AverageIsOfReviews
    <2>2. ~(\E j \in Ids : requests[j].at \in {"written", "listed"} /\ requests[j].kind = "review")
      BY <1>1, <1>2, <2>1
    <2> QED
      BY <2>1, <2>2 DEF AverageInv, AverageIsOfReviews
  <1>4. Beside("review")' \subseteq Beside("review")
    BY <1>1, <1>2 DEF Beside
  <1>5. ASSUME NEW j \in alone
        PROVE  /\ j \in Ids' /\ requests'[j].kind = "review" /\ requests'[j].at # "sent"
               /\ Running(j)' => Beside("review")' \subseteq {j}
               /\ requests'[j].at = "listed" => requests'[j].listed = reviews
    <2>1. /\ j \in Ids /\ requests[j].kind = "review" /\ requests[j].at # "sent"
          /\ Running(j) => Beside("review") \subseteq {j}
          /\ requests[j].at = "listed" => requests[j].listed = reviews
      BY <1>5 DEF AverageInv
    <2>2. CASE j = i
      BY <1>2, <1>4, <2>1, <2>2
    <2>3. CASE j # i
      BY <1>1, <1>2, <1>4, <2>1, <2>3
    <2> QED
      BY <2>2, <2>3
  <1> QED
    BY <1>3, <1>5 DEF AverageInv

LEMMA ServerAverage ==
    ASSUME Shape, AverageInv, NEW i \in Ids, Server(i)
    PROVE  AverageInv'
  <1>a. requests \in Seq(Requests) /\ HistoryShape
    BY DEF Shape, RequestShape
  <1>1. CASE ReadMember(i)
    <2>1. /\ requests[i].kind = "bookmark" /\ Moves(i) /\ UNCHANGED <<reviews, average>>
          /\ alone' = alone /\ disturbed \subseteq disturbed'
      BY <1>a, <1>1, ReadMemberStep, OverlappingNotes
         DEF ReadMember, Reaches, Ends, tables
    <2> QED
      BY <2>1, AverageKept
  <1>2. CASE WriteMember(i) \/ CountBookmark(i)
    <2>1. /\ requests[i].kind = "bookmark" /\ Moves(i)
          /\ UNCHANGED <<reviews, average, alone, disturbed>>
      BY <1>2, WriteMemberStep, CountBookmarkStep
         DEF WriteMember, CountBookmark, Ends, history
    <2> QED
      BY <2>1, AverageKept
  <1>3. CASE LoadPlate(i)
    <2>1. requests[i].kind = "review" /\ requests[i].at = "sent" /\ UNCHANGED <<reviews, average>>
      BY <1>3 DEF LoadPlate, tables
    <2>2. CASE Ends(i, "failed") /\ UNCHANGED history
      BY <2>1, <2>2, AverageKept DEF Ends, history, Running
    <2>3. CASE /\ Reaches(i, "read", requests[i].found, count, requests[i].listed)
               /\ Overlapping(i)
      <3>1. Moves(i) /\ requests'[i].at = "read"
        BY <2>3 DEF Reaches
      <3>2. /\ disturbed \subseteq disturbed'
            /\ IF Beside("review") = {} THEN alone' = alone \cup {i}
               ELSE alone' = alone \ Beside("review")
        BY <1>a, <2>1, <2>3, OverlappingNotes
      <3>3. \A j \in Ids : j # i => requests'[j] = requests[j] /\ (Running(j)' <=> Running(j))
        BY <3>1 DEF Moves, Running
      <3>4. AverageIsOfReviews'
        BY <2>1, <3>1, <3>2, <3>3 DEF AverageInv, AverageIsOfReviews, Moves
      <3>5. \A j \in alone : /\ j \in Ids /\ requests[j].kind = "review"
                             /\ requests[j].at # "sent" /\ j # i
        BY <2>1 DEF AverageInv
      <3>6. \A j \in alone' : j # i => j \in alone /\ ~Running(j)
        BY <3>2, <3>5 DEF Beside
      <3>7. i \in alone' => Beside("review")' \subseteq {i}
        BY <3>1, <3>2, <3>3, <3>5 DEF Beside, Moves
      <3>8. \A j \in alone' : j # i => /\ j \in Ids' /\ requests'[j].kind = "review"
                                       /\ requests'[j].at # "sent" /\ ~Running(j)'
                                       /\ requests'[j].at # "listed"
        BY <3>1, <3>3, <3>5, <3>6 DEF Moves, Running
      <3>9. i \in Ids' /\ requests'[i].kind = "review"
        BY <2>1, <3>1 DEF Moves
      <3> QED
        BY <3>1, <3>4, <3>7, <3>8, <3>9 DEF AverageInv
    <2> QED
      BY <1>3, <2>2, <2>3, LoadPlateStep
  <1>4. CASE CheckReview(i)
    <2>1. /\ requests[i].kind = "review" /\ requests[i].at = "read" /\ Moves(i)
          /\ requests'[i].at \in {"conflict", "checked"}
          /\ UNCHANGED <<reviews, average, alone, disturbed>>
      BY <1>4, CheckReviewStep DEF CheckReview, Reaches, Ends, tables, history
    <2> QED
      BY <2>1, AverageKept DEF Running
  <1>5. CASE CreateReview(i)
    <2>1. /\ requests[i].kind = "review" /\ requests[i].at = "checked"
          /\ UNCHANGED <<average, alone, disturbed>>
      BY <1>5 DEF CreateReview, history
    <2>2. CASE Ends(i, "failed") /\ UNCHANGED reviews
      BY <2>1, <2>2, AverageKept DEF Ends, Running
    <2>3. CASE Moves(i) /\ requests'[i].at = "written"
      <3>1. AverageIsOfReviews'
        BY <2>1, <2>3 DEF AverageIsOfReviews, Moves
      <3>2. i \in Beside("review")
        BY <2>1 DEF Beside, Running
      <3>3. \A j \in Ids : j # i => requests'[j] = requests[j] /\ (Running(j)' <=> Running(j))
        BY <2>3 DEF Moves, Running
      <3>4. Beside("review")' \subseteq Beside("review")
        BY <2>3, <3>2, <3>3 DEF Beside, Moves
      <3>5. ASSUME NEW j \in alone
            PROVE  /\ j \in Ids' /\ requests'[j].kind = "review" /\ requests'[j].at # "sent"
                   /\ Running(j)' => Beside("review")' \subseteq {j}
                   /\ requests'[j].at # "listed"
        <4>1. /\ j \in Ids /\ requests[j].kind = "review" /\ requests[j].at # "sent"
              /\ Running(j) => Beside("review") \subseteq {j}
          BY <3>5 DEF AverageInv
        <4>2. CASE j = i
          BY <2>1, <2>3, <3>4, <4>1, <4>2 DEF Moves, Running
        <4>3. CASE j # i
          <5>1. ~Running(j)
            BY <3>2, <4>1, <4>3
          <5> QED
            BY <2>3, <3>3, <4>1, <4>3, <5>1 DEF Moves, Running
        <4> QED
          BY <4>2, <4>3
      <3> QED
        BY <2>1, <3>1, <3>5 DEF AverageInv
    <2> QED
      BY <1>5, <2>2, <2>3, CreateReviewStep DEF Reaches
  <1>6. CASE ListReviews(i)
    <2>1. /\ requests[i].kind = "review" /\ requests[i].at = "written" /\ Moves(i)
          /\ UNCHANGED <<reviews, average, alone>> /\ disturbed \subseteq disturbed'
          /\ \/ requests'[i].at = "done" /\ "average" \in disturbed'
             \/ requests'[i].at = "listed" /\ requests'[i].listed = reviews
      BY <1>6, ListReviewsStep DEF ListReviews, Reaches, Ends, tables
    <2> QED
      BY <2>1, AverageKept DEF Running
  <1>7. CASE SavePlate(i)
    <2>1. /\ requests[i].kind = "review" /\ requests[i].at = "listed" /\ Moves(i)
          /\ UNCHANGED <<reviews, alone>> /\ requests'[i].at = "done"
          /\ average' = requests[i].listed
          /\ i \notin alone => "average" \in disturbed'
      BY <1>7, SavePlateStep DEF SavePlate, Ends
    <2>2. AverageIsOfReviews'
      BY <2>1 DEF AverageInv, AverageIsOfReviews
    <2>3. \A j \in Ids : j # i => requests'[j] = requests[j] /\ (Running(j)' <=> Running(j))
      BY <2>1 DEF Moves, Running
    <2>4. Beside("review")' \subseteq Beside("review")
      BY <2>1, <2>3 DEF Beside, Moves, Running
    <2>5. ASSUME NEW j \in alone
          PROVE  /\ j \in Ids' /\ requests'[j].kind = "review" /\ requests'[j].at # "sent"
                 /\ Running(j)' => Beside("review")' \subseteq {j}
                 /\ requests'[j].at = "listed" => requests'[j].listed = reviews
      <3>1. /\ j \in Ids /\ requests[j].kind = "review" /\ requests[j].at # "sent"
            /\ Running(j) => Beside("review") \subseteq {j}
            /\ requests[j].at = "listed" => requests[j].listed = reviews
        BY <2>5 DEF AverageInv
      <3>2. CASE j = i
        BY <2>1, <3>1, <3>2 DEF Moves, Running
      <3>3. CASE j # i
        BY <2>1, <2>3, <2>4, <3>1, <3>3 DEF Moves
      <3> QED
        BY <3>2, <3>3
    <2> QED
      BY <2>1, <2>2, <2>5 DEF AverageInv
  <1>8. CASE Interrupt(i)
    <2>1. /\ Moves(i) /\ requests'[i].at \in {"failed", "done"}
          /\ UNCHANGED <<reviews, average, alone>> /\ disturbed \subseteq disturbed'
          /\ requests[i].kind = "review" /\ requests[i].at \in {"written", "listed"} =>
                "average" \in disturbed'
      BY <1>8, InterruptStep DEF Interrupt, Ends, tables
    <2> QED
      BY <2>1, AverageKept DEF Running
  <1> QED
    BY <1>1, <1>2, <1>3, <1>4, <1>5, <1>6, <1>7, <1>8 DEF Server

LEMMA AverageInvStep ==
    ASSUME Shape, AverageInv, EngagementNext
    PROVE  AverageInv'
  <1>1. ASSUME NEW i \in Ids, Server(i) PROVE AverageInv'
    BY <1>1, ServerAverage
  <1>2. CASE Others
    <2>1. /\ UNCHANGED requests /\ disturbed \subseteq disturbed' /\ alone' \subseteq alone
          /\ average' # average => "average" \in disturbed'
          /\ reviews' # reviews => /\ "average" \in disturbed'
                                   /\ \A i \in alone' : i \in Ids => requests[i].at # "listed"
      BY <1>2, OthersStep
    <2>2. Ids' = Ids /\ Beside("review")' = Beside("review") /\ \A i : Running(i)' <=> Running(i)
      BY <2>1 DEF Ids, Beside, Running
    <2>3. AverageIsOfReviews'
      BY <2>1, <2>2 DEF AverageInv, AverageIsOfReviews
    <2> QED
      BY <2>1, <2>2, <2>3 DEF AverageInv
  <1>3. CASE Client
    <2>1. UNCHANGED <<reviews, average, disturbed, alone>>
      BY <1>3 DEF Client, tables, history
    <2>2. PICK kind \in Kinds, a \in Accounts, want \in Ratings \cup {0, 1} : Arrives(kind, a, want)
      BY <1>3, ClientStep
    <2>3. Beside("review")' = Beside("review")
      BY <2>2, BesideArrives
    <2>4. /\ \A j \in Ids : j \in Ids' /\ requests'[j] = requests[j] /\ (Running(j)' <=> Running(j))
          /\ \A j \in Ids' : j \in Ids \/ requests'[j].at = "sent"
      BY <2>2 DEF Arrives, Running
    <2>5. AverageIsOfReviews'
      BY <2>1, <2>4 DEF AverageInv, AverageIsOfReviews
    <2> QED
      BY <2>1, <2>3, <2>4, <2>5 DEF AverageInv
  <1> QED
    BY <1>1, <1>2, <1>3 DEF EngagementNext

--------------------------------------------------------------------------------
(* One review of an account. *)

\* The reviews of a that are under way.
Reviewing(a) == {i \in Beside("review") : requests[i].account = a}

OneReviewOf(a) ==
    /\ \A v, w \in Own(a) : v = w
    /\ \A i, j \in Reviewing(a) : i = j
    /\ \A i \in Reviewing(a) : requests[i].at = "checked" => Own(a) = {}

LEMMA OneReviewParts ==
    /\ OneReviewInv <=> \A a \in Accounts : <<a, "review">> \notin doubled => OneReviewOf(a)
    /\ OneReviewInv' <=> \A a \in Accounts : <<a, "review">> \notin doubled' => OneReviewOf(a)'
  BY DEF OneReviewInv, OneReviewOf, Reviewing

\* Steps that start and create no review.
LEMMA OneReviewKept ==
    ASSUME NEW a, OneReviewOf(a), reviews' \subseteq reviews, Reviewing(a)' \subseteq Reviewing(a),
           \A i \in Reviewing(a)' : requests'[i].at = "checked" =>
              requests[i].at = "checked" \/ Own(a) = {}
    PROVE  OneReviewOf(a)'
  <1>1. Own(a)' \subseteq Own(a)
    BY DEF Own
  <1> QED
    BY <1>1 DEF OneReviewOf

LEMMA ServerOneReview ==
    ASSUME Shape, NEW i \in Ids, Server(i), NEW a \in Accounts, OneReviewOf(a),
           <<a, "review">> \notin doubled'
    PROVE  OneReviewOf(a)'
  <1>a. /\ requests \in Seq(Requests) /\ HistoryShape
        /\ requests[i].account \in Accounts
    BY RequestType DEF Shape, RequestShape
  <1>b. ASSUME Moves(i), requests[i].kind # "review" \/ requests[i].account # a
                         \/ requests'[i].at \in {"done", "failed", "conflict"}
        PROVE  /\ Reviewing(a)' \subseteq Reviewing(a)
               /\ \A j \in Reviewing(a)' : requests'[j] = requests[j]
    <2>1. \A j \in Ids : j # i => requests'[j] = requests[j] /\ (Running(j)' <=> Running(j))
      BY <1>b DEF Moves, Running
    <2> QED
      BY <1>b, <2>1 DEF Reviewing, Beside, Running, Moves
  <1>1. CASE ReadMember(i) \/ WriteMember(i) \/ CountBookmark(i)
    <2>1. requests[i].kind = "bookmark" /\ Moves(i) /\ UNCHANGED reviews
      BY <1>1, ReadMemberStep, WriteMemberStep, CountBookmarkStep
         DEF ReadMember, WriteMember, CountBookmark, Reaches, Ends, tables
    <2> QED
      BY <1>b, <2>1, OneReviewKept
  <1>2. CASE LoadPlate(i)
    <2>1. requests[i].kind = "review" /\ UNCHANGED reviews
      BY <1>2 DEF LoadPlate, tables
    <2>2. CASE Ends(i, "failed")
      BY <1>b, <2>1, <2>2, OneReviewKept DEF Ends
    <2>3. CASE /\ Reaches(i, "read", requests[i].found, count, requests[i].listed)
               /\ Overlapping(i)
      <3>1. Moves(i) /\ requests'[i].at = "read"
        BY <2>3 DEF Reaches
      <3>2. CASE a # requests[i].account
        BY <1>b, <2>1, <3>1, <3>2, OneReviewKept
      <3>3. CASE a = requests[i].account
        <4>1. Reviewing(a) = {}
          BY <1>a, <2>1, <2>3, <3>3, OverlappingNotes DEF Reviewing
        <4>2. \A j \in Ids : j # i => requests'[j] = requests[j] /\ (Running(j)' <=> Running(j))
          BY <3>1 DEF Moves, Running
        <4>3. Reviewing(a)' \subseteq {i}
          BY <3>1, <4>1, <4>2 DEF Reviewing, Beside, Moves
        <4>4. Own(a)' = Own(a)
          BY <2>1 DEF Own
        <4> QED
          BY <3>1, <4>3, <4>4 DEF OneReviewOf
      <3> QED
        BY <3>2, <3>3
    <2> QED
      BY <1>2, <2>2, <2>3, LoadPlateStep
  <1>3. CASE CheckReview(i)
    <2>1. /\ requests[i].kind = "review" /\ requests[i].at = "read" /\ Moves(i)
          /\ \/ requests'[i].at = "conflict"
             \/ requests'[i].at = "checked" /\ Own(requests[i].account) = {}
          /\ UNCHANGED reviews
      BY <1>3, CheckReviewStep DEF CheckReview, Reaches, Ends, tables
    <2>2. \A j \in Ids : j # i => requests'[j] = requests[j] /\ (Running(j)' <=> Running(j))
      BY <2>1 DEF Moves, Running
    <2>3. /\ Reviewing(a)' \subseteq Reviewing(a)
          /\ i \in Reviewing(a)' => a = requests[i].account
      BY <2>1, <2>2 DEF Reviewing, Beside, Moves, Running
    <2>4. \A j \in Reviewing(a)' : j # i => requests'[j] = requests[j]
      BY <2>1, <2>2 DEF Reviewing, Beside, Moves
    <2> QED
      BY <2>1, <2>3, <2>4, OneReviewKept
  <1>4. CASE CreateReview(i)
    <2>1. requests[i].kind = "review" /\ requests[i].at = "checked"
      BY <1>4 DEF CreateReview
    <2>2. CASE Ends(i, "failed") /\ UNCHANGED reviews
      BY <1>b, <2>2, OneReviewKept DEF Ends
    <2>3. CASE /\ Moves(i) /\ requests'[i].at = "written"
               /\ reviews' = reviews \cup {[by |-> i, account |-> requests[i].account,
                                            rating |-> requests[i].want]}
      <3>1. CASE a # requests[i].account
        <4>1. Own(a)' = Own(a)
          BY <2>3, <3>1 DEF Own
        <4> QED
          BY <1>b, <2>3, <3>1, <4>1 DEF OneReviewOf
      <3>2. CASE a = requests[i].account
        <4>1. i \in Reviewing(a)
          BY <2>1, <3>2 DEF Reviewing, Beside, Running
        <4>2. Own(a) = {} /\ Reviewing(a) = {i}
          BY <2>1, <4>1 DEF OneReviewOf
        <4>3. Own(a)' = {[by |-> i, account |-> a, rating |-> requests[i].want]}
          BY <2>3, <3>2, <4>2 DEF Own
        <4>4. \A j \in Ids : j # i => requests'[j] = requests[j] /\ (Running(j)' <=> Running(j))
          BY <2>3 DEF Moves, Running
        <4>5. Reviewing(a)' \subseteq {i}
          BY <2>3, <4>2, <4>4 DEF Reviewing, Beside, Moves
        <4> QED
          BY <2>3, <4>3, <4>5 DEF OneReviewOf
      <3> QED
        BY <3>1, <3>2
    <2> QED
      BY <1>4, <2>2, <2>3, CreateReviewStep DEF Reaches
  <1>5. CASE ListReviews(i) \/ SavePlate(i) \/ Interrupt(i)
    <2>1. \A j \in Ids : j # i => requests'[j] = requests[j] /\ (Running(j)' <=> Running(j))
      BY <1>5, ListReviewsStep, SavePlateStep, InterruptStep DEF Reaches, Ends, Moves, Running
    <2>2. /\ Moves(i) /\ UNCHANGED reviews /\ requests'[i].at # "checked"
          /\ Running(i)' => Running(i)
      BY <1>5, ListReviewsStep, SavePlateStep, InterruptStep
         DEF ListReviews, SavePlate, Interrupt, Reaches, Ends, tables, Running
    <2>3. Reviewing(a)' \subseteq Reviewing(a)
      BY <2>1, <2>2 DEF Reviewing, Beside, Moves
    <2>4. \A j \in Reviewing(a)' : requests'[j].at = "checked" => requests[j].at = "checked"
      BY <2>1, <2>2 DEF Reviewing, Beside, Moves
    <2> QED
      BY <2>2, <2>3, <2>4, OneReviewKept
  <1> QED
    BY <1>1, <1>2, <1>3, <1>4, <1>5 DEF Server

LEMMA OneReviewInvStep ==
    ASSUME Shape, OneReviewInv, EngagementNext
    PROVE  OneReviewInv'
  <1>1. ASSUME NEW i \in Ids, Server(i) PROVE OneReviewInv'
    BY <1>1, ServerOneReview, ServerDoubles, OneReviewParts
  <1>2. ASSUME UNCHANGED requests, reviews' \subseteq reviews, doubled \subseteq doubled'
        PROVE  OneReviewInv'
    <2>1. \A a : Reviewing(a)' = Reviewing(a)
      BY <1>2 DEF Reviewing, Beside, Ids, Running
    <2> QED
      BY <1>2, <2>1, OneReviewKept, OneReviewParts
  <1>3. CASE Others
    BY <1>2, <1>3, OthersStep
  <1>4. CASE Client
    <2>1. UNCHANGED <<reviews, doubled>>
      BY <1>4 DEF Client, tables, history
    <2>2. PICK kind \in Kinds, a \in Accounts, want \in Ratings \cup {0, 1} : Arrives(kind, a, want)
      BY <1>4, ClientStep
    <2>3. \A j \in Beside("review") : requests'[j] = requests[j]
      BY <2>2 DEF Arrives, Beside
    <2>4. \A b : Reviewing(b)' = Reviewing(b) /\ \A j \in Reviewing(b) : requests'[j] = requests[j]
      BY <2>2, <2>3, BesideArrives DEF Reviewing
    <2> QED
      BY <2>1, <2>4, OneReviewKept, OneReviewParts
  <1> QED
    BY <1>1, <1>3, <1>4 DEF EngagementNext

--------------------------------------------------------------------------------
(* The invariant of the server. *)

EngagementInv ==
    Shape /\ BookmarkRows /\ CountInv /\ AverageInv /\ OneReviewInv

LEMMA EngagementInitInv ==
    ASSUME EngagementInit
    PROVE  EngagementInv
  <1>1. /\ requests = <<>> /\ Ids = {} /\ Len(requests) = 0
        /\ \A k : Beside(k) = {}
        /\ \A a : Toggles(a) = {}
    BY DEF EngagementInit, Ids, Beside, Toggles
  <1>2. reviews = {} /\ average = {} /\ \A a : Own(a) = {}
    BY DEF EngagementInit, Own
  <1>3. \A a \in Accounts : /\ members[a].on = 0
                            /\ members[a].off = IF a = Owner THEN 1 ELSE 0
    BY DEF EngagementInit
  <1>4. Shape
    <2>1. members \in [Accounts -> [on : Nat, off : Nat]]
      BY DEF EngagementInit
    <2>2. requests \in Seq(Requests)
      BY <1>1
    <2>3. TableShape
      BY <2>1 DEF EngagementInit, TableShape
    <2>4. RequestShape
      BY <1>1, <2>2, PlateEngagementAssumption DEF RequestShape
    <2>5. OthersShape /\ HistoryShape
      BY PlateEngagementAssumption DEF EngagementInit, OthersShape, HistoryShape
    <2> QED
      BY <2>3, <2>4, <2>5 DEF Shape
  <1>5. CountInv
    <2>1. Bookmarked = {} /\ Waiting(0) = {} /\ Waiting(1) = {} /\ count = 0
      BY <1>1, <1>3 DEF Bookmarked, Waiting, EngagementInit
    <2>2. IsFiniteSet(Bookmarked) /\ Cardinality(Bookmarked) = 0
          /\ Cardinality(Waiting(0)) = 0 /\ Cardinality(Waiting(1)) = 0
      BY <2>1, FS_EmptySet
    <2> QED
      BY <1>1, <2>1, <2>2, CountParts DEF CountKnown
  <1>6. AverageInv
    BY <1>2 DEF EngagementInit, AverageInv, AverageIsOfReviews
  <1>7. BookmarkRows /\ OneReviewInv
    BY <1>1, <1>2, <1>3 DEF BookmarkRows, RowsOf, OneReviewInv, EngagementInit
  <1> QED
    BY <1>4, <1>5, <1>6, <1>7 DEF EngagementInv

LEMMA EngagementStepInv ==
    ASSUME EngagementInv, [EngagementNext]_engagementVars
    PROVE  EngagementInv'
  <1> USE DEF EngagementInv
  <1>1. CASE EngagementNext
    <2>1. Shape'
      BY <1>1, ServerShape, ClientShape, OthersKeepShape DEF EngagementNext
    <2> QED
      BY <1>1, <2>1, BookmarkRowsStep, CountInvStep, AverageInvStep, OneReviewInvStep
  <1>2. CASE UNCHANGED engagementVars
    <2>1. UNCHANGED <<members, reviews, count, average, requests, copies, removing, deleted,
                      faults, disturbed, doubled, alone>>
      BY <1>2 DEF engagementVars, tables, others, history
    <2>2. /\ Ids' = Ids /\ \A k : Beside(k)' = Beside(k)
          /\ \A a : Toggles(a)' = Toggles(a) /\ FoundRow(a)' = FoundRow(a) /\ Own(a)' = Own(a)
          /\ \A i : Running(i)' <=> Running(i)
      BY <2>1 DEF Ids, Beside, Toggles, Running, FoundRow, Own
    <2>3. Shape'
      BY <2>1 DEF Shape, RequestShape, TableShape, OthersShape, HistoryShape, Ids
    <2>4. BookmarkRows' /\ OneReviewInv'
      BY <2>1, <2>2 DEF BookmarkRows, RowsOf, OneReviewInv
    <2>5. CountInv' /\ AverageInv'
      BY <2>1, <2>2, CountParts
         DEF CountKnown, Bookmarked, Waiting, AverageInv, AverageIsOfReviews
    <2> QED
      BY <2>3, <2>4, <2>5
  <1> QED
    BY <1>1, <1>2

THEOREM EngagementInvariant == EngagementSpec => []EngagementInv
  <1>1. EngagementInit => EngagementInv
    BY EngagementInitInv
  <1>2. EngagementInv /\ [EngagementNext]_engagementVars => EngagementInv'
    BY EngagementStepInv
  <1> QED
    BY <1>1, <1>2, PTL DEF EngagementSpec

LEMMA EngagementTyped ==
    ASSUME EngagementInv
    PROVE  EngagementTypeOK
  <1>1. alone \subseteq 1..MaxRequests
    BY PlateEngagementAssumption
       DEF EngagementInv, AverageInv, Ids, Shape, RequestShape
  <1> QED
    BY <1>1 DEF EngagementInv, EngagementTypeOK, Shape, RequestShape, TableShape, OthersShape,
                HistoryShape

\* Bookmarks and ratings keep their types: rows, reviews and counter whatever is saved
\* over them, and never more requests than the bound.
THEOREM EngagementTypes == EngagementSpec => []EngagementTypeOK
  BY EngagementTyped, EngagementInvariant, PTL

\* The counter of the plate is the number of its bookmarks but for those written and not
\* yet counted, however many accounts toggle at once; only what CountIsBookmarks names
\* puts it wrong.
THEOREM CounterCorrect == EngagementSpec => []CountIsBookmarks
  <1>1. EngagementInv => CountIsBookmarks
    BY DEF EngagementInv, CountInv
  <1> QED
    BY <1>1, EngagementInvariant, PTL

\* A review that meets no other one leaves the average of all of them behind, whatever
\* put it wrong before; only what AverageIsOfReviews names puts it wrong again.
THEOREM AverageCorrect == EngagementSpec => []AverageIsOfReviews
  <1>1. EngagementInv => AverageIsOfReviews
    BY DEF EngagementInv, AverageInv
  <1> QED
    BY <1>1, EngagementInvariant, PTL

\* An account reviews a plate once unless two of its reviews overlap: interruptions and
\* deletions make no second one.
THEOREM OneReviewEach == EngagementSpec => []OneReview
  <1>1. EngagementInv => OneReview
    <2>1. SUFFICES ASSUME EngagementInv, NEW a \in Accounts, <<a, "review">> \notin doubled
                   PROVE  Cardinality(Own(a)) <= 1
      BY DEF OneReview
    <2>2. \A v, w \in Own(a) : v = w
      BY <2>1 DEF EngagementInv, OneReviewInv
    <2> DEFINE own == Own(a)
    <2>3. CASE own = {}
      BY <2>3, FS_EmptySet
    <2>4. CASE own # {}
      <3>1. PICK v : own = {v}
        BY <2>2, <2>4
      <3>2. Cardinality({v}) = 1
        BY FS_Singleton
      <3> QED
        BY <3>1, <3>2
    <2> QED
      BY <2>3, <2>4
  <1> QED
    BY <1>1, EngagementInvariant, PTL

--------------------------------------------------------------------------------
(* The buttons of a tab. *)

\* A component waits for a request of its own, and the button keeps its state meanwhile.
ButtonsShape ==
    /\ pages \subseteq Renderings
    /\ bookmarkCall \in 0..Len(requests) /\ ratingCall \in 0..Len(requests)
    /\ bookmarkCall # 0 =>
          /\ MyToggle(bookmarkCall)
          /\ bookmarked <=> requests[bookmarkCall].want = 0
    /\ ratingCall # 0 =>
          requests[ratingCall].kind = "review" /\ requests[ratingCall].account = Me
    /\ bookmarked \in BOOLEAN /\ stale \in BOOLEAN /\ sure \in BOOLEAN /\ apart \in BOOLEAN
    /\ rating \in Ratings \cup {0} /\ userRating \in Ratings \cup {0}
    /\ initial \in Ratings \cup {0}
    /\ unfounded \subseteq Ratings

Agreed == <<Me, "bookmark">> \notin doubled
On == members[Me].on > 0

\* What the answer on its way, and the renderings, will say of the table.
AnswerInv ==
    Agreed /\ bookmarkCall # 0 =>
       /\ sure /\ requests[bookmarkCall].at \in {"sent", "read", "failed"} => (bookmarked <=> On)
       /\ (sure \/ apart) /\ requests[bookmarkCall].at \in {"written", "done"} =>
             (bookmarked <=> ~On)

PagesInv ==
    \A page \in pages : page.current => Toggles(Me) = {} /\ (Agreed => (page.bookmarked <=> On))

ShownInv ==
    /\ bookmarkCall = 0 /\ sure /\ Agreed => (bookmarked <=> On)
    /\ sure \/ (apart /\ bookmarkCall # 0) => Toggles(Me) \subseteq {bookmarkCall}
    /\ AnswerInv
    /\ PagesInv

Founded == unfounded \cup {v.rating : v \in Own(Me)}

\* What the answer on its way, and the renderings, will say of the ratings.
RatingInv ==
    /\ RatingShown
    /\ ratingCall # 0 /\ requests[ratingCall].at \in {"written", "listed", "done"} =>
          requests[ratingCall].want \in Founded
    /\ \A page \in pages : page.userRating \in Founded \cup {0}

\* The buttons do nothing at the server but send requests.
LEMMA ButtonsStepServer ==
    ASSUME ButtonsShape, [ButtonsNext]_buttonVars
    PROVE  [EngagementNext]_engagementVars
  <1>1. CASE handleBookmarkToggle
    <2>1. /\ Send("bookmark", Me, IF bookmarked THEN 0 ELSE 1)
          /\ (IF bookmarked THEN 0 ELSE 1) \in {0, 1} /\ UNCHANGED <<tables, others, history>>
      BY <1>1 DEF handleBookmarkToggle
    <2>2. Client
      BY <2>1, PlateButtonsAssumption DEF Client
    <2> QED
      BY <2>2 DEF EngagementNext
  <1>2. CASE submitRating
    <2>1. /\ Send("review", Me, rating) /\ rating \in Ratings
          /\ UNCHANGED <<tables, others, history>>
      BY <1>2 DEF submitRating, ButtonsShape
    <2>2. Client
      BY <2>1, PlateButtonsAssumption DEF Client
    <2> QED
      BY <2>2 DEF EngagementNext
  <1>3. CASE Elsewhere \/ OtherTabs
    BY <1>3 DEF Elsewhere, OtherTabs, EngagementNext
  <1>4. CASE \/ ReadPlate \/ \E page \in pages : Mounted(page) \/ Refreshed(page)
             \/ BookmarkAnswered \/ BookmarkLost \/ ChooseStars \/ RatingAnswered \/ RatingLost
             \/ ChangeRating
    BY <1>4 DEF ReadPlate, Mounted, Refreshed, BookmarkAnswered, BookmarkLost, ChooseStars,
                RatingAnswered, RatingLost, ChangeRating
  <1>5. CASE UNCHANGED buttonVars
    BY <1>5 DEF buttonVars
  <1> QED
    BY <1>1, <1>2, <1>3, <1>4, <1>5 DEF ButtonsNext

\* Which requests of the account arrive.
LEMMA ToggleArrives ==
    ASSUME Shape, handleBookmarkToggle
    PROVE  /\ Arrives("bookmark", Me, IF bookmarked THEN 0 ELSE 1)
           /\ bookmarkCall' = Len(requests')
  <1>1. requests \in Seq(Requests) /\ "bookmark" \in Kinds
    BY DEF Shape, RequestShape, Kinds
  <1>2. (IF bookmarked THEN 0 ELSE 1) \in Ratings \cup {0, 1}
    OBVIOUS
  <1> QED
    BY <1>1, <1>2, PlateButtonsAssumption, SendArrives DEF handleBookmarkToggle

LEMMA RatingArrives ==
    ASSUME Shape, ButtonsShape, submitRating
    PROVE  Arrives("review", Me, rating) /\ rating \in Ratings /\ ratingCall' = Len(requests')
  <1>1. requests \in Seq(Requests) /\ "review" \in Kinds /\ rating \in Ratings
    BY DEF Shape, RequestShape, Kinds, submitRating, ButtonsShape
  <1> QED
    BY <1>1, PlateButtonsAssumption, SendArrives DEF submitRating

\* What a component waits for is what was asked for, whatever the server does.
LEMMA ServerMoves ==
    ASSUME Shape, NEW i \in Ids, Server(i)
    PROVE  Moves(i) /\ requests'[i].at # requests[i].at
  <1>1. CASE ReadMember(i) \/ WriteMember(i) \/ CountBookmark(i)
    BY <1>1, ReadMemberStep, WriteMemberStep, CountBookmarkStep
       DEF ReadMember, WriteMember, CountBookmark, Reaches, Ends
  <1>2. CASE LoadPlate(i) \/ CheckReview(i) \/ CreateReview(i)
    BY <1>2, LoadPlateStep, CheckReviewStep, CreateReviewStep
       DEF LoadPlate, CheckReview, CreateReview, Reaches, Ends
  <1>3. CASE ListReviews(i) \/ SavePlate(i) \/ Interrupt(i)
    BY <1>3, ListReviewsStep, SavePlateStep, InterruptStep
       DEF ListReviews, SavePlate, Interrupt, Running, Reaches, Ends
  <1> QED
    BY <1>1, <1>2, <1>3 DEF Server

\* Requests as they were, or one of them further, or one more.
Asked ==
    /\ Len(requests') \in Nat /\ Len(requests) \in Nat /\ Len(requests) <= Len(requests')
    /\ \A i \in Ids : /\ requests'[i].kind = requests[i].kind
                      /\ requests'[i].account = requests[i].account
                      /\ requests'[i].want = requests[i].want

LEMMA EngagementAsked ==
    ASSUME Shape, [EngagementNext]_engagementVars
    PROVE  Asked
  <1>1. requests \in Seq(Requests)
    BY DEF Shape, RequestShape
  <1>2. ASSUME NEW i \in Ids, Server(i) PROVE Asked
    <2>1. Moves(i)
      BY <1>2, ServerMoves
    <2>2. Len(requests') = Len(requests) /\ Len(requests) \in Nat
      BY <1>1, <2>1 DEF Moves
    <2>3. \A j \in Ids : /\ requests'[j].kind = requests[j].kind
                         /\ requests'[j].account = requests[j].account
                         /\ requests'[j].want = requests[j].want
      BY <2>1 DEF Moves
    <2> QED
      BY <2>2, <2>3 DEF Asked
  <1>3. CASE Client
    BY <1>1, <1>3, ClientStep DEF Arrives, Asked
  <1>4. CASE Others \/ UNCHANGED engagementVars
    <2>1. UNCHANGED requests
      BY <1>4, OthersStep DEF engagementVars
    <2> QED
      BY <1>1, <2>1 DEF Asked
  <1> QED
    BY <1>2, <1>3, <1>4 DEF EngagementNext

\* Steps that send nothing and leave the button's state alone keep what it waits for.
LEMMA CallsKept ==
    ASSUME ButtonsShape, Asked, UNCHANGED <<calls, bookmarked>>
    PROVE  /\ bookmarkCall' \in 0..Len(requests') /\ ratingCall' \in 0..Len(requests')
           /\ bookmarkCall' # 0 => /\ MyToggle(bookmarkCall)'
                                   /\ bookmarked' <=> requests'[bookmarkCall'].want = 0
           /\ ratingCall' # 0 => requests'[ratingCall'].kind = "review"
                                 /\ requests'[ratingCall'].account = Me
  <1>1. /\ bookmarkCall' = bookmarkCall /\ ratingCall' = ratingCall /\ bookmarked' = bookmarked
        /\ bookmarkCall \in 0..Len(requests) /\ ratingCall \in 0..Len(requests)
    BY DEF calls, ButtonsShape
  <1>2. /\ bookmarkCall # 0 => bookmarkCall \in Ids
        /\ ratingCall # 0 => ratingCall \in Ids
    BY <1>1 DEF Ids, Asked
  <1>3. bookmarkCall \in 0..Len(requests') /\ ratingCall \in 0..Len(requests')
    BY <1>1 DEF Asked
  <1> QED
    BY <1>1, <1>2, <1>3 DEF Asked, ButtonsShape, MyToggle

LEMMA ButtonsShapeStep ==
    ASSUME Shape, ButtonsShape, [ButtonsNext]_buttonVars
    PROVE  ButtonsShape'
  <1>a. Asked
    BY ButtonsStepServer, EngagementAsked
  <1>b. /\ requests \in Seq(Requests) /\ Len(requests) \in Nat /\ reviews \subseteq Reviews
        /\ \A i \in Ids : requests[i].kind = "review" => requests[i].want \in Ratings
    BY DEF Shape, RequestShape, TableShape
  <1>c. ASSUME UNCHANGED <<requests, bookmarked>>, bookmarkCall' \in {bookmarkCall, 0},
               ratingCall' \in {ratingCall, 0}
        PROVE  /\ bookmarkCall' \in 0..Len(requests') /\ ratingCall' \in 0..Len(requests')
               /\ bookmarkCall' # 0 => /\ MyToggle(bookmarkCall)'
                                       /\ bookmarked' <=> requests'[bookmarkCall'].want = 0
               /\ ratingCall' # 0 => requests'[ratingCall'].kind = "review"
                                     /\ requests'[ratingCall'].account = Me
    BY <1>b, <1>c DEF ButtonsShape, MyToggle
  <1>1. CASE ReadPlate
    <2>1. PICK page \in Renderings, kept \in SUBSET pages : pages' = kept \cup {page}
      BY <1>1 DEF ReadPlate
    <2>2. pages' \subseteq Renderings
      BY <2>1 DEF ButtonsShape
    <2> QED
      BY <1>a, <1>1, <2>2, CallsKept DEF ReadPlate, ButtonsShape, card, engagementVars, calls
  <1>2. ASSUME NEW page \in pages, Mounted(page) \/ Refreshed(page) PROVE ButtonsShape'
    <2>1. page.bookmarked \in BOOLEAN /\ page.current \in BOOLEAN /\ page.userRating \in Ratings \cup {0}
      BY DEF ButtonsShape, Renderings
    <2>2. CASE Mounted(page)
      <3>1. bookmarkCall' = 0 /\ ratingCall' = 0 /\ 0 \in 0..Len(requests')
        BY <1>a, <2>2 DEF Mounted, Asked
      <3> QED
        BY <2>1, <2>2, <3>1 DEF Mounted, ButtonsShape
    <2>3. CASE Refreshed(page)
      BY <1>a, <2>1, <2>3, CallsKept DEF Refreshed, ButtonsShape
    <2> QED
      BY <1>2, <2>2, <2>3
  <1>3. CASE handleBookmarkToggle
    <2>1. /\ Arrives("bookmark", Me, IF bookmarked THEN 0 ELSE 1)
          /\ bookmarkCall' = Len(requests') /\ UNCHANGED <<bookmarked, ratingCall>>
      BY <1>3, ToggleArrives DEF handleBookmarkToggle
    <2>2. /\ bookmarkCall' \in 0..Len(requests') /\ MyToggle(bookmarkCall)'
          /\ bookmarked' <=> requests'[bookmarkCall'].want = 0
      BY <1>b, <2>1 DEF Arrives, MyToggle
    <2>3. /\ ratingCall' \in 0..Len(requests')
          /\ ratingCall' # 0 => requests'[ratingCall'].kind = "review"
                                /\ requests'[ratingCall'].account = Me
      BY <1>a, <2>1 DEF ButtonsShape, Asked, Ids
    <2>4. apart' \in BOOLEAN
      BY <1>3 DEF handleBookmarkToggle
    <2> QED
      BY <1>3, <2>2, <2>3, <2>4 DEF handleBookmarkToggle, ButtonsShape, card
  <1>4. CASE submitRating
    <2>1. /\ Arrives("review", Me, rating)
          /\ ratingCall' = Len(requests') /\ UNCHANGED <<bookmarked, bookmarkCall>>
      BY <1>4, RatingArrives DEF submitRating
    <2>2. /\ ratingCall' \in 0..Len(requests')
          /\ requests'[ratingCall'].kind = "review" /\ requests'[ratingCall'].account = Me
      BY <1>b, <2>1 DEF Arrives
    <2>3. /\ bookmarkCall' \in 0..Len(requests')
          /\ bookmarkCall' # 0 => /\ MyToggle(bookmarkCall)'
                                  /\ bookmarked' <=> requests'[bookmarkCall'].want = 0
      BY <1>a, <2>1 DEF ButtonsShape, Asked, Ids, MyToggle
    <2> QED
      BY <1>4, <2>2, <2>3 DEF submitRating, ButtonsShape, card
  <1>5. CASE BookmarkAnswered \/ BookmarkLost
    <2>1. /\ bookmarkCall' = 0 /\ UNCHANGED <<requests, ratingCall, pages, card, apart, unfounded>>
          /\ bookmarked' \in BOOLEAN /\ sure' \in BOOLEAN
      BY <1>5 DEF BookmarkAnswered, BookmarkLost, engagementVars, ButtonsShape
    <2> QED
      BY <1>b, <2>1 DEF ButtonsShape, card
  <1>6. CASE RatingAnswered
    <2>1. /\ requests[ratingCall].want \in Ratings /\ ratingCall' = 0
          /\ UNCHANGED <<requests, bookmarkCall, bookmarked, initial, sure, apart>>
      BY <1>b, <1>6 DEF RatingAnswered, ButtonsShape, Ids, engagementVars
    <2>2. /\ userRating' \in Ratings \cup {0} /\ rating' \in Ratings \cup {0}
          /\ pages' \subseteq Renderings /\ unfounded' \subseteq Ratings /\ stale' \in BOOLEAN
      BY <1>6, <2>1 DEF RatingAnswered, ButtonsShape
    <2> QED
      BY <1>c, <2>1, <2>2 DEF ButtonsShape
  <1>7. CASE RatingLost \/ ChooseStars \/ ChangeRating
    <2>1. /\ ratingCall' \in {ratingCall, 0} /\ rating' \in Ratings \cup {0}
          /\ userRating' \in Ratings \cup {0}
          /\ UNCHANGED <<requests, bookmarkCall, bookmarked, pages, initial, stale, sure, apart,
                         unfounded>>
      BY <1>7 DEF RatingLost, ChooseStars, ChangeRating, ButtonsShape, engagementVars, card, calls
    <2> QED
      BY <1>c, <2>1 DEF ButtonsShape
  <1>8. CASE Elsewhere
    <2>1. sure' \in BOOLEAN /\ apart' \in BOOLEAN
      BY <1>8 DEF Elsewhere
    <2>2. pages' \subseteq Renderings
      <3>1. pages' = {[page EXCEPT !.current = @ /\ Stepping = {} /\ ~RowsGo] : page \in pages}
        BY <1>8 DEF Elsewhere
      <3>2. \A page \in Renderings, b \in BOOLEAN : [page EXCEPT !.current = b] \in Renderings
        BY DEF Renderings
      <3> QED
        BY <3>1, <3>2 DEF ButtonsShape
    <2>3. unfounded' \subseteq Ratings
      BY <1>b, <1>8 DEF Elsewhere, ButtonsShape, Own, Reviews
    <2> QED
      BY <1>a, <1>8, <2>1, <2>2, <2>3, CallsKept DEF Elsewhere, ButtonsShape, card
  <1>9. CASE OtherTabs \/ UNCHANGED buttonVars
    <2>1. UNCHANGED <<pages, calls, bookmarked, card, sure, apart, unfounded>>
      BY <1>9 DEF OtherTabs, buttonVars
    <2> QED
      BY <1>a, <2>1, CallsKept DEF ButtonsShape, card
  <1> QED
    BY <1>1, <1>2, <1>3, <1>4, <1>5, <1>6, <1>7, <1>8, <1>9 DEF ButtonsNext

--------------------------------------------------------------------------------
(* What the button shows. *)

\* A row read tells whether the account has a bookmark.
LEMMA FoundTells ==
    ASSUME RowsOf(Me), TableShape, NEW f \in FoundRow(Me)
    PROVE  (f = "on") <=> On
  BY FoundRows, PlateButtonsAssumption DEF RowsOf, TableShape, On

LEMMA SureRows ==
    ASSUME EngagementInv, Agreed
    PROVE  RowsOf(Me)
  BY PlateButtonsAssumption DEF EngagementInv, BookmarkRows, Agreed

\* Steps that neither answer the button nor touch the rows.
LEMMA ShownKept ==
    ASSUME ShownInv, On' <=> On, doubled \subseteq doubled', pages' \subseteq pages,
           Toggles(Me)' = Toggles(Me),
           bookmarkCall # 0 => requests'[bookmarkCall].at = requests[bookmarkCall].at,
           UNCHANGED <<bookmarkCall, bookmarked, sure, apart>>
    PROVE  ShownInv'
  <1>1. Agreed' => Agreed
    BY DEF Agreed
  <1> QED
    BY <1>1 DEF ShownInv, AnswerInv, PagesInv

LEMMA RenderingsShown ==
    ASSUME EngagementInv, ButtonsShape, ShownInv,
           ReadPlate \/ \E page \in pages : Mounted(page)
    PROVE  ShownInv'
  <1>1. /\ UNCHANGED <<members, requests, doubled, apart>>
        /\ Toggles(Me)' = Toggles(Me) /\ On' = On /\ Agreed' = Agreed
    BY DEF ReadPlate, Mounted, engagementVars, tables, history, Toggles, Beside, Ids, Running,
           On, Agreed
  <1>2. CASE ReadPlate
    <2>1. PICK page \in Renderings, kept \in SUBSET pages :
             ReadPage(page) /\ pages' = kept \cup {page}
      BY <1>2 DEF ReadPlate
    <2>2. page.current => /\ page.bookmarked \in {f = "on" : f \in FoundRow(Me)}
                          /\ Toggles(Me) = {}
      BY <2>1 DEF ReadPage
    <2>3. page.current /\ Agreed => (page.bookmarked <=> On)
      BY <2>2, FoundTells, SureRows DEF EngagementInv, Shape
    <2>4. PagesInv'
      BY <1>1, <2>1, <2>2, <2>3 DEF ShownInv, PagesInv
    <2>5. UNCHANGED <<bookmarkCall, bookmarked, sure>>
      BY <1>2 DEF ReadPlate, calls
    <2> QED
      BY <1>1, <2>4, <2>5 DEF ShownInv, AnswerInv
  <1>3. ASSUME NEW page \in pages, Mounted(page) PROVE ShownInv'
    <2>1. bookmarkCall' = 0 /\ bookmarked' = page.bookmarked /\ sure' = page.current /\ pages' = pages
      BY <1>3 DEF Mounted
    <2>2. page.current => Toggles(Me) = {} /\ (Agreed => (page.bookmarked <=> On))
      BY DEF ShownInv, PagesInv
    <2> QED
      BY <1>1, <2>1, <2>2 DEF ShownInv, AnswerInv, PagesInv
  <1> QED
    BY <1>2, <1>3

LEMMA AnswersShown ==
    ASSUME EngagementInv, ButtonsShape, ShownInv, BookmarkAnswered \/ BookmarkLost
    PROVE  ShownInv'
  <1> DEFINE call == bookmarkCall
  <1>1. /\ UNCHANGED <<members, requests, doubled, pages, apart>>
        /\ Toggles(Me)' = Toggles(Me) /\ On' = On /\ Agreed' = Agreed
        /\ call # 0 /\ bookmarkCall' = 0
    BY DEF BookmarkAnswered, BookmarkLost, engagementVars, tables, history, Toggles, Beside, Ids,
           Running, On, Agreed
  <1>2. call \in Ids /\ requests[call].kind = "bookmark"
    BY <1>1 DEF ButtonsShape, Ids, EngagementInv, Shape, RequestShape, MyToggle
  <1>3. PagesInv' /\ AnswerInv'
    BY <1>1 DEF ShownInv, PagesInv, AnswerInv
  <1>4. (sure \/ apart => Toggles(Me) \subseteq {call})
    BY <1>1 DEF ShownInv
  <1>5. requests[call].at \in {"sent", "done", "failed"} => (sure \/ apart => Toggles(Me) = {})
    <2>1. requests[call].at \in {"sent", "done", "failed"} => call \notin Toggles(Me)
      BY DEF Toggles, Beside, Running
    <2> QED
      BY <1>4, <2>1
  <1>6. CASE BookmarkAnswered
    <2>1. requests[call].at \in {"done", "failed"}
      BY <1>2, <1>6 DEF BookmarkAnswered, Finished, EngagementInv, Shape, RequestShape
    <2>2. CASE requests[call].at = "done"
      <3>1. bookmarked' = ~bookmarked /\ (sure' => sure \/ apart)
        BY <1>6, <2>2 DEF BookmarkAnswered
      <3>2. sure' /\ Agreed => (bookmarked <=> ~On)
        BY <1>1, <2>2, <3>1 DEF ShownInv, AnswerInv
      <3> QED
        BY <1>1, <1>3, <1>5, <2>2, <3>1, <3>2 DEF ShownInv, ButtonsShape
    <2>3. CASE requests[call].at = "failed"
      <3>1. bookmarked' = bookmarked /\ (sure' => sure)
        BY <1>6, <2>3 DEF BookmarkAnswered
      <3>2. sure' /\ Agreed => (bookmarked <=> On)
        BY <1>1, <2>3, <3>1 DEF ShownInv, AnswerInv
      <3> QED
        BY <1>1, <1>3, <1>5, <2>3, <3>1, <3>2 DEF ShownInv
    <2> QED
      BY <2>1, <2>2, <2>3
  <1>7. CASE BookmarkLost
    <2>1. /\ bookmarked' = bookmarked
          /\ sure' => sure /\ requests[call].at \in {"sent", "failed"}
      BY <1>7 DEF BookmarkLost
    <2>2. sure' /\ Agreed => (bookmarked <=> On)
      BY <1>1, <2>1 DEF ShownInv, AnswerInv
    <2> QED
      BY <1>1, <1>3, <1>5, <2>1, <2>2 DEF ShownInv
  <1> QED
    BY <1>6, <1>7

LEMMA RequestsShown ==
    ASSUME EngagementInv, ButtonsShape, ShownInv,
           handleBookmarkToggle \/ submitRating \/ OtherTabs
    PROVE  ShownInv'
  <1>a. Shape /\ requests \in Seq(Requests)
    BY DEF EngagementInv, Shape, RequestShape
  <1>b. UNCHANGED <<members, doubled>> /\ On' = On /\ Agreed' = Agreed
    BY DEF handleBookmarkToggle, submitRating, OtherTabs, Client, tables, history, On, Agreed
  <1>1. PICK kind, account, want : Arrives(kind, account, want)
    BY <1>a, ToggleArrives, RatingArrives, ClientStep DEF OtherTabs
  <1>2. Toggles(Me)' = Toggles(Me) /\ Toggles(Me) \subseteq Ids
    BY <1>1, BesideArrives DEF Toggles, Beside
  <1>3. CASE handleBookmarkToggle
    <2>1. /\ bookmarkCall = 0 /\ bookmarkCall' = Len(requests') /\ bookmarkCall' # 0
          /\ requests'[bookmarkCall'].at = "sent"
          /\ bookmarked' = bookmarked /\ sure' = sure /\ pages' = pages
          /\ apart' = (Toggles(Me) = {})
      BY <1>a, <1>3, ToggleArrives DEF handleBookmarkToggle, Arrives
    <2>2. sure \/ apart' => Toggles(Me) = {}
      <3>1. 0 \notin Ids
        BY <1>a DEF Ids
      <3> QED
        BY <1>2, <2>1, <3>1 DEF ShownInv
    <2>3. sure /\ Agreed => (bookmarked <=> On)
      BY <2>1 DEF ShownInv
    <2>4. AnswerInv'
      BY <1>b, <2>1, <2>3 DEF AnswerInv
    <2>5. PagesInv'
      BY <1>b, <1>2, <2>1 DEF ShownInv, PagesInv
    <2> QED
      BY <1>2, <2>1, <2>2, <2>4, <2>5 DEF ShownInv
  <1>4. CASE submitRating \/ OtherTabs
    <2>1. UNCHANGED <<bookmarkCall, bookmarked, sure, apart, pages>>
      BY <1>4 DEF submitRating, OtherTabs, calls
    <2>2. bookmarkCall # 0 => requests'[bookmarkCall] = requests[bookmarkCall]
      BY <1>a, <1>1 DEF ButtonsShape, Arrives, Ids
    <2> QED
      BY <1>b, <1>2, <2>1, <2>2, ShownKept
  <1> QED
    BY <1>3, <1>4

\* The button's own request goes on: what it reads and writes is what the table says.
LEMMA OwnRequestShown ==
    ASSUME EngagementInv, ButtonsShape, ShownInv, Server(bookmarkCall), bookmarkCall \in Ids,
           bookmarkCall # 0, Agreed', doubled \subseteq doubled',
           bookmarkCall' = bookmarkCall, bookmarked' = bookmarked,
           sure' => sure /\ ~HalfDone, apart' => apart
    PROVE  /\ sure' /\ requests'[bookmarkCall].at \in {"sent", "read", "failed"} =>
                 (bookmarked <=> On')
           /\ (sure' \/ apart') /\ requests'[bookmarkCall].at \in {"written", "done"} =>
                 (bookmarked <=> ~On')
  <1> DEFINE i == bookmarkCall
             q == requests[i]
  <1>a. Shape /\ Agreed /\ RowsOf(Me) /\ TableShape
    BY SureRows DEF EngagementInv, Agreed, Shape
  <1>b. /\ q.kind = "bookmark" /\ q.account = Me /\ q.want \in {0, 1}
        /\ bookmarked <=> q.want = 0
        /\ q.found \in {"none", "on", "off"} /\ Me \in Accounts
    BY <1>a, RequestType, PlateButtonsAssumption
       DEF ButtonsShape, MyToggle, Shape, RequestShape
  <1>c. /\ sure /\ q.at \in {"sent", "read", "failed"} => (bookmarked <=> On)
        /\ (sure \/ apart) /\ q.at \in {"written", "done"} => (bookmarked <=> ~On)
    BY <1>a DEF ShownInv, AnswerInv
  <1>1. CASE ReadMember(i)
    <2>1. q.at = "sent" /\ On' = On
      BY <1>1 DEF ReadMember, tables, On
    <2>2. PICK f \in FoundRow(Me) :
             IF Unchanged(q, f) THEN Ends(i, "done") ELSE Reaches(i, "read", f, q.loaded, q.listed)
      BY <1>a, <1>b, <1>1, ReadMemberStep
    <2>3. f \in {"none", "on", "off"}
      BY DEF FoundRow
    <2>4. Unchanged(q, f) => (bookmarked <=> ~On)
      BY <1>a, <1>b, <2>3, FoundTells, ToDo
    <2> QED
      BY <1>c, <2>1, <2>2, <2>4 DEF Ends, Reaches
  <1>2. CASE WriteMember(i)
    <2>1. q.at = "read" /\ i \in Toggles(Me)
      BY <1>b, <1>2 DEF WriteMember, Toggles, Beside, Running
    <2>2. q.found \in FoundRow(Me) /\ ~Unchanged(q, q.found)
      BY <1>a, <2>1 DEF RowsOf
    <2>3. /\ members[Me].on \in Nat /\ members[Me].off \in Nat
          /\ members[Me].on = 0 \/ members[Me].off = 0
      BY <1>a, <1>b DEF TableShape, RowsOf
    <2>4. CASE q.found = "none" /\ Me \in deleted
      <3>1. On' = On /\ requests'[i].at = "failed"
        BY <1>a, <1>b, <1>2, <2>4, WriteMemberStep, WriteMemberRows DEF On, Ends
      <3> QED
        BY <1>c, <2>1, <3>1
    <2>5. CASE ~(q.found = "none" /\ Me \in deleted)
      <3>1. requests'[i].at = "written"
        BY <1>a, <1>b, <1>2, <2>5, WriteMemberStep DEF Ends
      <3>2. CASE q.want = 1
        <4>1. q.found # "on"
          BY <1>b, <2>2, <3>2, ToDo
        <4>2. members'[Me].on > 0
          BY <1>a, <1>b, <1>2, <2>2, <2>3, <2>5, <3>2, <4>1, FoundRows, WriteMemberRows
        <4> QED
          BY <1>b, <3>1, <3>2, <4>2 DEF On
      <3>3. CASE q.want = 0
        <4>1. q.found = "on"
          BY <1>b, <2>2, <3>3, ToDo
        <4>2. members'[Me].on = 0
          BY <1>a, <1>b, <1>2, <3>3, <4>1, WriteMemberRows
        <4> QED
          BY <1>b, <3>1, <3>3, <4>2 DEF On
      <3> QED
        BY <1>b, <3>2, <3>3
    <2> QED
      BY <2>4, <2>5
  <1>3. CASE CountBookmark(i)
    <2>1. q.at = "written" /\ On' = On /\ requests'[i].at = "done"
      BY <1>a, <1>3, CountBookmarkStep DEF CountBookmark, On, Ends
    <2> QED
      BY <1>c, <2>1
  <1>4. CASE Interrupt(i)
    <2>1. On' = On /\ requests'[i].at = "failed"
      BY <1>a, <1>b, <1>4, InterruptStep DEF Interrupt, tables, On, Ends
    <2>2. q.at \in {"sent", "read", "written"}
      BY <1>a, <1>b, <1>4 DEF Interrupt, Running, Shape, RequestShape
    <2>3. q.at = "written" => ~sure'
      BY <2>1 DEF HalfDone
    <2> QED
      BY <1>c, <2>1, <2>2, <2>3
  <1> QED
    BY <1>b, <1>1, <1>2, <1>3, <1>4
       DEF Server, LoadPlate, CheckReview, CreateReview, ListReviews, SavePlate

\* Renderings that are no longer of now say nothing.
LEMMA OutdatedPages ==
    ASSUME ButtonsShape, Elsewhere, Stepping # {} \/ RowsGo
    PROVE  PagesInv'
  <1>1. pages' = {[page EXCEPT !.current = @ /\ Stepping = {} /\ ~RowsGo] : page \in pages}
    BY DEF Elsewhere
  <1>2. \A page \in Renderings :
           ~[page EXCEPT !.current = @ /\ Stepping = {} /\ ~RowsGo].current
    BY DEF Renderings
  <1> QED
    BY <1>1, <1>2 DEF PagesInv, ButtonsShape

LEMMA CurrentPages ==
    ASSUME ButtonsShape, Elsewhere, Stepping = {}, ~RowsGo
    PROVE  pages' = pages
  <1>1. pages' = {[page EXCEPT !.current = @ /\ Stepping = {} /\ ~RowsGo] : page \in pages}
    BY DEF Elsewhere
  <1>2. \A page \in Renderings :
           [page EXCEPT !.current = @ /\ Stepping = {} /\ ~RowsGo] = page
    BY DEF Renderings
  <1> QED
    BY <1>1, <1>2 DEF ButtonsShape

LEMMA ElsewhereShown ==
    ASSUME EngagementInv, ButtonsShape, ShownInv, Elsewhere
    PROVE  ShownInv'
  <1>a. Shape /\ Me \in Accounts /\ members \in [Accounts -> [on : Nat, off : Nat]]
    BY PlateButtonsAssumption DEF EngagementInv, Shape, TableShape
  <1>b. /\ bookmarkCall' = bookmarkCall /\ bookmarked' = bookmarked
        /\ sure' = (sure /\ Stepping \subseteq {bookmarkCall} /\ ~RowsGo /\ ~HalfDone)
        /\ apart' = (apart /\ Stepping \subseteq {bookmarkCall} /\ ~RowsGo)
    BY DEF Elsewhere, calls
  <1>c. bookmarkCall # 0 => bookmarkCall \in Ids /\ MyToggle(bookmarkCall)
    BY <1>a DEF ButtonsShape, Ids, Shape, RequestShape
  <1>d. ASSUME Stepping = {}, ~RowsGo, members'[Me] = members[Me], ~HalfDone,
               doubled \subseteq doubled', Toggles(Me)' = Toggles(Me),
               bookmarkCall # 0 => requests'[bookmarkCall].at = requests[bookmarkCall].at
        PROVE  ShownInv'
    <2>1. sure' = sure /\ apart' = apart
      BY <1>b, <1>d DEF ButtonsShape
    <2>2. On' = On
      BY <1>d DEF On
    <2>3. pages' = pages
      BY <1>d, CurrentPages
    <2> QED
      BY <1>b, <1>d, <2>1, <2>2, <2>3, ShownKept
  <1>1. CASE Others
    <2>1. /\ UNCHANGED requests /\ doubled \subseteq doubled'
          /\ Toggles(Me)' = Toggles(Me)
      BY <1>a, <1>1, OthersStep DEF Toggles, Beside, Ids, Running
    <2>2. Stepping = {} /\ ~HalfDone
      BY <2>1 DEF Stepping, HalfDone
    <2>3. CASE RowsGo
      <3>1. ~sure' /\ ~apart' /\ PagesInv'
        BY <1>b, <2>3, OutdatedPages
      <3> QED
        BY <3>1 DEF ShownInv, AnswerInv
    <2>4. CASE ~RowsGo
      BY <1>d, <2>1, <2>2, <2>4 DEF RowsGo
    <2> QED
      BY <2>3, <2>4
  <1>2. ASSUME NEW i \in Ids, Server(i) PROVE ShownInv'
    <2>1. /\ Moves(i) /\ requests'[i].at # requests[i].at
          /\ doubled \subseteq doubled' /\ ~RowsGo
      BY <1>a, <1>2, ServerMoves, ServerDoubles DEF RowsGo
    <2>2. Stepping = IF MyToggle(i) THEN {i} ELSE {}
      BY <2>1 DEF Stepping, Moves
    <2>3. CASE ~MyToggle(i)
      <3>1. members'[Me] = members[Me]
        <4>1. CASE WriteMember(i)
          BY <1>a, <2>3, <4>1, WriteMemberRows DEF MyToggle, WriteMember
        <4>2. CASE ~WriteMember(i)
          BY <1>2, <4>2 DEF Server, ReadMember, CountBookmark, LoadPlate, CheckReview,
                            CreateReview, ListReviews, SavePlate, Interrupt, tables
        <4> QED
          BY <4>1, <4>2
      <3>2. Toggles(Me)' = Toggles(Me)
        BY <2>1, <2>3, OthersToggles DEF MyToggle
      <3>3. bookmarkCall # 0 => requests'[bookmarkCall].at = requests[bookmarkCall].at
        BY <1>c, <2>1, <2>3 DEF Moves
      <3>4. ~HalfDone
        BY <3>3 DEF HalfDone
      <3> QED
        BY <1>d, <2>1, <2>2, <2>3, <3>1, <3>2, <3>3, <3>4
    <2>4. CASE MyToggle(i) /\ i # bookmarkCall
      <3>1. ~sure' /\ ~apart' /\ PagesInv'
        BY <1>b, <2>2, <2>4, OutdatedPages
      <3> QED
        BY <3>1 DEF ShownInv, AnswerInv
    <2>5. CASE MyToggle(i) /\ i = bookmarkCall
      <3>1. bookmarkCall # 0
        BY <1>a, <2>5 DEF Ids, Shape, RequestShape
      <3>2. PagesInv'
        BY <2>2, <2>5, OutdatedPages
      <3>3. (sure' => sure /\ ~HalfDone) /\ (apart' => apart)
        BY <1>b
      <3>4. sure' \/ apart' => Toggles(Me)' \subseteq {bookmarkCall}
        BY <2>1, <2>5, <3>1, <3>3, BesideMoves DEF ShownInv
      <3>5. AnswerInv'
        BY <1>b, <1>2, <2>1, <2>5, <3>1, <3>3, OwnRequestShown DEF AnswerInv
      <3> QED
        BY <1>b, <3>1, <3>2, <3>4, <3>5 DEF ShownInv
    <2> QED
      BY <2>3, <2>4, <2>5
  <1> QED
    BY <1>1, <1>2 DEF Elsewhere

LEMMA ShownStep ==
    ASSUME EngagementInv, ButtonsShape, ShownInv, [ButtonsNext]_buttonVars
    PROVE  ShownInv'
  <1>1. CASE \/ ChooseStars \/ RatingAnswered \/ RatingLost \/ ChangeRating
             \/ UNCHANGED buttonVars \/ \E page \in pages : Refreshed(page)
    <2>1. /\ UNCHANGED <<members, requests, doubled, bookmarkCall, bookmarked, sure, apart>>
          /\ pages' \subseteq pages
      BY <1>1 DEF ChooseStars, RatingAnswered, RatingLost, ChangeRating, buttonVars, Refreshed,
                  engagementVars, tables, history, calls
    <2>2. Toggles(Me)' = Toggles(Me) /\ (On' <=> On)
      BY <2>1 DEF Toggles, Beside, Ids, Running, On
    <2> QED
      BY <2>1, <2>2, ShownKept
  <1> QED
    BY <1>1, RenderingsShown, AnswersShown, RequestsShown, ElsewhereShown DEF ButtonsNext

--------------------------------------------------------------------------------
(* What the card shows. *)

\* Steps that give the card nothing new.
LEMMA RatingKept ==
    ASSUME RatingInv, Founded \subseteq Founded',
           userRating' \in {userRating, 0}, ratingCall' \in {ratingCall, 0},
           ratingCall # 0 =>
              /\ requests'[ratingCall].want = requests[ratingCall].want
              /\ requests'[ratingCall].at \in {"written", "listed", "done"} =>
                    \/ requests[ratingCall].at \in {"written", "listed", "done"}
                    \/ requests[ratingCall].want \in Founded',
           \A page \in pages' : \E old \in pages : page.userRating = old.userRating
    PROVE  RatingInv'
  <1>1. RatingShown'
    BY DEF RatingInv, RatingShown, Founded
  <1>2. \A page \in pages' : page.userRating \in Founded' \cup {0}
    BY DEF RatingInv
  <1> QED
    BY <1>1, <1>2 DEF RatingInv

LEMMA ElsewhereRating ==
    ASSUME EngagementInv, ButtonsShape, RatingInv, Elsewhere
    PROVE  RatingInv'
  <1>a. Shape /\ Asked
    <2>1. [EngagementNext]_engagementVars
      BY DEF Elsewhere, EngagementNext
    <2> QED
      BY <2>1, EngagementAsked DEF EngagementInv
  <1>b. /\ ratingCall' = ratingCall /\ userRating' = userRating
        /\ ratingCall # 0 => ratingCall \in Ids /\ requests[ratingCall].kind = "review"
                             /\ requests[ratingCall].account = Me
    BY <1>a DEF Elsewhere, calls, card, ButtonsShape, Ids, Asked
  <1>1. Founded \subseteq Founded'
    <2>1. unfounded' = unfounded \cup {v.rating : v \in Own(Me) \ reviews'}
      BY DEF Elsewhere
    <2>2. \A v \in Own(Me) : v \in reviews' => v \in Own(Me)'
      BY DEF Own
    <2> QED
      BY <2>1, <2>2 DEF Founded
  <1>2. \A page \in pages' : \E old \in pages : page.userRating = old.userRating
    <2>1. pages' = {[page EXCEPT !.current = @ /\ Stepping = {} /\ ~RowsGo] : page \in pages}
      BY DEF Elsewhere
    <2>2. \A page \in Renderings :
             [page EXCEPT !.current = @ /\ Stepping = {} /\ ~RowsGo].userRating = page.userRating
      BY DEF Renderings
    <2>3. ASSUME NEW page \in pages' PROVE \E old \in pages : page.userRating = old.userRating
      <3>1. PICK old \in pages : page = [old EXCEPT !.current = @ /\ Stepping = {} /\ ~RowsGo]
        BY <2>1, <2>3
      <3>2. page.userRating = old.userRating
        BY <2>2, <3>1 DEF ButtonsShape
      <3> QED
        BY <3>2
    <2> QED
      BY <2>3
  <1>3. ASSUME ratingCall # 0
        PROVE  /\ requests'[ratingCall].want = requests[ratingCall].want
               /\ requests'[ratingCall].at \in {"written", "listed", "done"} =>
                     \/ requests[ratingCall].at \in {"written", "listed", "done"}
                     \/ requests[ratingCall].want \in Founded'
    <2> DEFINE i == ratingCall
    <2>1. requests'[i].want = requests[i].want
      BY <1>a, <1>b, <1>3 DEF Asked
    <2>2. CASE Others
      BY <1>a, <2>1, <2>2, OthersStep
    <2>3. ASSUME NEW j \in Ids, Server(j), j # i
          PROVE  requests'[i].at = requests[i].at
      BY <1>a, <1>b, <1>3, <2>3, ServerMoves DEF Moves
    <2>4. CASE Server(i)
      <3>1. CASE LoadPlate(i) \/ CheckReview(i)
        BY <1>a, <1>b, <1>3, <2>1, <3>1, LoadPlateStep, CheckReviewStep DEF Reaches, Ends
      <3>2. CASE CreateReview(i)
        <4> DEFINE v == [by |-> i, account |-> requests[i].account, rating |-> requests[i].want]
        <4>1. \/ requests'[i].at = "failed"
              \/ requests'[i].at = "written" /\ v \in reviews'
          BY <1>a, <1>b, <1>3, <3>2, CreateReviewStep DEF Reaches, Ends
        <4>2. v.account = Me /\ v.rating = requests[i].want
          BY <1>b, <1>3
        <4>3. v \in reviews' => requests[i].want \in Founded'
          BY <4>2 DEF Founded, Own
        <4> QED
          BY <2>1, <4>1, <4>3
      <3>3. CASE ListReviews(i) \/ SavePlate(i)
        BY <2>1, <3>3 DEF ListReviews, SavePlate
      <3>4. CASE Interrupt(i)
        BY <1>a, <1>b, <1>3, <2>1, <3>4, InterruptStep DEF Ends
      <3> QED
        BY <1>b, <1>3, <2>4, <3>1, <3>2, <3>3, <3>4
           DEF Server, ReadMember, WriteMember, CountBookmark
    <2> QED
      BY <2>1, <2>2, <2>3, <2>4 DEF Elsewhere
  <1> QED
    BY <1>1, <1>2, <1>3, <1>b, RatingKept

LEMMA RatingStep ==
    ASSUME EngagementInv, ButtonsShape, RatingInv, [ButtonsNext]_buttonVars
    PROVE  RatingInv'
  <1>a. Shape /\ requests \in Seq(Requests)
    BY DEF EngagementInv, Shape, RequestShape
  <1>b. ASSUME UNCHANGED engagementVars
        PROVE  UNCHANGED <<requests, reviews>> /\ Own(Me)' = Own(Me)
    BY <1>b DEF engagementVars, tables, Own
  <1>1. CASE \/ BookmarkAnswered \/ BookmarkLost \/ ChooseStars \/ RatingLost \/ ChangeRating
             \/ UNCHANGED buttonVars
    <2>1. /\ UNCHANGED <<engagementVars, pages, unfounded>>
          /\ userRating' \in {userRating, 0} /\ ratingCall' \in {ratingCall, 0}
      BY <1>1 DEF BookmarkAnswered, BookmarkLost, ChooseStars, RatingLost, ChangeRating,
                  buttonVars, card, calls
    <2>2. Founded' = Founded /\ UNCHANGED requests
      BY <1>b, <2>1 DEF Founded
    <2> QED
      BY <2>1, <2>2, RatingKept
  <1>2. CASE ReadPlate
    <2>1. UNCHANGED <<engagementVars, unfounded, userRating, ratingCall>>
      BY <1>2 DEF ReadPlate, calls, card
    <2>2. Founded' = Founded /\ UNCHANGED requests
      BY <1>b, <2>1 DEF Founded
    <2>3. PICK page \in Renderings, kept \in SUBSET pages :
             ReadPage(page) /\ pages' = kept \cup {page}
      BY <1>2 DEF ReadPlate
    <2>4. page.userRating \in Founded \cup {0}
      BY <2>3 DEF ReadPage, OwnRating, Founded
    <2> QED
      BY <2>1, <2>2, <2>3, <2>4 DEF RatingInv, RatingShown, Founded
  <1>3. ASSUME NEW page \in pages, Mounted(page) \/ Refreshed(page) PROVE RatingInv'
    <2>1. /\ UNCHANGED <<engagementVars, unfounded, pages>>
          /\ userRating' \in {userRating, page.userRating} /\ ratingCall' \in {ratingCall, 0}
      BY <1>3 DEF Mounted, Refreshed, calls
    <2>2. Founded' = Founded /\ UNCHANGED requests
      BY <1>b, <2>1 DEF Founded
    <2>3. page.userRating \in Founded \cup {0}
      BY DEF RatingInv
    <2>4. userRating' # 0 => userRating' \in Founded
      BY <2>1, <2>3 DEF RatingInv, RatingShown, Founded
    <2> QED
      BY <2>1, <2>2, <2>4 DEF RatingInv, RatingShown, Founded
  <1>4. CASE RatingAnswered
    <2> DEFINE r == requests[ratingCall]
    <2>1. /\ UNCHANGED engagementVars /\ ratingCall # 0 /\ ratingCall' = 0 /\ pages' \subseteq pages
          /\ userRating' = IF r.at \in {"done", "conflict"} THEN r.want ELSE userRating
          /\ unfounded' = IF r.at = "conflict" THEN unfounded \cup {r.want} ELSE unfounded
      BY <1>4 DEF RatingAnswered
    <2>2. Founded' = Founded \cup (IF r.at = "conflict" THEN {r.want} ELSE {})
      BY <1>b, <2>1 DEF Founded
    <2>3. r.at = "done" => r.want \in Founded
      BY <2>1 DEF RatingInv
    <2>4. userRating' # 0 => userRating' \in Founded'
      BY <2>1, <2>2, <2>3 DEF RatingInv, RatingShown, Founded
    <2> QED
      BY <2>1, <2>2, <2>4 DEF RatingInv, RatingShown, Founded
  <1>5. CASE handleBookmarkToggle \/ submitRating \/ OtherTabs
    <2>1. /\ UNCHANGED <<reviews, unfounded, pages, userRating>>
      BY <1>5 DEF handleBookmarkToggle, submitRating, OtherTabs, Client, tables, card
    <2>2. Founded' = Founded
      BY <2>1 DEF Founded, Own
    <2>3. PICK kind, account, want : Arrives(kind, account, want)
      BY <1>a, <1>5, ToggleArrives, RatingArrives, ClientStep DEF OtherTabs
    <2>4. CASE submitRating
      <3>1. ratingCall' # 0 => requests'[ratingCall'].at = "sent"
        BY <1>a, <2>4, RatingArrives DEF Arrives
      <3> QED
        BY <2>1, <2>2, <3>1 DEF RatingInv, RatingShown, Founded
    <2>5. CASE handleBookmarkToggle \/ OtherTabs
      <3>1. ratingCall' = ratingCall
        BY <2>5 DEF handleBookmarkToggle, OtherTabs, calls
      <3>2. ratingCall # 0 => requests'[ratingCall] = requests[ratingCall]
        BY <1>a, <2>3 DEF ButtonsShape, Arrives, Ids
      <3> QED
        BY <2>1, <2>2, <3>1, <3>2, RatingKept
    <2> QED
      BY <1>5, <2>4, <2>5
  <1>6. CASE Elsewhere
    BY <1>6, ElsewhereRating
  <1> QED
    BY <1>1, <1>2, <1>3, <1>4, <1>5, <1>6 DEF ButtonsNext

--------------------------------------------------------------------------------
(* The invariant of the tab. *)

ButtonsInv == EngagementInv /\ ButtonsShape /\ ShownInv /\ RatingInv

LEMMA ButtonsInitInv ==
    ASSUME ButtonsInit
    PROVE  ButtonsInv
  <1>1. EngagementInv
    BY EngagementInitInv DEF ButtonsInit
  <1>2. ButtonsShape
    <2>1. requests = <<>> /\ 0 \in 0..Len(requests)
      BY DEF ButtonsInit, EngagementInit
    <2> QED
      BY <2>1 DEF ButtonsInit, ButtonsShape
  <1>3. Toggles(Me) = {} /\ members[Me].on = 0
    BY PlateButtonsAssumption DEF ButtonsInit, EngagementInit, Toggles, Beside, Ids
  <1>4. ShownInv
    BY <1>3 DEF ButtonsInit, ShownInv, AnswerInv, PagesInv, On
  <1>5. RatingInv
    BY DEF ButtonsInit, RatingInv, RatingShown
  <1> QED
    BY <1>1, <1>2, <1>4, <1>5 DEF ButtonsInv

THEOREM ButtonsInvariant == ButtonsSpec => []ButtonsInv
  <1>1. ButtonsInit => ButtonsInv
    BY ButtonsInitInv
  <1>2. ButtonsInv /\ [ButtonsNext]_buttonVars => ButtonsInv'
    <2>1. SUFFICES ASSUME ButtonsInv, [ButtonsNext]_buttonVars PROVE ButtonsInv'
      OBVIOUS
    <2>2. EngagementInv /\ Shape /\ ButtonsShape /\ ShownInv /\ RatingInv
      BY <2>1 DEF ButtonsInv, EngagementInv
    <2>3. EngagementInv'
      BY <2>1, <2>2, ButtonsStepServer, EngagementStepInv
    <2> QED
      BY <2>1, <2>2, <2>3, ButtonsShapeStep, ShownStep, RatingStep DEF ButtonsInv
  <1> QED
    BY <1>1, <1>2, PTL DEF ButtonsSpec

\* The tab's buttons keep their types, and wait only for requests there are.
THEOREM ButtonsTypes == ButtonsSpec => []ButtonsTypeOK
  <1>1. ButtonsInv => ButtonsTypeOK
    BY EngagementTyped DEF ButtonsInv, ButtonsTypeOK, ButtonsShape
  <1> QED
    BY <1>1, ButtonsInvariant, PTL

\* The tab is a client of the server: whatever it does, lost answers and old renderings
\* included, what holds of the server's specification goes on holding.
THEOREM ButtonsAreClient == ButtonsSpec => EngagementSpec
  <1>1. ButtonsInit => EngagementInit
    BY DEF ButtonsInit
  <1>2. ButtonsInv /\ [ButtonsNext]_buttonVars => [EngagementNext]_engagementVars
    BY ButtonsStepServer DEF ButtonsInv
  <1> QED
    BY <1>1, <1>2, ButtonsInvariant, PTL DEF ButtonsSpec, EngagementSpec

\* The heart shows what the table says from every page read while no toggle was under way
\* and from every answered toggle that no other one crossed, until something from
\* elsewhere or without an answer changes the table.
THEOREM ButtonCorrect == ButtonsSpec => []BookmarkShown
  <1>1. ButtonsInv => BookmarkShown
    <2>1. SUFFICES ASSUME ButtonsInv, bookmarkCall = 0, sure, Agreed
                   PROVE  bookmarked = (members[Me].on > 0)
      BY DEF BookmarkShown, Agreed
    <2>2. bookmarked \in BOOLEAN /\ (bookmarked <=> On)
      BY <2>1 DEF ButtonsInv, ButtonsShape, ShownInv
    <2> QED
      BY <2>2 DEF On
  <1> QED
    BY <1>1, ButtonsInvariant, PTL

\* The card shows a rating that the account gave, or one that was refused or deleted.
THEOREM CardCorrect == ButtonsSpec => []RatingShown
  <1>1. ButtonsInv => RatingShown
    BY DEF ButtonsInv, RatingInv
  <1> QED
    BY <1>1, ButtonsInvariant, PTL

--------------------------------------------------------------------------------
(* The page. *)

USE PlatePageAssumption

--------------------------------------------------------------------------------
(* Natural numbers, without induction schemes: a set of them has a least one. *)

LEMMA LeastNatural ==
    ASSUME NEW T, T \subseteq Nat, T # {}
    PROVE  \E n \in T : \A m \in T : n <= m
  <1>1. IsWellFoundedOn(OpToRel(<, Nat), Nat)
    BY NatLessThanWellFounded
  <1>2. PICK n \in T : \A m \in T : ~(<<m, n>> \in OpToRel(<, Nat))
    BY <1>1, WFMin
  <1>3. \A m \in T : ~(m < n)
    BY <1>2 DEF OpToRel
  <1> QED
    BY <1>3

--------------------------------------------------------------------------------
(* Tabs. *)

\* The first tab there is has something to show.
LEMMA FirstHas ==
    ASSUME NEW p, Present(p) # {}
    PROVE  First(p) \in Present(p)
  <1>1. PICK tab \in Tabs : Has(p, tab)
    BY DEF Present
  <1>2. Has(p, "readme") \/ Has(p, "license") \/ Has(p, "schema") \/ Has(p, "files")
    BY <1>1 DEF Tabs
  <1>3. First(p) \in Tabs /\ Has(p, First(p))
    BY <1>2 DEF First, Tabs
  <1> QED
    BY <1>3 DEF Present

LEMMA ContentTabHas ==
    ASSUME NEW p, NEW h, NEW current
    PROVE  /\ Present(p) # {} => ContentTab(p, h, current) \in Present(p)
           /\ current \in Tabs => ContentTab(p, h, current) \in Tabs
  BY FirstHas DEF ContentTab, Present

\* Both components choose the same tab from the same hash.
LEMMA SameTab ==
    ASSUME NEW p, NEW h, NEW current, p.repository, Present(p) # {}
    PROVE  HeaderTab(p, h) = ContentTab(p, h, current)
  BY DEF HeaderTab, ContentTab

\* Renderings with the same flags have the same tabs.
LEMMA SameFlags ==
    ASSUME NEW p, NEW q, Flags(p) = Flags(q)
    PROVE  /\ \A tab \in Tabs : Has(p, tab) = Has(q, tab)
           /\ Present(p) = Present(q)
           /\ First(p) = First(q)
  <1>1. ASSUME NEW tab \in Tabs PROVE Has(p, tab) = Has(q, tab)
    <2>1. Flags(p)[tab] = Has(p, tab) /\ Flags(q)[tab] = Has(q, tab)
      BY DEF Flags
    <2> QED
      BY <2>1
  <1>2. Present(p) = Present(q)
    BY <1>1 DEF Present
  <1>3. First(p) = First(q)
    BY <1>1 DEF First, Tabs
  <1> QED
    BY <1>1, <1>2, <1>3

LEMMA RenderedRepository ==
    ASSUME NEW c, NEW failed, Rendered(c, failed) # None
    PROVE  Rendered(c, failed).repository = c.repository
  BY DEF Rendered

\* The content has something to show; the row of tabs shows what the hash says, which
\* is what the content shows, until a refresh puts back an older hash.
TabsInv ==
    /\ content \in Tabs
    /\ Found => props.repository = plate.repository
    /\ Found /\ Present(props) # {} => content \in Present(props)
    /\ Found /\ ~restored => header = HeaderTab(props, hash)
    /\ Found /\ props.repository /\ Present(props) # {} /\ ~restored => header = content

LEMMA MountTabs ==
    ASSUME NEW c, NEW failed, NEW h, Mount(Rendered(c, failed), h), plate' = c
    PROVE  TabsInv'
  <1> DEFINE p == Rendered(c, failed)
  <1>1. props' = p /\ hash' = h
    BY DEF Mount
  <1>2. CASE p = None
    BY <1>2 DEF Mount, TabsInv, Found, Tabs
  <1>3. CASE p # None
    <2>1. /\ header' = HeaderTab(p, h)
          /\ content' = ContentTab(p, h, "readme")
      BY <1>3 DEF Mount
    <2>2. p.repository = c.repository
      BY <1>3, RenderedRepository
    <2>3. "readme" \in Tabs
      BY DEF Tabs
    <2> HIDE DEF p
    <2> QED
      BY <1>1, <2>1, <2>2, <2>3, ContentTabHas, SameTab DEF TabsInv
  <1> QED
    BY <1>2, <1>3

LEMMA SyncTabs ==
    ASSUME TabsInv, Found, NEW h, Sync(h), UNCHANGED <<plate, props>>
    PROVE  TabsInv'
  BY ContentTabHas, SameTab DEF Sync, TabsInv, Found

\* A new rendering under mounted components: each recomputes its tab, or not.
LEMMA RefreshTabs ==
    ASSUME TabsInv, Refresh
    PROVE  TabsInv'
  <1>1. PICK failed \in SUBSET (Fetches \ {"plate"}), h \in {hash, known} :
          LET p == Rendered(plate, failed)
              flagsChanged == Flags(p) # Flags(props)
              contentChanged == \/ flagsChanged
                                \/ p.readme # props.readme \/ p.license # props.license
                                \/ p.tree # {} \/ props.tree # {}
          IN /\ props' = p
             /\ hash' = h /\ known' = h
             /\ header' = IF flagsChanged THEN HeaderTab(p, h) ELSE header
             /\ content' = IF contentChanged THEN ContentTab(p, h, content) ELSE content
             /\ restored' = (~flagsChanged /\ (restored \/ h # hash))
    BY DEF Refresh
  <1> DEFINE p == Rendered(plate, failed)
  <1>2. /\ props' = p /\ hash' = h /\ plate' = plate /\ Found
        /\ content' = ContentTab(p, h, content) \/ content' = content
    BY <1>1 DEF Refresh
  <1>3. p # None => p.repository = plate.repository
    BY RenderedRepository
  <1>4. content \in Tabs /\ props.repository = plate.repository
    BY <1>2 DEF TabsInv
  <1>5. CASE Flags(p) # Flags(props)
    <2>1. header' = HeaderTab(p, h) /\ content' = ContentTab(p, h, content)
      BY <1>1, <1>5
    <2> HIDE DEF p
    <2> QED
      BY <1>2, <1>3, <1>4, <2>1, ContentTabHas, SameTab DEF TabsInv, Found
  <1>6. CASE Flags(p) = Flags(props)
    <2>1. header' = header /\ (~restored' => ~restored /\ h = hash)
      BY <1>1, <1>6
    <2> HIDE DEF p
    <2>2. Present(p) = Present(props) /\ First(p) = First(props)
      BY <1>6, SameFlags
    <2>3. content' \in Tabs
      BY <1>2, <1>4, ContentTabHas
    <2>4. Present(p) # {} => content' \in Present(p)
      BY <1>2, <2>2, ContentTabHas DEF TabsInv
    <2>5. p # None /\ ~restored' => header' = HeaderTab(p, h)
      BY <1>2, <1>3, <1>4, <2>1, <2>2 DEF TabsInv, HeaderTab
    <2>6. p # None /\ p.repository /\ Present(p) # {} /\ ~restored' => header' = content'
      <3> SUFFICES ASSUME p # None, p.repository, Present(p) # {}, ~restored'
                   PROVE  header' = content'
        OBVIOUS
      <3>1. CASE content' = content
        BY <1>2, <1>3, <1>4, <2>1, <2>2, <3>1 DEF TabsInv
      <3>2. CASE content' = ContentTab(p, h, content)
        BY <2>5, <3>2, SameTab
      <3> QED
        BY <1>2, <3>1, <3>2
    <2> QED
      BY <1>2, <1>3, <2>3, <2>4, <2>5, <2>6 DEF TabsInv, Found
  <1> QED
    BY <1>5, <1>6

LEMMA TabsInvariant == Spec => []TabsInv
<1>1. Init => TabsInv
  BY DEF Init, TabsInv, Found, Tabs
<1>2. TabsInv /\ [Next]_vars => TabsInv'
  <2> SUFFICES ASSUME TabsInv, [Next]_vars PROVE TabsInv'
    OBVIOUS
  <2>1. CASE Push
    <3>1. plate'.repository = plate.repository
      BY <2>1 DEF Push
    <3> QED
      BY <2>1, <3>1 DEF Push, tabs, TabsInv, Found
  <2>2. CASE PlateDetailPage
    BY <2>2, MountTabs DEF PlateDetailPage
  <2>3. CASE Refresh
    BY <2>3, RefreshTabs
  <2>4. CASE setHashWithoutScroll
    BY <2>4, SyncTabs DEF setHashWithoutScroll
  <2>5. CASE HashChange
    BY <2>5, SyncTabs DEF HashChange
  <2>6. CASE UNCHANGED <<plate, props, tabs>>
    BY <2>6 DEF tabs, TabsInv, Found
  <2>7. CASE toggleFolder \/ expandAll \/ collapseAll
    BY <2>6, <2>7 DEF toggleFolder, expandAll, collapseAll
  <2>8. CASE SetField \/ SetModule \/ handleGenerateDownload \/ Generated
    BY <2>6, <2>8 DEF SetField, SetModule, handleGenerateDownload, Generated
  <2>9. CASE UNCHANGED vars
    BY <2>6, <2>9 DEF vars
  <2> QED
    BY <2>1, <2>2, <2>3, <2>4, <2>5, <2>7, <2>8, <2>9 DEF Next
<1> QED
  BY <1>1, <1>2, PTL DEF Spec

\* TabHasContent: the content shows something whenever the page has anything to show.
THEOREM PlatePageTabHasContent == Spec => []TabHasContent
<1>1. TabsInv => TabHasContent
  BY DEF TabsInv, TabHasContent, Present
<1> QED
  BY <1>1, TabsInvariant, PTL

\* TabsAgree: two components with a tab of their own show the same one, until a refresh
\* writes an older hash without an event.
THEOREM PlatePageTabsAgree == Spec => []TabsAgree
<1>1. TabsInv => TabsAgree
  BY DEF TabsInv, TabsAgree
<1> QED
  BY <1>1, TabsInvariant, PTL

--------------------------------------------------------------------------------
(* Generation. *)

LEMMA RenderedFields ==
    ASSUME NEW c \in Contents, NEW failed, Rendered(c, failed) # None
    PROVE  DOMAIN Rendered(c, failed).schema.fields \subseteq Fields
  <1>1. CASE Rendered(c, failed).schema = c.schema
    <2>1. PICK F \in SUBSET Fields : c.schema.fields \in [F -> Inputs]
      BY DEF Schema
    <2> QED
      BY <1>1, <2>1
  <1>2. CASE Rendered(c, failed).schema = NoSchema
    <2>1. DOMAIN NoSchema.fields = {}
      BY DEF NoSchema
    <2> QED
      BY <1>2, <2>1
  <1> QED
    BY <1>1, <1>2 DEF Rendered

\* The inputs of the schema on the page hold what was typed into them, or defaults.
InputsInv ==
    /\ plate \in Contents
    /\ typed \in [Fields -> Inputs \cup {None}]
    /\ Found =>
          /\ DOMAIN props.schema.fields \subseteq Fields
          /\ DOMAIN downloadValues = DOMAIN props.schema.fields
          /\ \A f \in DOMAIN props.schema.fields :
                downloadValues[f] = IF typed[f] # None THEN typed[f]
                                                       ELSE props.schema.fields[f]

LEMMA FilledAnew ==
    ASSUME plate \in Contents, NEW failed, props' = Rendered(plate, failed), plate' = plate,
           typed' = Untyped, Found' => downloadValues' = props'.schema.fields
    PROVE  InputsInv'
  <1>1. typed' \in [Fields -> Inputs \cup {None}] /\ \A f \in Fields : typed'[f] = None
    BY DEF Untyped
  <1>2. Found' => DOMAIN props'.schema.fields \subseteq Fields
    BY RenderedFields DEF Found
  <1> QED
    BY <1>1, <1>2 DEF InputsInv, Found

LEMMA InputsInvariant == Spec => []InputsInv
<1>1. Init => InputsInv
  BY DEF Init, InputsInv, Found, Untyped
<1>2. InputsInv /\ [Next]_vars => InputsInv'
  <2> SUFFICES ASSUME InputsInv, [Next]_vars PROVE InputsInv'
    OBVIOUS
  <2>1. CASE Push
    BY <2>1 DEF Push, inputs, InputsInv, Found
  <2>2. CASE PlateDetailPage
    BY <2>2, FilledAnew DEF PlateDetailPage, Mount, InputsInv, Found
  <2>3. CASE Refresh
    BY <2>3, FilledAnew DEF Refresh, Reset, InputsInv
  <2>4. CASE SetField
    <3>1. PICK f \in DOMAIN props.schema.fields, v \in Inputs :
            /\ downloadValues' = [downloadValues EXCEPT ![f] = v]
            /\ typed' = [typed EXCEPT ![f] = v]
      BY <2>4 DEF SetField
    <3>2. v # None
      OBVIOUS
    <3>3. Found /\ props' = props /\ plate' = plate
      BY <2>4 DEF SetField, SchemaShown
    <3> QED
      BY <3>1, <3>2, <3>3 DEF InputsInv, Found
  <2>5. CASE UNCHANGED <<plate, props, downloadValues, typed>>
    BY <2>5 DEF InputsInv, Found
  <2>6. CASE setHashWithoutScroll \/ HashChange \/ SetModule
    BY <2>5, <2>6 DEF setHashWithoutScroll, HashChange, SetModule, inputs
  <2>7. CASE toggleFolder \/ expandAll \/ collapseAll \/ handleGenerateDownload \/ Generated
    BY <2>5, <2>7 DEF toggleFolder, expandAll, collapseAll, handleGenerateDownload,
       Generated, inputs
  <2>8. CASE UNCHANGED vars
    BY <2>5, <2>8 DEF vars, inputs
  <2> QED
    BY <2>1, <2>2, <2>3, <2>4, <2>6, <2>7, <2>8 DEF Next
<1> QED
  BY <1>1, <1>2, PTL DEF Spec

\* NothingStale: a generation never carries a value of an older rendering.
THEOREM PlatePageNothingStale == Spec => NothingStale
<1> DEFINE Kept == asked = None /\ asked' # None =>
          \A f \in DOMAIN asked'.fields :
              asked'.fields[f] =
                  IF typed[f] # None THEN typed[f] ELSE props.schema.fields[f]
<1>1. InputsInv /\ [Next]_vars => [Kept]_vars
  <2> SUFFICES ASSUME InputsInv, [Next]_vars, asked = None, asked' # None
               PROVE  Kept
    OBVIOUS
  <2>1. CASE handleGenerateDownload
    <3>1. asked'.fields = [f \in Filled |-> downloadValues[f]] /\ Found
      BY <2>1 DEF handleGenerateDownload, SchemaShown
    <3>2. Filled \subseteq DOMAIN props.schema.fields
      BY DEF Filled
    <3> QED
      BY <3>1, <3>2 DEF InputsInv
  <2>2. CASE ~ handleGenerateDownload
    <3>1. asked' = asked \/ asked' = None
      BY <2>2 DEF Next, vars, Push, PlateDetailPage, Mount, Refresh, setHashWithoutScroll,
         HashChange, SetModule, SetField, toggleFolder, expandAll, collapseAll, Generated
    <3> QED
      BY <3>1
  <2> QED
    BY <2>1, <2>2
<1> QED
  BY <1>1, InputsInvariant, PTL DEF Spec, NothingStale

--------------------------------------------------------------------------------
(* The tree of files. *)

Ordered(s) == \A i, j \in DOMAIN s : i < j => Len(s[i].path) <= Len(s[j].path)

\* What the rendering knows of the entries.
IsTree(entries) ==
    /\ IsFiniteSet(entries)
    /\ \A e \in entries : e.path \in Seq(STRING) /\ e.path # <<>> /\ e.type \in {"blob", "tree"}

LEMMA PathLength ==
    ASSUME NEW S, NEW path \in Seq(S), path # <<>>
    PROVE  Len(path) \in Nat /\ Len(path) > 0
  OBVIOUS

LEMMA EntryPath ==
    ASSUME NEW E, IsTree(E), NEW e \in E
    PROVE  Len(e.path) \in Nat /\ Len(e.path) > 0
  <1>1. e.path \in Seq(STRING) /\ e.path # <<>>
    BY DEF IsTree
  <1> QED
    BY <1>1, PathLength

LEMMA OrderedExists ==
    ASSUME NEW E, IsTree(E)
    PROVE  \E s \in SetToSeqs(E) : Ordered(s)
  <1> DEFINE Without == {X \in SUBSET E : ~(\E s \in SetToSeqs(X) : Ordered(s))}
             Sizes == {Cardinality(X) : X \in Without}
  <1>1. SUFFICES ASSUME Without # {} PROVE FALSE
    <2>1. E \in SUBSET E
      OBVIOUS
    <2> QED
      BY <2>1
  <1>2. \A X \in SUBSET E : IsFiniteSet(X) /\ Cardinality(X) \in Nat
    BY FS_Subset, FS_CardinalityType DEF IsTree
  <1>3. PICK n \in Sizes : \A m \in Sizes : n <= m
    <2>1. Sizes \subseteq Nat /\ Sizes # {}
      BY <1>1, <1>2
    <2> HIDE DEF Sizes
    <2> QED
      BY <2>1, LeastNatural
  <1>4. PICK X \in Without : n = Cardinality(X)
    BY <1>3
  <1>5. X \in SUBSET E /\ IsFiniteSet(X) /\ n \in Nat /\ X # {}
    <2>1. X \in SUBSET E /\ IsFiniteSet(X) /\ n \in Nat
      BY <1>2, <1>4
    <2>2. ASSUME X = {} PROVE FALSE
      <3>1. Cardinality({}) = 0
        BY FS_EmptySet
      <3>2. [k \in 1..0 |-> 0] \in SetToSeqs({}) /\ Ordered([k \in 1..0 |-> 0])
        BY <3>1 DEF SetToSeqs, Ordered
      <3> QED
        BY <1>4, <2>2, <3>2
    <2> QED
      BY <2>1, <2>2
  <1>6. PICK e \in X : \A x \in X : Len(e.path) <= Len(x.path)
    <2> DEFINE Lengths == {Len(x.path) : x \in X}
    <2>1. Lengths \subseteq Nat /\ Lengths # {}
      BY <1>5, EntryPath
    <2>2. PICK l \in Lengths : \A k \in Lengths : l <= k
      <3> HIDE DEF Lengths
      <3> QED
        BY <2>1, LeastNatural
    <2> QED
      BY <2>2
  <1> DEFINE Y == X \ {e}
  <1>7. IsFiniteSet(Y) /\ Cardinality(Y) = n - 1 /\ n - 1 \in Nat /\ n \in 1..n
    <2>1. IsFiniteSet(Y) /\ Cardinality(Y) = n - 1
      BY <1>4, <1>5, <1>6, FS_RemoveElement
    <2>2. Cardinality(Y) \in Nat
      BY <2>1, FS_CardinalityType
    <2> QED
      BY <1>5, <2>1, <2>2
  <1>8. PICK s \in SetToSeqs(Y) : Ordered(s)
    <2>1. Y \notin Without
      <3>1. ASSUME Y \in Without PROVE FALSE
        <4>1. Cardinality(Y) \in Sizes
          BY <3>1
        <4> HIDE DEF Sizes
        <4> QED
          BY <1>3, <1>5, <1>7, <4>1
      <3> QED
        BY <3>1
    <2>2. Y \in SUBSET E
      BY <1>5
    <2> QED
      BY <2>1, <2>2
  <1>9. s \in [1..(n - 1) -> Y] /\ \A i, j \in 1..(n - 1) : i # j => s[i] # s[j]
    BY <1>7, <1>8 DEF SetToSeqs
  <1> DEFINE r == [k \in 1..n |-> IF k = 1 THEN e ELSE s[k - 1]]
  <1>10. \A k \in 1..n : k # 1 => k - 1 \in 1..(n - 1) /\ r[k] = s[k - 1] /\ r[k] \in Y
    BY <1>5, <1>9
  <1>11. r \in SetToSeqs(X)
    <2>1. r \in [1..n -> X]
      <3>1. \A k \in 1..n : r[k] \in X
        BY <1>6, <1>10
      <3> QED
        BY <3>1
    <2>2. ASSUME NEW i \in 1..n, NEW j \in 1..n, i # j PROVE r[i] # r[j]
      <3>1. CASE i = 1
        <4>1. j # 1 /\ r[j] \in Y /\ r[i] = e
          BY <1>10, <2>2, <3>1
        <4> QED
          BY <4>1
      <3>2. CASE j = 1
        <4>1. i # 1 /\ r[i] \in Y /\ r[j] = e
          BY <1>10, <2>2, <3>2
        <4> QED
          BY <4>1
      <3>3. CASE i # 1 /\ j # 1
        <4>1. r[i] = s[i - 1] /\ r[j] = s[j - 1] /\ i - 1 # j - 1
          BY <1>10, <2>2, <3>3
        <4>2. i - 1 \in 1..(n - 1) /\ j - 1 \in 1..(n - 1)
          BY <1>10, <3>3
        <4> HIDE DEF r
        <4> QED
          BY <1>9, <4>1, <4>2
      <3> QED
        BY <3>1, <3>2, <3>3
    <2> HIDE DEF r
    <2> QED
      BY <1>4, <2>1, <2>2 DEF SetToSeqs
  <1>12. Ordered(r)
    <2>1. SUFFICES ASSUME NEW i \in 1..n, NEW j \in 1..n, i < j
                   PROVE  Len(r[i].path) <= Len(r[j].path)
      BY DEF Ordered
    <2>2. j # 1 /\ r[j] \in X
      BY <1>10, <2>1
    <2>3. CASE i = 1
      <3>1. r[i] = e
        BY <2>3
      <3> HIDE DEF r
      <3> QED
        BY <1>6, <2>2, <3>1
    <2>4. CASE i # 1
      <3>1. r[i] = s[i - 1] /\ r[j] = s[j - 1] /\ i - 1 < j - 1
        BY <1>10, <2>1, <2>2, <2>4
      <3>2. i - 1 \in DOMAIN s /\ j - 1 \in DOMAIN s
        BY <1>9, <1>10, <2>2, <2>4
      <3> HIDE DEF r
      <3> QED
        BY <1>8, <3>1, <3>2 DEF Ordered
    <2> QED
      BY <2>3, <2>4
  <1> HIDE DEF r
  <1> QED
    BY <1>4, <1>11, <1>12

\* Every entry is listed, a folder before what is in it.
LEMMA ListedOrder ==
    ASSUME NEW E, IsTree(E)
    PROVE  /\ Len(Listed(E)) \in Nat /\ Ordered(Listed(E))
           /\ DOMAIN Listed(E) = 1..Len(Listed(E))
           /\ \A k \in 1..Len(Listed(E)) : Listed(E)[k] \in E
           /\ \A e \in E : \E k \in 1..Len(Listed(E)) : Listed(E)[k] = e
  <1> DEFINE s == Listed(E)
             n == Cardinality(E)
  <1>1. IsFiniteSet(E) /\ n \in Nat
    BY FS_CardinalityType DEF IsTree
  <1>2. s \in SetToSeqs(E) /\ Ordered(s)
    <2>1. s = CHOOSE x \in SetToSeqs(E) : Ordered(x)
      BY DEF Listed, Ordered
    <2> HIDE DEF s
    <2> QED
      BY <2>1, OrderedExists
  <1>3. s \in [1..n -> E] /\ \A i, j \in 1..n : i # j => s[i] # s[j]
    BY <1>2 DEF SetToSeqs
  <1>4. \A e \in E : \E k \in 1..n : s[k] = e
    <2> HIDE DEF s
    <2>1. s \in Injection(1..n, E)
      BY <1>3 DEF Injection, IsInjective
    <2>2. IsFiniteSet(1..n) /\ Cardinality(1..n) = n
      BY <1>1, FS_Interval
    <2>3. s \in Surjection(1..n, E)
      BY <1>1, <2>1, <2>2, FS_Injection
    <2> QED
      BY <2>3 DEF Surjection
  <1> HIDE DEF s
  <1>5. Len(s) = n
    BY <1>1, <1>3
  <1> QED
    BY <1>1, <1>2, <1>3, <1>4, <1>5 DEF s

\* The insertion of one entry after another is defined for every listing.
LEMMA InsertionExists ==
    ASSUME NEW s, NEW N \in Nat
    PROVE  \E f : f = [k \in 0..N |-> IF k = 0 THEN <<>> ELSE Insert(f[k - 1], s[k])]
  <1> DEFINE Tree(f, n) == f = [k \in 0..n |-> IF k = 0 THEN <<>> ELSE Insert(f[k - 1], s[k])]
             Without == {n \in Nat : ~(\E f : Tree(f, n))}
  <1>1. SUFFICES ASSUME Without # {} PROVE FALSE
    OBVIOUS
  <1>2. PICK n \in Without : \A m \in Without : n <= m
    <2>1. Without \subseteq Nat
      OBVIOUS
    <2> HIDE DEF Without
    <2> QED
      BY <1>1, <2>1, LeastNatural
  <1>3. n # 0
    <2>1. Tree([k \in 0..0 |-> <<>>], 0)
      OBVIOUS
    <2> QED
      BY <2>1
  <1>4. n \in Nat /\ n - 1 \in Nat /\ n - 1 \notin Without
    <2>1. n \in Nat
      OBVIOUS
    <2> HIDE DEF Without
    <2> QED
      BY <1>2, <1>3, <2>1
  <1>5. PICK f : Tree(f, n - 1)
    BY <1>4
  <1> DEFINE g == [k \in 0..n |-> IF k = n THEN Insert(f[n - 1], s[n]) ELSE f[k]]
  <1>6. \A k \in 0..n : g[k] = IF k = 0 THEN <<>> ELSE Insert(g[k - 1], s[k])
    <2>1. SUFFICES ASSUME NEW k \in 0..n
                   PROVE  g[k] = IF k = 0 THEN <<>> ELSE Insert(g[k - 1], s[k])
      OBVIOUS
    <2>2. CASE k = n
      BY <1>3, <1>4, <2>2
    <2>3. CASE k # n
      <3>1. k \in 0..(n - 1) /\ g[k] = f[k] /\ (k # 0 => g[k - 1] = f[k - 1])
        BY <1>4, <2>3
      <3>2. f[k] = IF k = 0 THEN <<>> ELSE Insert(f[k - 1], s[k])
        BY <1>5, <3>1
      <3> QED
        BY <3>1, <3>2
    <2> QED
      BY <2>2, <2>3
  <1>7. Tree(g, n)
    BY <1>6
  <1> QED
    BY <1>7

LEMMA Insertions ==
    ASSUME NEW E, Len(Listed(E)) \in Nat
    PROVE  \E tree :
              /\ tree[0] = <<>>
              /\ \A n \in 1..Len(Listed(E)) : tree[n] = Insert(tree[n - 1], Listed(E)[n])
              /\ FileTree(E) = tree[Len(Listed(E))]
  <1> DEFINE s == Listed(E)
             Tree(f) == f = [n \in 0..Len(s) |-> IF n = 0 THEN <<>> ELSE Insert(f[n - 1], s[n])]
             tree == CHOOSE f : Tree(f)
  <1>1. FileTree(E) = tree[Len(s)]
    BY DEF FileTree
  <1>2. Tree(tree)
    <2>1. \E f : Tree(f)
      BY InsertionExists
    <2> HIDE DEF Tree
    <2> QED
      BY <2>1
  <1> HIDE DEF s, tree
  <1>3. tree[0] = <<>> /\ \A n \in 1..Len(s) : tree[n] = Insert(tree[n - 1], s[n])
    <2>1. Len(s) \in Nat
      BY DEF s
    <2>2. \A n \in 0..Len(s) : tree[n] = IF n = 0 THEN <<>> ELSE Insert(tree[n - 1], s[n])
      BY <1>2
    <2> QED
      BY <2>1, <2>2
  <1> QED
    BY <1>1, <1>3 DEF s

LEMMA AncestorLength ==
    ASSUME NEW S, NEW path \in Seq(S), NEW p \in Ancestors(path)
    PROVE  Len(p) \in Nat /\ 0 < Len(p) /\ Len(p) < Len(path) /\ p # <<>>
  <1>1. PICK n \in 1..(Len(path) - 1) : p = SubSeq(path, 1, n)
    BY DEF Ancestors
  <1>2. Len(path) \in Nat /\ n \in Nat /\ 0 < n /\ n < Len(path)
    OBVIOUS
  <1>3. Len(p) = n
    BY <1>1, <1>2
  <1> QED
    BY <1>2, <1>3

LEMMA Inserted ==
    ASSUME NEW nodes, NEW e
    PROVE  /\ DOMAIN Insert(nodes, e) = DOMAIN nodes \cup Ancestors(e.path) \cup {e.path}
           /\ \A p \in Ancestors(e.path) \ {e.path} : Insert(nodes, e)[p] = "tree"
           /\ \A p \in DOMAIN nodes \ {e.path} :
                 nodes[p] = "tree" => Insert(nodes, e)[p] = "tree"
  BY DEF Insert

\* The tree has every entry below folders all the way up.
LEMMA FilesBelowFolders ==
    ASSUME NEW E, IsTree(E)
    PROVE  /\ Paths(E) \subseteq Visible(FileTree(E), Folders(FileTree(E)))
           /\ \A p \in DOMAIN FileTree(E) : p # <<>>
  <1> DEFINE s == Listed(E)
             N == Len(s)
  <1>1. /\ N \in Nat /\ Ordered(s) /\ DOMAIN s = 1..N
        /\ \A k \in 1..N : s[k] \in E
        /\ \A e \in E : \E k \in 1..N : s[k] = e
    BY ListedOrder
  <1>2. PICK tree : /\ tree[0] = <<>>
                    /\ \A n \in 1..N : tree[n] = Insert(tree[n - 1], s[n])
                    /\ FileTree(E) = tree[N]
    BY <1>1, Insertions
  <1>3. \A k \in 1..N : s[k].path \in Seq(STRING) /\ s[k].path # <<>>
    BY <1>1 DEF IsTree
  <1> HIDE DEF s
  <1> DEFINE Complete(n) ==
                /\ \A p \in DOMAIN tree[n] : p # <<>>
                /\ \A k \in 1..n :
                      /\ s[k].path \in DOMAIN tree[n]
                      /\ \A p \in Ancestors(s[k].path) : p \in DOMAIN tree[n] /\ tree[n][p] = "tree"
             Missing == {n \in 0..N : ~Complete(n)}
  <1>4. Missing = {}
    <2>1. SUFFICES ASSUME Missing # {} PROVE FALSE
      OBVIOUS
    <2>2. PICK n \in Missing : \A m \in Missing : n <= m
      <3>1. Missing \subseteq Nat
        BY <1>1
      <3> HIDE DEF Missing
      <3> QED
        BY <2>1, <3>1, LeastNatural
    <2>3. n \in 0..N /\ ~Complete(n)
      OBVIOUS
    <2>4. n # 0
      BY <1>2, <2>3
    <2>5. n \in 1..N /\ n - 1 \in 0..N /\ n - 1 \notin Missing
      <3>1. n \in 1..N /\ n - 1 \in 0..N
        BY <1>1, <2>3, <2>4
      <3> HIDE DEF Missing
      <3> QED
        BY <1>1, <2>2, <3>1
    <2>6. Complete(n - 1)
      BY <2>5
    <2> DEFINE e == s[n]
               old == tree[n - 1]
    <2>7. /\ tree[n] = Insert(old, e) /\ DOMAIN tree[n] = DOMAIN old \cup Ancestors(e.path) \cup {e.path}
          /\ \A p \in Ancestors(e.path) \ {e.path} : tree[n][p] = "tree"
          /\ \A p \in DOMAIN old \ {e.path} : old[p] = "tree" => tree[n][p] = "tree"
      <3>1. tree[n] = Insert(old, e)
        BY <1>2, <2>5
      <3> HIDE DEF old, e, Missing, Complete
      <3> DEFINE new == Insert(old, e)
      <3>2. /\ DOMAIN new = DOMAIN old \cup Ancestors(e.path) \cup {e.path}
            /\ \A p \in Ancestors(e.path) \ {e.path} : new[p] = "tree"
            /\ \A p \in DOMAIN old \ {e.path} : old[p] = "tree" => new[p] = "tree"
        BY Inserted
      <3> QED
        BY <3>1, <3>2, Zenon
    <2>8. \A p \in DOMAIN tree[n] : p # <<>>
      <3>1. \A p \in Ancestors(e.path) : p # <<>>
        BY <1>3, <2>5, AncestorLength
      <3>2. e.path # <<>>
        BY <1>3, <2>5
      <3> QED
        BY <2>6, <2>7, <3>1, <3>2
    <2>9. ASSUME NEW k \in 1..n
          PROVE  /\ s[k].path \in DOMAIN tree[n]
                 /\ \A p \in Ancestors(s[k].path) : p \in DOMAIN tree[n] /\ tree[n][p] = "tree"
      <3>1. k \in 1..N /\ Len(s[k].path) \in Nat /\ Len(s[k].path) <= Len(e.path)
        <4>1. k \in 1..N
          BY <1>1, <2>5
        <4>2. Len(s[k].path) \in Nat
          BY <1>1, <4>1, EntryPath
        <4>3. k # n => Len(s[k].path) <= Len(e.path)
          <5>1. k # n => k < n
            BY <1>1, <2>5
          <5>2. k \in DOMAIN s /\ n \in DOMAIN s
            BY <1>1, <2>5, <4>1
          <5> QED
            BY <1>1, <5>1, <5>2 DEF Ordered
        <4> QED
          BY <4>1, <4>2, <4>3
      <3>2. \A p \in Ancestors(s[k].path) : p # e.path
        <4>1. SUFFICES ASSUME NEW p \in Ancestors(s[k].path) PROVE p # e.path
          OBVIOUS
        <4>2. Len(p) \in Nat /\ Len(p) < Len(s[k].path)
          BY <1>3, <3>1, AncestorLength
        <4>3. Len(e.path) \in Nat
          BY <1>1, <2>5, EntryPath
        <4>4. Len(p) < Len(e.path)
          BY <3>1, <4>2, <4>3
        <4> QED
          BY <4>3, <4>4
      <3>3. CASE k = n
        BY <2>7, <3>2, <3>3
      <3>4. CASE k # n
        <4>1. k \in 1..(n - 1)
          BY <2>5, <3>4
        <4>2. /\ s[k].path \in DOMAIN old
              /\ \A p \in Ancestors(s[k].path) : p \in DOMAIN old /\ old[p] = "tree"
          BY <2>6, <4>1
        <4> QED
          BY <2>7, <3>2, <4>2
      <3> QED
        BY <3>3, <3>4
    <2> QED
      BY <2>3, <2>8, <2>9
  <1>5. Complete(N)
    BY <1>1, <1>4
  <1> DEFINE nodes == FileTree(E)
  <1>6. \A e \in E : /\ e.path \in DOMAIN nodes
                     /\ \A p \in Ancestors(e.path) : p \in DOMAIN nodes /\ nodes[p] = "tree"
    BY <1>1, <1>2, <1>5
  <1>7. \A p \in DOMAIN nodes : p # <<>>
    BY <1>2, <1>5
  <1> HIDE DEF nodes, Complete
  <1>8. Paths(E) \subseteq Visible(nodes, Folders(nodes))
    BY <1>6 DEF Paths, Visible, Folders
  <1> QED
    BY <1>7, <1>8 DEF nodes

--------------------------------------------------------------------------------
(* Types, and the folders that are open. *)

LEMMA RenderedParts ==
    ASSUME NEW c \in Contents, NEW failed, Rendered(c, failed) # None
    PROVE  /\ IsTree(Rendered(c, failed).tree)
           /\ Rendered(c, failed).schema \in {c.schema, NoSchema}
  <1> DEFINE p == Rendered(c, failed)
  <1>1. p.tree \in {c.tree, {}} /\ p.schema \in {c.schema, NoSchema}
    BY DEF Rendered
  <1>2. IsTree(c.tree) /\ IsTree({})
    BY FS_EmptySet DEF IsTree
  <1> HIDE DEF p
  <1> QED
    BY <1>1, <1>2 DEF p

LEMMA RenderedSchema ==
    ASSUME NEW c \in Contents, NEW failed, Rendered(c, failed) # None
    PROVE  /\ Rendered(c, failed).schema.fields
                 \in [DOMAIN Rendered(c, failed).schema.fields -> Inputs]
           /\ Rendered(c, failed).schema.modules
                 \in [DOMAIN Rendered(c, failed).schema.modules -> BOOLEAN]
  <1>1. CASE Rendered(c, failed).schema = c.schema
    <2>1. /\ \E F \in SUBSET Fields : c.schema.fields \in [F -> Inputs]
          /\ \E M \in SUBSET Modules : c.schema.modules \in [M -> BOOLEAN]
      BY DEF Schema
    <2>2. /\ c.schema.fields \in [DOMAIN c.schema.fields -> Inputs]
          /\ c.schema.modules \in [DOMAIN c.schema.modules -> BOOLEAN]
      BY <2>1
    <2> QED
      BY <1>1, <2>2
  <1>2. CASE Rendered(c, failed).schema = NoSchema
    <2>1. NoSchema.fields = <<>> /\ NoSchema.modules = <<>>
      BY DEF NoSchema
    <2> QED
      BY <1>2, <2>1
  <1> QED
    BY <1>1, <1>2, RenderedParts

LEMMA TopLevelFolders ==
    ASSUME NEW nodes
    PROVE  TopLevel(nodes) \subseteq Folders(nodes) /\ \A p \in TopLevel(nodes) : p # <<>>
  BY DEF TopLevel

LEMMA TabTypes ==
    ASSUME NEW p, NEW h, NEW current \in Tabs
    PROVE  /\ HeaderTab(p, h) \in Tabs \cup {"content"}
           /\ ContentTab(p, h, current) \in Tabs
  <1>1. First(p) \in Tabs /\ Present(p) \subseteq Tabs
    BY DEF First, Present, Tabs
  <1> QED
    BY <1>1 DEF HeaderTab, ContentTab

\* The open folders are folders of the tree on the page.
PageInv ==
    /\ TypeOK
    /\ Found => expandedPaths \subseteq Folders(FileTree(props.tree))

LEMMA FoundTree ==
    ASSUME PageInv, Found
    PROVE  IsTree(props.tree)
  BY RenderedParts DEF PageInv, TypeOK, Found

LEMMA MountPage ==
    ASSUME PageInv, PlateDetailPage
    PROVE  PageInv'
  <1>1. PICK failed \in SUBSET Fetches : Mount(Rendered(plate, failed), hash)
    BY DEF PlateDetailPage
  <1> DEFINE p == Rendered(plate, failed)
  <1>2. plate \in Contents /\ plate' = plate /\ hash \in Hashes
    BY DEF PlateDetailPage, PageInv, TypeOK
  <1>3. props' \in {None} \cup {Rendered(c, f) : c \in Contents, f \in SUBSET Fetches}
    BY <1>1, <1>2 DEF Mount
  <1>4. typed' \in [Fields -> Inputs \cup {None}] /\ restored' \in BOOLEAN
        /\ {hash', known'} \subseteq Hashes
    BY <1>1, <1>2 DEF Mount, Untyped
  <1>5. header' \in Tabs \cup {"content"} /\ content' \in Tabs
    <2>1. "readme" \in Tabs
      BY DEF Tabs
    <2> QED
      BY <1>1, <2>1, TabTypes DEF Mount
  <1>6. Found' => /\ downloadValues' \in [DOMAIN props'.schema.fields -> Inputs]
                  /\ moduleValues' \in [DOMAIN props'.schema.modules -> BOOLEAN]
    BY <1>1, <1>2, RenderedSchema DEF Mount, Found
  <1>7. /\ \A path \in expandedPaths' : path # <<>>
        /\ Found' => expandedPaths' \subseteq Folders(FileTree(props'.tree))
    BY <1>1, TopLevelFolders DEF Mount, Found
  <1> QED
    BY <1>2, <1>3, <1>4, <1>5, <1>6, <1>7 DEF PageInv, TypeOK

LEMMA RefreshPage ==
    ASSUME PageInv, Refresh
    PROVE  PageInv'
  <1>1. PICK failed \in SUBSET (Fetches \ {"plate"}), h \in {hash, known} :
          LET p == Rendered(plate, failed)
              flagsChanged == Flags(p) # Flags(props)
          IN /\ props' = p
             /\ hash' = h /\ known' = h
             /\ header' = IF flagsChanged THEN HeaderTab(p, h) ELSE header
             /\ content' \in {content, ContentTab(p, h, content)}
             /\ expandedPaths' = TopLevel(FileTree(p.tree))
             /\ restored' = (~flagsChanged /\ (restored \/ h # hash))
             /\ Reset(p)
    BY DEF Refresh
  <1> DEFINE p == Rendered(plate, failed)
  <1>2. /\ plate \in Contents /\ plate' = plate /\ {hash, known} \subseteq Hashes
        /\ header \in Tabs \cup {"content"} /\ content \in Tabs
    BY DEF Refresh, PageInv, TypeOK
  <1>3. props' \in {None} \cup {Rendered(c, f) : c \in Contents, f \in SUBSET Fetches}
    BY <1>1, <1>2
  <1>4. typed' \in [Fields -> Inputs \cup {None}] /\ {hash', known'} \subseteq Hashes
    BY <1>1, <1>2 DEF Reset, Untyped
  <1>5. restored' \in BOOLEAN
    BY <1>1
  <1>6. header' \in Tabs \cup {"content"} /\ content' \in Tabs
    BY <1>1, <1>2, TabTypes
  <1>7. Found' => /\ downloadValues' \in [DOMAIN props'.schema.fields -> Inputs]
                  /\ moduleValues' \in [DOMAIN props'.schema.modules -> BOOLEAN]
    BY <1>1, <1>2, RenderedSchema DEF Reset, Found
  <1>8. /\ \A path \in expandedPaths' : path # <<>>
        /\ Found' => expandedPaths' \subseteq Folders(FileTree(props'.tree))
    BY <1>1, TopLevelFolders
  <1> QED
    BY <1>2, <1>3, <1>4, <1>5, <1>6, <1>7, <1>8 DEF PageInv, TypeOK

LEMMA SyncPage ==
    ASSUME PageInv, NEW h \in Hashes, Sync(h), known' \in Hashes,
           UNCHANGED <<plate, props, inputs, expandedPaths>>
    PROVE  PageInv'
  <1>1. content \in Tabs
    BY DEF PageInv, TypeOK
  <1>2. /\ hash' \in Hashes /\ restored' \in BOOLEAN
        /\ header' \in Tabs \cup {"content"} /\ content' \in Tabs
    BY <1>1, TabTypes DEF Sync
  <1> QED
    BY <1>2 DEF PageInv, TypeOK, Found, inputs

\* Only the folders of the tree can be opened.
LEMMA FoldersPage ==
    ASSUME PageInv, toggleFolder \/ expandAll \/ collapseAll
    PROVE  PageInv'
  <1>1. /\ Found /\ UNCHANGED <<plate, props, tabs, inputs>>
    BY DEF toggleFolder, expandAll, collapseAll, FilesShown
  <1> DEFINE nodes == FileTree(props.tree)
  <1>2. expandedPaths \subseteq Folders(nodes)
    BY <1>1 DEF PageInv
  <1>3. expandedPaths' \subseteq Folders(nodes)
    BY <1>2 DEF toggleFolder, expandAll, collapseAll
  <1>4. \A path \in expandedPaths' : path # <<>>
    BY <1>1, <1>3, FoundTree, FilesBelowFolders DEF Folders
  <1> QED
    BY <1>1, <1>3, <1>4 DEF PageInv, TypeOK, Found, tabs, inputs

LEMMA FieldPage ==
    ASSUME PageInv, SetField \/ SetModule
    PROVE  PageInv'
  <1>1. /\ Found /\ UNCHANGED <<plate, props, tabs, expandedPaths>>
        /\ downloadValues \in [DOMAIN props.schema.fields -> Inputs]
        /\ moduleValues \in [DOMAIN props.schema.modules -> BOOLEAN]
        /\ typed \in [Fields -> Inputs \cup {None}]
    BY DEF SetField, SetModule, SchemaShown, PageInv, TypeOK
  <1>2. /\ downloadValues' \in [DOMAIN props.schema.fields -> Inputs]
        /\ moduleValues' \in [DOMAIN props.schema.modules -> BOOLEAN]
        /\ typed' \in [Fields -> Inputs \cup {None}]
    BY <1>1 DEF SetField, SetModule
  <1> QED
    BY <1>1, <1>2 DEF PageInv, TypeOK, Found, tabs

LEMMA PageInvariant == Spec => []PageInv
<1>1. Init => PageInv
  <2>1. SUFFICES ASSUME Init PROVE PageInv
    OBVIOUS
  <2>2. ~Found /\ expandedPaths = {}
    BY <2>1 DEF Init, Found
  <2>3. content \in Tabs /\ header \in Tabs \cup {"content"}
    BY <2>1 DEF Init, Tabs
  <2>4. plate \in Contents /\ {hash, known} \subseteq Hashes
        /\ typed \in [Fields -> Inputs \cup {None}]
    BY <2>1 DEF Init, Untyped
  <2>5. props \in {None} \cup {Rendered(c, failed) : c \in Contents, failed \in SUBSET Fetches}
    BY <2>1 DEF Init
  <2>6. restored \in BOOLEAN
    BY <2>1 DEF Init
  <2> QED
    BY <2>2, <2>3, <2>4, <2>5, <2>6 DEF PageInv, TypeOK
<1>2. PageInv /\ [Next]_vars => PageInv'
  <2> SUFFICES ASSUME PageInv, [Next]_vars PROVE PageInv'
    OBVIOUS
  <2>1. CASE Push
    BY <2>1 DEF Push, tabs, inputs, PageInv, TypeOK, Found
  <2>2. CASE PlateDetailPage
    BY <2>2, MountPage
  <2>3. CASE Refresh
    BY <2>3, RefreshPage
  <2>4. CASE setHashWithoutScroll
    <3>1. PICK tab \in Present(props) \ {header} : Sync(tab)
      BY <2>4 DEF setHashWithoutScroll
    <3>2. tab \in Hashes
      BY DEF Present
    <3>3. known' \in Hashes
      BY <2>4 DEF setHashWithoutScroll, PageInv, TypeOK
    <3> QED
      BY <2>4, <3>1, <3>2, <3>3, SyncPage DEF setHashWithoutScroll
  <2>5. CASE HashChange
    <3>1. PICK h \in Hashes \ {hash} : Sync(h) /\ known' = h
      BY <2>5 DEF HashChange
    <3> QED
      BY <2>5, <3>1, SyncPage DEF HashChange
  <2>6. CASE toggleFolder \/ expandAll \/ collapseAll
    BY <2>6, FoldersPage
  <2>7. CASE SetField \/ SetModule
    BY <2>7, FieldPage
  <2>8. CASE UNCHANGED <<plate, props, tabs, inputs, expandedPaths>>
    BY <2>8 DEF PageInv, TypeOK, Found, tabs, inputs
  <2>9. CASE handleGenerateDownload \/ Generated \/ UNCHANGED vars
    BY <2>8, <2>9 DEF handleGenerateDownload, Generated, vars
  <2> QED
    BY <2>1, <2>2, <2>3, <2>4, <2>5, <2>6, <2>7, <2>9 DEF Next
<1> QED
  BY <1>1, <1>2, PTL DEF Spec

\* TypeOK: the page keeps its types for every plate, failed fetch and hash.
THEOREM PlatePageTypes == Spec => []TypeOK
<1>1. PageInv => TypeOK
  BY DEF PageInv
<1> QED
  BY <1>1, PageInvariant, PTL

\* AllReachable: the folders on the page are enough to reach every file of it, whichever
\* folders GitHub leaves out of its list, and only they are open.
THEOREM PlatePageAllReachable == Spec => []AllReachable
<1>1. PageInv => AllReachable
  BY FoundTree, FilesBelowFolders DEF PageInv, AllReachable
<1> QED
  BY <1>1, PageInvariant, PTL
=============================================================================
