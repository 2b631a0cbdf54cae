----------------------------- MODULE ExplorePage -----------------------------
(***************************************************************************)
(* Finding plates: the page /explore                                       *)
(* (web/src/presentation/components/plates/PlateGridClient.tsx with        *)
(* PlateFilters.tsx and ExploreFilterChips.tsx) and the two search boxes   *)
(* that lead to it (common/HeroSearch.tsx on the home page,                *)
(* layout/NavbarSearch.tsx elsewhere).                                     *)
(*                                                                         *)
(* The page reads its filters from the address once, when it is mounted,   *)
(* and never writes them back.  The number of pages is known only while    *)
(* there is an answer, and the buttons that turn pages work without one.   *)
(* Which plates match is the server's business: a filter has a number of   *)
(* them, which shrinks as plates are removed.  The server counts first,    *)
(* takes a page, and then withholds from it the plates of private          *)
(* organizations: of the few plates a box asks for, none may be left       *)
(* although some match.                                                    *)
(***************************************************************************)
EXTENDS Naturals, Sequences, FiniteSets

CONSTANTS
    Queries,     \* what is searched for
    NoQuery,     \* an empty search
    Categories, Tags, Badges,   \* what can be picked
    Counts,      \* the number of plates the API gives for each of them
    Total,       \* how many plates match a filter, at first
    Withheld,    \* queries whose first plates may all be of private organizations
    Addresses,   \* the filters that links to /explore name
    Sizes,       \* numbers of plates on a page
    DefaultSize,
    MaxRemoved   \* bound: plates removed in a behaviour

VARIABLES
    removed,     \* plates removed from the server so far
    at,          \* the page that is mounted
    going,       \* the navigation under way
    filter,      \* search, categories, tags and badges of /explore
    page, pageSize,
    list,        \* the query of the current filter and page
    options,     \* the query of the filter options
    query, open, \* the search box
    found        \* its query

explore == <<filter, page, pageSize, list, options>>
box == <<query, open, found>>
vars == <<removed, at, going, explore, box>>

Options == Categories \cup Tags \cup Badges
Searches == Queries \cup {NoQuery}
Filters == [search : Searches, picked : SUBSET Options]
NoFilter == [search |-> NoQuery, picked |-> {}]
Pages == {"home", "explore", "other"}
NoWay == [to |-> "nowhere", filter |-> NoFilter, searched |-> FALSE]

ASSUME ExploreAssumption ==
    /\ NoQuery \notin Queries
    /\ Counts \in [Options -> Nat]
    /\ Total \in [Filters -> Nat]
    /\ Withheld \subseteq Queries
    /\ Addresses \subseteq Filters
    /\ Sizes \subseteq Nat \ {0} /\ DefaultSize \in Sizes
    /\ MaxRemoved \in Nat

Answers == [state : {"loading", "failed", "answered"}, total : Nat]
Loading == [state |-> "loading", total |-> 0]

\* A box looks at the plates it got, not at their number: are there any?
Replies == [state : {"loading", "failed", "answered"}, plates : BOOLEAN]
NoReply == [state |-> "loading", plates |-> FALSE]

TypeOK ==
    /\ removed \in 0..MaxRemoved
    /\ at \in Pages
    /\ going \in [to : Pages, filter : Filters, searched : BOOLEAN] \cup {NoWay}
    /\ filter \in Filters
    /\ page \in Nat \ {0} /\ pageSize \in Sizes
    /\ list \in Answers /\ found \in Replies
    /\ options \in {"loading", "loaded"}
    /\ query \in Searches /\ open \in BOOLEAN

Init ==
    /\ removed = 0
    /\ at \in Pages /\ going = NoWay
    /\ \E f \in Addresses : filter = IF at = "explore" THEN f ELSE NoFilter
    /\ page = 1 /\ pageSize = DefaultSize
    /\ list = Loading /\ options = "loading"
    /\ query = NoQuery /\ open = FALSE /\ found = NoReply

--------------------------------------------------------------------------------
(* The server and the query client. *)

Matching(f, gone) == IF Total[f] > gone THEN Total[f] - gone ELSE 0

RemovePlate ==
    /\ removed < MaxRemoved
    /\ removed' = removed + 1
    /\ UNCHANGED <<at, going, explore, box>>

\* The query of another key: loading, or with an answer from an earlier visit.
Asked(f) ==
    {Loading} \cup {[state |-> "answered", total |-> Matching(f, n)] : n \in 0..removed}

Answer(f) == [state |-> "answered", total |-> Matching(f, removed)]

\* What can be left of the first plates of a search, of which n were removed.
Left(q, n) ==
    IF Matching([search |-> q, picked |-> {}], n) = 0 THEN {FALSE}
    ELSE IF q \in Withheld THEN BOOLEAN ELSE {TRUE}

Reply(q, n) == [state : {"answered"}, plates : Left(q, n)]

\* An answer, to the first request of a key or to a later one.
ListAnswered ==
    /\ at = "explore"
    /\ list' = Answer(filter)
    /\ UNCHANGED <<removed, at, going, filter, page, pageSize, options, box>>

\* A failure keeps the data of an earlier answer.
ListFailed ==
    /\ at = "explore" /\ list.state # "failed"
    /\ list' = [list EXCEPT !.state = "failed"]
    /\ UNCHANGED <<removed, at, going, filter, page, pageSize, options, box>>

OptionsAnswered ==
    /\ at = "explore" /\ options = "loading"
    /\ options' = "loaded"
    /\ UNCHANGED <<removed, at, going, filter, page, pageSize, list, box>>

--------------------------------------------------------------------------------
(* Filters. *)

hasSearch == filter.search # NoQuery
hasActiveFilters == hasSearch \/ filter.picked # {}

\* The effect sets the page back after every change of a filter.
ChangeFilter(f) ==
    /\ at = "explore"
    /\ filter' = f
    /\ page' = 1
    /\ list' \in Asked(f)
    /\ UNCHANGED <<removed, at, going, pageSize, options, box>>

TypeSearch == \E q \in Searches \ {filter.search} : ChangeFilter([filter EXCEPT !.search = q])

\* Before the options arrive only the badges of the catalogue are listed, without
\* plates.  An option without plates cannot be picked, only dropped.
badgeFilterOptions(o) == IF options = "loaded" THEN Counts[o] ELSE 0

FilterCheckbox(o, countOf) ==
    /\ countOf # 0 \/ o \in filter.picked
    /\ ChangeFilter([filter EXCEPT
           !.picked = IF o \in @ THEN @ \ {o} ELSE @ \cup {o}])

BadgesDropdown == \E o \in Badges : FilterCheckbox(o, badgeFilterOptions(o))

CategoriesDropdown ==
    options = "loaded" /\ \E o \in Categories : FilterCheckbox(o, Counts[o])

TagsDropdown == options = "loaded" /\ \E o \in Tags : FilterCheckbox(o, Counts[o])

\* The chips name what is active, options that no list has too.
Chip ==
    \/ hasSearch /\ ChangeFilter([filter EXCEPT !.search = NoQuery])
    \/ \E o \in filter.picked : ChangeFilter([filter EXCEPT !.picked = @ \ {o}])

clearAllFilters == hasActiveFilters /\ ChangeFilter(NoFilter)

--------------------------------------------------------------------------------
(* Pages. *)

Larger(a, b) == IF a > b THEN a ELSE b
Smaller(a, b) == IF a < b THEN a ELSE b

totalPages == Larger(1, (list.total + pageSize - 1) \div pageSize)

Turn(n) ==
    /\ at = "explore"
    /\ n # page
    /\ page' = n
    /\ list' \in Asked(filter)
    /\ UNCHANGED <<removed, at, going, filter, pageSize, options, box>>

PreviousPage == Turn(Larger(1, page - 1))

\* While the list loads there is one page, and the button leads back to it.
NextPage == page # totalPages /\ Turn(Smaller(totalPages, page + 1))

\* The numbers between the arrows: the ends and two pages around the current one.
Window == {n \in 1..totalPages : n \in {1, totalPages} \/ (n <= page + 2 /\ page <= n + 2)}

GoToPage == \E n \in Window : Turn(n)

\* A slip: the page is not set back.
ChoosePageSize_KeepsPage ==
    /\ at = "explore"
    /\ \E n \in Sizes \ {pageSize} : pageSize' = n
    /\ list' \in Asked(filter)
    /\ UNCHANGED <<removed, at, going, filter, page, options, box>>

ChoosePageSize ==
    /\ at = "explore"
    /\ \E n \in Sizes \ {pageSize} : pageSize' = n
    /\ page' = 1
    /\ list' \in Asked(filter)
    /\ UNCHANGED <<removed, at, going, filter, options, box>>

--------------------------------------------------------------------------------
(* The search boxes. *)

\* A slip: the box of the navigation bar is on every page but the home page.
SearchShown_OnExplore == TRUE

\* HeroSearch on the home page, NavbarSearch neither there nor on /explore.
SearchShown == at # "explore"

showDropdown == SearchShown /\ open /\ query # NoQuery

Typed(q) ==
    /\ query' = q
    /\ found' \in {NoReply} \cup UNION {Reply(q, n) : n \in 0..removed}

TypeQuery ==
    /\ SearchShown
    /\ \E q \in Searches \ {query} : Typed(q)
    /\ open' = TRUE
    /\ UNCHANGED <<removed, at, going, explore>>

Focus ==
    /\ SearchShown /\ ~open
    /\ open' = TRUE
    /\ UNCHANGED <<removed, at, going, explore, query, found>>

\* Escape, or a click outside.
Close ==
    /\ SearchShown /\ open
    /\ open' = FALSE
    /\ UNCHANGED <<removed, at, going, explore, query, found>>

\* Only the box of the navigation bar has the button that empties it.
ClearQuery ==
    /\ SearchShown /\ at # "home" /\ query # NoQuery
    /\ Typed(NoQuery)
    /\ open' = FALSE
    /\ UNCHANGED <<removed, at, going, explore>>

\* The boxes do not look at errors: without data there are no results.
noResults == showDropdown /\ found.state # "loading" /\ ~found.plates

results == showDropdown /\ found.state # "loading" /\ found.plates

QueryAnswered ==
    /\ SearchShown
    /\ found' \in Reply(query, removed)
    /\ UNCHANGED <<removed, at, going, explore, query, open>>

QueryFailed ==
    /\ SearchShown /\ found.state # "failed"
    /\ found' = [found EXCEPT !.state = "failed"]
    /\ UNCHANGED <<removed, at, going, explore, query, open>>

--------------------------------------------------------------------------------
(* Navigation. *)

Go(target, f, searched) == going' = [to |-> target, filter |-> f, searched |-> searched]

\* An empty search leads nowhere.
handleSearch(q) ==
    /\ SearchShown /\ q # NoQuery
    /\ Go("explore", [search |-> q, picked |-> {}], TRUE)
    /\ open' = FALSE
    /\ UNCHANGED <<removed, at, explore, query, found>>

\* Enter, with whatever is typed, and while its results are loading too.
handleKeyDown == handleSearch(query)

SearchAll == noResults /\ handleSearch(query)

SeeAllResults == results /\ handleSearch(query)

SampleQuery == at = "home" /\ \E q \in Queries : handleSearch(q)

\* A plate of the results.  The home page keeps its query, the navigation bar,
\* which stays mounted, empties its own.
OpenResult ==
    /\ results
    /\ Go("other", NoFilter, FALSE)
    /\ open' = FALSE
    /\ UNCHANGED <<removed, at, explore>>

HeroResult == at = "home" /\ OpenResult /\ UNCHANGED <<query, found>>

NavbarResult == at # "home" /\ OpenResult /\ Typed(NoQuery)

\* Links of the page, Back and Forward.
Follow ==
    /\ \/ \E f \in Addresses : Go("explore", f, FALSE)
       \/ \E target \in {"home", "other"} : Go(target, NoFilter, FALSE)
    /\ UNCHANGED <<removed, at, explore, box>>

\* The component of /explore takes the filters of the address when it is mounted,
\* and keeps its own while it stays.  The box of the navigation bar stays mounted
\* from one page to another where it is shown.
Arrive ==
    /\ going # NoWay
    /\ at' = going.to /\ going' = NoWay
    /\ IF going.to = at THEN UNCHANGED <<filter, page, pageSize, list>>
       ELSE /\ filter' = going.filter
            /\ page' = 1 /\ pageSize' = DefaultSize
            /\ list' \in IF going.to = "explore" THEN Asked(going.filter) ELSE {Loading}
    /\ IF going.to = at THEN UNCHANGED box
       ELSE query' = NoQuery /\ open' = FALSE /\ found' = NoReply
    /\ UNCHANGED <<removed, options>>

--------------------------------------------------------------------------------

Next ==
    \/ RemovePlate \/ ListAnswered \/ ListFailed \/ OptionsAnswered
    \/ TypeSearch \/ BadgesDropdown \/ CategoriesDropdown \/ TagsDropdown
    \/ Chip \/ clearAllFilters
    \/ PreviousPage \/ NextPage \/ GoToPage \/ ChoosePageSize
    \/ TypeQuery \/ Focus \/ Close \/ ClearQuery \/ QueryAnswered \/ QueryFailed
    \/ handleKeyDown \/ SearchAll \/ SeeAllResults \/ SampleQuery
    \/ HeroResult \/ NavbarResult \/ Follow \/ Arrive

Spec == Init /\ [][Next]_vars

--------------------------------------------------------------------------------
(* Properties. *)

\* As long as no plate is removed the page is one of the pages there are, whatever
\* filter, size and page were chosen while lists were loading or failed: no page
\* beyond the last is shown.
PageInRange ==
    at = "explore" /\ list.state = "answered" /\ removed = 0 =>
        page \in 1..totalPages

\* Searching from a box leads to /explore with that search, although /explore reads
\* its address only when it is mounted: no box is shown where it is mounted already.
SearchTakesEffect ==
    [][going.searched /\ at' = going.to /\ going' = NoWay => filter'.search = going.filter.search]_vars
=============================================================================
