------------------------ MODULE ExplorePage_proofs ------------------------
(***************************************************************************)
(* What holds of the page /explore and of the search boxes for every set   *)
(* of filters, every number of plates and every page size.                 *)
(***************************************************************************)
EXTENDS ExplorePage, Integers, TLAPS

USE ExploreAssumption

\* The record of an empty filter with the search q is a filter.
LEMMA SearchIsFilter ==
    ASSUME NEW q \in Searches
    PROVE  [search |-> q, picked |-> {}] \in Filters
  BY DEF Filters

LEMMA NoFilterType == NoFilter \in Filters /\ Loading \in Answers
  BY DEF NoFilter, Filters, Searches, Loading, Answers

\* What a box gets is a reply.
LEMMA ReplyType ==
    ASSUME NEW q, NEW n
    PROVE  Reply(q, n) \subseteq Replies /\ NoReply \in Replies
  BY DEF Reply, Left, Replies, NoReply

\* What the server answers is a natural number.
LEMMA MatchingType ==
    ASSUME NEW f \in Filters, NEW n \in Nat
    PROVE  Matching(f, n) \in Nat
  <1>1. Total[f] \in Nat
    OBVIOUS
  <1> QED
    BY <1>1 DEF Matching

LEMMA AskedType ==
    ASSUME NEW f \in Filters, removed \in Nat
    PROVE  Asked(f) \subseteq Answers
  BY MatchingType DEF Asked, Answers, Loading

LEMMA AnswerType ==
    ASSUME NEW f \in Filters, removed \in Nat
    PROVE  Answer(f) \in Answers
  BY MatchingType DEF Answer, Answers

\* There is always a first page.
LEMMA TotalPagesType ==
    ASSUME list \in Answers, pageSize \in Sizes
    PROVE  totalPages \in Nat \ {0}
  <1>1. /\ list.total \in Nat
        /\ pageSize \in Nat \ {0}
    BY DEF Answers
  <1>2. (list.total + pageSize - 1) \div pageSize \in Int
    BY <1>1
  <1> QED
    BY <1>2 DEF totalPages, Larger

--------------------------------------------------------------------------------
(* Types. *)

LEMMA ChangeFilterType ==
    ASSUME TypeOK, NEW f \in Filters, ChangeFilter(f)
    PROVE  TypeOK'
  BY AskedType DEF ChangeFilter, TypeOK, box

LEMMA TurnType ==
    ASSUME TypeOK, NEW n \in Nat \ {0}, Turn(n)
    PROVE  TypeOK'
  BY AskedType DEF Turn, TypeOK, box

LEMMA PickedType ==
    ASSUME TypeOK, NEW o \in Options
    PROVE  /\ [filter EXCEPT !.picked = @ \cup {o}] \in Filters
           /\ [filter EXCEPT !.picked = @ \ {o}] \in Filters
  BY DEF TypeOK, Filters

LEMMA CheckboxType ==
    ASSUME TypeOK, NEW o \in Options, NEW c, FilterCheckbox(o, c)
    PROVE  TypeOK'
  <1> DEFINE f == [filter EXCEPT
          !.picked = IF o \in @ THEN @ \ {o} ELSE @ \cup {o}]
  <1>1. f \in Filters
    BY DEF TypeOK, Filters
  <1>2. ChangeFilter(f)
    BY DEF FilterCheckbox
  <1> QED
    BY <1>1, <1>2, ChangeFilterType

LEMMA TypedType ==
    ASSUME TypeOK, NEW q \in Searches, Typed(q)
    PROVE  query' \in Searches /\ found' \in Replies
  BY ReplyType DEF Typed

LEMMA HandleSearchType ==
    ASSUME TypeOK, NEW q \in Searches, handleSearch(q)
    PROVE  TypeOK'
  BY SearchIsFilter DEF handleSearch, Go, TypeOK, explore, Pages

\* Every variable keeps its type.
THEOREM ExploreTypes == Spec => []TypeOK
<1>1. Init => TypeOK
  <2> SUFFICES ASSUME Init PROVE TypeOK
    OBVIOUS
  <2>1. filter \in Filters
    BY NoFilterType DEF Init
  <2>2. list \in Answers /\ found \in Replies
    BY NoFilterType, ReplyType DEF Init
  <2>3. query \in Searches /\ open \in BOOLEAN
    BY DEF Init, Searches
  <2> QED
    BY <2>1, <2>2, <2>3 DEF Init, TypeOK
<1>2. TypeOK /\ [Next]_vars => TypeOK'
  <2> SUFFICES ASSUME TypeOK, [Next]_vars PROVE TypeOK'
    OBVIOUS
  <2> USE DEF explore, box
  <2>1. CASE RemovePlate
    BY <2>1 DEF RemovePlate, TypeOK
  <2>2. CASE ListAnswered
    BY <2>2, AnswerType DEF ListAnswered, TypeOK
  <2>3. CASE ListFailed
    BY <2>3 DEF ListFailed, TypeOK, Answers
  <2>4. CASE OptionsAnswered
    BY <2>4 DEF OptionsAnswered, TypeOK
  <2>5. CASE TypeSearch
    <3>1. PICK q \in Searches : ChangeFilter([filter EXCEPT !.search = q])
      BY <2>5 DEF TypeSearch
    <3>2. [filter EXCEPT !.search = q] \in Filters
      BY DEF TypeOK, Filters
    <3> QED
      BY <3>1, <3>2, ChangeFilterType
  <2>6. CASE BadgesDropdown
    BY <2>6, CheckboxType DEF BadgesDropdown, Options
  <2>7. CASE CategoriesDropdown
    BY <2>7, CheckboxType DEF CategoriesDropdown, Options
  <2>8. CASE TagsDropdown
    BY <2>8, CheckboxType DEF TagsDropdown, Options
  <2>9. CASE Chip
    <3>1. CASE ChangeFilter([filter EXCEPT !.search = NoQuery])
      <4>1. [filter EXCEPT !.search = NoQuery] \in Filters
        BY DEF TypeOK, Filters, Searches
      <4> QED
        BY <3>1, <4>1, ChangeFilterType
    <3>2. CASE \E o \in filter.picked : ChangeFilter([filter EXCEPT !.picked = @ \ {o}])
      <4>1. PICK o \in filter.picked : ChangeFilter([filter EXCEPT !.picked = @ \ {o}])
        BY <3>2
      <4>2. o \in Options
        BY DEF TypeOK, Filters
      <4> QED
        BY <4>1, <4>2, PickedType, ChangeFilterType
    <3> QED
      BY <2>9, <3>1, <3>2 DEF Chip
  <2>10. CASE clearAllFilters
    <3>1. NoFilter \in Filters
      BY DEF NoFilter, Filters, Searches
    <3> QED
      BY <2>10, <3>1, ChangeFilterType DEF clearAllFilters
  <2>11. CASE PreviousPage
    <3>1. Larger(1, page - 1) \in Nat \ {0}
      BY DEF TypeOK, Larger
    <3> QED
      BY <2>11, <3>1, TurnType DEF PreviousPage
  <2>12. CASE NextPage
    <3>1. totalPages \in Nat \ {0}
      BY TotalPagesType DEF TypeOK
    <3>2. Smaller(totalPages, page + 1) \in Nat \ {0}
      BY <3>1 DEF TypeOK, Smaller
    <3> QED
      BY <2>12, <3>2, TurnType DEF NextPage
  <2>13. CASE GoToPage
    <3>1. Window \subseteq Nat \ {0}
      BY TotalPagesType DEF Window, TypeOK
    <3> QED
      BY <2>13, <3>1, TurnType DEF GoToPage
  <2>14. CASE ChoosePageSize
    BY <2>14, AskedType DEF ChoosePageSize, TypeOK
  <2>15. CASE TypeQuery
    BY <2>15, TypedType DEF TypeQuery, TypeOK
  <2>16. CASE Focus
    BY <2>16 DEF Focus, TypeOK
  <2>17. CASE Close
    BY <2>17 DEF Close, TypeOK
  <2>18. CASE ClearQuery
    BY <2>18, TypedType DEF ClearQuery, TypeOK, Searches
  <2>19. CASE QueryAnswered
    BY <2>19, ReplyType DEF QueryAnswered, TypeOK
  <2>20. CASE QueryFailed
    BY <2>20 DEF QueryFailed, TypeOK, Replies
  <2>21. CASE \/ handleKeyDown \/ SearchAll \/ SeeAllResults \/ SampleQuery
    BY <2>21, HandleSearchType
    DEF handleKeyDown, SearchAll, SeeAllResults, SampleQuery, TypeOK, Searches
  <2>22. CASE HeroResult
    BY <2>22 DEF HeroResult, OpenResult, Go, TypeOK, Pages, NoFilter, Filters, Searches
  <2>23. CASE NavbarResult
    <3>1. query' \in Searches /\ found' \in Replies
      BY <2>23, TypedType DEF NavbarResult, Searches
    <3> QED
      BY <2>23, <3>1
      DEF NavbarResult, OpenResult, Go, TypeOK, Pages, NoFilter, Filters, Searches
  <2>24. CASE Follow
    <3>1. going' \in [to : Pages, filter : Filters, searched : BOOLEAN]
      <4>1. CASE \E f \in Addresses : Go("explore", f, FALSE)
        BY <4>1 DEF Go, Pages
      <4>2. CASE \E target \in {"home", "other"} : Go(target, NoFilter, FALSE)
        BY <4>2, NoFilterType DEF Go, Pages
      <4> QED
        BY <2>24, <4>1, <4>2 DEF Follow
    <3> QED
      BY <2>24, <3>1 DEF Follow, TypeOK
  <2>25. CASE Arrive
    <3>1. /\ going \in [to : Pages, filter : Filters, searched : BOOLEAN]
          /\ going.to \in Pages /\ going.filter \in Filters
      BY <2>25 DEF Arrive, TypeOK
    <3>2. list' \in Answers
      BY <2>25, <3>1, AskedType DEF Arrive, TypeOK, Answers, Loading
    <3>3. CASE going.to = at
      BY <2>25, <3>1, <3>2, <3>3 DEF Arrive, TypeOK
    <3>4. CASE going.to # at
      <4>1. list' \in Answers /\ found' \in Replies
        BY <2>25, <3>2, <3>4, ReplyType DEF Arrive
      <4>2. query' \in Searches /\ open' \in BOOLEAN
        BY <2>25, <3>4 DEF Arrive, Searches
      <4> QED
        BY <2>25, <3>1, <3>4, <4>1, <4>2 DEF Arrive, TypeOK
    <3> QED
      BY <3>3, <3>4
  <2>26. CASE UNCHANGED vars
    BY <2>26 DEF vars, TypeOK
  <2> QED
    BY <2>1, <2>2, <2>3, <2>4, <2>5, <2>6, <2>7, <2>8, <2>9, <2>10, <2>11, <2>12,
       <2>13, <2>14, <2>15, <2>16, <2>17, <2>18, <2>19, <2>20, <2>21, <2>22, <2>23,
       <2>24, <2>25, <2>26 DEF Next
<1> QED
  BY <1>1, <1>2, PTL DEF Spec

--------------------------------------------------------------------------------
(* The page is one of the pages there are. *)

PagesOf(total, size) == Larger(1, (total + size - 1) \div size)

\* While nothing is removed the list is the one of the filter or, before the first
\* answer, empty: the buttons never lead past the pages of the filter.
PagesKept ==
    at = "explore" /\ removed = 0 =>
        /\ list.total \in {0, Total[filter]}
        /\ list.state = "answered" => list.total = Total[filter]
        /\ page <= PagesOf(Total[filter], pageSize)

\* An empty list has one page, and no list has fewer.
LEMMA FewestPages ==
    ASSUME NEW total \in Nat, NEW size \in Nat \ {0}
    PROVE  /\ PagesOf(total, size) \in Nat \ {0}
           /\ PagesOf(0, size) = 1
  <1>1. (0 + size - 1) \div size = 0
    OBVIOUS
  <1>2. (total + size - 1) \div size \in Int
    OBVIOUS
  <1> QED
    BY <1>1, <1>2 DEF PagesOf, Larger

\* Every list that is asked for, or kept, satisfies the part of PagesKept about it.
LEMMA AskedTotal ==
    ASSUME NEW f \in Filters, removed = 0, NEW l \in Asked(f) \cup {Answer(f)}
    PROVE  /\ l.total \in {0, Total[f]}
           /\ l.state = "answered" => l.total = Total[f]
  <1>1. Total[f] \in Nat
    OBVIOUS
  <1>2. Matching(f, 0) = Total[f]
    BY <1>1 DEF Matching
  <1>3. CASE l = Loading
    BY <1>3 DEF Loading
  <1>4. CASE \E n \in 0..removed : l = [state |-> "answered", total |-> Matching(f, n)]
    BY <1>2, <1>4
  <1>5. CASE l = Answer(f)
    BY <1>2, <1>5 DEF Answer
  <1> QED
    BY <1>3, <1>4, <1>5 DEF Asked

\* The pages there seem to be are at most the pages of the filter.
LEMMA PagesBounded ==
    ASSUME TypeOK, PagesKept, at = "explore", removed = 0
    PROVE  totalPages <= PagesOf(Total[filter], pageSize)
  <1>1. /\ Total[filter] \in Nat
        /\ pageSize \in Nat \ {0}
    BY DEF TypeOK
  <1>2. totalPages = PagesOf(list.total, pageSize)
    BY DEF totalPages, PagesOf
  <1>3. list.total \in {0, Total[filter]}
    BY DEF PagesKept
  <1> QED
    BY <1>1, <1>2, <1>3, FewestPages

LEMMA ChangeFilterKeepsPages ==
    ASSUME TypeOK, NEW f \in Filters, ChangeFilter(f)
    PROVE  PagesKept'
  <1> SUFFICES ASSUME removed = 0 PROVE PagesKept'
    BY DEF ChangeFilter, PagesKept
  <1>1. Total[f] \in Nat /\ pageSize \in Nat \ {0}
    BY DEF TypeOK
  <1>2. filter' = f /\ page' = 1 /\ pageSize' = pageSize /\ list' \in Asked(f)
    BY DEF ChangeFilter
  <1>3. page' <= PagesOf(Total[f], pageSize)
    BY <1>1, <1>2, FewestPages
  <1> QED
    BY <1>2, <1>3, AskedTotal DEF PagesKept

LEMMA TurnKeepsPages ==
    ASSUME TypeOK, PagesKept, NEW n \in Nat \ {0}, Turn(n),
           removed = 0 => n <= PagesOf(Total[filter], pageSize)
    PROVE  PagesKept'
  <1>1. /\ filter' = filter /\ page' = n /\ pageSize' = pageSize
        /\ list' \in Asked(filter) /\ removed' = removed
    BY DEF Turn
  <1> QED
    BY <1>1, AskedTotal DEF PagesKept, TypeOK

\* PageInRange: while no plate is removed the page shown is one of the pages of the
\* answer, whatever was chosen while lists were loading or had failed.
THEOREM ExplorePageInRange == Spec => []PageInRange
<1>1. Init => PagesKept
  <2> SUFFICES ASSUME Init PROVE PagesKept
    OBVIOUS
  <2>1. filter \in Filters
    BY NoFilterType DEF Init
  <2>2. Total[filter] \in Nat /\ pageSize \in Nat \ {0}
    BY <2>1 DEF Init
  <2>3. page <= PagesOf(Total[filter], pageSize)
    BY <2>2, FewestPages DEF Init
  <2> QED
    BY <2>3 DEF Init, PagesKept, Loading
<1>2. TypeOK /\ TypeOK' /\ PagesKept /\ [Next]_vars => PagesKept'
  <2> SUFFICES ASSUME TypeOK, TypeOK', PagesKept, [Next]_vars PROVE PagesKept'
    OBVIOUS
  <2> USE DEF explore, box
  <2>1. CASE RemovePlate
    BY <2>1 DEF RemovePlate, PagesKept, TypeOK
  <2>2. CASE ListAnswered
    BY <2>2, AskedTotal DEF ListAnswered, PagesKept, TypeOK
  <2>3. CASE ListFailed
    BY <2>3 DEF ListFailed, PagesKept, TypeOK, Answers
  <2>4. CASE TypeSearch
    <3>1. PICK q \in Searches : ChangeFilter([filter EXCEPT !.search = q])
      BY <2>4 DEF TypeSearch
    <3>2. [filter EXCEPT !.search = q] \in Filters
      BY DEF TypeOK, Filters
    <3> QED
      BY <3>1, <3>2, ChangeFilterKeepsPages
  <2>5. ASSUME NEW o \in Options, NEW c, FilterCheckbox(o, c) PROVE PagesKept'
    <3> DEFINE f == [filter EXCEPT !.picked = IF o \in @ THEN @ \ {o} ELSE @ \cup {o}]
    <3>1. f \in Filters
      BY DEF TypeOK, Filters
    <3>2. ChangeFilter(f)
      BY <2>5 DEF FilterCheckbox
    <3> QED
      BY <3>1, <3>2, ChangeFilterKeepsPages
  <2>6. CASE BadgesDropdown \/ CategoriesDropdown \/ TagsDropdown
    BY <2>5, <2>6 DEF BadgesDropdown, CategoriesDropdown, TagsDropdown, Options
  <2>7. CASE Chip
    <3>1. CASE ChangeFilter([filter EXCEPT !.search = NoQuery])
      <4>1. [filter EXCEPT !.search = NoQuery] \in Filters
        BY DEF TypeOK, Filters, Searches
      <4> QED
        BY <3>1, <4>1, ChangeFilterKeepsPages
    <3>2. CASE \E o \in filter.picked : ChangeFilter([filter EXCEPT !.picked = @ \ {o}])
      <4>1. PICK o \in filter.picked : ChangeFilter([filter EXCEPT !.picked = @ \ {o}])
        BY <3>2
      <4>2. o \in Options
        BY DEF TypeOK, Filters
      <4> QED
        BY <4>1, <4>2, PickedType, ChangeFilterKeepsPages
    <3> QED
      BY <2>7, <3>1, <3>2 DEF Chip
  <2>8. CASE clearAllFilters
    BY <2>8, NoFilterType, ChangeFilterKeepsPages DEF clearAllFilters
  <2>9. CASE PreviousPage
    <3>1. Larger(1, page - 1) \in Nat \ {0}
      BY DEF TypeOK, Larger
    <3>2. removed = 0 => Larger(1, page - 1) <= PagesOf(Total[filter], pageSize)
      <4> SUFFICES ASSUME removed = 0
                   PROVE  Larger(1, page - 1) <= PagesOf(Total[filter], pageSize)
        OBVIOUS
      <4>1. Total[filter] \in Nat /\ pageSize \in Nat \ {0}
        BY DEF TypeOK
      <4>2. PagesOf(Total[filter], pageSize) \in Nat \ {0}
        BY <4>1, FewestPages
      <4>3. page <= PagesOf(Total[filter], pageSize)
        BY <2>9 DEF PreviousPage, Turn, PagesKept
      <4> QED
        BY <4>2, <4>3 DEF Larger, TypeOK
    <3> QED
      BY <2>9, <3>1, <3>2, TurnKeepsPages DEF PreviousPage
  <2>10. CASE NextPage
    <3>1. totalPages \in Nat \ {0}
      BY TotalPagesType DEF TypeOK
    <3>2. /\ Smaller(totalPages, page + 1) \in Nat \ {0}
          /\ Smaller(totalPages, page + 1) <= totalPages
      BY <3>1 DEF TypeOK, Smaller
    <3>3. at = "explore"
      BY <2>10 DEF NextPage, Turn
    <3>4. removed = 0 => Smaller(totalPages, page + 1) <= PagesOf(Total[filter], pageSize)
      <4> SUFFICES ASSUME removed = 0
                   PROVE  Smaller(totalPages, page + 1) <= PagesOf(Total[filter], pageSize)
        OBVIOUS
      <4>1. PagesOf(Total[filter], pageSize) \in Nat
        BY FewestPages DEF TypeOK
      <4> QED
        BY <3>1, <3>2, <3>3, <4>1, PagesBounded
    <3> QED
      BY <2>10, <3>2, <3>4, TurnKeepsPages DEF NextPage
  <2>11. CASE GoToPage
    <3>1. PICK n \in Window : Turn(n)
      BY <2>11 DEF GoToPage
    <3>2. totalPages \in Nat \ {0}
      BY TotalPagesType DEF TypeOK
    <3>3. n \in Nat \ {0} /\ n <= totalPages
      BY <3>1, <3>2 DEF Window
    <3>4. removed = 0 => n <= PagesOf(Total[filter], pageSize)
      <4> SUFFICES ASSUME removed = 0 PROVE n <= PagesOf(Total[filter], pageSize)
        OBVIOUS
      <4>1. PagesOf(Total[filter], pageSize) \in Nat
        BY FewestPages DEF TypeOK
      <4>2. totalPages <= PagesOf(Total[filter], pageSize)
        BY <3>1, PagesBounded DEF Turn
      <4> QED
        BY <3>2, <3>3, <4>1, <4>2
    <3> QED
      BY <3>1, <3>3, <3>4, TurnKeepsPages
  <2>12. CASE ChoosePageSize
    <3>1. /\ filter' = filter /\ page' = 1 /\ list' \in Asked(filter) /\ removed' = removed
      BY <2>12 DEF ChoosePageSize
    <3>2. Total[filter'] \in Nat /\ pageSize' \in Nat \ {0}
      BY DEF TypeOK
    <3>3. page' <= PagesOf(Total[filter'], pageSize')
      BY <3>1, <3>2, FewestPages
    <3> QED
      BY <3>1, <3>3, AskedTotal DEF PagesKept, TypeOK
  <2>13. CASE Arrive
    <3>1. CASE going.to = at
      BY <2>13, <3>1 DEF Arrive, PagesKept
    <3>2. CASE going.to # at
      <4> SUFFICES ASSUME going.to = "explore", removed = 0 PROVE PagesKept'
        BY <2>13 DEF Arrive, PagesKept
      <4>1. filter' = going.filter /\ page' = 1 /\ list' \in Asked(going.filter)
        BY <2>13, <3>2 DEF Arrive
      <4>2. Total[filter'] \in Nat /\ pageSize' \in Nat \ {0} /\ filter' \in Filters
        BY DEF TypeOK
      <4>3. page' <= PagesOf(Total[filter'], pageSize')
        BY <4>1, <4>2, FewestPages
      <4> QED
        BY <4>1, <4>2, <4>3, AskedTotal DEF PagesKept
    <3> QED
      BY <3>1, <3>2
  <2>14. CASE UNCHANGED <<removed, at, filter, page, pageSize, list>>
    BY <2>14 DEF PagesKept
  <2>15. CASE OptionsAnswered
    BY <2>14, <2>15 DEF OptionsAnswered
  <2>16. CASE TypeQuery \/ Focus \/ Close \/ ClearQuery \/ QueryAnswered \/ QueryFailed
    BY <2>14, <2>16 DEF TypeQuery, Focus, Close, ClearQuery, QueryAnswered, QueryFailed
  <2>17. CASE \/ handleKeyDown \/ SearchAll \/ SeeAllResults \/ SampleQuery
              \/ HeroResult \/ NavbarResult \/ Follow
    BY <2>14, <2>17 DEF handleKeyDown, SearchAll, SeeAllResults, SampleQuery, handleSearch,
       HeroResult, NavbarResult, OpenResult, Follow
  <2>18. CASE UNCHANGED vars
    BY <2>14, <2>18 DEF vars
  <2> QED
    BY <2>1, <2>2, <2>3, <2>4, <2>6, <2>7, <2>8, <2>9, <2>10, <2>11, <2>12, <2>13,
       <2>15, <2>16, <2>17, <2>18 DEF Next
<1>3. TypeOK /\ PagesKept => PageInRange
  <2> SUFFICES ASSUME TypeOK, PagesKept, at = "explore", list.state = "answered", removed = 0
               PROVE  page \in 1..totalPages
    BY DEF PageInRange
  <2>1. totalPages \in Nat \ {0}
    BY TotalPagesType DEF TypeOK
  <2>2. totalPages = PagesOf(Total[filter], pageSize)
    BY DEF PagesKept, totalPages, PagesOf
  <2> QED
    BY <2>1, <2>2 DEF PagesKept, TypeOK
<1> QED
  BY <1>1, <1>2, <1>3, ExploreTypes, PTL DEF Spec

--------------------------------------------------------------------------------
(* A search takes effect. *)

\* A search is under way only towards /explore and away from another page: the
\* component that reads the address is about to be mounted.
SearchLeaves == going.searched => going.to = "explore" /\ at # "explore"

LEMMA HandleSearchLeaves ==
    ASSUME NEW q, handleSearch(q)
    PROVE  SearchLeaves' /\ going' # NoWay /\ going'.searched
  BY DEF handleSearch, Go, SearchLeaves, SearchShown, NoWay

LEMMA SearchLeavesKept == SearchLeaves /\ [Next]_vars => SearchLeaves'
  <1> SUFFICES ASSUME SearchLeaves, [Next]_vars PROVE SearchLeaves'
    OBVIOUS
  <1>1. CASE UNCHANGED <<at, going>>
    BY <1>1 DEF SearchLeaves
  <1>2. CASE \/ RemovePlate \/ ListAnswered \/ ListFailed \/ OptionsAnswered
             \/ ChoosePageSize \/ PreviousPage \/ NextPage \/ GoToPage
    BY <1>1, <1>2 DEF RemovePlate, ListAnswered, ListFailed, OptionsAnswered,
       ChoosePageSize, PreviousPage, NextPage, GoToPage, Turn
  <1>3. CASE \/ TypeSearch \/ BadgesDropdown \/ CategoriesDropdown \/ TagsDropdown
             \/ Chip \/ clearAllFilters
    BY <1>1, <1>3 DEF TypeSearch, BadgesDropdown, CategoriesDropdown, TagsDropdown,
       Chip, clearAllFilters, FilterCheckbox, ChangeFilter
  <1>4. CASE \/ TypeQuery \/ Focus \/ Close \/ ClearQuery \/ QueryAnswered \/ QueryFailed
    BY <1>1, <1>4 DEF TypeQuery, Focus, Close, ClearQuery, QueryAnswered, QueryFailed
  <1>5. CASE handleKeyDown \/ SearchAll \/ SeeAllResults \/ SampleQuery
    BY <1>5, HandleSearchLeaves DEF handleKeyDown, SearchAll, SeeAllResults, SampleQuery
  <1>6. CASE HeroResult \/ NavbarResult
    BY <1>6 DEF HeroResult, NavbarResult, OpenResult, Go, SearchLeaves
  <1>7. CASE Follow
    BY <1>7 DEF Follow, Go, SearchLeaves
  <1>8. CASE Arrive
    BY <1>8 DEF Arrive, SearchLeaves, NoWay
  <1>9. CASE UNCHANGED vars
    BY <1>1, <1>9 DEF vars
  <1> QED
    BY <1>2, <1>3, <1>4, <1>5, <1>6, <1>7, <1>8, <1>9 DEF Next

\* SearchTakesEffect: /explore reads its address only when it is mounted, and a search
\* from a box never meets a component that is mounted already.
THEOREM ExploreSearchTakesEffect == Spec => SearchTakesEffect
<1> DEFINE Effect ==
      going.searched /\ at' = going.to /\ going' = NoWay => filter'.search = going.filter.search
<1>1. Init => SearchLeaves
  BY DEF Init, SearchLeaves, NoWay
<1>2. SearchLeaves /\ [Next]_vars => [Effect]_vars
  <2> SUFFICES ASSUME SearchLeaves, [Next]_vars,
                      going.searched, at' = going.to, going' = NoWay
               PROVE  filter'.search = going.filter.search
    OBVIOUS
  <2>1. going.to = "explore" /\ at # "explore"
    BY DEF SearchLeaves
  <2>2. at' # at
    BY <2>1
  <2>3. CASE Arrive
    BY <2>1, <2>3 DEF Arrive
  <2>4. CASE ~ Arrive
    <3>1. at' = at
      BY <2>4 DEF Next, vars, RemovePlate, ListAnswered, ListFailed, OptionsAnswered,
         ChoosePageSize, PreviousPage, NextPage, GoToPage, Turn, TypeSearch, BadgesDropdown,
         CategoriesDropdown, TagsDropdown, Chip, clearAllFilters, FilterCheckbox,
         ChangeFilter, TypeQuery, Focus, Close, ClearQuery, QueryAnswered, QueryFailed,
         handleKeyDown, SearchAll, SeeAllResults, SampleQuery, handleSearch, HeroResult,
         NavbarResult, OpenResult, Follow
    <3> QED
      BY <2>2, <3>1
  <2> QED
    BY <2>3, <2>4
<1> QED
  BY <1>1, <1>2, SearchLeavesKept, PTL DEF Spec, SearchTakesEffect
=============================================================================
