----------------------------- MODULE PlateButtons -----------------------------
(***************************************************************************)
(* The buttons of a plate's page in one browser tab of the account Me      *)
(* (web/src/presentation/components/plates/BookmarkButtonClient.tsx and    *)
(* PlateRatingCard.tsx) above the handlers of PlateEngagement.  The        *)
(* server renders the page from what it reads at that moment, the buttons  *)
(* are mounted with it at a later one, and answers may be lost on their    *)
(* way.  Other accounts, and other tabs of Me, send the same requests.     *)
(***************************************************************************)
EXTENDS PlateEngagement

CONSTANTS
    Me,          \* the account of the tab, signed in throughout
    MaxPages     \* bound: renderings on their way or kept by the router

VARIABLES
    pages,        \* the renderings
    bookmarkCall, \* the request the bookmark button waits for, 0 for none
    ratingCall,   \* the request the card waits for, 0 for none
    bookmarked,   \* the state of the button
    rating,       \* the stars chosen in the card, 0 for none
    userRating,   \* the own rating the card shows, 0 for none
    initial,      \* the own rating the server rendered, 0 for none
    stale,        \* a rating was answered and the page is not rendered again yet
    sure,         \* history: nothing has happened since the button was known to be right
    apart,        \* history: no other toggle of Me since the button's request was sent
    unfounded     \* history: ratings of Me that were refused or deleted

calls == <<bookmarkCall, ratingCall>>
card == <<rating, userRating, initial, stale>>
buttonVars == <<engagementVars, pages, calls, bookmarked, card, sure, apart, unfounded>>

ASSUME PlateButtonsAssumption ==
    /\ Me \in Accounts
    /\ MaxPages \in Nat

\* current, history: no toggle of Me has been under way since the page was read.
Renderings == [bookmarked : BOOLEAN, userRating : Ratings \cup {0}, current : BOOLEAN]

ButtonsTypeOK ==
    /\ EngagementTypeOK
    /\ pages \subseteq Renderings
    /\ {bookmarkCall, ratingCall} \subseteq 0..Len(requests)
    /\ {bookmarked, stale, sure, apart} \subseteq BOOLEAN
    /\ {rating, userRating, initial} \subseteq Ratings \cup {0}
    /\ unfounded \subseteq Ratings

ButtonsInit ==
    /\ EngagementInit
    /\ pages = {}
    /\ bookmarkCall = 0 /\ ratingCall = 0
    /\ bookmarked = FALSE
    /\ rating = 0 /\ userRating = 0 /\ initial = 0
    /\ stale = FALSE
    /\ sure = TRUE /\ apart = FALSE /\ unfounded = {}

--------------------------------------------------------------------------------
(* Renderings of the page. *)

\* The own rating the server renders: of several reviews, any.
OwnRating == IF Own(Me) = {} THEN {0} ELSE {v.rating : v \in Own(Me)}

\* What one reading of the plate gives: of several rows of Me, any; a row or a review
\* that cannot be read is left out.
ReadPage(page) ==
    \/ /\ page.bookmarked \in {f = "on" : f \in FoundRow(Me)}
       /\ page.userRating \in OwnRating
       /\ page.current = (Toggles(Me) = {})
    \/ ~page.bookmarked /\ page.userRating \in OwnRating \cup {0} /\ ~page.current

\* The server renders the page for this tab; the router keeps some renderings.
ReadPlate ==
    /\ \E page \in Renderings, kept \in SUBSET pages :
          /\ ReadPage(page)
          /\ Cardinality(kept) < MaxPages
          /\ pages' = kept \cup {page}
    /\ UNCHANGED <<engagementVars, calls, bookmarked, card, sure, apart, unfounded>>

\* A slip: the button keeps its state, and the old one is taken for the page's.
Mounted_KeepsButton(page) ==
    /\ bookmarkCall' = 0 /\ ratingCall' = 0
    /\ rating' = 0 /\ userRating' = page.userRating /\ initial' = page.userRating
    /\ stale' = FALSE
    /\ sure' = page.current
    /\ UNCHANGED <<engagementVars, pages, bookmarked, apart, unfounded>>

\* The tab comes to the page, with a rendering just arrived or a kept one; of requests
\* sent before nobody takes the answer.
Mounted(page) ==
    /\ bookmarkCall' = 0 /\ ratingCall' = 0
    /\ bookmarked' = page.bookmarked
    /\ rating' = 0 /\ userRating' = page.userRating /\ initial' = page.userRating
    /\ stale' = FALSE
    /\ sure' = page.current
    /\ UNCHANGED <<engagementVars, pages, apart, unfounded>>

\* router.refresh: the card follows a rating only when the server's changed, the
\* button never.
Refreshed(page) ==
    /\ stale /\ stale' = FALSE
    /\ initial' = page.userRating
    /\ userRating' = IF page.userRating # initial THEN page.userRating ELSE userRating
    /\ UNCHANGED <<engagementVars, pages, calls, bookmarked, rating, sure, apart, unfounded>>

--------------------------------------------------------------------------------
(* The bookmark button. *)

handleBookmarkToggle ==
    /\ bookmarkCall = 0
    /\ Send("bookmark", Me, IF bookmarked THEN 0 ELSE 1)
    /\ bookmarkCall' = Len(requests')
    /\ apart' = (Toggles(Me) = {})
    /\ UNCHANGED <<tables, others, history, pages, ratingCall, bookmarked, card, sure, unfounded>>

\* A slip: the heart is filled whatever the answer says.
BookmarkAnswered_Anyway ==
    /\ bookmarkCall # 0 /\ Finished(bookmarkCall)
    /\ bookmarkCall' = 0
    /\ bookmarked' = ~bookmarked
    /\ sure' = (sure \/ (apart /\ requests[bookmarkCall].at = "done"))
    /\ UNCHANGED <<engagementVars, pages, ratingCall, card, apart, unfounded>>

BookmarkAnswered ==
    LET done == requests[bookmarkCall].at = "done" IN
    /\ bookmarkCall # 0 /\ Finished(bookmarkCall)
    /\ bookmarkCall' = 0
    /\ bookmarked' = IF done THEN ~bookmarked ELSE bookmarked
    /\ sure' = (sure \/ (apart /\ done))
    /\ UNCHANGED <<engagementVars, pages, ratingCall, card, apart, unfounded>>

\* The answer is lost, or the tab gives up before the server has read the request:
\* to the button both are errors.
BookmarkLost ==
    /\ bookmarkCall # 0 /\ bookmarkCall' = 0
    /\ sure' = (sure /\ requests[bookmarkCall].at \in {"sent", "failed"})
    /\ UNCHANGED <<engagementVars, pages, ratingCall, bookmarked, card, apart, unfounded>>

--------------------------------------------------------------------------------
(* The card. *)

\* It offers its stars while it shows no rating and the plate is not one's own.
Stars == Me # Owner /\ userRating = 0 /\ ratingCall = 0

ChooseStars ==
    /\ Stars
    /\ \E n \in Ratings \ {rating} : rating' = n
    /\ UNCHANGED <<engagementVars, pages, calls, bookmarked, userRating, initial, stale,
                   sure, apart, unfounded>>

\* A slip: it can be sent without stars.
submitRating_Unchosen ==
    /\ Stars
    /\ Send("review", Me, rating)
    /\ ratingCall' = Len(requests')
    /\ UNCHANGED <<tables, others, history, pages, bookmarkCall, bookmarked, card,
                   sure, apart, unfounded>>

submitRating ==
    /\ Stars /\ rating # 0
    /\ Send("review", Me, rating)
    /\ ratingCall' = Len(requests')
    /\ UNCHANGED <<tables, others, history, pages, bookmarkCall, bookmarked, card,
                   sure, apart, unfounded>>

\* A slip: every answer but a success ends like a conflict.
RatingAnswered_AnyError ==
    LET r == requests[ratingCall] IN
    /\ ratingCall # 0 /\ Finished(ratingCall)
    /\ ratingCall' = 0
    /\ userRating' = r.want
    /\ rating' = IF r.at = "done" THEN 0 ELSE rating
    /\ stale' = (stale \/ r.at = "done")
    /\ pages' = IF r.at = "done" THEN {} ELSE pages
    /\ unfounded' = IF r.at = "conflict" THEN unfounded \cup {r.want} ELSE unfounded
    /\ UNCHANGED <<engagementVars, bookmarkCall, bookmarked, initial, sure, apart>>

\* A conflict shows the rating that was refused, not the one there is.  A success
\* refreshes the page, for which the router gives up what it kept.
RatingAnswered ==
    LET r == requests[ratingCall] IN
    /\ ratingCall # 0 /\ Finished(ratingCall)
    /\ ratingCall' = 0
    /\ userRating' = IF r.at \in {"done", "conflict"} THEN r.want ELSE userRating
    /\ rating' = IF r.at = "done" THEN 0 ELSE rating
    /\ stale' = (stale \/ r.at = "done")
    /\ pages' = IF r.at = "done" THEN {} ELSE pages
    /\ unfounded' = IF r.at = "conflict" THEN unfounded \cup {r.want} ELSE unfounded
    /\ UNCHANGED <<engagementVars, bookmarkCall, bookmarked, initial, sure, apart>>

RatingLost ==
    /\ ratingCall # 0 /\ ratingCall' = 0
    /\ UNCHANGED <<engagementVars, pages, bookmarkCall, bookmarked, card, sure, apart, unfounded>>

ChangeRating ==
    /\ Me # Owner /\ userRating # 0
    /\ userRating' = 0
    /\ UNCHANGED <<engagementVars, pages, calls, bookmarked, rating, initial, stale,
                   sure, apart, unfounded>>

--------------------------------------------------------------------------------
(* Everything else, and what it means for the tab. *)

MyToggle(i) == requests[i].kind = "bookmark" /\ requests[i].account = Me

\* Toggles of Me that take a step.
Stepping == {i \in Ids : MyToggle(i) /\ requests'[i].at # requests[i].at}

\* The rows of Me change and no request did it.
RowsGo == requests' = requests /\ members'[Me] # members[Me]

\* The button's own request wrote the row and fails.
HalfDone == bookmarkCall # 0 /\ requests[bookmarkCall].at = "written"
                             /\ requests'[bookmarkCall].at = "failed"

Elsewhere ==
    /\ Others \/ \E i \in Ids : Server(i)
    /\ sure' = (sure /\ Stepping \subseteq {bookmarkCall} /\ ~RowsGo /\ ~HalfDone)
    /\ apart' = (apart /\ Stepping \subseteq {bookmarkCall} /\ ~RowsGo)
    /\ pages' = {[page EXCEPT !.current = @ /\ Stepping = {} /\ ~RowsGo] : page \in pages}
    /\ unfounded' = unfounded \cup {v.rating : v \in Own(Me) \ reviews'}
    /\ UNCHANGED <<calls, bookmarked, card>>

\* A request of theirs that the server has not read yet can as well be sent later.
OtherTabs ==
    /\ \A i \in Ids : requests[i].at = "sent" => i \in {bookmarkCall, ratingCall}
    /\ Client
    /\ UNCHANGED <<pages, calls, bookmarked, card, sure, apart, unfounded>>

ButtonsNext ==
    \/ ReadPlate
    \/ \E page \in pages : Mounted(page) \/ Refreshed(page)
    \/ handleBookmarkToggle \/ BookmarkAnswered \/ BookmarkLost
    \/ ChooseStars \/ submitRating \/ RatingAnswered \/ RatingLost \/ ChangeRating
    \/ Elsewhere \/ OtherTabs

ButtonsSpec == ButtonsInit /\ [][ButtonsNext]_buttonVars

--------------------------------------------------------------------------------
(* Properties. *)

\* The button shows what the table says whenever it waits for no answer and no two
\* toggles of the account have met: from a page read while no toggle was under way,
\* and from every answer to a request that no other toggle of the account crossed,
\* whatever was shown before.  It goes wrong only by toggles from elsewhere, the ones
\* whose answer was lost included, by a failure between the row and the counter, by
\* the deletion of the row, and from a page read earlier than one of these or not in
\* full.
BookmarkShown ==
    bookmarkCall = 0 /\ sure /\ <<Me, "bookmark">> \notin doubled
        => bookmarked = (members[Me].on > 0)

\* The card shows a rating the account gave, or one that was refused or deleted.
RatingShown ==
    userRating # 0 => userRating \in unfounded \cup {v.rating : v \in Own(Me)}
=============================================================================
