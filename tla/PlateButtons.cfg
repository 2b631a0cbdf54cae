SPECIFICATION ButtonsSpec
CONSTANTS
    me = me
    other = other
    owner = owner
    Accounts = {me, other}
    Me = me
    Owner = owner
    Deletable = {me}
    Ratings = {1, 2}
    MaxRequests = 3
    MaxCopies = 1
    MaxFaults = 1
    MaxPages = 1
CONSTRAINT Bound
INVARIANTS
    ButtonsTypeOK
    CountIsBookmarks
    AverageIsOfReviews
    OneReview
    BookmarkShown
    RatingShown
CHECK_DEADLOCK FALSE
