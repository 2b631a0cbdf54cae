SPECIFICATION Spec
CONSTANTS
    Accounts = {owner, first, second}
    Owner = owner
    Emails = {"owner@", "user@"}
    Email <- MCEmail
    Requests = {r1, r2}
    MaxRequests = 4
SYMMETRY MCSymmetry
INVARIANTS
    TypeOK
    AcceptedHadJoined
PROPERTIES
    AnsweredStaysAnswered
    ImplementsMembership
CHECK_DEADLOCK FALSE
