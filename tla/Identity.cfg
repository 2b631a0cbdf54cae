SPECIFICATION Spec
CONSTANTS
    Emails = {"user@"}
    NoEmail = ""
    Identities = {"known", "hidden"}
    Local = "local"
    IdentityEmail <- MCIdentityEmail
    VerificationRequired = TRUE
    Requests = {r1, r2}
    MaxRequests = 5
SYMMETRY MCSymmetry
INVARIANTS
    ProofComesFirst
    PasswordWasMailed
    SpentTookEffect
CHECK_DEADLOCK FALSE
