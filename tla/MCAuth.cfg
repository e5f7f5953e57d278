SPECIFICATION Spec
CONSTANTS
    r1 = r1
    r2 = r2
    Reqs = {r1, r2}
    Actions = {"change_username", "change_password"}
    MaxAttempts = 1
    MaxCodes = 3
    MaxTokens = 3
INVARIANT CreditsPerCode
INVARIANT CreditedIfVerified
INVARIANT ClaimsNotAhead
CHECK_DEADLOCK FALSE
