\* A failed token erase: properties_clear_credentials skips the id erase.
CONSTANTS
    Ids <- MCIds
    Tokens <- MCTokens
    LongTokens <- MCLongTokens
    Issued <- MCIssued
    MaxFailures = 1
    MaxCrashes = 0
SPECIFICATION Spec
INVARIANT ClearAttemptsBoth
