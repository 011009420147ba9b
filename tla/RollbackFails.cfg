\* Two failed writes in one store_credentials call: the unchecked rollback.
CONSTANTS
    Ids <- MCIds
    Tokens <- MCTokens
    LongTokens <- MCLongTokens
    Issued <- MCIssued
    MaxFailures = 2
    MaxCrashes = 0
SPECIFICATION Spec
INVARIANT CredPairConsistent
