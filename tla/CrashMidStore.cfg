\* No storage operation fails, but the process dies once between the token
\* write and the id write of properties_store_credentials.
CONSTANTS
    Ids <- MCIds
    Tokens <- MCTokens
    LongTokens <- MCLongTokens
    Issued <- MCIssued
    MaxFailures = 0
    MaxCrashes = 1
SPECIFICATION Spec
INVARIANT CredPairConsistent
