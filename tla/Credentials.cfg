\* Store, clear and reload with up to two storage failures: the rollback keeps
\* the pair consistent while at most one has failed, and memory follows the file.
CONSTANTS
    Ids <- MCIds
    Tokens <- MCTokens
    LongTokens <- MCLongTokens
    Issued <- MCIssued
    MaxFailures = 2
    MaxCrashes = 1
SPECIFICATION Spec
INVARIANTS
    TypeOK
    CredPairConsistentUnderOneFault
PROPERTY
    MemoryFollowsFile
