SPECIFICATION FairSpec
CONSTANTS
    here = here  there = there
    Replicated = TRUE
    Size = 3
    Place = {here, there}
    MaxAttempts <- MCAttempts
    MaxRuns = 2
INVARIANTS TypeOK CompletedCredentialsWork UsersAreNew
PROPERTIES RollbackIsComplete CreationEnds
CHECK_DEADLOCK FALSE
