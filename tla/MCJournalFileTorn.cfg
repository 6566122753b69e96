SPECIFICATION JournalSpec
CONSTANTS
    NumActions = 1
    MaxActions = 1
    MaxLines = 7
    Outcome = {"ok"}
    MaxClaims <- MCMaxClaims
    MaxCrashes = 1
    MaxFaults = 1
INVARIANT TornWritesAreRecovered
CHECK_DEADLOCK FALSE
