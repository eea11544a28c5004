\* A pool of two workers, a window of two calls, a limit one below the length
\* of the campaign.
CONSTANTS
    NCases = 5
    CaseIndex <- MCSequential
    ShardCount = 1
    ShardIndex = 0
    Workers = 2
    InflightPerWorker = 1
    NoLimit = NoLimit
    Limit = 4
    Verdicts = {"PASS", "FAIL"}
    Prior <- MCNone
SPECIFICATION FairSpec
INVARIANTS
    TypeOK InflightBounded NoCaseForgotten VerdictBacked StopHonoured
    SummaryFaithful CompleteMeansRan
PROPERTIES FinalizeAlone Termination KeepsPromise
