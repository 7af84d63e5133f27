\* One slot read twice: the second job displaces the first while two Workers race.
CONSTANTS
    Drafts = {d1}
    Slots = {assets}
    Submissions = {s1, s2}
    Jobs = {j1, j2}
    Workers = {w1, w2}
    NoDraft = NoDraft
    NoJob = NoJob
    NoWorker = NoWorker
    OpenLimit = 2
    ActiveLimit = 2
    MaxFailureRetries = 1
    MaxLeaseRecoveries = 1
    MaxClaims = 2
SPECIFICATION Spec
SYMMETRY Symmetry
INVARIANTS
    OnlyNewestClaimWrites
    UnfinishedJobIsShown
PROPERTIES
    ImplementsLifecycle
    FinalIsFinal
    LiveLeaseProtects
\* A history ends when every row is final or deleted.
CHECK_DEADLOCK FALSE
