\* A draft with two slots and two submissions that overlap on it; one short run per job.
CONSTANTS
    Drafts = {d1}
    Slots = {assets, revenue}
    Submissions = {s1, s2}
    Jobs = {j1, j2}
    Workers = {w1}
    NoDraft = NoDraft
    NoJob = NoJob
    NoWorker = NoWorker
    OpenLimit = 2
    ActiveLimit = 2
    MaxFailureRetries = 0
    MaxLeaseRecoveries = 0
    MaxClaims = 1
SPECIFICATION Spec
SYMMETRY Symmetry
INVARIANTS
    TypeOK
    UnfinishedSlotShowsRunning
    RunningDraftAwaitsSomething
    OpenSubmissionHasDraft
    UnfinishedJobKeepsImage
\* A history ends when every row is final or deleted.
CHECK_DEADLOCK FALSE
