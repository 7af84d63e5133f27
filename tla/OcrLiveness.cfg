\* Liveness of jobs, submissions and drafts; no symmetry.
CONSTANTS
    Drafts = {d1}
    Slots = {assets}
    Submissions = {s1, s2}
    Jobs = {j1, j2}
    Workers = {w1}
    NoDraft = NoDraft
    NoJob = NoJob
    NoWorker = NoWorker
    OpenLimit = 2
    ActiveLimit = 2
    MaxFailureRetries = 0
    MaxLeaseRecoveries = 1
    MaxClaims = 2
SPECIFICATION FairSpec
PROPERTIES
    EveryJobEnds
    EverySubmissionCloses
\* A history ends when every row is final or deleted.
CHECK_DEADLOCK FALSE
