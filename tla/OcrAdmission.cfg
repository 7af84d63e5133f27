\* Two drafts, each with a submission, room for one active job; no claims, so
\* that a job ends only by cancellation.
CONSTANTS
    Drafts = {d1, d2}
    Slots = {assets}
    Submissions = {s1, s2}
    Jobs = {j1, j2}
    Workers = {w1}
    Txs = {t1, t2}
    NoDraft = NoDraft
    NoJob = NoJob
    NoWorker = NoWorker
    OpenLimit = 2
    ActiveLimit = 1
    MaxFailureRetries = 0
    MaxLeaseRecoveries = 0
    MaxClaims = 0
SPECIFICATION TxSpec
SYMMETRY Symmetry
INVARIANTS
    ActiveLimitHolds
\* A history ends when every row is final or deleted.
CHECK_DEADLOCK FALSE
