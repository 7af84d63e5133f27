\* Two sessions and one draft with two slots: the second cancellation of a
\* finished job, begun before the other slot's retry is stored.
CONSTANTS
    Drafts = {d1}
    Slots = {assets, revenue}
    Submissions = {s1}
    Jobs = {j1, j2}
    Workers = {w1}
    Txs = {t1, t2}
    NoDraft = NoDraft
    NoJob = NoJob
    NoWorker = NoWorker
    OpenLimit = 1
    ActiveLimit = 2
    MaxFailureRetries = 0
    MaxLeaseRecoveries = 0
    MaxClaims = 1
SPECIFICATION TxSpec
SYMMETRY Symmetry
INVARIANTS
    DraftsBeforeJobs
CHECK_DEADLOCK FALSE
