\* One draft, two slots, two jobs, two open transactions.
CONSTANTS
    Drafts = {d1}
    Slots = {assets, revenue}
    Submissions = {s1}
    Jobs = {j1, j2}
    Workers = {w1, w2}
    Txs = {t1, t2}
    NoDraft = NoDraft
    NoJob = NoJob
    NoWorker = NoWorker
    OpenLimit = 1
    ActiveLimit = 2
    MaxFailureRetries = 0
    MaxLeaseRecoveries = 0
    MaxClaims = 1
SPECIFICATION TxSpec
SYMMETRY Symmetry
INVARIANTS
    OnlyCancellationsDeadlock
PROPERTIES
    CommitsAreAtomic
\* A history ends when every row is final or deleted.
CHECK_DEADLOCK FALSE
