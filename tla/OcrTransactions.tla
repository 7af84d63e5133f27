--------------------------- MODULE OcrTransactions ---------------------------
(* The transactions of OcrPipeline statement by statement, as PostgreSQL     *)
(* runs them at READ COMMITTED: a statement reads what is committed when it  *)
(* starts and what its own transaction wrote, a row lock is held to the end, *)
(* a statement that meets a lock waits and looks at the row again, and what  *)
(* a transaction wrote appears at its commit.  The committed rows are the    *)
(* variables of OcrPipeline, whose actions are what a commit must amount to. *)
EXTENDS OcrPipeline

CONSTANT Txs        \* database sessions of the API and of the Workers

ASSUME SessionsAssumption == Txs # {}

VARIABLES
    tx,             \* the transaction each session has open
    held            \* the locks each session's transaction holds

txVars == <<tx, held>>
allVars == <<vars, txVars>>

(* What can be locked: rows, and the advisory lock momo:ocr_jobs:active_limit *)
DraftLock(d) == [table |-> "match_drafts", key |-> d]
SubLock(s) == [table |-> "ocr_submissions", key |-> s]
JobLock(j) == [table |-> "ocr_jobs", key |-> j]
ImageLock(j) == [table |-> "source_images", key |-> j]
Gate == [table |-> "active_limit", key |-> NoJob]

(* rows holds what the transaction has written and not committed; wait the   *)
(* locks a statement has found taken and waits for.                          *)
NoRows == [x \in {} |-> x]
Row(x, row) == [y \in {x} |-> row]
Unwritten == [draft |-> NoRows, sub |-> NoRows, job |-> NoRows]
Closedtx == [op |-> "none", at |-> "none", on |-> NoRows, wait |-> {}, rows |-> Unwritten]

Over(new, old) == [x \in DOMAIN old |-> IF x \in DOMAIN new THEN new[x] ELSE old[x]]

(* What the statements of t read.                                            *)
DraftsSeen(t) == Over(tx[t].rows.draft, draft)
SubsSeen(t) == Over(tx[t].rows.sub, sub)
JobsSeen(t) == Over(tx[t].rows.job, job)

Free(t, locks) == \A u \in Txs \ {t} : locks \cap held[u] = {}
Unlocked(locks) == \A u \in Txs : locks \cap held[u] = {}

TxInit == /\ Init
          /\ tx = [t \in Txs |-> Closedtx]
          /\ held = [t \in Txs |-> {}]
----------------------------------------------------------------------------
(* The rows each statement locks, as it finds them when it starts            *)

(* Faulty: a job is taken without its drafts.                                *)
DraftLocksUnasked(j) == {}

(* lock_match_drafts_for_job and lockForJob: the running drafts that show it *)
DraftLocks(j) == {DraftLock(d) : d \in {i \in Drafts :
                     draft[i].status = "ocr_running" /\ j \in SlotJobs(draft[i])}}

(* sync_match_draft_status and recompute, in the writer's own view           *)
Resynced(t, j) ==
    [d \in {i \in Drafts : DraftsSeen(t)[i].status = "ocr_running"
                              /\ j \in SlotJobs(DraftsSeen(t)[i])} |->
        [DraftsSeen(t)[d] EXCEPT !.status = ProjectedStatus(JobsSeen(t), DraftsSeen(t)[d])]]

(* Faulty: counts without the advisory lock.                                 *)
ActiveLimitUngated == {}

ActiveLimitLocks == {Gate}

(* The draft a transaction on a draft or on a submission begins with         *)
RowDraft(on) == IF "draft" \in DOMAIN on THEN on.draft ELSE sub[on.sub].draft

Selected(t) ==
    LET on == tx[t].on
        at == tx[t].at
    IN  CASE at \in {"drafts", "again"} -> DraftLocks(on.job)
          [] at = "owned" -> IF Owned(on.worker) THEN {JobLock(on.job)} ELSE {}
          [] at = "job" -> {JobLock(on.job)}
          [] at = "sync" -> {DraftLock(d) : d \in DOMAIN Resynced(t, on.job)}
          [] at = "row" -> {DraftLock(RowDraft(on))}
          [] at = "subs" -> {SubLock(s) : s \in {r \in OpenSubmissions : sub[r].draft = on.draft}}
          [] at = "jobs" -> {JobLock(j) : j \in {i \in SlotJobs(draft[on.draft]) :
                                                   job[i].status = "queued"}}
          [] at = "images" -> {ImageLock(j) : j \in SlotJobs(draft[on.draft])}
          [] at = "image" -> {ImageLock(on.job)}
          [] at = "sub" -> {SubLock(on.sub)}
          [] at = "gate" -> ActiveLimitLocks
          [] OTHER -> {}
----------------------------------------------------------------------------
(* How statements run.                                                       *)

Begin(t, op, on, at) ==
    /\ tx[t] = Closedtx
    /\ tx' = [tx EXCEPT ![t] = [op |-> op, at |-> at, on |-> on, wait |-> {},
                                rows |-> Unwritten]]
    /\ UNCHANGED <<vars, held>>

(* A statement that meets a lock waits for the rows it has already selected, *)
(* and a projection goes on from the jobs it has already read.               *)
Block(t) ==
    /\ tx[t].op \notin {"none", "settle"} /\ tx[t].wait = {}
    /\ ~Free(t, Selected(t))
    /\ tx' = [tx EXCEPT ![t].wait = Selected(t),
                        ![t].rows.draft = IF tx[t].at = "sync" THEN Resynced(t, tx[t].on.job)
                                                               ELSE @]
    /\ UNCHANGED <<vars, held>>

Asked(t) == IF tx[t].wait = {} THEN Selected(t) ELSE tx[t].wait

At(t, ops, at) == tx[t].op \in ops /\ tx[t].at = at /\ Free(t, Asked(t))

Proceed(t, kept, at, rows) ==
    /\ held' = [held EXCEPT ![t] = @ \cup kept]
    /\ tx' = [tx EXCEPT ![t].at = at, ![t].wait = {}, ![t].rows = rows]
    /\ UNCHANGED vars

Close(t) == /\ tx' = [tx EXCEPT ![t] = Closedtx]
            /\ held' = [held EXCEPT ![t] = {}]

(* A refused guard, an error, a lock or statement timeout, a lost connection *)
Rollback(t) == /\ tx[t] # Closedtx
               /\ Close(t)
               /\ UNCHANGED vars

(* COMMIT makes every written row visible at once; the attempt is over when  *)
(* its process sees the commit.                                              *)
Commit(t) ==
    /\ tx[t].at = "commit"
    /\ draft' = DraftsSeen(t)
    /\ sub' = SubsSeen(t)
    /\ job' = JobsSeen(t)
    /\ IF tx[t].op = "complete"
       THEN EndAttempt(tx[t].on.worker)
       ELSE UNCHANGED attempt
    /\ Close(t)
----------------------------------------------------------------------------
(* finish_success, finish_failure and requeue of the Worker, and the user's  *)
(* cancelQueuedOwned.                                                        *)

BeginComplete(t, w, status) ==
    /\ attempt[w] # Idle
    /\ \A u \in Txs : tx[u].op = "complete" => tx[u].on.worker # w
    /\ Begin(t, "complete", [job |-> attempt[w].job, worker |-> w, status |-> status], "drafts")

(* Faulty: takes the job before its drafts.                                  *)
BeginCancelJobFirst(t, j) == job[j].status # "none" /\ Begin(t, "cancelJob", [job |-> j], "job")

BeginCancelJob(t, j) == job[j].status # "none" /\ Begin(t, "cancelJob", [job |-> j], "drafts")

(* A row that no longer qualifies after the wait is not locked.              *)
LockDrafts(t) ==
    /\ At(t, {"complete", "cancelJob"}, "drafts")
    /\ Proceed(t, Asked(t) \cap DraftLocks(tx[t].on.job),
               IF tx[t].op = "complete" THEN "owned" ELSE "job", Unwritten)

(* lock_owned_job and the UPDATE of the job                                  *)
WriteCompletion(t) ==
    LET j == tx[t].on.job
    IN  /\ At(t, {"complete"}, "owned")
        /\ \/ /\ Owned(tx[t].on.worker) /\ tx[t].on.status = "queued"
              /\ Proceed(t, {JobLock(j)}, "commit",
                         [Unwritten EXCEPT !.job = Row(j, Requeued(job[j], TRUE))])
           \/ /\ Owned(tx[t].on.worker) /\ tx[t].on.status # "queued"
              /\ Proceed(t, {JobLock(j)}, "sync",
                         [Unwritten EXCEPT !.job = Row(j, Finished(job[j], tx[t].on.status))])
           \/ /\ ~Owned(tx[t].on.worker)
              /\ EndAttempt(tx[t].on.worker)
              /\ Close(t)
              /\ UNCHANGED <<draft, sub, job>>

(* The ownership query locks the job whatever its status ...                 *)
LockJob(t) ==
    /\ At(t, {"cancelJob"}, "job")
    /\ Proceed(t, Asked(t), "again", Unwritten)

(* ... and cancelQueued asks for the drafts again before its UPDATE.         *)
WriteCancellation(t) ==
    LET j == tx[t].on.job
    IN  /\ At(t, {"cancelJob"}, "again")
        /\ job[j].status = "queued"
        /\ Proceed(t, Asked(t) \cap DraftLocks(j), "sync",
                   [Unwritten EXCEPT !.job = Row(j, Finished(job[j], "cancelled"))])

SyncDrafts(t) ==
    LET read == IF tx[t].wait = {} THEN Resynced(t, tx[t].on.job) ELSE tx[t].rows.draft
        drafts == {d \in DOMAIN read : draft[d].status = "ocr_running"}
    IN  /\ At(t, {"complete", "cancelJob"}, "sync")
        /\ Proceed(t, {DraftLock(d) : d \in drafts}, "commit",
                   [tx[t].rows EXCEPT !.draft =
                       [d \in drafts |-> [draft[d] EXCEPT !.status = read[d].status]]])
----------------------------------------------------------------------------
(* cancelDraftAndQueuedOcrJobs, confirm and beginDeleteUnreferenced.         *)

BeginCloseDraft(t, d, op) ==
    /\ draft[d].status # "absent"
    /\ Begin(t, op, [draft |-> d], "row")

(* The DELETE, or the UPDATE to confirmed                                    *)
WriteDraft(t) ==
    LET d == tx[t].on.draft
        row == IF tx[t].op = "cancelDraft"
               THEN [status |-> "deleted", slots |-> EmptySlots]
               ELSE [draft[d] EXCEPT !.status = "confirmed"]
    IN  /\ At(t, {"cancelDraft", "confirm"}, "row")
        /\ draft[d].status \in IF tx[t].op = "cancelDraft" THEN NonTerminalDraft ELSE Editable
        /\ Proceed(t, Asked(t), "subs", [Unwritten EXCEPT !.draft = Row(d, row)])

(* abortForDrafts: the selected submissions that are still open              *)
AbortSubs(t) ==
    LET open == {s \in OpenSubmissions : SubLock(s) \in Asked(t)}
    IN  /\ At(t, {"cancelDraft", "confirm"}, "subs")
        /\ Proceed(t, {SubLock(s) : s \in open},
                   IF tx[t].op = "cancelDraft" THEN "jobs" ELSE "images",
                   [tx[t].rows EXCEPT !.sub = [s \in open |-> [sub[s] EXCEPT !.status = "aborted"]]])

(* cancelQueuedByDraftIds: the selected jobs that are still queued           *)
CancelJobs(t) ==
    LET queued == {j \in Jobs : JobLock(j) \in Asked(t) /\ job[j].status = "queued"}
    IN  /\ At(t, {"cancelDraft"}, "jobs")
        /\ Proceed(t, {JobLock(j) : j \in queued}, "images",
                   [tx[t].rows EXCEPT !.job = [j \in queued |-> Finished(job[j], "cancelled")]])

BeginSweep(t, j) == job[j].image = "available" /\ Begin(t, "sweep", [job |-> j], "image")

LockImages(t) ==
    /\ \/ At(t, {"cancelDraft", "confirm"}, "images")
       \/ At(t, {"sweep"}, "image")
    /\ Proceed(t, Asked(t), "stage", tx[t].rows)

(* The guarded UPDATE is a statement of its own, after the image locks.      *)
StageImages(t) ==
    LET staged == {j \in Jobs : /\ ImageLock(j) \in held[t]
                                /\ Deletable(j, DraftsSeen(t), SubsSeen(t), JobsSeen(t))}
        written == tx[t].rows.job
    IN  /\ At(t, {"cancelDraft", "confirm", "sweep"}, "stage")
        /\ Proceed(t, {}, "commit",
                   [tx[t].rows EXCEPT !.job =
                       [j \in DOMAIN written \cup staged |->
                           IF j \in staged
                           THEN [JobsSeen(t)[j] EXCEPT !.image = "delete_pending"]
                           ELSE written[j]]])
----------------------------------------------------------------------------
(* OcrJobCreationStore.store and settle_transaction                          *)

BeginStore(t, s, k, j) ==
    /\ sub[s].status # "none" /\ job[j].status = "none"
    /\ \A u \in Txs : tx[u].op = "store" => tx[u].on.job # j
    /\ Begin(t, "store", [sub |-> s, slot |-> k, job |-> j], "row")

BeginSettle(t, s) == sub[s].status = "open" /\ Begin(t, "settle", [sub |-> s], "row")

LockRow(t) == /\ At(t, {"store", "settle"}, "row")
              /\ Proceed(t, Asked(t), "sub", Unwritten)

(* The member and attachmentGuard                                            *)
CheckMember(t) ==
    LET s == tx[t].on.sub
        k == tx[t].on.slot
    IN  /\ At(t, {"store"}, "sub")
        /\ sub[s].status = "open" /\ sub[s].members[k] = "pending"
        /\ Attachable(sub[s].draft, k)
        /\ Proceed(t, Asked(t), "image", Unwritten)

LockStoreImage(t) == /\ At(t, {"store"}, "image")
                     /\ Proceed(t, Asked(t), "gate", Unwritten)

(* The clock and the count are read after the wait for the gate.             *)
InsertJob(t) ==
    LET s == tx[t].on.sub
        k == tx[t].on.slot
        j == tx[t].on.job
        d == sub[s].draft
    IN  /\ At(t, {"store"}, "gate")
        /\ ~sub[s].late
        /\ Cardinality(ActiveJobs) < ActiveLimit
        /\ Proceed(t, Asked(t), "commit",
                   [job |-> Row(j, QueuedJob),
                    draft |-> Row(d, [draft[d] EXCEPT !.status = "ocr_running", !.slots[k] = j]),
                    sub |-> Row(s, [sub[s] EXCEPT !.members[k] = j])])

(* FOR UPDATE SKIP LOCKED: a busy draft or submission has its next turn.     *)
SettleBusy(t) == /\ tx[t].op = "settle" /\ ~Free(t, Selected(t))
                 /\ Close(t)
                 /\ UNCHANGED vars

SettleSub(t) ==
    LET s == tx[t].on.sub
        d == sub[s].draft
        members == Expired(sub[s].members, sub[s].late)
        write(row) == [Unwritten EXCEPT !.sub = Row(s, row)]
    IN  /\ At(t, {"settle"}, "sub")
        /\ sub[s].status = "open"
        /\ Proceed(t, Asked(t), "commit",
              IF draft[d].status \notin NonTerminalDraft
              THEN write([sub[s] EXCEPT !.status = "aborted"])
              ELSE IF Outstanding(members) # {}
              THEN write([sub[s] EXCEPT !.members = members])
              ELSE [write([sub[s] EXCEPT !.members = members, !.status = "settled"])
                      EXCEPT !.draft = Row(d, ProjectEmptyDraft(s, d)[d])])
----------------------------------------------------------------------------
(* Transactions that lock few rows and hold them briefly are one step, taken *)
(* when nobody holds those rows.  A clock that passes a limit while the row  *)
(* is locked is noticed by nobody before the lock goes.                      *)

UserBegins(t) ==
    \/ \E s \in Submissions, k \in Slots, j \in Jobs : BeginStore(t, s, k, j)
    \/ \E j \in Jobs : BeginCancelJob(t, j) \/ BeginSweep(t, j)
    \/ \E d \in Drafts, op \in {"cancelDraft", "confirm"} : BeginCloseDraft(t, d, op)

WorkerBegins(t) ==
    \/ \E w \in Workers, status \in {"succeeded", "failed", "queued"} :
          BeginComplete(t, w, status)
    \/ \E s \in Submissions : BeginSettle(t, s)

Statement(t) ==
    \/ LockDrafts(t) \/ WriteCompletion(t)
    \/ LockJob(t) \/ WriteCancellation(t) \/ SyncDrafts(t)
    \/ WriteDraft(t) \/ AbortSubs(t) \/ CancelJobs(t) \/ LockImages(t) \/ StageImages(t)
    \/ LockRow(t) \/ CheckMember(t) \/ LockStoreImage(t) \/ InsertJob(t)
    \/ SettleBusy(t) \/ SettleSub(t)
    \/ Block(t) \/ Commit(t) \/ Rollback(t)

Brief ==
    /\ UNCHANGED txVars
    /\ \/ \E d \in Drafts : CreateDraft(d, "draft_ready")
       \/ \E s \in Submissions, d \in Drafts, screens \in SUBSET Slots \ {{}} :
             Unlocked({DraftLock(d)}) /\ PutSubmission(s, d, screens)
       \/ \E w \in Workers, j \in Jobs :
             Unlocked(DraftLocks(j) \cup {JobLock(j), ImageLock(j)}) /\ Claim(w, j)
       \/ \E j \in Jobs : Unlocked(DraftLocks(j) \cup {JobLock(j)}) /\ Recover(j)
       \/ \E w \in Workers : Unlocked({JobLock(attempt[w].job)}) /\ Heartbeat(w)
       \/ \E j \in Jobs : Unlocked({JobLock(j)}) /\ LeaseAges(j)
       \/ \E s \in Submissions : Unlocked({SubLock(s)}) /\ DeadlinePasses(s)

TxNext == (\E t \in Txs : UserBegins(t) \/ WorkerBegins(t) \/ Statement(t)) \/ Brief

TxSpec == TxInit /\ [][TxNext]_allVars
----------------------------------------------------------------------------
(* What must hold.                                                           *)

(* Each commit, and each step of the rest, is one action of OcrPipeline: the *)
(* locks make what a transaction read still true when it commits.            *)
CommitsAreAtomic == Spec

WaitsFor(t, u) == u # t /\ tx[t].wait \cap held[u] # {}

InARing(group) == /\ group # {}
                  /\ \A t \in group : \E u \in group : WaitsFor(t, u)

(* Whenever a group of transactions waits only for one another, there are    *)
(* cancelQueuedOwned transactions in it that wait for one another: without   *)
(* them store, completion, cancellation, confirmation and sweep take drafts, *)
(* submissions, jobs, images and the gate in one order (control.rs,          *)
(* "Cross-language lock order").                                             *)
OnlyCancellationsDeadlock ==
    \A group \in SUBSET Txs :
        InARing(group) =>
            \E ring \in SUBSET group :
                InARing(ring) /\ \A t \in ring : tx[t].op = "cancelJob"

(* What that comment and PostgresMatchDraftStatusSync.lock say of every      *)
(* terminal writer: a transaction that holds a job row asks for no draft row *)
(* it does not hold.                                                         *)
DraftsBeforeJobs ==
    \A t \in Txs, d \in Drafts, j \in Jobs :
        DraftLock(d) \in tx[t].wait \ held[t] => JobLock(j) \notin held[t]

(* The active-job limit is one number for the whole database, and creators   *)
(* of unrelated drafts cannot pass it together (activeLimitGuard).           *)
ActiveLimitHolds == Cardinality(ActiveJobs) <= ActiveLimit
============================================================================
