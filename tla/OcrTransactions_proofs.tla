------------------------ MODULE OcrTransactions_proofs ------------------------
(* Proofs about the statements of OcrTransactions: the locks a transaction   *)
(* holds keep what it has read true until it commits, so every commit is one *)
(* action of OcrPipeline and everything proved of those actions holds here.  *)
EXTENDS OcrTransactions, OcrPipeline_proofs, FiniteSetTheorems

USE DEF Unfinished, Final, LiveLease, Lease, JobStatus, Editable,
        NonTerminalDraft, DraftStatus, SubmissionStatus, Closed, MemberState
----------------------------------------------------------------------------
(* The committed rows.                                                       *)

UnbornImages == \A j \in Jobs : job[j].status = "none" => job[j].image = "none"
ShownByOwnDraft == \A s \in Submissions, k \in Slots, d \in Drafts :
    sub[s].members[k] \in SlotJobs(draft[d]) => sub[s].draft = d
AttemptsHaveJobs == \A w \in Workers :
    attempt[w] # Idle => attempt[w].job \in Jobs /\ job[attempt[w].job].status # "none"

Committed == /\ TypeOK /\ UnbornRows /\ UnbornImages
             /\ OpenHasDraft /\ RegisteredIsStored
             /\ SlotsShowJobs /\ ShownOnce /\ ShownByOwnDraft
             /\ UnfinishedSlotShowsRunning /\ UnfinishedJobIsShown
             /\ UnfinishedJobKeepsImage /\ AttemptsHaveJobs

(* A job that is not unfinished is stored, or loses its image.               *)
RestingStep(old, new) ==
    \/ new = old
    \/ old.status = "none" /\ new = QueuedJob
    \/ old.image = "available" /\ new = [old EXCEPT !.image = "delete_pending"]

LEMMA RestingRows ==
    ASSUME TypeOK, [Next]_vars, NEW j \in Jobs, job[j].status \notin Unfinished
    PROVE  RestingStep(job[j], job'[j])
<1>1. ASSUME NEW i \in Jobs, job[i].status \in Unfinished, NEW row,
             job' = [job EXCEPT ![i] = row]
      PROVE  RestingStep(job[j], job'[j])
  BY <1>1 DEF TypeOK, RestingStep
<1>2. ASSUME NEW d \in Drafts, NEW images, NEW jobs, jobs[j] = job[j],
             job' = StageDeletion(images, draft', sub', jobs)
      PROVE  RestingStep(job[j], job'[j])
  BY <1>2 DEF StageDeletion, Deletable, RestingStep
<1>3. ASSUME NEW d \in Drafts, CancelDraft(d) \/ ConfirmDraft(d)
      PROVE  RestingStep(job[j], job'[j])
  <2>1. CancelQueuedIn(draft[d])[j] = job[j]
    BY DEF CancelQueuedIn
  <2> QED BY <1>2, <1>3, <2>1 DEF CancelDraft, ConfirmDraft
<1>4. ASSUME NEW i \in Jobs, SweepImage(i)
      PROVE  RestingStep(job[j], job'[j])
  BY <1>4 DEF SweepImage, Deletable, TypeOK, RestingStep
<1>5. ASSUME NEW s \in Submissions, NEW k \in Slots, NEW i \in Jobs, StoreJob(s, k, i)
      PROVE  RestingStep(job[j], job'[j])
  BY <1>5 DEF StoreJob, TypeOK, RestingStep
<1>6. ASSUME NEW i \in Jobs, CancelQueued(i) \/ ReapStale(i) \/ LeaseAges(i) \/ BecomesDue(i)
                               \/ JobAges(i)
      PROVE  RestingStep(job[j], job'[j])
  <2>1. job[i].status \in Unfinished
    BY <1>6 DEF CancelQueued, ReapStale, Reapable, LeaseAges, BecomesDue, JobAges
  <2>2. \A k \in Jobs \ {i} : job'[k] = job[k]
    BY <1>6 DEF CancelQueued, ReapStale, Finish, LeaseAges, BecomesDue, JobAges, TypeOK
  <2> QED BY <2>1, <2>2 DEF RestingStep
<1>7. ASSUME NEW i \in Jobs, Recover(i) \/ \E w \in Workers : Claim(w, i)
      PROVE  RestingStep(job[j], job'[j])
  <2>1. Recovered(job[i]) = job[i] \/ job[i].status = "running"
    BY DEF Recovered
  <2>2. job[i].status \in Unfinished
    BY <1>7, <2>1 DEF Recover, Claim
  <2> QED BY <1>1, <1>7, <2>2 DEF Recover, Claim
<1>8. ASSUME NEW w \in Workers, Heartbeat(w) \/ AttemptEnds(w)
      PROVE  RestingStep(job[j], job'[j])
  <2>1. \/ job' = job
        \/ /\ attempt[w].job \in Jobs /\ job[attempt[w].job].status \in Unfinished
           /\ \A i \in Jobs \ {attempt[w].job} : job'[i] = job[i]
    BY <1>8 DEF Heartbeat, AttemptEnds, FinishSuccess, FinishFailure, RequeueTransient,
                RequeueInterrupted, OwnerLost, Abandon, Finish, Owned, TypeOK
  <2> QED BY <2>1 DEF RestingStep
<1>9. job' = job => RestingStep(job[j], job'[j])
  BY DEF RestingStep
<1>10. CASE UserNext
  BY <1>3, <1>4, <1>5, <1>6, <1>9, <1>10
     DEF UserNext, CreateDraft, UpdateDraft, DeleteMatch, PutSubmission, FailAdmission
<1>11. CASE WorkerNext
  BY <1>6, <1>7, <1>8, <1>9, <1>11 DEF WorkerNext, Settle
<1>12. CASE TimeNext \/ UNCHANGED vars
  BY <1>6, <1>9, <1>12 DEF TimeNext, DeadlinePasses, vars
<1> QED BY <1>10, <1>11, <1>12 DEF Next

LEMMA UnbornImagesStep ==
    ASSUME TypeOK, UnbornRows, UnbornImages, [Next]_vars
    PROVE  UnbornImages'
<1> SUFFICES ASSUME NEW j \in Jobs, job'[j].status = "none"
             PROVE  job'[j].image = "none"
  BY DEF UnbornImages
<1>1. job[j].status = "none" /\ job[j].image = "none"
  BY JobStatusMoves DEF UnbornImages
<1>2. RestingStep(job[j], job'[j])
  BY <1>1, RestingRows
<1>3. QueuedJob.status = "queued"
  BY DEF QueuedJob, NewJob
<1> QED BY <1>1, <1>2, <1>3 DEF RestingStep

LEMMA ShownByOwnStep ==
    ASSUME TypeOK, OpenHasDraft, RegisteredIsStored, SlotsShowJobs, ShownByOwnDraft, [Next]_vars,
           TypeOK'
    PROVE  ShownByOwnDraft'
<1> SUFFICES ASSUME NEW s \in Submissions, NEW k \in Slots, NEW d \in Drafts, NEW j,
                    sub'[s].members[k] = j, j \in SlotJobs(draft'[d])
             PROVE  sub'[s].draft = d
  BY DEF ShownByOwnDraft
<1>1. j \in Jobs
  BY SlotJobsAreJobs DEF TypeOK
<1>2. sub'[s].draft = sub[s].draft /\ (sub[s].members[k] = j \/ StoreJob(s, k, j))
  BY <1>1, MembersMove
<1>3. CASE j \in SlotJobs(draft[d])
  <2>1. job[j].status # "none"
    BY <1>3 DEF SlotsShowJobs
  <2> QED BY <1>2, <1>3, <2>1 DEF StoreJob, ShownByOwnDraft
<1>4. CASE j \notin SlotJobs(draft[d])
  <2>1. PICK t \in Submissions, l \in Slots : sub[t].draft = d /\ StoreJob(t, l, j)
    BY <1>4, WhoShows
  <2>2. sub[s].members[k] # j
    BY <1>1, <2>1 DEF StoreJob, RegisteredIsStored
  <2>3. StoreJob(s, k, j)
    BY <1>2, <2>2
  <2>4. draft'[d] # draft[d]
    BY <1>4
  <2>5. sub[s].draft = d
    BY <1>1, <2>3, <2>4, StoreWrites
  <2> QED BY <1>2, <2>5
<1> QED BY <1>3, <1>4

LEMMA AttemptsHaveJobsStep ==
    ASSUME TypeOK, TypeOK', UnbornRows, UnbornRows', AttemptsHaveJobs, [Next]_vars
    PROVE  AttemptsHaveJobs'
<1>1. \A j \in Jobs : job[j].status # "none" => job'[j].status # "none"
  BY JobStatusMoves
<1>2. CASE attempt' = attempt
  BY <1>1, <1>2 DEF AttemptsHaveJobs
<1>3. ASSUME NEW w \in Workers, EndAttempt(w) PROVE AttemptsHaveJobs'
  BY <1>1, <1>3 DEF EndAttempt, AttemptsHaveJobs, TypeOK
<1>4. ASSUME NEW w \in Workers, NEW j \in Jobs, Begins(w, j) PROVE AttemptsHaveJobs'
  <2>1. job'[j].fence = job[j].fence + 1 /\ job[j].fence \in Nat /\ NewJob.fence = 0
    BY <1>4 DEF Begins, TypeOK, JobRow, NewJob
  <2>2. job'[j].status # "none"
    BY <2>1 DEF UnbornRows, SameCounters
  <2>3. attempt'[w].job = j /\ \A v \in Workers \ {w} : attempt'[v] = attempt[v]
    BY <1>4 DEF Begins, TypeOK
  <2> QED BY <1>1, <2>2, <2>3 DEF AttemptsHaveJobs
<1> QED BY <1>2, <1>3, <1>4, AttemptsMove

LEMMA InitCommitted == Init => Committed
<1> SUFFICES ASSUME Init PROVE Committed
  OBVIOUS
<1>1. \A d \in Drafts : SlotJobs(draft[d]) = {}
  BY EmptyShowsNothing DEF Init
<1>2. TypeOK
  BY InitTypes
<1>3. UnbornRows /\ UnbornImages /\ UnfinishedJobKeepsImage
  BY DEF Init, UnbornRows, UnbornImages, UnfinishedJobKeepsImage, SameCounters, NewJob
<1>4. OpenHasDraft /\ RegisteredIsStored /\ UnfinishedJobIsShown
  BY MemberAssumption DEF Init, OpenHasDraft, RegisteredIsStored, UnfinishedJobIsShown
<1>5. SlotsShowJobs /\ ShownOnce /\ ShownByOwnDraft /\ UnfinishedSlotShowsRunning
  BY <1>1 DEF Init, SlotsShowJobs, ShownOnce, ShownByOwnDraft, UnfinishedSlotShowsRunning
<1>6. AttemptsHaveJobs
  BY DEF Init, AttemptsHaveJobs
<1> QED BY <1>2, <1>3, <1>4, <1>5, <1>6 DEF Committed

LEMMA TypeStep == TypeOK /\ [Next]_vars => TypeOK'
<1>1. TypeOK /\ UNCHANGED vars => TypeOK'
  BY DEF TypeOK, vars
<1> QED BY <1>1, UserTypes, WorkerTypes, TimeTypes DEF Next

LEMMA CommittedStep == Committed /\ [Next]_vars => Committed'
<1> SUFFICES ASSUME Committed, [Next]_vars PROVE Committed'
  OBVIOUS
<1>0. /\ TypeOK /\ UnbornRows /\ UnbornImages /\ OpenHasDraft /\ RegisteredIsStored
      /\ SlotsShowJobs /\ ShownOnce /\ ShownByOwnDraft /\ UnfinishedSlotShowsRunning
      /\ UnfinishedJobIsShown /\ UnfinishedJobKeepsImage /\ AttemptsHaveJobs
  BY DEF Committed
<1>1. TypeOK'
  BY <1>0, TypeStep
<1>2. UnbornRows'
  BY <1>0, EveryRowSteps
     DEF UnbornRows, RowStep, Quiet, Stored, Claimed, Reclaimed, PutBack, Ended, Lost,
         SameCounters
<1>3. UnbornImages'
  BY <1>0, UnbornImagesStep
<1>4. OpenHasDraft' /\ RegisteredIsStored'
  BY <1>0, OpenHasDraftStep, RegisteredStep
<1>5. SlotsShowJobs' /\ UnfinishedSlotShowsRunning'
  BY <1>0, ProjectionStep
<1>6. ShownOnce'
  BY <1>0, ShownOnceStep
<1>7. ShownByOwnDraft'
  BY <1>0, <1>1, ShownByOwnStep
<1>8. UnfinishedJobIsShown'
  BY <1>0, ShownStep
<1>9. UnfinishedJobKeepsImage'
  BY <1>0, EveryImageSteps DEF UnfinishedJobKeepsImage, ImageStep
<1>10. AttemptsHaveJobs'
  BY <1>0, <1>1, <1>2, AttemptsHaveJobsStep
<1> QED BY <1>1, <1>2, <1>3, <1>4, <1>5, <1>6, <1>7, <1>8, <1>9, <1>10 DEF Committed
----------------------------------------------------------------------------
(* What a session holds and has written, field by field.                     *)

Written(drafts, subs, jobs) == [draft |-> drafts, sub |-> subs, job |-> jobs]
Shaped(x) == /\ x = [op |-> x.op, at |-> x.at, on |-> x.on, wait |-> x.wait, rows |-> x.rows]
             /\ x.rows = Written(x.rows.draft, x.rows.sub, x.rows.job)
TxShape == /\ tx = [t \in Txs |-> tx[t]] /\ held = [t \in Txs |-> held[t]]
           /\ \A t \in Txs : Shaped(tx[t])

(* Nothing of what other sessions hold or have written is touched.           *)
OthersKeep(t) == \A u \in Txs \ {t} : tx'[u] = tx[u] /\ held'[u] = held[u]

LEMMA RowsWritten ==
    ASSUME NEW drafts, NEW subs, NEW jobs, NEW x
    PROVE  LET rows == Written(drafts, subs, jobs)
           IN  /\ rows.draft = drafts /\ rows.sub = subs /\ rows.job = jobs
               /\ [rows EXCEPT !.draft = x] = Written(x, subs, jobs)
               /\ [rows EXCEPT !.sub = x] = Written(drafts, x, jobs)
               /\ [rows EXCEPT !.job = x] = Written(drafts, subs, x)
               /\ Unwritten = Written(NoRows, NoRows, NoRows)
BY DEF Written, Unwritten

LEMMA AfterBegin ==
    ASSUME TxShape, NEW t \in Txs, NEW op, NEW on, NEW at, Begin(t, op, on, at)
    PROVE  /\ TxShape' /\ OthersKeep(t)
           /\ tx'[t].op = op /\ tx'[t].on = on /\ tx'[t].at = at /\ tx'[t].wait = {}
           /\ tx'[t].rows = Unwritten
           /\ held' = held /\ vars' = vars /\ tx[t] = Closedtx
<1>1. tx' = [tx EXCEPT ![t] = [op |-> op, at |-> at, on |-> on, wait |-> {}, rows |-> Unwritten]]
  BY DEF Begin
<1>2. tx'[t] = [op |-> op, at |-> at, on |-> on, wait |-> {}, rows |-> Unwritten]
  BY <1>1 DEF TxShape
<1>3. \A u \in Txs \ {t} : tx'[u] = tx[u]
  BY <1>1 DEF TxShape
<1>4. held' = held /\ vars' = vars /\ tx[t] = Closedtx
  BY DEF Begin
<1>5. Shaped(tx'[t])
  BY <1>2, RowsWritten DEF Shaped
<1>6. tx' = [u \in Txs |-> tx'[u]]
  BY <1>1 DEF TxShape
<1> QED BY <1>2, <1>3, <1>4, <1>5, <1>6 DEF TxShape, OthersKeep

LEMMA AfterBlock ==
    ASSUME TxShape, NEW t \in Txs, Block(t), tx[t].at # "sync"
    PROVE  /\ TxShape' /\ OthersKeep(t)
           /\ tx'[t].op = tx[t].op /\ tx'[t].on = tx[t].on /\ tx'[t].at = tx[t].at
           /\ tx'[t].wait = Selected(t) /\ tx'[t].rows = tx[t].rows
           /\ held' = held /\ vars' = vars
<1> DEFINE drafts == IF tx[t].at = "sync" THEN Resynced(t, tx[t].on.job) ELSE tx[t].rows.draft
           locks == Selected(t)
<1> HIDE DEF drafts, locks
<1>1. tx' = [tx EXCEPT ![t].wait = locks, ![t].rows.draft = drafts]
  BY DEF Block, drafts, locks
<1>2. drafts = tx[t].rows.draft
  BY DEF drafts
<1>3. tx[t] = [op |-> tx[t].op, at |-> tx[t].at, on |-> tx[t].on, wait |-> tx[t].wait,
               rows |-> tx[t].rows]
  BY DEF TxShape, Shaped
<1>4. tx[t].rows = [draft |-> tx[t].rows.draft, sub |-> tx[t].rows.sub, job |-> tx[t].rows.job]
  BY DEF TxShape, Shaped, Written
<1>5. tx'[t] = [op |-> tx[t].op, at |-> tx[t].at, on |-> tx[t].on, wait |-> locks,
                rows |-> [tx[t].rows EXCEPT !.draft = drafts]]
  BY <1>1, <1>3 DEF TxShape
<1>6. [tx[t].rows EXCEPT !.draft = drafts] = tx[t].rows
  BY <1>2, <1>4
<1>7. \A u \in Txs \ {t} : tx'[u] = tx[u]
  BY <1>1 DEF TxShape
<1>8. Shaped(tx'[t])
  BY <1>5, <1>6 DEF Shaped, TxShape
<1>9. tx' = [u \in Txs |-> tx'[u]]
  BY <1>1 DEF TxShape
<1>10. held' = held /\ vars' = vars
  BY DEF Block
<1> QED BY <1>5, <1>6, <1>7, <1>8, <1>9, <1>10 DEF TxShape, OthersKeep, locks

LEMMA AfterProceed ==
    ASSUME TxShape, NEW t \in Txs, NEW kept, NEW at, NEW drafts, NEW subs, NEW jobs,
           Proceed(t, kept, at, Written(drafts, subs, jobs))
    PROVE  /\ TxShape' /\ OthersKeep(t)
           /\ tx'[t].op = tx[t].op /\ tx'[t].on = tx[t].on /\ tx'[t].at = at
           /\ tx'[t].wait = {} /\ tx'[t].rows = Written(drafts, subs, jobs)
           /\ held'[t] = held[t] \cup kept /\ vars' = vars
<1> DEFINE rows == Written(drafts, subs, jobs)
<1>0. rows = Written(rows.draft, rows.sub, rows.job)
  BY RowsWritten
<1> HIDE DEF rows
<1>1. tx' = [tx EXCEPT ![t].at = at, ![t].wait = {}, ![t].rows = rows]
  BY DEF Proceed, rows
<1>2. tx[t] = [op |-> tx[t].op, at |-> tx[t].at, on |-> tx[t].on, wait |-> tx[t].wait,
               rows |-> tx[t].rows]
  BY DEF TxShape, Shaped
<1>3. tx'[t] = [op |-> tx[t].op, at |-> at, on |-> tx[t].on, wait |-> {}, rows |-> rows]
  BY <1>1, <1>2 DEF TxShape
<1>4. \A u \in Txs \ {t} : tx'[u] = tx[u]
  BY <1>1 DEF TxShape
<1>5. held' = [held EXCEPT ![t] = @ \cup kept] /\ vars' = vars
  BY DEF Proceed
<1>6. Shaped(tx'[t])
  BY <1>0, <1>3 DEF Shaped
<1>7. tx' = [u \in Txs |-> tx'[u]]
  BY <1>1 DEF TxShape
<1>8. held' = [u \in Txs |-> held'[u]] /\ held'[t] = held[t] \cup kept
      /\ \A u \in Txs \ {t} : held'[u] = held[u]
  BY <1>5 DEF TxShape
<1> QED BY <1>3, <1>4, <1>5, <1>6, <1>7, <1>8 DEF TxShape, OthersKeep, rows

LEMMA AfterClose ==
    ASSUME TxShape, NEW t \in Txs, Close(t)
    PROVE  TxShape' /\ OthersKeep(t) /\ tx'[t] = Closedtx /\ held'[t] = {}
<1>1. Shaped(Closedtx)
  BY RowsWritten DEF Shaped, Closedtx
<1> QED BY <1>1 DEF Close, TxShape, OthersKeep
----------------------------------------------------------------------------
(* What a transaction has read and written is still true: kind by kind, from *)
(* statement to statement, given the locks it holds.                         *)

Exclusive == \A t, u \in Txs : t # u => held[t] \cap held[u] = {}
OwnWorker == \A t, u \in Txs :
    t # u /\ tx[t].op = "complete" /\ tx[u].op = "complete" => tx[t].on.worker # tx[u].on.worker
OwnJob == \A t, u \in Txs :
    t # u /\ tx[t].op = "store" /\ tx[u].op = "store" => tx[t].on.job # tx[u].on.job

(* Completion and cancellation of a job                                      *)
Covers(j, locks) == \A d \in Drafts :
    j \in SlotJobs(draft[d]) /\ job[j].status \in Unfinished => DraftLock(d) \in locks
EndStatus(t) == IF tx[t].op = "cancelJob" THEN "cancelled" ELSE tx[t].on.status
EndRow(j, status) == IF status = "queued" THEN Requeued(job[j], TRUE) ELSE Finished(job[j], status)
Shows(j) == {d \in Drafts : j \in SlotJobs(draft[d])}
EndDrafts(j, status) ==
    [d \in Shows(j) |->
        [draft[d] EXCEPT !.status =
            ProjectedStatus([job EXCEPT ![j] = EndRow(j, status)], draft[d])]]

Ending(t) ==
    LET j == tx[t].on.job
        at == tx[t].at
    IN  /\ j \in Jobs /\ job[j].status # "none"
        /\ at \in {"drafts", "owned", "job", "again", "sync", "commit"}
        /\ at = "drafts" => held[t] = {} /\ (tx[t].wait # {} => Covers(j, tx[t].wait))
        /\ at # "drafts" => Covers(j, held[t])
        /\ at \in {"owned", "job"} => tx[t].wait \subseteq {JobLock(j)}
        /\ at \in {"drafts", "owned", "job", "again"} => tx[t].rows = Unwritten
        /\ at \in {"again", "sync", "commit"} => JobLock(j) \in held[t]
        /\ at = "again" => (tx[t].wait # {} => job[j].status \in Final)
        /\ at \in {"sync", "commit"} => tx[t].wait = {} /\ job[j].status \in Unfinished
        /\ at = "sync" => /\ EndStatus(t) # "queued"
                          /\ tx[t].rows = Written(NoRows, NoRows, Row(j, EndRow(j, EndStatus(t))))
        /\ at = "commit" => tx[t].rows =
              Written(IF EndStatus(t) = "queued" THEN NoRows ELSE EndDrafts(j, EndStatus(t)),
                      NoRows, Row(j, EndRow(j, EndStatus(t))))

Completing(t) ==
    LET w == tx[t].on.worker
    IN  /\ w \in Workers /\ attempt[w].job = tx[t].on.job
        /\ tx[t].on.status \in {"succeeded", "failed", "queued"}
        /\ tx[t].at \notin {"job", "again"}
        /\ tx[t].at \in {"sync", "commit"} => Owned(w)

Cancelling(t) == /\ tx[t].at # "owned"
                 /\ tx[t].at \in {"sync", "commit"} => job[tx[t].on.job].status = "queued"

(* Deletion and confirmation of a draft                                      *)
OpenOf(d) == {s \in Submissions : sub[s].status = "open" /\ sub[s].draft = d}
QueuedOf(d) == {j \in SlotJobs(draft[d]) : job[j].status = "queued"}
StagedOf(d) == {j \in SlotJobs(draft[d]) : job[j].image = "available" /\ job[j].status # "running"}
ClosedRow(op, d) == IF op = "cancelDraft" THEN [status |-> "deleted", slots |-> EmptySlots]
                    ELSE [draft[d] EXCEPT !.status = "confirmed"]
AbortedSubs(d) == [s \in OpenOf(d) |-> [sub[s] EXCEPT !.status = "aborted"]]
CancelledRow(j) == IF job[j].status = "queued" THEN Finished(job[j], "cancelled") ELSE job[j]
CancelledJobs(d) == [j \in QueuedOf(d) |-> CancelledRow(j)]
StagedRow(j) == IF job[j].image = "available"
                THEN [CancelledRow(j) EXCEPT !.image = "delete_pending"] ELSE CancelledRow(j)
StagedJobs(d) == [j \in QueuedOf(d) \cup StagedOf(d) |-> StagedRow(j)]
Closable(op) == IF op = "cancelDraft" THEN NonTerminalDraft ELSE Editable

Closing(t) ==
    LET d == tx[t].on.draft
        at == tx[t].at
        closed == Row(d, ClosedRow(tx[t].op, d))
    IN  /\ "draft" \in DOMAIN tx[t].on /\ d \in Drafts
        /\ at \in {"row", "subs", "jobs", "images", "stage", "commit"}
        /\ at = "jobs" => tx[t].op = "cancelDraft"
        /\ at = "row" => /\ held[t] = {} /\ tx[t].wait \subseteq {DraftLock(d)}
                         /\ tx[t].rows = Unwritten
        /\ at # "row" => /\ DraftLock(d) \in held[t]
                         /\ draft[d].status \in Closable(tx[t].op)
                         /\ \A j \in Jobs : ImageLock(j) \in held[t] => j \in SlotJobs(draft[d])
        /\ at = "subs" => /\ tx[t].wait # {} => tx[t].wait = {SubLock(s) : s \in OpenOf(d)}
                          /\ tx[t].rows = Written(closed, NoRows, NoRows)
        /\ at \in {"jobs", "images", "stage", "commit"} =>
              \A s \in OpenOf(d) : SubLock(s) \in held[t]
        /\ at = "jobs" => /\ tx[t].wait # {} => tx[t].wait = {JobLock(j) : j \in QueuedOf(d)}
                          /\ tx[t].rows = Written(closed, AbortedSubs(d), NoRows)
        /\ at \in {"images", "stage", "commit"} =>
              \A j \in QueuedOf(d) : JobLock(j) \in held[t]
        /\ at \in {"images", "stage"} =>
              tx[t].rows = Written(closed, AbortedSubs(d), CancelledJobs(d))
        /\ at = "images" => (tx[t].wait # {} => tx[t].wait = {ImageLock(j) : j \in SlotJobs(draft[d])})
        /\ at \in {"stage", "commit"} =>
              tx[t].wait = {} /\ \A j \in SlotJobs(draft[d]) : ImageLock(j) \in held[t]
        /\ at = "commit" => tx[t].rows = Written(closed, AbortedSubs(d), StagedJobs(d))

(* Sweep of an image                                                         *)
Sweeping(t) ==
    LET j == tx[t].on.job
        at == tx[t].at
    IN  /\ j \in Jobs /\ job[j].status # "none"
        /\ at \in {"image", "stage", "commit"}
        /\ at = "image" => held[t] = {} /\ tx[t].wait \subseteq {ImageLock(j)}
        /\ at # "image" => held[t] = {ImageLock(j)} /\ tx[t].wait = {}
        /\ at # "commit" => tx[t].rows = Unwritten
        /\ at = "commit" =>
              \/ tx[t].rows = Unwritten
              \/ /\ Deletable(j, draft, sub, job)
                 /\ tx[t].rows = Written(NoRows, NoRows,
                                        Row(j, [job[j] EXCEPT !.image = "delete_pending"]))

(* Registration of a job                                                     *)
StoredDraft(d, k, j) == [draft[d] EXCEPT !.status = "ocr_running", !.slots[k] = j]
StoredSub(s, k, j) == [sub[s] EXCEPT !.members[k] = j]

Storing(t) ==
    LET s == tx[t].on.sub
        k == tx[t].on.slot
        j == tx[t].on.job
        d == sub[s].draft
        at == tx[t].at
    IN  /\ "draft" \notin DOMAIN tx[t].on /\ s \in Submissions /\ k \in Slots /\ j \in Jobs
        /\ sub[s].status # "none" /\ job[j].status = "none"
        /\ at \in {"row", "sub", "image", "gate", "commit"}
        /\ at # "commit" => tx[t].rows = Unwritten
        /\ at = "row" => held[t] = {} /\ tx[t].wait \subseteq {DraftLock(d)}
        /\ at # "row" => DraftLock(d) \in held[t]
        /\ at = "sub" => tx[t].wait \subseteq {SubLock(s)}
        /\ at \in {"image", "gate", "commit"} =>
              /\ SubLock(s) \in held[t]
              /\ sub[s].status = "open" /\ sub[s].members[k] = "pending" /\ Attachable(d, k)
        /\ at = "image" => tx[t].wait \subseteq {ImageLock(j)}
        /\ at = "gate" => tx[t].wait \subseteq {Gate}
        /\ at = "commit" =>
              /\ tx[t].wait = {} /\ Gate \in held[t] /\ ~sub[s].late
              /\ Cardinality(ActiveJobs) < ActiveLimit
              /\ tx[t].rows = Written(Row(d, StoredDraft(d, k, j)), Row(s, StoredSub(s, k, j)),
                                      Row(j, QueuedJob))

(* Settlement of a submission                                                *)
SettledRows(s) ==
    LET d == sub[s].draft
        members == Expired(sub[s].members, sub[s].late)
    IN  IF draft[d].status \notin NonTerminalDraft
        THEN Written(NoRows, Row(s, [sub[s] EXCEPT !.status = "aborted"]), NoRows)
        ELSE IF Outstanding(members) # {}
        THEN Written(NoRows, Row(s, [sub[s] EXCEPT !.members = members]), NoRows)
        ELSE Written(Row(d, ProjectEmptyDraft(s, d)[d]),
                     Row(s, [sub[s] EXCEPT !.members = members, !.status = "settled"]), NoRows)

Settling(t) ==
    LET s == tx[t].on.sub
        at == tx[t].at
    IN  /\ "draft" \notin DOMAIN tx[t].on /\ s \in Submissions /\ sub[s].status # "none"
        /\ at \in {"row", "sub", "commit"} /\ tx[t].wait = {}
        /\ at # "commit" => tx[t].rows = Unwritten
        /\ at = "row" => held[t] = {}
        /\ at # "row" => DraftLock(sub[s].draft) \in held[t]
        /\ at = "commit" => /\ SubLock(s) \in held[t] /\ sub[s].status = "open"
                            /\ tx[t].rows = SettledRows(s)

SoundTx(t) ==
    \/ tx[t] = Closedtx /\ held[t] = {}
    \/ tx[t].op = "complete" /\ Ending(t) /\ Completing(t)
    \/ tx[t].op = "cancelJob" /\ Ending(t) /\ Cancelling(t)
    \/ tx[t].op \in {"cancelDraft", "confirm"} /\ Closing(t)
    \/ tx[t].op = "sweep" /\ Sweeping(t)
    \/ tx[t].op = "store" /\ Storing(t)
    \/ tx[t].op = "settle" /\ Settling(t)
Sound == /\ TxShape /\ Exclusive /\ OwnWorker /\ OwnJob /\ IsFiniteSet(ActiveJobs)
         /\ \A t \in Txs : SoundTx(t)
----------------------------------------------------------------------------
(* What a session relies on while another one commits: its locks.            *)

LeftAlone(t) ==
    /\ tx'[t] = tx[t] /\ held'[t] = held[t]
    /\ \A d \in Drafts : DraftLock(d) \in held[t] =>
          /\ draft[d].status # "absent" => draft'[d] = draft[d]
          /\ \A j \in SlotJobs(draft[d]) : job'[j].status = job[j].status
          /\ OpenOf(d)' = OpenOf(d)
    /\ \A s \in Submissions : SubLock(s) \in held[t] /\ sub[s].status # "none" => sub'[s] = sub[s]
    /\ \A j \in Jobs : JobLock(j) \in held[t] /\ job[j].status \in Unfinished => job'[j] = job[j]
    /\ \A j \in Jobs : ImageLock(j) \in held[t] /\ job[j].status \in Final => job'[j] = job[j]
    /\ Gate \in held[t] => ActiveJobs' \subseteq ActiveJobs
    /\ tx[t].op = "store" /\ tx[t].on.job \in Jobs /\ job[tx[t].on.job].status = "none"
          => job'[tx[t].on.job].status = "none"
    /\ tx[t].op = "complete" /\ tx[t].on.worker \in Workers
          => attempt'[tx[t].on.worker] = attempt[tx[t].on.worker]

(* A stored job is shown by no further draft and does not start again.       *)
LEMMA CoversKept ==
    ASSUME Committed, [Next]_vars, NEW j \in Jobs, job[j].status # "none"
    PROVE  /\ job'[j].status # "none"
           /\ job[j].status \in Final => job'[j].status \in Final
           /\ \A d \in Drafts : j \in SlotJobs(draft'[d]) => j \in SlotJobs(draft[d])
           /\ job'[j].status \in Unfinished => job[j].status \in Unfinished
<1>1. TypeOK /\ UnbornRows /\ OpenHasDraft
  BY DEF Committed
<1>2. ASSUME NEW d \in Drafts, j \in SlotJobs(draft'[d]), j \notin SlotJobs(draft[d])
      PROVE  FALSE
  <2>1. PICK s \in Submissions, k \in Slots : StoreJob(s, k, j)
    BY <1>1, <1>2, WhoShows
  <2> QED BY <2>1 DEF StoreJob
<1>3. job[j].status \in Final => job'[j].status \in Final
  BY <1>1, JobStatusMoves
<1> QED BY <1>1, <1>2, <1>3, JobStatusMoves

LEMMA SameProjection ==
    ASSUME NEW jobs, NEW others, NEW row,
           \A j \in SlotJobs(row) : jobs[j].status = others[j].status
    PROVE  ProjectedStatus(jobs, row) = ProjectedStatus(others, row)
<1>1. {jobs[j].status : j \in SlotJobs(row)} = {others[j].status : j \in SlotJobs(row)}
  OBVIOUS
<1> QED BY <1>1 DEF ProjectedStatus

LEMMA EndRowFields ==
    ASSUME NEW row \in JobRow, NEW status
    PROVE  /\ Finished(row, status).status = status
           /\ Requeued(row, TRUE).status = "queued"
BY DEF Finished, Requeued, JobRow

LEMMA EndingKept ==
    ASSUME Committed, Committed', [Next]_vars, NEW t \in Txs, LeftAlone(t), Ending(t)
    PROVE  Ending(t)'
<1> DEFINE j == tx[t].on.job
           at == tx[t].at
           st == EndStatus(t)
           after == at \in {"sync", "commit"}
<1>0. TypeOK /\ SlotsShowJobs /\ UnfinishedSlotShowsRunning
  BY DEF Committed
<1>1. j \in Jobs /\ job[j].status # "none"
  BY DEF Ending
<1>2. tx'[t] = tx[t] /\ held'[t] = held[t]
  BY DEF LeftAlone
<1>3. j' = j /\ at' = at /\ st' = st
  BY <1>2 DEF EndStatus
<1>4. \A locks : Covers(j, locks) => \A d \in Drafts :
         j \in SlotJobs(draft'[d]) /\ job'[j].status \in Unfinished => DraftLock(d) \in locks
  BY <1>1, CoversKept DEF Covers
<1>5. ASSUME after
      PROVE  /\ job'[j] = job[j] /\ JobLock(j) \in held[t] /\ job[j].status \in Unfinished
             /\ \A d \in Drafts : j \in SlotJobs(draft[d]) => DraftLock(d) \in held[t]
  <2>1. JobLock(j) \in held[t] /\ job[j].status \in Unfinished /\ Covers(j, held[t])
    BY <1>5 DEF Ending
  <2> QED BY <1>1, <2>1 DEF LeftAlone, Covers
<1>6. ASSUME after PROVE EndRow(j, st)' = EndRow(j, st)
  BY <1>3, <1>5, <1>6 DEF EndRow
<1>7. ASSUME after, NEW d \in Drafts, j \in SlotJobs(draft[d])
      PROVE  /\ draft'[d] = draft[d]
             /\ \A i \in SlotJobs(draft[d]) : job'[i].status = job[i].status
  <2>1. DraftLock(d) \in held[t] /\ job[j].status \in Unfinished
    BY <1>5, <1>7
  <2>2. draft[d].status = "ocr_running"
    BY <1>0, <1>7, <2>1 DEF UnfinishedSlotShowsRunning
  <2> QED BY <2>1, <2>2 DEF LeftAlone
<1>8. ASSUME after PROVE Shows(j)' = Shows(j)
  <2>1. ASSUME NEW d \in Drafts PROVE j \in SlotJobs(draft'[d]) <=> j \in SlotJobs(draft[d])
    BY <1>1, <1>7, <1>8, CoversKept
  <2> QED BY <1>3, <2>1 DEF Shows
<1>9. ASSUME after PROVE EndDrafts(j, st)' = EndDrafts(j, st)
  <2> DEFINE row == EndRow(j, st)
             now == [job EXCEPT ![j] = row]
             then == [job' EXCEPT ![j] = row]
  <2>1. ASSUME NEW d \in Shows(j) PROVE ProjectedStatus(then, draft[d]) = ProjectedStatus(now, draft[d])
    <3>1. d \in Drafts /\ j \in SlotJobs(draft[d])
      BY DEF Shows
    <3>2. \A i \in SlotJobs(draft[d]) : i \in Jobs
      BY <1>0, <3>1, SlotJobsAreJobs DEF TypeOK
    <3>3. \A i \in SlotJobs(draft[d]) : job'[i].status = job[i].status
      BY <1>7, <1>9, <3>1
    <3>4. \A i \in SlotJobs(draft[d]) : then[i].status = now[i].status
      <4> HIDE DEF row
      <4> QED BY <1>0, <3>2, <3>3 DEF TypeOK, Committed
    <3> HIDE DEF now, then
    <3> QED BY <3>4, SameProjection
  <2>2. \A d \in Shows(j) : draft'[d] = draft[d]
    BY <1>7, <1>9 DEF Shows
  <2>3. EndDrafts(j, st)' = [d \in Shows(j) |-> [draft'[d] EXCEPT !.status =
                                                ProjectedStatus(then, draft'[d])]]
    BY <1>3, <1>6, <1>8, <1>9 DEF EndDrafts
  <2>4. EndDrafts(j, st) = [d \in Shows(j) |-> [draft[d] EXCEPT !.status =
                                                ProjectedStatus(now, draft[d])]]
    BY DEF EndDrafts
  <2> HIDE DEF now, then
  <2> QED BY <2>1, <2>2, <2>3, <2>4
<1>10. job'[j].status # "none" /\ (job[j].status \in Final => job'[j].status \in Final)
  BY <1>1, CoversKept
<1>11. at \in {"sync", "commit"} => job'[j].status \in Unfinished
  BY <1>5
<1> HIDE DEF st
<1>12. at = "commit" => tx'[t].rows =
          Written(IF st = "queued" THEN NoRows ELSE EndDrafts(j, st)', NoRows, Row(j, EndRow(j, st)'))
  BY <1>2, <1>6, <1>9 DEF Ending, st
<1>13. at = "sync" => st # "queued" /\ tx'[t].rows = Written(NoRows, NoRows, Row(j, EndRow(j, st)'))
  BY <1>2, <1>6 DEF Ending, st
<1>14. at # "drafts" => Covers(j, held[t])'
  BY <1>2, <1>3, <1>4 DEF Ending, Covers
<1>15. at = "drafts" => held'[t] = {} /\ (tx'[t].wait # {} => Covers(j, tx[t].wait)')
  BY <1>2, <1>3, <1>4 DEF Ending, Covers
<1>16. /\ at \in {"drafts", "owned", "job", "again", "sync", "commit"}
       /\ at \in {"owned", "job"} => tx'[t].wait \subseteq {JobLock(j)}
       /\ at \in {"drafts", "owned", "job", "again"} => tx'[t].rows = Unwritten
       /\ at \in {"again", "sync", "commit"} => JobLock(j) \in held'[t]
       /\ at \in {"sync", "commit"} => tx'[t].wait = {}
       /\ at = "again" => (tx'[t].wait # {} => job'[j].status \in Final)
  BY <1>2, <1>10 DEF Ending
<1>17. st' = EndStatus(t)' /\ st = EndStatus(t)
  BY DEF st
<1> QED BY <1>1, <1>2, <1>3, <1>10, <1>11, <1>12, <1>13, <1>14, <1>15, <1>16, <1>17 DEF Ending

LEMMA CompletingKept ==
    ASSUME Committed, [Next]_vars, NEW t \in Txs, LeftAlone(t), tx[t].op = "complete",
           Ending(t), Completing(t)
    PROVE  Completing(t)'
<1> DEFINE j == tx[t].on.job
           w == tx[t].on.worker
<1>1. /\ tx'[t] = tx[t] /\ w \in Workers /\ attempt[w].job = j /\ j \in Jobs
      /\ tx[t].on.status \in {"succeeded", "failed", "queued"}
      /\ tx[t].at \notin {"job", "again"}
  BY DEF LeftAlone, Completing, Ending
<1>2. attempt'[w] = attempt[w]
  BY <1>1 DEF LeftAlone
<1>3. ASSUME tx[t].at \in {"sync", "commit"} PROVE Owned(w)'
  <2>1. Owned(w) /\ JobLock(j) \in held[t] /\ job[j].status \in Unfinished
    BY <1>3 DEF Completing, Ending
  <2>2. job'[j] = job[j]
    BY <1>1, <2>1 DEF LeftAlone
  <2>3. w' = w
    BY <1>1
  <2> HIDE DEF w, j
  <2> QED BY <1>1, <1>2, <2>1, <2>2, <2>3 DEF Owned
<1> QED BY <1>1, <1>2, <1>3 DEF Completing

LEMMA CancellingKept ==
    ASSUME NEW t \in Txs, LeftAlone(t), Ending(t), Cancelling(t)
    PROVE  Cancelling(t)'
<1> DEFINE j == tx[t].on.job
<1>1. tx'[t] = tx[t] /\ j \in Jobs
  BY DEF LeftAlone, Ending
<1>2. ASSUME tx[t].at \in {"sync", "commit"} PROVE job'[j].status = "queued"
  <2>1. job[j].status = "queued" /\ JobLock(j) \in held[t]
    BY <1>2 DEF Cancelling, Ending
  <2> QED BY <1>1, <2>1 DEF LeftAlone
<1> QED BY <1>1, <1>2 DEF Cancelling

(* The draft of a transaction that has locked it, its jobs and its           *)
(* submissions stay as they are, and so do images that are locked.           *)
LEMMA DraftKept ==
    ASSUME Committed, Committed', NEW t \in Txs, LeftAlone(t), NEW d \in Drafts,
           DraftLock(d) \in held[t], draft[d].status # "absent"
    PROVE  /\ draft'[d] = draft[d] /\ OpenOf(d)' = OpenOf(d) /\ QueuedOf(d)' = QueuedOf(d)
           /\ \A j \in SlotJobs(draft[d]) : j \in Jobs /\ job[j].status # "none"
                                            /\ job'[j].status = job[j].status
           /\ (\A j \in SlotJobs(draft[d]) : ImageLock(j) \in held[t]) =>
                 /\ StagedOf(d)' = StagedOf(d)
                 /\ \A j \in StagedOf(d) : job[j].status # "queued" => job'[j] = job[j]
<1>1. draft'[d] = draft[d] /\ OpenOf(d)' = OpenOf(d)
  BY DEF LeftAlone
<1>2. \A j \in SlotJobs(draft[d]) : j \in Jobs /\ job[j].status # "none"
  BY SlotJobsAreJobs DEF Committed, TypeOK, SlotsShowJobs
<1>3. \A j \in SlotJobs(draft[d]) : job'[j].status = job[j].status
  BY DEF LeftAlone
<1>4. QueuedOf(d)' = QueuedOf(d)
  BY <1>1, <1>3 DEF QueuedOf
<1>5. ASSUME \A j \in SlotJobs(draft[d]) : ImageLock(j) \in held[t],
             NEW j \in SlotJobs(draft[d])
      PROVE  /\ job'[j].image = job[j].image
             /\ job[j].status \notin Unfinished => job'[j] = job[j]
  <2>1. j \in Jobs /\ job[j].status # "none" /\ job'[j].status = job[j].status
    BY <1>2, <1>3
  <2>2. CASE job[j].status \in Unfinished
    BY <2>1, <2>2 DEF Committed, UnfinishedJobKeepsImage
  <2>3. CASE job[j].status \notin Unfinished
    <3>1. job[j].status \in Final
      BY <2>1, <2>3 DEF Committed, TypeOK, JobRow
    <3> QED BY <1>5, <2>1, <3>1 DEF LeftAlone
  <2> QED BY <2>2, <2>3
<1>6. ASSUME \A j \in SlotJobs(draft[d]) : ImageLock(j) \in held[t]
      PROVE  /\ StagedOf(d)' = StagedOf(d)
             /\ \A j \in StagedOf(d) : job[j].status # "queued" => job'[j] = job[j]
  BY <1>1, <1>3, <1>5, <1>6 DEF StagedOf
<1> QED BY <1>1, <1>2, <1>3, <1>4, <1>6

LEMMA ClosingKept ==
    ASSUME Committed, Committed', [Next]_vars, NEW t \in Txs, LeftAlone(t), Closing(t)
    PROVE  Closing(t)'
<1> DEFINE d == tx[t].on.draft
           op == tx[t].op
           at == tx[t].at
<1>1. /\ tx'[t] = tx[t] /\ held'[t] = held[t]
      /\ d' = d /\ op' = op /\ at' = at /\ d \in Drafts
  BY DEF LeftAlone, Closing
<1>2. CASE at = "row"
  BY <1>1, <1>2 DEF Closing
<1>3. CASE at # "row"
  <2>1. DraftLock(d) \in held[t] /\ draft[d].status \in Closable(op)
    BY <1>3 DEF Closing
  <2>2. draft[d].status # "absent"
    BY <2>1 DEF Closable
  <2>3. /\ draft'[d] = draft[d] /\ OpenOf(d)' = OpenOf(d) /\ QueuedOf(d)' = QueuedOf(d)
        /\ \A j \in SlotJobs(draft[d]) : j \in Jobs /\ job[j].status # "none"
                                         /\ job'[j].status = job[j].status
        /\ (\A j \in SlotJobs(draft[d]) : ImageLock(j) \in held[t]) =>
              /\ StagedOf(d)' = StagedOf(d)
              /\ \A j \in StagedOf(d) : job[j].status # "queued" => job'[j] = job[j]
    BY <1>1, <2>1, <2>2, DraftKept
  <2>4. ClosedRow(op, d)' = ClosedRow(op, d)
    BY <1>1, <2>3 DEF ClosedRow
  <2>5. ASSUME \A s \in OpenOf(d) : SubLock(s) \in held[t]
        PROVE  AbortedSubs(d)' = AbortedSubs(d)
    <3>1. \A s \in OpenOf(d) : sub'[s] = sub[s]
      BY <2>5 DEF OpenOf, LeftAlone
    <3> QED BY <1>1, <2>3, <3>1 DEF AbortedSubs
  <2>6. ASSUME \A j \in QueuedOf(d) : JobLock(j) \in held[t]
        PROVE  /\ \A j \in QueuedOf(d) : job'[j] = job[j]
               /\ CancelledJobs(d)' = CancelledJobs(d)
    <3>1. \A j \in QueuedOf(d) : job'[j] = job[j]
      BY <2>3, <2>6 DEF QueuedOf, LeftAlone
    <3> QED BY <1>1, <2>3, <3>1 DEF CancelledJobs, CancelledRow
  <2>7. ASSUME \A j \in QueuedOf(d) : JobLock(j) \in held[t],
               \A j \in SlotJobs(draft[d]) : ImageLock(j) \in held[t]
        PROVE  StagedJobs(d)' = StagedJobs(d)
    <3>1. \A j \in QueuedOf(d) \cup StagedOf(d) : job'[j] = job[j]
      BY <2>3, <2>6, <2>7 DEF QueuedOf, StagedOf
    <3> QED BY <1>1, <2>3, <2>7, <3>1 DEF StagedJobs, StagedRow, CancelledRow
  <2>8. /\ "draft" \in DOMAIN tx[t].on
        /\ at \in {"row", "subs", "jobs", "images", "stage", "commit"}
        /\ at = "jobs" => op = "cancelDraft"
        /\ \A j \in Jobs : ImageLock(j) \in held[t] => j \in SlotJobs(draft[d])
    BY <1>3 DEF Closing
  <2>9. CASE at = "subs"
    BY <1>1, <2>1, <2>3, <2>4, <2>8, <2>9 DEF Closing
  <2>10. CASE at = "jobs"
    <3>1. \A s \in OpenOf(d) : SubLock(s) \in held[t]
      BY <2>10 DEF Closing
    <3> QED BY <1>1, <2>1, <2>3, <2>4, <2>5, <2>8, <2>10, <3>1 DEF Closing
  <2>11. CASE at \in {"images", "stage"}
    <3>1. \A s \in OpenOf(d) : SubLock(s) \in held[t]
      BY <2>11 DEF Closing
    <3>2. \A j \in QueuedOf(d) : JobLock(j) \in held[t]
      BY <2>11 DEF Closing
    <3>3. AbortedSubs(d)' = AbortedSubs(d) /\ CancelledJobs(d)' = CancelledJobs(d)
      BY <2>5, <2>6, <3>1, <3>2
    <3> QED BY <1>1, <2>1, <2>3, <2>4, <2>8, <2>11, <3>1, <3>2, <3>3 DEF Closing
  <2>12. CASE at = "commit"
    <3>1. \A s \in OpenOf(d) : SubLock(s) \in held[t]
      BY <2>12 DEF Closing
    <3>2. \A j \in QueuedOf(d) : JobLock(j) \in held[t]
      BY <2>12 DEF Closing
    <3>3. \A j \in SlotJobs(draft[d]) : ImageLock(j) \in held[t]
      BY <2>12 DEF Closing
    <3>4. AbortedSubs(d)' = AbortedSubs(d) /\ StagedJobs(d)' = StagedJobs(d)
      BY <2>5, <2>7, <3>1, <3>2, <3>3
    <3> QED BY <1>1, <2>1, <2>3, <2>4, <2>8, <2>12, <3>1, <3>2, <3>3, <3>4 DEF Closing
  <2> QED BY <1>3, <2>8, <2>9, <2>10, <2>11, <2>12
<1> QED BY <1>2, <1>3

LEMMA WhoOpens ==
    ASSUME TypeOK, [Next]_vars, NEW s \in Submissions, sub[s].status = "none", sub'[s] # sub[s]
    PROVE  \E d \in Drafts, screens \in SUBSET Slots \ {{}} : PutSubmission(s, d, screens)
<1>1. ASSUME NEW d, sub' = Aborted(d) PROVE sub'[s] = sub[s]
  BY <1>1 DEF Aborted
<1>2. ASSUME NEW t \in Submissions, NEW row, sub[t].status = "open", sub' = [sub EXCEPT ![t] = row]
      PROVE  sub'[s] = sub[s]
  BY <1>2 DEF TypeOK
<1>3. ASSUME NEW t \in Submissions, NEW d \in Drafts, NEW screens \in SUBSET Slots \ {{}},
             PutSubmission(t, d, screens)
      PROVE  sub'[s] = sub[s] \/ PutSubmission(s, d, screens)
  <2>1. CASE s = t
    BY <1>3, <2>1
  <2>2. CASE s # t
    BY <1>3, <2>2 DEF PutSubmission, TypeOK
  <2> QED BY <2>1, <2>2
<1>4. CASE UserNext
  <2>1. ASSUME NEW t \in Submissions, NEW k \in Slots, FailAdmission(t, k) PROVE sub'[s] = sub[s]
    BY <2>1 DEF FailAdmission, TypeOK
  <2>2. ASSUME NEW t \in Submissions, NEW k \in Slots, NEW j \in Jobs, StoreJob(t, k, j)
        PROVE  sub'[s] = sub[s]
    BY <2>2 DEF StoreJob, TypeOK
  <2>3. ASSUME NEW d \in Drafts, CancelDraft(d) \/ ConfirmDraft(d) \/ DeleteMatch(d)
        PROVE  sub'[s] = sub[s]
    BY <1>1, <2>3 DEF CancelDraft, ConfirmDraft, DeleteMatch
  <2>4. ASSUME NEW j \in Jobs, CancelQueued(j) \/ SweepImage(j) PROVE sub'[s] = sub[s]
    BY <2>4 DEF CancelQueued, SweepImage
  <2>5. ASSUME NEW d \in Drafts, NEW status, CreateDraft(d, status) \/ UpdateDraft(d, status)
        PROVE  sub'[s] = sub[s]
    BY <2>5 DEF CreateDraft, UpdateDraft
  <2> QED BY <1>3, <1>4, <2>1, <2>2, <2>3, <2>4, <2>5 DEF UserNext
<1>5. CASE WorkerNext
  <2>1. ASSUME NEW t \in Submissions, Settle(t) PROVE sub'[s] = sub[s]
    <3>1. sub[t].status = "open"
      BY <2>1 DEF Settle
    <3> QED BY <2>1, <3>1 DEF Settle, TypeOK
  <2> QED BY <1>5, <2>1
          DEF WorkerNext, Claim, Heartbeat, AttemptEnds, FinishSuccess, FinishFailure,
              RequeueTransient, RequeueInterrupted, OwnerLost, Abandon, Recover, ReapStale
<1>6. CASE TimeNext \/ UNCHANGED vars
  <2>1. ASSUME NEW t \in Submissions, DeadlinePasses(t) PROVE sub'[s] = sub[s]
    BY <2>1 DEF DeadlinePasses, TypeOK
  <2> QED BY <1>6, <2>1 DEF TimeNext, LeaseAges, BecomesDue, JobAges, vars
<1> QED BY <1>4, <1>5, <1>6 DEF Next

(* An image that nobody needs is never needed again.                         *)
LEMMA DeletableKept ==
    ASSUME Committed, [Next]_vars, NEW j \in Jobs, Deletable(j, draft, sub, job), job'[j] = job[j]
    PROVE  Deletable(j, draft, sub, job)'
<1>0. TypeOK /\ UnbornRows /\ OpenHasDraft /\ SlotsShowJobs /\ UnbornImages
  BY DEF Committed
<1>1. job[j].image = "available" /\ job[j].status \notin Unfinished
  BY DEF Deletable, Unreferenced
<1>2. job[j].status # "none"
  BY <1>0, <1>1 DEF UnbornImages
<1>3. ASSUME NEW s \in Submissions, NEW k \in Slots, sub'[s].status = "open", sub'[s].members[k] = j
      PROVE  FALSE
  <2>1. sub[s].members[k] = j
    <3>1. ~StoreJob(s, k, j)
      BY <1>2 DEF StoreJob
    <3> QED BY <1>0, <1>3, <3>1, MembersMove
  <2>2. sub[s].status # "open"
    BY <2>1 DEF Deletable, Unreferenced
  <2>3. sub[s].status = "none"
    BY <1>0, <1>3, <2>2, EverySubmissionSteps DEF SubmissionStep, Put, Proceeds
  <2>4. PICK d \in Drafts, screens \in SUBSET Slots \ {{}} : PutSubmission(s, d, screens)
    BY <1>0, <1>3, <2>2, <2>3, WhoOpens
  <2>5. sub'[s].members = [l \in Slots |-> IF l \in screens THEN "pending" ELSE "absent"]
    BY <1>0, <2>4 DEF PutSubmission, TypeOK
  <2>6. sub'[s].members[k] \in {"pending", "absent"}
    BY <2>5
  <2> QED BY <1>3, <2>6, MemberAssumption
<1>4. ASSUME NEW d \in Drafts, draft'[d].status \in NonTerminalDraft, j \in SlotJobs(draft'[d])
      PROVE  FALSE
  <2>1. j \in SlotJobs(draft[d])
    BY <1>2, <1>4, CoversKept
  <2>2. draft[d].status \notin NonTerminalDraft
    BY <2>1 DEF Deletable, Unreferenced
  <2>3. draft[d].status # "absent"
    BY <1>0, <2>1, EmptyShowsNothing DEF SlotsShowJobs
  <2>4. DraftStep(draft[d], draft'[d])
    BY <1>0, EveryDraftSteps
  <2> QED BY <1>4, <2>2, <2>3, <2>4
          DEF DraftStep, Opened, Edited, Erased, Requested, Shown, Reprojected
<1> QED BY <1>1, <1>3, <1>4 DEF Deletable, Unreferenced

LEMMA SweepingKept ==
    ASSUME Committed, [Next]_vars, NEW t \in Txs, LeftAlone(t), Sweeping(t)
    PROVE  Sweeping(t)'
<1> DEFINE j == tx[t].on.job
           at == tx[t].at
<1>1. tx'[t] = tx[t] /\ held'[t] = held[t] /\ j \in Jobs /\ job[j].status # "none"
  BY DEF LeftAlone, Sweeping
<1>2. job'[j].status # "none"
  BY <1>1, CoversKept
<1>3. ASSUME at = "commit", Deletable(j, draft, sub, job)
      PROVE  job'[j] = job[j] /\ Deletable(j, draft, sub, job)'
  <2>1. job[j].status \in Final /\ ImageLock(j) \in held[t]
    BY <1>1, <1>3 DEF Deletable, Unreferenced, Committed, TypeOK, JobRow, Sweeping
  <2>2. job'[j] = job[j]
    BY <1>1, <2>1 DEF LeftAlone
  <2> QED BY <1>1, <1>3, <2>2, DeletableKept
<1>4. j' = j /\ at' = at
  BY <1>1
<1>5. /\ at \in {"image", "stage", "commit"}
      /\ at = "image" => held'[t] = {} /\ tx'[t].wait \subseteq {ImageLock(j)}
      /\ at # "image" => held'[t] = {ImageLock(j)} /\ tx'[t].wait = {}
      /\ at # "commit" => tx'[t].rows = Unwritten
  BY <1>1 DEF Sweeping
<1>6. at = "commit" =>
         \/ tx'[t].rows = Unwritten
         \/ /\ Deletable(j, draft, sub, job)'
            /\ tx'[t].rows = Written(NoRows, NoRows,
                                     Row(j, [job'[j] EXCEPT !.image = "delete_pending"]))
  BY <1>1, <1>3 DEF Sweeping
<1>7. Deletable(j, draft, sub, job)' = Deletable(tx[t].on.job, draft, sub, job)'
  BY <1>4
<1> QED BY <1>1, <1>2, <1>4, <1>5, <1>6, <1>7 DEF Sweeping

LEMMA SubmissionKept ==
    ASSUME TypeOK, [Next]_vars, NEW s \in Submissions, sub[s].status # "none"
    PROVE  sub'[s].status # "none" /\ sub'[s].draft = sub[s].draft
BY EverySubmissionSteps DEF SubmissionStep, Put, Proceeds

LEMMA StoringKept ==
    ASSUME Committed, Committed', IsFiniteSet(ActiveJobs), [Next]_vars, NEW t \in Txs,
           LeftAlone(t), tx[t].op = "store", Storing(t)
    PROVE  Storing(t)'
<1> DEFINE s == tx[t].on.sub
           k == tx[t].on.slot
           j == tx[t].on.job
           d == sub[s].draft
           at == tx[t].at
<1>1. /\ tx'[t] = tx[t] /\ held'[t] = held[t]
      /\ s \in Submissions /\ k \in Slots /\ j \in Jobs /\ sub[s].status # "none"
      /\ job[j].status = "none"
  BY DEF LeftAlone, Storing
<1>2. job'[j].status = "none"
  BY <1>1 DEF LeftAlone
<1>3. sub'[s].status # "none" /\ sub'[s].draft = d
  BY <1>1, SubmissionKept DEF Committed
<1>4. s' = s /\ k' = k /\ j' = j /\ d' = d /\ at' = at
  BY <1>1, <1>3
<1>5. ASSUME at \in {"image", "gate", "commit"}
      PROVE  /\ sub'[s] = sub[s] /\ d \in Drafts /\ draft'[d] = draft[d]
             /\ Attachable(d, k)'
  <2>1. SubLock(s) \in held[t] /\ DraftLock(d) \in held[t] /\ sub[s].status = "open"
        /\ Attachable(d, k)
    BY <1>5 DEF Storing
  <2>2. sub'[s] = sub[s]
    BY <1>1, <2>1 DEF LeftAlone
  <2>3. d \in Drafts /\ draft[d].status \in NonTerminalDraft
    BY <1>1, <2>1 DEF Committed, OpenHasDraft
  <2>4. draft'[d] = draft[d] /\ \A i \in SlotJobs(draft[d]) : job'[i].status = job[i].status
    BY <2>1, <2>3 DEF LeftAlone
  <2> HIDE DEF d, k
  <2>5. draft[d].slots[k] \in Jobs => draft[d].slots[k] \in SlotJobs(draft[d])
    BY <1>1, NullsAssumption DEF SlotJobs
  <2>6. d' = d /\ k' = k
    BY <1>4
  <2>7. Attachable(d, k)'
    BY <2>1, <2>3, <2>4, <2>5, <2>6 DEF Attachable
  <2> QED BY <2>2, <2>3, <2>4, <2>7
<1>6. ASSUME at = "commit"
      PROVE  Cardinality(ActiveJobs)' < ActiveLimit
  <2>1. Gate \in held[t] /\ Cardinality(ActiveJobs) < ActiveLimit
    BY <1>6 DEF Storing
  <2>2. ActiveJobs' \subseteq ActiveJobs
    BY <2>1 DEF LeftAlone
  <2>3. Cardinality(ActiveJobs') <= Cardinality(ActiveJobs) /\ IsFiniteSet(ActiveJobs')
    BY <2>2, FS_Subset
  <2>4. Cardinality(ActiveJobs') \in Nat /\ Cardinality(ActiveJobs) \in Nat
    BY <2>3, FS_CardinalityType
  <2> QED BY <2>1, <2>3, <2>4, LimitsAssumption
<1>7. at = "commit" => StoredDraft(d, k, j)' = StoredDraft(d, k, j)
                       /\ StoredSub(s, k, j)' = StoredSub(s, k, j)
  <2> HIDE DEF s, k, j, d
  <2> QED BY <1>4, <1>5 DEF StoredDraft, StoredSub
<1>8. /\ "draft" \notin DOMAIN tx'[t].on
      /\ at \in {"row", "sub", "image", "gate", "commit"}
      /\ at # "commit" => tx'[t].rows = Unwritten
      /\ at = "row" => held'[t] = {} /\ tx'[t].wait \subseteq {DraftLock(d)}
      /\ at # "row" => DraftLock(d) \in held'[t]
      /\ at = "sub" => tx'[t].wait \subseteq {SubLock(s)}
      /\ at = "image" => tx'[t].wait \subseteq {ImageLock(j)}
      /\ at = "gate" => tx'[t].wait \subseteq {Gate}
  BY <1>1 DEF Storing
<1>9. at \in {"image", "gate", "commit"} =>
         /\ SubLock(s) \in held'[t]
         /\ sub'[s].status = "open" /\ sub'[s].members[k] = "pending" /\ Attachable(d, k)'
  BY <1>1, <1>5 DEF Storing
<1>10. at = "commit" =>
         /\ tx'[t].wait = {} /\ Gate \in held'[t] /\ ~sub'[s].late
         /\ Cardinality(ActiveJobs)' < ActiveLimit
         /\ tx'[t].rows = Written(Row(d, StoredDraft(d, k, j)'), Row(s, StoredSub(s, k, j)'),
                                  Row(j, QueuedJob))
  BY <1>1, <1>5, <1>6, <1>7 DEF Storing
<1> QED BY <1>1, <1>2, <1>3, <1>4, <1>8, <1>9, <1>10 DEF Storing

LEMMA SettledRowsKept ==
    ASSUME Committed, Committed', [Next]_vars, NEW t \in Txs, LeftAlone(t), NEW s \in Submissions,
           sub[s].status = "open", SubLock(s) \in held[t], DraftLock(sub[s].draft) \in held[t]
    PROVE  sub'[s] = sub[s] /\ SettledRows(s)' = SettledRows(s)
<1> DEFINE d == sub[s].draft
           members == Expired(sub[s].members, sub[s].late)
<1>1. sub'[s] = sub[s]
  BY DEF LeftAlone
<1>2. d \in Drafts /\ draft[d].status \in NonTerminalDraft
  BY DEF Committed, OpenHasDraft
<1>3. /\ draft'[d] = draft[d] /\ OpenOf(d)' = OpenOf(d)
      /\ \A j \in SlotJobs(draft[d]) : job'[j].status = job[j].status
  BY <1>2 DEF LeftAlone
<1>4. members' = members /\ d' = d
  BY <1>1 DEF Expired
<1>5. ASSUME NEW k \in Slots, members[k] \in Jobs
      PROVE  job'[members[k]].status \in Unfinished <=> job[members[k]].status \in Unfinished
  <2> DEFINE j == members[k]
  <2>1. sub[s].members[k] = j
    BY <1>5, MemberAssumption DEF Expired
  <2>2. job[j].status # "none"
    BY <1>5, <2>1 DEF Committed, RegisteredIsStored
  <2>3. CASE job[j].status \in Unfinished
    <3>1. draft[d].slots[k] = j
      BY <1>2, <1>5, <2>1, <2>3 DEF Committed, UnfinishedJobIsShown
    <3>2. j \in SlotJobs(draft[d])
      BY <1>5, <3>1, NullsAssumption DEF SlotJobs
    <3> QED BY <1>3, <3>2
  <2>4. CASE job[j].status \notin Unfinished
    BY <1>5, <2>2, <2>4, CoversKept
  <2> QED BY <2>3, <2>4
<1>6. Outstanding(members)' = Outstanding(members)
  <2> HIDE DEF members
  <2> QED BY <1>4, <1>5 DEF Outstanding
<1>7. ProjectEmptyDraft(s, d)[d]' = ProjectEmptyDraft(s, d)[d]
  <2> DEFINE alone == \A u \in OpenSubmissions \ {s} : sub[u].draft # d
  <2>1. alone <=> OpenOf(d) \subseteq {s}
    BY DEF OpenSubmissions, OpenOf
  <2>2. alone' <=> OpenOf(d)' \subseteq {s}
    BY <1>4 DEF OpenSubmissions, OpenOf
  <2>3. alone' = alone
    BY <1>3, <2>1, <2>2
  <2>4. [draft' EXCEPT ![d].status = "ocr_failed"][d] = [draft EXCEPT ![d].status = "ocr_failed"][d]
    BY <1>2, <1>3 DEF Committed, TypeOK
  <2> HIDE DEF alone, d
  <2>5. ProjectEmptyDraft(s, d)[d] = IF /\ draft[d].status = "ocr_running"
                                        /\ draft[d].slots = EmptySlots /\ alone
                                     THEN [draft EXCEPT ![d].status = "ocr_failed"][d]
                                     ELSE draft[d]
    BY DEF ProjectEmptyDraft, alone
  <2>6. ProjectEmptyDraft(s, d)[d]' = IF /\ draft'[d].status = "ocr_running"
                                         /\ draft'[d].slots = EmptySlots /\ alone'
                                      THEN [draft' EXCEPT ![d].status = "ocr_failed"][d]
                                      ELSE draft'[d]
    BY <1>4 DEF ProjectEmptyDraft, alone
  <2> QED BY <1>3, <2>3, <2>4, <2>5, <2>6
<1> HIDE DEF members, d
<1>8. SettledRows(s) =
        IF draft[d].status \notin NonTerminalDraft
        THEN Written(NoRows, Row(s, [sub[s] EXCEPT !.status = "aborted"]), NoRows)
        ELSE IF Outstanding(members) # {}
        THEN Written(NoRows, Row(s, [sub[s] EXCEPT !.members = members]), NoRows)
        ELSE Written(Row(d, ProjectEmptyDraft(s, d)[d]),
                     Row(s, [sub[s] EXCEPT !.members = members, !.status = "settled"]), NoRows)
  BY DEF SettledRows, d, members
<1>9. SettledRows(s)' =
        IF draft'[d].status \notin NonTerminalDraft
        THEN Written(NoRows, Row(s, [sub'[s] EXCEPT !.status = "aborted"]), NoRows)
        ELSE IF Outstanding(members)' # {}
        THEN Written(NoRows, Row(s, [sub'[s] EXCEPT !.members = members]), NoRows)
        ELSE Written(Row(d, ProjectEmptyDraft(s, d)[d]'),
                     Row(s, [sub'[s] EXCEPT !.members = members, !.status = "settled"]), NoRows)
  BY <1>4 DEF SettledRows, d, members
<1> QED BY <1>1, <1>3, <1>6, <1>7, <1>8, <1>9

LEMMA SettlingKept ==
    ASSUME Committed, Committed', [Next]_vars, NEW t \in Txs, LeftAlone(t), Settling(t)
    PROVE  Settling(t)'
<1> DEFINE s == tx[t].on.sub
<1>1. tx'[t] = tx[t] /\ held'[t] = held[t] /\ s \in Submissions /\ sub[s].status # "none"
  BY DEF LeftAlone, Settling
<1>2. sub'[s].status # "none" /\ sub'[s].draft = sub[s].draft
  BY <1>1, SubmissionKept DEF Committed
<1>3. s' = s
  BY <1>1
<1>4. ASSUME tx[t].at = "commit"
      PROVE  sub'[s] = sub[s] /\ SettledRows(s)' = SettledRows(s)
  BY <1>1, <1>4, SettledRowsKept DEF Settling
<1>5. tx[t].at = "commit" => sub'[s].status = "open" /\ tx'[t].rows = SettledRows(s)'
  BY <1>1, <1>4 DEF Settling
<1> QED BY <1>1, <1>2, <1>3, <1>5 DEF Settling

LEMMA SoundTxKept ==
    ASSUME Committed, Committed', IsFiniteSet(ActiveJobs), [Next]_vars, NEW t \in Txs,
           LeftAlone(t), SoundTx(t)
    PROVE  SoundTx(t)'
<1>1. tx'[t] = tx[t] /\ held'[t] = held[t]
  BY DEF LeftAlone
<1>2. Closedtx' = Closedtx
  BY DEF Closedtx, NoRows, Unwritten
<1> QED BY <1>1, <1>2, EndingKept, CompletingKept, CancellingKept, ClosingKept, SweepingKept,
           StoringKept, SettlingKept DEF SoundTx
----------------------------------------------------------------------------
(* What a commit makes of the rows, kind by kind.                            *)

LEMMA OverRows ==
    ASSUME NEW S, NEW old, old = [x \in S |-> old[x]]
    PROVE  /\ Over(NoRows, old) = old
           /\ \A x \in S : \A row : Over(Row(x, row), old) = [old EXCEPT ![x] = row]
           /\ \A T \in SUBSET S : \A row :
                 Over([x \in T |-> row[x]], old) = [x \in S |-> IF x \in T THEN row[x] ELSE old[x]]
<1>1. DOMAIN old = S
  OBVIOUS
<1>2. Over(NoRows, old) = old
  BY <1>1 DEF Over, NoRows
<1>3. ASSUME NEW x \in S, NEW row PROVE Over(Row(x, row), old) = [old EXCEPT ![x] = row]
  BY <1>1 DEF Over, Row
<1>4. ASSUME NEW T \in SUBSET S, NEW row
      PROVE  Over([x \in T |-> row[x]], old) = [x \in S |-> IF x \in T THEN row[x] ELSE old[x]]
  BY <1>1 DEF Over
<1> QED BY <1>2, <1>3, <1>4

LEMMA CommitRows ==
    ASSUME NEW t \in Txs, NEW drafts, NEW subs, NEW jobs,
           tx[t].rows = Written(drafts, subs, jobs), Commit(t)
    PROVE  draft' = Over(drafts, draft) /\ sub' = Over(subs, sub) /\ job' = Over(jobs, job)
BY RowsWritten DEF Commit, DraftsSeen, SubsSeen, JobsSeen

LEMMA EndCommits ==
    ASSUME Committed, NEW t \in Txs, Ending(t), Commit(t)
    PROVE  LET j == tx[t].on.job
               status == EndStatus(t)
           IN  /\ job[j].status \in Unfinished /\ sub' = sub
               /\ status # "queued" => Finish(j, status)
               /\ status = "queued" => /\ draft' = draft
                                       /\ job' = [job EXCEPT ![j] = Requeued(@, TRUE)]
<1> DEFINE j == tx[t].on.job
           status == EndStatus(t)
           row == EndRow(j, status)
<1>0. TypeOK /\ UnfinishedSlotShowsRunning
  BY DEF Committed
<1>1. j \in Jobs /\ job[j].status \in Unfinished
      /\ tx[t].rows = Written(IF status = "queued" THEN NoRows ELSE EndDrafts(j, status),
                              NoRows, Row(j, row))
  BY DEF Commit, Ending
<1>2. /\ draft = [d \in Drafts |-> draft[d]] /\ sub = [s \in Submissions |-> sub[s]]
      /\ job = [i \in Jobs |-> job[i]]
  BY <1>0 DEF TypeOK
<1> HIDE DEF j, status, row
<1>3. /\ draft' = Over(IF status = "queued" THEN NoRows ELSE EndDrafts(j, status), draft)
      /\ sub' = Over(NoRows, sub) /\ job' = Over(Row(j, row), job)
  BY <1>1, CommitRows
<1>4. sub' = sub /\ job' = [job EXCEPT ![j] = row]
  BY <1>1, <1>2, <1>3, OverRows
<1>5. CASE status = "queued"
  <2>1. draft' = draft
    BY <1>2, <1>3, <1>5, OverRows
  <2>2. row = Requeued(job[j], TRUE)
    BY <1>5 DEF row, EndRow
  <2> QED BY <1>1, <1>4, <1>5, <2>1, <2>2 DEF j, status
<1>6. CASE status # "queued"
  <2>1. row = Finished(job[j], status)
    BY <1>6 DEF row, EndRow
  <2> DEFINE new == [d \in Drafts |-> [draft[d] EXCEPT !.status = ProjectedStatus(job', draft[d])]]
  <2>2. EndDrafts(j, status) = [d \in Shows(j) |-> new[d]]
    BY <1>4 DEF EndDrafts, row, Shows
  <2>3. Shows(j) \in SUBSET Drafts
    BY DEF Shows
  <2> HIDE DEF new
  <2>7. draft' = Over([d \in Shows(j) |-> new[d]], draft)
    BY <1>3, <1>6, <2>2
  <2>4. draft' = [d \in Drafts |-> IF d \in Shows(j) THEN new[d] ELSE draft[d]]
    BY <1>2, <2>3, <2>7, OverRows
  <2>5. \A d \in Drafts : d \in Shows(j) <=> draft[d].status = "ocr_running" /\ j \in SlotJobs(draft[d])
    BY <1>0, <1>1 DEF Shows, UnfinishedSlotShowsRunning
  <2>6. draft' = Project(job', j)
    BY <2>4, <2>5 DEF Project, new
  <2> QED BY <1>1, <1>4, <1>6, <2>1, <2>6 DEF Finish, j, status
<1> QED BY <1>5, <1>6

LEMMA CompletionCommits ==
    ASSUME Committed, NEW t \in Txs, tx[t].op = "complete", Ending(t), Completing(t), Commit(t)
    PROVE  LET w == tx[t].on.worker
           IN  w \in Workers /\ (FinishSuccess(w) \/ FinishFailure(w) \/ RequeueInterrupted(w))
<1> DEFINE w == tx[t].on.worker
           j == tx[t].on.job
           status == EndStatus(t)
<1>1. /\ w \in Workers /\ attempt[w].job = j /\ Owned(w)
      /\ status \in {"succeeded", "failed", "queued"}
  BY DEF Completing, Commit, EndStatus
<1>2. EndAttempt(w)
  BY DEF Commit
<1>3. /\ sub' = sub
      /\ status # "queued" => Finish(j, status)
      /\ status = "queued" => draft' = draft /\ job' = [job EXCEPT ![j] = Requeued(@, TRUE)]
  BY EndCommits
<1> HIDE DEF w, j, status
<1>4. CASE status = "succeeded"
  BY <1>1, <1>2, <1>3, <1>4 DEF FinishSuccess, w
<1>5. CASE status = "failed"
  BY <1>1, <1>2, <1>3, <1>5 DEF FinishFailure, w
<1>6. CASE status = "queued"
  BY <1>1, <1>2, <1>3, <1>6 DEF RequeueInterrupted, w
<1> QED BY <1>1, <1>4, <1>5, <1>6

LEMMA CancellationCommits ==
    ASSUME Committed, NEW t \in Txs, tx[t].op = "cancelJob", Ending(t), Cancelling(t), Commit(t)
    PROVE  tx[t].on.job \in Jobs /\ CancelQueued(tx[t].on.job)
<1>1. EndStatus(t) = "cancelled"
  BY DEF EndStatus
<1>2. sub' = sub /\ Finish(tx[t].on.job, "cancelled")
  BY <1>1, EndCommits
<1>3. UNCHANGED attempt /\ job[tx[t].on.job].status = "queued" /\ tx[t].on.job \in Jobs
  BY DEF Commit, Cancelling, Ending
<1> QED BY <1>2, <1>3 DEF CancelQueued

LEMMA SweepCommits ==
    ASSUME Committed, NEW t \in Txs, tx[t].op = "sweep", Sweeping(t), Commit(t)
    PROVE  vars' = vars \/ (tx[t].on.job \in Jobs /\ SweepImage(tx[t].on.job))
<1> DEFINE j == tx[t].on.job
<1>0. /\ draft = [d \in Drafts |-> draft[d]] /\ sub = [s \in Submissions |-> sub[s]]
      /\ job = [i \in Jobs |-> job[i]]
  BY DEF Committed, TypeOK
<1>1. j \in Jobs /\ attempt' = attempt
  BY DEF Commit, Sweeping
<1>2. CASE tx[t].rows = Unwritten
  <2>1. tx[t].rows = Written(NoRows, NoRows, NoRows)
    BY <1>2, RowsWritten
  <2>2. draft' = draft /\ sub' = sub /\ job' = job
    BY <1>0, <2>1, CommitRows, OverRows
  <2> QED BY <1>1, <2>2 DEF vars
<1>3. CASE /\ Deletable(j, draft, sub, job)
           /\ tx[t].rows = Written(NoRows, NoRows, Row(j, [job[j] EXCEPT !.image = "delete_pending"]))
  <2> DEFINE row == [job[j] EXCEPT !.image = "delete_pending"]
  <2> HIDE DEF row, j
  <2>0. tx[t].rows = Written(NoRows, NoRows, Row(j, row))
    BY <1>3 DEF row
  <2>1. draft' = draft /\ sub' = sub /\ job' = [job EXCEPT ![j] = row]
    BY <1>0, <1>1, <2>0, CommitRows, OverRows
  <2>2. job' = [job EXCEPT ![j].image = "delete_pending"]
    BY <2>1 DEF row
  <2> QED BY <1>1, <1>3, <2>1, <2>2 DEF SweepImage, j
<1> QED BY <1>2, <1>3 DEF Sweeping, Commit

LEMMA StoreCommits ==
    ASSUME Committed, NEW t \in Txs, tx[t].op = "store", Storing(t), Commit(t)
    PROVE  LET s == tx[t].on.sub
               k == tx[t].on.slot
               j == tx[t].on.job
           IN  s \in Submissions /\ k \in Slots /\ j \in Jobs /\ StoreJob(s, k, j)
<1> DEFINE s == tx[t].on.sub
           k == tx[t].on.slot
           j == tx[t].on.job
           d == sub[s].draft
<1>0. /\ draft = [i \in Drafts |-> draft[i]] /\ sub = [i \in Submissions |-> sub[i]]
      /\ job = [i \in Jobs |-> job[i]]
  BY DEF Committed, TypeOK
<1>1. /\ s \in Submissions /\ k \in Slots /\ j \in Jobs /\ attempt' = attempt
      /\ sub[s].status = "open" /\ sub[s].members[k] = "pending" /\ Attachable(d, k)
      /\ ~sub[s].late /\ Cardinality(ActiveJobs) < ActiveLimit /\ job[j].status = "none"
  BY DEF Commit, Storing
<1>2. d \in Drafts
  BY <1>1 DEF Committed, OpenHasDraft
<1>3. tx[t].rows = Written(Row(d, StoredDraft(d, k, j)), Row(s, StoredSub(s, k, j)), Row(j, QueuedJob))
  BY DEF Commit, Storing
<1> HIDE DEF s, k, j, d
<1>4. /\ draft' = [draft EXCEPT ![d] = StoredDraft(d, k, j)]
      /\ sub' = [sub EXCEPT ![s] = StoredSub(s, k, j)]
      /\ job' = [job EXCEPT ![j] = QueuedJob]
  BY <1>0, <1>1, <1>2, <1>3, CommitRows, OverRows
<1>5. draft' = [draft EXCEPT ![d].status = "ocr_running", ![d].slots[k] = j]
  BY <1>0, <1>2, <1>4 DEF StoredDraft
<1>6. sub' = [sub EXCEPT ![s].members[k] = j]
  BY <1>4 DEF StoredSub
<1>7. StoreJob(s, k, j)
  BY <1>1, <1>4, <1>5, <1>6 DEF StoreJob, d
<1> QED BY <1>1, <1>7 DEF s, k, j

LEMMA SettlementCommits ==
    ASSUME Committed, NEW t \in Txs, tx[t].op = "settle", Settling(t), Commit(t)
    PROVE  tx[t].on.sub \in Submissions /\ Settle(tx[t].on.sub)
<1> DEFINE s == tx[t].on.sub
           d == sub[s].draft
           members == Expired(sub[s].members, sub[s].late)
<1>0. /\ draft = [i \in Drafts |-> draft[i]] /\ sub = [i \in Submissions |-> sub[i]]
      /\ job = [i \in Jobs |-> job[i]]
  BY DEF Committed, TypeOK
<1>1. s \in Submissions /\ sub[s].status = "open" /\ tx[t].rows = SettledRows(s) /\ attempt' = attempt
  BY DEF Commit, Settling
<1>2. d \in Drafts /\ draft[d].status \in NonTerminalDraft
  BY <1>1 DEF Committed, OpenHasDraft
<1>3. CASE Outstanding(members) # {}
  <2> DEFINE row == [sub[s] EXCEPT !.members = members]
  <2>1. tx[t].rows = Written(NoRows, Row(s, row), NoRows)
    BY <1>1, <1>2, <1>3 DEF SettledRows
  <2> HIDE DEF s, row
  <2>2. draft' = draft /\ job' = job /\ sub' = [sub EXCEPT ![s] = row]
    BY <1>0, <1>1, <2>1, CommitRows, OverRows
  <2>3. sub' = [sub EXCEPT ![s].members = members]
    <3> HIDE DEF members
    <3> QED BY <2>2 DEF row
  <2> QED BY <1>1, <1>2, <1>3, <2>2, <2>3 DEF Settle, s
<1>4. CASE Outstanding(members) = {}
  <2> DEFINE row == [sub[s] EXCEPT !.members = members, !.status = "settled"]
             shown == ProjectEmptyDraft(s, d)[d]
  <2>0. SettledRows(s) = IF draft[d].status \notin NonTerminalDraft
        THEN Written(NoRows, Row(s, [sub[s] EXCEPT !.status = "aborted"]), NoRows)
        ELSE IF Outstanding(members) # {}
        THEN Written(NoRows, Row(s, [sub[s] EXCEPT !.members = members]), NoRows)
        ELSE Written(Row(d, shown), Row(s, row), NoRows)
    BY DEF SettledRows
  <2> HIDE DEF members, s, row, shown, d
  <2>1. tx[t].rows = Written(Row(d, shown), Row(s, row), NoRows)
    BY <1>1, <1>2, <1>4, <2>0
  <2>2. draft' = [draft EXCEPT ![d] = shown] /\ job' = job /\ sub' = [sub EXCEPT ![s] = row]
    BY <1>0, <1>1, <1>2, <2>1, CommitRows, OverRows
  <2>3. sub' = [sub EXCEPT ![s].members = members, ![s].status = "settled"]
    BY <1>0, <1>1, <2>2 DEF row
  <2>4. [draft EXCEPT ![d] = shown] = ProjectEmptyDraft(s, d)
    <3>1. CASE ProjectEmptyDraft(s, d) = draft
      BY <1>0, <1>2, <3>1 DEF shown
    <3>2. CASE ProjectEmptyDraft(s, d) = [draft EXCEPT ![d].status = "ocr_failed"]
      BY <1>0, <1>2, <3>2 DEF shown
    <3> QED BY <3>1, <3>2 DEF ProjectEmptyDraft
  <2>5. draft' = ProjectEmptyDraft(s, d)
    BY <2>2, <2>4
  <2>6. Settle(s)
    BY <1>1, <1>2, <1>4, <2>2, <2>3, <2>5 DEF Settle, d, members
  <2> QED BY <1>1, <2>6 DEF s
<1> QED BY <1>3, <1>4

(* A closed draft was the only one that showed its jobs, and its submissions *)
(* the only ones that have them registered.                                  *)
LEMMA ClosedReleases ==
    ASSUME Committed, NEW d \in Drafts, NEW op \in {"cancelDraft", "confirm"},
           NEW drafts, drafts = [draft EXCEPT ![d] = ClosedRow(op, d)],
           NEW subs, subs = Aborted(d),
           NEW j \in SlotJobs(draft[d]), NEW jobs
    PROVE  Unreferenced(j, drafts, subs, jobs) <=> jobs[j].status \notin Unfinished
<1>0. TypeOK /\ ShownOnce /\ ShownByOwnDraft /\ j \in Jobs
  BY SlotJobsAreJobs DEF Committed, TypeOK
<1>1. ASSUME NEW s \in Submissions, NEW k \in Slots, subs[s].status = "open"
      PROVE  subs[s].members[k] # j
  <2>1. CASE sub[s].status = "open" /\ sub[s].draft = d
    BY <1>0, <1>1, <2>1 DEF Aborted, TypeOK
  <2>2. CASE ~(sub[s].status = "open" /\ sub[s].draft = d)
    <3>1. subs[s] = sub[s]
      BY <2>2 DEF Aborted
    <3> QED BY <1>0, <1>1, <2>2, <3>1 DEF ShownByOwnDraft
  <2> QED BY <2>1, <2>2
<1>2. ASSUME NEW e \in Drafts, drafts[e].status \in NonTerminalDraft
      PROVE  j \notin SlotJobs(drafts[e])
  <2>1. CASE e = d
    <3>1. ClosedRow(op, d).status \in {"deleted", "confirmed"}
      BY <1>0 DEF ClosedRow, TypeOK, DraftRow
    <3> QED BY <1>0, <1>2, <2>1, <3>1 DEF TypeOK
  <2>2. CASE e # d
    <3>1. drafts[e] = draft[e]
      BY <1>0, <2>2 DEF TypeOK
    <3> QED BY <1>0, <2>2, <3>1 DEF ShownOnce
  <2> QED BY <2>1, <2>2
<1> QED BY <1>1, <1>2 DEF Unreferenced

LEMMA CloseCommits ==
    ASSUME Committed, NEW t \in Txs, tx[t].op \in {"cancelDraft", "confirm"}, Closing(t), Commit(t)
    PROVE  LET d == tx[t].on.draft
           IN  d \in Drafts /\ IF tx[t].op = "cancelDraft" THEN CancelDraft(d) ELSE ConfirmDraft(d)
<1> DEFINE d == tx[t].on.draft
           op == tx[t].op
           changed == QueuedOf(d) \cup StagedOf(d)
           aborted == [s \in Submissions |-> [sub[s] EXCEPT !.status = "aborted"]]
           staged == [j \in Jobs |-> StagedRow(j)]
<1>0. /\ TypeOK /\ UnfinishedSlotShowsRunning
      /\ draft = [i \in Drafts |-> draft[i]] /\ sub = [i \in Submissions |-> sub[i]]
      /\ job = [i \in Jobs |-> job[i]]
  BY DEF Committed, TypeOK
<1>1. /\ d \in Drafts /\ draft[d].status \in Closable(op) /\ attempt' = attempt
      /\ tx[t].rows = Written(Row(d, ClosedRow(op, d)), AbortedSubs(d), StagedJobs(d))
  BY DEF Closing, Commit
<1>2. SlotJobs(draft[d]) \subseteq Jobs
  BY <1>0, <1>1, SlotJobsAreJobs DEF TypeOK
<1>3. changed \in SUBSET Jobs /\ OpenOf(d) \in SUBSET Submissions
  BY <1>2 DEF QueuedOf, StagedOf, OpenOf
<1>4. AbortedSubs(d) = [s \in OpenOf(d) |-> aborted[s]]
  BY <1>3 DEF AbortedSubs
<1>5. StagedJobs(d) = [j \in changed |-> staged[j]]
  BY <1>3 DEF StagedJobs
<1>6. op \in {"cancelDraft", "confirm"}
  OBVIOUS
<1> HIDE DEF d, op, changed, aborted, staged
<1>7. /\ draft' = Over(Row(d, ClosedRow(op, d)), draft)
      /\ sub' = Over([s \in OpenOf(d) |-> aborted[s]], sub)
      /\ job' = Over([j \in changed |-> staged[j]], job)
  BY <1>1, <1>4, <1>5, CommitRows
<1>8. draft' = [draft EXCEPT ![d] = ClosedRow(op, d)]
  <2>1. Over(Row(d, ClosedRow(op, d)), draft) = [draft EXCEPT ![d] = ClosedRow(op, d)]
    BY <1>0, <1>1, OverRows
  <2> QED BY <1>7, <2>1
<1>9. sub' = [s \in Submissions |-> IF s \in OpenOf(d) THEN aborted[s] ELSE sub[s]]
  <2>1. Over([s \in OpenOf(d) |-> aborted[s]], sub)
           = [s \in Submissions |-> IF s \in OpenOf(d) THEN aborted[s] ELSE sub[s]]
    <3> DEFINE open == OpenOf(d)
    <3>1. open \in SUBSET Submissions /\ sub = [s \in Submissions |-> sub[s]]
      BY <1>0, <1>3
    <3> HIDE DEF open
    <3>2. Over([s \in open |-> aborted[s]], sub)
             = [s \in Submissions |-> IF s \in open THEN aborted[s] ELSE sub[s]]
      BY <3>1, OverRows
    <3> QED BY <3>2 DEF open
  <2> QED BY <1>7, <2>1
<1>10. sub' = Aborted(d)
  BY <1>9 DEF Aborted, OpenOf, aborted
<1>11. job' = [j \in Jobs |-> IF j \in changed THEN staged[j] ELSE job[j]]
  <2>1. Over([j \in changed |-> staged[j]], job)
           = [j \in Jobs |-> IF j \in changed THEN staged[j] ELSE job[j]]
    BY <1>0, <1>3, OverRows
  <2> QED BY <1>7, <2>1
<1>12. \A j \in Jobs : \A status : Finished(job[j], status).image = job[j].image
                                   /\ Finished(job[j], status).status = status
  BY <1>0 DEF TypeOK, JobRow, Finished
<1>13. ASSUME NEW jobs, \A j \in Jobs : jobs[j] = IF j \in SlotJobs(draft[d]) THEN CancelledRow(j)
                                                ELSE job[j]
       PROVE  job' = StageDeletion(SlotJobs(draft[d]), draft', sub', jobs)
  <2>1. ASSUME NEW j \in SlotJobs(draft[d])
        PROVE  /\ Deletable(j, draft', sub', jobs) <=> j \in StagedOf(d)
               /\ j \in StagedOf(d) => job'[j] = [jobs[j] EXCEPT !.image = "delete_pending"]
               /\ j \notin StagedOf(d) => job'[j] = jobs[j]
    <3>1. j \in Jobs /\ jobs[j] = CancelledRow(j)
      BY <1>2, <1>13
    <3>2. jobs[j].image = job[j].image
          /\ (jobs[j].status \notin Unfinished <=> job[j].status # "running")
      BY <1>12, <3>1 DEF CancelledRow
    <3>3. Deletable(j, draft', sub', jobs) <=> j \in StagedOf(d)
      BY <1>1, <1>6, <1>8, <1>10, <3>2, ClosedReleases DEF Deletable, StagedOf
    <3>4. CASE j \in StagedOf(d)
      BY <1>11, <3>1, <3>3, <3>4 DEF changed, staged, StagedRow, StagedOf
    <3>5. CASE j \notin StagedOf(d) /\ j \in QueuedOf(d)
      <4>1. job[j].image # "available"
        BY <3>5 DEF StagedOf, QueuedOf
      <4> QED BY <1>11, <3>1, <3>3, <3>5, <4>1 DEF changed, staged, StagedRow
    <3>6. CASE j \notin StagedOf(d) /\ j \notin QueuedOf(d)
      <4>1. job[j].status # "queued" /\ j \notin changed
        BY <3>6 DEF QueuedOf, changed
      <4> QED BY <1>11, <3>1, <3>3, <3>6, <4>1 DEF CancelledRow
    <3> QED BY <3>3, <3>4, <3>5, <3>6
  <2>2. ASSUME NEW j \in Jobs, j \notin SlotJobs(draft[d]) PROVE job'[j] = jobs[j]
    BY <1>11, <1>13, <2>2 DEF changed, QueuedOf, StagedOf
  <2>3. \A j \in Jobs : job'[j] = IF j \in SlotJobs(draft[d]) /\ Deletable(j, draft', sub', jobs)
                                 THEN [jobs[j] EXCEPT !.image = "delete_pending"] ELSE jobs[j]
    BY <2>1, <2>2
  <2>4. job' = [j \in Jobs |-> job'[j]]
    BY <1>11
  <2> QED BY <2>3, <2>4 DEF StageDeletion
<1>14. CASE op = "cancelDraft"
  <2>1. \A j \in Jobs : CancelQueuedIn(draft[d])[j] = IF j \in SlotJobs(draft[d]) THEN CancelledRow(j)
                                                     ELSE job[j]
    BY DEF CancelQueuedIn, CancelledRow
  <2>2. job' = StageDeletion(SlotJobs(draft[d]), draft', sub', CancelQueuedIn(draft[d]))
    BY <1>13, <2>1
  <2>3. draft' = [draft EXCEPT ![d] = [status |-> "deleted", slots |-> EmptySlots]]
    BY <1>8, <1>14 DEF ClosedRow
  <2>4. CancelDraft(d)
    BY <1>1, <1>10, <1>14, <2>2, <2>3 DEF CancelDraft, Closable
  <2> QED BY <1>1, <1>14, <2>4 DEF d, op
<1>15. CASE op = "confirm"
  <2>1. draft[d].status \in Editable
    BY <1>1, <1>15 DEF Closable
  <2>2. \A j \in SlotJobs(draft[d]) : job[j].status \notin Unfinished
    BY <1>0, <1>1, <2>1 DEF UnfinishedSlotShowsRunning
  <2>3. \A j \in Jobs : job[j] = IF j \in SlotJobs(draft[d]) THEN CancelledRow(j) ELSE job[j]
    BY <2>2 DEF CancelledRow
  <2>4. job' = StageDeletion(SlotJobs(draft[d]), draft', sub', job)
    BY <1>13, <2>3
  <2>5. draft' = [draft EXCEPT ![d].status = "confirmed"]
    BY <1>8, <1>15 DEF ClosedRow
  <2>6. ConfirmDraft(d)
    BY <1>1, <1>10, <2>1, <2>4, <2>5 DEF ConfirmDraft
  <2> QED BY <1>1, <1>15, <2>6 DEF d, op
<1> QED BY <1>6, <1>14, <1>15
----------------------------------------------------------------------------
(* The locks under which each action changes rows.                           *)

Touches(locks) ==
    /\ \A d \in Drafts :
          /\ draft'[d] # draft[d] => draft[d].status = "absent" \/ DraftLock(d) \in locks
          /\ \A j \in SlotJobs(draft[d]) : job'[j].status # job[j].status => DraftLock(d) \in locks
          /\ OpenOf(d)' # OpenOf(d) => DraftLock(d) \in locks
    /\ \A s \in Submissions : sub'[s] # sub[s] => sub[s].status = "none" \/ SubLock(s) \in locks
    /\ \A j \in Jobs : job[j].status \in Unfinished /\ job'[j] # job[j] => JobLock(j) \in locks
    /\ \A j \in Jobs : job[j].status \in Final /\ job'[j] # job[j] => ImageLock(j) \in locks
    /\ ActiveJobs' \subseteq ActiveJobs \/ Gate \in locks
StoresAtMost(j) == \A i \in Jobs \ {j} : job[i].status = "none" => job'[i].status = "none"

LEMMA SameOpen == sub' = sub => \A d : OpenOf(d)' = OpenOf(d)
BY DEF OpenOf

LEMMA RowTouches ==
    ASSUME TypeOK, NEW j \in Jobs, job[j].status \in Unfinished, NEW row, NEW locks,
           job' = [job EXCEPT ![j] = row], row.status # "none", sub' = sub,
           JobLock(j) \in locks,
           \/ draft' = draft /\ row.status = job[j].status
           \/ Covers(j, locks) /\ (draft' = draft \/ draft' = Project(job', j))
    PROVE  Touches(locks) /\ StoresAtMost(NoJob)
<1>1. \A i \in Jobs : job'[i] = IF i = j THEN row ELSE job[i]
  BY DEF TypeOK
<1>2. \A d \in Drafts : draft'[d] # draft[d] => DraftLock(d) \in locks
  BY DEF Covers, Project
<1>3. ASSUME NEW d \in Drafts, NEW i \in SlotJobs(draft[d]), job'[i].status # job[i].status
      PROVE  DraftLock(d) \in locks
  <2>1. i \in Jobs
    BY SlotJobsAreJobs DEF TypeOK
  <2>2. i = j /\ row.status # job[j].status
    BY <1>1, <1>3, <2>1
  <2> QED BY <1>3, <2>2 DEF Covers
<1>4. ActiveJobs' \subseteq ActiveJobs
  BY <1>1 DEF ActiveJobs
<1>5. \A i \in Jobs : job'[i] # job[i] => i = j
  BY <1>1
<1>6. Touches(locks)
  BY <1>2, <1>3, <1>4, <1>5, SameOpen DEF Touches
<1>7. StoresAtMost(NoJob)
  BY <1>1 DEF StoresAtMost
<1> QED BY <1>6, <1>7

LEMMA EndTouches ==
    ASSUME TypeOK, NEW w \in Workers, NEW locks,
           FinishSuccess(w) \/ FinishFailure(w) \/ RequeueInterrupted(w),
           Covers(attempt[w].job, locks), JobLock(attempt[w].job) \in locks
    PROVE  Touches(locks) /\ StoresAtMost(NoJob)
<1> DEFINE j == attempt[w].job
<1>1. j \in Jobs /\ job[j].status \in Unfinished /\ sub' = sub
  BY DEF FinishSuccess, FinishFailure, RequeueInterrupted, Owned
<1>2. job[j] \in JobRow
  BY <1>1 DEF TypeOK
<1> HIDE DEF j
<1>3. ASSUME NEW status \in {"succeeded", "failed"}, Finish(j, status)
      PROVE  Touches(locks) /\ StoresAtMost(NoJob)
  <2>1. job' = [job EXCEPT ![j] = Finished(job[j], status)] /\ draft' = Project(job', j)
    BY <1>3 DEF Finish
  <2>2. Finished(job[j], status).status # "none"
    BY <1>2, EndRowFields
  <2> QED BY <1>1, <2>1, <2>2, RowTouches DEF j
<1>4. ASSUME RequeueInterrupted(w) PROVE Touches(locks) /\ StoresAtMost(NoJob)
  <2>1. job' = [job EXCEPT ![j] = Requeued(job[j], TRUE)] /\ draft' = draft
    BY <1>4 DEF RequeueInterrupted, j
  <2>2. Requeued(job[j], TRUE).status # "none"
    BY <1>2, EndRowFields
  <2> QED BY <1>1, <2>1, <2>2, RowTouches DEF j
<1> QED BY <1>3, <1>4 DEF FinishSuccess, FinishFailure, j

LEMMA CancelTouches ==
    ASSUME TypeOK, NEW j \in Jobs, NEW locks, CancelQueued(j), Covers(j, locks), JobLock(j) \in locks
    PROVE  Touches(locks) /\ StoresAtMost(NoJob)
<1>1. job' = [job EXCEPT ![j] = Finished(job[j], "cancelled")] /\ draft' = Project(job', j)
      /\ sub' = sub /\ job[j].status \in Unfinished
  BY DEF CancelQueued, Finish
<1>2. job[j] \in JobRow
  BY DEF TypeOK
<1>3. Finished(job[j], "cancelled").status # "none"
  BY <1>2, EndRowFields
<1> QED BY <1>1, <1>3, RowTouches

LEMMA DraftLocksCover ==
    ASSUME UnfinishedSlotShowsRunning, NEW j \in Jobs
    PROVE  Covers(j, DraftLocks(j))
BY DEF Covers, DraftLocks, UnfinishedSlotShowsRunning

LEMMA CoversMore ==
    ASSUME NEW j, NEW locks, NEW more, Covers(j, locks), locks \subseteq more
    PROVE  Covers(j, more)
BY DEF Covers

LEMMA RecoveredStatus ==
    ASSUME NEW row \in JobRow
    PROVE  /\ Recovered(row) \in JobRow
           /\ Recovered(row) = row \/ row.status = "running"
           /\ Recovered(row).status # "none" \/ Recovered(row) = row
<1>1. Recovered(row) \in JobRow
  BY RecoveredRow
<1>2. Finished(row, "failed").status = "failed"
  BY EndRowFields
<1>3. [Requeued(row, TRUE) EXCEPT !.recoveries = @ + 1].status = "queued"
  BY DEF Requeued, JobRow
<1> QED BY <1>1, <1>2, <1>3 DEF Recovered

LEMMA RecoverTouches ==
    ASSUME TypeOK, UnfinishedSlotShowsRunning, NEW j \in Jobs, Recover(j)
    PROVE  Touches(DraftLocks(j) \cup {JobLock(j)}) /\ StoresAtMost(NoJob)
<1> DEFINE row == Recovered(job[j])
<1>1. job[j] \in JobRow
  BY DEF TypeOK
<1>2. row # job[j] /\ job' = [job EXCEPT ![j] = row] /\ sub' = sub
      /\ (draft' = draft \/ draft' = Project(job', j))
  BY DEF Recover
<1>3. job[j].status \in Unfinished /\ row.status # "none"
  BY <1>1, <1>2, RecoveredStatus
<1>4. Covers(j, DraftLocks(j) \cup {JobLock(j)})
  BY DraftLocksCover, CoversMore
<1> HIDE DEF row
<1> QED BY <1>2, <1>3, <1>4, RowTouches

LEMMA ClaimTouches ==
    ASSUME TypeOK, UnfinishedSlotShowsRunning, NEW w \in Workers, NEW j \in Jobs, Claim(w, j)
    PROVE  Touches(DraftLocks(j) \cup {JobLock(j), ImageLock(j)}) /\ StoresAtMost(NoJob)
<1> DEFINE row == Recovered(job[j])
           locks == DraftLocks(j) \cup {JobLock(j), ImageLock(j)}
<1>1. job[j] \in JobRow /\ row \in JobRow
  BY RecoveredStatus DEF TypeOK
<1>2. PICK new : /\ job' = [job EXCEPT ![j] = new] /\ sub' = sub
                 /\ (draft' = draft \/ draft' = Project(job', j)) /\ new.status # "none"
                 /\ row.status = "queued" \/ row # job[j]
  <2>1. Finished(row, "failed").status = "failed"
    BY <1>1, EndRowFields
  <2>2. Acquired(row, w).status = "running"
    BY <1>1, AcquiredFields
  <2> HIDE DEF row
  <2> QED BY <2>1, <2>2 DEF Claim, row
<1>3. job[j].status \in Unfinished
  BY <1>1, <1>2, RecoveredStatus
<1>4. Covers(j, locks) /\ JobLock(j) \in locks
  BY DraftLocksCover, CoversMore
<1> HIDE DEF locks, row
<1>5. Touches(locks) /\ StoresAtMost(NoJob)
  BY <1>2, <1>3, <1>4, RowTouches
<1> QED BY <1>5 DEF locks

LEMMA LeaseTouches ==
    ASSUME TypeOK, NEW j \in Jobs,
           LeaseAges(j) \/ \E w \in Workers : Heartbeat(w) /\ attempt[w].job = j
    PROVE  Touches({JobLock(j)}) /\ StoresAtMost(NoJob)
<1>1. PICK lease : job' = [job EXCEPT ![j].lease = lease]
  BY DEF LeaseAges, Heartbeat
<1>2. draft' = draft /\ sub' = sub /\ job[j].status \in Unfinished
  BY DEF LeaseAges, Heartbeat, Owned
<1> DEFINE row == [job[j] EXCEPT !.lease = lease]
<1>3. row.status = job[j].status
  BY DEF TypeOK, JobRow
<1>4. job' = [job EXCEPT ![j] = row]
  BY <1>1
<1> HIDE DEF row
<1> QED BY <1>2, <1>3, <1>4, RowTouches

LEMMA SweepTouches ==
    ASSUME TypeOK, UnbornImages, NEW j \in Jobs, SweepImage(j)
    PROVE  Touches({ImageLock(j)}) /\ StoresAtMost(NoJob)
<1>1. draft' = draft /\ sub' = sub /\ job' = [job EXCEPT ![j].image = "delete_pending"]
      /\ job[j].status \notin Unfinished /\ job[j].image = "available"
  BY DEF SweepImage, Deletable, Unreferenced
<1>2. \A i \in Jobs : job'[i].status = job[i].status /\ (job'[i] # job[i] => i = j)
  BY <1>1 DEF TypeOK, JobRow
<1>3. ActiveJobs' \subseteq ActiveJobs
  BY <1>2 DEF ActiveJobs
<1>4. \A d \in Drafts : SlotJobs(draft[d]) \subseteq Jobs
  BY SlotJobsAreJobs DEF TypeOK
<1> QED BY <1>1, <1>2, <1>3, <1>4, SameOpen DEF Touches, StoresAtMost

LEMMA CloseTouches ==
    ASSUME Committed, NEW d \in Drafts, CancelDraft(d) \/ ConfirmDraft(d), NEW locks,
           DraftLock(d) \in locks, \A s \in OpenOf(d) : SubLock(s) \in locks,
           \A j \in QueuedOf(d) : JobLock(j) \in locks,
           \A j \in SlotJobs(draft[d]) : ImageLock(j) \in locks
    PROVE  Touches(locks) /\ StoresAtMost(NoJob)
<1>0. TypeOK /\ ShownOnce /\ UnbornImages /\ SlotsShowJobs
  BY DEF Committed
<1>1. sub' = Aborted(d) /\ \A e \in Drafts \ {d} : draft'[e] = draft[e]
  BY <1>0 DEF CancelDraft, ConfirmDraft, TypeOK
<1>2. \A s \in Submissions : sub'[s] # sub[s] => s \in OpenOf(d)
  BY <1>1 DEF Aborted, OpenOf
<1>3. ASSUME NEW e \in Drafts, e # d PROVE OpenOf(e)' = OpenOf(e)
  <2>1. \A s \in Submissions : sub'[s].status = "open" /\ sub'[s].draft = e
                                  <=> sub[s].status = "open" /\ sub[s].draft = e
    BY <1>0, <1>1, <1>3 DEF Aborted, TypeOK, SubmissionRow
  <2> QED BY <2>1 DEF OpenOf
<1>4. PICK jobs : /\ job' = StageDeletion(SlotJobs(draft[d]), draft', sub', jobs)
                  /\ \A j \in Jobs : jobs[j] = job[j] \/ (j \in QueuedOf(d)
                                        /\ jobs[j] = Finished(job[j], "cancelled"))
  <2>1. CASE ConfirmDraft(d)
    BY <2>1 DEF ConfirmDraft
  <2>2. CASE CancelDraft(d)
    <3> DEFINE jobs == CancelQueuedIn(draft[d])
    <3>1. job' = StageDeletion(SlotJobs(draft[d]), draft', sub', jobs)
      BY <2>2 DEF CancelDraft
    <3>2. \A j \in Jobs : jobs[j] = job[j] \/ (j \in QueuedOf(d)
                                        /\ jobs[j] = Finished(job[j], "cancelled"))
      BY DEF CancelQueuedIn, QueuedOf
    <3> HIDE DEF jobs
    <3> QED BY <3>1, <3>2
  <2> QED BY <2>1, <2>2
<1>5. \A j \in Jobs : jobs[j].status = job[j].status \/ (j \in QueuedOf(d) /\ jobs[j].status = "cancelled")
  <2>1. \A j \in Jobs : Finished(job[j], "cancelled").status = "cancelled"
    BY <1>0, EndRowFields DEF TypeOK
  <2> QED BY <1>4, <2>1
<1>6. \A j \in Jobs : jobs[j] \in JobRow
  BY <1>0, <1>4, FinishedRow DEF TypeOK
<1>7. ASSUME NEW j \in Jobs
      PROVE  /\ job'[j] # job[j] => j \in SlotJobs(draft[d])
             /\ job'[j].status # job[j].status => j \in QueuedOf(d) /\ job'[j].status = "cancelled"
             /\ job[j].status = "running" => job'[j] = job[j]
  <2>1. \/ job'[j] = jobs[j]
        \/ /\ j \in SlotJobs(draft[d]) /\ jobs[j].status \notin Unfinished
           /\ job'[j] = [jobs[j] EXCEPT !.image = "delete_pending"]
    BY <1>4 DEF StageDeletion, Deletable, Unreferenced
  <2>2. [jobs[j] EXCEPT !.image = "delete_pending"].status = jobs[j].status
    BY <1>6 DEF JobRow
  <2>3. j \in QueuedOf(d) => j \in SlotJobs(draft[d]) /\ job[j].status = "queued"
    BY DEF QueuedOf
  <2> QED BY <1>4, <1>5, <2>1, <2>2, <2>3
<1>8. ASSUME NEW e \in Drafts, NEW j \in SlotJobs(draft[e]), job'[j].status # job[j].status
      PROVE  e = d
  <2>1. j \in Jobs
    BY <1>0, SlotJobsAreJobs DEF TypeOK
  <2>2. j \in SlotJobs(draft[d])
    BY <1>7, <1>8, <2>1 DEF QueuedOf
  <2> QED BY <1>0, <2>2 DEF ShownOnce
<1>9. \A j \in Jobs : job[j].status \in Unfinished /\ job'[j] # job[j] => j \in QueuedOf(d)
  BY <1>7 DEF QueuedOf
<1>10. ActiveJobs' \subseteq ActiveJobs
  BY <1>7 DEF ActiveJobs
<1>11. StoresAtMost(NoJob)
  BY <1>7 DEF StoresAtMost, QueuedOf
<1>12. Touches(locks)
  BY <1>1, <1>2, <1>3, <1>7, <1>8, <1>9, <1>10 DEF Touches
<1> QED BY <1>11, <1>12

LEMMA StoreTouches ==
    ASSUME Committed, NEW s \in Submissions, NEW k \in Slots, NEW j \in Jobs, StoreJob(s, k, j),
           NEW locks, DraftLock(sub[s].draft) \in locks, SubLock(s) \in locks, Gate \in locks
    PROVE  Touches(locks) /\ StoresAtMost(j)
<1> DEFINE d == sub[s].draft
<1>0. TypeOK /\ OpenHasDraft /\ SlotsShowJobs
  BY DEF Committed
<1>1. \A e \in Drafts \ {d} : draft'[e] = draft[e]
  BY <1>0, StoreWrites
<1>2. sub' = [sub EXCEPT ![s].members[k] = j] /\ job' = [job EXCEPT ![j] = QueuedJob]
      /\ job[j].status = "none"
  BY DEF StoreJob
<1>3. \A r \in Submissions : /\ r # s => sub'[r] = sub[r]
                             /\ sub'[r].status = sub[r].status /\ sub'[r].draft = sub[r].draft
  BY <1>0, <1>2 DEF TypeOK, SubmissionRow
<1>4. \A e \in Drafts : OpenOf(e)' = OpenOf(e)
  BY <1>3 DEF OpenOf
<1>5. \A i \in Jobs \ {j} : job'[i] = job[i]
  BY <1>0, <1>2 DEF TypeOK
<1>6. ASSUME NEW e \in Drafts, NEW i \in SlotJobs(draft[e]) PROVE job'[i] = job[i]
  <2>1. i \in Jobs /\ job[i].status # "none"
    BY <1>0, SlotJobsAreJobs DEF TypeOK, SlotsShowJobs
  <2> QED BY <1>2, <1>5, <2>1
<1>7. Touches(locks)
  BY <1>1, <1>2, <1>3, <1>4, <1>5, <1>6 DEF Touches
<1>8. StoresAtMost(j)
  BY <1>5 DEF StoresAtMost
<1> QED BY <1>7, <1>8

LEMMA SettleTouches ==
    ASSUME Committed, NEW s \in Submissions, Settle(s), NEW locks,
           DraftLock(sub[s].draft) \in locks, SubLock(s) \in locks
    PROVE  Touches(locks) /\ StoresAtMost(NoJob)
<1> DEFINE d == sub[s].draft
<1>0. TypeOK /\ OpenHasDraft
  BY DEF Committed
<1>1. job' = job /\ sub[s].status = "open"
      /\ (draft' = draft \/ draft' = ProjectEmptyDraft(s, d))
  BY DEF Settle
<1>2. \A e \in Drafts \ {d} : draft'[e] = draft[e]
  BY <1>0, <1>1 DEF ProjectEmptyDraft, TypeOK
<1>3. \A r \in Submissions \ {s} : sub'[r] = sub[r]
  BY <1>0 DEF Settle, TypeOK
<1>4. sub'[s].draft = d
  <2>1. PICK row : sub' = [sub EXCEPT ![s] = row] /\ row.draft = sub[s].draft
    <3>1. sub[s] \in SubmissionRow
      BY <1>0 DEF TypeOK
    <3>2. \A members, status :
             /\ [sub[s] EXCEPT !.status = status].draft = sub[s].draft
             /\ [sub[s] EXCEPT !.members = members].draft = sub[s].draft
             /\ [sub[s] EXCEPT !.members = members, !.status = status].draft = sub[s].draft
      BY <3>1 DEF SubmissionRow
    <3>3. \/ sub' = [sub EXCEPT ![s].status = "aborted"]
          \/ \E members : sub' = [sub EXCEPT ![s].members = members]
          \/ \E members : sub' = [sub EXCEPT ![s].members = members, ![s].status = "settled"]
      BY DEF Settle
    <3>4. CASE sub' = [sub EXCEPT ![s].status = "aborted"]
      BY <3>2, <3>4
    <3>5. CASE \E members : sub' = [sub EXCEPT ![s].members = members]
      BY <3>2, <3>5
    <3>6. CASE \E members : sub' = [sub EXCEPT ![s].members = members, ![s].status = "settled"]
      <4>1. PICK members : sub' = [sub EXCEPT ![s].members = members, ![s].status = "settled"]
        BY <3>6
      <4> DEFINE row == [sub[s] EXCEPT !.members = members, !.status = "settled"]
      <4>2. sub' = [sub EXCEPT ![s] = row]
        BY <1>0, <4>1 DEF TypeOK
      <4>3. row.draft = sub[s].draft
        BY <3>2
      <4> HIDE DEF row
      <4> QED BY <4>2, <4>3
    <3> QED BY <3>3, <3>4, <3>5, <3>6
  <2> QED BY <1>0, <2>1 DEF TypeOK
<1>5. \A e \in Drafts \ {d} : OpenOf(e)' = OpenOf(e)
  BY <1>3, <1>4 DEF OpenOf
<1>6. ActiveJobs' = ActiveJobs
  BY <1>1 DEF ActiveJobs
<1> QED BY <1>1, <1>2, <1>3, <1>5, <1>6 DEF Touches, StoresAtMost

LEMMA CreateTouches ==
    ASSUME TypeOK, NEW d \in Drafts, NEW status, CreateDraft(d, status)
    PROVE  Touches({}) /\ StoresAtMost(NoJob)
<1>1. draft[d].status = "absent" /\ sub' = sub /\ job' = job
      /\ \A e \in Drafts \ {d} : draft'[e] = draft[e]
  BY DEF CreateDraft, TypeOK
<1>2. ActiveJobs' = ActiveJobs
  BY <1>1 DEF ActiveJobs
<1> QED BY <1>1, <1>2, SameOpen DEF Touches, StoresAtMost

LEMMA PutTouches ==
    ASSUME TypeOK, NEW s \in Submissions, NEW d \in Drafts, NEW screens, PutSubmission(s, d, screens)
    PROVE  Touches({DraftLock(d)}) /\ StoresAtMost(NoJob)
<1>1. sub[s].status = "none" /\ job' = job /\ sub'[s].status = "open" /\ sub'[s].draft = d
      /\ \A r \in Submissions \ {s} : sub'[r] = sub[r]
  BY DEF PutSubmission, TypeOK
<1>2. \A e \in Drafts \ {d} : draft'[e] = draft[e]
  BY DEF PutSubmission, TypeOK
<1>3. \A e \in Drafts \ {d} : OpenOf(e)' = OpenOf(e)
  BY <1>1 DEF OpenOf
<1>4. ActiveJobs' = ActiveJobs
  BY <1>1 DEF ActiveJobs
<1> QED BY <1>1, <1>2, <1>3, <1>4 DEF Touches, StoresAtMost

LEMMA DeadlineTouches ==
    ASSUME TypeOK, NEW s \in Submissions, DeadlinePasses(s)
    PROVE  Touches({SubLock(s)}) /\ StoresAtMost(NoJob)
<1>1. draft' = draft /\ job' = job
      /\ \A r \in Submissions : /\ r # s => sub'[r] = sub[r]
                                /\ sub'[r].status = sub[r].status /\ sub'[r].draft = sub[r].draft
  BY DEF DeadlinePasses, TypeOK, SubmissionRow
<1>2. \A e \in Drafts : OpenOf(e)' = OpenOf(e)
  BY <1>1 DEF OpenOf
<1>3. ActiveJobs' = ActiveJobs
  BY <1>1 DEF ActiveJobs
<1> QED BY <1>1, <1>2, <1>3 DEF Touches, StoresAtMost
----------------------------------------------------------------------------
(* What the others did, in terms of what a session holds.                    *)

LEMMA TouchesLeaves ==
    ASSUME NEW t \in Txs, tx'[t] = tx[t], held'[t] = held[t],
           NEW locks, Touches(locks), locks \cap held[t] = {},
           NEW j, StoresAtMost(j),
           tx[t].op = "store" /\ tx[t].on.job \in Jobs => tx[t].on.job # j,
           tx[t].op = "complete" /\ tx[t].on.worker \in Workers
              => attempt'[tx[t].on.worker] = attempt[tx[t].on.worker]
    PROVE  LeftAlone(t)
<1>1. \A lock \in locks : lock \notin held[t]
  OBVIOUS
<1>2. \A d \in Drafts : DraftLock(d) \in held[t] =>
          /\ draft[d].status # "absent" => draft'[d] = draft[d]
          /\ \A i \in SlotJobs(draft[d]) : job'[i].status = job[i].status
          /\ OpenOf(d)' = OpenOf(d)
  BY <1>1 DEF Touches
<1>3. \A s \in Submissions : SubLock(s) \in held[t] /\ sub[s].status # "none" => sub'[s] = sub[s]
  BY <1>1 DEF Touches
<1>4. /\ \A i \in Jobs : JobLock(i) \in held[t] /\ job[i].status \in Unfinished => job'[i] = job[i]
      /\ \A i \in Jobs : ImageLock(i) \in held[t] /\ job[i].status \in Final => job'[i] = job[i]
      /\ Gate \in held[t] => ActiveJobs' \subseteq ActiveJobs
  BY <1>1 DEF Touches
<1>5. tx[t].op = "store" /\ tx[t].on.job \in Jobs /\ job[tx[t].on.job].status = "none"
          => job'[tx[t].on.job].status = "none"
  BY DEF StoresAtMost
<1> QED BY <1>2, <1>3, <1>4, <1>5 DEF LeftAlone

LEMMA SameTouches == vars' = vars => Touches({}) /\ StoresAtMost(NoJob)
<1> SUFFICES ASSUME vars' = vars PROVE Touches({}) /\ StoresAtMost(NoJob)
  OBVIOUS
<1>1. draft' = draft /\ sub' = sub /\ job' = job
  BY DEF vars
<1>2. ActiveJobs' = ActiveJobs
  BY <1>1 DEF ActiveJobs
<1> QED BY <1>1, <1>2, SameOpen DEF Touches, StoresAtMost

LEMMA QuietOthers ==
    ASSUME Committed, Sound, vars' = vars, NEW t \in Txs, OthersKeep(t)
    PROVE  Committed' /\ IsFiniteSet(ActiveJobs)'
           /\ \A u \in Txs \ {t} : LeftAlone(u) /\ SoundTx(u)'
<1>1. Committed'
  BY CommittedStep
<1>2. IsFiniteSet(ActiveJobs)'
  BY DEF Sound, ActiveJobs, vars
<1>3. ASSUME NEW u \in Txs \ {t} PROVE LeftAlone(u) /\ SoundTx(u)'
  <2>1. tx'[u] = tx[u] /\ held'[u] = held[u] /\ attempt' = attempt
    BY DEF OthersKeep, vars
  <2>2. \A j : tx[u].on.job = j /\ j \in Jobs => j # NoJob
    BY NullsAssumption
  <2>3. LeftAlone(u)
    BY <2>1, <2>2, SameTouches, TouchesLeaves
  <2> QED BY <1>1, <2>3, SoundTxKept DEF Sound
<1> QED BY <1>1, <1>2, <1>3
----------------------------------------------------------------------------
(* Statements write nothing anyone else sees: what remains is the session's  *)
(* own soundness, and that no lock has two holders.                          *)

Silent(t) == Committed' /\ (SoundTx(t)' => Sound')

LEMMA BeginSound ==
    ASSUME Committed, Sound, NEW t \in Txs, NEW op, NEW on, NEW at, Begin(t, op, on, at),
           op = "complete" => \A u \in Txs : tx[u].op = "complete" => tx[u].on.worker # on.worker,
           op = "store" => \A u \in Txs : tx[u].op = "store" => tx[u].on.job # on.job
    PROVE  Silent(t)
<1>1. /\ TxShape' /\ OthersKeep(t) /\ tx'[t].op = op /\ tx'[t].on = on
      /\ held' = held /\ vars' = vars
  BY AfterBegin DEF Sound
<1>2. Committed' /\ IsFiniteSet(ActiveJobs)' /\ \A u \in Txs \ {t} : SoundTx(u)'
  BY <1>1, QuietOthers
<1>3. Exclusive'
  BY <1>1 DEF Sound, Exclusive
<1>4. OwnWorker' /\ OwnJob'
  BY <1>1 DEF Sound, OwnWorker, OwnJob, OthersKeep
<1> QED BY <1>1, <1>2, <1>3, <1>4 DEF Sound, Silent

LEMMA BlockSound ==
    ASSUME Committed, Sound, NEW t \in Txs, Block(t), tx[t].at # "sync"
    PROVE  Silent(t)
<1>1. /\ TxShape' /\ OthersKeep(t) /\ tx'[t].op = tx[t].op /\ tx'[t].on = tx[t].on
      /\ held' = held /\ vars' = vars
  BY AfterBlock DEF Sound
<1>2. Committed' /\ IsFiniteSet(ActiveJobs)' /\ \A u \in Txs \ {t} : SoundTx(u)'
  BY <1>1, QuietOthers
<1>3. Exclusive'
  BY <1>1 DEF Sound, Exclusive
<1>4. OwnWorker' /\ OwnJob'
  BY <1>1 DEF Sound, OwnWorker, OwnJob, OthersKeep
<1> QED BY <1>1, <1>2, <1>3, <1>4 DEF Sound, Silent

LEMMA ProceedSound ==
    ASSUME Committed, Sound, NEW t \in Txs, NEW kept, NEW at, NEW drafts, NEW subs, NEW jobs,
           Proceed(t, kept, at, Written(drafts, subs, jobs)),
           \A u \in Txs \ {t} : kept \cap held[u] = {}
    PROVE  Silent(t)
<1>1. /\ TxShape' /\ OthersKeep(t) /\ tx'[t].op = tx[t].op /\ tx'[t].on = tx[t].on
      /\ held'[t] = held[t] \cup kept /\ vars' = vars
  BY AfterProceed DEF Sound
<1>2. Committed' /\ IsFiniteSet(ActiveJobs)' /\ \A u \in Txs \ {t} : SoundTx(u)'
  BY <1>1, QuietOthers
<1>3. Exclusive'
  <2>1. ASSUME NEW u \in Txs, u # t PROVE held'[t] \cap held'[u] = {}
    BY <1>1, <2>1 DEF Sound, Exclusive, OthersKeep
  <2> QED BY <1>1, <2>1 DEF Sound, Exclusive, OthersKeep
<1>4. OwnWorker' /\ OwnJob'
  BY <1>1 DEF Sound, OwnWorker, OwnJob, OthersKeep
<1> QED BY <1>1, <1>2, <1>3, <1>4 DEF Sound, Silent

LEMMA ClosedShape ==
    ASSUME Sound, NEW t \in Txs, Close(t)
    PROVE  TxShape' /\ OthersKeep(t) /\ Exclusive' /\ OwnWorker' /\ OwnJob' /\ SoundTx(t)'
<1>1. TxShape' /\ OthersKeep(t) /\ tx'[t] = Closedtx /\ held'[t] = {}
  BY AfterClose DEF Sound
<1>2. Exclusive'
  BY <1>1 DEF Sound, Exclusive, OthersKeep
<1>3. tx'[t].op = "none"
  BY <1>1 DEF Closedtx
<1>4. OwnWorker' /\ OwnJob'
  BY <1>1, <1>3 DEF Sound, OwnWorker, OwnJob, OthersKeep
<1>5. SoundTx(t)'
  BY <1>1 DEF SoundTx, Closedtx, NoRows, Unwritten
<1> QED BY <1>1, <1>2, <1>4, <1>5

LEMMA CloseSound ==
    ASSUME Committed, Sound, NEW t \in Txs, Close(t), vars' = vars
    PROVE  Committed' /\ Sound'
<1>1. TxShape' /\ OthersKeep(t) /\ Exclusive' /\ OwnWorker' /\ OwnJob' /\ SoundTx(t)'
  BY ClosedShape
<1> QED BY <1>1, QuietOthers DEF Sound
----------------------------------------------------------------------------
(* The statements of a completion and of a cancellation.                     *)

LEMMA SameRows ==
    ASSUME vars' = vars
    PROVE  /\ draft' = draft /\ sub' = sub /\ job' = job /\ attempt' = attempt
           /\ \A j, locks : Covers(j, locks)' <=> Covers(j, locks)
           /\ \A j, status : EndRow(j, status)' = EndRow(j, status)
           /\ \A j, status : EndDrafts(j, status)' = EndDrafts(j, status)
           /\ \A w : Owned(w)' <=> Owned(w)
           /\ \A j : DraftLocks(j)' = DraftLocks(j)
<1>1. draft' = draft /\ sub' = sub /\ job' = job /\ attempt' = attempt
  BY DEF vars
<1>2. \A j, locks : Covers(j, locks)' <=> Covers(j, locks)
  BY <1>1 DEF Covers
<1>3. \A j, status : EndRow(j, status)' = EndRow(j, status)
  BY <1>1 DEF EndRow
<1>4. \A j, status : EndDrafts(j, status)' = EndDrafts(j, status)
  BY <1>1, <1>3 DEF EndDrafts, Shows
<1>5. \A w : Owned(w)' <=> Owned(w)
  BY <1>1 DEF Owned
<1>6. \A j : DraftLocks(j)' = DraftLocks(j)
  BY <1>1 DEF DraftLocks
<1> QED BY <1>1, <1>2, <1>3, <1>4, <1>5, <1>6

(* What the session has to show for itself after a step that leaves the      *)
(* rows alone, in the fields that such a step changes.                       *)
EndingAt(j, status, at, locks, wait, rows) ==
    /\ j \in Jobs /\ job[j].status # "none"
    /\ at \in {"drafts", "owned", "job", "again", "sync", "commit"}
    /\ at = "drafts" => locks = {} /\ (wait # {} => Covers(j, wait))
    /\ at # "drafts" => Covers(j, locks)
    /\ at \in {"owned", "job"} => wait \subseteq {JobLock(j)}
    /\ at \in {"drafts", "owned", "job", "again"} => rows = Unwritten
    /\ at \in {"again", "sync", "commit"} => JobLock(j) \in locks
    /\ at = "again" => (wait # {} => job[j].status \in Final)
    /\ at \in {"sync", "commit"} => wait = {} /\ job[j].status \in Unfinished
    /\ at = "sync" => /\ status # "queued"
                      /\ rows = Written(NoRows, NoRows, Row(j, EndRow(j, status)))
    /\ at = "commit" => rows =
          Written(IF status = "queued" THEN NoRows ELSE EndDrafts(j, status),
                  NoRows, Row(j, EndRow(j, status)))

LEMMA EndingHolds ==
    ASSUME NEW t
    PROVE  Ending(t) <=> EndingAt(tx[t].on.job, EndStatus(t), tx[t].at, held[t], tx[t].wait, tx[t].rows)
BY DEF Ending, EndingAt

LEMMA EndingNext ==
    ASSUME vars' = vars, NEW t \in Txs, tx'[t].op = tx[t].op, tx'[t].on = tx[t].on,
           NEW at, NEW wait, NEW rows, NEW locks,
           tx'[t].at = at, tx'[t].wait = wait, tx'[t].rows = rows, held'[t] = locks,
           EndingAt(tx[t].on.job, EndStatus(t), at, locks, wait, rows)
    PROVE  Ending(t)'
<1> DEFINE j == tx[t].on.job
           st == EndStatus(t)
<1>1. j' = j /\ st' = st
  BY DEF EndStatus
<1>2. st' = EndStatus(t)'
  OBVIOUS
<1> HIDE DEF j, st
<1>3. EndingAt(j, st, at, locks, wait, rows)
  BY DEF j, st
<1>4. EndDrafts(j, st)' = EndDrafts(j, st) /\ EndRow(j, st)' = EndRow(j, st)
      /\ job' = job
  BY <1>1, SameRows
<1> QED BY <1>1, <1>2, <1>3, <1>4, SameRows DEF Ending, EndingAt, j
LEMMA SelectedAt ==
    ASSUME NEW t
    PROVE  LET on == tx[t].on
               at == tx[t].at
           IN  /\ at \in {"drafts", "again"} => Selected(t) = DraftLocks(on.job)
               /\ at = "owned" => Selected(t) = IF Owned(on.worker) THEN {JobLock(on.job)} ELSE {}
               /\ at = "job" => Selected(t) = {JobLock(on.job)}
               /\ at = "sync" => Selected(t) = {DraftLock(d) : d \in DOMAIN Resynced(t, on.job)}
               /\ at = "row" => Selected(t) = {DraftLock(RowDraft(on))}
               /\ at = "subs" => Selected(t) =
                     {SubLock(s) : s \in {r \in OpenSubmissions : sub[r].draft = on.draft}}
               /\ at = "jobs" => Selected(t) = {JobLock(j) : j \in {i \in SlotJobs(draft[on.draft]) :
                                                                   job[i].status = "queued"}}
               /\ at = "images" => Selected(t) = {ImageLock(j) : j \in SlotJobs(draft[on.draft])}
               /\ at = "image" => Selected(t) = {ImageLock(on.job)}
               /\ at = "sub" => Selected(t) = {SubLock(on.sub)}
               /\ at = "gate" => Selected(t) = {Gate}
               /\ at \in {"stage", "commit", "none"} => Selected(t) = {}
<1> DEFINE on == tx[t].on
           at == tx[t].at
<1>1. at = "drafts" => Selected(t) = DraftLocks(on.job)
  BY DEF Selected
<1>2. at = "again" => Selected(t) = DraftLocks(on.job)
  BY DEF Selected
<1>3. at = "owned" => Selected(t) = IF Owned(on.worker) THEN {JobLock(on.job)} ELSE {}
  BY DEF Selected
<1>4. at = "job" => Selected(t) = {JobLock(on.job)}
  BY DEF Selected
<1>5. at = "sync" => Selected(t) = {DraftLock(d) : d \in DOMAIN Resynced(t, on.job)}
  BY DEF Selected
<1>6. at = "row" => Selected(t) = {DraftLock(RowDraft(on))}
  BY DEF Selected
<1>7. at = "subs" =>
         Selected(t) = {SubLock(s) : s \in {r \in OpenSubmissions : sub[r].draft = on.draft}}
  BY DEF Selected
<1>8. at = "jobs" =>
         Selected(t) = {JobLock(j) : j \in {i \in SlotJobs(draft[on.draft]) : job[i].status = "queued"}}
  BY DEF Selected
<1>9. at = "images" => Selected(t) = {ImageLock(j) : j \in SlotJobs(draft[on.draft])}
  BY DEF Selected
<1>10. at = "image" => Selected(t) = {ImageLock(on.job)}
  BY DEF Selected
<1>11. at = "sub" => Selected(t) = {SubLock(on.sub)}
  BY DEF Selected
<1>12. at = "gate" => Selected(t) = {Gate}
  BY DEF Selected, ActiveLimitLocks
<1>13. at \in {"stage", "commit", "none"} => Selected(t) = {}
  BY DEF Selected
<1> HIDE DEF on, at
<1> QED BY <1>1, <1>2, <1>3, <1>4, <1>5, <1>6, <1>7, <1>8, <1>9, <1>10, <1>11, <1>12, <1>13 DEF on, at

LEMMA OpOfSound ==
    ASSUME NEW t, SoundTx(t)
    PROVE  /\ tx[t].op = "complete" => Ending(t) /\ Completing(t)
           /\ tx[t].op = "cancelJob" => Ending(t) /\ Cancelling(t)
           /\ tx[t].op \in {"cancelDraft", "confirm"} => Closing(t)
           /\ tx[t].op = "sweep" => Sweeping(t)
           /\ tx[t].op = "store" => Storing(t)
           /\ tx[t].op = "settle" => Settling(t)
           /\ tx[t].op = "none" <=> tx[t] = Closedtx
           /\ tx[t].op \in {"complete", "cancelJob", "cancelDraft", "confirm", "sweep", "store",
                            "settle", "none"}
BY DEF SoundTx, Closedtx

LEMMA HeldIsFree ==
    ASSUME Sound, NEW t \in Txs, NEW locks, locks \subseteq held[t]
    PROVE  Free(t, locks)
BY DEF Free, Sound, Exclusive

LEMMA FreeParts ==
    ASSUME NEW t, NEW locks, Free(t, locks), NEW kept, kept \subseteq locks
    PROVE  \A u \in Txs \ {t} : kept \cap held[u] = {}
BY DEF Free

LEMMA CoversBoth ==
    ASSUME NEW j, NEW locks, NEW more
    PROVE  /\ Covers(j, locks) /\ Covers(j, more) => Covers(j, locks \cap more)
           /\ Covers(j, locks) => Covers(j, locks \cup more)
BY DEF Covers

LEMMA BeginCompleteSound ==
    ASSUME Committed, Sound, NEW t \in Txs, NEW w \in Workers,
           NEW status \in {"succeeded", "failed", "queued"}, BeginComplete(t, w, status)
    PROVE  Committed' /\ Sound'
<1> DEFINE on == [job |-> attempt[w].job, worker |-> w, status |-> status]
<1>1. /\ attempt[w] # Idle /\ Begin(t, "complete", on, "drafts")
      /\ \A u \in Txs : tx[u].op = "complete" => tx[u].on.worker # on.worker
  BY DEF BeginComplete
<1>2. on.job = attempt[w].job /\ on.worker = w /\ on.status = status
  OBVIOUS
<1>3. on.job \in Jobs /\ job[on.job].status # "none"
  BY <1>1, <1>2 DEF Committed, AttemptsHaveJobs
<1> HIDE DEF on
<1>4. Silent(t)
  BY <1>1, BeginSound
<1>5. /\ tx'[t].op = "complete" /\ tx'[t].on = on /\ tx'[t].at = "drafts" /\ tx'[t].wait = {}
      /\ tx'[t].rows = Unwritten /\ held' = held /\ vars' = vars /\ tx[t] = Closedtx
  BY <1>1, AfterBegin DEF Sound
<1>6. tx[t].op = "none"
  BY <1>5 DEF Closedtx
<1>7. held[t] = {}
  BY <1>6 DEF Sound, SoundTx
<1>8. Ending(t)'
  BY <1>3, <1>5, <1>7, SameRows DEF Ending, Unwritten, NoRows
<1>9. Completing(t)'
  BY <1>2, <1>5, SameRows DEF Completing
<1> QED BY <1>4, <1>5, <1>8, <1>9 DEF SoundTx, Silent

LEMMA BeginCancelJobSound ==
    ASSUME Committed, Sound, NEW t \in Txs, NEW j \in Jobs, BeginCancelJob(t, j)
    PROVE  Committed' /\ Sound'
<1> DEFINE on == [job |-> j]
<1>1. job[j].status # "none" /\ Begin(t, "cancelJob", on, "drafts")
  BY DEF BeginCancelJob
<1>2. on.job = j
  OBVIOUS
<1> HIDE DEF on
<1>4. Silent(t)
  BY <1>1, BeginSound
<1>5. /\ tx'[t].op = "cancelJob" /\ tx'[t].on = on /\ tx'[t].at = "drafts" /\ tx'[t].wait = {}
      /\ tx'[t].rows = Unwritten /\ held' = held /\ vars' = vars /\ tx[t] = Closedtx
  BY <1>1, AfterBegin DEF Sound
<1>6. tx[t].op = "none"
  BY <1>5 DEF Closedtx
<1>7. held[t] = {}
  BY <1>6 DEF Sound, SoundTx
<1>8. Ending(t)'
  BY <1>1, <1>2, <1>5, <1>7, SameRows DEF Ending, Unwritten, NoRows
<1>9. Cancelling(t)'
  BY <1>5 DEF Cancelling
<1> QED BY <1>4, <1>5, <1>8, <1>9 DEF SoundTx, Silent

(* The drafts a writer synchronises are all drafts that show its job.        *)
LEMMA EndingReads ==
    ASSUME Committed, Sound, NEW t \in Txs, Ending(t), tx[t].at = "sync"
    PROVE  LET j == tx[t].on.job
               read == Resynced(t, j)
           IN  /\ DOMAIN read = Shows(j)
               /\ \A d \in Shows(j) :
                     /\ draft[d].status = "ocr_running" /\ DraftLock(d) \in held[t]
                     /\ [draft[d] EXCEPT !.status = read[d].status] = EndDrafts(j, EndStatus(t))[d]
<1> DEFINE j == tx[t].on.job
           st == EndStatus(t)
           read == Resynced(t, j)
           row == EndRow(j, st)
           now == [job EXCEPT ![j] = row]
<1>0. TypeOK /\ UnfinishedSlotShowsRunning
  BY DEF Committed
<1>1. /\ j \in Jobs /\ job[j].status \in Unfinished /\ Covers(j, held[t])
      /\ tx[t].rows = Written(NoRows, NoRows, Row(j, row))
  BY DEF Ending
<1>2. draft = [d \in Drafts |-> draft[d]] /\ job = [i \in Jobs |-> job[i]]
  BY <1>0 DEF TypeOK
<1> HIDE DEF row, j, st
<1>3. DraftsSeen(t) = draft /\ JobsSeen(t) = now
  BY <1>1, <1>2, RowsWritten, OverRows DEF DraftsSeen, JobsSeen
<1> HIDE DEF now
<1>4. read = [d \in {i \in Drafts : draft[i].status = "ocr_running" /\ j \in SlotJobs(draft[i])} |->
                 [draft[d] EXCEPT !.status = ProjectedStatus(now, draft[d])]]
  BY <1>3 DEF Resynced
<1>5. \A d \in Shows(j) : draft[d].status = "ocr_running" /\ DraftLock(d) \in held[t]
  BY <1>0, <1>1 DEF Shows, Covers, UnfinishedSlotShowsRunning
<1>6. {i \in Drafts : draft[i].status = "ocr_running" /\ j \in SlotJobs(draft[i])} = Shows(j)
  BY <1>5 DEF Shows
<1>7. read = [d \in Shows(j) |-> [draft[d] EXCEPT !.status = ProjectedStatus(now, draft[d])]]
  BY <1>4, <1>6
<1>8. EndDrafts(j, st) = read
  BY <1>7 DEF EndDrafts, now, row
<1>9. \A d \in Shows(j) : [draft[d] EXCEPT !.status = read[d].status] = read[d]
  <2>1. ASSUME NEW d \in Shows(j)
        PROVE  [draft[d] EXCEPT !.status = read[d].status] = read[d]
    <3>1. draft[d] \in DraftRow
      BY <1>0 DEF Shows, TypeOK
    <3> DEFINE s == ProjectedStatus(now, draft[d])
    <3>2. read[d] = [draft[d] EXCEPT !.status = s]
      BY <1>7
    <3> HIDE DEF s, read
    <3>3. read[d].status = s
      BY <3>1, <3>2 DEF DraftRow
    <3> QED BY <3>2, <3>3
  <2> QED BY <2>1
<1>10. DOMAIN read = Shows(j)
  BY <1>7
<1> HIDE DEF read
<1> QED BY <1>5, <1>8, <1>9, <1>10 DEF j, st, read

LEMMA EndingBlockSound ==
    ASSUME Committed, Sound, NEW t \in Txs, tx[t].op \in {"complete", "cancelJob"}, Block(t)
    PROVE  Committed' /\ Sound'
<1> DEFINE j == tx[t].on.job
           at == tx[t].at
<1>1. /\ Ending(t)
      /\ tx[t].op = "complete" => Completing(t)
      /\ tx[t].op = "cancelJob" => Cancelling(t)
  BY OpOfSound DEF Sound
<1>2. ~Free(t, Selected(t)) /\ ~(Selected(t) \subseteq held[t])
  BY HeldIsFree DEF Block
<1>3. at # "sync"
  <2>1. ASSUME at = "sync" PROVE Selected(t) \subseteq held[t]
    <3>1. Selected(t) = {DraftLock(d) : d \in DOMAIN Resynced(t, j)}
      BY <2>1, SelectedAt
    <3>2. DOMAIN Resynced(t, j) = Shows(j) /\ \A d \in Shows(j) : DraftLock(d) \in held[t]
      BY <1>1, <2>1, EndingReads
    <3> QED BY <3>1, <3>2
  <2> QED BY <1>2, <2>1
<1>4. at # "commit"
  BY <1>2, SelectedAt
<1>5. j \in Jobs /\ job[j].status # "none" /\ UnfinishedSlotShowsRunning /\ TypeOK
  BY <1>1 DEF Ending, Committed
<1>6. at = "again" => job[j].status \in Final
  <2>1. ASSUME at = "again", job[j].status \in Unfinished PROVE Selected(t) \subseteq held[t]
    <3>1. Covers(j, held[t]) /\ Selected(t) = DraftLocks(j)
      BY <1>1, <2>1, SelectedAt DEF Ending
    <3> QED BY <2>1, <3>1 DEF Covers, DraftLocks
  <2>2. job[j].status \in Unfinished \cup Final
    BY <1>5 DEF TypeOK, JobRow
  <2> QED BY <1>2, <2>1, <2>2
<1>7. /\ TxShape' /\ OthersKeep(t) /\ tx'[t].op = tx[t].op /\ tx'[t].on = tx[t].on
      /\ tx'[t].at = at /\ tx'[t].wait = Selected(t) /\ tx'[t].rows = tx[t].rows
      /\ held' = held /\ vars' = vars
  BY <1>3, AfterBlock DEF Sound
<1>8. at \in {"owned", "job"} => Selected(t) \subseteq {JobLock(j)}
  BY SelectedAt
<1>9. at = "drafts" => Covers(j, Selected(t))
  BY <1>5, SelectedAt, DraftLocksCover
<1>10. EndingAt(j, EndStatus(t), at, held[t], Selected(t), tx[t].rows)
  BY <1>1, <1>3, <1>4, <1>6, <1>8, <1>9, EndingHolds DEF EndingAt
<1>11. Ending(t)'
  BY <1>7, <1>10, EndingNext
<1>12. Completing(t) => Completing(t)'
  BY <1>3, <1>4, <1>7, SameRows DEF Completing
<1>13. Cancelling(t) => Cancelling(t)'
  BY <1>3, <1>4, <1>7, SameRows DEF Cancelling
<1>14. SoundTx(t)'
  BY <1>1, <1>7, <1>11, <1>12, <1>13 DEF SoundTx
<1> QED BY <1>3, <1>14, BlockSound DEF Silent

LEMMA LockDraftsSound ==
    ASSUME Committed, Sound, NEW t \in Txs, LockDrafts(t)
    PROVE  Committed' /\ Sound'
<1> DEFINE j == tx[t].on.job
           kept == Asked(t) \cap DraftLocks(j)
           at == IF tx[t].op = "complete" THEN "owned" ELSE "job"
<1>1. /\ tx[t].op \in {"complete", "cancelJob"} /\ tx[t].at = "drafts" /\ Free(t, Asked(t))
      /\ Proceed(t, kept, at, Written(NoRows, NoRows, NoRows))
  BY RowsWritten DEF LockDrafts, At
<1>2. /\ Ending(t)
      /\ tx[t].op = "complete" => Completing(t)
      /\ tx[t].op = "cancelJob" => Cancelling(t)
  BY <1>1, OpOfSound DEF Sound
<1>3. /\ j \in Jobs /\ job[j].status # "none" /\ UnfinishedSlotShowsRunning
      /\ held[t] = {} /\ (tx[t].wait # {} => Covers(j, tx[t].wait))
  BY <1>1, <1>2 DEF Ending, Committed
<1>4. Covers(j, DraftLocks(j)) /\ Covers(j, Asked(t))
  BY <1>1, <1>3, SelectedAt, DraftLocksCover DEF Asked
<1>5. Covers(j, kept)
  BY <1>4, CoversBoth
<1> HIDE DEF kept, at
<1>6. /\ tx'[t].op = tx[t].op /\ tx'[t].on = tx[t].on /\ tx'[t].at = at /\ tx'[t].wait = {}
      /\ tx'[t].rows = Unwritten /\ held'[t] = kept /\ vars' = vars
  <2>1. TxShape
    BY DEF Sound
  <2>2. Unwritten = Written(NoRows, NoRows, NoRows)
    BY RowsWritten
  <2> QED BY <1>1, <1>3, <2>1, <2>2, AfterProceed
<1>7. Silent(t)
  <2>1. \A u \in Txs \ {t} : kept \cap held[u] = {}
    BY <1>1, FreeParts DEF kept
  <2> QED BY <1>1, <2>1, ProceedSound
<1>8. EndingAt(j, EndStatus(t), at, kept, {}, Unwritten)
  BY <1>3, <1>5 DEF EndingAt, at
<1>9. Ending(t)'
  BY <1>6, <1>8, EndingNext
<1>10. tx[t].op = "complete" => Completing(t)'
  BY <1>2, <1>6, SameRows DEF Completing, at
<1>11. tx[t].op = "cancelJob" => Cancelling(t)'
  BY <1>6 DEF Cancelling, at
<1> QED BY <1>1, <1>6, <1>7, <1>9, <1>10, <1>11 DEF SoundTx, Silent

(* A statement of an ending transaction that leaves the rows alone.          *)
LEMMA EndingProceeds ==
    ASSUME Committed, Sound, NEW t \in Txs, tx[t].op \in {"complete", "cancelJob"},
           NEW kept, NEW at, NEW drafts, NEW subs, NEW jobs,
           Proceed(t, kept, at, Written(drafts, subs, jobs)), NEW locks, kept \subseteq locks,
           Free(t, locks),
           EndingAt(tx[t].on.job, EndStatus(t), at, held[t] \cup kept, {},
                    Written(drafts, subs, jobs)),
           tx[t].op = "complete" =>
              at \notin {"job", "again"} /\ (at \in {"sync", "commit"} => Owned(tx[t].on.worker)),
           tx[t].op = "cancelJob" =>
              at # "owned" /\ (at \in {"sync", "commit"} => job[tx[t].on.job].status = "queued")
    PROVE  Committed' /\ Sound'
<1>1. /\ Ending(t)
      /\ tx[t].op = "complete" => Completing(t)
      /\ tx[t].op = "cancelJob" => Cancelling(t)
  BY OpOfSound DEF Sound
<1>2. TxShape
  BY DEF Sound
<1>3. /\ tx'[t].op = tx[t].op /\ tx'[t].on = tx[t].on /\ tx'[t].at = at /\ tx'[t].wait = {}
      /\ tx'[t].rows = Written(drafts, subs, jobs) /\ held'[t] = held[t] \cup kept /\ vars' = vars
  BY <1>2, AfterProceed
<1>4. Silent(t)
  <2>1. \A u \in Txs \ {t} : kept \cap held[u] = {}
    BY FreeParts
  <2> QED BY <2>1, ProceedSound
<1>5. Ending(t)'
  BY <1>3, EndingNext
<1>6. tx[t].op = "complete" => Completing(t)'
  BY <1>1, <1>3, SameRows DEF Completing
<1>7. tx[t].op = "cancelJob" => Cancelling(t)'
  BY <1>3, SameRows DEF Cancelling
<1> QED BY <1>3, <1>4, <1>5, <1>6, <1>7 DEF SoundTx, Silent

LEMMA LockJobSound ==
    ASSUME Committed, Sound, NEW t \in Txs, LockJob(t)
    PROVE  Committed' /\ Sound'
<1> DEFINE j == tx[t].on.job
<1>1. /\ tx[t].op = "cancelJob" /\ tx[t].at = "job" /\ Free(t, Asked(t))
      /\ Proceed(t, Asked(t), "again", Written(NoRows, NoRows, NoRows))
  BY RowsWritten DEF LockJob, At
<1>2. Ending(t)
  BY <1>1, OpOfSound DEF Sound
<1>3. j \in Jobs /\ job[j].status # "none" /\ Covers(j, held[t]) /\ tx[t].wait \subseteq {JobLock(j)}
  BY <1>1, <1>2 DEF Ending
<1>4. Asked(t) = {JobLock(j)}
  BY <1>1, <1>3, SelectedAt DEF Asked
<1>5. Covers(j, held[t] \cup Asked(t))
  BY <1>3, CoversBoth
<1>6. Unwritten = Written(NoRows, NoRows, NoRows)
  BY RowsWritten
<1>7. EndingAt(j, EndStatus(t), "again", held[t] \cup Asked(t), {}, Written(NoRows, NoRows, NoRows))
  BY <1>3, <1>4, <1>5, <1>6 DEF EndingAt
<1> QED BY <1>1, <1>7, EndingProceeds

LEMMA WriteCancellationSound ==
    ASSUME Committed, Sound, NEW t \in Txs, WriteCancellation(t)
    PROVE  Committed' /\ Sound'
<1> DEFINE j == tx[t].on.job
           kept == Asked(t) \cap DraftLocks(j)
           row == Finished(job[j], "cancelled")
<1>1. /\ tx[t].op = "cancelJob" /\ tx[t].at = "again" /\ Free(t, Asked(t)) /\ job[j].status = "queued"
      /\ Proceed(t, kept, "sync", [Unwritten EXCEPT !.job = Row(j, row)])
  BY DEF WriteCancellation, At
<1>2. Ending(t)
  BY <1>1, OpOfSound DEF Sound
<1>3. j \in Jobs /\ Covers(j, held[t]) /\ JobLock(j) \in held[t]
  BY <1>1, <1>2 DEF Ending
<1>4. EndStatus(t) = "cancelled" /\ EndRow(j, "cancelled") = row
  BY <1>1 DEF EndStatus, EndRow
<1>5. Covers(j, held[t] \cup kept)
  BY <1>3, CoversBoth
<1> HIDE DEF row, kept
<1>6. [Unwritten EXCEPT !.job = Row(j, row)] = Written(NoRows, NoRows, Row(j, row))
  BY RowsWritten
<1>7. EndingAt(j, EndStatus(t), "sync", held[t] \cup kept, {}, Written(NoRows, NoRows, Row(j, row)))
  BY <1>1, <1>3, <1>4, <1>5 DEF EndingAt
<1>8. kept \subseteq Asked(t)
  BY DEF kept
<1> QED BY <1>1, <1>6, <1>7, <1>8, EndingProceeds

LEMMA SyncDraftsSound ==
    ASSUME Committed, Sound, NEW t \in Txs, SyncDrafts(t)
    PROVE  Committed' /\ Sound'
<1> DEFINE j == tx[t].on.job
           st == EndStatus(t)
           read == Resynced(t, j)
           drafts == {d \in DOMAIN read : draft[d].status = "ocr_running"}
           kept == {DraftLock(d) : d \in drafts}
           synced == [d \in drafts |-> [draft[d] EXCEPT !.status = read[d].status]]
           jobs == Row(j, EndRow(j, st))
<1>1. tx[t].op \in {"complete", "cancelJob"} /\ tx[t].at = "sync"
  BY DEF SyncDrafts, At
<1>2. /\ Ending(t)
      /\ tx[t].op = "complete" => Completing(t)
      /\ tx[t].op = "cancelJob" => Cancelling(t)
  BY <1>1, OpOfSound DEF Sound
<1>3. /\ j \in Jobs /\ job[j].status \in Unfinished /\ Covers(j, held[t]) /\ JobLock(j) \in held[t]
      /\ tx[t].wait = {} /\ st # "queued" /\ tx[t].rows = Written(NoRows, NoRows, jobs)
  BY <1>1, <1>2 DEF Ending
<1>4. Proceed(t, kept, "commit", [tx[t].rows EXCEPT !.draft = synced])
  BY <1>3 DEF SyncDrafts
<1>5. /\ DOMAIN read = Shows(j)
      /\ \A d \in Shows(j) :
            /\ draft[d].status = "ocr_running" /\ DraftLock(d) \in held[t]
            /\ [draft[d] EXCEPT !.status = read[d].status] = EndDrafts(j, st)[d]
  BY <1>1, <1>2, EndingReads
<1> HIDE DEF read, st
<1>6. drafts = Shows(j)
  BY <1>5
<1>7. kept \subseteq held[t]
  BY <1>5, <1>6
<1>8. synced = EndDrafts(j, st)
  <2> HIDE DEF drafts
  <2>1. \A d \in Shows(j) : synced[d] = EndDrafts(j, st)[d]
    BY <1>5, <1>6
  <2>2. EndDrafts(j, st) = [d \in Shows(j) |-> EndDrafts(j, st)[d]]
    BY DEF EndDrafts
  <2>3. synced = [d \in Shows(j) |-> synced[d]]
    BY <1>6
  <2> QED BY <2>1, <2>2, <2>3
<1> HIDE DEF kept, synced, jobs
<1>9. [tx[t].rows EXCEPT !.draft = synced] = Written(synced, NoRows, jobs)
  BY <1>3, RowsWritten
<1>10. held[t] \cup kept = held[t]
  BY <1>7
<1>11. EndingAt(j, st, "commit", held[t] \cup kept, {}, Written(synced, NoRows, jobs))
  BY <1>3, <1>8, <1>10 DEF EndingAt, jobs
<1>12. Free(t, held[t])
  BY HeldIsFree
<1>13. Proceed(t, kept, "commit", Written(synced, NoRows, jobs))
  BY <1>4, <1>9
<1>14. tx[t].op = "complete" => Owned(tx[t].on.worker)
  BY <1>1, <1>2 DEF Completing
<1>15. tx[t].op = "cancelJob" => job[j].status = "queued"
  BY <1>1, <1>2 DEF Cancelling
<1> QED BY <1>1, <1>7, <1>11, <1>12, <1>13, <1>14, <1>15, EndingProceeds DEF st
----------------------------------------------------------------------------
(* A step that changes rows under the locks of its session leaves the others *)
(* sound.                                                                    *)
LEMMA OthersStay ==
    ASSUME Committed, Sound, [Next]_vars, NEW t \in Txs, OthersKeep(t),
           NEW locks, Touches(locks), locks \subseteq held[t], NEW j, StoresAtMost(j),
           \A u \in Txs \ {t} : tx[u].op = "store" /\ tx[u].on.job \in Jobs => tx[u].on.job # j,
           \A u \in Txs \ {t} : tx[u].op = "complete" /\ tx[u].on.worker \in Workers
                => attempt'[tx[u].on.worker] = attempt[tx[u].on.worker]
    PROVE  Committed' /\ \A u \in Txs \ {t} : LeftAlone(u) /\ SoundTx(u)'
<1>1. Committed'
  BY CommittedStep
<1>2. ASSUME NEW u \in Txs \ {t} PROVE LeftAlone(u) /\ SoundTx(u)'
  <2>1. tx'[u] = tx[u] /\ held'[u] = held[u]
    BY DEF OthersKeep
  <2>2. locks \cap held[u] = {}
    BY DEF Sound, Exclusive
  <2>3. LeftAlone(u)
    BY <2>1, <2>2, TouchesLeaves
  <2> QED BY <1>1, <2>3, SoundTxKept DEF Sound
<1> QED BY <1>1, <1>2

LEMMA NoJobStored ==
    \A t \in Txs : tx[t].op = "store" /\ tx[t].on.job \in Jobs => tx[t].on.job # NoJob
BY NullsAssumption

LEMMA CloseSteps ==
    ASSUME Committed, Sound, [Next]_vars, NEW t \in Txs, Close(t),
           NEW locks, Touches(locks), locks \subseteq held[t], NEW j, StoresAtMost(j),
           \A u \in Txs \ {t} : tx[u].op = "store" /\ tx[u].on.job \in Jobs => tx[u].on.job # j,
           \A u \in Txs \ {t} : tx[u].op = "complete" /\ tx[u].on.worker \in Workers
                => attempt'[tx[u].on.worker] = attempt[tx[u].on.worker],
           IsFiniteSet(ActiveJobs)'
    PROVE  Committed' /\ Sound' /\ \A u \in Txs \ {t} : LeftAlone(u)
<1>1. TxShape' /\ OthersKeep(t) /\ Exclusive' /\ OwnWorker' /\ OwnJob' /\ SoundTx(t)'
  BY ClosedShape
<1>2. Committed' /\ \A u \in Txs \ {t} : LeftAlone(u) /\ SoundTx(u)'
  BY <1>1, OthersStay
<1> QED BY <1>1, <1>2 DEF Sound

LEMMA OtherWorkersKeep ==
    ASSUME Committed, Sound, NEW t \in Txs, tx[t].op = "complete", EndAttempt(tx[t].on.worker)
    PROVE  \A u \in Txs \ {t} : tx[u].op = "complete" /\ tx[u].on.worker \in Workers
                => attempt'[tx[u].on.worker] = attempt[tx[u].on.worker]
<1>1. \A u \in Txs \ {t} : tx[u].op = "complete" => tx[u].on.worker # tx[t].on.worker
  BY DEF Sound, OwnWorker
<1>2. \A w \in Workers : w # tx[t].on.worker => attempt'[w] = attempt[w]
  BY DEF EndAttempt, Committed, TypeOK
<1> QED BY <1>1, <1>2

LEMMA WriteCompletionSound ==
    ASSUME Committed, Sound, NEW t \in Txs, WriteCompletion(t)
    PROVE  Committed' /\ Sound' /\ [Next]_vars
<1> DEFINE j == tx[t].on.job
           w == tx[t].on.worker
           status == tx[t].on.status
<1>1. tx[t].op = "complete" /\ tx[t].at = "owned" /\ Free(t, Asked(t))
  BY DEF WriteCompletion, At
<1>2. Ending(t) /\ Completing(t)
  BY <1>1, OpOfSound DEF Sound
<1>3. /\ j \in Jobs /\ Covers(j, held[t]) /\ tx[t].wait \subseteq {JobLock(j)}
      /\ w \in Workers /\ attempt[w].job = j /\ status \in {"succeeded", "failed", "queued"}
  BY <1>1, <1>2 DEF Ending, Completing
<1>4. EndStatus(t) = status
  BY <1>1 DEF EndStatus
<1>5. CASE ~Owned(w)
  <2>1. Close(t) /\ OwnerLost(w) /\ EndAttempt(w) /\ draft' = draft /\ sub' = sub /\ job' = job
    <3>1. attempt[w] # Idle
      BY <1>3, NullsAssumption DEF Idle
    <3> QED BY <1>5, <3>1 DEF WriteCompletion, OwnerLost
  <2>2. [Next]_vars
    BY <1>3, <2>1 DEF Next, WorkerNext, AttemptEnds
  <2>3. ActiveJobs' = ActiveJobs
    BY <2>1 DEF ActiveJobs
  <2>4. Touches({}) /\ StoresAtMost(NoJob)
    BY <2>1, <2>3, SameOpen DEF Touches, StoresAtMost
  <2>5. \A u \in Txs \ {t} : tx[u].op = "complete" /\ tx[u].on.worker \in Workers
                => attempt'[tx[u].on.worker] = attempt[tx[u].on.worker]
    BY <1>1, <2>1, OtherWorkersKeep
  <2>6. IsFiniteSet(ActiveJobs)'
    BY <2>3 DEF Sound
  <2> QED BY <2>1, <2>2, <2>4, <2>5, <2>6, NoJobStored, CloseSteps
<1>6. CASE Owned(w)
  <2>1. Asked(t) = {JobLock(j)}
    BY <1>1, <1>3, <1>6, SelectedAt DEF Asked
  <2>2. job[j].status \in Unfinished
    BY <1>3, <1>6 DEF Owned
  <2>3. Covers(j, held[t] \cup {JobLock(j)})
    BY <1>3, CoversBoth
  <2> DEFINE row == EndRow(j, status)
             at == IF status = "queued" THEN "commit" ELSE "sync"
  <2>4. row = IF status = "queued" THEN Requeued(job[j], TRUE) ELSE Finished(job[j], status)
    BY DEF EndRow
  <2>5. Proceed(t, {JobLock(j)}, at, [Unwritten EXCEPT !.job = Row(j, row)])
    BY <1>6, <2>4 DEF WriteCompletion
  <2> HIDE DEF row, at
  <2>6. [Unwritten EXCEPT !.job = Row(j, row)] = Written(NoRows, NoRows, Row(j, row))
    BY RowsWritten
  <2>7. EndingAt(j, EndStatus(t), at, held[t] \cup {JobLock(j)}, {},
                 Written(NoRows, NoRows, Row(j, row)))
    BY <1>3, <1>4, <2>2, <2>3 DEF EndingAt, at, row
  <2>8. at \in {"sync", "commit"}
    BY DEF at
  <2>9. vars' = vars
    BY <2>5 DEF Proceed
  <2> QED BY <1>1, <1>6, <2>1, <2>5, <2>6, <2>7, <2>8, <2>9, EndingProceeds
<1> QED BY <1>5, <1>6
----------------------------------------------------------------------------
(* The statements that close a draft.                                        *)

LEMMA SameClosing ==
    ASSUME vars' = vars
    PROVE  /\ \A d : OpenOf(d)' = OpenOf(d)
           /\ \A d : QueuedOf(d)' = QueuedOf(d)
           /\ \A d : StagedOf(d)' = StagedOf(d)
           /\ \A op, d : ClosedRow(op, d)' = ClosedRow(op, d)
           /\ \A d : AbortedSubs(d)' = AbortedSubs(d)
           /\ \A d : CancelledJobs(d)' = CancelledJobs(d)
           /\ \A d : StagedJobs(d)' = StagedJobs(d)
<1>1. draft' = draft /\ sub' = sub /\ job' = job
  BY DEF vars
<1>2. \A d : OpenOf(d)' = OpenOf(d) /\ QueuedOf(d)' = QueuedOf(d) /\ StagedOf(d)' = StagedOf(d)
  BY <1>1 DEF OpenOf, QueuedOf, StagedOf
<1>3. \A op, d : ClosedRow(op, d)' = ClosedRow(op, d)
  BY <1>1 DEF ClosedRow
<1>4. \A d : AbortedSubs(d)' = AbortedSubs(d)
  BY <1>1, <1>2 DEF AbortedSubs
<1>5. \A j : CancelledRow(j)' = CancelledRow(j)
  BY <1>1 DEF CancelledRow
<1>6. \A j : StagedRow(j)' = StagedRow(j)
  BY <1>1, <1>5 DEF StagedRow
<1>7. \A d : CancelledJobs(d)' = CancelledJobs(d)
  BY <1>2, <1>5 DEF CancelledJobs
<1>8. \A d : StagedJobs(d)' = StagedJobs(d)
  BY <1>2, <1>6 DEF StagedJobs
<1> QED BY <1>2, <1>3, <1>4, <1>7, <1>8

ClosingAt(d, op, at, locks, wait, rows) ==
    /\ d \in Drafts
    /\ at \in {"row", "subs", "jobs", "images", "stage", "commit"}
    /\ at = "jobs" => op = "cancelDraft"
    /\ at = "row" => locks = {} /\ wait \subseteq {DraftLock(d)} /\ rows = Unwritten
    /\ at # "row" => /\ DraftLock(d) \in locks /\ draft[d].status \in Closable(op)
                     /\ \A j \in Jobs : ImageLock(j) \in locks => j \in SlotJobs(draft[d])
    /\ at = "subs" => /\ wait # {} => wait = {SubLock(s) : s \in OpenOf(d)}
                      /\ rows = Written(Row(d, ClosedRow(op, d)), NoRows, NoRows)
    /\ at \in {"jobs", "images", "stage", "commit"} => \A s \in OpenOf(d) : SubLock(s) \in locks
    /\ at = "jobs" => /\ wait # {} => wait = {JobLock(j) : j \in QueuedOf(d)}
                      /\ rows = Written(Row(d, ClosedRow(op, d)), AbortedSubs(d), NoRows)
    /\ at \in {"images", "stage", "commit"} => \A j \in QueuedOf(d) : JobLock(j) \in locks
    /\ at \in {"images", "stage"} =>
          rows = Written(Row(d, ClosedRow(op, d)), AbortedSubs(d), CancelledJobs(d))
    /\ at = "images" => (wait # {} => wait = {ImageLock(j) : j \in SlotJobs(draft[d])})
    /\ at \in {"stage", "commit"} =>
          wait = {} /\ \A j \in SlotJobs(draft[d]) : ImageLock(j) \in locks
    /\ at = "commit" => rows = Written(Row(d, ClosedRow(op, d)), AbortedSubs(d), StagedJobs(d))

LEMMA ClosingHolds ==
    ASSUME NEW t
    PROVE  Closing(t) <=> /\ "draft" \in DOMAIN tx[t].on
                          /\ ClosingAt(tx[t].on.draft, tx[t].op, tx[t].at, held[t], tx[t].wait,
                                       tx[t].rows)
BY DEF Closing, ClosingAt

LEMMA ClosingNext ==
    ASSUME vars' = vars, NEW t \in Txs, tx'[t].op = tx[t].op, tx'[t].on = tx[t].on,
           "draft" \in DOMAIN tx[t].on,
           NEW at, NEW wait, NEW rows, NEW locks,
           tx'[t].at = at, tx'[t].wait = wait, tx'[t].rows = rows, held'[t] = locks,
           ClosingAt(tx[t].on.draft, tx[t].op, at, locks, wait, rows)
    PROVE  Closing(t)'
<1> DEFINE d == tx[t].on.draft
           op == tx[t].op
<1>1. d' = d /\ op' = op
  OBVIOUS
<1>2. draft' = draft
  BY SameRows
<1> HIDE DEF d, op
<1>3. ClosingAt(d, op, at, locks, wait, rows)
  BY DEF d, op
<1>4. /\ OpenOf(d)' = OpenOf(d) /\ QueuedOf(d)' = QueuedOf(d) /\ ClosedRow(op, d)' = ClosedRow(op, d)
      /\ AbortedSubs(d)' = AbortedSubs(d) /\ CancelledJobs(d)' = CancelledJobs(d)
      /\ StagedJobs(d)' = StagedJobs(d)
  BY <1>1, SameClosing
<1> QED BY <1>1, <1>2, <1>3, <1>4 DEF Closing, ClosingAt, d, op

LEMMA ClosingProceeds ==
    ASSUME Committed, Sound, NEW t \in Txs, tx[t].op \in {"cancelDraft", "confirm"},
           NEW kept, NEW at, NEW drafts, NEW subs, NEW jobs,
           Proceed(t, kept, at, Written(drafts, subs, jobs)), NEW locks, kept \subseteq locks,
           Free(t, locks),
           ClosingAt(tx[t].on.draft, tx[t].op, at, held[t] \cup kept, {},
                     Written(drafts, subs, jobs))
    PROVE  Committed' /\ Sound'
<1>1. "draft" \in DOMAIN tx[t].on
  BY OpOfSound DEF Sound, Closing
<1>2. TxShape
  BY DEF Sound
<1>3. /\ tx'[t].op = tx[t].op /\ tx'[t].on = tx[t].on /\ tx'[t].at = at /\ tx'[t].wait = {}
      /\ tx'[t].rows = Written(drafts, subs, jobs) /\ held'[t] = held[t] \cup kept /\ vars' = vars
  BY <1>2, AfterProceed
<1>4. Silent(t)
  <2>1. \A u \in Txs \ {t} : kept \cap held[u] = {}
    BY FreeParts
  <2> QED BY <2>1, ProceedSound
<1>5. Closing(t)'
  BY <1>1, <1>3, ClosingNext
<1> QED BY <1>3, <1>4, <1>5 DEF SoundTx, Silent

(* What the statements of a closing transaction ask for                      *)
LEMMA ClosingAsks ==
    ASSUME NEW t \in Txs, Closing(t)
    PROVE  LET d == tx[t].on.draft
           IN  /\ tx[t].at = "row" => Selected(t) = {DraftLock(d)} /\ Asked(t) = {DraftLock(d)}
               /\ tx[t].at = "subs" => /\ Selected(t) = {SubLock(s) : s \in OpenOf(d)}
                                       /\ Asked(t) = {SubLock(s) : s \in OpenOf(d)}
               /\ tx[t].at = "jobs" => /\ Selected(t) = {JobLock(j) : j \in QueuedOf(d)}
                                       /\ Asked(t) = {JobLock(j) : j \in QueuedOf(d)}
               /\ tx[t].at = "images" => /\ Selected(t) = {ImageLock(j) : j \in SlotJobs(draft[d])}
                                         /\ Asked(t) = {ImageLock(j) : j \in SlotJobs(draft[d])}
<1> DEFINE d == tx[t].on.draft
<1>1. ClosingAt(d, tx[t].op, tx[t].at, held[t], tx[t].wait, tx[t].rows) /\ "draft" \in DOMAIN tx[t].on
  BY ClosingHolds
<1>2. tx[t].at = "row" => Selected(t) = {DraftLock(d)}
  BY <1>1, SelectedAt DEF RowDraft
<1>3. {r \in OpenSubmissions : sub[r].draft = d} = OpenOf(d)
  BY DEF OpenSubmissions, OpenOf
<1>4. tx[t].at = "subs" => Selected(t) = {SubLock(s) : s \in OpenOf(d)}
  <2>1. tx[t].at = "subs" =>
           Selected(t) = {SubLock(s) : s \in {r \in OpenSubmissions : sub[r].draft = d}}
    BY SelectedAt
  <2> QED BY <1>3, <2>1
<1>5. tx[t].at = "jobs" => Selected(t) = {JobLock(j) : j \in QueuedOf(d)}
  <2>1. tx[t].at = "jobs" =>
           Selected(t) = {JobLock(j) : j \in {i \in SlotJobs(draft[d]) : job[i].status = "queued"}}
    BY SelectedAt
  <2> QED BY <2>1 DEF QueuedOf
<1>6. tx[t].at = "images" => Selected(t) = {ImageLock(j) : j \in SlotJobs(draft[d])}
  BY SelectedAt
<1> HIDE DEF d
<1>7. /\ tx[t].at = "row" => tx[t].wait \subseteq {DraftLock(d)}
      /\ tx[t].at = "subs" => (tx[t].wait # {} => tx[t].wait = {SubLock(s) : s \in OpenOf(d)})
      /\ tx[t].at = "jobs" => (tx[t].wait # {} => tx[t].wait = {JobLock(j) : j \in QueuedOf(d)})
      /\ tx[t].at = "images" =>
            (tx[t].wait # {} => tx[t].wait = {ImageLock(j) : j \in SlotJobs(draft[d])})
  BY <1>1 DEF ClosingAt
<1> QED BY <1>2, <1>4, <1>5, <1>6, <1>7 DEF Asked, d

LEMMA BeginCloseDraftSound ==
    ASSUME Committed, Sound, NEW t \in Txs, NEW d \in Drafts, NEW op \in {"cancelDraft", "confirm"},
           BeginCloseDraft(t, d, op)
    PROVE  Committed' /\ Sound'
<1> DEFINE on == [draft |-> d]
<1>1. Begin(t, op, on, "row")
  BY DEF BeginCloseDraft
<1>2. on.draft = d /\ "draft" \in DOMAIN on
  OBVIOUS
<1> HIDE DEF on
<1>3. Silent(t)
  BY <1>1, BeginSound
<1>4. /\ tx'[t].op = op /\ tx'[t].on = on /\ tx'[t].at = "row" /\ tx'[t].wait = {}
      /\ tx'[t].rows = Unwritten /\ held' = held /\ vars' = vars /\ tx[t] = Closedtx
  BY <1>1, AfterBegin DEF Sound
<1>5. tx[t].op = "none"
  BY <1>4 DEF Closedtx
<1>6. held[t] = {}
  BY <1>5 DEF Sound, SoundTx
<1>7. Closing(t)'
  BY <1>2, <1>4, <1>6 DEF Closing, Unwritten, NoRows
<1> QED BY <1>3, <1>4, <1>7 DEF SoundTx, Silent

LEMMA ClosingBlockSound ==
    ASSUME Committed, Sound, NEW t \in Txs, tx[t].op \in {"cancelDraft", "confirm"}, Block(t)
    PROVE  Committed' /\ Sound'
<1> DEFINE d == tx[t].on.draft
           at == tx[t].at
<1>1. Closing(t)
  BY OpOfSound DEF Sound
<1>2. /\ ClosingAt(d, tx[t].op, at, held[t], tx[t].wait, tx[t].rows)
      /\ "draft" \in DOMAIN tx[t].on
  BY <1>1, ClosingHolds
<1>3. at \notin {"stage", "commit", "sync"}
  <2>1. Selected(t) # {}
    BY DEF Block, Free
  <2> QED BY <1>2, <2>1, SelectedAt DEF ClosingAt
<1>4. /\ tx'[t].op = tx[t].op /\ tx'[t].on = tx[t].on
      /\ tx'[t].at = at /\ tx'[t].wait = Selected(t) /\ tx'[t].rows = tx[t].rows
      /\ held' = held /\ vars' = vars
  BY <1>3, AfterBlock DEF Sound
<1>5. ClosingAt(d, tx[t].op, at, held[t], Selected(t), tx[t].rows)
  BY <1>1, <1>2, <1>3, ClosingAsks DEF ClosingAt
<1>6. Closing(t)'
  BY <1>2, <1>4, <1>5, ClosingNext
<1> QED BY <1>3, <1>4, <1>6, BlockSound DEF Silent, SoundTx

LEMMA WriteDraftSound ==
    ASSUME Committed, Sound, NEW t \in Txs, WriteDraft(t)
    PROVE  Committed' /\ Sound'
<1> DEFINE d == tx[t].on.draft
           op == tx[t].op
           row == ClosedRow(op, d)
<1>1. op \in {"cancelDraft", "confirm"} /\ tx[t].at = "row" /\ Free(t, Asked(t))
  BY DEF WriteDraft, At
<1>2. Closing(t)
  BY <1>1, OpOfSound DEF Sound
<1>3. d \in Drafts /\ held[t] = {}
  BY <1>1, <1>2 DEF Closing
<1>4. draft[d].status \in Closable(op)
  BY <1>1 DEF WriteDraft, Closable
<1>5. Proceed(t, Asked(t), "subs", [Unwritten EXCEPT !.draft = Row(d, row)])
  BY <1>1 DEF WriteDraft, ClosedRow
<1>6. Asked(t) = {DraftLock(d)}
  BY <1>1, <1>2, ClosingAsks
<1> HIDE DEF row
<1>7. [Unwritten EXCEPT !.draft = Row(d, row)] = Written(Row(d, row), NoRows, NoRows)
  BY RowsWritten
<1>8. \A j \in Jobs : ImageLock(j) \notin held[t] \cup Asked(t)
  BY <1>3, <1>6 DEF ImageLock, DraftLock
<1>9. ClosingAt(d, op, "subs", held[t] \cup Asked(t), {}, Written(Row(d, row), NoRows, NoRows))
  BY <1>3, <1>4, <1>6, <1>8 DEF ClosingAt, row
<1> QED BY <1>1, <1>5, <1>7, <1>9, ClosingProceeds

LEMMA AbortSubsSound ==
    ASSUME Committed, Sound, NEW t \in Txs, AbortSubs(t)
    PROVE  Committed' /\ Sound'
<1> DEFINE d == tx[t].on.draft
           op == tx[t].op
           closed == Row(d, ClosedRow(op, d))
           at == IF op = "cancelDraft" THEN "jobs" ELSE "images"
           open == {s \in OpenSubmissions : SubLock(s) \in Asked(t)}
           kept == {SubLock(s) : s \in open}
           aborted == [s \in open |-> [sub[s] EXCEPT !.status = "aborted"]]
<1>1. op \in {"cancelDraft", "confirm"} /\ tx[t].at = "subs" /\ Free(t, Asked(t))
  BY DEF AbortSubs, At
<1>2. Closing(t)
  BY <1>1, OpOfSound DEF Sound
<1>3. /\ d \in Drafts /\ DraftLock(d) \in held[t] /\ draft[d].status \in Closable(op)
      /\ \A j \in Jobs : ImageLock(j) \in held[t] => j \in SlotJobs(draft[d])
      /\ tx[t].rows = Written(closed, NoRows, NoRows)
  BY <1>1, <1>2 DEF Closing
<1>4. Asked(t) = {SubLock(s) : s \in OpenOf(d)}
  BY <1>1, <1>2, ClosingAsks
<1>5. open = OpenOf(d)
  BY <1>4 DEF SubLock, OpenOf, OpenSubmissions
<1>6. kept = Asked(t)
  BY <1>4, <1>5
<1>7. aborted = AbortedSubs(d)
  BY <1>5 DEF AbortedSubs
<1>8. Proceed(t, kept, at, [tx[t].rows EXCEPT !.sub = aborted])
  BY DEF AbortSubs
<1> HIDE DEF closed, at, open, kept, aborted
<1>9. [tx[t].rows EXCEPT !.sub = aborted] = Written(closed, aborted, NoRows)
  BY <1>3, RowsWritten
<1>10. /\ \A j \in Jobs : ImageLock(j) \in held[t] \cup kept => j \in SlotJobs(draft[d])
       /\ \A s \in OpenOf(d) : SubLock(s) \in held[t] \cup kept
  BY <1>3, <1>4, <1>6 DEF ImageLock, SubLock
<1>11. op = "confirm" => QueuedOf(d) = {} /\ CancelledJobs(d) = NoRows
  <2>1. ASSUME op = "confirm" PROVE QueuedOf(d) = {}
    BY <1>3, <2>1 DEF Closable, QueuedOf, Committed, UnfinishedSlotShowsRunning
  <2> QED BY <2>1 DEF CancelledJobs, NoRows
<1>12. ClosingAt(d, op, at, held[t] \cup kept, {}, Written(closed, aborted, NoRows))
  BY <1>1, <1>3, <1>7, <1>10, <1>11 DEF ClosingAt, at, closed
<1> QED BY <1>1, <1>6, <1>8, <1>9, <1>12, ClosingProceeds

LEMMA CancelJobsSound ==
    ASSUME Committed, Sound, NEW t \in Txs, CancelJobs(t)
    PROVE  Committed' /\ Sound'
<1> DEFINE d == tx[t].on.draft
           op == tx[t].op
           closed == Row(d, ClosedRow(op, d))
           queued == {j \in Jobs : JobLock(j) \in Asked(t) /\ job[j].status = "queued"}
           kept == {JobLock(j) : j \in queued}
           cancelled == [j \in queued |-> Finished(job[j], "cancelled")]
<1>1. op = "cancelDraft" /\ tx[t].at = "jobs" /\ Free(t, Asked(t))
  BY DEF CancelJobs, At
<1>2. Closing(t)
  BY <1>1, OpOfSound DEF Sound
<1>3. /\ d \in Drafts /\ DraftLock(d) \in held[t] /\ draft[d].status \in Closable(op)
      /\ \A j \in Jobs : ImageLock(j) \in held[t] => j \in SlotJobs(draft[d])
      /\ \A s \in OpenOf(d) : SubLock(s) \in held[t]
      /\ tx[t].rows = Written(closed, AbortedSubs(d), NoRows)
  BY <1>1, <1>2 DEF Closing
<1>4. Asked(t) = {JobLock(j) : j \in QueuedOf(d)}
  BY <1>1, <1>2, ClosingAsks
<1>5. QueuedOf(d) \subseteq Jobs
  BY <1>3, SlotJobsAreJobs DEF QueuedOf, Committed, TypeOK
<1>6. queued = QueuedOf(d)
  BY <1>4, <1>5 DEF JobLock, QueuedOf
<1>7. kept = Asked(t)
  BY <1>4, <1>6
<1>8. cancelled = CancelledJobs(d)
  BY <1>6 DEF CancelledJobs, CancelledRow
<1>9. Proceed(t, kept, "images", [tx[t].rows EXCEPT !.job = cancelled])
  BY DEF CancelJobs
<1> HIDE DEF closed, queued, kept, cancelled
<1>10. [tx[t].rows EXCEPT !.job = cancelled] = Written(closed, AbortedSubs(d), cancelled)
  BY <1>3, RowsWritten
<1>11. /\ \A j \in Jobs : ImageLock(j) \in held[t] \cup kept => j \in SlotJobs(draft[d])
       /\ \A j \in QueuedOf(d) : JobLock(j) \in held[t] \cup kept
  BY <1>3, <1>4, <1>7 DEF ImageLock, JobLock
<1>12. ClosingAt(d, op, "images", held[t] \cup kept, {}, Written(closed, AbortedSubs(d), cancelled))
  BY <1>1, <1>3, <1>8, <1>11 DEF ClosingAt, closed
<1> QED BY <1>1, <1>7, <1>9, <1>10, <1>12, ClosingProceeds

LEMMA LockClosedImagesSound ==
    ASSUME Committed, Sound, NEW t \in Txs, LockImages(t), tx[t].op \in {"cancelDraft", "confirm"}
    PROVE  Committed' /\ Sound'
<1> DEFINE d == tx[t].on.draft
           op == tx[t].op
           closed == Row(d, ClosedRow(op, d))
<1>1. tx[t].at = "images" /\ Free(t, Asked(t)) /\ Proceed(t, Asked(t), "stage", tx[t].rows)
  BY DEF LockImages, At
<1>2. Closing(t)
  BY OpOfSound DEF Sound
<1>3. /\ d \in Drafts /\ DraftLock(d) \in held[t] /\ draft[d].status \in Closable(op)
      /\ \A j \in Jobs : ImageLock(j) \in held[t] => j \in SlotJobs(draft[d])
      /\ \A s \in OpenOf(d) : SubLock(s) \in held[t]
      /\ \A j \in QueuedOf(d) : JobLock(j) \in held[t]
      /\ tx[t].rows = Written(closed, AbortedSubs(d), CancelledJobs(d))
  BY <1>1, <1>2 DEF Closing
<1>4. Asked(t) = {ImageLock(j) : j \in SlotJobs(draft[d])}
  BY <1>1, <1>2, ClosingAsks
<1>5. /\ \A j \in Jobs : ImageLock(j) \in held[t] \cup Asked(t) => j \in SlotJobs(draft[d])
      /\ \A j \in SlotJobs(draft[d]) : ImageLock(j) \in held[t] \cup Asked(t)
  BY <1>3, <1>4 DEF ImageLock
<1> HIDE DEF closed
<1>6. ClosingAt(d, op, "stage", held[t] \cup Asked(t), {},
                Written(closed, AbortedSubs(d), CancelledJobs(d)))
  BY <1>3, <1>5 DEF ClosingAt, closed
<1> QED BY <1>1, <1>3, <1>6, ClosingProceeds

(* What the guarded UPDATE of a closing transaction sees, and which images   *)
(* it stages.                                                                *)
LEMMA ClosingSees ==
    ASSUME Committed, NEW t \in Txs, tx[t].op \in {"cancelDraft", "confirm"}, Closing(t),
           tx[t].at = "stage"
    PROVE  LET d == tx[t].on.draft
           IN  /\ {j \in Jobs : /\ ImageLock(j) \in held[t]
                                /\ Deletable(j, DraftsSeen(t), SubsSeen(t), JobsSeen(t))} = StagedOf(d)
               /\ \A j \in QueuedOf(d) \cup StagedOf(d) : JobsSeen(t)[j] = CancelledRow(j)
<1> DEFINE d == tx[t].on.draft
           op == tx[t].op
           row == ClosedRow(op, d)
           aborted == [s \in Submissions |-> [sub[s] EXCEPT !.status = "aborted"]]
           cancelled == [j \in Jobs |-> CancelledRow(j)]
<1>0. /\ TypeOK /\ draft = [i \in Drafts |-> draft[i]] /\ sub = [i \in Submissions |-> sub[i]]
      /\ job = [i \in Jobs |-> job[i]]
  BY DEF Committed, TypeOK
<1>1. /\ d \in Drafts /\ tx[t].rows = Written(Row(d, row), AbortedSubs(d), CancelledJobs(d))
      /\ \A j \in Jobs : ImageLock(j) \in held[t] <=> j \in SlotJobs(draft[d])
  BY DEF Closing
<1>2. SlotJobs(draft[d]) \subseteq Jobs
  BY <1>0, <1>1, SlotJobsAreJobs DEF TypeOK
<1>3. QueuedOf(d) \in SUBSET Jobs /\ OpenOf(d) \in SUBSET Submissions
  BY <1>2 DEF QueuedOf, OpenOf
<1>4. AbortedSubs(d) = [s \in OpenOf(d) |-> aborted[s]]
  BY <1>3 DEF AbortedSubs
<1>5. CancelledJobs(d) = [j \in QueuedOf(d) |-> cancelled[j]]
  BY <1>3 DEF CancelledJobs
<1>6. op \in {"cancelDraft", "confirm"}
  OBVIOUS
<1> HIDE DEF d, op, row, aborted, cancelled
<1>7. DraftsSeen(t) = Over(Row(d, row), draft) /\ SubsSeen(t) = Over(AbortedSubs(d), sub)
      /\ JobsSeen(t) = Over(CancelledJobs(d), job)
  BY <1>1, RowsWritten DEF DraftsSeen, SubsSeen, JobsSeen
<1>8. DraftsSeen(t) = [draft EXCEPT ![d] = row]
  <2>1. Over(Row(d, row), draft) = [draft EXCEPT ![d] = row]
    BY <1>0, <1>1, OverRows
  <2> QED BY <1>7, <2>1
<1>9. SubsSeen(t) = Aborted(d)
  <2> DEFINE open == OpenOf(d)
  <2>1. open \in SUBSET Submissions /\ sub = [s \in Submissions |-> sub[s]]
    BY <1>0, <1>3
  <2> HIDE DEF open
  <2>2. Over([s \in open |-> aborted[s]], sub)
           = [s \in Submissions |-> IF s \in open THEN aborted[s] ELSE sub[s]]
    BY <2>1 DEF Over
  <2>3. SubsSeen(t) = [s \in Submissions |-> IF s \in OpenOf(d) THEN aborted[s] ELSE sub[s]]
    BY <1>4, <1>7, <2>2 DEF open
  <2> QED BY <2>3 DEF Aborted, OpenOf, aborted
<1>10. JobsSeen(t) = [j \in Jobs |-> IF j \in QueuedOf(d) THEN cancelled[j] ELSE job[j]]
  <2> DEFINE queued == QueuedOf(d)
  <2>1. queued \in SUBSET Jobs /\ job = [j \in Jobs |-> job[j]]
    BY <1>0, <1>3
  <2> HIDE DEF queued
  <2>2. Over([j \in queued |-> cancelled[j]], job)
           = [j \in Jobs |-> IF j \in queued THEN cancelled[j] ELSE job[j]]
    BY <2>1 DEF Over
  <2> QED BY <1>5, <1>7, <2>2 DEF queued
<1>11. \A j \in SlotJobs(draft[d]) : JobsSeen(t)[j] = CancelledRow(j)
  BY <1>2, <1>10 DEF cancelled, QueuedOf, CancelledRow
<1>12. \A j \in Jobs : /\ CancelledRow(j).image = job[j].image
                       /\ CancelledRow(j).status \notin Unfinished <=> job[j].status # "running"
  BY <1>0 DEF CancelledRow, TypeOK, JobRow, Finished
<1> DEFINE drafts == DraftsSeen(t)
           subs == SubsSeen(t)
           jobs == JobsSeen(t)
<1> HIDE DEF drafts, subs, jobs
<1>13. ASSUME NEW j \in Jobs, ImageLock(j) \in held[t]
       PROVE  Deletable(j, drafts, subs, jobs) <=> j \in StagedOf(d)
  <2>1. j \in SlotJobs(draft[d])
    BY <1>1, <1>13
  <2>2. Unreferenced(j, drafts, subs, jobs) <=> jobs[j].status \notin Unfinished
    BY <1>1, <1>6, <1>8, <1>9, <2>1, ClosedReleases DEF drafts, subs, row
  <2>3. jobs[j] = CancelledRow(j)
    BY <1>11, <2>1 DEF jobs
  <2> QED BY <1>12, <2>1, <2>2, <2>3 DEF Deletable, StagedOf
<1>14. \A j \in StagedOf(d) : j \in Jobs /\ ImageLock(j) \in held[t]
  BY <1>1, <1>2 DEF StagedOf
<1>15. {j \in Jobs : ImageLock(j) \in held[t] /\ Deletable(j, drafts, subs, jobs)} = StagedOf(d)
  BY <1>13, <1>14
<1>16. \A j \in QueuedOf(d) \cup StagedOf(d) : jobs[j] = CancelledRow(j)
  BY <1>11 DEF QueuedOf, StagedOf, jobs
<1> QED BY <1>15, <1>16 DEF drafts, subs, jobs, d

LEMMA StageClosedSound ==
    ASSUME Committed, Sound, NEW t \in Txs, StageImages(t), tx[t].op \in {"cancelDraft", "confirm"}
    PROVE  Committed' /\ Sound'
<1> DEFINE d == tx[t].on.draft
           op == tx[t].op
           closed == Row(d, ClosedRow(op, d))
           staged == {j \in Jobs : /\ ImageLock(j) \in held[t]
                                   /\ Deletable(j, DraftsSeen(t), SubsSeen(t), JobsSeen(t))}
           written == tx[t].rows.job
           jobs == [j \in DOMAIN written \cup staged |->
                      IF j \in staged THEN [JobsSeen(t)[j] EXCEPT !.image = "delete_pending"]
                                      ELSE written[j]]
<1>1. tx[t].at = "stage" /\ Proceed(t, {}, "commit", [tx[t].rows EXCEPT !.job = jobs])
  BY DEF StageImages, At
<1>2. Closing(t)
  BY OpOfSound DEF Sound
<1>3. /\ d \in Drafts /\ DraftLock(d) \in held[t] /\ draft[d].status \in Closable(op)
      /\ \A j \in Jobs : ImageLock(j) \in held[t] => j \in SlotJobs(draft[d])
      /\ \A s \in OpenOf(d) : SubLock(s) \in held[t]
      /\ \A j \in QueuedOf(d) : JobLock(j) \in held[t]
      /\ \A j \in SlotJobs(draft[d]) : ImageLock(j) \in held[t]
      /\ tx[t].rows = Written(closed, AbortedSubs(d), CancelledJobs(d))
  BY <1>1, <1>2 DEF Closing
<1>4. staged = StagedOf(d) /\ \A j \in QueuedOf(d) \cup StagedOf(d) : JobsSeen(t)[j] = CancelledRow(j)
  BY <1>1, <1>2, ClosingSees
<1>5. written = CancelledJobs(d)
  BY <1>3, RowsWritten
<1>6. jobs = StagedJobs(d)
  <2> HIDE DEF staged, written
  <2>1. DOMAIN written = QueuedOf(d) /\ \A j \in QueuedOf(d) : written[j] = CancelledRow(j)
    BY <1>5 DEF CancelledJobs
  <2>2. jobs = [j \in QueuedOf(d) \cup StagedOf(d) |-> jobs[j]]
    BY <1>4, <2>1
  <2>3. ASSUME NEW j \in QueuedOf(d) \cup StagedOf(d) PROVE jobs[j] = StagedRow(j)
    <3>1. CASE j \in StagedOf(d)
      BY <1>4, <3>1 DEF StagedRow, StagedOf
    <3>2. CASE j \notin StagedOf(d)
      <4>1. j \in QueuedOf(d) /\ job[j].image # "available"
        BY <3>2 DEF StagedOf, QueuedOf
      <4> QED BY <1>4, <2>1, <3>2, <4>1 DEF StagedRow
    <3> QED BY <3>1, <3>2
  <2> HIDE DEF jobs
  <2> QED BY <2>2, <2>3 DEF StagedJobs
<1> HIDE DEF jobs, closed
<1>7. [tx[t].rows EXCEPT !.job = jobs] = Written(closed, AbortedSubs(d), jobs)
  BY <1>3, RowsWritten
<1>8. ClosingAt(d, op, "commit", held[t] \cup {}, {}, Written(closed, AbortedSubs(d), jobs))
  BY <1>3, <1>6 DEF ClosingAt, closed
<1>9. Free(t, {})
  BY DEF Free
<1> QED BY <1>1, <1>7, <1>8, <1>9, ClosingProceeds
----------------------------------------------------------------------------
(* The statements of a sweep.                                                *)

LEMMA BeginSweepSound ==
    ASSUME Committed, Sound, NEW t \in Txs, NEW j \in Jobs, BeginSweep(t, j)
    PROVE  Committed' /\ Sound'
<1> DEFINE on == [job |-> j]
<1>1. job[j].image = "available" /\ Begin(t, "sweep", on, "image")
  BY DEF BeginSweep
<1>2. on.job = j
  OBVIOUS
<1> HIDE DEF on
<1>3. Silent(t)
  BY <1>1, BeginSound
<1>4. /\ tx'[t].op = "sweep" /\ tx'[t].on = on /\ tx'[t].at = "image" /\ tx'[t].wait = {}
      /\ tx'[t].rows = Unwritten /\ held' = held /\ vars' = vars /\ tx[t] = Closedtx
  BY <1>1, AfterBegin DEF Sound
<1>5. tx[t].op = "none"
  BY <1>4 DEF Closedtx
<1>6. held[t] = {}
  BY <1>5 DEF Sound, SoundTx
<1>7. job[j].status # "none"
  BY <1>1 DEF Committed, UnbornImages
<1>8. Sweeping(t)'
  BY <1>2, <1>4, <1>6, <1>7, SameRows DEF Sweeping, Unwritten, NoRows
<1> QED BY <1>3, <1>4, <1>8 DEF SoundTx, Silent

LEMMA SweepBlockSound ==
    ASSUME Committed, Sound, NEW t \in Txs, tx[t].op = "sweep", Block(t)
    PROVE  Committed' /\ Sound'
<1>1. Sweeping(t)
  BY OpOfSound DEF Sound
<1>2. Selected(t) # {} /\ tx[t].at \in {"image", "stage", "commit"}
  BY <1>1 DEF Block, Free, Sweeping
<1>3. tx[t].at = "image" /\ Selected(t) = {ImageLock(tx[t].on.job)}
  BY <1>2, SelectedAt
<1>4. /\ tx'[t].op = tx[t].op /\ tx'[t].on = tx[t].on /\ tx'[t].at = tx[t].at
      /\ tx'[t].wait = Selected(t) /\ tx'[t].rows = tx[t].rows /\ held' = held /\ vars' = vars
  BY <1>3, AfterBlock DEF Sound
<1>5. Sweeping(t)'
  BY <1>1, <1>3, <1>4, SameRows DEF Sweeping, Unwritten, NoRows
<1> QED BY <1>3, <1>4, <1>5, BlockSound DEF SoundTx, Silent

LEMMA LockSweptImageSound ==
    ASSUME Committed, Sound, NEW t \in Txs, LockImages(t), tx[t].op = "sweep"
    PROVE  Committed' /\ Sound'
<1> DEFINE j == tx[t].on.job
<1>1. tx[t].at = "image" /\ Free(t, Asked(t)) /\ Proceed(t, Asked(t), "stage", tx[t].rows)
  BY DEF LockImages, At
<1>2. Sweeping(t) /\ TxShape
  BY OpOfSound DEF Sound
<1>3. /\ j \in Jobs /\ job[j].status # "none" /\ held[t] = {} /\ tx[t].wait \subseteq {ImageLock(j)}
      /\ tx[t].rows = Unwritten
  BY <1>1, <1>2 DEF Sweeping
<1>4. Asked(t) = {ImageLock(j)}
  BY <1>1, <1>3, SelectedAt DEF Asked
<1>5. Unwritten = Written(NoRows, NoRows, NoRows)
  BY RowsWritten
<1>6. Proceed(t, Asked(t), "stage", Written(NoRows, NoRows, NoRows))
  BY <1>1, <1>3, <1>5
<1>7. /\ tx'[t].op = tx[t].op /\ tx'[t].on = tx[t].on /\ tx'[t].at = "stage" /\ tx'[t].wait = {}
      /\ tx'[t].rows = Unwritten /\ held'[t] = held[t] \cup Asked(t) /\ vars' = vars
  BY <1>2, <1>5, <1>6, AfterProceed
<1>8. Silent(t)
  <2>1. \A u \in Txs \ {t} : Asked(t) \cap held[u] = {}
    BY <1>1, FreeParts
  <2> QED BY <1>6, <2>1, ProceedSound
<1>9. Sweeping(t)'
  BY <1>3, <1>4, <1>7, SameRows DEF Sweeping, Unwritten, NoRows
<1> QED BY <1>7, <1>8, <1>9 DEF SoundTx, Silent

LEMMA StageSweptSound ==
    ASSUME Committed, Sound, NEW t \in Txs, StageImages(t), tx[t].op = "sweep"
    PROVE  Committed' /\ Sound'
<1> DEFINE j == tx[t].on.job
           row == [job[j] EXCEPT !.image = "delete_pending"]
           staged == {i \in Jobs : /\ ImageLock(i) \in held[t]
                                   /\ Deletable(i, DraftsSeen(t), SubsSeen(t), JobsSeen(t))}
           written == tx[t].rows.job
           jobs == [i \in DOMAIN written \cup staged |->
                      IF i \in staged THEN [JobsSeen(t)[i] EXCEPT !.image = "delete_pending"]
                                      ELSE written[i]]
<1>1. tx[t].at = "stage" /\ Proceed(t, {}, "commit", [tx[t].rows EXCEPT !.job = jobs])
  BY DEF StageImages, At
<1>2. Sweeping(t) /\ TxShape
  BY OpOfSound DEF Sound
<1>3. /\ j \in Jobs /\ job[j].status # "none" /\ held[t] = {ImageLock(j)}
      /\ tx[t].rows = Unwritten
  BY <1>1, <1>2 DEF Sweeping
<1>4. Unwritten = Written(NoRows, NoRows, NoRows)
  BY RowsWritten
<1>5. DraftsSeen(t) = draft /\ SubsSeen(t) = sub /\ JobsSeen(t) = job
  <2>1. tx[t].rows.draft = NoRows /\ tx[t].rows.sub = NoRows /\ tx[t].rows.job = NoRows
    BY <1>3, <1>4, RowsWritten
  <2>2. /\ draft = [d \in Drafts |-> draft[d]] /\ sub = [s \in Submissions |-> sub[s]]
        /\ job = [i \in Jobs |-> job[i]]
    BY DEF Committed, TypeOK
  <2> QED BY <2>1, <2>2, OverRows DEF DraftsSeen, SubsSeen, JobsSeen
<1>6. \A i \in Jobs : ImageLock(i) \in held[t] <=> i = j
  BY <1>3 DEF ImageLock
<1>7. staged = IF Deletable(j, draft, sub, job) THEN {j} ELSE {}
  BY <1>3, <1>5, <1>6
<1>8. DOMAIN written = {}
  BY <1>3, <1>4, RowsWritten DEF NoRows
<1>9. IF Deletable(j, draft, sub, job) THEN jobs = Row(j, row) ELSE jobs = NoRows
  <2> HIDE DEF staged, written
  <2>1. CASE Deletable(j, draft, sub, job)
    BY <1>5, <1>7, <1>8, <2>1 DEF Row
  <2>2. CASE ~Deletable(j, draft, sub, job)
    BY <1>7, <1>8, <2>2 DEF NoRows
  <2> QED BY <2>1, <2>2
<1> HIDE DEF jobs, row
<1>10. [tx[t].rows EXCEPT !.job = jobs] = Written(NoRows, NoRows, jobs)
  BY <1>3, RowsWritten
<1>11. Proceed(t, {}, "commit", Written(NoRows, NoRows, jobs))
  BY <1>1, <1>10
<1>12. /\ tx'[t].op = tx[t].op /\ tx'[t].on = tx[t].on /\ tx'[t].at = "commit" /\ tx'[t].wait = {}
       /\ tx'[t].rows = Written(NoRows, NoRows, jobs) /\ held'[t] = held[t] /\ vars' = vars
  <2> DEFINE kept == {}
  <2>1. Proceed(t, kept, "commit", Written(NoRows, NoRows, jobs)) /\ TxShape
    BY <1>2, <1>11
  <2>2. held[t] \cup kept = held[t]
    OBVIOUS
  <2> DEFINE at == "commit"
  <2>3. Proceed(t, kept, at, Written(NoRows, NoRows, jobs)) /\ TxShape
    BY <2>1
  <2> HIDE DEF kept, at
  <2>4. /\ tx'[t].op = tx[t].op /\ tx'[t].on = tx[t].on /\ tx'[t].at = at /\ tx'[t].wait = {}
        /\ tx'[t].rows = Written(NoRows, NoRows, jobs) /\ held'[t] = held[t] \cup kept /\ vars' = vars
    BY <2>3, AfterProceed
  <2> QED BY <2>2, <2>4 DEF at
<1>13. Silent(t)
  BY <1>11, ProceedSound
<1>14. \/ tx'[t].rows = Unwritten
       \/ Deletable(j, draft, sub, job) /\ tx'[t].rows = Written(NoRows, NoRows, Row(j, row))
  BY <1>4, <1>9, <1>12
<1>15. Sweeping(t)'
  <2>1. draft' = draft /\ sub' = sub /\ job' = job
    BY <1>12, SameRows
  <2>2. Deletable(j, draft', sub', job') <=> Deletable(j, draft, sub, job)
    BY <2>1
  <2>3. Unwritten' = Unwritten
    BY DEF Unwritten, NoRows
  <2> QED BY <1>3, <1>12, <1>14, <2>1, <2>2, <2>3 DEF Sweeping, row
<1> QED BY <1>12, <1>13, <1>15 DEF SoundTx, Silent
----------------------------------------------------------------------------
(* The statements that register a job.                                       *)

StoringAt(s, k, j, at, locks, wait, rows) ==
    LET d == sub[s].draft
    IN  /\ s \in Submissions /\ k \in Slots /\ j \in Jobs
        /\ sub[s].status # "none" /\ job[j].status = "none"
        /\ at \in {"row", "sub", "image", "gate", "commit"}
        /\ at # "commit" => rows = Unwritten
        /\ at = "row" => locks = {} /\ wait \subseteq {DraftLock(d)}
        /\ at # "row" => DraftLock(d) \in locks
        /\ at = "sub" => wait \subseteq {SubLock(s)}
        /\ at \in {"image", "gate", "commit"} =>
              /\ SubLock(s) \in locks
              /\ sub[s].status = "open" /\ sub[s].members[k] = "pending" /\ Attachable(d, k)
        /\ at = "image" => wait \subseteq {ImageLock(j)}
        /\ at = "gate" => wait \subseteq {Gate}
        /\ at = "commit" =>
              /\ wait = {} /\ Gate \in locks /\ ~sub[s].late
              /\ Cardinality(ActiveJobs) < ActiveLimit
              /\ rows = Written(Row(d, StoredDraft(d, k, j)), Row(s, StoredSub(s, k, j)),
                                Row(j, QueuedJob))

LEMMA StoringHolds ==
    ASSUME NEW t
    PROVE  Storing(t) <=> /\ "draft" \notin DOMAIN tx[t].on
                          /\ StoringAt(tx[t].on.sub, tx[t].on.slot, tx[t].on.job, tx[t].at, held[t],
                                       tx[t].wait, tx[t].rows)
BY DEF Storing, StoringAt

LEMMA SameStoring ==
    ASSUME vars' = vars
    PROVE  /\ \A d, k : Attachable(d, k)' <=> Attachable(d, k)
           /\ \A d, k, j : StoredDraft(d, k, j)' = StoredDraft(d, k, j)
           /\ \A s, k, j : StoredSub(s, k, j)' = StoredSub(s, k, j)
           /\ ActiveJobs' = ActiveJobs /\ QueuedJob' = QueuedJob /\ Unwritten' = Unwritten
           /\ Cardinality(ActiveJobs)' = Cardinality(ActiveJobs)
<1>1. draft' = draft /\ sub' = sub /\ job' = job
  BY DEF vars
<1>2. \A d, k : Attachable(d, k)' <=> Attachable(d, k)
  BY <1>1 DEF Attachable
<1>3. \A d, k, j : StoredDraft(d, k, j)' = StoredDraft(d, k, j)
  BY <1>1 DEF StoredDraft
<1>4. \A s, k, j : StoredSub(s, k, j)' = StoredSub(s, k, j)
  BY <1>1 DEF StoredSub
<1>5. ActiveJobs' = ActiveJobs
  BY <1>1 DEF ActiveJobs
<1>6. QueuedJob' = QueuedJob /\ Unwritten' = Unwritten
  BY DEF QueuedJob, NewJob, Unwritten, NoRows
<1> QED BY <1>2, <1>3, <1>4, <1>5, <1>6

LEMMA StoringNext ==
    ASSUME vars' = vars, NEW t \in Txs, tx'[t].on = tx[t].on, "draft" \notin DOMAIN tx[t].on,
           NEW at, NEW wait, NEW rows, NEW locks,
           tx'[t].at = at, tx'[t].wait = wait, tx'[t].rows = rows, held'[t] = locks,
           StoringAt(tx[t].on.sub, tx[t].on.slot, tx[t].on.job, at, locks, wait, rows)
    PROVE  Storing(t)'
<1> DEFINE s == tx[t].on.sub
           k == tx[t].on.slot
           j == tx[t].on.job
           d == sub[s].draft
<1>1. s' = s /\ k' = k /\ j' = j /\ d' = d /\ sub' = sub /\ job' = job
  BY SameRows
<1> HIDE DEF s, k, j
<1>2. StoringAt(s, k, j, at, locks, wait, rows)
  BY DEF s, k, j
<1> HIDE DEF d
<1>3. /\ Attachable(d, k)' <=> Attachable(d, k)
      /\ StoredDraft(d, k, j)' = StoredDraft(d, k, j) /\ StoredSub(s, k, j)' = StoredSub(s, k, j)
  BY <1>1, SameStoring
<1> QED BY <1>1, <1>2, <1>3, SameStoring DEF Storing, StoringAt, s, k, j, d

LEMMA StoringProceeds ==
    ASSUME Committed, Sound, NEW t \in Txs, tx[t].op = "store",
           NEW kept, NEW at, NEW drafts, NEW subs, NEW jobs,
           Proceed(t, kept, at, Written(drafts, subs, jobs)), kept \subseteq Asked(t),
           Free(t, Asked(t)),
           StoringAt(tx[t].on.sub, tx[t].on.slot, tx[t].on.job, at, held[t] \cup kept, {},
                     Written(drafts, subs, jobs))
    PROVE  Committed' /\ Sound'
<1>1. "draft" \notin DOMAIN tx[t].on
  BY OpOfSound DEF Sound, Storing
<1>2. TxShape
  BY DEF Sound
<1>3. /\ tx'[t].op = tx[t].op /\ tx'[t].on = tx[t].on /\ tx'[t].at = at /\ tx'[t].wait = {}
      /\ tx'[t].rows = Written(drafts, subs, jobs) /\ held'[t] = held[t] \cup kept /\ vars' = vars
  BY <1>2, AfterProceed
<1>4. Silent(t)
  <2>1. \A u \in Txs \ {t} : kept \cap held[u] = {}
    BY FreeParts
  <2> QED BY <2>1, ProceedSound
<1>5. Storing(t)'
  BY <1>1, <1>3, StoringNext
<1> QED BY <1>3, <1>4, <1>5 DEF SoundTx, Silent

LEMMA StoringAsks ==
    ASSUME NEW t \in Txs, Storing(t)
    PROVE  LET s == tx[t].on.sub
           IN  /\ tx[t].at = "row" => /\ Selected(t) = {DraftLock(sub[s].draft)}
                                      /\ Asked(t) = {DraftLock(sub[s].draft)}
               /\ tx[t].at = "sub" => Selected(t) = {SubLock(s)} /\ Asked(t) = {SubLock(s)}
               /\ tx[t].at = "image" => /\ Selected(t) = {ImageLock(tx[t].on.job)}
                                        /\ Asked(t) = {ImageLock(tx[t].on.job)}
               /\ tx[t].at = "gate" => Selected(t) = {Gate} /\ Asked(t) = {Gate}
<1> DEFINE s == tx[t].on.sub
           j == tx[t].on.job
<1>1. /\ tx[t].at = "row" => Selected(t) = {DraftLock(sub[s].draft)}
      /\ tx[t].at = "sub" => Selected(t) = {SubLock(s)}
      /\ tx[t].at = "image" => Selected(t) = {ImageLock(j)}
      /\ tx[t].at = "gate" => Selected(t) = {Gate}
  BY SelectedAt DEF Storing, RowDraft
<1>2. /\ tx[t].at = "row" => tx[t].wait \subseteq {DraftLock(sub[s].draft)}
      /\ tx[t].at = "sub" => tx[t].wait \subseteq {SubLock(s)}
      /\ tx[t].at = "image" => tx[t].wait \subseteq {ImageLock(j)}
      /\ tx[t].at = "gate" => tx[t].wait \subseteq {Gate}
  BY DEF Storing
<1> HIDE DEF s, j
<1> QED BY <1>1, <1>2 DEF Asked, s, j

LEMMA BeginStoreSound ==
    ASSUME Committed, Sound, NEW t \in Txs, NEW s \in Submissions, NEW k \in Slots, NEW j \in Jobs,
           BeginStore(t, s, k, j)
    PROVE  Committed' /\ Sound'
<1> DEFINE on == [sub |-> s, slot |-> k, job |-> j]
<1>1. /\ sub[s].status # "none" /\ job[j].status = "none" /\ Begin(t, "store", on, "row")
      /\ \A u \in Txs : tx[u].op = "store" => tx[u].on.job # on.job
  BY DEF BeginStore
<1>2. on.sub = s /\ on.slot = k /\ on.job = j /\ "draft" \notin DOMAIN on
  OBVIOUS
<1> HIDE DEF on
<1>3. Silent(t)
  BY <1>1, BeginSound
<1>4. /\ tx'[t].op = "store" /\ tx'[t].on = on /\ tx'[t].at = "row" /\ tx'[t].wait = {}
      /\ tx'[t].rows = Unwritten /\ held' = held /\ vars' = vars /\ tx[t] = Closedtx
  BY <1>1, AfterBegin DEF Sound
<1>5. tx[t].op = "none"
  BY <1>4 DEF Closedtx
<1>6. held[t] = {}
  BY <1>5 DEF Sound, SoundTx
<1>7. Storing(t)'
  BY <1>1, <1>2, <1>4, <1>6, SameRows DEF Storing, Unwritten, NoRows
<1> QED BY <1>3, <1>4, <1>7 DEF SoundTx, Silent

LEMMA StoringBlockSound ==
    ASSUME Committed, Sound, NEW t \in Txs, tx[t].op = "store", Block(t)
    PROVE  Committed' /\ Sound'
<1> DEFINE s == tx[t].on.sub
           k == tx[t].on.slot
           j == tx[t].on.job
           at == tx[t].at
<1>1. Storing(t)
  BY OpOfSound DEF Sound
<1>2. StoringAt(s, k, j, at, held[t], tx[t].wait, tx[t].rows) /\ "draft" \notin DOMAIN tx[t].on
  BY <1>1, StoringHolds
<1>3. at \notin {"stage", "commit", "sync"}
  <2>1. Selected(t) # {}
    BY DEF Block, Free
  <2> QED BY <1>2, <2>1, SelectedAt DEF StoringAt
<1>4. /\ tx'[t].op = tx[t].op /\ tx'[t].on = tx[t].on
      /\ tx'[t].at = at /\ tx'[t].wait = Selected(t) /\ tx'[t].rows = tx[t].rows
      /\ held' = held /\ vars' = vars
  BY <1>3, AfterBlock DEF Sound
<1>5. StoringAt(s, k, j, at, held[t], Selected(t), tx[t].rows)
  BY <1>1, <1>2, <1>3, StoringAsks DEF StoringAt
<1>6. Storing(t)'
  BY <1>2, <1>4, <1>5, StoringNext
<1> QED BY <1>3, <1>4, <1>6, BlockSound DEF Silent, SoundTx

LEMMA LockStoredRowSound ==
    ASSUME Committed, Sound, NEW t \in Txs, LockRow(t), tx[t].op = "store"
    PROVE  Committed' /\ Sound'
<1> DEFINE s == tx[t].on.sub
           k == tx[t].on.slot
           j == tx[t].on.job
<1>1. tx[t].at = "row" /\ Free(t, Asked(t)) /\ Proceed(t, Asked(t), "sub", Unwritten)
  BY DEF LockRow, At
<1>2. Storing(t)
  BY OpOfSound DEF Sound
<1>3. /\ s \in Submissions /\ k \in Slots /\ j \in Jobs
      /\ sub[s].status # "none" /\ job[j].status = "none"
  BY <1>2 DEF Storing
<1>4. DraftLock(sub[s].draft) \in held[t] \cup Asked(t)
  BY <1>1, <1>2, StoringAsks
<1>5. Unwritten = Written(NoRows, NoRows, NoRows)
  BY RowsWritten
<1>6. StoringAt(s, k, j, "sub", held[t] \cup Asked(t), {}, Written(NoRows, NoRows, NoRows))
  BY <1>3, <1>4, <1>5 DEF StoringAt
<1> QED BY <1>1, <1>5, <1>6, StoringProceeds

LEMMA CheckMemberSound ==
    ASSUME Committed, Sound, NEW t \in Txs, CheckMember(t)
    PROVE  Committed' /\ Sound'
<1> DEFINE s == tx[t].on.sub
           k == tx[t].on.slot
           j == tx[t].on.job
<1>1. /\ tx[t].op = "store" /\ tx[t].at = "sub" /\ Free(t, Asked(t))
      /\ sub[s].status = "open" /\ sub[s].members[k] = "pending" /\ Attachable(sub[s].draft, k)
      /\ Proceed(t, Asked(t), "image", Unwritten)
  BY DEF CheckMember, At
<1>2. Storing(t)
  BY <1>1, OpOfSound DEF Sound
<1>3. /\ s \in Submissions /\ k \in Slots /\ j \in Jobs /\ job[j].status = "none"
      /\ DraftLock(sub[s].draft) \in held[t]
  BY <1>1, <1>2 DEF Storing
<1>4. SubLock(s) \in held[t] \cup Asked(t)
  BY <1>1, <1>2, StoringAsks
<1>5. Unwritten = Written(NoRows, NoRows, NoRows)
  BY RowsWritten
<1>6. StoringAt(s, k, j, "image", held[t] \cup Asked(t), {}, Written(NoRows, NoRows, NoRows))
  BY <1>1, <1>3, <1>4, <1>5 DEF StoringAt
<1> QED BY <1>1, <1>5, <1>6, StoringProceeds

LEMMA LockStoreImageSound ==
    ASSUME Committed, Sound, NEW t \in Txs, LockStoreImage(t)
    PROVE  Committed' /\ Sound'
<1> DEFINE s == tx[t].on.sub
           k == tx[t].on.slot
           j == tx[t].on.job
<1>1. /\ tx[t].op = "store" /\ tx[t].at = "image" /\ Free(t, Asked(t))
      /\ Proceed(t, Asked(t), "gate", Unwritten)
  BY DEF LockStoreImage, At
<1>2. Storing(t)
  BY <1>1, OpOfSound DEF Sound
<1>3. /\ s \in Submissions /\ k \in Slots /\ j \in Jobs /\ job[j].status = "none"
      /\ DraftLock(sub[s].draft) \in held[t] /\ SubLock(s) \in held[t]
      /\ sub[s].status = "open" /\ sub[s].members[k] = "pending" /\ Attachable(sub[s].draft, k)
  BY <1>1, <1>2 DEF Storing
<1>4. Unwritten = Written(NoRows, NoRows, NoRows)
  BY RowsWritten
<1>5. StoringAt(s, k, j, "gate", held[t] \cup Asked(t), {}, Written(NoRows, NoRows, NoRows))
  BY <1>3, <1>4 DEF StoringAt
<1> QED BY <1>1, <1>4, <1>5, StoringProceeds

LEMMA InsertJobSound ==
    ASSUME Committed, Sound, NEW t \in Txs, InsertJob(t)
    PROVE  Committed' /\ Sound'
<1> DEFINE s == tx[t].on.sub
           k == tx[t].on.slot
           j == tx[t].on.job
           d == sub[s].draft
           drafts == Row(d, StoredDraft(d, k, j))
           subs == Row(s, StoredSub(s, k, j))
           jobs == Row(j, QueuedJob)
<1>1. /\ tx[t].op = "store" /\ tx[t].at = "gate" /\ Free(t, Asked(t))
      /\ ~sub[s].late /\ Cardinality(ActiveJobs) < ActiveLimit
  BY DEF InsertJob, At
<1>2. Storing(t)
  BY <1>1, OpOfSound DEF Sound
<1>3. /\ s \in Submissions /\ k \in Slots /\ j \in Jobs /\ job[j].status = "none"
      /\ DraftLock(d) \in held[t] /\ SubLock(s) \in held[t]
      /\ sub[s].status = "open" /\ sub[s].members[k] = "pending" /\ Attachable(d, k)
  BY <1>1, <1>2 DEF Storing
<1>4. Gate \in held[t] \cup Asked(t)
  BY <1>1, <1>2, StoringAsks
<1>5. Proceed(t, Asked(t), "commit", Written(drafts, subs, jobs))
  <2>1. drafts = Row(d, [draft[d] EXCEPT !.status = "ocr_running", !.slots[k] = j])
        /\ subs = Row(s, [sub[s] EXCEPT !.members[k] = j])
    BY DEF StoredDraft, StoredSub
  <2>2. Proceed(t, Asked(t), "commit",
           [job |-> Row(j, QueuedJob),
            draft |-> Row(d, [draft[d] EXCEPT !.status = "ocr_running", !.slots[k] = j]),
            sub |-> Row(s, [sub[s] EXCEPT !.members[k] = j])])
    BY Zenon DEF InsertJob
  <2>3. Proceed(t, Asked(t), "commit", [job |-> jobs, draft |-> drafts, sub |-> subs])
    BY <2>1, <2>2, Zenon DEF jobs
  <2> HIDE DEF drafts, subs, jobs
  <2>4. [job |-> jobs, draft |-> drafts, sub |-> subs] = Written(drafts, subs, jobs)
    BY DEF Written
  <2> QED BY <2>3, <2>4
<1> HIDE DEF d
<1>6. StoringAt(s, k, j, "commit", held[t] \cup Asked(t), {}, Written(drafts, subs, jobs))
  <2> HIDE DEF drafts, subs, jobs
  <2> QED BY <1>1, <1>3, <1>4 DEF StoringAt, drafts, subs, jobs, d
<1> HIDE DEF drafts, subs, jobs
<1> QED BY <1>1, <1>5, <1>6, StoringProceeds
----------------------------------------------------------------------------
(* The statements of a settlement.                                           *)

LEMMA SameSettledRows == vars' = vars => \A s : SettledRows(s)' = SettledRows(s)
<1> SUFFICES ASSUME vars' = vars PROVE \A s : SettledRows(s)' = SettledRows(s)
  OBVIOUS
<1>1. draft' = draft /\ sub' = sub /\ job' = job
  BY DEF vars
<1>2. \A s, d : ProjectEmptyDraft(s, d)' = ProjectEmptyDraft(s, d)
  BY <1>1 DEF ProjectEmptyDraft, OpenSubmissions
<1>3. \A members : Outstanding(members)' = Outstanding(members)
  BY <1>1 DEF Outstanding
<1>4. ASSUME NEW s PROVE SettledRows(s)' = SettledRows(s)
  <2> DEFINE members == Expired(sub[s].members, sub[s].late)
             d == sub[s].draft
  <2>1. members' = members /\ d' = d
    BY <1>1
  <2> HIDE DEF members, d
  <2>2. Outstanding(members)' = Outstanding(members)
        /\ ProjectEmptyDraft(s, d)' = ProjectEmptyDraft(s, d)
    BY <1>2, <1>3, <2>1
  <2>3. NoRows' = NoRows
    BY DEF NoRows
  <2> DEFINE rows == IF draft[d].status \notin NonTerminalDraft
                     THEN Written(NoRows, Row(s, [sub[s] EXCEPT !.status = "aborted"]), NoRows)
                     ELSE IF Outstanding(members) # {}
                     THEN Written(NoRows, Row(s, [sub[s] EXCEPT !.members = members]), NoRows)
                     ELSE Written(Row(d, ProjectEmptyDraft(s, d)[d]),
                            Row(s, [sub[s] EXCEPT !.members = members, !.status = "settled"]), NoRows)
  <2>4. rows' = rows
    BY <1>1, <2>1, <2>2, <2>3, Zenon DEF Written, Row
  <2>5. SettledRows(s) = rows
    BY Zenon DEF SettledRows, members, d
  <2>6. SettledRows(s)' = rows'
    BY Zenon DEF SettledRows, members, d
  <2> QED BY <2>4, <2>5, <2>6
<1> QED BY <1>4

LEMMA BeginSettleSound ==
    ASSUME Committed, Sound, NEW t \in Txs, NEW s \in Submissions, BeginSettle(t, s)
    PROVE  Committed' /\ Sound'
<1> DEFINE on == [sub |-> s]
<1>1. sub[s].status = "open" /\ Begin(t, "settle", on, "row")
  BY DEF BeginSettle
<1>2. on.sub = s /\ "draft" \notin DOMAIN on
  OBVIOUS
<1> HIDE DEF on
<1>3. Silent(t)
  BY <1>1, BeginSound
<1>4. /\ tx'[t].op = "settle" /\ tx'[t].on = on /\ tx'[t].at = "row" /\ tx'[t].wait = {}
      /\ tx'[t].rows = Unwritten /\ held' = held /\ vars' = vars /\ tx[t] = Closedtx
  BY <1>1, AfterBegin DEF Sound
<1>5. tx[t].op = "none"
  BY <1>4 DEF Closedtx
<1>6. held[t] = {}
  BY <1>5 DEF Sound, SoundTx
<1>7. Settling(t)'
  BY <1>1, <1>2, <1>4, <1>6, SameRows DEF Settling, Unwritten, NoRows
<1> QED BY <1>3, <1>4, <1>7 DEF SoundTx, Silent

LEMMA LockSettledRowSound ==
    ASSUME Committed, Sound, NEW t \in Txs, LockRow(t), tx[t].op = "settle"
    PROVE  Committed' /\ Sound'
<1> DEFINE s == tx[t].on.sub
<1>1. tx[t].at = "row" /\ Free(t, Asked(t)) /\ Proceed(t, Asked(t), "sub", Unwritten)
  BY DEF LockRow, At
<1>2. Settling(t) /\ TxShape
  BY OpOfSound DEF Sound
<1>3. /\ "draft" \notin DOMAIN tx[t].on /\ s \in Submissions /\ sub[s].status # "none"
      /\ tx[t].wait = {}
  BY <1>2 DEF Settling
<1>4. Asked(t) = {DraftLock(sub[s].draft)}
  BY <1>1, <1>3, SelectedAt DEF Asked, RowDraft
<1>5. Unwritten = Written(NoRows, NoRows, NoRows)
  BY RowsWritten
<1>6. Proceed(t, Asked(t), "sub", Written(NoRows, NoRows, NoRows))
  BY <1>1, <1>5
<1>7. /\ tx'[t].op = tx[t].op /\ tx'[t].on = tx[t].on /\ tx'[t].at = "sub" /\ tx'[t].wait = {}
      /\ tx'[t].rows = Unwritten /\ held'[t] = held[t] \cup Asked(t) /\ vars' = vars
  BY <1>2, <1>5, <1>6, AfterProceed
<1>8. Silent(t)
  <2>1. \A u \in Txs \ {t} : Asked(t) \cap held[u] = {}
    BY <1>1, FreeParts
  <2> QED BY <1>6, <2>1, ProceedSound
<1>9. Settling(t)'
  BY <1>3, <1>4, <1>7, SameRows DEF Settling, Unwritten, NoRows
<1> QED BY <1>7, <1>8, <1>9 DEF SoundTx, Silent

LEMMA SubWritten ==
    ASSUME NEW x, NEW y
    PROVE  /\ [Unwritten EXCEPT !.sub = x] = Written(NoRows, x, NoRows)
           /\ [[Unwritten EXCEPT !.sub = x] EXCEPT !.draft = y] = Written(y, x, NoRows)
<1>1. Unwritten = Written(NoRows, NoRows, NoRows)
  BY RowsWritten
<1>2. [Written(NoRows, NoRows, NoRows) EXCEPT !.sub = x] = Written(NoRows, x, NoRows)
  BY RowsWritten
<1>3. [Written(NoRows, x, NoRows) EXCEPT !.draft = y] = Written(y, x, NoRows)
  BY RowsWritten
<1> QED BY <1>1, <1>2, <1>3

LEMMA SettleSubSound ==
    ASSUME Committed, Sound, NEW t \in Txs, SettleSub(t)
    PROVE  Committed' /\ Sound'
<1> DEFINE s == tx[t].on.sub
           d == sub[s].draft
           members == Expired(sub[s].members, sub[s].late)
           aborted == Row(s, [sub[s] EXCEPT !.status = "aborted"])
           waiting == Row(s, [sub[s] EXCEPT !.members = members])
           settled == Row(s, [sub[s] EXCEPT !.members = members, !.status = "settled"])
           shown == Row(d, ProjectEmptyDraft(s, d)[d])
           rows == IF draft[d].status \notin NonTerminalDraft
                   THEN [Unwritten EXCEPT !.sub = aborted]
                   ELSE IF Outstanding(members) # {}
                   THEN [Unwritten EXCEPT !.sub = waiting]
                   ELSE [[Unwritten EXCEPT !.sub = settled] EXCEPT !.draft = shown]
<1> HIDE DEF aborted, waiting, settled, shown, members, rows
<1>1. /\ tx[t].op = "settle" /\ tx[t].at = "sub" /\ Free(t, Asked(t)) /\ sub[s].status = "open"
      /\ Proceed(t, Asked(t), "commit", rows)
  BY Zenon DEF SettleSub, At, aborted, waiting, settled, shown, members, rows
<1>2. Settling(t) /\ TxShape
  BY <1>1, OpOfSound DEF Sound
<1>3. /\ "draft" \notin DOMAIN tx[t].on /\ s \in Submissions
      /\ tx[t].wait = {} /\ DraftLock(d) \in held[t]
  BY <1>1, <1>2 DEF Settling
<1>4. Asked(t) = {SubLock(s)}
  BY <1>1, <1>3, SelectedAt DEF Asked
<1>5. SettledRows(s) = IF draft[d].status \notin NonTerminalDraft
                       THEN Written(NoRows, aborted, NoRows)
                       ELSE IF Outstanding(members) # {}
                       THEN Written(NoRows, waiting, NoRows)
                       ELSE Written(shown, settled, NoRows)
  BY Zenon DEF SettledRows, aborted, waiting, settled, shown, members
<1>6. rows = SettledRows(s)
  BY <1>5, SubWritten DEF rows
<1>7. SettledRows(s) = Written(SettledRows(s).draft, SettledRows(s).sub, SettledRows(s).job)
  BY <1>5, RowsWritten
<1> DEFINE drafts == SettledRows(s).draft
           subs == SettledRows(s).sub
           jobs == SettledRows(s).job
<1>8. Proceed(t, Asked(t), "commit", Written(drafts, subs, jobs))
  BY <1>1, <1>6, <1>7
<1> HIDE DEF drafts, subs, jobs
<1>9. /\ tx'[t].op = tx[t].op /\ tx'[t].on = tx[t].on /\ tx'[t].at = "commit" /\ tx'[t].wait = {}
      /\ tx'[t].rows = Written(drafts, subs, jobs) /\ held'[t] = held[t] \cup Asked(t)
      /\ vars' = vars
  BY <1>2, <1>8, AfterProceed
<1>10. Silent(t)
  <2>1. \A u \in Txs \ {t} : Asked(t) \cap held[u] = {}
    BY <1>1, FreeParts
  <2> QED BY <1>8, <2>1, ProceedSound
<1>11. tx'[t].rows = SettledRows(s)'
  <2>1. s' = s
    BY <1>9
  <2> HIDE DEF s
  <2>2. SettledRows(s)' = SettledRows(s)
    BY <1>9, <2>1, SameSettledRows
  <2> QED BY <1>7, <1>9, <2>2 DEF drafts, subs, jobs
<1>12. Settling(t)'
  <2>1. draft' = draft /\ sub' = sub
    BY <1>9, SameRows
  <2>2. s' = tx'[t].on.sub /\ s' = s
    BY <1>9
  <2> HIDE DEF members
  <2> QED BY <1>1, <1>3, <1>4, <1>9, <1>11, <2>1, <2>2 DEF Settling
<1> QED BY <1>1, <1>9, <1>10, <1>12 DEF SoundTx, Silent
----------------------------------------------------------------------------
(* Only a registration makes a job unfinished, under the guard of the limit. *)

LEMMA WhoStarts ==
    ASSUME TypeOK, [Next]_vars, NEW j \in Jobs, job[j].status \notin Unfinished,
           job'[j].status \in Unfinished
    PROVE  \E s \in Submissions, k \in Slots : StoreJob(s, k, j)
<1>1. job[j].status = "none"
  <2>1. RestingStep(job[j], job'[j])
    BY RestingRows
  <2>2. job[j] \in JobRow
    BY DEF TypeOK
  <2>3. [job[j] EXCEPT !.image = "delete_pending"].status = job[j].status
    BY <2>2 DEF JobRow
  <2> QED BY <2>1, <2>3 DEF RestingStep
<1>2. SUFFICES ASSUME \A s \in Submissions, k \in Slots : ~StoreJob(s, k, j)
               PROVE  job'[j].status \notin Unfinished
  OBVIOUS
<1>3. ASSUME NEW images, NEW drafts, NEW subs, NEW jobs, jobs[j] = job[j],
             job' = StageDeletion(images, drafts, subs, jobs)
      PROVE  job'[j].status \notin Unfinished
  BY <1>1, <1>3 DEF StageDeletion, TypeOK, JobRow
<1>4. ASSUME NEW d \in Drafts, CancelDraft(d) \/ ConfirmDraft(d)
      PROVE  job'[j].status \notin Unfinished
  <2>1. CancelQueuedIn(draft[d])[j] = job[j]
    BY DEF CancelQueuedIn
  <2> QED BY <1>3, <1>4, <2>1 DEF CancelDraft, ConfirmDraft
<1>5. ASSUME NEW i \in Jobs, NEW row, job' = [job EXCEPT ![i] = row],
             row.status \notin Unfinished \/ i # j
      PROVE  job'[j].status \notin Unfinished
  BY <1>1, <1>5 DEF TypeOK
<1>6. ASSUME NEW i \in Jobs, SweepImage(i) PROVE job'[j].status \notin Unfinished
  BY <1>1, <1>6 DEF SweepImage, TypeOK, JobRow
<1>7. ASSUME NEW s \in Submissions, NEW k \in Slots, NEW i \in Jobs, StoreJob(s, k, i)
      PROVE  job'[j].status \notin Unfinished
  <2>1. i # j
    BY <1>2, <1>7
  <2> QED BY <1>1, <1>7, <2>1 DEF StoreJob, TypeOK
<1>8. ASSUME NEW i \in Jobs, CancelQueued(i) \/ ReapStale(i) \/ LeaseAges(i) \/ BecomesDue(i)
                               \/ JobAges(i)
      PROVE  job'[j].status \notin Unfinished
  <2>1. job[i].status \in Unfinished
    BY <1>8 DEF CancelQueued, ReapStale, Reapable, LeaseAges, BecomesDue, JobAges
  <2>2. \A k \in Jobs \ {i} : job'[k] = job[k]
    BY <1>8 DEF CancelQueued, ReapStale, Finish, LeaseAges, BecomesDue, JobAges, TypeOK
  <2> QED BY <1>1, <2>1, <2>2
<1>9. ASSUME NEW i \in Jobs, Recover(i) \/ \E w \in Workers : Claim(w, i)
      PROVE  job'[j].status \notin Unfinished
  <2>1. Recovered(job[i]) = job[i] \/ job[i].status = "running"
    BY DEF Recovered
  <2>2. job[i].status \in Unfinished
    BY <1>9, <2>1 DEF Recover, Claim
  <2>3. PICK row : job' = [job EXCEPT ![i] = row]
    BY <1>9 DEF Recover, Claim
  <2> QED BY <1>1, <1>5, <2>2, <2>3
<1>10. ASSUME NEW w \in Workers, Heartbeat(w) \/ AttemptEnds(w)
      PROVE  job'[j].status \notin Unfinished
  <2>1. \/ job' = job
        \/ /\ attempt[w].job \in Jobs /\ job[attempt[w].job].status \in Unfinished
           /\ \A i \in Jobs \ {attempt[w].job} : job'[i] = job[i]
    BY <1>10 DEF Heartbeat, AttemptEnds, FinishSuccess, FinishFailure, RequeueTransient,
                RequeueInterrupted, OwnerLost, Abandon, Finish, Owned, TypeOK
  <2> QED BY <1>1, <2>1
<1>11. job' = job => job'[j].status \notin Unfinished
  BY <1>1
<1>12. CASE UserNext
  BY <1>4, <1>6, <1>7, <1>8, <1>11, <1>12
     DEF UserNext, CreateDraft, UpdateDraft, DeleteMatch, PutSubmission, FailAdmission
<1>13. CASE WorkerNext
  BY <1>8, <1>9, <1>10, <1>11, <1>13 DEF WorkerNext, Settle
<1>14. CASE TimeNext \/ UNCHANGED vars
  BY <1>8, <1>11, <1>14 DEF TimeNext, DeadlinePasses, vars
<1> QED BY <1>12, <1>13, <1>14 DEF Next

LEMMA ActivesStep ==
    ASSUME TypeOK, [Next]_vars, IsFiniteSet(ActiveJobs)
    PROVE  /\ IsFiniteSet(ActiveJobs)'
           /\ Cardinality(ActiveJobs) <= ActiveLimit => Cardinality(ActiveJobs)' <= ActiveLimit
<1>1. ActiveLimit \in Nat /\ Cardinality(ActiveJobs) \in Nat
  BY LimitsAssumption, FS_CardinalityType
<1>2. CASE ActiveJobs' \subseteq ActiveJobs
  <2>1. IsFiniteSet(ActiveJobs') /\ Cardinality(ActiveJobs') <= Cardinality(ActiveJobs)
    BY <1>2, FS_Subset
  <2>2. Cardinality(ActiveJobs') \in Nat
    BY <2>1, FS_CardinalityType
  <2> QED BY <1>1, <2>1, <2>2
<1>3. CASE ~(ActiveJobs' \subseteq ActiveJobs)
  <2>1. PICK j \in Jobs : job[j].status \notin Unfinished /\ job'[j].status \in Unfinished
    BY <1>3 DEF ActiveJobs
  <2>2. PICK s \in Submissions, k \in Slots : StoreJob(s, k, j)
    BY <2>1, WhoStarts
  <2>3. Cardinality(ActiveJobs) < ActiveLimit
    BY <2>2 DEF StoreJob
  <2>4. ActiveJobs' = ActiveJobs \cup {j}
    BY <2>1, <2>2 DEF StoreJob, ActiveJobs, TypeOK
  <2>5. j \notin ActiveJobs
    BY <2>1 DEF ActiveJobs
  <2>6. IsFiniteSet(ActiveJobs') /\ Cardinality(ActiveJobs') = Cardinality(ActiveJobs) + 1
    BY <2>4, <2>5, FS_AddElement
  <2> QED BY <1>1, <2>3, <2>6
<1> QED BY <1>2, <1>3
----------------------------------------------------------------------------
(* A commit is one action of OcrPipeline, under the locks of its session.    *)

LEMMA CommitSound ==
    ASSUME Committed, Sound, NEW t \in Txs, Commit(t)
    PROVE  Committed' /\ Sound' /\ [Next]_vars /\ \A u \in Txs \ {t} : LeftAlone(u)
<1>1. Close(t) /\ tx[t].at = "commit"
  BY DEF Commit
<1>2. tx[t].op # "none" /\ SoundTx(t) /\ TypeOK /\ UnbornImages /\ IsFiniteSet(ActiveJobs)
  BY <1>1, OpOfSound DEF Sound, Closedtx, Committed
<1>3. \A u \in Txs \ {t} : tx[u].op = "complete" /\ tx[u].on.worker \in Workers
           => attempt'[tx[u].on.worker] = attempt[tx[u].on.worker]
  <2>1. CASE tx[t].op = "complete"
    BY <2>1, OtherWorkersKeep DEF Commit
  <2>2. CASE tx[t].op # "complete"
    BY <2>2 DEF Commit
  <2> QED BY <2>1, <2>2
<1>4. ASSUME [Next]_vars, NEW j, Touches(held[t]), StoresAtMost(j),
             \A u \in Txs \ {t} : tx[u].op = "store" /\ tx[u].on.job \in Jobs => tx[u].on.job # j
      PROVE  Committed' /\ Sound' /\ [Next]_vars /\ \A u \in Txs \ {t} : LeftAlone(u)
  <2>1. IsFiniteSet(ActiveJobs)'
    BY <1>2, <1>4, ActivesStep
  <2> QED BY <1>1, <1>3, <1>4, <2>1, CloseSteps
<1>5. CASE tx[t].op = "complete"
  <2> DEFINE w == tx[t].on.worker
  <2>1. Ending(t) /\ Completing(t)
    BY <1>2, <1>5, OpOfSound
  <2>2. w \in Workers /\ (FinishSuccess(w) \/ FinishFailure(w) \/ RequeueInterrupted(w))
    BY <1>5, <2>1, CompletionCommits
  <2>3. Covers(attempt[w].job, held[t]) /\ JobLock(attempt[w].job) \in held[t]
    BY <1>1, <2>1 DEF Ending, Completing
  <2>4. [Next]_vars
    BY <2>2 DEF Next, WorkerNext, AttemptEnds
  <2> HIDE DEF w
  <2>5. Touches(held[t]) /\ StoresAtMost(NoJob)
    BY <1>2, <2>2, <2>3, EndTouches
  <2> QED BY <1>4, <2>4, <2>5, NoJobStored
<1>6. CASE tx[t].op = "cancelJob"
  <2> DEFINE j == tx[t].on.job
  <2>1. Ending(t) /\ Cancelling(t)
    BY <1>2, <1>6, OpOfSound
  <2>2. j \in Jobs /\ CancelQueued(j)
    BY <1>6, <2>1, CancellationCommits
  <2>3. Covers(j, held[t]) /\ JobLock(j) \in held[t]
    BY <1>1, <2>1 DEF Ending
  <2>4. [Next]_vars
    BY <2>2 DEF Next, UserNext
  <2> HIDE DEF j
  <2>5. Touches(held[t]) /\ StoresAtMost(NoJob)
    BY <1>2, <2>2, <2>3, CancelTouches
  <2> QED BY <1>4, <2>4, <2>5, NoJobStored
<1>7. CASE tx[t].op \in {"cancelDraft", "confirm"}
  <2> DEFINE d == tx[t].on.draft
  <2>1. Closing(t)
    BY <1>2, <1>7, OpOfSound
  <2>2. d \in Drafts /\ (CancelDraft(d) \/ ConfirmDraft(d))
    BY <1>7, <2>1, CloseCommits
  <2>3. /\ DraftLock(d) \in held[t] /\ \A s \in OpenOf(d) : SubLock(s) \in held[t]
        /\ \A j \in QueuedOf(d) : JobLock(j) \in held[t]
        /\ \A j \in SlotJobs(draft[d]) : ImageLock(j) \in held[t]
    BY <1>1, <2>1 DEF Closing
  <2>4. [Next]_vars
    BY <2>2 DEF Next, UserNext
  <2> HIDE DEF d
  <2>5. Touches(held[t]) /\ StoresAtMost(NoJob)
    BY <1>2, <2>2, <2>3, CloseTouches
  <2> QED BY <1>4, <2>4, <2>5, NoJobStored
<1>8. CASE tx[t].op = "sweep"
  <2> DEFINE j == tx[t].on.job
  <2>1. Sweeping(t)
    BY <1>2, <1>8, OpOfSound
  <2>2. vars' = vars \/ (j \in Jobs /\ SweepImage(j))
    BY <1>8, <2>1, SweepCommits
  <2>3. held[t] = {ImageLock(j)}
    BY <1>1, <2>1 DEF Sweeping
  <2>4. CASE vars' = vars
    <3>1. Committed' /\ Sound' /\ [Next]_vars
      BY <1>1, <2>4, CloseSound
    <3>2. OthersKeep(t)
      BY <1>1, ClosedShape
    <3> QED BY <2>4, <3>1, <3>2, QuietOthers
  <2>5. CASE j \in Jobs /\ SweepImage(j)
    <3>1. [Next]_vars
      BY <2>5 DEF Next, UserNext
    <3> HIDE DEF j
    <3>2. Touches(held[t]) /\ StoresAtMost(NoJob)
      BY <1>2, <2>3, <2>5, SweepTouches
    <3> QED BY <1>4, <3>1, <3>2, NoJobStored
  <2> QED BY <2>2, <2>4, <2>5
<1>9. CASE tx[t].op = "store"
  <2> DEFINE s == tx[t].on.sub
             k == tx[t].on.slot
             j == tx[t].on.job
  <2>1. Storing(t)
    BY <1>2, <1>9, OpOfSound
  <2>2. s \in Submissions /\ k \in Slots /\ j \in Jobs /\ StoreJob(s, k, j)
    BY <1>9, <2>1, StoreCommits
  <2>3. DraftLock(sub[s].draft) \in held[t] /\ SubLock(s) \in held[t] /\ Gate \in held[t]
    BY <1>1, <2>1 DEF Storing
  <2>4. [Next]_vars
    BY <2>2 DEF Next, UserNext
  <2>5. \A u \in Txs \ {t} : tx[u].op = "store" => tx[u].on.job # j
    BY <1>9 DEF Sound, OwnJob
  <2> HIDE DEF s, k, j
  <2>6. Touches(held[t]) /\ StoresAtMost(j)
    BY <2>2, <2>3, StoreTouches
  <2> QED BY <1>4, <2>4, <2>5, <2>6
<1>10. CASE tx[t].op = "settle"
  <2> DEFINE s == tx[t].on.sub
  <2>1. Settling(t)
    BY <1>2, <1>10, OpOfSound
  <2>2. s \in Submissions /\ Settle(s)
    BY <1>10, <2>1, SettlementCommits
  <2>3. DraftLock(sub[s].draft) \in held[t] /\ SubLock(s) \in held[t]
    BY <1>1, <2>1 DEF Settling
  <2>4. [Next]_vars
    BY <2>2 DEF Next, WorkerNext
  <2> HIDE DEF s
  <2>5. Touches(held[t]) /\ StoresAtMost(NoJob)
    BY <2>2, <2>3, SettleTouches
  <2> QED BY <1>4, <2>4, <2>5, NoJobStored
<1> QED BY <1>2, <1>5, <1>6, <1>7, <1>8, <1>9, <1>10, OpOfSound
----------------------------------------------------------------------------
(* The brief transactions meet no lock that anyone holds.                    *)

LEMMA BriefSound ==
    ASSUME Committed, Sound, Brief
    PROVE  Committed' /\ Sound' /\ [Next]_vars /\ \A t \in Txs : LeftAlone(t)
<1>1. tx' = tx /\ held' = held
  BY DEF Brief, txVars
<1>2. TypeOK /\ UnfinishedSlotShowsRunning /\ IsFiniteSet(ActiveJobs)
  BY DEF Committed, Sound
<1>3. ASSUME [Next]_vars, NEW locks, Touches(locks), StoresAtMost(NoJob), Unlocked(locks),
             \A t \in Txs : tx[t].op = "complete" /\ tx[t].on.worker \in Workers
                => attempt'[tx[t].on.worker] = attempt[tx[t].on.worker]
      PROVE  Committed' /\ Sound' /\ [Next]_vars /\ \A t \in Txs : LeftAlone(t)
  <2>1. Committed' /\ IsFiniteSet(ActiveJobs)'
    BY <1>2, <1>3, ActivesStep, CommittedStep
  <2>2. ASSUME NEW t \in Txs PROVE LeftAlone(t) /\ SoundTx(t)'
    <3>1. tx'[t] = tx[t] /\ held'[t] = held[t] /\ locks \cap held[t] = {}
      BY <1>1, <1>3 DEF Unlocked
    <3>2. LeftAlone(t)
      BY <1>3, <3>1, NoJobStored, TouchesLeaves
    <3> QED BY <1>2, <1>3, <2>1, <3>2, SoundTxKept DEF Sound
  <2>3. TxShape' /\ Exclusive' /\ OwnWorker' /\ OwnJob'
    BY <1>1 DEF Sound, TxShape, Exclusive, OwnWorker, OwnJob, Shaped
  <2> QED BY <1>3, <2>1, <2>2, <2>3 DEF Sound
<1>4. ASSUME [Next]_vars, NEW locks, Touches(locks), StoresAtMost(NoJob), Unlocked(locks),
             attempt' = attempt
      PROVE  Committed' /\ Sound' /\ [Next]_vars /\ \A t \in Txs : LeftAlone(t)
  BY <1>3, <1>4
<1>5. Unlocked({})
  BY DEF Unlocked
<1>6. ASSUME NEW d \in Drafts, CreateDraft(d, "draft_ready")
      PROVE  Committed' /\ Sound' /\ [Next]_vars /\ \A t \in Txs : LeftAlone(t)
  <2>1. [Next]_vars /\ attempt' = attempt
    BY <1>6 DEF Next, UserNext, CreateDraft
  <2> QED BY <1>2, <1>4, <1>5, <1>6, <2>1, CreateTouches
<1>7. ASSUME NEW s \in Submissions, NEW d \in Drafts, NEW screens \in SUBSET Slots \ {{}},
             Unlocked({DraftLock(d)}), PutSubmission(s, d, screens)
      PROVE  Committed' /\ Sound' /\ [Next]_vars /\ \A t \in Txs : LeftAlone(t)
  <2>1. [Next]_vars /\ attempt' = attempt
    BY <1>7 DEF Next, UserNext, PutSubmission
  <2> QED BY <1>2, <1>4, <1>7, <2>1, PutTouches
<1>8. ASSUME NEW w \in Workers, NEW j \in Jobs,
             Unlocked(DraftLocks(j) \cup {JobLock(j), ImageLock(j)}), Claim(w, j)
      PROVE  Committed' /\ Sound' /\ [Next]_vars /\ \A t \in Txs : LeftAlone(t)
  <2>1. [Next]_vars
    BY <1>8 DEF Next, WorkerNext
  <2>2. attempt[w] = Idle /\ \A v \in Workers \ {w} : attempt'[v] = attempt[v]
    BY <1>2, <1>8 DEF Claim, TypeOK
  <2>3. \A t \in Txs : tx[t].op = "complete" => tx[t].on.worker # w
    <3>1. ASSUME NEW t \in Txs, tx[t].op = "complete", tx[t].on.worker = w PROVE FALSE
      <4>1. Ending(t) /\ Completing(t)
        BY <3>1, OpOfSound DEF Sound
      <4> QED BY <2>2, <3>1, <4>1, NullsAssumption DEF Ending, Completing, Idle
    <3> QED BY <3>1
  <2>4. \A t \in Txs : tx[t].op = "complete" /\ tx[t].on.worker \in Workers
                => attempt'[tx[t].on.worker] = attempt[tx[t].on.worker]
    BY <2>2, <2>3
  <2> QED BY <1>2, <1>3, <1>8, <2>1, <2>4, ClaimTouches
<1>9. ASSUME NEW j \in Jobs, Unlocked(DraftLocks(j) \cup {JobLock(j)}), Recover(j)
      PROVE  Committed' /\ Sound' /\ [Next]_vars /\ \A t \in Txs : LeftAlone(t)
  <2>1. [Next]_vars /\ attempt' = attempt
    BY <1>9 DEF Next, WorkerNext, Recover
  <2> QED BY <1>2, <1>4, <1>9, <2>1, RecoverTouches
<1>10. ASSUME NEW w \in Workers, Unlocked({JobLock(attempt[w].job)}), Heartbeat(w)
       PROVE  Committed' /\ Sound' /\ [Next]_vars /\ \A t \in Txs : LeftAlone(t)
  <2>1. [Next]_vars /\ attempt' = attempt /\ attempt[w].job \in Jobs
    BY <1>10 DEF Next, WorkerNext, Heartbeat, Owned
  <2> QED BY <1>2, <1>4, <1>10, <2>1, LeaseTouches
<1>11. ASSUME NEW j \in Jobs, Unlocked({JobLock(j)}), LeaseAges(j)
       PROVE  Committed' /\ Sound' /\ [Next]_vars /\ \A t \in Txs : LeftAlone(t)
  <2>1. [Next]_vars /\ attempt' = attempt
    BY <1>11 DEF Next, TimeNext, LeaseAges
  <2> QED BY <1>2, <1>4, <1>11, <2>1, LeaseTouches
<1>12. ASSUME NEW s \in Submissions, Unlocked({SubLock(s)}), DeadlinePasses(s)
       PROVE  Committed' /\ Sound' /\ [Next]_vars /\ \A t \in Txs : LeftAlone(t)
  <2>1. [Next]_vars /\ attempt' = attempt
    BY <1>12 DEF Next, TimeNext, DeadlinePasses
  <2> QED BY <1>2, <1>4, <1>12, <2>1, DeadlineTouches
<1> QED BY <1>6, <1>7, <1>8, <1>9, <1>10, <1>11, <1>12 DEF Brief
----------------------------------------------------------------------------
(* Every step of a session keeps what the sessions rely on and is, in what   *)
(* is committed, one action of OcrPipeline or none.                          *)

Kept == Committed' /\ Sound' /\ [Next]_vars

LEMMA StatementQuiet ==
    ASSUME NEW t,
           \/ UserBegins(t) \/ WorkerBegins(t)
           \/ LockDrafts(t) \/ LockJob(t) \/ WriteCancellation(t) \/ SyncDrafts(t)
           \/ WriteDraft(t) \/ AbortSubs(t) \/ CancelJobs(t) \/ LockImages(t) \/ StageImages(t)
           \/ LockRow(t) \/ CheckMember(t) \/ LockStoreImage(t) \/ InsertJob(t)
           \/ SettleBusy(t) \/ SettleSub(t) \/ Block(t) \/ Rollback(t)
    PROVE  vars' = vars
<1>1. \A op, on, at : Begin(t, op, on, at) => vars' = vars
  BY DEF Begin
<1>2. \A kept, at, rows : Proceed(t, kept, at, rows) => vars' = vars
  BY DEF Proceed
<1>3. CASE UserBegins(t) \/ WorkerBegins(t)
  BY <1>1, <1>3 DEF UserBegins, WorkerBegins, BeginStore, BeginCancelJob, BeginSweep,
                    BeginCloseDraft, BeginComplete, BeginSettle
<1>4. CASE LockDrafts(t) \/ LockJob(t) \/ WriteCancellation(t) \/ SyncDrafts(t)
  BY <1>2, <1>4, Zenon DEF LockDrafts, LockJob, WriteCancellation, SyncDrafts
<1>5. CASE WriteDraft(t) \/ AbortSubs(t) \/ CancelJobs(t) \/ LockImages(t) \/ StageImages(t)
  BY <1>2, <1>5, Zenon DEF WriteDraft, AbortSubs, CancelJobs, LockImages, StageImages
<1>6. CASE LockRow(t) \/ CheckMember(t) \/ LockStoreImage(t) \/ InsertJob(t) \/ SettleSub(t)
  BY <1>2, <1>6, Zenon DEF LockRow, CheckMember, LockStoreImage, InsertJob, SettleSub
<1>7. CASE SettleBusy(t) \/ Block(t) \/ Rollback(t)
  BY <1>7 DEF SettleBusy, Block, Rollback, vars
<1> QED BY <1>3, <1>4, <1>5, <1>6, <1>7

LEMMA BeginsSound ==
    ASSUME Committed, Sound, NEW t \in Txs, UserBegins(t) \/ WorkerBegins(t)
    PROVE  Kept
<1>1. vars' = vars
  BY StatementQuiet
<1>2. ASSUME NEW s \in Submissions, NEW k \in Slots, NEW j \in Jobs, BeginStore(t, s, k, j)
      PROVE  Committed' /\ Sound'
  BY <1>2, BeginStoreSound
<1>3. ASSUME NEW j \in Jobs, BeginCancelJob(t, j) \/ BeginSweep(t, j)
      PROVE  Committed' /\ Sound'
  BY <1>3, BeginCancelJobSound, BeginSweepSound
<1>4. ASSUME NEW d \in Drafts, NEW op \in {"cancelDraft", "confirm"}, BeginCloseDraft(t, d, op)
      PROVE  Committed' /\ Sound'
  BY <1>4, BeginCloseDraftSound
<1>5. ASSUME NEW w \in Workers, NEW status \in {"succeeded", "failed", "queued"},
             BeginComplete(t, w, status)
      PROVE  Committed' /\ Sound'
  BY <1>5, BeginCompleteSound
<1>6. ASSUME NEW s \in Submissions, BeginSettle(t, s)
      PROVE  Committed' /\ Sound'
  BY <1>6, BeginSettleSound
<1> QED BY <1>1, <1>2, <1>3, <1>4, <1>5, <1>6 DEF UserBegins, WorkerBegins, Kept

LEMMA StatementSound ==
    ASSUME Committed, Sound, NEW t \in Txs, Statement(t)
    PROVE  Kept
<1>1. SoundTx(t)
  BY DEF Sound
<1>2. CASE WriteCompletion(t) \/ Commit(t)
  BY <1>2, WriteCompletionSound, CommitSound DEF Kept
<1>3. ASSUME vars' = vars, Committed' /\ Sound' PROVE Kept
  BY <1>3 DEF Kept
<1>4. CASE LockDrafts(t) \/ LockJob(t) \/ WriteCancellation(t) \/ SyncDrafts(t)
  <2>1. Committed' /\ Sound'
    BY <1>4, LockDraftsSound, LockJobSound, WriteCancellationSound, SyncDraftsSound
  <2> QED BY <1>3, <1>4, <2>1, StatementQuiet
<1>5. CASE WriteDraft(t) \/ AbortSubs(t) \/ CancelJobs(t)
  <2>1. Committed' /\ Sound'
    BY <1>5, WriteDraftSound, AbortSubsSound, CancelJobsSound
  <2> QED BY <1>3, <1>5, <2>1, StatementQuiet
<1>6. CASE LockImages(t) \/ StageImages(t)
  <2>1. tx[t].op \in {"cancelDraft", "confirm"} \/ tx[t].op = "sweep"
    BY <1>6 DEF LockImages, StageImages, At
  <2>2. Committed' /\ Sound'
    BY <1>6, <2>1, LockClosedImagesSound, LockSweptImageSound, StageClosedSound, StageSweptSound
  <2> QED BY <1>3, <1>6, <2>2, StatementQuiet
<1>7. CASE LockRow(t)
  <2>1. tx[t].op \in {"store", "settle"}
    BY <1>7 DEF LockRow, At
  <2>2. Committed' /\ Sound'
    BY <1>7, <2>1, LockStoredRowSound, LockSettledRowSound
  <2> QED BY <1>3, <1>7, <2>2, StatementQuiet
<1>8. CASE CheckMember(t) \/ LockStoreImage(t) \/ InsertJob(t) \/ SettleSub(t)
  <2>1. Committed' /\ Sound'
    BY <1>8, CheckMemberSound, LockStoreImageSound, InsertJobSound, SettleSubSound
  <2> QED BY <1>3, <1>8, <2>1, StatementQuiet
<1>9. CASE SettleBusy(t) \/ Rollback(t)
  <2>1. vars' = vars
    BY <1>9, StatementQuiet
  <2>2. Close(t)
    BY <1>9 DEF SettleBusy, Rollback
  <2> QED BY <1>3, <2>1, <2>2, CloseSound
<1>10. CASE Block(t)
  <2>1. tx[t].op \notin {"none", "settle"}
    BY <1>10 DEF Block
  <2>2. tx[t].op \in {"complete", "cancelJob", "cancelDraft", "confirm", "sweep", "store"}
    BY <1>1, <2>1, OpOfSound
  <2>3. Committed' /\ Sound'
    BY <1>10, <2>2, EndingBlockSound, ClosingBlockSound, SweepBlockSound, StoringBlockSound
  <2> QED BY <1>3, <1>10, <2>3, StatementQuiet
<1> QED BY <1>2, <1>4, <1>5, <1>6, <1>7, <1>8, <1>9, <1>10, Zenon DEF Statement

LEMMA TxStep ==
    ASSUME Committed, Sound, [TxNext]_allVars
    PROVE  Kept
<1>1. CASE \E t \in Txs : UserBegins(t) \/ WorkerBegins(t) \/ Statement(t)
  BY <1>1, BeginsSound, StatementSound
<1>2. CASE Brief
  BY <1>2, BriefSound DEF Kept
<1>3. CASE UNCHANGED allVars
  <2>1. vars' = vars /\ tx' = tx /\ held' = held
    BY <1>3 DEF allVars, txVars
  <2>2. PICK t \in Txs : TRUE
    BY SessionsAssumption
  <2>3. OthersKeep(t)
    BY <2>1 DEF OthersKeep
  <2>4. Committed' /\ IsFiniteSet(ActiveJobs)' /\ \A u \in Txs \ {t} : SoundTx(u)'
    BY <2>1, <2>3, QuietOthers
  <2>5. LeftAlone(t)
    <3>1. \A j : tx[t].on.job = j /\ j \in Jobs => j # NoJob
      BY NullsAssumption
    <3>2. Touches({}) /\ StoresAtMost(NoJob)
      BY <2>1, SameTouches
    <3>3. tx'[t] = tx[t] /\ held'[t] = held[t] /\ attempt' = attempt
      BY <2>1 DEF vars
    <3> QED BY <3>1, <3>2, <3>3, TouchesLeaves
  <2>6. [Next]_vars /\ IsFiniteSet(ActiveJobs) /\ SoundTx(t)
    BY <2>1 DEF Sound
  <2>7. SoundTx(t)'
    BY <2>4, <2>5, <2>6, SoundTxKept
  <2>8. TxShape' /\ Exclusive' /\ OwnWorker' /\ OwnJob'
    BY <2>1 DEF Sound, TxShape, Exclusive, OwnWorker, OwnJob, Shaped
  <2> QED BY <2>4, <2>6, <2>7, <2>8 DEF Sound, Kept
<1> QED BY <1>1, <1>2, <1>3 DEF TxNext

LEMMA InitSound == TxInit => Committed /\ Sound
<1> SUFFICES ASSUME TxInit PROVE Committed /\ Sound
  OBVIOUS
<1>1. Committed
  BY InitCommitted DEF TxInit
<1>2. \A t \in Txs : tx[t] = Closedtx /\ held[t] = {}
  BY DEF TxInit
<1>3. TxShape
  <2>1. Shaped(Closedtx)
    BY RowsWritten DEF Shaped, Closedtx
  <2>2. tx = [t \in Txs |-> tx[t]] /\ held = [t \in Txs |-> held[t]]
    BY DEF TxInit
  <2> QED BY <1>2, <2>1, <2>2 DEF TxShape
<1>4. Exclusive /\ OwnWorker /\ OwnJob
  BY <1>2 DEF Exclusive, OwnWorker, OwnJob, Closedtx
<1>5. \A t \in Txs : SoundTx(t)
  BY <1>2 DEF SoundTx
<1>6. ActiveJobs = {}
  BY DEF TxInit, Init, ActiveJobs, NewJob
<1>7. IsFiniteSet(ActiveJobs)
  BY <1>6, FS_EmptySet
<1> QED BY <1>1, <1>3, <1>4, <1>5, <1>7 DEF Sound

(* What the sessions rely on holds in every state.                           *)
THEOREM SessionsAreSound == TxSpec => [](Committed /\ Sound)
<1>1. (Committed /\ Sound) /\ [TxNext]_allVars => (Committed /\ Sound)'
  BY TxStep DEF Kept
<1> QED BY <1>1, InitSound, PTL DEF TxSpec

(* Every commit of the statements, however they interleave, and every step   *)
(* between them is one transaction of OcrPipeline or none: the row locks and *)
(* their order make settle_transaction, store, cancelQueuedOwned,            *)
(* cancelDraftAndQueuedOcrJobs, confirm, stageDeletion and the completions   *)
(* atomic, for any number of sessions.                                       *)
THEOREM CommitsAreAtomicHolds == TxSpec => CommitsAreAtomic
<1>1. TxInit => Init
  BY DEF TxInit
<1>2. (Committed /\ Sound) /\ [TxNext]_allVars => [Next]_vars
  BY TxStep DEF Kept
<1> QED BY <1>1, <1>2, SessionsAreSound, PTL DEF TxSpec, CommitsAreAtomic, Spec

(* The active-job limit holds in every interleaving of creators: the count   *)
(* is taken under the advisory lock (activeLimitGuard).                      *)
THEOREM ActiveLimitKept == TxSpec => []ActiveLimitHolds
<1>1. TxInit => ActiveLimitHolds
  <2>1. Init => ActiveJobs = {}
    BY DEF Init, ActiveJobs, NewJob
  <2> QED BY <2>1, FS_EmptySet, LimitsAssumption DEF TxInit, ActiveLimitHolds
<1>2. (Committed /\ Sound) /\ ActiveLimitHolds /\ [TxNext]_allVars => ActiveLimitHolds'
  <2>1. (Committed /\ Sound) /\ [TxNext]_allVars =>
           TypeOK /\ [Next]_vars /\ IsFiniteSet(ActiveJobs)
    BY TxStep DEF Kept, Committed, Sound
  <2> QED BY <2>1, ActivesStep DEF ActiveLimitHolds
<1> QED BY <1>1, <1>2, SessionsAreSound, PTL DEF TxSpec
----------------------------------------------------------------------------
(* The lock order: what a session holds when it reaches a statement.         *)

Tables == {"match_drafts", "ocr_submissions", "ocr_jobs", "source_images", "active_limit"}
HeldAt(at) ==
    CASE at \in {"drafts", "row"} -> {}
      [] at \in {"owned", "job", "subs", "sub"} -> {"match_drafts"}
      [] at \in {"jobs", "image"} -> {"match_drafts", "ocr_submissions"}
      [] at = "images" -> {"match_drafts", "ocr_submissions", "ocr_jobs"}
      [] at \in {"again", "sync"} -> {"match_drafts", "ocr_jobs"}
      [] at = "gate" -> {"match_drafts", "ocr_submissions", "source_images"}
      [] OTHER -> Tables

(* A completion that waits for its job holds drafts that show it running.    *)
Ordered(t) ==
    /\ \A lock \in held[t] : lock.table \in HeldAt(tx[t].at)
    /\ tx[t].op \in {"complete", "cancelJob"} =>
          \A j \in Jobs : JobLock(j) \in held[t] => j = tx[t].on.job
    /\ tx[t].op = "complete" /\ tx[t].at = "owned" =>
          /\ \A lock \in held[t] : \E d \in Drafts :
                lock = DraftLock(d) /\ draft[d].status # "absent"
                /\ tx[t].on.job \in SlotJobs(draft[d])
          /\ tx[t].wait # {} /\ held[t] # {} => job[tx[t].on.job].status \in Unfinished

LEMMA HeldAtParts ==
    /\ HeldAt("drafts") = {} /\ HeldAt("row") = {}
    /\ \A at \in {"owned", "job", "subs", "sub"} : HeldAt(at) = {"match_drafts"}
    /\ \A at \in {"jobs", "image"} : HeldAt(at) = {"match_drafts", "ocr_submissions"}
    /\ HeldAt("images") = {"match_drafts", "ocr_submissions", "ocr_jobs"}
    /\ \A at \in {"again", "sync"} : HeldAt(at) = {"match_drafts", "ocr_jobs"}
    /\ HeldAt("gate") = {"match_drafts", "ocr_submissions", "source_images"}
    /\ \A at \in {"stage", "commit", "none"} : HeldAt(at) = Tables
BY DEF HeldAt

LEMMA LockTables ==
    /\ \A d : DraftLock(d).table = "match_drafts"
    /\ \A s : SubLock(s).table = "ocr_submissions"
    /\ \A j : JobLock(j).table = "ocr_jobs"
    /\ \A j : ImageLock(j).table = "source_images"
    /\ Gate.table = "active_limit"
    /\ \A i, j : JobLock(i) = JobLock(j) => i = j
BY DEF DraftLock, SubLock, JobLock, ImageLock, Gate

LEMMA OrderedKept ==
    ASSUME NEW t \in Txs, LeftAlone(t), SoundTx(t), Ordered(t)
    PROVE  Ordered(t)'
<1>1. tx'[t] = tx[t] /\ held'[t] = held[t]
  BY DEF LeftAlone
<1>2. HeldAt(tx[t].at)' = HeldAt(tx[t].at)
  BY <1>1 DEF HeldAt, Tables
<1>3. ASSUME tx[t].op = "complete", tx[t].at = "owned"
      PROVE  /\ \A lock \in held[t] : \E d \in Drafts :
                   lock = DraftLock(d) /\ draft'[d].status # "absent"
                   /\ tx[t].on.job \in SlotJobs(draft'[d])
             /\ tx[t].wait # {} /\ held[t] # {} => job'[tx[t].on.job].status \in Unfinished
  <2> DEFINE j == tx[t].on.job
  <2>1. \A lock \in held[t] : \E d \in Drafts :
           lock = DraftLock(d) /\ draft[d].status # "absent" /\ j \in SlotJobs(draft[d])
    BY <1>3 DEF Ordered
  <2>2. \A d \in Drafts : DraftLock(d) \in held[t] =>
          /\ draft[d].status # "absent" => draft'[d] = draft[d]
          /\ \A i \in SlotJobs(draft[d]) : job'[i].status = job[i].status
    BY DEF LeftAlone
  <2>3. tx[t].wait # {} /\ held[t] # {} => job[j].status \in Unfinished
    BY <1>3 DEF Ordered
  <2> HIDE DEF j
  <2>4. \A lock \in held[t] : \E d \in Drafts :
           /\ lock = DraftLock(d) /\ draft'[d].status # "absent" /\ j \in SlotJobs(draft'[d])
           /\ job'[j].status = job[j].status
    BY <2>1, <2>2
  <2> QED BY <2>3, <2>4 DEF j
<1>4. \A j : JobLock(j)' = JobLock(j)
  BY DEF JobLock
<1> QED BY <1>1, <1>2, <1>3, <1>4 DEF Ordered, DraftLock

LEMMA ProceedFields ==
    ASSUME TxShape, NEW t \in Txs, NEW kept, NEW at, NEW rows, Proceed(t, kept, at, rows)
    PROVE  /\ tx'[t].op = tx[t].op /\ tx'[t].on = tx[t].on /\ tx'[t].at = at
           /\ tx'[t].wait = {} /\ held'[t] = held[t] \cup kept /\ vars' = vars
           /\ OthersKeep(t)
<1>0. held' = [held EXCEPT ![t] = @ \cup kept] /\ vars' = vars
  BY DEF Proceed
<1>1. tx' = [tx EXCEPT ![t].at = at, ![t].wait = {}, ![t].rows = rows]
  BY DEF Proceed
<1>2. tx[t] = [op |-> tx[t].op, at |-> tx[t].at, on |-> tx[t].on, wait |-> tx[t].wait,
               rows |-> tx[t].rows]
  BY DEF TxShape, Shaped
<1>3. tx'[t] = [op |-> tx[t].op, at |-> at, on |-> tx[t].on, wait |-> {}, rows |-> rows]
  BY <1>1, <1>2 DEF TxShape
<1>4. \A u \in Txs \ {t} : tx'[u] = tx[u]
  BY <1>1 DEF TxShape
<1>5. held'[t] = held[t] \cup kept /\ \A u \in Txs \ {t} : held'[u] = held[u]
  BY <1>0 DEF TxShape
<1> QED BY <1>0, <1>3, <1>4, <1>5 DEF OthersKeep

LEMMA OrderedNext ==
    ASSUME NEW t \in Txs, Ordered(t), NEW at, NEW kept,
           tx'[t].op = tx[t].op, tx'[t].on = tx[t].on, tx'[t].at = at, held'[t] = held[t] \cup kept,
           HeldAt(tx[t].at) \subseteq HeldAt(at),
           \A lock \in kept : lock.table \in HeldAt(at),
           tx[t].op \in {"complete", "cancelJob"} =>
              \A j \in Jobs : JobLock(j) \in kept => j = tx[t].on.job,
           tx[t].op = "complete" /\ at = "owned" =>
              /\ \A lock \in held'[t] : \E d \in Drafts :
                    lock = DraftLock(d) /\ draft'[d].status # "absent"
                    /\ tx[t].on.job \in SlotJobs(draft'[d])
              /\ tx'[t].wait # {} /\ held'[t] # {} => job'[tx[t].on.job].status \in Unfinished
    PROVE  Ordered(t)'
<1>1. HeldAt(tx[t].at)' = HeldAt(at)
  BY DEF HeldAt, Tables
<1>2. \A lock \in held'[t] : lock.table \in HeldAt(at)
  BY DEF Ordered
<1>3. tx[t].op \in {"complete", "cancelJob"} =>
          \A j \in Jobs : JobLock(j) \in held'[t] => j = tx[t].on.job
  BY DEF Ordered
<1>4. \A j : JobLock(j)' = JobLock(j)
  BY DEF JobLock
<1>5. \A d : DraftLock(d)' = DraftLock(d)
  BY DEF DraftLock
<1> QED BY <1>1, <1>2, <1>3, <1>4, <1>5 DEF Ordered

LEMMA ProceedOrdered ==
    ASSUME TxShape, NEW t \in Txs, Ordered(t), NEW kept, NEW at, NEW rows,
           Proceed(t, kept, at, rows), at # "owned",
           HeldAt(tx[t].at) \subseteq HeldAt(at), \A lock \in kept : lock.table \in HeldAt(at),
           tx[t].op \in {"complete", "cancelJob"} =>
              \A j \in Jobs : JobLock(j) \in kept => j = tx[t].on.job
    PROVE  Ordered(t)'
<1>1. /\ tx'[t].op = tx[t].op /\ tx'[t].on = tx[t].on /\ tx'[t].at = at
      /\ held'[t] = held[t] \cup kept
  BY ProceedFields
<1> QED BY <1>1, OrderedNext

(* The locks of each kind of transaction are asked for in the order of       *)
(* HeldAt.                                                                   *)
LEMMA EndingOrdered ==
    ASSUME Committed, Sound, NEW t \in Txs, Ordered(t),
           \/ LockDrafts(t) \/ LockJob(t) \/ WriteCancellation(t) \/ SyncDrafts(t)
           \/ WriteCompletion(t) /\ ~Close(t)
    PROVE  Ordered(t)'
<1> DEFINE j == tx[t].on.job
<1>1. TxShape /\ tx[t].op \in {"complete", "cancelJob"}
  BY Zenon DEF Sound, LockDrafts, LockJob, WriteCancellation, SyncDrafts, WriteCompletion, At
<1>2. Ending(t) /\ j \in Jobs
  BY <1>1, OpOfSound DEF Sound, Ending
<1>3. \A locks : locks \subseteq DraftLocks(j) =>
         /\ \A lock \in locks : lock.table = "match_drafts"
         /\ \A i \in Jobs : JobLock(i) \notin locks
  BY LockTables DEF DraftLocks
<1>4. CASE LockDrafts(t)
  <2> DEFINE kept == Asked(t) \cap DraftLocks(j)
             at == IF tx[t].op = "complete" THEN "owned" ELSE "job"
  <2>1. tx[t].at = "drafts" /\ Proceed(t, kept, at, Unwritten)
    BY <1>4 DEF LockDrafts, At
  <2>2. held[t] = {}
    BY <1>2, <2>1 DEF Ending
  <2>3. /\ \A lock \in kept : lock.table = "match_drafts"
        /\ \A i \in Jobs : JobLock(i) \notin kept
        /\ \A lock \in kept : \E d \in Drafts :
              lock = DraftLock(d) /\ draft[d].status # "absent" /\ j \in SlotJobs(draft[d])
    BY <1>3 DEF DraftLocks
  <2> HIDE DEF kept
  <2>4. /\ tx'[t].op = tx[t].op /\ tx'[t].on = tx[t].on /\ tx'[t].at = at
        /\ tx'[t].wait = {} /\ held'[t] = held[t] \cup kept /\ vars' = vars
    BY <1>1, <2>1, ProceedFields
  <2>5. draft' = draft
    BY <2>4 DEF vars
  <2>6. HeldAt(tx[t].at) = {} /\ HeldAt(at) = {"match_drafts"}
    BY <2>1, HeldAtParts
  <2> HIDE DEF at, j
  <2>7. \A lock \in held'[t] : \E d \in Drafts :
              lock = DraftLock(d) /\ draft'[d].status # "absent" /\ j \in SlotJobs(draft'[d])
    BY <2>2, <2>3, <2>4, <2>5
  <2> QED BY <2>3, <2>4, <2>6, <2>7, OrderedNext DEF j
<1>5. CASE LockJob(t)
  <2>1. tx[t].at = "job" /\ Proceed(t, Asked(t), "again", Unwritten)
    BY <1>5 DEF LockJob, At
  <2>2. Asked(t) \subseteq {JobLock(j)}
    BY <1>2, <2>1, SelectedAt DEF Asked, Ending
  <2>3. HeldAt("job") = {"match_drafts"} /\ HeldAt("again") = {"match_drafts", "ocr_jobs"}
    BY HeldAtParts
  <2> QED BY <1>1, <2>1, <2>2, <2>3, LockTables, ProceedOrdered
<1>6. CASE WriteCancellation(t)
  <2>1. PICK rows : tx[t].at = "again" /\ Proceed(t, Asked(t) \cap DraftLocks(j), "sync", rows)
    BY <1>6, Zenon DEF WriteCancellation, At
  <2>2. HeldAt("again") = {"match_drafts", "ocr_jobs"} /\ HeldAt("sync") = {"match_drafts", "ocr_jobs"}
    BY HeldAtParts
  <2>3. Asked(t) \cap DraftLocks(j) \subseteq DraftLocks(j)
    OBVIOUS
  <2> QED BY <1>1, <1>3, <2>1, <2>2, <2>3, ProceedOrdered
<1>7. CASE SyncDrafts(t)
  <2>1. PICK drafts, rows : tx[t].at = "sync" /\ Proceed(t, {DraftLock(d) : d \in drafts}, "commit", rows)
    BY <1>7, Zenon DEF SyncDrafts, At
  <2>2. HeldAt("sync") = {"match_drafts", "ocr_jobs"} /\ HeldAt("commit") = Tables
    BY HeldAtParts
  <2>3. \A lock \in {DraftLock(d) : d \in drafts} : lock.table = "match_drafts"
    BY LockTables
  <2>4. \A i \in Jobs : JobLock(i) \notin {DraftLock(d) : d \in drafts}
    BY <2>3, LockTables
  <2> QED BY <1>1, <2>1, <2>2, <2>3, <2>4, ProceedOrdered DEF Tables
<1>8. CASE WriteCompletion(t) /\ ~Close(t)
  <2>1. PICK at, rows : /\ at \in {"sync", "commit"} /\ tx[t].at = "owned"
                        /\ Proceed(t, {JobLock(j)}, at, rows)
    BY <1>8, Zenon DEF WriteCompletion, At
  <2>2. /\ HeldAt("owned") = {"match_drafts"} /\ HeldAt("sync") = {"match_drafts", "ocr_jobs"}
        /\ HeldAt("commit") = Tables
    BY HeldAtParts
  <2>3. HeldAt(tx[t].at) \subseteq HeldAt(at) /\ "ocr_jobs" \in HeldAt(at) /\ at # "owned"
    BY <2>1, <2>2 DEF Tables
  <2> QED BY <1>1, <2>1, <2>3, LockTables, ProceedOrdered
<1> QED BY <1>4, <1>5, <1>6, <1>7, <1>8

LEMMA ClosingOrdered ==
    ASSUME Committed, Sound, NEW t \in Txs, Ordered(t),
           WriteDraft(t) \/ AbortSubs(t) \/ CancelJobs(t)
    PROVE  Ordered(t)'
<1>1. TxShape /\ tx[t].op \in {"cancelDraft", "confirm"}
  BY Zenon DEF Sound, WriteDraft, AbortSubs, CancelJobs, At
<1>2. Closing(t)
  BY <1>1, OpOfSound DEF Sound
<1>3. CASE WriteDraft(t)
  <2>1. PICK rows : tx[t].at = "row" /\ Proceed(t, Asked(t), "subs", rows)
    BY <1>3, Zenon DEF WriteDraft, At
  <2>2. \A lock \in Asked(t) : lock.table = "match_drafts"
    BY <1>2, <2>1, ClosingAsks, LockTables
  <2>3. HeldAt("row") = {} /\ HeldAt("subs") = {"match_drafts"}
    BY HeldAtParts
  <2> QED BY <1>1, <2>1, <2>2, <2>3, ProceedOrdered
<1>4. CASE AbortSubs(t)
  <2>1. PICK open, at, rows : /\ tx[t].at = "subs" /\ at \in {"jobs", "images"}
                              /\ Proceed(t, {SubLock(s) : s \in open}, at, rows)
    BY <1>4, Zenon DEF AbortSubs, At
  <2>2. \A lock \in {SubLock(s) : s \in open} : lock.table = "ocr_submissions"
    BY LockTables
  <2>3. HeldAt("subs") \subseteq HeldAt(at) /\ "ocr_submissions" \in HeldAt(at) /\ at # "owned"
    BY <2>1, HeldAtParts
  <2> QED BY <1>1, <2>1, <2>2, <2>3, ProceedOrdered
<1>5. CASE CancelJobs(t)
  <2>1. PICK queued, rows : tx[t].at = "jobs" /\ Proceed(t, {JobLock(j) : j \in queued}, "images", rows)
    BY <1>5, Zenon DEF CancelJobs, At
  <2>2. \A lock \in {JobLock(j) : j \in queued} : lock.table = "ocr_jobs"
    BY LockTables
  <2>3. HeldAt("jobs") \subseteq HeldAt("images") /\ "ocr_jobs" \in HeldAt("images")
    BY HeldAtParts
  <2> QED BY <1>1, <2>1, <2>2, <2>3, ProceedOrdered
<1> QED BY <1>3, <1>4, <1>5

LEMMA ImagesOrdered ==
    ASSUME Committed, Sound, NEW t \in Txs, Ordered(t), LockImages(t) \/ StageImages(t)
    PROVE  Ordered(t)'
<1>1. TxShape /\ tx[t].op \in {"cancelDraft", "confirm", "sweep"}
  BY Zenon DEF Sound, LockImages, StageImages, At
<1>2. PICK kept, at, rows : /\ at \in {"stage", "commit"} /\ Proceed(t, kept, at, rows)
                            /\ StageImages(t) => kept = {}
                            /\ LockImages(t) => kept = Asked(t)
  <2>1. CASE LockImages(t)
    <3>1. ~StageImages(t)
      BY <2>1 DEF LockImages, StageImages, At
    <3> QED BY <2>1, <3>1 DEF LockImages
  <2>2. CASE StageImages(t)
    <3>1. ~LockImages(t)
      BY <2>2 DEF LockImages, StageImages, At
    <3>2. \E rows : Proceed(t, {}, "commit", rows)
      BY <2>2, Zenon DEF StageImages
    <3> QED BY <2>2, <3>1, <3>2
  <2> QED BY <2>1, <2>2
<1>3. HeldAt(at) = Tables /\ at # "owned"
  BY <1>2, HeldAtParts
<1>4. ASSUME LockImages(t) PROVE \A lock \in Asked(t) : lock.table \in Tables
  <2>1. CASE tx[t].op \in {"cancelDraft", "confirm"}
    <3>1. Closing(t) /\ tx[t].at = "images"
      BY <1>4, <2>1, OpOfSound DEF Sound, LockImages, At
    <3> QED BY <3>1, ClosingAsks, LockTables DEF Tables
  <2>2. CASE tx[t].op = "sweep"
    <3>1. Sweeping(t) /\ tx[t].at = "image"
      BY <1>4, <2>2, OpOfSound DEF Sound, LockImages, At
    <3>2. Asked(t) \subseteq {ImageLock(tx[t].on.job)}
      BY <3>1, SelectedAt DEF Asked, Sweeping
    <3> QED BY <3>2, LockTables DEF Tables
  <2> QED BY <1>1, <2>1, <2>2
<1>5. \A lock \in kept : lock.table \in HeldAt(at)
  BY <1>2, <1>3, <1>4
<1>6. HeldAt(tx[t].at) \subseteq HeldAt(at)
  BY <1>3 DEF HeldAt, Tables
<1> QED BY <1>1, <1>2, <1>3, <1>5, <1>6, ProceedOrdered

LEMMA StoringOrdered ==
    ASSUME Committed, Sound, NEW t \in Txs, Ordered(t),
           LockRow(t) \/ CheckMember(t) \/ LockStoreImage(t) \/ InsertJob(t) \/ SettleSub(t)
    PROVE  Ordered(t)'
<1>1. TxShape /\ tx[t].op \in {"store", "settle"}
  BY Zenon DEF Sound, LockRow, CheckMember, LockStoreImage, InsertJob, SettleSub, At
<1>2. tx[t].op = "store" => Storing(t)
  BY OpOfSound DEF Sound
<1>3. tx[t].op = "settle" => Settling(t)
  BY OpOfSound DEF Sound
<1>4. CASE LockRow(t)
  <2>1. tx[t].at = "row" /\ Proceed(t, Asked(t), "sub", Unwritten)
    BY <1>4 DEF LockRow, At
  <2>2. CASE tx[t].op = "store"
    <3>1. \A lock \in Asked(t) : lock.table = "match_drafts"
      BY <1>2, <2>1, <2>2, StoringAsks, LockTables
    <3> QED BY <1>1, <2>1, <2>2, <3>1, HeldAtParts, ProceedOrdered
  <2>3. CASE tx[t].op = "settle"
    <3>1. \A lock \in Asked(t) : lock.table = "match_drafts"
      BY <1>3, <2>1, <2>3, SelectedAt, LockTables DEF Asked, Settling
    <3> QED BY <1>1, <2>1, <2>3, <3>1, HeldAtParts, ProceedOrdered
  <2> QED BY <1>1, <2>2, <2>3
<1>5. CASE CheckMember(t)
  <2>1. tx[t].op = "store" /\ tx[t].at = "sub" /\ Proceed(t, Asked(t), "image", Unwritten)
    BY <1>5, Zenon DEF CheckMember, At
  <2>2. \A lock \in Asked(t) : lock.table = "ocr_submissions"
    BY <1>2, <2>1, StoringAsks, LockTables
  <2> QED BY <1>1, <2>1, <2>2, HeldAtParts, ProceedOrdered
<1>6. CASE LockStoreImage(t)
  <2>1. tx[t].op = "store" /\ tx[t].at = "image" /\ Proceed(t, Asked(t), "gate", Unwritten)
    BY <1>6 DEF LockStoreImage, At
  <2>2. \A lock \in Asked(t) : lock.table = "source_images"
    BY <1>2, <2>1, StoringAsks, LockTables
  <2> QED BY <1>1, <2>1, <2>2, HeldAtParts, ProceedOrdered
<1>7. CASE InsertJob(t)
  <2>1. PICK rows : /\ tx[t].op = "store" /\ tx[t].at = "gate"
                    /\ Proceed(t, Asked(t), "commit", rows)
    BY <1>7, Zenon DEF InsertJob, At
  <2>2. \A lock \in Asked(t) : lock.table = "active_limit"
    BY <1>2, <2>1, StoringAsks, LockTables
  <2> QED BY <1>1, <2>1, <2>2, HeldAtParts, ProceedOrdered DEF Tables
<1>8. CASE SettleSub(t)
  <2>1. PICK rows : /\ tx[t].op = "settle" /\ tx[t].at = "sub"
                    /\ Proceed(t, Asked(t), "commit", rows)
    BY <1>8, Zenon DEF SettleSub, At
  <2>2. \A lock \in Asked(t) : lock.table = "ocr_submissions"
    BY <1>3, <2>1, SelectedAt, LockTables DEF Asked, Settling
  <2> QED BY <1>1, <2>1, <2>2, HeldAtParts, ProceedOrdered DEF Tables
<1> QED BY <1>4, <1>5, <1>6, <1>7, <1>8

LEMMA HoldsNothing ==
    ASSUME NEW t, held'[t] = {}, tx'[t].at # "owned" \/ tx'[t].op # "complete" \/ tx'[t].wait = {}
    PROVE  Ordered(t)'
BY DEF Ordered

LEMMA BlockFields ==
    ASSUME TxShape, NEW t \in Txs, Block(t)
    PROVE  /\ tx'[t].op = tx[t].op /\ tx'[t].on = tx[t].on /\ tx'[t].at = tx[t].at
           /\ tx'[t].wait = Selected(t) /\ held' = held /\ vars' = vars
           /\ OthersKeep(t)
<1> DEFINE drafts == IF tx[t].at = "sync" THEN Resynced(t, tx[t].on.job) ELSE tx[t].rows.draft
           locks == Selected(t)
<1> HIDE DEF drafts, locks
<1>1. tx' = [tx EXCEPT ![t].wait = locks, ![t].rows.draft = drafts]
  BY DEF Block, drafts, locks
<1>2. tx[t] = [op |-> tx[t].op, at |-> tx[t].at, on |-> tx[t].on, wait |-> tx[t].wait,
               rows |-> tx[t].rows]
  BY DEF TxShape, Shaped
<1>3. tx'[t] = [op |-> tx[t].op, at |-> tx[t].at, on |-> tx[t].on, wait |-> locks,
                rows |-> [tx[t].rows EXCEPT !.draft = drafts]]
  BY <1>1, <1>2 DEF TxShape
<1>4. \A u \in Txs \ {t} : tx'[u] = tx[u]
  BY <1>1 DEF TxShape
<1>5. held' = held /\ vars' = vars
  BY DEF Block
<1> QED BY <1>3, <1>4, <1>5 DEF OthersKeep, locks

LEMMA BlockOrdered ==
    ASSUME Committed, Sound, NEW t \in Txs, Ordered(t), Block(t)
    PROVE  Ordered(t)'
<1>1. /\ tx'[t].op = tx[t].op /\ tx'[t].on = tx[t].on /\ tx'[t].at = tx[t].at
      /\ tx'[t].wait = Selected(t) /\ held' = held /\ vars' = vars
  BY BlockFields DEF Sound
<1>2. draft' = draft /\ job' = job
  BY <1>1 DEF vars
<1>3. ASSUME tx[t].op = "complete", tx[t].at = "owned"
      PROVE  /\ \A lock \in held'[t] : \E d \in Drafts :
                   lock = DraftLock(d) /\ draft'[d].status # "absent"
                   /\ tx[t].on.job \in SlotJobs(draft'[d])
             /\ tx'[t].wait # {} /\ held'[t] # {} => job'[tx[t].on.job].status \in Unfinished
  <2> DEFINE w == tx[t].on.worker
  <2>1. ~Free(t, Selected(t))
    BY DEF Block
  <2>2. Selected(t) # {}
    BY <2>1 DEF Free
  <2>3. Owned(w)
    BY <1>3, <2>2, SelectedAt
  <2>4. attempt[w].job = tx[t].on.job
    BY <1>3, OpOfSound DEF Sound, Completing
  <2>5. job[tx[t].on.job].status \in Unfinished
    BY <2>3, <2>4 DEF Owned
  <2>6. \A lock \in held[t] : \E d \in Drafts :
           lock = DraftLock(d) /\ draft[d].status # "absent" /\ tx[t].on.job \in SlotJobs(draft[d])
    BY <1>3 DEF Ordered
  <2> QED BY <1>1, <1>2, <2>5, <2>6
<1> DEFINE none == {}
           at == tx[t].at
<1>4. held'[t] = held[t] \cup none /\ (\A lock : lock \notin none) /\ tx'[t].at = at
  BY <1>1
<1>5. tx[t].op = "complete" /\ at = "owned" => tx[t].op = "complete" /\ tx[t].at = "owned"
  OBVIOUS
<1>6. HeldAt(tx[t].at) \subseteq HeldAt(at)
  OBVIOUS
<1> HIDE DEF none, at
<1> QED BY <1>1, <1>3, <1>4, <1>5, <1>6, OrderedNext

LEMMA BeginOrdered ==
    ASSUME Sound, NEW t \in Txs, UserBegins(t) \/ WorkerBegins(t)
    PROVE  Ordered(t)' /\ OthersKeep(t)
<1>1. PICK op, on, at : Begin(t, op, on, at)
  BY Zenon DEF UserBegins, WorkerBegins, BeginStore, BeginCancelJob, BeginSweep, BeginCloseDraft,
               BeginComplete, BeginSettle
<1>2. tx'[t].wait = {} /\ held' = held /\ tx[t] = Closedtx /\ OthersKeep(t)
  BY <1>1, AfterBegin DEF Sound
<1>3. held[t] = {}
  BY <1>2, OpOfSound DEF Sound, SoundTx, Closedtx
<1> QED BY <1>2, <1>3, HoldsNothing

LEMMA SameOrdered ==
    ASSUME NEW t, tx'[t] = tx[t], held'[t] = held[t], draft' = draft, job' = job, Ordered(t)
    PROVE  Ordered(t)'
<1>1. HeldAt(tx[t].at)' = HeldAt(tx[t].at) /\ \A j : JobLock(j)' = JobLock(j)
  BY DEF HeldAt, Tables, JobLock
<1> QED BY <1>1 DEF Ordered, DraftLock

LEMMA CloseOrdered ==
    ASSUME Sound, NEW t \in Txs, Close(t)
    PROVE  Ordered(t)' /\ OthersKeep(t)
<1>1. OthersKeep(t) /\ tx'[t] = Closedtx /\ held'[t] = {}
  BY AfterClose DEF Sound
<1>2. tx'[t].wait = {}
  BY <1>1 DEF Closedtx
<1> QED BY <1>1, <1>2, HoldsNothing

LEMMA StatementOrdered ==
    ASSUME Committed, Sound, NEW t \in Txs, Ordered(t), Statement(t)
    PROVE  Ordered(t)' /\ OthersKeep(t)
<1>1. TxShape
  BY DEF Sound
<1>2. CASE Commit(t) \/ Rollback(t) \/ SettleBusy(t) \/ (WriteCompletion(t) /\ Close(t))
  <2>1. Close(t)
    BY <1>2 DEF Commit, Rollback, SettleBusy
  <2> QED BY <2>1, CloseOrdered
<1>3. CASE LockDrafts(t) \/ LockJob(t) \/ WriteCancellation(t) \/ SyncDrafts(t)
           \/ (WriteCompletion(t) /\ ~Close(t))
  <2>1. \E kept, at, rows : Proceed(t, kept, at, rows)
    BY <1>3, Zenon DEF LockDrafts, LockJob, WriteCancellation, SyncDrafts, WriteCompletion
  <2> QED BY <1>1, <1>3, <2>1, EndingOrdered, ProceedFields
<1>4. CASE WriteDraft(t) \/ AbortSubs(t) \/ CancelJobs(t)
  <2>1. \E kept, at, rows : Proceed(t, kept, at, rows)
    BY <1>4, Zenon DEF WriteDraft, AbortSubs, CancelJobs
  <2> QED BY <1>1, <1>4, <2>1, ClosingOrdered, ProceedFields
<1>5. CASE LockImages(t) \/ StageImages(t)
  <2>1. \E kept, at, rows : Proceed(t, kept, at, rows)
    BY <1>5, Zenon DEF LockImages, StageImages
  <2> QED BY <1>1, <1>5, <2>1, ImagesOrdered, ProceedFields
<1>6. CASE LockRow(t) \/ CheckMember(t) \/ LockStoreImage(t) \/ InsertJob(t) \/ SettleSub(t)
  <2>1. \E kept, at, rows : Proceed(t, kept, at, rows)
    BY <1>6, Zenon DEF LockRow, CheckMember, LockStoreImage, InsertJob, SettleSub
  <2> QED BY <1>1, <1>6, <2>1, StoringOrdered, ProceedFields
<1>7. CASE Block(t)
  BY <1>1, <1>7, BlockOrdered, BlockFields
<1> QED BY <1>2, <1>3, <1>4, <1>5, <1>6, <1>7, Zenon DEF Statement

LEMMA OrderedStep ==
    ASSUME Committed, Sound, \A t \in Txs : Ordered(t), [TxNext]_allVars
    PROVE  \A t \in Txs : Ordered(t)'
<1>1. ASSUME NEW t \in Txs, OthersKeep(t), vars' = vars, Ordered(t)'
      PROVE  \A u \in Txs : Ordered(u)'
  <2>1. draft' = draft /\ job' = job
    BY <1>1 DEF vars
  <2>2. ASSUME NEW u \in Txs \ {t} PROVE Ordered(u)'
    BY <1>1, <2>1, SameOrdered DEF OthersKeep
  <2> QED BY <1>1, <2>2
<1>2. ASSUME NEW t \in Txs, Statement(t), ~Commit(t), ~WriteCompletion(t)
      PROVE  \A u \in Txs : Ordered(u)'
  <2>1. vars' = vars
    <3>1. \/ LockDrafts(t) \/ LockJob(t) \/ WriteCancellation(t) \/ SyncDrafts(t)
          \/ WriteDraft(t) \/ AbortSubs(t) \/ CancelJobs(t) \/ LockImages(t) \/ StageImages(t)
          \/ LockRow(t) \/ CheckMember(t) \/ LockStoreImage(t) \/ InsertJob(t)
          \/ SettleBusy(t) \/ SettleSub(t) \/ Block(t) \/ Rollback(t)
      BY <1>2, Zenon DEF Statement
    <3> QED BY <3>1, StatementQuiet
  <2> QED BY <1>1, <1>2, <2>1, StatementOrdered
<1>3. ASSUME NEW t \in Txs, WriteCompletion(t) PROVE \A u \in Txs : Ordered(u)'
  <2>1. Ordered(t)' /\ OthersKeep(t)
    BY <1>3, StatementOrdered DEF Statement
  <2>2. draft' = draft /\ job' = job
    <3>1. \A kept, at, rows : Proceed(t, kept, at, rows) => draft' = draft /\ job' = job
      BY DEF Proceed, vars
    <3> QED BY <1>3, <3>1, Zenon DEF WriteCompletion
  <2>3. ASSUME NEW u \in Txs \ {t} PROVE Ordered(u)'
    BY <2>1, <2>2, SameOrdered DEF OthersKeep
  <2> QED BY <2>1, <2>3
<1>4. ASSUME NEW t \in Txs, Commit(t) PROVE \A u \in Txs : Ordered(u)'
  <2>1. Ordered(t)'
    BY <1>4, StatementOrdered DEF Statement
  <2>2. ASSUME NEW u \in Txs \ {t} PROVE Ordered(u)'
    <3>1. LeftAlone(u)
      BY <1>4, CommitSound
    <3> QED BY <3>1, OrderedKept DEF Sound
  <2> QED BY <2>1, <2>2
<1>5. ASSUME NEW t \in Txs, UserBegins(t) \/ WorkerBegins(t) PROVE \A u \in Txs : Ordered(u)'
  BY <1>1, <1>5, BeginOrdered, StatementQuiet
<1>6. CASE Brief
  BY <1>6, BriefSound, OrderedKept DEF Sound
<1>7. CASE UNCHANGED allVars
  <2>1. tx' = tx /\ held' = held /\ draft' = draft /\ job' = job
    BY <1>7 DEF allVars, txVars, vars
  <2> QED BY <2>1, SameOrdered
<1> QED BY <1>2, <1>3, <1>4, <1>5, <1>6, <1>7 DEF TxNext

(* Every session holds only locks that come before the statement it has      *)
(* reached, but for cancelQueued's second look at the drafts.                *)
THEOREM LocksAreOrdered == TxSpec => [](\A t \in Txs : Ordered(t))
<1>1. TxInit => \A t \in Txs : Ordered(t)
  <2>1. TxInit => \A t \in Txs : tx[t] = Closedtx /\ held[t] = {}
    BY DEF TxInit
  <2> QED BY <2>1 DEF Ordered, Closedtx
<1>2. (Committed /\ Sound) /\ (\A t \in Txs : Ordered(t)) /\ [TxNext]_allVars
         => (\A t \in Txs : Ordered(t))'
  BY OrderedStep
<1> QED BY <1>1, <1>2, SessionsAreSound, PTL DEF TxSpec
----------------------------------------------------------------------------
(* Groups that wait for one another.                                         *)

(* Which statements wait, and for what.                                      *)
LEMMA WaitingAt ==
    ASSUME Sound, NEW t \in Txs, tx[t].wait # {}
    PROVE  /\ tx[t].at \in {"drafts", "row", "owned", "job", "subs", "sub", "jobs", "image",
                            "images", "again", "gate"}
           /\ tx[t].at = "owned" => /\ tx[t].op = "complete" /\ tx[t].on.job \in Jobs
                                    /\ tx[t].wait \subseteq {JobLock(tx[t].on.job)}
           /\ tx[t].at = "job" => tx[t].op = "cancelJob"
           /\ tx[t].at = "again" => /\ tx[t].op = "cancelJob" /\ tx[t].on.job \in Jobs
                                    /\ job[tx[t].on.job].status \in Final
           /\ tx[t].at = "jobs" => /\ tx[t].on.draft \in Drafts
                                   /\ tx[t].wait = {JobLock(j) : j \in QueuedOf(tx[t].on.draft)}
           /\ tx[t].at \in {"subs", "sub"} =>
                 \A lock \in tx[t].wait : lock.table = "ocr_submissions"
           /\ tx[t].at \in {"image", "images"} =>
                 \A lock \in tx[t].wait : lock.table = "source_images"
           /\ tx[t].at = "gate" => tx[t].wait \subseteq {Gate}
<1>1. SoundTx(t)
  BY DEF Sound
<1>2. tx[t].op # "none"
  BY <1>1, OpOfSound DEF Closedtx
<1>3. CASE tx[t].op \in {"complete", "cancelJob"}
  <2>1. Ending(t) /\ (tx[t].op = "complete" => Completing(t)) /\ (tx[t].op = "cancelJob" => Cancelling(t))
    BY <1>1, <1>3, OpOfSound
  <2>2. tx[t].on.job \in Jobs /\ tx[t].at \in {"drafts", "owned", "job", "again"}
    BY <2>1 DEF Ending
  <2>3. /\ tx[t].at \in {"owned", "job"} => tx[t].wait \subseteq {JobLock(tx[t].on.job)}
        /\ tx[t].at = "again" => job[tx[t].on.job].status \in Final
    BY <2>1 DEF Ending
  <2>4. /\ tx[t].op = "complete" => tx[t].at \notin {"job", "again"}
        /\ tx[t].op = "cancelJob" => tx[t].at # "owned"
    BY <2>1 DEF Completing, Cancelling
  <2> QED BY <1>3, <2>2, <2>3, <2>4
<1>4. CASE tx[t].op \in {"cancelDraft", "confirm"}
  <2>1. Closing(t)
    BY <1>1, <1>4, OpOfSound
  <2>2. tx[t].on.draft \in Drafts /\ tx[t].at \in {"row", "subs", "jobs", "images"}
    BY <2>1 DEF Closing
  <2>3. /\ tx[t].at = "subs" => tx[t].wait = {SubLock(s) : s \in OpenOf(tx[t].on.draft)}
        /\ tx[t].at = "jobs" => tx[t].wait = {JobLock(j) : j \in QueuedOf(tx[t].on.draft)}
        /\ tx[t].at = "images" => tx[t].wait = {ImageLock(j) : j \in SlotJobs(draft[tx[t].on.draft])}
    BY <2>1 DEF Closing
  <2> QED BY <1>4, <2>2, <2>3, LockTables
<1>5. CASE tx[t].op = "sweep"
  <2>1. tx[t].at = "image" /\ tx[t].wait \subseteq {ImageLock(tx[t].on.job)}
    BY <1>1, <1>5, OpOfSound DEF Sweeping
  <2> QED BY <1>5, <2>1, LockTables
<1>6. CASE tx[t].op = "store"
  <2>1. Storing(t)
    BY <1>1, <1>6, OpOfSound
  <2>2. tx[t].at \in {"row", "sub", "image", "gate"}
    BY <2>1 DEF Storing
  <2>3. /\ tx[t].at = "sub" => tx[t].wait \subseteq {SubLock(tx[t].on.sub)}
        /\ tx[t].at = "image" => tx[t].wait \subseteq {ImageLock(tx[t].on.job)}
        /\ tx[t].at = "gate" => tx[t].wait \subseteq {Gate}
    BY <2>1 DEF Storing
  <2> QED BY <1>6, <2>2, <2>3, LockTables
<1>7. CASE tx[t].op = "settle"
  BY <1>1, <1>7, OpOfSound DEF Settling
<1> QED BY <1>1, <1>2, <1>3, <1>4, <1>5, <1>6, <1>7, OpOfSound

(* In a group that waits for nobody outside it, nobody waits for the gate,   *)
(* for an image, for a queued job or for a submission: whoever holds such a  *)
(* lock and waits is further on, and the order of the locks ends.  What is   *)
(* left holds no lock, or is a cancellation.                                 *)
LEMMA OnlyCancellationsHold ==
    ASSUME Committed, Sound, \A t \in Txs : Ordered(t),
           NEW group \in SUBSET Txs, \A t \in group : \E u \in group : WaitsFor(t, u)
    PROVE  \A t \in group : held[t] = {} \/ tx[t].op = "cancelJob"
<1>1. \A t \in group : t \in Txs /\ tx[t].wait # {}
  BY DEF WaitsFor
<1>2. \A t \in group : \E u \in group : \E lock \in tx[t].wait :
         lock \in held[u] /\ lock.table \in HeldAt(tx[u].at)
  BY <1>1 DEF WaitsFor, Ordered
<1>3. \A t \in group : tx[t].at # "gate"
  <2>1. SUFFICES ASSUME NEW t \in group, tx[t].at = "gate" PROVE FALSE
    OBVIOUS
  <2>2. PICK u \in group, lock \in tx[t].wait : lock.table \in HeldAt(tx[u].at)
    BY <1>2
  <2>3. lock.table = "active_limit"
    BY <1>1, <2>1, WaitingAt, LockTables
  <2> QED BY <1>1, <2>2, <2>3, WaitingAt, HeldAtParts
<1>4. \A t \in group : tx[t].at \notin {"image", "images"}
  <2>1. SUFFICES ASSUME NEW t \in group, tx[t].at \in {"image", "images"} PROVE FALSE
    OBVIOUS
  <2>2. PICK u \in group, lock \in tx[t].wait : lock.table \in HeldAt(tx[u].at)
    BY <1>2
  <2>3. lock.table = "source_images"
    BY <1>1, <2>1, WaitingAt
  <2> QED BY <1>1, <1>3, <2>2, <2>3, WaitingAt, HeldAtParts
<1>5. ASSUME NEW u \in group, NEW j \in Jobs, JobLock(j) \in held[u]
      PROVE  tx[u].op = "cancelJob" /\ job[j].status \in Final
  <2>1. "ocr_jobs" \in HeldAt(tx[u].at)
    BY <1>1, <1>5, LockTables DEF Ordered
  <2>2. tx[u].at = "again"
    BY <1>1, <1>3, <1>4, <2>1, WaitingAt, HeldAtParts
  <2>3. tx[u].op = "cancelJob" /\ job[tx[u].on.job].status \in Final
    BY <1>1, <2>2, WaitingAt
  <2>4. j = tx[u].on.job
    BY <1>1, <1>5, <2>3 DEF Ordered
  <2> QED BY <2>3, <2>4
<1>6. \A t \in group : tx[t].at # "jobs"
  <2>1. SUFFICES ASSUME NEW t \in group, tx[t].at = "jobs" PROVE FALSE
    OBVIOUS
  <2> DEFINE d == tx[t].on.draft
  <2>2. d \in Drafts /\ tx[t].wait = {JobLock(j) : j \in QueuedOf(d)}
    BY <1>1, <2>1, WaitingAt
  <2> HIDE DEF d
  <2>3. PICK u \in group, j \in QueuedOf(d) : JobLock(j) \in held[u]
    BY <1>2, <2>2
  <2>4. j \in Jobs /\ job[j].status = "queued"
    BY <2>2, SlotJobsAreJobs DEF QueuedOf, Committed, TypeOK
  <2> QED BY <1>5, <2>3, <2>4
<1>7. \A t \in group : tx[t].at \notin {"subs", "sub"}
  <2>1. SUFFICES ASSUME NEW t \in group, tx[t].at \in {"subs", "sub"} PROVE FALSE
    OBVIOUS
  <2>2. PICK u \in group, lock \in tx[t].wait : lock.table \in HeldAt(tx[u].at)
    BY <1>2
  <2>3. lock.table = "ocr_submissions"
    BY <1>1, <2>1, WaitingAt
  <2> QED BY <1>1, <1>3, <1>4, <1>6, <2>2, <2>3, WaitingAt, HeldAtParts
<1>8. \A t \in group : tx[t].at = "owned" => held[t] = {}
  <2>1. SUFFICES ASSUME NEW t \in group, tx[t].at = "owned", held[t] # {} PROVE FALSE
    OBVIOUS
  <2> DEFINE j == tx[t].on.job
  <2>2. tx[t].op = "complete" /\ j \in Jobs /\ tx[t].wait \subseteq {JobLock(j)}
    BY <1>1, <2>1, WaitingAt
  <2>3. job[j].status \in Unfinished
    BY <1>1, <2>1, <2>2 DEF Ordered
  <2>4. PICK u \in group : JobLock(j) \in held[u]
    BY <1>2, <2>2
  <2> QED BY <1>5, <2>2, <2>3, <2>4
<1>9. \A t \in group : tx[t].at \in {"drafts", "row"} => held[t] = {}
  BY <1>1, HeldAtParts DEF Ordered
<1>10. \A t \in group : tx[t].at \in {"job", "again"} => tx[t].op = "cancelJob"
  BY <1>1, WaitingAt
<1>11. \A t \in group : tx[t].at \in {"drafts", "row", "owned", "job", "again"}
  BY <1>1, <1>3, <1>4, <1>6, <1>7, WaitingAt
<1> QED BY <1>8, <1>9, <1>10, <1>11

LEMMA OnlyCancellationsRing ==
    Committed /\ Sound /\ (\A t \in Txs : Ordered(t)) => OnlyCancellationsDeadlock
<1> SUFFICES ASSUME Committed, Sound, \A t \in Txs : Ordered(t), NEW group \in SUBSET Txs,
                    InARing(group)
             PROVE  \E ring \in SUBSET group :
                       InARing(ring) /\ \A t \in ring : tx[t].op = "cancelJob"
  BY DEF OnlyCancellationsDeadlock
<1> DEFINE ring == {t \in group : held[t] # {}}
<1>1. \A t \in group : \E u \in group : WaitsFor(t, u)
  BY DEF InARing
<1>2. \A t \in group : \E u \in ring : WaitsFor(t, u)
  BY <1>1 DEF WaitsFor
<1>3. ring # {}
  BY <1>2 DEF InARing
<1>4. \A t \in ring : tx[t].op = "cancelJob"
  BY <1>1, OnlyCancellationsHold
<1> QED BY <1>2, <1>3, <1>4 DEF InARing

(* Whatever the number of sessions, a deadlock needs cancellations of queued *)
(* jobs that wait for one another: the lock order of control.rs rules out    *)
(* every other ring.                                                         *)
THEOREM OnlyCancellationsDeadlockHolds == TxSpec => []OnlyCancellationsDeadlock
BY SessionsAreSound, LocksAreOrdered, OnlyCancellationsRing, PTL
============================================================================
