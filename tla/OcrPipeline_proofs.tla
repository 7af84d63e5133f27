------------------------- MODULE OcrPipeline_proofs -------------------------
(* Proofs about OcrPipeline, for any number of drafts, slots, submissions,   *)
(* jobs and Workers and any limits.                                          *)
EXTENDS OcrPipeline, TLAPS

USE DEF Unfinished, Final, LiveLease, Lease, JobStatus, Editable,
        NonTerminalDraft, DraftStatus, SubmissionStatus, Closed, MemberState
----------------------------------------------------------------------------
(* What the helpers return.                                                  *)

(* A row whose status, owner, lease and clocks are rewritten is a row        *)
LEMMA RewrittenRow ==
    ASSUME NEW row \in JobRow, NEW status \in JobStatus,
           NEW owner \in Workers \cup {NoWorker}, NEW lease \in Lease,
           NEW due \in BOOLEAN, NEW age \in 0..2
    PROVE  [row EXCEPT !.status = status, !.owner = owner, !.lease = lease,
                       !.due = due, !.age = age] \in JobRow
<1> DEFINE row1 == [row EXCEPT !.status = status]
           row2 == [row1 EXCEPT !.owner = owner]
           row3 == [row2 EXCEPT !.lease = lease]
           row4 == [row3 EXCEPT !.due = due]
           row5 == [row4 EXCEPT !.age = age]
<1>1. row1 \in JobRow
  BY DEF JobRow
<1> HIDE DEF row1
<1>2. row2 \in JobRow
  BY <1>1 DEF JobRow
<1> HIDE DEF row2
<1>3. row3 \in JobRow
  BY <1>2 DEF JobRow
<1> HIDE DEF row3
<1>4. row4 \in JobRow
  BY <1>3 DEF JobRow
<1> HIDE DEF row4
<1>5. row5 \in JobRow
  BY <1>4 DEF JobRow
<1> QED BY <1>5 DEF row1, row2, row3, row4, row5

LEMMA FinishedRow ==
    ASSUME NEW row \in JobRow, NEW status \in Final
    PROVE  Finished(row, status) \in JobRow
<1>1. /\ status \in JobStatus /\ NoWorker \in Workers \cup {NoWorker}
      /\ "none" \in Lease /\ FALSE \in BOOLEAN /\ 0 \in 0..2
  OBVIOUS
<1>2. [row EXCEPT !.status = status, !.owner = NoWorker, !.lease = "none",
                  !.due = FALSE, !.age = 0] \in JobRow
  BY <1>1, RewrittenRow, Zenon
<1> QED BY <1>2 DEF Finished

LEMMA RequeuedRow ==
    ASSUME NEW row \in JobRow, NEW dueNow \in BOOLEAN
    PROVE  Requeued(row, dueNow) \in JobRow
<1> DEFINE row4 == [row EXCEPT !.status = "queued", !.owner = NoWorker,
                               !.lease = "none", !.due = dueNow]
<1>1. (IF row4.age > 0 THEN 1 ELSE 0) \in 0..2
  BY DEF JobRow
<1>2. "queued" \in JobStatus /\ NoWorker \in Workers \cup {NoWorker} /\ "none" \in Lease
  OBVIOUS
<1>3. [row EXCEPT !.status = "queued", !.owner = NoWorker, !.lease = "none",
                  !.due = dueNow, !.age = IF row4.age > 0 THEN 1 ELSE 0] \in JobRow
  BY <1>1, <1>2, RewrittenRow, Zenon
<1> QED BY <1>3, Zenon DEF Requeued

LEMMA CountedRow ==
    ASSUME NEW row \in JobRow
    PROVE  /\ [row EXCEPT !.retries = @ + 1] \in JobRow
           /\ [row EXCEPT !.recoveries = @ + 1] \in JobRow
BY DEF JobRow

LEMMA DueRow ==
    ASSUME NEW row \in JobRow
    PROVE  [row EXCEPT !.due = TRUE] \in JobRow
BY DEF JobRow

LEMMA RetriedRow ==
    ASSUME NEW row \in JobRow
    PROVE  Retried(row) \in JobRow
<1>1. Requeued(row, FALSE) \in JobRow
  BY RequeuedRow
<1> QED BY <1>1, CountedRow, Zenon DEF Retried

LEMMA NewJobRow == NewJob \in JobRow
BY NullsAssumption DEF NewJob, JobRow

LEMMA QueuedJobRow == QueuedJob \in JobRow
<1> DEFINE row1 == [NewJob EXCEPT !.status = "queued"]
           row2 == [row1 EXCEPT !.due = TRUE]
           row3 == [row2 EXCEPT !.image = "available"]
<1> HIDE DEF row1, row2, row3
<1>1. row1 \in JobRow
  BY NewJobRow DEF row1, JobRow
<1>2. row2 \in JobRow
  BY <1>1, DueRow DEF row2
<1>3. row3 \in JobRow
  BY <1>2 DEF row3, JobRow
<1> QED BY <1>3 DEF QueuedJob, row1, row2, row3

LEMMA RecoveredRow ==
    ASSUME NEW row \in JobRow
    PROVE  Recovered(row) \in JobRow
<1>1. CASE Recovered(row) = row
  BY <1>1
<1>2. CASE Recovered(row) = Finished(row, "failed")
  BY <1>2, FinishedRow
<1>3. CASE Recovered(row) = [Requeued(row, TRUE) EXCEPT !.recoveries = @ + 1]
  <2>1. Requeued(row, TRUE) \in JobRow
    BY RequeuedRow
  <2> QED BY <1>3, <2>1, CountedRow, Zenon
<1> QED BY <1>1, <1>2, <1>3 DEF Recovered

LEMMA AcquiredRow ==
    ASSUME NEW row \in JobRow, NEW w \in Workers
    PROVE  Acquired(row, w) \in JobRow
<1> DEFINE age == IF row.age > 0 THEN 1 ELSE 0
           row1 == [row EXCEPT !.status = "running"]
           row2 == [row1 EXCEPT !.owner = w]
           row3 == [row2 EXCEPT !.fence = row.fence + 1]
           row4 == [row3 EXCEPT !.lease = "fresh"]
           row5 == [row4 EXCEPT !.age = age]
<1>1. row1 \in JobRow
  BY DEF JobRow
<1> HIDE DEF row1
<1>2. row2 \in JobRow
  BY <1>1 DEF JobRow
<1> HIDE DEF row2
<1>3. row3 \in JobRow
  BY <1>2 DEF JobRow
<1> HIDE DEF row3
<1>4. row4 \in JobRow
  BY <1>3 DEF JobRow
<1> HIDE DEF row4
<1>5. row5 \in JobRow
  BY <1>4 DEF JobRow
<1>6. Acquired(row, w) = row5
  BY DEF Acquired, row1, row2, row3, row4
<1> QED BY <1>5, <1>6

LEMMA StagedRows ==
    ASSUME NEW images, NEW drafts, NEW subs, NEW jobs \in [Jobs -> JobRow]
    PROVE  StageDeletion(images, drafts, subs, jobs) \in [Jobs -> JobRow]
BY DEF StageDeletion, JobRow

LEMMA CancelledRows ==
    ASSUME TypeOK, NEW row
    PROVE  CancelQueuedIn(row) \in [Jobs -> JobRow]
BY FinishedRow DEF CancelQueuedIn, TypeOK

LEMMA ProjectedRows ==
    ASSUME TypeOK, NEW jobs, NEW j
    PROVE  Project(jobs, j) \in [Drafts -> DraftRow]
BY DEF Project, ProjectedStatus, TypeOK, DraftRow

LEMMA AbortedRows ==
    ASSUME TypeOK, NEW d
    PROVE  Aborted(d) \in [Submissions -> SubmissionRow]
BY DEF Aborted, TypeOK, SubmissionRow

LEMMA FinishTypes ==
    ASSUME TypeOK, NEW j \in Jobs, NEW status \in Final, Finish(j, status)
    PROVE  /\ job' \in [Jobs -> JobRow]
           /\ draft' \in [Drafts -> DraftRow]
BY FinishedRow, ProjectedRows DEF Finish, TypeOK

LEMMA EndAttemptTypes ==
    ASSUME TypeOK, NEW w \in Workers, EndAttempt(w)
    PROVE  attempt' \in [Workers -> Attempt]
BY DEF EndAttempt, TypeOK, Attempt, Idle
----------------------------------------------------------------------------
(* Type correctness.                                                         *)

LEMMA InitTypes == Init => TypeOK
BY NullsAssumption DEF Init, TypeOK, DraftRow, SubmissionRow, JobRow, Attempt, NewJob,
       Idle, EmptySlots

LEMMA UserTypes == TypeOK /\ UserNext => TypeOK'
<1> SUFFICES ASSUME TypeOK, UserNext PROVE TypeOK'
  OBVIOUS
<1> USE DEF TypeOK
<1>1. ASSUME NEW d \in Drafts, NEW status \in NonTerminalDraft, CreateDraft(d, status)
      PROVE  TypeOK'
  BY <1>1 DEF CreateDraft, DraftRow
<1>2. ASSUME NEW d \in Drafts, NEW status \in Editable, UpdateDraft(d, status)
      PROVE  TypeOK'
  BY <1>2 DEF UpdateDraft, DraftRow
<1>3. ASSUME NEW d \in Drafts, CancelDraft(d)
      PROVE  TypeOK'
  <2>1. draft' \in [Drafts -> DraftRow]
    BY <1>3 DEF CancelDraft, DraftRow, EmptySlots
  <2>2. sub' \in [Submissions -> SubmissionRow]
    BY <1>3, AbortedRows DEF CancelDraft
  <2>3. job' \in [Jobs -> JobRow]
    BY <1>3, StagedRows, CancelledRows DEF CancelDraft
  <2> QED BY <1>3, <2>1, <2>2, <2>3 DEF CancelDraft
<1>4. ASSUME NEW d \in Drafts, ConfirmDraft(d)
      PROVE  TypeOK'
  <2>1. draft' \in [Drafts -> DraftRow]
    BY <1>4 DEF ConfirmDraft, DraftRow
  <2>2. sub' \in [Submissions -> SubmissionRow]
    BY <1>4, AbortedRows DEF ConfirmDraft
  <2>3. job' \in [Jobs -> JobRow]
    BY <1>4, StagedRows DEF ConfirmDraft
  <2> QED BY <1>4, <2>1, <2>2, <2>3 DEF ConfirmDraft
<1>5. ASSUME NEW d \in Drafts, DeleteMatch(d)
      PROVE  TypeOK'
  BY <1>5 DEF DeleteMatch, DraftRow, EmptySlots
<1>6. ASSUME NEW s \in Submissions, NEW d \in Drafts,
             NEW screens \in SUBSET Slots \ {{}}, PutSubmission(s, d, screens)
      PROVE  TypeOK'
  <2>1. draft' \in [Drafts -> DraftRow]
    BY <1>6 DEF PutSubmission, DraftRow
  <2>2. sub' \in [Submissions -> SubmissionRow]
    BY <1>6 DEF PutSubmission, SubmissionRow
  <2> QED BY <1>6, <2>1, <2>2 DEF PutSubmission
<1>7. ASSUME NEW s \in Submissions, NEW k \in Slots, FailAdmission(s, k)
      PROVE  TypeOK'
  BY <1>7 DEF FailAdmission, SubmissionRow
<1>8. ASSUME NEW s \in Submissions, NEW k \in Slots, NEW j \in Jobs, StoreJob(s, k, j)
      PROVE  TypeOK'
  <2>1. draft' \in [Drafts -> DraftRow]
    BY <1>8 DEF StoreJob, DraftRow
  <2>2. sub' \in [Submissions -> SubmissionRow]
    BY <1>8 DEF StoreJob, SubmissionRow
  <2>3. job' \in [Jobs -> JobRow]
    BY <1>8, QueuedJobRow DEF StoreJob
  <2> QED BY <1>8, <2>1, <2>2, <2>3 DEF StoreJob
<1>9. ASSUME NEW j \in Jobs, CancelQueued(j)
      PROVE  TypeOK'
  BY <1>9, FinishTypes DEF CancelQueued
<1>10. ASSUME NEW j \in Jobs, SweepImage(j)
       PROVE  TypeOK'
  BY <1>10 DEF SweepImage, JobRow
<1> QED BY <1>1, <1>2, <1>3, <1>4, <1>5, <1>6, <1>7, <1>8, <1>9, <1>10 DEF UserNext

LEMMA WorkerTypes == TypeOK /\ WorkerNext => TypeOK'
<1> SUFFICES ASSUME TypeOK, WorkerNext PROVE TypeOK'
  OBVIOUS
<1> USE DEF TypeOK
<1>1. ASSUME NEW w \in Workers, NEW j \in Jobs, Claim(w, j)
      PROVE  TypeOK'
  <2> DEFINE row == Recovered(job[j])
  <2>1. row \in JobRow
    BY RecoveredRow
  <2>2. CASE /\ job' = [job EXCEPT ![j] = Acquired(row, w)]
             /\ attempt' = [attempt EXCEPT ![w] = [job |-> j, fence |-> row.fence + 1]]
             /\ UNCHANGED <<draft, sub>>
    <3>1. Acquired(row, w) \in JobRow
      BY <2>1, AcquiredRow
    <3>2. [job |-> j, fence |-> row.fence + 1] \in Attempt
      BY <2>1 DEF Attempt, JobRow
    <3> QED BY <2>2, <3>1, <3>2
  <2>3. CASE /\ job' = [job EXCEPT ![j] = Finished(row, "failed")]
             /\ draft' = Project(job', j)
             /\ UNCHANGED <<sub, attempt>>
    <3>1. Finished(row, "failed") \in JobRow
      BY <2>1, FinishedRow
    <3>2. job' \in [Jobs -> JobRow]
      BY <2>3, <3>1
    <3> QED BY <2>3, <3>2, ProjectedRows
  <2> QED BY <1>1, <2>2, <2>3 DEF Claim
<1>2. ASSUME NEW w \in Workers, Heartbeat(w)
      PROVE  TypeOK'
  BY <1>2 DEF Heartbeat, Owned, JobRow
<1>3. ASSUME NEW w \in Workers, AttemptEnds(w)
      PROVE  TypeOK'
  <2>1. EndAttempt(w) /\ UNCHANGED sub
    BY <1>3 DEF AttemptEnds, FinishSuccess, FinishFailure, RequeueTransient,
                RequeueInterrupted, OwnerLost, Abandon
  <2>2. /\ job' \in [Jobs -> JobRow]
        /\ draft' \in [Drafts -> DraftRow]
    <3>1. CASE FinishSuccess(w) \/ FinishFailure(w)
      BY <3>1, FinishTypes DEF FinishSuccess, FinishFailure, Owned
    <3>2. CASE RequeueTransient(w)
      <4>1. attempt[w].job \in Jobs
        BY <3>2 DEF RequeueTransient, Owned
      <4>2. CASE Finish(attempt[w].job, "failed")
        BY <4>1, <4>2, FinishTypes
      <4>3. CASE /\ job' = [job EXCEPT ![attempt[w].job] = Retried(@)]
                 /\ UNCHANGED draft
        BY <4>1, <4>3, RetriedRow
      <4> QED BY <3>2, <4>2, <4>3 DEF RequeueTransient
    <3>3. CASE RequeueInterrupted(w)
      BY <3>3, RequeuedRow DEF RequeueInterrupted, Owned
    <3>4. CASE OwnerLost(w) \/ Abandon(w)
      BY <3>4 DEF OwnerLost, Abandon
    <3> QED BY <1>3, <3>1, <3>2, <3>3, <3>4 DEF AttemptEnds
  <2> QED BY <2>1, <2>2, EndAttemptTypes
<1>4. ASSUME NEW j \in Jobs, ReapStale(j)
      PROVE  TypeOK'
  BY <1>4, FinishTypes DEF ReapStale
<1>5. ASSUME NEW s \in Submissions, Settle(s)
      PROVE  TypeOK'
  <2>1. draft' \in [Drafts -> DraftRow]
    BY <1>5 DEF Settle, ProjectEmptyDraft, DraftRow
  <2>2. sub' \in [Submissions -> SubmissionRow]
    <3> DEFINE members == Expired(sub[s].members, sub[s].late)
    <3>1. members \in [Slots -> MemberState]
      BY DEF Expired, SubmissionRow
    <3>2. /\ [sub[s] EXCEPT !.status = "aborted"] \in SubmissionRow
          /\ [sub[s] EXCEPT !.members = members] \in SubmissionRow
          /\ [sub[s] EXCEPT !.members = members, !.status = "settled"] \in SubmissionRow
      BY <3>1 DEF SubmissionRow
    <3>3. \/ sub' = [sub EXCEPT ![s] = [sub[s] EXCEPT !.status = "aborted"]]
          \/ sub' = [sub EXCEPT ![s] = [sub[s] EXCEPT !.members = members]]
          \/ sub' = [sub EXCEPT ![s] = [sub[s] EXCEPT !.members = members,
                                                     !.status = "settled"]]
      BY <1>5 DEF Settle
    <3> QED BY <3>2, <3>3
  <2> QED BY <1>5, <2>1, <2>2 DEF Settle
<1>6. ASSUME NEW j \in Jobs, Recover(j)
      PROVE  TypeOK'
  <2>1. job' \in [Jobs -> JobRow]
    BY <1>6, RecoveredRow DEF Recover
  <2>2. draft' \in [Drafts -> DraftRow]
    BY <1>6, ProjectedRows DEF Recover
  <2> QED BY <1>6, <2>1, <2>2 DEF Recover
<1> QED BY <1>1, <1>2, <1>3, <1>4, <1>5, <1>6 DEF WorkerNext

LEMMA TimeTypes == TypeOK /\ TimeNext => TypeOK'
<1> SUFFICES ASSUME TypeOK, TimeNext PROVE TypeOK'
  OBVIOUS
<1> USE DEF TypeOK
<1>1. ASSUME NEW j \in Jobs, LeaseAges(j)
      PROVE  TypeOK'
  <2>1. [job[j] EXCEPT !.lease = "late"] \in JobRow /\ [job[j] EXCEPT !.lease = "expired"] \in JobRow
    BY DEF JobRow
  <2> QED BY <1>1, <2>1 DEF LeaseAges
<1>4. ASSUME NEW j \in Jobs, BecomesDue(j)
      PROVE  TypeOK'
  BY <1>4, DueRow DEF BecomesDue
<1>2. ASSUME NEW j \in Jobs, JobAges(j)
      PROVE  TypeOK'
  BY <1>2 DEF JobAges, Stale, JobRow
<1>3. ASSUME NEW s \in Submissions, DeadlinePasses(s)
      PROVE  TypeOK'
  BY <1>3 DEF DeadlinePasses, SubmissionRow
<1> QED BY <1>1, <1>2, <1>3, <1>4 DEF TimeNext

(* Every row stays well formed: no transaction writes a status, an owner, a  *)
(* lease or a member outside its column's values, whatever the interleaving. *)
THEOREM TypeCorrect == Spec => []TypeOK
<1>1. TypeOK /\ [Next]_vars => TypeOK'
  BY UserTypes, WorkerTypes, TimeTypes DEF Next, vars, TypeOK
<1> QED BY InitTypes, <1>1, PTL DEF Spec

-----------------------------------------------------------------------------
(* The jobs: what one transaction does to one row, and from it the           *)
(* refinement of JobLifecycle, the budgets, fencing, and the two action      *)
(* properties.                                                               *)
(* What the row helpers do to the columns the lifecycle counts.              *)

SameCounters(old, new) == /\ new.fence = old.fence
                          /\ new.retries = old.retries
                          /\ new.recoveries = old.recoveries

LEMMA FinishedFields ==
    ASSUME NEW row \in JobRow, NEW status \in Final
    PROVE  /\ Finished(row, status).status = status
           /\ SameCounters(row, Finished(row, status))
BY DEF Finished, JobRow, SameCounters

LEMMA RequeuedFields ==
    ASSUME NEW row \in JobRow, NEW dueNow \in BOOLEAN
    PROVE  /\ Requeued(row, dueNow).status = "queued"
           /\ SameCounters(row, Requeued(row, dueNow))
BY DEF Requeued, JobRow, SameCounters

LEMMA RetriedFields ==
    ASSUME NEW row \in JobRow
    PROVE  /\ Retried(row).status = "queued"
           /\ Retried(row).fence = row.fence
           /\ Retried(row).retries = row.retries + 1
           /\ Retried(row).recoveries = row.recoveries
<1>1. Requeued(row, FALSE) \in JobRow
  BY RequeuedRow
<1>2. ASSUME NEW r \in JobRow
      PROVE  LET n == [r EXCEPT !.retries = @ + 1]
             IN  /\ n.status = r.status /\ n.fence = r.fence
                 /\ n.retries = r.retries + 1 /\ n.recoveries = r.recoveries
  BY DEF JobRow
<1>3. Retried(row) = [Requeued(row, FALSE) EXCEPT !.retries = @ + 1]
  BY DEF Retried
<1> QED BY <1>1, <1>2, <1>3, RequeuedFields DEF SameCounters

LEMMA AcquiredFields ==
    ASSUME NEW row \in JobRow, NEW w \in Workers
    PROVE  /\ Acquired(row, w).status = "running"
           /\ Acquired(row, w).fence = row.fence + 1
           /\ Acquired(row, w).retries = row.retries
           /\ Acquired(row, w).recoveries = row.recoveries
BY DEF Acquired, JobRow

LEMMA RecoveredFields ==
    ASSUME NEW row \in JobRow
    PROVE  \/ Recovered(row) = row
           \/ /\ row.status = "running" /\ row.lease = "expired"
              /\ Recovered(row) = Finished(row, "failed")
           \/ /\ row.status = "running" /\ row.lease = "expired"
              /\ row.recoveries < MaxLeaseRecoveries
              /\ Recovered(row).status = "queued"
              /\ Recovered(row).fence = row.fence
              /\ Recovered(row).retries = row.retries
              /\ Recovered(row).recoveries = row.recoveries + 1
<1>1. Requeued(row, TRUE) \in JobRow
  BY RequeuedRow
<1>2. ASSUME NEW r \in JobRow
      PROVE  LET n == [r EXCEPT !.recoveries = @ + 1]
             IN  /\ n.status = r.status /\ n.fence = r.fence
                 /\ n.retries = r.retries /\ n.recoveries = r.recoveries + 1
  BY DEF JobRow
<1>3. CASE row.status = "running" /\ row.lease = "expired"
  <2>1. CASE row.recoveries >= MaxLeaseRecoveries
    BY <1>3, <2>1 DEF Recovered
  <2>2. CASE ~(row.recoveries >= MaxLeaseRecoveries)
    <3>1. Recovered(row) = [Requeued(row, TRUE) EXCEPT !.recoveries = @ + 1]
      BY <1>3, <2>2 DEF Recovered
    <3>2. row.recoveries < MaxLeaseRecoveries
      BY <2>2, LimitsAssumption DEF JobRow
    <3> QED BY <1>1, <1>2, <1>3, <3>1, <3>2, RequeuedFields DEF SameCounters
  <2> QED BY <2>1, <2>2
<1>4. CASE ~(row.status = "running" /\ row.lease = "expired")
  BY <1>4 DEF Recovered
<1> QED BY <1>3, <1>4

LEMMA StagedFields ==
    ASSUME NEW images, NEW drafts, NEW subs, NEW jobs \in [Jobs -> JobRow], NEW j \in Jobs
    PROVE  /\ StageDeletion(images, drafts, subs, jobs)[j].status = jobs[j].status
           /\ SameCounters(jobs[j], StageDeletion(images, drafts, subs, jobs)[j])
BY DEF StageDeletion, JobRow, SameCounters
----------------------------------------------------------------------------
(* A job nobody has stored yet has the counters of a new row.                *)
UnbornRows == \A j \in Jobs : job[j].status = "none" => SameCounters(NewJob, job[j])

(* What one transaction may do to one job: the steps of JobLifecycle.        *)
Quiet(old, new) == new.status = old.status /\ SameCounters(old, new)
Stored(old, new) == old.status = "none" /\ new.status = "queued" /\ SameCounters(old, new)
Claimed(old, new) == /\ old.status = "queued" /\ new.status = "running"
                     /\ new.fence = old.fence + 1
                     /\ new.retries = old.retries /\ new.recoveries = old.recoveries
Reclaimed(old, new) == /\ old.status = "running" /\ new.status = "running"
                       /\ old.lease = "expired"
                       /\ old.recoveries < MaxLeaseRecoveries
                       /\ new.fence = old.fence + 1
                       /\ new.retries = old.retries
                       /\ new.recoveries = old.recoveries + 1
PutBack(old, new) == /\ old.status = "running" /\ new.status = "queued"
                     /\ new.fence = old.fence /\ new.recoveries = old.recoveries
                     /\ \/ new.retries = old.retries
                        \/ /\ old.retries < MaxFailureRetries
                           /\ new.retries = old.retries + 1
Ended(old, new) == /\ \/ old.status = "running" /\ new.status \in {"succeeded", "failed"}
                      \/ old.status = "queued" /\ new.status \in {"failed", "cancelled"}
                   /\ SameCounters(old, new)

Lost(old, new) == /\ old.status = "running" /\ new.status \in {"queued", "failed"}
                  /\ old.lease = "expired"
                  /\ old.recoveries < MaxLeaseRecoveries
                  /\ new.recoveries = old.recoveries + 1
                  /\ new.fence = old.fence /\ new.retries = old.retries

RowStep(old, new) == \/ Quiet(old, new) \/ Stored(old, new) \/ Claimed(old, new)
                     \/ Reclaimed(old, new) \/ PutBack(old, new) \/ Ended(old, new)
                     \/ Lost(old, new)

LEMMA FinishStep ==
    ASSUME TypeOK, NEW j \in Jobs, NEW status \in Final, Finish(j, status),
           \/ job[j].status = "running" /\ status # "cancelled"
           \/ job[j].status = "queued" /\ status # "succeeded"
    PROVE  \A i \in Jobs : RowStep(job[i], job'[i])
<1>1. job'[j] = Finished(job[j], status) /\ \A i \in Jobs \ {j} : job'[i] = job[i]
  BY DEF Finish, TypeOK
<1>2. job[j] \in JobRow
  BY DEF TypeOK
<1>3. RowStep(job[j], job'[j])
  BY <1>1, <1>2, FinishedFields DEF RowStep, Ended
<1> QED BY <1>1, <1>3 DEF RowStep, Quiet, SameCounters

LEMMA UserSteps ==
    ASSUME TypeOK, UnbornRows, UserNext
    PROVE  \A i \in Jobs : RowStep(job[i], job'[i])
<1>0. UNCHANGED job => \A i \in Jobs : RowStep(job[i], job'[i])
  BY DEF RowStep, Quiet, SameCounters
<1>1. CASE \E d \in Drafts : \E status \in NonTerminalDraft : CreateDraft(d, status)
  BY <1>0, <1>1 DEF CreateDraft
<1>2. CASE \E d \in Drafts : \E status \in Editable : UpdateDraft(d, status)
  BY <1>0, <1>2 DEF UpdateDraft
<1>3. ASSUME NEW d \in Drafts, CancelDraft(d)
      PROVE  \A i \in Jobs : RowStep(job[i], job'[i])
  <2> DEFINE jobs == CancelQueuedIn(draft[d])
  <2>1. jobs \in [Jobs -> JobRow]
    BY CancelledRows
  <2>2. ASSUME NEW i \in Jobs
        PROVE  RowStep(job[i], jobs[i])
    <3>1. CASE jobs[i] = Finished(job[i], "cancelled") /\ job[i].status = "queued"
      BY <3>1, FinishedFields DEF TypeOK, RowStep, Ended
    <3>2. CASE jobs[i] = job[i]
      BY <3>2 DEF RowStep, Quiet, SameCounters
    <3> QED BY <3>1, <3>2 DEF CancelQueuedIn
  <2>3. job' = StageDeletion(SlotJobs(draft[d]), draft', sub', jobs)
    BY <1>3 DEF CancelDraft
  <2>4. \A i \in Jobs : job'[i].status = jobs[i].status /\ SameCounters(jobs[i], job'[i])
    BY <2>1, <2>3, StagedFields
  <2> HIDE DEF jobs
  <2> QED BY <2>2, <2>4 DEF RowStep, Quiet, Stored, Claimed, Reclaimed, PutBack, Ended,
                            Lost, SameCounters
<1>4. ASSUME NEW d \in Drafts, ConfirmDraft(d)
      PROVE  \A i \in Jobs : RowStep(job[i], job'[i])
  <2>1. \A i \in Jobs : job'[i].status = job[i].status /\ SameCounters(job[i], job'[i])
    BY <1>4, StagedFields DEF ConfirmDraft, TypeOK
  <2> QED BY <2>1 DEF RowStep, Quiet
<1>5. CASE \E d \in Drafts : DeleteMatch(d)
  BY <1>0, <1>5 DEF DeleteMatch
<1>6. CASE \E s \in Submissions, d \in Drafts, screens \in SUBSET Slots \ {{}} :
              PutSubmission(s, d, screens)
  BY <1>0, <1>6 DEF PutSubmission
<1>7. CASE \E s \in Submissions, k \in Slots : FailAdmission(s, k)
  BY <1>0, <1>7 DEF FailAdmission
<1>8. ASSUME NEW s \in Submissions, NEW k \in Slots, NEW j \in Jobs, StoreJob(s, k, j)
      PROVE  \A i \in Jobs : RowStep(job[i], job'[i])
  <2>1. job[j].status = "none" /\ job' = [job EXCEPT ![j] = QueuedJob]
    BY <1>8 DEF StoreJob
  <2>2. QueuedJob.status = "queued" /\ SameCounters(NewJob, QueuedJob)
    BY DEF QueuedJob, NewJob, SameCounters
  <2>3. Stored(job[j], job'[j])
    BY <2>1, <2>2 DEF Stored, UnbornRows, SameCounters, TypeOK
  <2>4. \A i \in Jobs \ {j} : job'[i] = job[i]
    BY <2>1 DEF TypeOK
  <2> QED BY <2>3, <2>4 DEF RowStep, Quiet, SameCounters
<1>9. CASE \E j \in Jobs : CancelQueued(j)
  BY <1>9, FinishStep DEF CancelQueued
<1>10. ASSUME NEW j \in Jobs, SweepImage(j)
       PROVE  \A i \in Jobs : RowStep(job[i], job'[i])
  BY <1>10 DEF SweepImage, TypeOK, JobRow, RowStep, Quiet, SameCounters
<1> QED BY <1>1, <1>2, <1>3, <1>4, <1>5, <1>6, <1>7, <1>8, <1>9, <1>10 DEF UserNext

LEMMA ClaimStep ==
    ASSUME TypeOK, NEW w \in Workers, NEW j \in Jobs, Claim(w, j)
    PROVE  \A i \in Jobs : RowStep(job[i], job'[i])
<1> DEFINE row == Recovered(job[j])
<1>1. job[j] \in JobRow /\ row \in JobRow
  BY RecoveredRow DEF TypeOK
<1>2. \/ row = job[j]
      \/ /\ job[j].status = "running" /\ job[j].lease = "expired"
         /\ row = Finished(job[j], "failed")
      \/ /\ job[j].status = "running" /\ job[j].lease = "expired"
         /\ job[j].recoveries < MaxLeaseRecoveries
         /\ row.status = "queued"
         /\ row.fence = job[j].fence
         /\ row.retries = job[j].retries
         /\ row.recoveries = job[j].recoveries + 1
  BY <1>1, RecoveredFields
<1>3. row = Finished(job[j], "failed") => row.status = "failed" /\ SameCounters(job[j], row)
  BY <1>1, FinishedFields
<1>4. \/ row.status = "queued" /\ job' = [job EXCEPT ![j] = Acquired(row, w)]
      \/ /\ \/ row # job[j] /\ row.status = "failed"
            \/ row.status = "queued"
         /\ job' = [job EXCEPT ![j] = Finished(row, "failed")]
  BY DEF Claim
<1> HIDE DEF row
<1>5. \A i \in Jobs \ {j} : job'[i] = job[i]
  BY <1>4 DEF TypeOK
<1>6. RowStep(job[j], job'[j])
  <2>1. CASE row.status = "queued" /\ job'[j] = Acquired(row, w)
    BY <1>1, <1>2, <1>3, <2>1, AcquiredFields DEF RowStep, Claimed, Reclaimed, JobRow
  <2>2. CASE /\ \/ row # job[j] /\ row.status = "failed"
                \/ row.status = "queued"
             /\ job'[j] = Finished(row, "failed")
    <3>1. job'[j].status = "failed" /\ SameCounters(row, job'[j])
      BY <1>1, <2>2, FinishedFields
    <3> QED BY <1>2, <1>3, <2>2, <3>1 DEF RowStep, Ended, Lost, SameCounters
  <2>3. \/ row.status = "queued" /\ job'[j] = Acquired(row, w)
        \/ /\ \/ row # job[j] /\ row.status = "failed"
              \/ row.status = "queued"
           /\ job'[j] = Finished(row, "failed")
    BY <1>4 DEF TypeOK
  <2> QED BY <2>1, <2>2, <2>3
<1> QED BY <1>5, <1>6 DEF RowStep, Quiet, SameCounters

LEMMA RecoverStep ==
    ASSUME TypeOK, NEW j \in Jobs, Recover(j)
    PROVE  \A i \in Jobs : RowStep(job[i], job'[i])
<1>1. job[j] \in JobRow
  BY DEF TypeOK
<1>2. Recovered(job[j]) # job[j] /\ job'[j] = Recovered(job[j])
      /\ \A i \in Jobs \ {j} : job'[i] = job[i]
  BY DEF Recover, TypeOK
<1>3. RowStep(job[j], job'[j])
  <2>1. CASE job[j].status = "running" /\ Recovered(job[j]) = Finished(job[j], "failed")
    BY <1>1, <1>2, <2>1, FinishedFields DEF RowStep, Ended
  <2>2. CASE Recovered(job[j]) # Finished(job[j], "failed")
    BY <1>1, <1>2, <2>2, RecoveredFields DEF RowStep, Lost
  <2> QED BY <1>1, <1>2, <2>1, <2>2, RecoveredFields
<1> QED BY <1>2, <1>3 DEF RowStep, Quiet, SameCounters

LEMMA AttemptSteps ==
    ASSUME TypeOK, NEW w \in Workers, AttemptEnds(w)
    PROVE  \A i \in Jobs : RowStep(job[i], job'[i])
<1> DEFINE j == attempt[w].job
<1>0. ASSUME Owned(w)
      PROVE  j \in Jobs /\ job[j] \in JobRow /\ job[j].status = "running"
  BY <1>0 DEF Owned, TypeOK
<1>1. ASSUME NEW new, Owned(w), job' = [job EXCEPT ![j] = new], PutBack(job[j], new)
      PROVE  \A i \in Jobs : RowStep(job[i], job'[i])
  <2>1. job'[j] = new /\ \A i \in Jobs \ {j} : job'[i] = job[i]
    BY <1>0, <1>1 DEF TypeOK
  <2> QED BY <1>1, <2>1 DEF RowStep, Quiet, SameCounters
<1>2. CASE FinishSuccess(w) \/ FinishFailure(w)
  BY <1>0, <1>2, FinishStep DEF FinishSuccess, FinishFailure
<1>3. CASE RequeueTransient(w)
  <2>1. Owned(w)
    BY <1>3 DEF RequeueTransient
  <2>2. CASE Finish(j, "failed")
    BY <1>0, <2>1, <2>2, FinishStep
  <2>3. CASE /\ ~(job[j].retries >= MaxFailureRetries)
             /\ job' = [job EXCEPT ![j] = Retried(job[j])]
    <3>1. job[j].retries < MaxFailureRetries
      BY <1>0, <2>1, <2>3, LimitsAssumption DEF JobRow
    <3>2. PutBack(job[j], Retried(job[j]))
      BY <1>0, <2>1, <3>1, RetriedFields DEF PutBack
    <3> QED BY <1>1, <2>1, <2>3, <3>2
  <2> QED BY <1>3, <2>2, <2>3 DEF RequeueTransient
<1>4. CASE RequeueInterrupted(w)
  <2>1. Owned(w) /\ job' = [job EXCEPT ![j] = Requeued(job[j], TRUE)]
    BY <1>4 DEF RequeueInterrupted
  <2>2. PutBack(job[j], Requeued(job[j], TRUE))
    BY <1>0, <2>1, RequeuedFields DEF PutBack, SameCounters
  <2> QED BY <1>1, <2>1, <2>2
<1>5. CASE OwnerLost(w) \/ Abandon(w)
  BY <1>5 DEF OwnerLost, Abandon, RowStep, Quiet, SameCounters
<1> QED BY <1>2, <1>3, <1>4, <1>5 DEF AttemptEnds

LEMMA WorkerSteps ==
    ASSUME TypeOK, WorkerNext
    PROVE  \A i \in Jobs : RowStep(job[i], job'[i])
<1>1. CASE \E w \in Workers, j \in Jobs : Claim(w, j)
  BY <1>1, ClaimStep
<1>2. ASSUME NEW w \in Workers, Heartbeat(w)
      PROVE  \A i \in Jobs : RowStep(job[i], job'[i])
  BY <1>2 DEF Heartbeat, Owned, TypeOK, JobRow, RowStep, Quiet, SameCounters
<1>3. CASE \E w \in Workers : AttemptEnds(w)
  BY <1>3, AttemptSteps
<1>4. CASE \E j \in Jobs : ReapStale(j)
  BY <1>4, FinishStep DEF ReapStale, Reapable
<1>5. CASE \E s \in Submissions : Settle(s)
  BY <1>5 DEF Settle, RowStep, Quiet, SameCounters
<1>6. CASE \E j \in Jobs : Recover(j)
  BY <1>6, RecoverStep
<1> QED BY <1>1, <1>2, <1>3, <1>4, <1>5, <1>6 DEF WorkerNext

LEMMA TimeSteps ==
    ASSUME TypeOK, TimeNext
    PROVE  \A i \in Jobs : RowStep(job[i], job'[i])
<1>1. ASSUME NEW j \in Jobs, LeaseAges(j) \/ BecomesDue(j) \/ JobAges(j)
      PROVE  \A i \in Jobs : RowStep(job[i], job'[i])
  BY <1>1 DEF LeaseAges, BecomesDue, JobAges, TypeOK, JobRow, RowStep, Quiet, SameCounters
<1>2. CASE \E s \in Submissions : DeadlinePasses(s)
  BY <1>2 DEF DeadlinePasses, RowStep, Quiet, SameCounters
<1> QED BY <1>1, <1>2 DEF TimeNext

(* Every transaction, of whichever actor, does to each job one of the things *)
(* RowStep names.                                                            *)
LEMMA EveryRowSteps ==
    ASSUME TypeOK, UnbornRows, [Next]_vars
    PROVE  \A i \in Jobs : RowStep(job[i], job'[i])
<1>1. CASE UNCHANGED vars
  BY <1>1 DEF vars, RowStep, Quiet, SameCounters
<1> QED BY <1>1, UserSteps, WorkerSteps, TimeSteps DEF Next

LEMMA AlwaysUnborn == Spec => []UnbornRows
<1>1. Init => UnbornRows
  BY DEF Init, UnbornRows, SameCounters, NewJob
<1>2. TypeOK /\ UnbornRows /\ [Next]_vars => UnbornRows'
  BY EveryRowSteps DEF UnbornRows, RowStep, Quiet, Stored, Claimed, Reclaimed, PutBack,
                       Ended, Lost, SameCounters
<1> QED BY <1>1, <1>2, TypeCorrect, PTL DEF Spec
----------------------------------------------------------------------------
(* The lifecycle and its budgets.                                            *)

(* Seen through LifeOf, every job starts unborn and every transaction is a   *)
(* step of JobLifecycle or leaves the job's life alone: whatever claims,     *)
(* recoveries, requeues, cancellations, reapers and late answers come in     *)
(* between, a job is neither run again nor ended again outside its lifecycle *)
THEOREM LifecycleImplemented == Spec => ImplementsLifecycle
<1> DEFINE life == [j \in Jobs |-> LifeOf(job[j])]
<1>1. Init => Lifecycle!Init
  BY DEF Init, Lifecycle!Init, Lifecycle!Unborn, LifeOf, NewJob
<1>2. TypeOK /\ TypeOK' /\ UnbornRows /\ [Next]_vars => [Lifecycle!Next]_life
  <2> SUFFICES ASSUME TypeOK, TypeOK', UnbornRows, [Next]_vars
               PROVE  Lifecycle!Next
    OBVIOUS
  <2>1. life' \in [Jobs -> Lifecycle!Life]
    BY DEF TypeOK, JobRow, LifeOf, Lifecycle!Life, Lifecycle!Ended
  <2>2. ASSUME NEW j \in Jobs
        PROVE  life'[j] = life[j] \/ Lifecycle!Step(life[j], life'[j])
    <3>1. RowStep(job[j], job'[j])
      BY EveryRowSteps
    <3>2. CASE Quiet(job[j], job'[j])
      BY <3>2 DEF Quiet, SameCounters, LifeOf
    <3>3. CASE Stored(job[j], job'[j])
      BY <3>3 DEF Stored, SameCounters, LifeOf, Lifecycle!Step, Lifecycle!Register,
                  Lifecycle!Moves, Lifecycle!SameRuns, Lifecycle!SameBudgets
    <3>4. CASE Claimed(job[j], job'[j])
      BY <3>4 DEF Claimed, LifeOf, Lifecycle!Step, Lifecycle!Start, Lifecycle!Moves,
                  Lifecycle!SameBudgets
    <3>5. CASE Reclaimed(job[j], job'[j])
      BY <3>5 DEF Reclaimed, LifeOf, Lifecycle!Step, Lifecycle!Restart, Lifecycle!Moves
    <3>6. CASE PutBack(job[j], job'[j])
      BY <3>6 DEF PutBack, LifeOf, Lifecycle!Step, Lifecycle!Retry, Lifecycle!Interrupt,
                  Lifecycle!Moves, Lifecycle!SameRuns, Lifecycle!SameBudgets
    <3>7. CASE Ended(job[j], job'[j])
      BY <3>7 DEF Ended, SameCounters, LifeOf, Lifecycle!Step, Lifecycle!End,
                  Lifecycle!Moves, Lifecycle!SameRuns, Lifecycle!SameBudgets
    <3>8. CASE Lost(job[j], job'[j])
      BY <3>8 DEF Lost, LifeOf, Lifecycle!Step, Lifecycle!Lose, Lifecycle!Moves,
                  Lifecycle!SameRuns
    <3> QED BY <3>1, <3>2, <3>3, <3>4, <3>5, <3>6, <3>7, <3>8 DEF RowStep
  <2> QED BY <2>1, <2>2 DEF Lifecycle!Next
<1> QED BY <1>1, <1>2, TypeCorrect, AlwaysUnborn, PTL
        DEF Spec, ImplementsLifecycle, Lifecycle!Spec

(* Neither budget is ever exceeded, and what is counted against a job is     *)
(* covered by the runs it was granted; inductive with the row types and      *)
(* the counters of unborn rows.                                              *)
THEOREM BudgetsHold == Spec => []RunsCoverBudgets
<1> DEFINE Kept(row) == Lifecycle!Covered(LifeOf(row))
<1>1. RunsCoverBudgets <=> \A j \in Jobs : Kept(job[j])
  BY DEF RunsCoverBudgets, Lifecycle!RunsCoverBudgets
<1>2. RunsCoverBudgets' <=> \A j \in Jobs : Kept(job'[j])
  BY DEF RunsCoverBudgets, Lifecycle!RunsCoverBudgets
<1>3. Init => RunsCoverBudgets
  BY <1>1, LimitsAssumption DEF Init, NewJob, LifeOf, Lifecycle!Covered
<1>4. TypeOK /\ TypeOK' /\ UnbornRows /\ RunsCoverBudgets /\ [Next]_vars
         => RunsCoverBudgets'
  <2> SUFFICES ASSUME TypeOK, TypeOK', UnbornRows, \A j \in Jobs : Kept(job[j]), [Next]_vars,
                      NEW j \in Jobs
               PROVE  Kept(job'[j])
    BY <1>1, <1>2
  <2>1. job[j] \in JobRow /\ job'[j] \in JobRow /\ Kept(job[j])
    BY DEF TypeOK
  <2>2. RowStep(job[j], job'[j])
    BY EveryRowSteps
  <2> QED BY <2>1, <2>2, LimitsAssumption
          DEF LifeOf, Lifecycle!Covered, JobRow, RowStep, Quiet, Stored, Claimed,
              Reclaimed, PutBack, Ended, Lost, SameCounters
<1> QED BY <1>3, <1>4, TypeCorrect, AlwaysUnborn, PTL DEF Spec
----------------------------------------------------------------------------
(* Fencing.                                                                  *)

(* What one transaction does to the attempts processes hold: nothing, one    *)
(* ends, or one begins with a fence its job has never had.                   *)
Begins(w, j) == /\ attempt[w] = Idle
                /\ attempt' = [attempt EXCEPT ![w] = [job |-> j, fence |-> job[j].fence + 1]]
                /\ job'[j].fence = job[j].fence + 1

LEMMA AttemptsMove ==
    ASSUME TypeOK, [Next]_vars
    PROVE  \/ attempt' = attempt
           \/ \E w \in Workers : EndAttempt(w)
           \/ \E w \in Workers, j \in Jobs : Begins(w, j)
<1>1. CASE UNCHANGED vars
  BY <1>1 DEF vars
<1>2. CASE UserNext
  BY <1>2 DEF UserNext, CreateDraft, UpdateDraft, CancelDraft, ConfirmDraft, DeleteMatch,
              PutSubmission, FailAdmission, StoreJob, CancelQueued, SweepImage
<1>3. ASSUME NEW w \in Workers, NEW j \in Jobs, Claim(w, j)
      PROVE  attempt' = attempt \/ Begins(w, j)
  <2> DEFINE row == Recovered(job[j])
  <2>1. job[j] \in JobRow /\ row \in JobRow
    BY RecoveredRow DEF TypeOK
  <2>2. row.fence = job[j].fence
    BY <2>1, RecoveredFields, FinishedFields DEF SameCounters
  <2>3. Acquired(row, w).fence = row.fence + 1
    BY <2>1, AcquiredFields
  <2>4. \/ /\ attempt[w] = Idle
           /\ job' = [job EXCEPT ![j] = Acquired(row, w)]
           /\ attempt' = [attempt EXCEPT ![w] = [job |-> j, fence |-> row.fence + 1]]
        \/ attempt' = attempt
    BY <1>3 DEF Claim
  <2> HIDE DEF row
  <2>5. ASSUME job' = [job EXCEPT ![j] = Acquired(row, w)]
        PROVE  job'[j].fence = row.fence + 1
    BY <2>3, <2>5 DEF TypeOK
  <2> QED BY <2>2, <2>4, <2>5 DEF Begins
<1>4. CASE \E w \in Workers : Heartbeat(w)
  BY <1>4 DEF Heartbeat
<1>5. ASSUME NEW w \in Workers, AttemptEnds(w)
      PROVE  EndAttempt(w)
  BY <1>5 DEF AttemptEnds, FinishSuccess, FinishFailure, RequeueTransient,
              RequeueInterrupted, OwnerLost, Abandon
<1>6. CASE (\E j \in Jobs : Recover(j) \/ ReapStale(j)) \/ (\E s \in Submissions : Settle(s))
  BY <1>6 DEF Recover, ReapStale, Settle
<1>7. CASE TimeNext
  BY <1>7 DEF TimeNext, LeaseAges, BecomesDue, JobAges, DeadlinePasses
<1> QED BY <1>1, <1>2, <1>3, <1>4, <1>5, <1>6, <1>7 DEF Next, WorkerNext

(* Strengthening of OnlyNewestClaimWrites: no attempt is ahead of its job,   *)
(* and no two attempts at one job have the same fence.                       *)
Fenced == /\ \A w \in Workers : attempt[w].job \in Jobs =>
                attempt[w].fence <= job[attempt[w].job].fence
          /\ \A w, v \in Workers :
                w # v /\ attempt[w].job \in Jobs /\ attempt[v].job = attempt[w].job =>
                    attempt[v].fence # attempt[w].fence

LEMMA FencedStep ==
    ASSUME TypeOK, TypeOK', UnbornRows, Fenced, [Next]_vars
    PROVE  Fenced'
<1>1. \A j \in Jobs : job[j].fence \in Nat /\ job'[j].fence \in Nat
  BY DEF TypeOK, JobRow
<1>2. \A w \in Workers : attempt[w].fence \in Nat /\ attempt'[w].fence \in Nat
  BY DEF TypeOK, Attempt
<1>3. \A j \in Jobs : job[j].fence <= job'[j].fence
  BY <1>1, EveryRowSteps DEF RowStep, Quiet, Stored, Claimed, Reclaimed, PutBack, Ended,
                             Lost, SameCounters
<1>4. CASE attempt' = attempt
  BY <1>1, <1>2, <1>3, <1>4 DEF Fenced
<1>5. ASSUME NEW w \in Workers, EndAttempt(w)
      PROVE  Fenced'
  <2>1. attempt'[w].job \notin Jobs /\ \A v \in Workers \ {w} : attempt'[v] = attempt[v]
    BY <1>5, NullsAssumption DEF EndAttempt, Idle, TypeOK
  <2> QED BY <1>1, <1>2, <1>3, <2>1 DEF Fenced
<1>6. ASSUME NEW w \in Workers, NEW j \in Jobs, Begins(w, j)
      PROVE  Fenced'
  <2>1. /\ attempt'[w].job = j /\ attempt'[w].fence = job[j].fence + 1
        /\ \A v \in Workers \ {w} : attempt'[v] = attempt[v]
    BY <1>6 DEF Begins, TypeOK
  <2>2. job'[j].fence = job[j].fence + 1
    BY <1>6 DEF Begins
  <2> QED BY <1>1, <1>2, <1>3, <2>1, <2>2 DEF Fenced
<1> QED BY <1>4, <1>5, <1>6, AttemptsMove

LEMMA AlwaysFenced == Spec => []Fenced
<1>1. Init => Fenced
  BY NullsAssumption DEF Init, Fenced, Idle
<1> QED BY <1>1, FencedStep, TypeCorrect, AlwaysUnborn, PTL DEF Spec

LEMMA FencedExcludes == TypeOK /\ Fenced => OnlyNewestClaimWrites
<1> SUFFICES ASSUME TypeOK, Fenced, NEW w \in Workers, Owned(w),
                    NEW v \in Workers \ {w}, attempt[v].job = attempt[w].job
             PROVE  ~Owned(v) /\ attempt[v].fence < attempt[w].fence
  BY DEF OnlyNewestClaimWrites
<1>1. attempt[w].job \in Jobs /\ job[attempt[w].job].fence = attempt[w].fence
  BY DEF Owned
<1>2. attempt[v].fence <= attempt[w].fence /\ attempt[v].fence # attempt[w].fence
  BY <1>1 DEF Fenced
<1>3. attempt[v].fence \in Nat /\ attempt[w].fence \in Nat
  BY DEF TypeOK, Attempt
<1> QED BY <1>1, <1>2, <1>3 DEF Owned

(* However many processes hold an attempt at a job, paused, partitioned or   *)
(* superseded, only the one with the newest claim can pass lock_owned_job.   *)
THEOREM FencingHolds == Spec => []OnlyNewestClaimWrites
BY TypeCorrect, AlwaysFenced, FencedExcludes, PTL
----------------------------------------------------------------------------
(* The two action properties.                                                *)

Protected(row) == row.status = "running" /\ row.lease \in LiveLease
RunsOn(j) == job'[j].status = "running" /\ job'[j].fence = job[j].fence

(* Only the attempt that owns a run with a live lease ends that run.         *)
LEMMA RunEndedByOwner ==
    ASSUME TypeOK, UnbornRows, [Next]_vars, NEW j \in Jobs, Protected(job[j])
    PROVE  RunsOn(j) \/ \E w \in Workers : Owned(w) /\ attempt[w].job = j /\ EndAttempt(w)
<1>1. job[j] \in JobRow /\ job[j].status = "running" /\ job[j].lease \in {"fresh", "late"}
  BY DEF TypeOK, Protected
<1>2. RowStep(job[j], job'[j])
  BY EveryRowSteps
<1>3. RunsOn(j) \/ PutBack(job[j], job'[j]) \/ Ended(job[j], job'[j])
  BY <1>1, <1>2 DEF RowStep, Quiet, Stored, Claimed, Reclaimed, Lost, SameCounters, RunsOn
<1>4. job'[j] = job[j] => RunsOn(j)
  BY <1>1 DEF RunsOn
<1>5. CASE UNCHANGED vars
  BY <1>4, <1>5 DEF vars
<1>6. ASSUME NEW i \in Jobs, NEW status, Finish(i, status), i # j
      PROVE  RunsOn(j)
  BY <1>4, <1>6 DEF Finish, TypeOK
<1>7. CASE UserNext
  <2>1. CASE \E d \in Drafts : CancelDraft(d) \/ ConfirmDraft(d)
    <3>1. ASSUME NEW d \in Drafts, CancelDraft(d)
          PROVE  RunsOn(j)
      <4>1. CancelQueuedIn(draft[d])[j] = job[j]
        BY <1>1 DEF CancelQueuedIn
      <4>2. CancelQueuedIn(draft[d]) \in [Jobs -> JobRow]
        BY CancelledRows
      <4> QED BY <1>1, <3>1, <4>1, <4>2, StagedFields DEF CancelDraft, RunsOn, SameCounters
    <3>2. ASSUME NEW d \in Drafts, ConfirmDraft(d)
          PROVE  RunsOn(j)
      BY <1>1, <3>2, StagedFields DEF ConfirmDraft, TypeOK, RunsOn, SameCounters
    <3> QED BY <2>1, <3>1, <3>2
  <2>2. ASSUME NEW s \in Submissions, NEW k \in Slots, NEW i \in Jobs, StoreJob(s, k, i)
        PROVE  RunsOn(j)
    BY <1>1, <1>4, <2>2 DEF StoreJob, TypeOK
  <2>3. ASSUME NEW i \in Jobs, CancelQueued(i)
        PROVE  RunsOn(j)
    BY <1>1, <1>6, <2>3 DEF CancelQueued
  <2>4. ASSUME NEW i \in Jobs, SweepImage(i)
        PROVE  RunsOn(j)
    BY <1>1, <2>4 DEF SweepImage, TypeOK, JobRow, RunsOn
  <2>5. \/ job' = job
        \/ \E d \in Drafts : CancelDraft(d) \/ ConfirmDraft(d)
        \/ \E s \in Submissions, k \in Slots, i \in Jobs : StoreJob(s, k, i)
        \/ \E i \in Jobs : CancelQueued(i) \/ SweepImage(i)
    BY <1>7 DEF UserNext, CreateDraft, UpdateDraft, DeleteMatch, PutSubmission, FailAdmission
  <2> QED BY <1>4, <2>1, <2>2, <2>3, <2>4, <2>5
<1>8. ASSUME NEW w \in Workers, NEW i \in Jobs, Claim(w, i)
      PROVE  RunsOn(j)
  <2>1. CASE i = j
    <3>1. Recovered(job[j]) = job[j]
      BY <1>1 DEF Recovered
    <3> QED BY <1>1, <1>8, <2>1, <3>1 DEF Claim
  <2>2. CASE i # j
    <3>1. job'[j] = job[j]
      BY <1>8, <2>2 DEF Claim, TypeOK
    <3> QED BY <1>4, <3>1
  <2> QED BY <2>1, <2>2
<1>9. ASSUME NEW w \in Workers, Heartbeat(w)
      PROVE  RunsOn(j)
  BY <1>1, <1>9 DEF Heartbeat, Owned, TypeOK, JobRow, RunsOn
<1>10. ASSUME NEW w \in Workers, AttemptEnds(w)
       PROVE  RunsOn(j) \/ (Owned(w) /\ attempt[w].job = j /\ EndAttempt(w))
  <2>1. EndAttempt(w)
    BY <1>10 DEF AttemptEnds, FinishSuccess, FinishFailure, RequeueTransient,
                 RequeueInterrupted, OwnerLost, Abandon
  <2>2. \/ job' = job
        \/ /\ Owned(w)
           /\ \A i \in Jobs \ {attempt[w].job} : job'[i] = job[i]
    BY <1>10 DEF AttemptEnds, FinishSuccess, FinishFailure, RequeueTransient,
                 RequeueInterrupted, OwnerLost, Abandon, Finish, TypeOK
  <2> QED BY <1>4, <2>1, <2>2
<1>11. ASSUME NEW i \in Jobs, ReapStale(i)
       PROVE  RunsOn(j)
  BY <1>1, <1>6, <1>11 DEF ReapStale, Reapable
<1>12. CASE \E s \in Submissions : Settle(s)
  BY <1>4, <1>12 DEF Settle
<1>13. ASSUME NEW i \in Jobs, LeaseAges(i) \/ BecomesDue(i) \/ JobAges(i)
       PROVE  RunsOn(j)
  BY <1>1, <1>13 DEF LeaseAges, BecomesDue, JobAges, TypeOK, JobRow, RunsOn
<1>14. CASE \E s \in Submissions : DeadlinePasses(s)
  BY <1>4, <1>14 DEF DeadlinePasses
<1>15. ASSUME NEW i \in Jobs, Recover(i)
       PROVE  RunsOn(j)
  <2>1. i # j
    BY <1>1, <1>15 DEF Recover, Recovered
  <2> QED BY <1>4, <1>15, <2>1 DEF Recover, TypeOK
<1> QED BY <1>5, <1>7, <1>8, <1>9, <1>10, <1>11, <1>12, <1>13, <1>14, <1>15
        DEF Next, WorkerNext, TimeNext

(* While a lease lives, no reaper, rival claim, cancellation or late answer  *)
(* takes the job out of its run: only the attempt that holds the lease does. *)
THEOREM LiveLeaseHolds == Spec => LiveLeaseProtects
<1> DEFINE Claims(j, w) == Owned(w) /\ attempt[w].job = j /\ attempt'[w] = attempt[w]
<1>1. ASSUME TypeOK, UnbornRows, Fenced, [Next]_vars,
             NEW j \in Jobs, NEW w \in Workers, Claims(j, w)
      PROVE  RunsOn(j)
  <2>1. Protected(job[j])
    BY <1>1 DEF Owned, Protected
  <2>2. ASSUME NEW v \in Workers, Owned(v), attempt[v].job = j, EndAttempt(v)
        PROVE  FALSE
    <3>1. v = w
      BY <1>1, <2>2, FencedExcludes DEF OnlyNewestClaimWrites
    <3>2. attempt'[v] = Idle
      BY <1>1, <2>2 DEF EndAttempt, TypeOK
    <3> QED BY <1>1, <3>1, <3>2, NullsAssumption DEF Idle
  <2> QED BY <1>1, <2>1, <2>2, RunEndedByOwner
<1>2. TypeOK /\ UnbornRows /\ Fenced /\ [Next]_vars
         => [\A j \in Jobs, w \in Workers :
                Owned(w) /\ attempt[w].job = j /\ attempt'[w] = attempt[w] =>
                    /\ job'[j].status = "running"
                    /\ job'[j].fence = job[j].fence]_vars
  BY <1>1 DEF RunsOn
<1> QED BY <1>2, TypeCorrect, AlwaysUnborn, AlwaysFenced, PTL DEF Spec, LiveLeaseProtects

-----------------------------------------------------------------------------
(* The drafts and submissions of the pipeline: what one transaction does to  *)
(* one row, and from it the projection, the closing of submissions with      *)
(* their draft, and that final rows stay final; then what                    *)
(* ties the rows together: which draft shows which job, what a running draft *)
(* waits for, and the images that queued and running jobs read.              *)

(* What one transaction may do to one draft.                                 *)
SameSlots(old, new) == new.slots = old.slots

Opened(old, new) == /\ old.status = "absent" /\ new.status \in NonTerminalDraft
                    /\ SameSlots(old, new)
Edited(old, new) == /\ old.status \in Editable
                    /\ new.status \in Editable \cup {"confirmed"}
                    /\ SameSlots(old, new)
Erased(old, new) == /\ old.status \in NonTerminalDraft \cup {"confirmed"}
                    /\ new.status = "deleted" /\ new.slots = EmptySlots
Requested(old, new) == /\ old.status \in NonTerminalDraft
                       /\ old.slots = EmptySlots
                       /\ new.status \in {"ocr_running", "ocr_failed"}
                       /\ SameSlots(old, new)
Shown(old, new) == /\ old.status \in NonTerminalDraft /\ new.status = "ocr_running"
                   /\ \E k \in Slots, j \in Jobs :
                        /\ new.slots = [old.slots EXCEPT ![k] = j]
                        /\ job'[j].status = "queued"
Reprojected(old, new) == /\ old.status = "ocr_running"
                         /\ new.status = ProjectedStatus(job', old)
                         /\ SameSlots(old, new)

DraftStep(old, new) == \/ new = old \/ Opened(old, new) \/ Edited(old, new)
                       \/ Erased(old, new) \/ Requested(old, new) \/ Shown(old, new)
                       \/ Reprojected(old, new)

LEMMA ProjectStep ==
    ASSUME TypeOK, NEW j \in Jobs, draft' = Project(job', j)
    PROVE  \A d \in Drafts : DraftStep(draft[d], draft'[d])
<1> SUFFICES ASSUME NEW d \in Drafts
             PROVE  DraftStep(draft[d], draft'[d])
  OBVIOUS
<1> DEFINE status == ProjectedStatus(job', draft[d])
<1> HIDE DEF status
<1>1. draft'[d] = draft[d] \/ (draft[d].status = "ocr_running"
                                  /\ draft'[d] = [draft[d] EXCEPT !.status = status])
  BY DEF Project, status
<1>2. draft'[d] = [draft[d] EXCEPT !.status = status]
         => draft'[d].status = status /\ draft'[d].slots = draft[d].slots
  BY DEF TypeOK, DraftRow
<1> QED BY <1>1, <1>2 DEF DraftStep, Reprojected, SameSlots, status

LEMMA UserDraftSteps ==
    ASSUME TypeOK, UserNext
    PROVE  \A d \in Drafts : DraftStep(draft[d], draft'[d])
<1> USE DEF TypeOK, DraftStep, SameSlots
<1>1. ASSUME NEW d \in Drafts, NEW status \in NonTerminalDraft, CreateDraft(d, status)
      PROVE  \A i \in Drafts : DraftStep(draft[i], draft'[i])
  BY <1>1 DEF CreateDraft, DraftRow, Opened
<1>2. ASSUME NEW d \in Drafts, NEW status \in Editable, UpdateDraft(d, status)
      PROVE  \A i \in Drafts : DraftStep(draft[i], draft'[i])
  BY <1>2 DEF UpdateDraft, DraftRow, Edited
<1>3. ASSUME NEW d \in Drafts, CancelDraft(d) \/ DeleteMatch(d)
      PROVE  \A i \in Drafts : DraftStep(draft[i], draft'[i])
  BY <1>3 DEF CancelDraft, DeleteMatch, Erased
<1>4. ASSUME NEW d \in Drafts, ConfirmDraft(d)
      PROVE  \A i \in Drafts : DraftStep(draft[i], draft'[i])
  BY <1>4 DEF ConfirmDraft, DraftRow, Edited
<1>5. ASSUME NEW s \in Submissions, NEW d \in Drafts,
             NEW screens \in SUBSET Slots \ {{}}, PutSubmission(s, d, screens)
      PROVE  \A i \in Drafts : DraftStep(draft[i], draft'[i])
  BY <1>5 DEF PutSubmission, DraftRow, Requested
<1>6. ASSUME NEW s \in Submissions, NEW k \in Slots, NEW j \in Jobs, StoreJob(s, k, j)
      PROVE  \A i \in Drafts : DraftStep(draft[i], draft'[i])
  <2> DEFINE d == sub[s].draft
             row == [draft[d] EXCEPT !.status = "ocr_running", !.slots[k] = j]
  <2>2. draft' = [draft EXCEPT ![d] = row]
    BY <1>6 DEF StoreJob
  <2>3. d \in Drafts => /\ row.status = "ocr_running"
                        /\ row.slots = [draft[d].slots EXCEPT ![k] = j]
    BY DEF DraftRow
  <2>4. job'[j].status = "queued"
    BY <1>6 DEF StoreJob, QueuedJob, NewJob
  <2>5. draft[d].status \in NonTerminalDraft
    BY <1>6 DEF StoreJob, Attachable
  <2>6. d \in Drafts => Shown(draft[d], row)
    BY <2>3, <2>4, <2>5 DEF Shown
  <2> HIDE DEF row, d
  <2> QED BY <2>2, <2>6
<1>7. ASSUME NEW j \in Jobs, CancelQueued(j)
      PROVE  \A i \in Drafts : DraftStep(draft[i], draft'[i])
  BY <1>7, ProjectStep DEF CancelQueued, Finish
<1>8. \/ draft' = draft
      \/ \E d \in Drafts : \E status \in NonTerminalDraft : CreateDraft(d, status)
      \/ \E d \in Drafts : \E status \in Editable : UpdateDraft(d, status)
      \/ \E d \in Drafts : CancelDraft(d) \/ ConfirmDraft(d) \/ DeleteMatch(d)
      \/ \E s \in Submissions, d \in Drafts, screens \in SUBSET Slots \ {{}} :
            PutSubmission(s, d, screens)
      \/ \E s \in Submissions, k \in Slots, j \in Jobs : StoreJob(s, k, j)
      \/ \E j \in Jobs : CancelQueued(j)
  BY DEF UserNext, FailAdmission, SweepImage
<1> QED BY <1>1, <1>2, <1>3, <1>4, <1>5, <1>6, <1>7, <1>8

LEMMA WorkerDraftSteps ==
    ASSUME TypeOK, WorkerNext
    PROVE  \A d \in Drafts : DraftStep(draft[d], draft'[d])
<1>1. \/ draft' = draft
      \/ \E j \in Jobs : draft' = Project(job', j)
      \/ \E s \in Submissions : Settle(s)
  <2>1. ASSUME NEW w \in Workers, NEW j \in Jobs, Claim(w, j)
        PROVE  draft' = draft \/ draft' = Project(job', j)
    BY <2>1 DEF Claim
  <2>2. ASSUME NEW w \in Workers, AttemptEnds(w)
        PROVE  draft' = draft \/ \E j \in Jobs : draft' = Project(job', j)
    BY <2>2 DEF AttemptEnds, FinishSuccess, FinishFailure, RequeueTransient,
                RequeueInterrupted, OwnerLost, Abandon, Finish, Owned
  <2>3. ASSUME NEW j \in Jobs, ReapStale(j)
        PROVE  draft' = Project(job', j)
    BY <2>3 DEF ReapStale, Finish
  <2>4. ASSUME NEW j \in Jobs, Recover(j)
        PROVE  draft' = draft \/ draft' = Project(job', j)
    BY <2>4 DEF Recover
  <2> QED BY <2>1, <2>2, <2>3, <2>4 DEF WorkerNext, Heartbeat
<1>2. ASSUME NEW s \in Submissions, Settle(s)
      PROVE  \A i \in Drafts : DraftStep(draft[i], draft'[i])
  <2>1. draft' = draft \/ draft' = ProjectEmptyDraft(s, sub[s].draft)
    BY <1>2 DEF Settle
  <2>2. \/ draft' = draft
        \/ /\ draft[sub[s].draft].status = "ocr_running"
           /\ draft[sub[s].draft].slots = EmptySlots
           /\ draft' = [draft EXCEPT ![sub[s].draft].status = "ocr_failed"]
    BY <2>1 DEF ProjectEmptyDraft
  <2> DEFINE d == sub[s].draft
             row == [draft[d] EXCEPT !.status = "ocr_failed"]
  <2>3. d \in Drafts => row.status = "ocr_failed" /\ row.slots = draft[d].slots
    BY DEF TypeOK, DraftRow
  <2>4. \/ draft' = draft
        \/ /\ draft[d].status = "ocr_running" /\ draft[d].slots = EmptySlots
           /\ draft' = [draft EXCEPT ![d] = row]
    BY <2>2
  <2> HIDE DEF d, row
  <2> QED BY <2>3, <2>4 DEF DraftStep, Requested, SameSlots, TypeOK
<1> QED BY <1>1, <1>2, ProjectStep DEF DraftStep

LEMMA EveryDraftSteps ==
    ASSUME TypeOK, [Next]_vars
    PROVE  \A d \in Drafts : DraftStep(draft[d], draft'[d])
<1>1. CASE TimeNext \/ UNCHANGED vars
  BY <1>1 DEF TimeNext, LeaseAges, BecomesDue, JobAges, DeadlinePasses, vars, DraftStep
<1> QED BY <1>1, UserDraftSteps, WorkerDraftSteps DEF Next
----------------------------------------------------------------------------
(* The projection.                                                           *)

(* Strengthening of UnfinishedSlotShowsRunning: a draft that is not there    *)
(* shows nothing, and what a slot shows was stored.                          *)
SlotsShowJobs == \A d \in Drafts :
    /\ draft[d].status \in {"absent", "deleted"} => draft[d].slots = EmptySlots
    /\ \A j \in SlotJobs(draft[d]) : job[j].status # "none"

LEMMA EmptyShowsNothing ==
    ASSUME NEW row, row.slots = EmptySlots
    PROVE  SlotJobs(row) = {}
BY DEF SlotJobs, EmptySlots

LEMMA SlotJobsAreJobs ==
    ASSUME NEW row \in DraftRow
    PROVE  SlotJobs(row) \subseteq Jobs
BY DEF SlotJobs, DraftRow

LEMMA ShownJobs ==
    ASSUME NEW old \in DraftRow, NEW new, NEW k \in Slots, NEW j \in Jobs,
           new.slots = [old.slots EXCEPT ![k] = j]
    PROVE  SlotJobs(new) \subseteq SlotJobs(old) \cup {j}
BY DEF SlotJobs, DraftRow

(* What rows already stored do: they stay stored and final ones stay final.  *)
LEMMA JobStatusMoves ==
    ASSUME TypeOK, UnbornRows, [Next]_vars, NEW j \in Jobs
    PROVE  /\ job[j].status # "none" => job'[j].status # "none"
           /\ job[j].status \in Final => job'[j].status = job[j].status
           /\ job[j].status # "none" /\ job'[j].status \in Unfinished
                 => job[j].status \in Unfinished
<1>1. RowStep(job[j], job'[j])
  BY EveryRowSteps
<1>2. job[j] \in JobRow
  BY DEF TypeOK
<1> QED BY <1>1, <1>2 DEF RowStep, Quiet, Stored, Claimed, Reclaimed, PutBack, Ended,
                          Lost, JobRow

ShowsJobs(d) == /\ draft[d].status \in {"absent", "deleted"} => draft[d].slots = EmptySlots
                /\ \A j \in SlotJobs(draft[d]) : job[j].status # "none"
ShowsRunning(d) == \A j \in SlotJobs(draft[d]) :
                      job[j].status \in Unfinished => draft[d].status = "ocr_running"

LEMMA ProjectionStep ==
    ASSUME TypeOK, UnbornRows, SlotsShowJobs, UnfinishedSlotShowsRunning, [Next]_vars
    PROVE  SlotsShowJobs' /\ UnfinishedSlotShowsRunning'
<1> SUFFICES ASSUME NEW d \in Drafts
             PROVE  ShowsJobs(d)' /\ ShowsRunning(d)'
  BY DEF ShowsJobs, ShowsRunning, SlotsShowJobs, UnfinishedSlotShowsRunning
<1> DEFINE old == draft[d]
           new == draft'[d]
<1>1. ShowsJobs(d) /\ ShowsRunning(d) /\ old \in DraftRow
  BY DEF ShowsJobs, ShowsRunning, SlotsShowJobs, UnfinishedSlotShowsRunning, TypeOK
<1>2. DraftStep(old, new)
  BY EveryDraftSteps
<1>3. SlotJobs(old) \subseteq Jobs
  BY <1>1, SlotJobsAreJobs
<1>4. \A j \in Jobs : /\ job[j].status # "none" => job'[j].status # "none"
                      /\ job[j].status # "none" /\ job'[j].status \in Unfinished
                            => job[j].status \in Unfinished
  BY JobStatusMoves
<1>5. \A j \in SlotJobs(old) :
         /\ job'[j].status # "none"
         /\ job'[j].status \in Unfinished => old.status = "ocr_running"
  BY <1>1, <1>3, <1>4 DEF ShowsJobs, ShowsRunning
<1>6. SameSlots(old, new) => SlotJobs(new) = SlotJobs(old)
  BY DEF SameSlots, SlotJobs
<1>7. CASE new = old
  BY <1>1, <1>5, <1>7 DEF ShowsJobs, ShowsRunning
<1>8. CASE Opened(old, new) \/ Erased(old, new) \/ Requested(old, new)
  <2>1. new.slots = EmptySlots
    BY <1>1, <1>8 DEF Opened, Erased, Requested, SameSlots, ShowsJobs
  <2> QED BY <2>1, EmptyShowsNothing DEF ShowsJobs, ShowsRunning
<1>9. CASE Edited(old, new)
  BY <1>5, <1>6, <1>9 DEF Edited, ShowsJobs, ShowsRunning
<1>10. CASE Shown(old, new)
  <2>1. PICK k \in Slots, j \in Jobs : /\ new.slots = [old.slots EXCEPT ![k] = j]
                                       /\ job'[j].status = "queued"
    BY <1>10 DEF Shown
  <2>2. SlotJobs(new) \subseteq SlotJobs(old) \cup {j}
    BY <1>1, <2>1, ShownJobs
  <2>3. new.status = "ocr_running"
    BY <1>10 DEF Shown
  <2> QED BY <1>5, <2>1, <2>2, <2>3 DEF ShowsJobs, ShowsRunning
<1>11. CASE Reprojected(old, new)
  <2>1. SlotJobs(new) = SlotJobs(old)
    BY <1>6, <1>11 DEF Reprojected
  <2>2. new.status \in {"ocr_running", "ocr_failed", "draft_ready"}
    BY <1>11 DEF Reprojected, ProjectedStatus
  <2>3. ASSUME NEW j \in SlotJobs(old), job'[j].status \in Unfinished
        PROVE  new.status = "ocr_running"
    BY <1>11, <2>3 DEF Reprojected, ProjectedStatus
  <2> QED BY <1>5, <2>1, <2>2, <2>3 DEF ShowsJobs, ShowsRunning
<1> QED BY <1>2, <1>7, <1>8, <1>9, <1>10, <1>11 DEF DraftStep

LEMMA AlwaysProjected == Spec => [](SlotsShowJobs /\ UnfinishedSlotShowsRunning)
<1>1. Init => SlotsShowJobs /\ UnfinishedSlotShowsRunning
  BY EmptyShowsNothing DEF Init, SlotsShowJobs, UnfinishedSlotShowsRunning
<1> QED BY <1>1, ProjectionStep, TypeCorrect, AlwaysUnborn, PTL DEF Spec

(* A draft one of whose slots waits for a queued or running job is always    *)
(* ocr_running, so neither UpdateMatchDraft nor confirm accepts it, through  *)
(* every projection, attachment, cancellation and settlement.                *)
THEOREM ProjectionHolds == Spec => []UnfinishedSlotShowsRunning
BY AlwaysProjected, PTL
----------------------------------------------------------------------------
(* Submissions.                                                              *)

Put(s) == /\ sub[s].status = "none"
          /\ sub'[s].status = "open"
          /\ sub'[s].draft \in Drafts
          /\ draft[sub'[s].draft].status \in NonTerminalDraft
          /\ draft'[sub'[s].draft].status \in NonTerminalDraft
Proceeds(s) == /\ sub[s].status = "open"
               /\ sub'[s].status \in {"open", "settled", "aborted"}
               /\ sub'[s].draft = sub[s].draft
SubmissionStep(s) == sub'[s] = sub[s] \/ Put(s) \/ Proceeds(s)

LEMMA AbortedStep ==
    ASSUME TypeOK, NEW d, sub' = Aborted(d), NEW s \in Submissions
    PROVE  SubmissionStep(s)
BY DEF Aborted, TypeOK, SubmissionRow, SubmissionStep, Proceeds

LEMMA EverySubmissionSteps ==
    ASSUME TypeOK, [Next]_vars, NEW s \in Submissions
    PROVE  SubmissionStep(s)
<1>1. sub' = sub => SubmissionStep(s)
  BY DEF SubmissionStep
<1>2. ASSUME NEW d \in Drafts, CancelDraft(d) \/ ConfirmDraft(d)
      PROVE  SubmissionStep(s)
  BY <1>2, AbortedStep DEF CancelDraft, ConfirmDraft
<1>3. ASSUME NEW t \in Submissions, NEW d \in Drafts,
             NEW screens \in SUBSET Slots \ {{}}, PutSubmission(t, d, screens)
      PROVE  SubmissionStep(s)
  <2>1. CASE s = t
    <3>1. sub'[s].status = "open" /\ sub'[s].draft = d /\ sub[s].status = "none"
      BY <1>3, <2>1 DEF PutSubmission, TypeOK
    <3>2. draft[d].status \in NonTerminalDraft /\ draft'[d].status \in NonTerminalDraft
      BY <1>3 DEF PutSubmission, TypeOK, DraftRow
    <3> QED BY <3>1, <3>2 DEF SubmissionStep, Put
  <2>2. CASE s # t
    BY <1>3, <2>2 DEF PutSubmission, TypeOK, SubmissionStep
  <2> QED BY <2>1, <2>2
<1>4. ASSUME NEW t \in Submissions, NEW k \in Slots,
             FailAdmission(t, k) \/ \E j \in Jobs : StoreJob(t, k, j)
      PROVE  SubmissionStep(s)
  <2>1. PICK m : sub[t].status = "open" /\ sub' = [sub EXCEPT ![t].members[k] = m]
    BY <1>4 DEF FailAdmission, StoreJob
  <2> QED BY <2>1 DEF TypeOK, SubmissionRow, SubmissionStep, Proceeds
<1>5. ASSUME NEW t \in Submissions, Settle(t)
      PROVE  SubmissionStep(s)
  <2> DEFINE members == Expired(sub[t].members, sub[t].late)
  <2>1. /\ sub[t].status = "open"
        /\ \/ sub' = [sub EXCEPT ![t].status = "aborted"]
           \/ sub' = [sub EXCEPT ![t].members = members]
           \/ sub' = [sub EXCEPT ![t].members = members, ![t].status = "settled"]
    BY <1>5 DEF Settle
  <2> HIDE DEF members
  <2> QED BY <2>1 DEF TypeOK, SubmissionRow, SubmissionStep, Proceeds
<1>6. ASSUME NEW t \in Submissions, DeadlinePasses(t)
      PROVE  SubmissionStep(s)
  BY <1>6 DEF DeadlinePasses, TypeOK, SubmissionRow, SubmissionStep, Proceeds
<1>7. CASE UNCHANGED vars
  BY <1>1, <1>7 DEF vars
<1>8. CASE UserNext
  <2>1. \/ sub' = sub
        \/ \E d \in Drafts : CancelDraft(d) \/ ConfirmDraft(d)
        \/ \E t \in Submissions, d \in Drafts, screens \in SUBSET Slots \ {{}} :
              PutSubmission(t, d, screens)
        \/ \E t \in Submissions, k \in Slots :
              FailAdmission(t, k) \/ \E j \in Jobs : StoreJob(t, k, j)
    BY <1>8 DEF UserNext, CreateDraft, UpdateDraft, DeleteMatch, CancelQueued, SweepImage
  <2> QED BY <1>1, <1>2, <1>3, <1>4, <2>1
<1>9. CASE WorkerNext
  <2>1. sub' = sub \/ \E t \in Submissions : Settle(t)
    BY <1>9 DEF WorkerNext, Claim, Heartbeat, AttemptEnds, FinishSuccess, FinishFailure,
                RequeueTransient, RequeueInterrupted, OwnerLost, Abandon, Recover, ReapStale
  <2> QED BY <1>1, <1>5, <2>1
<1>10. CASE TimeNext
  <2>1. sub' = sub \/ \E t \in Submissions : DeadlinePasses(t)
    BY <1>10 DEF TimeNext, LeaseAges, BecomesDue, JobAges
  <2> QED BY <1>1, <1>6, <2>1
<1> QED BY <1>7, <1>8, <1>9, <1>10 DEF Next

(* The two transactions that close a draft abort what is open for it.        *)
LEMMA ClosingDraftAborts ==
    ASSUME TypeOK, [Next]_vars, NEW d \in Drafts,
           draft[d].status \in NonTerminalDraft, draft'[d].status \notin NonTerminalDraft
    PROVE  sub' = Aborted(d)
<1>1. DraftStep(draft[d], draft'[d])
  BY EveryDraftSteps
<1>2. draft'[d].status \in {"confirmed", "deleted"}
  BY <1>1 DEF DraftStep, Opened, Edited, Erased, Requested, Shown, Reprojected, ProjectedStatus
<1>3. ASSUME NEW i \in Drafts, CancelDraft(i) \/ ConfirmDraft(i)
      PROVE  sub' = Aborted(d)
  <2>1. i = d
    BY <1>3 DEF CancelDraft, ConfirmDraft, TypeOK
  <2> QED BY <1>3, <2>1 DEF CancelDraft, ConfirmDraft
<1>4. ASSUME NEW i \in Drafts, DeleteMatch(i)
      PROVE  FALSE
  BY <1>4 DEF DeleteMatch, TypeOK
<1>5. ASSUME NEW j \in Jobs, draft' = Project(job', j)
      PROVE  FALSE
  <2>1. draft'[d] = draft[d] \/ draft'[d] = [draft[d] EXCEPT
                                                !.status = ProjectedStatus(job', draft[d])]
    BY <1>5 DEF Project
  <2>2. ProjectedStatus(job', draft[d]) \in NonTerminalDraft
    BY DEF ProjectedStatus
  <2> HIDE DEF NonTerminalDraft
  <2> QED BY <2>1, <2>2 DEF TypeOK, DraftRow
<1>6. ASSUME NEW i \in Drafts, NEW status \in NonTerminalDraft,
             draft' = [draft EXCEPT ![i].status = status]
      PROVE  FALSE
  BY <1>6 DEF TypeOK, DraftRow
<1>7. ASSUME NEW s \in Submissions, NEW k \in Slots, NEW j \in Jobs, StoreJob(s, k, j)
      PROVE  FALSE
  BY <1>2, <1>7 DEF StoreJob, TypeOK, DraftRow
<1>8. ASSUME NEW s \in Submissions, Settle(s)
      PROVE  FALSE
  <2>1. draft' = draft \/ draft' = [draft EXCEPT ![sub[s].draft].status = "ocr_failed"]
    BY <1>8 DEF Settle, ProjectEmptyDraft
  <2> QED BY <2>1 DEF TypeOK, DraftRow
<1>9. draft' # draft
  OBVIOUS
<1>10. CASE UserNext
  <2>1. \/ \E i \in Drafts : \E status \in NonTerminalDraft :
               draft' = [draft EXCEPT ![i].status = status]
        \/ \E i \in Drafts : CancelDraft(i) \/ ConfirmDraft(i) \/ DeleteMatch(i)
        \/ \E s \in Submissions, k \in Slots, j \in Jobs : StoreJob(s, k, j)
        \/ \E j \in Jobs : draft' = Project(job', j)
    BY <1>9, <1>10 DEF UserNext, CreateDraft, UpdateDraft, PutSubmission, FailAdmission,
                       CancelQueued, SweepImage, Finish
  <2> QED BY <1>3, <1>4, <1>5, <1>6, <1>7, <2>1
<1>11. CASE WorkerNext
  <2>1. \/ \E j \in Jobs : draft' = Project(job', j)
        \/ \E s \in Submissions : Settle(s)
    BY <1>9, <1>11 DEF WorkerNext, Claim, Heartbeat, AttemptEnds, FinishSuccess,
                       FinishFailure, RequeueTransient, RequeueInterrupted, OwnerLost,
                       Abandon, Recover, ReapStale, Finish, Owned
  <2> QED BY <1>5, <1>8, <2>1
<1>12. CASE TimeNext \/ UNCHANGED vars
  BY <1>9, <1>12 DEF TimeNext, LeaseAges, BecomesDue, JobAges, DeadlinePasses, vars
<1> QED BY <1>10, <1>11, <1>12 DEF Next

(* Strengthening of OpenSubmissionHasDraft: the submission names a draft.    *)
OpenHasDraft == \A s \in Submissions : sub[s].status = "open" =>
    sub[s].draft \in Drafts /\ draft[sub[s].draft].status \in NonTerminalDraft

LEMMA OpenHasDraftStep ==
    ASSUME TypeOK, OpenHasDraft, [Next]_vars
    PROVE  OpenHasDraft'
<1> SUFFICES ASSUME NEW s \in Submissions, sub'[s].status = "open"
             PROVE  sub'[s].draft \in Drafts /\ draft'[sub'[s].draft].status \in NonTerminalDraft
  BY DEF OpenHasDraft
<1>1. SubmissionStep(s)
  BY EverySubmissionSteps
<1>2. CASE Put(s)
  BY <1>2 DEF Put
<1>3. CASE sub'[s] = sub[s] \/ Proceeds(s)
  <2> DEFINE d == sub[s].draft
  <2>1. sub[s].status = "open" /\ sub'[s].draft = d
    BY <1>3 DEF Proceeds
  <2>2. d \in Drafts /\ draft[d].status \in NonTerminalDraft
    BY <2>1 DEF OpenHasDraft
  <2>3. ASSUME draft'[d].status \notin NonTerminalDraft
        PROVE  FALSE
    <3>1. sub' = Aborted(d)
      BY <2>2, <2>3, ClosingDraftAborts
    <3>2. sub'[s].status = "aborted"
      BY <2>1, <3>1 DEF Aborted, TypeOK, SubmissionRow
    <3> QED BY <3>2
  <2> QED BY <2>1, <2>2, <2>3
<1> QED BY <1>1, <1>2, <1>3 DEF SubmissionStep

(* Whatever is open can still be answered: confirming and deleting abort the *)
(* draft's submissions, and nothing else closes a draft.  settle_transaction *)
(* therefore never takes the branch that aborts a submission itself.         *)
THEOREM OpenSubmissionsHoldDrafts == Spec => []OpenSubmissionHasDraft
<1>1. Init => OpenHasDraft
  BY DEF Init, OpenHasDraft
<1>2. OpenHasDraft => OpenSubmissionHasDraft
  BY DEF OpenHasDraft, OpenSubmissionHasDraft, OpenSubmissions
<1> QED BY <1>1, <1>2, OpenHasDraftStep, TypeCorrect, PTL DEF Spec

(* No late answer, cancellation, reaper, claim or second settlement moves a  *)
(* finished job, a closed submission or a confirmed draft.                   *)
THEOREM FinalStaysFinal == Spec => FinalIsFinal
<1>1. ASSUME TypeOK, UnbornRows, [Next]_vars
      PROVE  /\ \A j \in Jobs : job[j].status \in Final => job'[j].status = job[j].status
             /\ \A s \in Submissions : sub[s].status \in Closed => sub'[s] = sub[s]
             /\ \A d \in Drafts : draft[d].status = "confirmed" =>
                   draft'[d].status \in {"confirmed", "deleted"}
  <2>1. ASSUME NEW j \in Jobs, job[j].status \in Final
        PROVE  job'[j].status = job[j].status
    BY <1>1, <2>1, JobStatusMoves
  <2>2. ASSUME NEW s \in Submissions, sub[s].status \in Closed
        PROVE  sub'[s] = sub[s]
    BY <1>1, <2>2, EverySubmissionSteps DEF SubmissionStep, Put, Proceeds
  <2>3. ASSUME NEW d \in Drafts, draft[d].status = "confirmed"
        PROVE  draft'[d].status \in {"confirmed", "deleted"}
    BY <1>1, <2>3, EveryDraftSteps
       DEF DraftStep, Opened, Edited, Erased, Requested, Shown, Reprojected
  <2> QED BY <2>1, <2>2, <2>3
<1>2. TypeOK /\ UnbornRows /\ [Next]_vars =>
        [/\ \A j \in Jobs : job[j].status \in Final => job'[j].status = job[j].status
         /\ \A s \in Submissions : sub[s].status \in Closed => sub'[s] = sub[s]
         /\ \A d \in Drafts : draft[d].status = "confirmed" =>
               draft'[d].status \in {"confirmed", "deleted"}]_vars
  BY <1>1
<1> QED BY <1>2, TypeCorrect, AlwaysUnborn, PTL DEF Spec, FinalIsFinal
----------------------------------------------------------------------------
(* Which transactions write drafts.                                          *)
LEMMA DraftWrites ==
    ASSUME [Next]_vars
    PROVE  \/ draft' = draft
           \/ \E d \in Drafts : \E status \in NonTerminalDraft : CreateDraft(d, status)
           \/ \E d \in Drafts : \E status \in Editable : UpdateDraft(d, status)
           \/ \E d \in Drafts : CancelDraft(d) \/ ConfirmDraft(d) \/ DeleteMatch(d)
           \/ \E s \in Submissions, d \in Drafts, screens \in SUBSET Slots \ {{}} :
                 PutSubmission(s, d, screens)
           \/ \E s \in Submissions, k \in Slots, j \in Jobs : StoreJob(s, k, j)
           \/ \E j \in Jobs : draft' = Project(job', j)
           \/ \E s \in Submissions : Settle(s)
<1>1. CASE UserNext
  BY <1>1 DEF UserNext, FailAdmission, SweepImage, CancelQueued, Finish
<1>2. CASE WorkerNext
  BY <1>2 DEF WorkerNext, Claim, Heartbeat, AttemptEnds, FinishSuccess, FinishFailure,
              RequeueTransient, RequeueInterrupted, OwnerLost, Abandon, Recover,
              ReapStale, Finish, Owned
<1>3. CASE TimeNext \/ UNCHANGED vars
  BY <1>3 DEF TimeNext, LeaseAges, BecomesDue, JobAges, DeadlinePasses, vars
<1> QED BY <1>1, <1>2, <1>3 DEF Next

(* What a job's registration writes.                                         *)
LEMMA StoreWrites ==
    ASSUME TypeOK, OpenHasDraft, NEW s \in Submissions, NEW k \in Slots, NEW j \in Jobs,
           StoreJob(s, k, j)
    PROVE  LET d == sub[s].draft
           IN  /\ d \in Drafts
               /\ draft'[d].status = "ocr_running"
               /\ draft'[d].slots = [draft[d].slots EXCEPT ![k] = j]
               /\ \A e \in Drafts \ {d} : draft'[e] = draft[e]
<1> DEFINE d == sub[s].draft
           row == [draft[d] EXCEPT !.status = "ocr_running", !.slots[k] = j]
<1>1. d \in Drafts
  BY DEF StoreJob, OpenHasDraft
<1>2. draft' = [draft EXCEPT ![d] = row]
  BY DEF StoreJob
<1>3. row.status = "ocr_running" /\ row.slots = [draft[d].slots EXCEPT ![k] = j]
  BY <1>1 DEF TypeOK, DraftRow
<1> HIDE DEF row
<1> QED BY <1>1, <1>2, <1>3 DEF TypeOK

(* Slots are otherwise kept, or emptied with the draft.                      *)
LEMMA SlotsMove ==
    ASSUME TypeOK, [Next]_vars, NEW d \in Drafts
    PROVE  \/ draft'[d].slots = draft[d].slots
           \/ draft'[d].status = "deleted" /\ draft'[d].slots = EmptySlots
           \/ \E s \in Submissions, k \in Slots, j \in Jobs : StoreJob(s, k, j)
<1>1. ASSUME NEW i \in Drafts, NEW status,
             draft' = [draft EXCEPT ![i].status = status]
      PROVE  draft'[d].slots = draft[d].slots
  BY <1>1 DEF TypeOK, DraftRow
<1>2. ASSUME NEW i \in Drafts, CancelDraft(i) \/ ConfirmDraft(i) \/ DeleteMatch(i)
      PROVE  \/ draft'[d].slots = draft[d].slots
             \/ draft'[d].status = "deleted" /\ draft'[d].slots = EmptySlots
  <2>1. CASE draft' = [draft EXCEPT ![i].status = "confirmed"]
    BY <1>1, <2>1
  <2>2. CASE draft' = [draft EXCEPT ![i] = [status |-> "deleted", slots |-> EmptySlots]]
    BY <2>2 DEF TypeOK
  <2> QED BY <1>2, <2>1, <2>2 DEF CancelDraft, ConfirmDraft, DeleteMatch
<1>3. ASSUME NEW j \in Jobs, draft' = Project(job', j)
      PROVE  draft'[d].slots = draft[d].slots
  <2> DEFINE status == ProjectedStatus(job', draft[d])
  <2>1. draft'[d] = draft[d] \/ draft'[d] = [draft[d] EXCEPT !.status = status]
    BY <1>3 DEF Project
  <2> HIDE DEF status
  <2> QED BY <2>1 DEF TypeOK, DraftRow
<1>4. ASSUME NEW s \in Submissions, Settle(s)
      PROVE  draft'[d].slots = draft[d].slots
  <2>1. draft' = draft \/ draft' = [draft EXCEPT ![sub[s].draft].status = "ocr_failed"]
    BY <1>4 DEF Settle, ProjectEmptyDraft
  <2> QED BY <2>1 DEF TypeOK, DraftRow
<1>5. ASSUME NEW s \in Submissions, NEW i \in Drafts, NEW screens,
             PutSubmission(s, i, screens)
      PROVE  draft'[d].slots = draft[d].slots
  BY <1>1, <1>5 DEF PutSubmission
<1> QED BY <1>1, <1>2, <1>3, <1>4, <1>5, DraftWrites DEF CreateDraft, UpdateDraft

(* What is not shown before is shown by its registration only.               *)
LEMMA WhoShows ==
    ASSUME TypeOK, OpenHasDraft, [Next]_vars, NEW d \in Drafts, NEW j,
           j \in SlotJobs(draft'[d]), j \notin SlotJobs(draft[d])
    PROVE  /\ j \in Jobs
           /\ \E s \in Submissions, k \in Slots : sub[s].draft = d /\ StoreJob(s, k, j)
<1>1. draft'[d].slots # draft[d].slots /\ draft'[d].slots # EmptySlots
  BY EmptyShowsNothing DEF SlotJobs
<1>2. PICK s \in Submissions, k \in Slots, i \in Jobs : StoreJob(s, k, i)
  BY <1>1, SlotsMove
<1>3. sub[s].draft = d
  BY <1>1, <1>2, StoreWrites
<1>4. draft'[d].slots = [draft[d].slots EXCEPT ![k] = i] /\ draft[d] \in DraftRow
  BY <1>2, <1>3, StoreWrites DEF TypeOK
<1>5. SlotJobs(draft'[d]) \subseteq SlotJobs(draft[d]) \cup {i}
  BY <1>4, ShownJobs
<1> QED BY <1>2, <1>3, <1>5

(* A slot is never taken over, nor emptied in a draft that is not deleted,   *)
(* while its job is unfinished (attachmentGuard).                            *)
LEMMA SlotKept ==
    ASSUME TypeOK, OpenHasDraft, [Next]_vars, NEW d \in Drafts, NEW k \in Slots,
           NEW j \in Jobs, draft[d].slots[k] = j, job[j].status \in Unfinished
    PROVE  draft'[d].status = "deleted" \/ draft'[d].slots[k] = j
<1>1. ASSUME NEW s \in Submissions, NEW l \in Slots, NEW i \in Jobs, StoreJob(s, l, i)
      PROVE  draft'[d].slots[k] = j
  <2>1. CASE sub[s].draft # d
    BY <1>1, <2>1, StoreWrites
  <2>2. CASE sub[s].draft = d
    <3>1. l # k
      BY <1>1, <2>2 DEF StoreJob, Attachable
    <3>2. draft'[d].slots = [draft[d].slots EXCEPT ![l] = i]
      BY <1>1, <2>2, StoreWrites
    <3> QED BY <3>1, <3>2 DEF TypeOK, DraftRow
  <2> QED BY <2>1, <2>2
<1> QED BY <1>1, SlotsMove
----------------------------------------------------------------------------
(* Members.                                                                  *)

(* A member names a job from its registration on.                            *)
LEMMA MembersMove ==
    ASSUME TypeOK, [Next]_vars, NEW s \in Submissions, NEW k \in Slots, NEW j \in Jobs,
           sub'[s].members[k] = j
    PROVE  /\ sub'[s].draft = sub[s].draft
           /\ sub[s].members[k] = j \/ StoreJob(s, k, j)
<1> USE MemberAssumption
<1>1. CASE sub' = sub
  BY <1>1
<1>2. ASSUME NEW d, sub' = Aborted(d)
      PROVE  sub'[s].draft = sub[s].draft /\ sub[s].members[k] = j
  BY <1>2 DEF Aborted, TypeOK, SubmissionRow
<1>3. ASSUME NEW t \in Submissions, NEW d \in Drafts, NEW screens, PutSubmission(t, d, screens)
      PROVE  sub'[s].draft = sub[s].draft /\ sub[s].members[k] = j
  <2>1. t # s
    BY <1>3 DEF PutSubmission, TypeOK
  <2> QED BY <1>3, <2>1 DEF PutSubmission, TypeOK
<1>4. ASSUME NEW t \in Submissions, NEW l \in Slots, FailAdmission(t, l)
      PROVE  sub'[s].draft = sub[s].draft /\ sub[s].members[k] = j
  BY <1>4 DEF FailAdmission, TypeOK, SubmissionRow
<1>5. ASSUME NEW t \in Submissions, NEW l \in Slots, NEW i \in Jobs, StoreJob(t, l, i)
      PROVE  sub'[s].draft = sub[s].draft /\ (sub[s].members[k] = j \/ StoreJob(s, k, j))
  <2>1. sub' = [sub EXCEPT ![t].members[l] = i]
    BY <1>5 DEF StoreJob
  <2>2. sub'[s].draft = sub[s].draft
    BY <2>1 DEF TypeOK, SubmissionRow
  <2>3. CASE t = s /\ l = k
    <3>1. i = j
      BY <2>1, <2>3 DEF TypeOK, SubmissionRow
    <3> QED BY <1>5, <2>2, <2>3, <3>1
  <2>4. CASE ~(t = s /\ l = k)
    BY <2>1, <2>2, <2>4 DEF TypeOK, SubmissionRow
  <2> QED BY <2>3, <2>4
<1>6. ASSUME NEW t \in Submissions, Settle(t)
      PROVE  sub'[s].draft = sub[s].draft /\ sub[s].members[k] = j
  <2> DEFINE members == Expired(sub[t].members, sub[t].late)
  <2>1. \/ sub' = [sub EXCEPT ![t].status = "aborted"]
        \/ sub' = [sub EXCEPT ![t].members = members]
        \/ sub' = [sub EXCEPT ![t].members = members, ![t].status = "settled"]
    BY <1>6 DEF Settle
  <2>2. members[k] = j => sub[t].members[k] = j
    BY DEF Expired
  <2> HIDE DEF members
  <2> QED BY <2>1, <2>2 DEF TypeOK, SubmissionRow
<1>7. ASSUME NEW t \in Submissions, DeadlinePasses(t)
      PROVE  sub'[s].draft = sub[s].draft /\ sub[s].members[k] = j
  BY <1>7 DEF DeadlinePasses, TypeOK, SubmissionRow
<1>8. CASE UserNext
  BY <1>1, <1>2, <1>3, <1>4, <1>5, <1>8
     DEF UserNext, CreateDraft, UpdateDraft, CancelDraft, ConfirmDraft, DeleteMatch,
         CancelQueued, SweepImage
<1>9. CASE WorkerNext
  BY <1>1, <1>6, <1>9
     DEF WorkerNext, Claim, Heartbeat, AttemptEnds, FinishSuccess, FinishFailure,
         RequeueTransient, RequeueInterrupted, OwnerLost, Abandon, Recover, ReapStale
<1>10. CASE TimeNext \/ UNCHANGED vars
  BY <1>1, <1>7, <1>10 DEF TimeNext, LeaseAges, BecomesDue, JobAges, vars
<1> QED BY <1>8, <1>9, <1>10 DEF Next

(* A registered job is stored, and its submission names a draft.             *)
RegisteredIsStored == \A s \in Submissions, k \in Slots : sub[s].members[k] \in Jobs =>
    job[sub[s].members[k]].status # "none" /\ sub[s].draft \in Drafts

LEMMA RegisteredStep ==
    ASSUME TypeOK, UnbornRows, OpenHasDraft, RegisteredIsStored, [Next]_vars
    PROVE  RegisteredIsStored'
<1> SUFFICES ASSUME NEW s \in Submissions, NEW k \in Slots, NEW j \in Jobs,
                    sub'[s].members[k] = j
             PROVE  job'[j].status # "none" /\ sub'[s].draft \in Drafts
  BY DEF RegisteredIsStored
<1>1. CASE sub[s].members[k] = j
  BY <1>1, MembersMove, JobStatusMoves DEF RegisteredIsStored
<1>2. CASE StoreJob(s, k, j)
  <2>1. job'[j].status = "queued"
    BY <1>2 DEF StoreJob, QueuedJob, NewJob, TypeOK
  <2> QED BY <1>2, <2>1, StoreWrites, MembersMove
<1> QED BY <1>1, <1>2, MembersMove

LEMMA DeletedStays ==
    ASSUME TypeOK, [Next]_vars, NEW d \in Drafts, draft[d].status = "deleted"
    PROVE  draft'[d].status = "deleted"
BY EveryDraftSteps DEF DraftStep, Opened, Edited, Erased, Requested, Shown, Reprojected

LEMMA ShownStep ==
    ASSUME TypeOK, UnbornRows, OpenHasDraft, RegisteredIsStored, UnfinishedJobIsShown,
           [Next]_vars
    PROVE  UnfinishedJobIsShown'
<1> SUFFICES ASSUME NEW s \in Submissions, NEW k \in Slots, NEW j \in Jobs,
                    sub'[s].members[k] = j, job'[j].status \in Unfinished
             PROVE  \/ draft'[sub'[s].draft].status = "deleted"
                    \/ draft'[sub'[s].draft].slots[k] = j
  BY DEF UnfinishedJobIsShown
<1> DEFINE d == sub[s].draft
<1>1. sub'[s].draft = d
  BY MembersMove
<1>2. CASE sub[s].members[k] = j
  <2>1. d \in Drafts /\ job[j].status \in Unfinished
    BY <1>2, JobStatusMoves DEF RegisteredIsStored
  <2>2. draft[d].status = "deleted" \/ draft[d].slots[k] = j
    BY <1>2, <2>1 DEF UnfinishedJobIsShown
  <2> QED BY <1>1, <2>1, <2>2, DeletedStays, SlotKept
<1>3. CASE StoreJob(s, k, j)
  <2>1. d \in Drafts /\ draft'[d].slots = [draft[d].slots EXCEPT ![k] = j]
    BY <1>3, StoreWrites
  <2> QED BY <1>1, <2>1 DEF TypeOK, DraftRow
<1> QED BY <1>2, <1>3, MembersMove

LEMMA AlwaysOpenHasDraft == Spec => []OpenHasDraft
<1>1. Init => OpenHasDraft
  BY DEF Init, OpenHasDraft
<1> QED BY <1>1, OpenHasDraftStep, TypeCorrect, PTL DEF Spec

LEMMA AlwaysRegistered == Spec => []RegisteredIsStored
<1>1. Init => RegisteredIsStored
  BY MemberAssumption DEF Init, RegisteredIsStored
<1> QED BY <1>1, RegisteredStep, TypeCorrect, AlwaysUnborn, AlwaysOpenHasDraft, PTL DEF Spec

(* A new submission of the same screen takes a slot over only when its job   *)
(* is finished, and nothing but deleting the draft empties a slot: a job     *)
(* that is still queued or running is shown, or has lost its draft.          *)
THEOREM UnfinishedJobsAreShown == Spec => []UnfinishedJobIsShown
<1>1. Init => UnfinishedJobIsShown
  BY MemberAssumption DEF Init, UnfinishedJobIsShown
<1> QED BY <1>1, ShownStep, TypeCorrect, AlwaysUnborn, AlwaysOpenHasDraft,
           AlwaysRegistered, PTL DEF Spec
----------------------------------------------------------------------------
(* Images.                                                                   *)

LEMMA RowImages ==
    ASSUME NEW row \in JobRow
    PROVE  /\ \A dueNow \in BOOLEAN : Requeued(row, dueNow).image = row.image
           /\ Retried(row).image = row.image
           /\ \A w \in Workers : Acquired(row, w).image = row.image
           /\ [row EXCEPT !.recoveries = @ + 1].image = row.image
<1>1. \A r \in JobRow, dueNow \in BOOLEAN :
         Requeued(r, dueNow).image = r.image /\ Requeued(r, dueNow) \in JobRow
  <2>1. ASSUME NEW r \in JobRow, NEW dueNow \in BOOLEAN
        PROVE  Requeued(r, dueNow).image = r.image
    BY DEF Requeued, JobRow
  <2> QED BY <2>1, RequeuedRow
<1>2. \A r \in JobRow : /\ [r EXCEPT !.retries = @ + 1].image = r.image
                        /\ [r EXCEPT !.recoveries = @ + 1].image = r.image
  BY DEF JobRow
<1>3. Retried(row).image = row.image
  <2>1. Requeued(row, FALSE) \in JobRow /\ Requeued(row, FALSE).image = row.image
    BY <1>1
  <2> HIDE DEF Requeued
  <2> QED BY <1>2, <2>1 DEF Retried
<1>4. \A w \in Workers : Acquired(row, w).image = row.image
  BY DEF Acquired, JobRow
<1> QED BY <1>1, <1>2, <1>3, <1>4

LEMMA RecoveredImage ==
    ASSUME NEW row \in JobRow
    PROVE  \/ Recovered(row) = Finished(row, "failed")
           \/ Recovered(row).image = row.image
<1>1. Requeued(row, TRUE) \in JobRow /\ Requeued(row, TRUE).image = row.image
  BY RowImages, RequeuedRow
<1>2. [Requeued(row, TRUE) EXCEPT !.recoveries = @ + 1].image = row.image
  BY <1>1, RowImages
<1> QED BY <1>2 DEF Recovered

(* What one transaction may do to the image of one job.                      *)
ImageStep(old, new) == \/ new.status \notin Unfinished
                       \/ new.image = "available"
                       \/ old.status \in Unfinished /\ new.image = old.image

LEMMA FinishImages ==
    ASSUME TypeOK, NEW j \in Jobs, NEW status \in Final, Finish(j, status),
           job[j].status \in Unfinished, NEW i \in Jobs
    PROVE  ImageStep(job[i], job'[i])
<1>1. job'[i] = job[i] \/ (i = j /\ job'[i] = Finished(job[j], status))
  BY DEF Finish, TypeOK
<1> QED BY <1>1, FinishedFields DEF ImageStep, TypeOK

(* stageDeletion takes no image of a job that is still unfinished once the   *)
(* transaction's own cancellations are counted.                              *)
LEMMA StagedImages ==
    ASSUME NEW images, NEW drafts, NEW subs, NEW jobs \in [Jobs -> JobRow], NEW j \in Jobs
    PROVE  LET new == StageDeletion(images, drafts, subs, jobs)[j]
           IN  new = jobs[j] \/ (new.status = jobs[j].status /\ new.status \notin Unfinished)
<1>1. StageDeletion(images, drafts, subs, jobs)[j].status = jobs[j].status
  BY StagedFields
<1> QED BY <1>1 DEF StageDeletion, Deletable, Unreferenced

LEMMA EveryImageSteps ==
    ASSUME TypeOK, [Next]_vars, NEW i \in Jobs
    PROVE  ImageStep(job[i], job'[i])
<1>0. job[i] \in JobRow
  BY DEF TypeOK
<1>1. job' = job => ImageStep(job[i], job'[i])
  BY DEF ImageStep
<1>2. ASSUME NEW d \in Drafts, CancelDraft(d)
      PROVE  ImageStep(job[i], job'[i])
  <2> DEFINE jobs == CancelQueuedIn(draft[d])
  <2>1. jobs \in [Jobs -> JobRow] /\ job' = StageDeletion(SlotJobs(draft[d]), draft', sub', jobs)
    BY <1>2, CancelledRows DEF CancelDraft
  <2>2. jobs[i] = job[i] \/ jobs[i].status \notin Unfinished
    BY <1>0, FinishedFields DEF CancelQueuedIn
  <2> HIDE DEF jobs
  <2> QED BY <2>1, <2>2, StagedImages DEF ImageStep
<1>3. ASSUME NEW d \in Drafts, ConfirmDraft(d)
      PROVE  ImageStep(job[i], job'[i])
  BY <1>3, StagedImages DEF ConfirmDraft, TypeOK, ImageStep
<1>4. ASSUME NEW s \in Submissions, NEW k \in Slots, NEW j \in Jobs, StoreJob(s, k, j)
      PROVE  ImageStep(job[i], job'[i])
  <2>1. job' = [job EXCEPT ![j] = QueuedJob] /\ QueuedJob.image = "available"
    BY <1>4 DEF StoreJob, QueuedJob, NewJob
  <2> QED BY <2>1 DEF TypeOK, ImageStep
<1>5. ASSUME NEW j \in Jobs, SweepImage(j)
      PROVE  ImageStep(job[i], job'[i])
  BY <1>5 DEF SweepImage, Deletable, Unreferenced, TypeOK, JobRow, ImageStep
<1>6. ASSUME NEW j \in Jobs, CancelQueued(j) \/ ReapStale(j)
      PROVE  ImageStep(job[i], job'[i])
  BY <1>6, FinishImages DEF CancelQueued, ReapStale, Reapable
<1>7. ASSUME NEW w \in Workers, NEW j \in Jobs, Claim(w, j)
      PROVE  ImageStep(job[i], job'[i])
  <2> DEFINE row == Recovered(job[j])
  <2>1. row \in JobRow
    BY RecoveredRow DEF TypeOK
  <2>2. CASE row.image = "available" /\ job' = [job EXCEPT ![j] = Acquired(row, w)]
    <3>1. Acquired(row, w).image = "available"
      BY <2>1, <2>2, RowImages
    <3> QED BY <2>2, <3>1 DEF TypeOK, ImageStep
  <2>3. CASE job' = [job EXCEPT ![j] = Finished(row, "failed")]
    <3>1. Finished(row, "failed").status \notin Unfinished
      BY <2>1, FinishedFields
    <3> QED BY <2>3, <3>1 DEF TypeOK, ImageStep
  <2> QED BY <1>7, <2>2, <2>3 DEF Claim
<1>8. ASSUME NEW j \in Jobs, Recover(j)
      PROVE  ImageStep(job[i], job'[i])
  <2>1. job'[i] = job[i] \/ (i = j /\ job'[i] = Recovered(job[i]) /\ job'[i] # job[i])
    BY <1>8 DEF Recover, TypeOK
  <2>2. Recovered(job[i]) # job[i] => job[i].status = "running"
    BY DEF Recovered
  <2>3. Finished(job[i], "failed").status \notin Unfinished
    BY <1>0, FinishedFields
  <2> QED BY <1>0, <2>1, <2>2, <2>3, RecoveredImage DEF ImageStep
<1>9. ASSUME NEW w \in Workers, AttemptEnds(w) \/ Heartbeat(w)
      PROVE  ImageStep(job[i], job'[i])
  <2> DEFINE j == attempt[w].job
  <2>1. CASE FinishSuccess(w) \/ FinishFailure(w) \/ (Owned(w) /\ Finish(j, "failed"))
    BY <2>1, FinishImages DEF FinishSuccess, FinishFailure, Owned
  <2>2. ASSUME NEW row, Owned(w), job' = [job EXCEPT ![j] = row], row.image = job[j].image
        PROVE  ImageStep(job[i], job'[i])
    BY <2>2 DEF Owned, TypeOK, ImageStep
  <2>3. Owned(w) => job[j] \in JobRow
    BY DEF Owned, TypeOK
  <2>4. CASE Owned(w) /\ job' = [job EXCEPT ![j] = Retried(job[j])]
    BY <2>2, <2>3, <2>4, RowImages
  <2>5. CASE RequeueInterrupted(w)
    BY <2>2, <2>3, <2>5, RowImages DEF RequeueInterrupted
  <2>6. CASE Heartbeat(w)
    <3>1. [job[j] EXCEPT !.lease = "fresh"].image = job[j].image
      BY <2>3, <2>6 DEF Heartbeat, JobRow
    <3> QED BY <2>2, <2>6, <3>1 DEF Heartbeat
  <2>7. CASE RequeueTransient(w)
    BY <2>1, <2>4, <2>7 DEF RequeueTransient
  <2> QED BY <1>1, <1>9, <2>1, <2>5, <2>6, <2>7 DEF AttemptEnds, OwnerLost, Abandon
<1>10. ASSUME NEW j \in Jobs, LeaseAges(j) \/ BecomesDue(j) \/ JobAges(j)
       PROVE  ImageStep(job[i], job'[i])
  BY <1>10 DEF LeaseAges, BecomesDue, JobAges, TypeOK, JobRow, ImageStep
<1>11. CASE UserNext
  BY <1>1, <1>2, <1>3, <1>4, <1>5, <1>6, <1>11
     DEF UserNext, CreateDraft, UpdateDraft, DeleteMatch, PutSubmission, FailAdmission
<1>12. CASE WorkerNext
  BY <1>1, <1>6, <1>7, <1>8, <1>9, <1>12 DEF WorkerNext, Settle
<1>13. CASE TimeNext \/ UNCHANGED vars
  BY <1>1, <1>10, <1>13 DEF TimeNext, DeadlinePasses, vars
<1> QED BY <1>11, <1>12, <1>13 DEF Next

(* Deleting and confirming drafts and the orphan sweep stage images under    *)
(* unreferencedGuard, which counts the transaction's own cancellations: what *)
(* a queued or running job has still to read is never staged for deletion.   *)
THEOREM UnfinishedJobsKeepImages == Spec => []UnfinishedJobKeepsImage
<1>1. Init => UnfinishedJobKeepsImage
  BY DEF Init, UnfinishedJobKeepsImage, NewJob
<1>2. TypeOK /\ UnfinishedJobKeepsImage /\ [Next]_vars => UnfinishedJobKeepsImage'
  BY EveryImageSteps DEF UnfinishedJobKeepsImage, ImageStep
<1> QED BY <1>1, <1>2, TypeCorrect, PTL DEF Spec
----------------------------------------------------------------------------
(* What a running draft waits for.                                           *)

(* Strengthenings: two drafts never show one job, and what a submission      *)
(* names exists.                                                             *)
ShownOnce == \A d, e \in Drafts : d # e => SlotJobs(draft[d]) \cap SlotJobs(draft[e]) = {}
NamedDraftsExist == \A s \in Submissions : sub[s].draft \in Drafts =>
    draft[sub[s].draft].status # "absent"

LEMMA ShownOnceStep ==
    ASSUME TypeOK, OpenHasDraft, SlotsShowJobs, ShownOnce, [Next]_vars
    PROVE  ShownOnce'
<1> SUFFICES ASSUME NEW d \in Drafts, NEW e \in Drafts, NEW j,
                    j \in SlotJobs(draft'[d]), j \in SlotJobs(draft'[e]), d # e
             PROVE  FALSE
  BY DEF ShownOnce
<1>1. j \notin SlotJobs(draft[d]) \/ j \notin SlotJobs(draft[e])
  BY DEF ShownOnce
<1>2. ASSUME NEW a \in Drafts, NEW b \in Drafts, a # b, j \in SlotJobs(draft'[a]),
             j \notin SlotJobs(draft[a]), j \in SlotJobs(draft'[b])
      PROVE  FALSE
  <2>0. j \in Jobs
    BY <1>2, WhoShows
  <2>1. PICK s \in Submissions, k \in Slots : sub[s].draft = a /\ StoreJob(s, k, j)
    BY <1>2, WhoShows
  <2>2. job[j].status = "none"
    BY <2>1 DEF StoreJob
  <2>3. j \in SlotJobs(draft[b])
    BY <1>2, <2>0, <2>1, StoreWrites
  <2> QED BY <2>2, <2>3 DEF SlotsShowJobs
<1> QED BY <1>1, <1>2

LEMMA NamedStep ==
    ASSUME TypeOK, NamedDraftsExist, [Next]_vars
    PROVE  NamedDraftsExist'
<1> SUFFICES ASSUME NEW s \in Submissions, sub'[s].draft \in Drafts,
                    draft'[sub'[s].draft].status = "absent"
             PROVE  FALSE
  BY DEF NamedDraftsExist
<1>1. ASSUME NEW d \in Drafts, draft'[d].status = "absent"
      PROVE  draft[d].status = "absent"
  BY <1>1, EveryDraftSteps
     DEF DraftStep, Opened, Edited, Erased, Requested, Shown, Reprojected, ProjectedStatus
<1>2. SubmissionStep(s)
  BY EverySubmissionSteps
<1> QED BY <1>1, <1>2 DEF SubmissionStep, Put, Proceeds, NamedDraftsExist

(* A job ends with the projection of its draft, or with the draft.           *)
LEMMA WhoEnds ==
    ASSUME TypeOK, [Next]_vars, NEW j \in Jobs,
           job[j].status \in Unfinished, job'[j].status \notin Unfinished
    PROVE  \/ draft' = Project(job', j)
           \/ \E d \in Drafts : CancelDraft(d) /\ j \in SlotJobs(draft[d])
<1>1. ASSUME NEW i \in Jobs, NEW status, Finish(i, status)
      PROVE  draft' = Project(job', j)
  BY <1>1 DEF Finish, TypeOK
<1>2. ASSUME NEW d \in Drafts, CancelDraft(d)
      PROVE  j \in SlotJobs(draft[d])
  <2> DEFINE jobs == CancelQueuedIn(draft[d])
  <2>1. jobs \in [Jobs -> JobRow] /\ job' = StageDeletion(SlotJobs(draft[d]), draft', sub', jobs)
    BY <1>2, CancelledRows DEF CancelDraft
  <2>2. job'[j].status = jobs[j].status
    <3> HIDE DEF jobs
    <3> QED BY <2>1, StagedFields
  <2> QED BY <2>2 DEF CancelQueuedIn
<1>3. ASSUME NEW d \in Drafts, ConfirmDraft(d)
      PROVE  FALSE
  BY <1>3, StagedFields DEF ConfirmDraft, TypeOK
<1>4. ASSUME NEW i \in Jobs, NEW row, job' = [job EXCEPT ![i] = row],
             row.status = job[i].status \/ row.status \in Unfinished
      PROVE  FALSE
  BY <1>4 DEF TypeOK
<1>5. ASSUME NEW i \in Jobs, Recover(i)
      PROVE  draft' = Project(job', j)
  <2>1. job' = [job EXCEPT ![i] = Recovered(job[i])] /\ i = j
    BY <1>5 DEF Recover, TypeOK
  <2>2. job'[j] = Recovered(job[j])
    BY <2>1 DEF TypeOK
  <2>3. CASE Recovered(job[j]).status = "failed"
    BY <1>5, <2>1, <2>3 DEF Recover
  <2>4. CASE Recovered(job[j]).status # "failed"
    <3>1. Recovered(job[j]) = Finished(job[j], "failed") \/ Recovered(job[j]).status \in Unfinished
      BY RecoveredFields DEF TypeOK
    <3> QED BY <2>2, <2>4, <3>1, FinishedFields DEF TypeOK
  <2> QED BY <2>3, <2>4
<1>6. ASSUME NEW w \in Workers, NEW i \in Jobs, Claim(w, i)
      PROVE  draft' = Project(job', j)
  <2> DEFINE row == Recovered(job[i])
  <2>1. row \in JobRow
    BY RecoveredRow DEF TypeOK
  <2>2. CASE job' = [job EXCEPT ![i] = Acquired(row, w)]
    <3>1. Acquired(row, w).status \in Unfinished
      BY <2>1, AcquiredFields
    <3> HIDE DEF row
    <3> QED BY <1>4, <2>2, <3>1
  <2>3. CASE job' = [job EXCEPT ![i] = Finished(row, "failed")] /\ draft' = Project(job', i)
    BY <2>3 DEF TypeOK
  <2> QED BY <1>6, <2>2, <2>3 DEF Claim
<1>7. ASSUME NEW w \in Workers, AttemptEnds(w) \/ Heartbeat(w)
      PROVE  draft' = Project(job', j)
  <2> DEFINE i == attempt[w].job
  <2>1. Owned(w) => i \in Jobs /\ job[i] \in JobRow
    BY DEF Owned, TypeOK
  <2>2. Owned(w) => Retried(job[i]).status = "queued" /\ Requeued(job[i], TRUE).status = "queued"
    BY <2>1, RetriedFields, RequeuedFields
  <2>3. CASE Heartbeat(w)
    <3>1. Owned(w) /\ [job[i] EXCEPT !.lease = "fresh"].status = job[i].status
      BY <2>1, <2>3 DEF Heartbeat, JobRow
    <3> QED BY <1>4, <2>1, <2>3, <3>1 DEF Heartbeat
  <2>4. CASE FinishSuccess(w) \/ FinishFailure(w)
    BY <1>1, <2>1, <2>4 DEF FinishSuccess, FinishFailure
  <2>5. CASE RequeueTransient(w)
    BY <1>1, <1>4, <2>1, <2>2, <2>5 DEF RequeueTransient
  <2>6. CASE RequeueInterrupted(w)
    BY <1>4, <2>1, <2>2, <2>6 DEF RequeueInterrupted
  <2> QED BY <1>7, <2>3, <2>4, <2>5, <2>6 DEF AttemptEnds, OwnerLost, Abandon
<1>8. ASSUME NEW s \in Submissions, NEW k \in Slots, NEW i \in Jobs, StoreJob(s, k, i)
      PROVE  FALSE
  <2>1. QueuedJob.status = "queued" /\ job' = [job EXCEPT ![i] = QueuedJob]
    BY <1>8 DEF StoreJob, QueuedJob, NewJob
  <2> QED BY <1>4, <2>1
<1>9. ASSUME NEW i \in Jobs, SweepImage(i) \/ LeaseAges(i) \/ BecomesDue(i) \/ JobAges(i)
      PROVE  FALSE
  BY <1>9 DEF SweepImage, LeaseAges, BecomesDue, JobAges, TypeOK, JobRow
<1>10. CASE UserNext
  BY <1>1, <1>2, <1>3, <1>8, <1>9, <1>10
     DEF UserNext, CreateDraft, UpdateDraft, DeleteMatch, PutSubmission, FailAdmission,
         CancelQueued
<1>11. CASE WorkerNext
  BY <1>1, <1>5, <1>6, <1>7, <1>11 DEF WorkerNext, ReapStale, Settle
<1>12. CASE TimeNext \/ UNCHANGED vars
  BY <1>9, <1>12 DEF TimeNext, DeadlinePasses, vars
<1> QED BY <1>10, <1>11, <1>12 DEF Next

(* A draft that has no slot filled starts running with a submission.         *)
LEMMA WhoAsks ==
    ASSUME TypeOK, [Next]_vars, NEW d \in Drafts, draft[d].status \in Editable,
           draft'[d].status = "ocr_running", draft'[d].slots = EmptySlots
    PROVE  \E s \in Submissions : sub'[s].status = "open" /\ sub'[s].draft = d
<1>1. ASSUME NEW i \in Drafts, CreateDraft(i, "ocr_running") \/ CancelDraft(i)
                                  \/ ConfirmDraft(i) \/ DeleteMatch(i)
      PROVE  FALSE
  BY <1>1 DEF CreateDraft, CancelDraft, ConfirmDraft, DeleteMatch, TypeOK, DraftRow
<1>2. ASSUME NEW i \in Drafts, NEW status \in Editable,
             CreateDraft(i, status) \/ UpdateDraft(i, status)
      PROVE  FALSE
  BY <1>2 DEF CreateDraft, UpdateDraft, TypeOK, DraftRow
<1>3. ASSUME NEW s \in Submissions, NEW i \in Drafts, NEW screens, PutSubmission(s, i, screens)
      PROVE  sub'[s].status = "open" /\ sub'[s].draft = d
  <2>1. i = d
    BY <1>3 DEF PutSubmission, TypeOK, DraftRow
  <2> QED BY <1>3, <2>1 DEF PutSubmission, TypeOK
<1>4. ASSUME NEW s \in Submissions, NEW k \in Slots, NEW j \in Jobs, StoreJob(s, k, j)
      PROVE  FALSE
  <2>1. sub[s].draft = d
    BY <1>4 DEF StoreJob, TypeOK
  <2>2. draft'[d].slots[k] = j
    BY <1>4, <2>1 DEF StoreJob, TypeOK, DraftRow
  <2> QED BY <2>2, NullsAssumption DEF EmptySlots
<1>5. ASSUME NEW j \in Jobs, draft' = Project(job', j)
      PROVE  FALSE
  BY <1>5 DEF Project
<1>6. ASSUME NEW s \in Submissions, Settle(s)
      PROVE  FALSE
  <2>1. draft' = draft \/ draft' = [draft EXCEPT ![sub[s].draft].status = "ocr_failed"]
    BY <1>6 DEF Settle, ProjectEmptyDraft
  <2> QED BY <2>1 DEF TypeOK, DraftRow
<1> QED BY <1>1, <1>2, <1>3, <1>4, <1>5, <1>6, DraftWrites

(* A draft that stays running with no slot filled loses its submission only  *)
(* when another one is open.                                                 *)
LEMMA WhoCloses ==
    ASSUME TypeOK, OpenHasDraft, [Next]_vars, NEW d \in Drafts, NEW s \in Submissions,
           sub[s].status = "open", sub[s].draft = d, sub'[s].status # "open",
           draft[d].status = "ocr_running", draft[d].slots = EmptySlots,
           draft'[d].status = "ocr_running"
    PROVE  \E t \in Submissions : sub'[t].status = "open" /\ sub'[t].draft = d
<1>1. ASSUME NEW e \in Drafts, CancelDraft(e) \/ ConfirmDraft(e)
      PROVE  FALSE
  <2>1. e # d
    BY <1>1 DEF CancelDraft, ConfirmDraft, TypeOK
  <2>2. sub' = Aborted(e)
    BY <1>1 DEF CancelDraft, ConfirmDraft
  <2> QED BY <2>1, <2>2 DEF Aborted
<1>2. ASSUME NEW t \in Submissions, Settle(t)
      PROVE  \E u \in Submissions : sub'[u].status = "open" /\ sub'[u].draft = d
  <2> DEFINE members == Expired(sub[t].members, sub[t].late)
  <2>1. \/ sub' = [sub EXCEPT ![t].status = "aborted"]
        \/ sub' = [sub EXCEPT ![t].members = members]
        \/ sub' = [sub EXCEPT ![t].members = members, ![t].status = "settled"]
    BY <1>2 DEF Settle
  <2>2. t = s /\ \A u \in Submissions \ {s} : sub'[u] = sub[u]
    <3> HIDE DEF members
    <3> QED BY <2>1 DEF TypeOK, SubmissionRow
  <2>3. sub' # [sub EXCEPT ![t].members = members]
    <3> HIDE DEF members
    <3> QED BY <2>2 DEF TypeOK, SubmissionRow
  <2>4. draft' = ProjectEmptyDraft(s, d)
    BY <1>2, <2>2, <2>3 DEF Settle
  <2>5. PICK u \in OpenSubmissions \ {s} : sub[u].draft = d
    BY <2>4 DEF ProjectEmptyDraft, TypeOK, DraftRow
  <2> QED BY <2>2, <2>5 DEF OpenSubmissions
<1>3. ASSUME NEW t \in Submissions, NEW e \in Drafts, NEW screens, PutSubmission(t, e, screens)
      PROVE  FALSE
  BY <1>3 DEF PutSubmission, TypeOK
<1>4. ASSUME NEW t \in Submissions, NEW k \in Slots,
             FailAdmission(t, k) \/ \E j \in Jobs : StoreJob(t, k, j)
      PROVE  FALSE
  <2>1. PICK m : sub' = [sub EXCEPT ![t].members[k] = m]
    BY <1>4 DEF FailAdmission, StoreJob
  <2> QED BY <2>1 DEF TypeOK, SubmissionRow
<1>5. ASSUME NEW t \in Submissions, DeadlinePasses(t)
      PROVE  FALSE
  BY <1>5 DEF DeadlinePasses, TypeOK, SubmissionRow
<1>6. sub' # sub
  OBVIOUS
<1>7. CASE UserNext
  BY <1>1, <1>3, <1>4, <1>6, <1>7
     DEF UserNext, CreateDraft, UpdateDraft, DeleteMatch, CancelQueued, SweepImage
<1>8. CASE WorkerNext
  BY <1>2, <1>6, <1>8
     DEF WorkerNext, Claim, Heartbeat, AttemptEnds, FinishSuccess, FinishFailure,
         RequeueTransient, RequeueInterrupted, OwnerLost, Abandon, Recover, ReapStale
<1>9. CASE TimeNext \/ UNCHANGED vars
  BY <1>5, <1>6, <1>9 DEF TimeNext, LeaseAges, BecomesDue, JobAges, vars
<1> QED BY <1>7, <1>8, <1>9 DEF Next

WaitsForJob(d) == \E j \in SlotJobs(draft[d]) : job[j].status \in Unfinished
WaitsForUpload(d) == /\ draft[d].slots = EmptySlots
                     /\ \/ \E s \in OpenSubmissions : sub[s].draft = d
                        \/ \A s \in Submissions : sub[s].draft # d

LEMMA AwaitsStep ==
    ASSUME TypeOK, UnbornRows, OpenHasDraft, SlotsShowJobs, ShownOnce, NamedDraftsExist,
           RunningDraftAwaitsSomething, [Next]_vars
    PROVE  RunningDraftAwaitsSomething'
<1> SUFFICES ASSUME NEW d \in Drafts, draft'[d].status = "ocr_running"
             PROVE  WaitsForJob(d)' \/ WaitsForUpload(d)'
  BY DEF RunningDraftAwaitsSomething, WaitsForJob, WaitsForUpload
<1> DEFINE old == draft[d]
           new == draft'[d]
<1>1. old \in DraftRow /\ SlotJobs(old) \subseteq Jobs
  BY SlotJobsAreJobs DEF TypeOK
<1>2. SameSlots(old, new) => SlotJobs(new) = SlotJobs(old)
  BY DEF SameSlots, SlotJobs
<1>3. \A s \in Submissions : SubmissionStep(s)
  BY EverySubmissionSteps
(* A draft without a submission gets none, or one that is open.              *)
<1>4. ASSUME \A s \in Submissions : sub[s].draft # d, new.slots = EmptySlots
      PROVE  WaitsForUpload(d)'
  <2>1. ASSUME NEW s \in Submissions, sub'[s].draft = d
        PROVE  sub'[s].status = "open"
    BY <1>3, <1>4, <2>1 DEF SubmissionStep, Put, Proceeds
  <2> QED BY <1>4, <2>1 DEF WaitsForUpload, OpenSubmissions
(* What was running stays running for the same reason, or for the one the    *)
(* projection saw.                                                           *)
<1>5. CASE old.status = "ocr_running" /\ SameSlots(old, new)
  <2>1. WaitsForJob(d) \/ WaitsForUpload(d)
    BY <1>5 DEF RunningDraftAwaitsSomething, WaitsForJob, WaitsForUpload
  <2>2. ASSUME NEW j \in SlotJobs(old), job[j].status \in Unfinished,
               job'[j].status \notin Unfinished
        PROVE  WaitsForJob(d)'
    <3>1. ASSUME NEW e \in Drafts, CancelDraft(e), j \in SlotJobs(draft[e])
          PROVE  FALSE
      <4>1. e = d
        BY <2>2, <3>1 DEF ShownOnce
      <4> QED BY <3>1, <4>1 DEF CancelDraft, TypeOK
    <3>2. draft' = Project(job', j)
      BY <1>1, <2>2, <3>1, WhoEnds
    <3> DEFINE status == ProjectedStatus(job', old)
    <3>3. new = [old EXCEPT !.status = status]
      BY <1>5, <2>2, <3>2 DEF Project
    <3>4. status = "ocr_running"
      <4> HIDE DEF status
      <4> QED BY <1>1, <3>3 DEF DraftRow
    <3>5. PICK i \in SlotJobs(old) : job'[i].status \in Unfinished
      BY <3>4 DEF ProjectedStatus
    <3> QED BY <1>2, <1>5, <3>5 DEF WaitsForJob
  <2>3. CASE WaitsForJob(d)
    BY <1>2, <1>5, <2>2, <2>3 DEF WaitsForJob
  <2>4. CASE WaitsForUpload(d)
    <3>1. old.slots = EmptySlots /\ new.slots = EmptySlots
      BY <1>5, <2>4 DEF WaitsForUpload, SameSlots
    <3>2. ASSUME NEW s \in Submissions, sub[s].status = "open", sub[s].draft = d
          PROVE  WaitsForUpload(d)'
      <4>1. CASE sub'[s].status = "open"
        <5>1. sub'[s].draft = d
          BY <1>3, <3>2, <4>1 DEF SubmissionStep, Put, Proceeds
        <5> QED BY <3>1, <4>1, <5>1 DEF WaitsForUpload, OpenSubmissions
      <4>2. CASE sub'[s].status # "open"
        <5>1. PICK t \in Submissions : sub'[t].status = "open" /\ sub'[t].draft = d
          BY <1>5, <3>1, <3>2, <4>2, WhoCloses
        <5> QED BY <3>1, <5>1 DEF WaitsForUpload, OpenSubmissions
      <4> QED BY <4>1, <4>2
    <3> QED BY <1>4, <2>4, <3>1, <3>2 DEF WaitsForUpload, OpenSubmissions
  <2> QED BY <2>1, <2>3, <2>4
<1>6. CASE new = old
  BY <1>5, <1>6 DEF SameSlots
<1>7. CASE Opened(old, new)
  <2>1. new.slots = EmptySlots
    BY <1>7 DEF Opened, SameSlots, SlotsShowJobs
  <2>2. \A s \in Submissions : sub[s].draft # d
    BY <1>7 DEF Opened, NamedDraftsExist
  <2> QED BY <1>4, <2>1, <2>2
<1>8. CASE Requested(old, new)
  <2>1. new.slots = EmptySlots /\ SameSlots(old, new)
    BY <1>8 DEF Requested, SameSlots
  <2>2. CASE old.status \in Editable
    <3>1. PICK s \in Submissions : sub'[s].status = "open" /\ sub'[s].draft = d
      BY <2>1, <2>2, WhoAsks
    <3> QED BY <2>1, <3>1 DEF WaitsForUpload, OpenSubmissions
  <2> QED BY <1>5, <1>8, <2>1, <2>2 DEF Requested
<1>9. CASE Shown(old, new)
  <2>1. PICK k \in Slots, j \in Jobs : /\ new.slots = [old.slots EXCEPT ![k] = j]
                                       /\ job'[j].status = "queued"
    BY <1>9 DEF Shown
  <2>2. new.slots[k] = j /\ j # NoJob
    BY <1>1, <2>1, NullsAssumption DEF DraftRow
  <2>3. j \in SlotJobs(new)
    BY <2>2 DEF SlotJobs
  <2> QED BY <2>1, <2>3 DEF WaitsForJob
<1>10. CASE Edited(old, new) \/ Erased(old, new)
  BY <1>10 DEF Edited, Erased
<1>11. CASE Reprojected(old, new)
  BY <1>5, <1>11 DEF Reprojected
<1>12. DraftStep(old, new)
  BY EveryDraftSteps
<1> QED BY <1>6, <1>7, <1>8, <1>9, <1>10, <1>11, <1>12 DEF DraftStep

(* No draft is left running for nothing: the last job to end, the last       *)
(* submission to settle and every takeover of a slot leave it an unfinished  *)
(* job, an open submission, or another status (project_empty_draft,          *)
(* sync_match_draft_status); inductive with ShownOnce and NamedDraftsExist.  *)
THEOREM RunningDraftsAwait == Spec => []RunningDraftAwaitsSomething
<1>1. Init => ShownOnce /\ NamedDraftsExist /\ RunningDraftAwaitsSomething
  BY EmptyShowsNothing, NullsAssumption
     DEF Init, ShownOnce, NamedDraftsExist, RunningDraftAwaitsSomething
<1> QED BY <1>1, ShownOnceStep, NamedStep, AwaitsStep, TypeCorrect, AlwaysUnborn,
           AlwaysOpenHasDraft, AlwaysProjected, PTL DEF Spec
=============================================================================
