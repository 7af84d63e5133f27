---------------------------- MODULE OcrPipeline ----------------------------
(* The path of an OCR job from the browser's submission to the draft the     *)
(* user confirms: the API's draft, submission and job transactions, the      *)
(* Worker's claim, heartbeat, completion, requeue, recovery, maintenance and *)
(* settlement transactions, and the crashes, late answers and passing time   *)
(* in between.                                                               *)
(*                                                                           *)
(* One action is one committed database transaction.  Every writer of a      *)
(* draft's projection locks match_drafts before ocr_jobs before it reads     *)
(* (control.rs, "Cross-language lock order"), so the transactions that touch *)
(* the same rows are serial.                                                 *)
EXTENDS Naturals, FiniteSets

CONSTANTS
    Drafts,             \* match_drafts rows
    Slots,              \* total_assets, revenue, incident_log
    Submissions,        \* ocr_submissions rows
    Jobs,               \* ocr_jobs rows
    Workers,            \* Worker parent processes (ocr_jobs.lease_owner)
    NoDraft, NoJob, NoWorker,   \* SQL NULL in a column that names one
    OpenLimit,          \* OcrSubmissionsRepository.OpenLimit, for one owner
    ActiveLimit,        \* activeJobLimit of the API
    MaxFailureRetries,  \* OcrControlConfig.maximum_failure_retries
    MaxLeaseRecoveries, \* OcrControlConfig.maximum_lease_recoveries
    MaxClaims           \* where checked_add refuses one more claim

ASSUME NullsAssumption == /\ NoDraft \notin Drafts
                          /\ NoJob \notin Jobs
                          /\ NoWorker \notin Workers
ASSUME MemberAssumption == Jobs \cap {"absent", "pending", "failed"} = {}
ASSUME LimitsAssumption == /\ OpenLimit \in Nat
                           /\ ActiveLimit \in Nat
                           /\ MaxFailureRetries \in Nat
                           /\ MaxLeaseRecoveries \in Nat
                           /\ MaxClaims \in Nat

VARIABLES
    draft,      \* match_drafts: status and the OCR job each slot displays
    sub,        \* ocr_submissions with their members
    job,        \* ocr_jobs with the state of their source image
    attempt     \* the claim each Worker process holds in memory

vars == <<draft, sub, job, attempt>>
----------------------------------------------------------------------------
(* Rows.  needs_review is as editable and as confirmable as draft_ready and  *)
(* ranks just before it in the projection, so one value stands for both.     *)

Editable == {"ocr_failed", "draft_ready"}
NonTerminalDraft == Editable \cup {"ocr_running"}
DraftStatus == NonTerminalDraft \cup {"absent", "confirmed", "deleted"}
DraftRow == [status : DraftStatus, slots : [Slots -> Jobs \cup {NoJob}]]
EmptySlots == [k \in Slots |-> NoJob]
SlotJobs(row) == {row.slots[k] : k \in Slots} \ {NoJob}

(* A member is pending, failed, or registered, and a registered member names *)
(* its job; "absent" is a screen type the submission does not carry.         *)
SubmissionStatus == {"none", "open", "settled", "aborted"}
Closed == {"settled", "aborted"}
MemberState == {"absent", "pending", "failed"} \cup Jobs
SubmissionRow == [status : SubmissionStatus, draft : Drafts \cup {NoDraft},
                  late : BOOLEAN, members : [Slots -> MemberState]]

Unfinished == {"queued", "running"}
Final == {"succeeded", "failed", "cancelled"}
JobStatus == {"none"} \cup Unfinished \cup Final
LiveLease == {"fresh", "late"}
Lease == LiveLease \cup {"none", "expired"}

(* fence is lease_fencing_token, which moves in step with attempt_count;     *)
(* attempt_id and lease_token are fresh in every claim, as the fence is.     *)
(* due is available_at <= now.  age is 0 for a job inside the stale limit, 1 *)
(* once created_at has passed it and 2 once started_at has as well.          *)
JobRow == [status : JobStatus, owner : Workers \cup {NoWorker}, fence : Nat,
           retries : Nat, recoveries : Nat, lease : Lease, due : BOOLEAN,
           age : 0..2, image : {"none", "available", "delete_pending"}]

NewJob == [status |-> "none", owner |-> NoWorker, fence |-> 0, retries |-> 0,
           recoveries |-> 0, lease |-> "none", due |-> FALSE, age |-> 0,
           image |-> "none"]

Idle == [job |-> NoJob, fence |-> 0]
Attempt == [job : Jobs \cup {NoJob}, fence : Nat]

TypeOK == /\ draft \in [Drafts -> DraftRow]
          /\ sub \in [Submissions -> SubmissionRow]
          /\ job \in [Jobs -> JobRow]
          /\ attempt \in [Workers -> Attempt]

Init == /\ draft = [d \in Drafts |-> [status |-> "absent", slots |-> EmptySlots]]
        /\ sub = [s \in Submissions |->
                     [status |-> "none", draft |-> NoDraft, late |-> FALSE,
                      members |-> [k \in Slots |-> "absent"]]]
        /\ job = [j \in Jobs |-> NewJob]
        /\ attempt = [w \in Workers |-> Idle]
----------------------------------------------------------------------------
(* The pieces the transactions share.                                        *)

OpenSubmissions == {s \in Submissions : sub[s].status = "open"}
ActiveJobs == {j \in Jobs : job[j].status \in Unfinished}

(* Faulty: ranks failures above unfinished slots.                            *)
ProjectedFailuresFirst(jobs, row) ==
    LET statuses == {jobs[j].status : j \in SlotJobs(row)}
    IN  IF statuses \cap {"failed", "cancelled"} # {} THEN "ocr_failed"
        ELSE IF statuses \cap Unfinished # {} THEN "ocr_running"
        ELSE "draft_ready"

(* sync_match_draft_status in the Worker, recompute in the API: the status a *)
(* running draft must show for the jobs of its slots.                        *)
ProjectedStatus(jobs, row) ==
    LET statuses == {jobs[j].status : j \in SlotJobs(row)}
    IN  IF statuses \cap Unfinished # {} THEN "ocr_running"
        ELSE IF statuses \cap {"failed", "cancelled"} # {} THEN "ocr_failed"
        ELSE "draft_ready"

Project(jobs, j) ==
    [d \in Drafts |->
        IF draft[d].status = "ocr_running" /\ j \in SlotJobs(draft[d])
        THEN [draft[d] EXCEPT !.status = ProjectedStatus(jobs, draft[d])]
        ELSE draft[d]]

(* A terminal write clears the lease; no statement reads available_at,       *)
(* created_at or started_at of a finished job, so their clocks are dropped.  *)
Finished(row, status) ==
    [row EXCEPT !.status = status, !.owner = NoWorker, !.lease = "none",
                !.due = FALSE, !.age = 0]

(* Faulty: the terminal write forgets the draft.                             *)
FinishUnprojected(j, status) == /\ job' = [job EXCEPT ![j] = Finished(@, status)]
                                /\ UNCHANGED draft

(* Give a job its final status and project its draft in the same transaction *)
Finish(j, status) == /\ job' = [job EXCEPT ![j] = Finished(@, status)]
                     /\ draft' = Project(job', j)

(* A row put back in the queue has no owner, no lease and no started_at.     *)
Requeued(row, dueNow) ==
    [row EXCEPT !.status = "queued", !.owner = NoWorker, !.lease = "none",
                !.due = dueNow, !.age = IF @ > 0 THEN 1 ELSE 0]

(* Faulty: only a queued job keeps its image.                                *)
UnreferencedByQueue(j, drafts, subs, jobs) ==
    /\ \A s \in Submissions, k \in Slots :
          subs[s].status = "open" => subs[s].members[k] # j
    /\ jobs[j].status # "queued"
    /\ \A d \in Drafts :
          drafts[d].status \in NonTerminalDraft => j \notin SlotJobs(drafts[d])

(* unreferencedGuard: no open submission has the image's job registered, the *)
(* job is finished, and no draft that is neither closed nor deleted shows it *)
Unreferenced(j, drafts, subs, jobs) ==
    /\ \A s \in Submissions, k \in Slots :
          subs[s].status = "open" => subs[s].members[k] # j
    /\ jobs[j].status \notin Unfinished
    /\ \A d \in Drafts :
          drafts[d].status \in NonTerminalDraft => j \notin SlotJobs(drafts[d])

Deletable(j, drafts, subs, jobs) ==
    jobs[j].image = "available" /\ Unreferenced(j, drafts, subs, jobs)

(* stageDeletion, given the rows the transaction has already written         *)
StageDeletion(images, drafts, subs, jobs) ==
    [j \in Jobs |-> IF j \in images /\ Deletable(j, drafts, subs, jobs)
                    THEN [jobs[j] EXCEPT !.image = "delete_pending"]
                    ELSE jobs[j]]

(* Faulty: a submission that has registered a job is left open.              *)
AbortedUnregistered(d) ==
    [s \in Submissions |-> IF /\ sub[s].status = "open" /\ sub[s].draft = d
                              /\ \A k \in Slots : sub[s].members[k] \notin Jobs
                           THEN [sub[s] EXCEPT !.status = "aborted"]
                           ELSE sub[s]]

(* abortForDrafts: every open submission of the draft                        *)
Aborted(d) ==
    [s \in Submissions |-> IF sub[s].status = "open" /\ sub[s].draft = d
                           THEN [sub[s] EXCEPT !.status = "aborted"]
                           ELSE sub[s]]

----------------------------------------------------------------------------
(* The user's side: drafts, submissions, job registration, cancellation.     *)

(* CreateMatchDraft accepts every non-terminal status, with empty slots      *)
CreateDraft(d, status) ==
    /\ draft[d].status = "absent"
    /\ draft' = [draft EXCEPT ![d].status = status]
    /\ UNCHANGED <<sub, job, attempt>>

(* UpdateMatchDraft keeps the slots and refuses a draft OCR is running for   *)
UpdateDraft(d, status) ==
    /\ draft[d].status \in Editable
    /\ draft' = [draft EXCEPT ![d].status = status]
    /\ UNCHANGED <<sub, job, attempt>>

(* cancelQueuedByDraftIds, for the slots of the row just deleted             *)
CancelQueuedIn(row) ==
    [j \in Jobs |-> IF j \in SlotJobs(row) /\ job[j].status = "queued"
                    THEN Finished(job[j], "cancelled")
                    ELSE job[j]]

(* Deleting an unconfirmed draft aborts its submissions, cancels its queued  *)
(* jobs (a running one goes on) and stages the images nobody else needs.     *)
CancelDraft(d) ==
    /\ draft[d].status \in NonTerminalDraft
    /\ draft' = [draft EXCEPT ![d] = [status |-> "deleted", slots |-> EmptySlots]]
    /\ sub' = Aborted(d)
    /\ job' = StageDeletion(SlotJobs(draft[d]), draft', sub',
                            CancelQueuedIn(draft[d]))
    /\ UNCHANGED attempt

(* Confirming inserts the match and closes the draft; updated_at and the     *)
(* three slots are compared in the UPDATE, so the row is the one the user saw *)
ConfirmDraft(d) ==
    /\ draft[d].status \in Editable
    /\ draft' = [draft EXCEPT ![d].status = "confirmed"]
    /\ sub' = Aborted(d)
    /\ job' = StageDeletion(SlotJobs(draft[d]), draft', sub', job)
    /\ UNCHANGED attempt

(* Deleting a confirmed match deletes the draft it came from                 *)
DeleteMatch(d) ==
    /\ draft[d].status = "confirmed"
    /\ draft' = [draft EXCEPT ![d] = [status |-> "deleted", slots |-> EmptySlots]]
    /\ UNCHANGED <<sub, job, attempt>>

(* A new submission starts an empty draft's OCR; a draft with results keeps  *)
(* its status until a job is attached.                                       *)
PutSubmission(s, d, screens) ==
    /\ sub[s].status = "none"
    /\ draft[d].status \in NonTerminalDraft
    /\ Cardinality(OpenSubmissions) < OpenLimit
    /\ sub' = [sub EXCEPT ![s] =
                 [status |-> "open", draft |-> d, late |-> FALSE,
                  members |-> [k \in Slots |-> IF k \in screens
                                               THEN "pending" ELSE "absent"]]]
    /\ draft' = IF draft[d].slots = EmptySlots
                THEN [draft EXCEPT ![d].status = "ocr_running"]
                ELSE draft
    /\ UNCHANGED <<job, attempt>>

(* The upload of a member failed for good before its deadline                *)
FailAdmission(s, k) ==
    /\ sub[s].status = "open"
    /\ sub[s].members[k] = "pending"
    /\ ~sub[s].late
    /\ sub' = [sub EXCEPT ![s].members[k] = "failed"]
    /\ UNCHANGED <<draft, job, attempt>>

(* Faulty: a slot may be taken over while its job is unfinished.             *)
AttachableAlways(d, k) == draft[d].status \in NonTerminalDraft

(* attachmentGuard: the slot is free or its last job has finished            *)
Attachable(d, k) ==
    /\ draft[d].status \in NonTerminalDraft
    /\ draft[d].slots[k] \in Jobs => job[draft[d].slots[k]].status \notin Unfinished

QueuedJob == [NewJob EXCEPT !.status = "queued", !.due = TRUE, !.image = "available"]

(* One transaction inserts the job, shows it in the draft's slot and         *)
(* registers the member.                                                     *)
StoreJob(s, k, j) ==
    LET d == sub[s].draft
    IN  /\ sub[s].status = "open"
        /\ sub[s].members[k] = "pending"
        /\ ~sub[s].late
        /\ Attachable(d, k)
        /\ Cardinality(ActiveJobs) < ActiveLimit
        /\ job[j].status = "none"
        /\ job' = [job EXCEPT ![j] = QueuedJob]
        /\ draft' = [draft EXCEPT ![d].status = "ocr_running", ![d].slots[k] = j]
        /\ sub' = [sub EXCEPT ![s].members[k] = j]
        /\ UNCHANGED attempt

(* Faulty: cancels whatever is not running.                                  *)
CancelNotRunning(j) ==
    /\ job[j].status \notin {"none", "running"}
    /\ Finish(j, "cancelled")
    /\ UNCHANGED <<sub, attempt>>

(* The user cancels one job; a running job is left alone                     *)
CancelQueued(j) ==
    /\ job[j].status = "queued"
    /\ Finish(j, "cancelled")
    /\ UNCHANGED <<sub, attempt>>

(* The orphan sweep of the API's reconciler                                  *)
SweepImage(j) ==
    /\ Deletable(j, draft, sub, job)
    /\ job' = [job EXCEPT ![j].image = "delete_pending"]
    /\ UNCHANGED <<draft, sub, attempt>>
----------------------------------------------------------------------------
(* The Worker's side.                                                        *)

(* Faulty: taking a lost owner's lease away costs nothing.                   *)
RecoveredFree(row) ==
    IF row.status = "running" /\ row.lease = "expired"
    THEN Requeued(row, TRUE)
    ELSE row

(* recover_expired_ocr_holder: the row once the lease of a lost owner has    *)
(* been taken away.                                                          *)
Recovered(row) ==
    IF row.status = "running" /\ row.lease = "expired"
    THEN IF row.recoveries >= MaxLeaseRecoveries
         THEN Finished(row, "failed")
         ELSE [Requeued(row, TRUE) EXCEPT !.recoveries = @ + 1]
    ELSE row

(* recover_orphan, for each expired lease the Worker's recovery scan finds   *)
Recover(j) ==
    LET row == Recovered(job[j])
    IN  /\ row # job[j]
        /\ job' = [job EXCEPT ![j] = row]
        /\ draft' = IF row.status = "failed" THEN Project(job', j) ELSE draft
        /\ UNCHANGED <<sub, attempt>>

(* load_candidate requires the registered member the job was stored with     *)
Registered(j) == \E s \in Submissions, k \in Slots : sub[s].members[k] = j

Acquired(row, w) ==
    [row EXCEPT !.status = "running", !.owner = w, !.fence = @ + 1,
                !.lease = "fresh", !.age = IF @ > 0 THEN 1 ELSE 0]

(* claim_job of a job that is queued and due, or whose owner lost its lease. *)
(* Recovery and acquisition are one transaction.  A claim of any other job   *)
(* rolls back.                                                               *)
Claim(w, j) ==
    LET row == Recovered(job[j])
    IN  /\ attempt[w] = Idle
        /\ \/ /\ row.status = "queued" /\ row.due /\ Registered(j)
              /\ row.image = "available"
              /\ row.fence < MaxClaims
              /\ job' = [job EXCEPT ![j] = Acquired(row, w)]
              /\ attempt' = [attempt EXCEPT ![w] = [job |-> j, fence |-> row.fence + 1]]
              /\ UNCHANGED <<draft, sub>>
           \/ /\ \/ row # job[j] /\ row.status = "failed"
                 \/ row.status = "queued" /\ row.due /\ Registered(j)
                                          /\ row.image # "available"
              /\ job' = [job EXCEPT ![j] = Finished(row, "failed")]
              /\ draft' = Project(job', j)
              /\ UNCHANGED <<sub, attempt>>

(* Faulty: the owner and the fencing token are not compared.                 *)
OwnedByStatus(w) ==
    /\ attempt[w].job \in Jobs
    /\ job[attempt[w].job].status = "running"
    /\ job[attempt[w].job].lease \in LiveLease

(* lock_owned_job and heartbeat accept the row only for its current claim    *)
Owned(w) ==
    /\ attempt[w].job \in Jobs
    /\ job[attempt[w].job].status = "running"
    /\ job[attempt[w].job].owner = w
    /\ job[attempt[w].job].fence = attempt[w].fence
    /\ job[attempt[w].job].lease \in LiveLease

EndAttempt(w) == attempt' = [attempt EXCEPT ![w] = Idle]

Heartbeat(w) ==
    /\ Owned(w)
    /\ job' = [job EXCEPT ![attempt[w].job].lease = "fresh"]
    /\ UNCHANGED <<draft, sub, attempt>>

(* The heartbeat or the final transaction finds another owner: no write      *)
OwnerLost(w) ==
    /\ attempt[w] # Idle /\ ~Owned(w)
    /\ EndAttempt(w)
    /\ UNCHANGED <<draft, sub, job>>

FinishSuccess(w) ==
    /\ Owned(w)
    /\ Finish(attempt[w].job, "succeeded")
    /\ EndAttempt(w)
    /\ UNCHANGED sub

FinishFailure(w) ==
    /\ Owned(w)
    /\ Finish(attempt[w].job, "failed")
    /\ EndAttempt(w)
    /\ UNCHANGED sub

(* A counted retry waits for retry_delay                                     *)
Retried(row) == [Requeued(row, FALSE) EXCEPT !.retries = @ + 1]

(* A transient failure: back to the queue after a delay, or failed once the  *)
(* retry budget is spent.                                                    *)
RequeueTransient(w) ==
    LET j == attempt[w].job
    IN  /\ Owned(w)
        /\ IF job[j].retries >= MaxFailureRetries
           THEN Finish(j, "failed")
           ELSE /\ job' = [job EXCEPT ![j] = Retried(@)]
                /\ UNCHANGED draft
        /\ EndAttempt(w)
        /\ UNCHANGED sub

(* Shutdown: back to the queue at once, no budget is touched                 *)
RequeueInterrupted(w) ==
    /\ Owned(w)
    /\ job' = [job EXCEPT ![attempt[w].job] = Requeued(@, TRUE)]
    /\ EndAttempt(w)
    /\ UNCHANGED <<draft, sub>>

(* The process dies, the child cannot be started, a heartbeat or the final   *)
(* transaction times out, or the completion is refused: nothing is written.  *)
Abandon(w) ==
    /\ attempt[w] # Idle
    /\ EndAttempt(w)
    /\ UNCHANGED <<draft, sub, job>>

(* Faulty: the limit always counts from started_at.                          *)
StaleSinceStart(row) == row.status = "running" /\ row.age = 2

(* reap_stale: the limit counts from started_at of a running job, from       *)
(* created_at of a queued one, and spares a job whose lease is still live.   *)
Stale(row) == IF row.status = "running" THEN row.age = 2 ELSE row.age >= 1

(* Faulty: a live lease does not spare the job.                              *)
ReapableWhileLeased(row) == row.status \in Unfinished /\ Stale(row)

(* Faulty: only lost runs are reaped, jobs nobody claims are not.            *)
ReapableRunning(row) == /\ row.status = "running"
                        /\ Stale(row)
                        /\ row.lease \notin LiveLease

Reapable(row) == /\ row.status \in Unfinished
                 /\ Stale(row)
                 /\ row.lease \notin LiveLease

ReapStale(j) == /\ Reapable(job[j])
                /\ Finish(j, "failed")
                /\ UNCHANGED <<sub, attempt>>

(* Faulty: a member that missed the deadline stays pending.                  *)
ExpiredNever(members, late) == members

(* Settlement of one open submission: abort it with its draft, end the       *)
(* members that missed the deadline, and settle it once every member has a   *)
(* final outcome.                                                            *)
Expired(members, late) ==
    [k \in Slots |-> IF members[k] = "pending" /\ late THEN "failed" ELSE members[k]]

Outstanding(members) ==
    {k \in Slots : \/ members[k] = "pending"
                   \/ members[k] \in Jobs /\ job[members[k]].status \in Unfinished}

(* project_empty_draft: no image was ever accepted and nothing else is open  *)
ProjectEmptyDraft(s, d) ==
    IF /\ draft[d].status = "ocr_running"
       /\ draft[d].slots = EmptySlots
       /\ \A t \in OpenSubmissions \ {s} : sub[t].draft # d
    THEN [draft EXCEPT ![d].status = "ocr_failed"]
    ELSE draft

Settle(s) ==
    LET d == sub[s].draft
        members == Expired(sub[s].members, sub[s].late)
    IN  /\ sub[s].status = "open"
        /\ IF draft[d].status \notin NonTerminalDraft
           THEN /\ sub' = [sub EXCEPT ![s].status = "aborted"]
                /\ UNCHANGED draft
           ELSE IF Outstanding(members) # {}
           THEN /\ sub' = [sub EXCEPT ![s].members = members]
                /\ UNCHANGED draft
           ELSE /\ sub' = [sub EXCEPT ![s].members = members, ![s].status = "settled"]
                /\ draft' = ProjectEmptyDraft(s, d)
        /\ UNCHANGED <<job, attempt>>
----------------------------------------------------------------------------
(* Time.                                                                     *)

(* A lease that is not renewed becomes late and then expires                 *)
LeaseAges(j) ==
    /\ job[j].status = "running" /\ job[j].lease \in LiveLease
    /\ job' = [job EXCEPT ![j].lease = IF @ = "fresh" THEN "late" ELSE "expired"]
    /\ UNCHANGED <<draft, sub, attempt>>

BecomesDue(j) ==
    /\ job[j].status = "queued" /\ ~job[j].due
    /\ job' = [job EXCEPT ![j].due = TRUE]
    /\ UNCHANGED <<draft, sub, attempt>>

JobAges(j) ==
    /\ job[j].status \in Unfinished /\ ~Stale(job[j])
    /\ job' = [job EXCEPT ![j].age = @ + 1]
    /\ UNCHANGED <<draft, sub, attempt>>

DeadlinePasses(s) ==
    /\ sub[s].status = "open" /\ ~sub[s].late
    /\ sub' = [sub EXCEPT ![s].late = TRUE]
    /\ UNCHANGED <<draft, job, attempt>>
----------------------------------------------------------------------------
UserNext ==
    \/ \E d \in Drafts : \E status \in NonTerminalDraft : CreateDraft(d, status)
    \/ \E d \in Drafts : \E status \in Editable : UpdateDraft(d, status)
    \/ \E d \in Drafts : CancelDraft(d) \/ ConfirmDraft(d) \/ DeleteMatch(d)
    \/ \E s \in Submissions, d \in Drafts, screens \in SUBSET Slots \ {{}} :
          PutSubmission(s, d, screens)
    \/ \E s \in Submissions, k \in Slots : FailAdmission(s, k)
    \/ \E s \in Submissions, k \in Slots, j \in Jobs : StoreJob(s, k, j)
    \/ \E j \in Jobs : CancelQueued(j) \/ SweepImage(j)

AttemptEnds(w) == \/ FinishSuccess(w) \/ FinishFailure(w)
                  \/ RequeueTransient(w) \/ RequeueInterrupted(w)
                  \/ OwnerLost(w) \/ Abandon(w)

WorkerNext ==
    \/ \E w \in Workers, j \in Jobs : Claim(w, j)
    \/ \E w \in Workers : Heartbeat(w) \/ AttemptEnds(w)
    \/ \E j \in Jobs : Recover(j) \/ ReapStale(j)
    \/ \E s \in Submissions : Settle(s)

TimeNext ==
    \/ \E j \in Jobs : LeaseAges(j) \/ BecomesDue(j) \/ JobAges(j)
    \/ \E s \in Submissions : DeadlinePasses(s)

Next == UserNext \/ WorkerNext \/ TimeNext

Spec == Init /\ [][Next]_vars

(* Every phase of an attempt has a deadline, nobody renews the lease of an   *)
(* attempt that is gone, the Worker's maintenance and settlement loops run   *)
(* for ever, and time passes.  Nothing is assumed of users or of claims.     *)
Unattended(j) == \A w \in Workers : attempt[w].job # j

Fairness ==
    /\ \A w \in Workers : WF_vars(AttemptEnds(w))
    /\ \A j \in Jobs : /\ WF_vars(Unattended(j) /\ LeaseAges(j))
                       /\ WF_vars(JobAges(j))
                       /\ WF_vars(ReapStale(j))
    /\ \A s \in Submissions : WF_vars(DeadlinePasses(s)) /\ WF_vars(Settle(s))

FairSpec == Spec /\ Fairness
----------------------------------------------------------------------------
(* What must hold.                                                           *)

(* Draft projection: while a slot's job is unfinished its draft says so, so  *)
(* the draft can be neither edited nor confirmed under a job that will still *)
(* write (attachOcrArtifacts, sync_match_draft_status, recompute).           *)
UnfinishedSlotShowsRunning ==
    \A d \in Drafts : \A j \in SlotJobs(draft[d]) :
        job[j].status \in Unfinished => draft[d].status = "ocr_running"

(* No draft waits for nothing: a running draft has an unfinished job in a    *)
(* slot, or empty slots and an open submission.  The one exception is a      *)
(* draft created as ocr_running for which nothing was ever submitted.  In    *)
(* particular the repair query of reap_stale finds no row.                   *)
RunningDraftAwaitsSomething ==
    \A d \in Drafts : draft[d].status = "ocr_running" =>
        \/ \E j \in SlotJobs(draft[d]) : job[j].status \in Unfinished
        \/ /\ draft[d].slots = EmptySlots
           /\ \/ \E s \in OpenSubmissions : sub[s].draft = d
              \/ \A s \in Submissions : sub[s].draft # d

(* Fencing: of all the attempts that processes still hold for a job, at most *)
(* the newest one may write, however many older ones wake up late.           *)
OnlyNewestClaimWrites ==
    \A w \in Workers : Owned(w) =>
        \A v \in Workers \ {w} :
            attempt[v].job = attempt[w].job => /\ ~Owned(v)
                                               /\ attempt[v].fence < attempt[w].fence

(* An open submission belongs to a draft that can still take its results:    *)
(* every path that closes a draft aborts it in the same transaction.         *)
OpenSubmissionHasDraft ==
    \A s \in OpenSubmissions : draft[sub[s].draft].status \in NonTerminalDraft

(* A job is displaced from its slot only when it is finished: an unfinished  *)
(* job is either shown by the draft of its submission or has lost that draft *)
UnfinishedJobIsShown ==
    \A s \in Submissions, k \in Slots :
        LET j == sub[s].members[k]
        IN  j \in Jobs /\ job[j].status \in Unfinished =>
               \/ draft[sub[s].draft].status = "deleted"
               \/ draft[sub[s].draft].slots[k] = j

(* The object a queued or running job reads is never staged for deletion,    *)
(* although drafts are deleted and confirmed around it (unreferencedGuard).  *)
UnfinishedJobKeepsImage ==
    \A j \in Jobs : job[j].status \in Unfinished => job[j].image = "available"

(* Final means final: no late answer, cancellation, reaper or second         *)
(* settlement moves a finished job, a closed submission or a closed draft.   *)
FinalIsFinal ==
    [][/\ \A j \in Jobs : job[j].status \in Final => job'[j].status = job[j].status
       /\ \A s \in Submissions : sub[s].status \in Closed => sub'[s] = sub[s]
       /\ \A d \in Drafts : draft[d].status = "confirmed" =>
              draft'[d].status \in {"confirmed", "deleted"}]_vars

(* A live lease protects the run: only the attempt that holds it takes the   *)
(* job out of the run (ocr-job-contract.md, stale queued / lost owners).     *)
LiveLeaseProtects ==
    [][\A j \in Jobs, w \in Workers :
          Owned(w) /\ attempt[w].job = j /\ attempt'[w] = attempt[w] =>
              /\ job'[j].status = "running"
              /\ job'[j].fence = job[j].fence]_vars

(* Seen without drafts and leases, a job only does what its lifecycle        *)
(* promises, with both budgets: no cancellation of a running job, no free    *)
(* rerun, no second end (claim_job, requeue, recover_expired_ocr_holder,     *)
(* cancelQueued, cancelQueuedByDraftIds).                                    *)
LifeOf(row) == [phase |-> row.status, runs |-> row.fence,
                retries |-> row.retries, recoveries |-> row.recoveries]

Lifecycle == INSTANCE JobLifecycle WITH life <- [j \in Jobs |-> LifeOf(job[j])]

ImplementsLifecycle == Lifecycle!Spec

(* A job never uses more of its two budgets than it has, and never more than *)
(* the claims it was granted can account for.                                *)
RunsCoverBudgets == Lifecycle!RunsCoverBudgets

(* Every registered job ends, whatever users and Workers do: the reaper      *)
(* reaches what no Worker claims and what every owner abandoned.             *)
EveryJobEnds ==
    \A j \in Jobs : job[j].status = "queued" ~> job[j].status \in Final

(* Every submission is closed, also when no image ever arrived.              *)
EverySubmissionCloses ==
    \A s \in Submissions : sub[s].status = "open" ~> sub[s].status \in Closed
============================================================================
