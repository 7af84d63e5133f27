# A TLA+ model of momo-result

momo-result turns screenshots of a board game's result screens into match records. A browser
uploads up to three screenshots for a match draft, an API (Scala, cats-effect, doobie) accepts
them and registers one OCR job per screenshot, a Worker (Rust, tokio) reads them, and the user
corrects and confirms the draft, which becomes a match. Everything durable is in PostgreSQL;
the API and the Worker share it and nothing else, apart from wake-up hints that may be lost. The
web application (TypeScript, React) holds what a user is doing: forms, dialogs, cached reads,
requests under way.

The project has two halves. The first follows the path from the submission of a screenshot to the
confirmed draft through the database, at three levels: what a job promises, what the transactions
do, and how their statements interleave; a fourth module models how the Worker finds the
submissions to settle. The second models the screens of the web application, one module each:
what a screen keeps and what happens to it when answers are late, lost or repeated, when reads
are stale, when others change the same things and when the user goes elsewhere.

Paths below are relative to `src/apps/api/src/main/scala/momo/api/` (API),
`src/apps/processing-worker/src/` (Worker) and `src/apps/web/src/` (web).

## 1. Inventory

| Component | State | Operations | Hard behaviour | What makes it correct |
|---|---|---|---|---|
| OCR job control (Worker, `ocr/control*`) | `ocr_jobs`: status, lease owner, fencing token, attempt id, retry and recovery counters | claim, heartbeat, finish (success, failure), requeue (transient, interrupted), recover a lost owner, reap stale jobs | late answers of a lost owner, uncertain COMMIT, two budgets, stale limit against a live lease | only the newest claim writes, a job ends once and within its budgets, a live lease is respected, every job ends |
| OCR attempt supervision (Worker, `ocr/consumer.rs`) | the claim a process holds in memory, its child process | run, heartbeat, finish, give up | crash at any point, deadlines of each phase, shutdown | as above |
| OCR submission settlement (Worker, `ocr/submissions/control.rs`) | `ocr_submissions`, `ocr_submission_members` | settle, expire members, abort, project an empty draft | admission deadline against a late upload, busy rows | settled means complete, every submission closes |
| OCR submission scan (Worker, `ocr/submissions/runtime.rs`, `busy_retry.rs`) | cursor, requested, scan_at, rechecks and their budget, connection | one finite step at a time: page, settlements, recheck, reconnect | hints during a walk, failures between page and settlement | no hint is forgotten, everything is settled in the end |
| Draft status projection (API `PostgresMatchDraftStatusSync`, Worker `sync_match_draft_status`) | `match_drafts.status` while `ocr_running` | lock, recompute | two slots finishing together, two languages | a draft with an unfinished slot shows it; no draft waits for nothing |
| OCR job creation and cancellation (API) | `ocr_jobs`, slot columns of the draft, member of the submission | store, cancelQueued, cancelQueuedOwned, cancelQueuedByDraftIds | races with claims, with the deadline, with other creators at the limit | one job per member, no cancelled run, the limit holds |
| OCR submissions (API) | as settlement | put, failAdmission, abortForDrafts | repeated requests, drafts closed meanwhile | an open submission has a live draft |
| Match drafts (API) | `match_drafts` | create, update, delete | editing while OCR writes | a draft is closed only when no job will write into it |
| Match confirmation and deletion (API) | `matches`, `match_drafts` | confirm, delete | confirming what the user saw | final means final |
| Source image lifecycle (API) | `source_images` and the object store | reserve, upload, stage deletion, sweep, purge | row and object written one after the other, sharing | an image a job will read is not deleted |
| Worker runtime and dispatch (`worker/runtime.rs`, `worker/runtime/dispatch.rs`) | one resource reservation, cursors, tasks | select, claim, start, drain | fairness between OCR and analysis, contention, shutdown | work is found, never two attempts at once |
| Worker wake-up listener, API wake relay | LISTEN sessions, local latches | notify, receive, reconnect | lost and coalesced hints | a lost hint costs time only |
| Series analysis jobs, attempts, release, requests | analysis jobs, chunks, artifacts, capability registry | request, claim, stage, publish, supersede, promote | fencing across several transactions, supersession | only the newest artifact is published |
| Result notifications | reserved in the terminal transaction, sent after it | reserve, send, cancel | COMMIT that fails after the reservation | at most once, never for what did not happen |
| Request idempotency (API) | reservation by key, stored response | reserve, run, record, replay | a repeat while the first runs or after it died | runs once, answers twice |
| Login, sessions, accounts; achievements; masters, events, lists, exports | their tables | single-row statements and reads | little interaction | unique names, one-time OAuth state |
| Process manager (Go) | child processes | start, watch, stop | exits during start | both or none |
| Web: capture page (`features/ocrCapture`) | tray of images, plan, submission workflow, watched jobs; setup; camera stream | place, submit, repeat, cancel, leave | answers lost after the server acted, leaving between two requests | no image is read twice, nothing is sent after leaving, the camera is released |
| Web: match workspace (`features/matches/workspace`) | form, stored input, recovery, masters trip, confirmation; review cells; source images | edit, confirm, save, restore, reload | a reload or Back at any point, a repeated confirmation, placeholders for unread numbers | one input is recorded once, unread numbers are entered by the user |
| Web: match detail, drafts, achievements (`features/matches`, `features/achievements`) | note, list, claims with versions and keys | save, delete, continue, correct | others' edits behind an open dialog, replays | a save replaces only what was shown |
| Web: session and roles (`shared/auth`, `features/masters/accounts`) | account, cached session read, permission leases, commands | read, recover, change roles | old answers after a change of one's own role, a permission that ends and returns | own changes are not undone, revoked work stays revoked |
| Web: settings (`features/masters`, `features/seriesAnalysisAdmin/radar`) | notification switches, achievement items, masters, radar criteria | edit, save, reorder, apply | other administrators, lost answers, rows shown before they are confirmed | others' changes survive, confirmed rows stay, what is shown is applied |
| Web: exports (`features/exports`) | conditions in the URL, directory, download | choose, download, abort | a file that arrives after the conditions changed | a file is saved under its own conditions |
| Web: comparison page (`features/seriesComparison`) | selection in the URL, bundles of reads, outlook workspace | choose, focus, refresh, drag, type, undo | router, React and reads that end in any order | choices survive, old results cannot be acted on, one Undo is one change |
| Web: lists and hubs (`features/heldEvents`, `features/matches/list`) | search in the URL, pages, refreshes, deletions | search, page, refresh, delete, create | page corrections from another search's answer | a list shows the search wanted |
| Database schema | DDL in another repository | | | |

`PROJECT.json` lists the same components with their sources and how far each is modelled, and
under `hazards` every place where this code can go wrong in a way tests hardly reach, with the
property that covers it.

How they interact. The API and the Worker write the same four tables under row locks taken in
one order by convention (drafts, submissions, jobs, images, the active-limit gate). The Worker
owns a job through a lease that it renews; a lost lease is taken away by any Worker's recovery.
A job's end and the status of the draft that shows it are one transaction. A submission is
settled by a separate task of the Worker, which is told of changes by payload-free hints and
otherwise looks every 30 s.

## 2. Modules

| Module | Models | Lines |
|---|---|---|
| `JobLifecycle` | abstract: what one OCR job promises | 80 |
| `OcrPipeline` | every transaction of API and Worker on drafts, submissions, jobs and images, one action each; claims held in memory; time and crashes | 620 |
| `OcrTransactions` | the same transactions statement by statement, with row locks, at READ COMMITTED | 370 |
| `SubmissionScan` | the scan that finds submissions to settle | 360 |
| `CaptureFlow`, `OcrSetup`, `CameraSession` | the capture page: tray and submission workflow, match conditions, camera | 560, 280, 200 |
| `MatchWorkspace`, `MatchReview`, `SourceImages` | recording one match: the form and its stored input, the review of readings, the images beside it | 440, 440, 280 |
| `MatchNote`, `AchievementClaims`, `DraftList` | the note of a match, manual achievements, the page of drafts | 300, 440, 250 |
| `AccountSession`, `NotificationSettings`, `AchievementCatalog`, `RadarEditing`, `MasterCatalog` | the administration screens | 460, 310, 350, 550, 350 |
| `Exports` | the export page | 330 |
| `SeriesSelection`, `SeriesDisplay` | the comparison page: what is selected, what is shown | 310, 410 |
| `OutlookCalculation`, `OutlookWorkspace` | the outlook: its exact arithmetic, the results a user tries | 430, 410 |
| `ListSearch`, `HeldEventList`, `HeldEventHub`, `MatchList` | the lists, a hub and the creation of events | 40, 360, 270, 350 |
| `OcrPipelineMC`, `OcrTransactionsMC`, `SubmissionScanMC`, `MatchReviewMC`, `WebMatchesMC`, `WebAdminMC`, `WebReadingMC` | instances for TLC | |
| `…_proofs` | theorems (section 5) | |

`OcrPipeline` implements `JobLifecycle` (checked and proved); `OcrTransactions` implements
`OcrPipeline` (checked and proved); `SubmissionScan` justifies the fairness of settlement that
`OcrPipeline`'s liveness uses. The web modules do not share state: two screens of the application
meet only through the server and the address, and each module lets its server change as others
could change it. The three `Web…MC` modules put the components of an area side by side, with a
variable `part` that names the one that runs; the others rest in an initial state. A run so
checks each component by itself, and a property of an area is the conjunction of what its
components promise in the same respect.

### OcrPipeline and the code

State. `draft[d]` is a `match_drafts` row: its status and the job each slot shows. `sub[s]` is
an `ocr_submissions` row with its members; a member is absent, pending, failed, or names its
job. `job[j]` is an `ocr_jobs` row together with the state of its source image. `attempt[w]` is
the claim one Worker process holds in memory, which survives whatever happens to the row. `late`,
`lease`, `due` and `age` stand for the comparisons the statements make with the clock.

| Action | Code |
|---|---|
| CreateDraft, UpdateDraft, CancelDraft | `CreateMatchDraft`, `UpdateMatchDraft`, `PostgresMatchDraftCancellationRepository` with its calls of abortForDrafts, cancelQueuedByDraftIds and stageDeletion |
| ConfirmDraft, DeleteMatch | `PostgresMatchConfirmationRepository`, `PostgresMatchesRepository.delete` |
| PutSubmission, FailAdmission | `PostgresOcrSubmissionsRepository` |
| StoreJob, CancelQueued | `PostgresOcrJobCreationStore.store`, `PostgresOcrJobsRepository` |
| SweepImage | `beginDeleteUnreferenced` |
| Recover, Claim | `recover_page` and `recover_orphan`; `claim_job`, which first takes a lost lease away and then claims, in one transaction |
| Heartbeat, FinishSuccess, FinishFailure, RequeueTransient, RequeueInterrupted, OwnerLost | `control.rs` as called by `process_claimed` and `finish_ocr_attempt` |
| Abandon | a crash, an uncertain COMMIT that did not happen, a deadline: nothing is written |
| ReapStale | `maintenance.rs` |
| Settle | `settle_transaction` |
| LeaseAges, BecomesDue, JobAges, DeadlinePasses | the clock |

Abstractions. Each keeps what the properties tell apart.

- `lease_fencing_token` and `attempt_count` move together, so `fence` is one number; `attempt_id`
  and `lease_token` are fresh with every claim, as the fence is, so owner and fence stand for
  all four. `MaxClaims` is where `checked_add` refuses another claim (2^31 in the code).
- `needs_review` is as editable and as confirmable as `draft_ready` and ranks just before it in
  the projection; one value stands for both.
- The staleness limit reads COALESCE(started_at, created_at) by status: `age` is 0, 1 (created_at
  is past the limit) or 2 (started_at as well). A finished job's clocks are dropped, since no
  statement reads them.
- A COMMIT whose answer is lost either happened (the action) or did not (Abandon).
- One owner of all submissions; the open limit is counted for it. `put` serialises on advisory
  locks, so its count needs no statement-level model; that of the active limit is in
  OcrTransactions.
- A job has an image of its own. Several jobs of one image, and images without a job, belong to a
  module of their own (section 8).
- Replays of `put` and `store` that find their result already there change nothing and are no
  steps.
- Decoding of a claim's snapshot can fail in the model only because the image is not available;
  UnfinishedJobKeepsImage shows that this branch is never taken. In the same way
  OpenSubmissionHasDraft shows that Settle's abort branch is a defence, and
  RunningDraftAwaitsSomething that the repair query of `reap_stale` finds no row. The branch of
  `recover_expired_ocr_holder` for a job that is not running and still has its lease is not
  modelled: every terminal write clears the lease.

### OcrTransactions and the code

`tx[t]` is a session's open transaction: operation, next statement, uncommitted rows, and the
locks a statement waits for; `held[t]` the locks it has. A statement selects its rows from what is
committed when it starts, waits for the locked ones, looks at them again (EvalPlanQual), and
locks those that still qualify; a projection that waited goes on from the jobs it had read.
Terminal writes, cancellation of a job, deletion and confirmation of a draft, the image sweep,
job creation and settlement (SKIP LOCKED) are modelled by statement. `put`, claim, recovery and
heartbeat lock few rows and hold them briefly: one step (`Brief`), taken when nobody holds those
rows. Left out: `reap_stale` (the same statements as a completion), the comparison of
`updated_at` in confirm, share locks of foreign keys, the locks on events and achievements before
confirm. A clock that passes a limit while the row is locked is noticed by no one before the lock
goes, so it passes when the row is free.

### SubmissionScan and the code

Submissions are 1..Last in the order of `legacy_id`. A row is absent, waiting (open, nothing to
write), ready (open, settling would write) or closed. `sent` holds the changes whose NOTIFY is on
its way, `owed` those a hint came in for that were not tried since; both only serve the
properties. A step of `Reconciler::step` is cut at its awaits (`at`): reconnect, upper bound,
page, each settlement, the deadline query, a recheck. Between two of them rows change and hints
arrive (`Change`, `Hint`), which the Runtime keeps in `submissions_dirty` while the step has
borrowed the Reconciler. A failure (`Fail`) at any await drops the connection; the popped id is
then not tried again before the next walk, and its settlement may have committed. `MaxFaults`
bounds failures and busy rows met. The times of rechecks (1, 2, 4 s; a window of 10 s; a rolling
budget of 3 in 30 s) are abstracted to a nondeterministic order with the same counters. Shutdown
is left out. Rows settlement rejects as invalid are not reachable in OcrPipeline and are left
out.

### The web modules and the code

The head of each module says what it models and leaves out; `PROJECT.json` maps its definitions to
the code. They are built alike:

- an action is an event (a click, a key, an answer that arrives, a timer, a render that React
  deferred) with everything the code does before it gives control back;
- a request is a record of what it carries, in the order the code awaits; the server acts on it
  in one step and the answer arrives, or is lost, in another. What was lost is known to have
  acted or not only to the server. `…Faults` bounds lost and failed answers, lost permissions and
  what others do;
- the cache of reads is the answer last accepted, whether it is stale, and whether a read is under
  way with what the server held when it was served; a cancelled read's answer is dropped as
  TanStack Query drops it;
- texts and names are members of small sets, pages and limits are small, and wording, looks, focus
  and scrolling are left out;
- `…Moves` bounds the steps of users and others where nothing else does. Each bound is a conjunct
  of the action it bounds.

| Module | State and actions | Its properties |
|---|---|---|
| `CaptureFlow` | tray, plan, the workflow's position and receipts by key, jobs; place, start, each request and answer, retry, leave | NoImageReadTwice, SlotsShowTheirOwnJob, SendsNothingAfterLeaving |
| `OcrSetup` | title, season, event, number with the reads they come from | SetupFits, NumberWaitsForRead, ChoicesStay |
| `CameraSession` | stream, generation, requests of the browser | CameraIsReleased |
| `MatchWorkspace` | form, baseline, stored input, recovery, masters trip, write with its key | InputRecordedOnce (BackRestoresInput fails, section 6) |
| `MatchReview` | rows, texts being typed, acknowledged and entered cells, confirmation | UnreadIsNeverConfirmed (ConfirmationShowsWhatIsSent fails, section 6) |
| `SourceImages` | displayed image, downloads, object URLs, archive | DisplayedFirst, TriesAreAskedFor, UrlsAreReleased, ArchiveIsOfThePage |
| `MatchNote` | note, draft text, save, refresh, deletion | OverwritesOnlyWhatWasShown, RepeatsAreAnswered |
| `AchievementClaims` | item, claims, correction and new record with the versions shown | CorrectsWhatWasShown, UntouchedTimesAreKept |
| `DraftList` | list, rechecks, checks before continuing, cancellations, visits | GoesWhereAskedLast, NoCheckIsForgotten, RemovedStaysGone |
| `AccountSession` | account and role applied, session read, leases, commands, recovery after a refusal | OwnChangeIsNotUndone, RevokedWorkStaysRevoked |
| `NotificationSettings`, `AchievementCatalog` | draft and the generations or versions it began from, reads, one write | SaveChangesOnlyWhatWasChosen, WritesReplaceWhatWasShown |
| `RadarEditing` | editor, candidate, comparison, confirmation, command under one key | AppliesWhatIsShown |
| `MasterCatalog` | rows with guesses, keys of repeats, cache and reads, dialogs, permission | ConfirmedRowsStay |
| `Exports` | conditions, directory, look-up, adopted default, download | SavesWhatIsShown, DownloadsOnlyWhatIsThere, DownloadSurvivesAdoption |
| `SeriesSelection` | URL shown and URLs the router holds, directory, normalization, choices | ChoicesSurvive |
| `SeriesDisplay` | artifact, four reads, accepted bundle, focus and markers | ShownMatchesSelection |
| `OutlookCalculation` | one step of the joint table, answers asked for | AnswersAreExact, against definitions by enumeration |
| `OutlookWorkspace` | pair, drafts, gesture, history, pin, dialog of counts, task and goal | UndoTakesBackOneChange, GoalIsReached |
| `HeldEventList` | search in the URL and in the drafts of bar and sheet, pages, reads, deletion | SearchIsSound, CorrectsItsOwnSearch, DeletesWhatIsListed, ReportedIsGone |
| `MatchList` | the same with cursors, refresh, export link | RefreshKeepsChoices, RowsAreChosen, ExportsWhatIsListed |
| `HeldEventHub` | hub, entry to the newest event, creation | MovedWhereMeant, NoticeIsOwn |

## 3. Runs

TLC with two workers; distinct states.

| Run | Instance | States | Shows |
|---|---|---|---|
| OcrComposition | 1 draft with 2 slots, 2 submissions, 2 jobs, 1 Worker, no budgets, 1 claim | 128 k | TypeOK, UnfinishedSlotShowsRunning, RunningDraftAwaitsSomething, OpenSubmissionHasDraft, UnfinishedJobKeepsImage: the four tables stay consistent |
| OcrRaces | 2 jobs for one slot, 2 Workers, both budgets 1, 2 claims | 238 k | ImplementsLifecycle, OnlyNewestClaimWrites, UnfinishedJobIsShown, FinalIsFinal, LiveLeaseProtects |
| OcrLiveness | 1 draft, 1 slot, 2 submissions, 2 jobs, recovery 1, 2 claims | 233 k | EveryJobEnds, EverySubmissionCloses |
| OcrTransactions | 2 sessions, 1 draft with 2 slots, 2 jobs, 2 Workers | 296 k | CommitsAreAtomic, OnlyCancellationsDeadlock |
| OcrAdmission | 2 sessions, 2 drafts, active limit 1 | 414 k | ActiveLimitHolds |
| Scan | 2 submissions, pages of 1, 2 faults | 123 k | TypeOK, HintIsRemembered, HintIsAnswered, ReadyIsSettled |
| WebMatches | nine components from an image to a recorded match | | WebMatchesTypeOK, ReadingsFitTheCapture, UnreadIsNeverConfirmed, LateAnswersActNowhere, InputRecordedOnce, SavesOverWhatWasShown |
| WebAdmin | six administration components | | WebAdminTypeOK, OwnChangeIsNotUndone, RevokedWorkStaysRevoked, ConfirmedRowsStay, OthersChangesSurvive, AppliesWhatIsShown, DownloadsFollowConditions |
| WebReading | seven components that list and compare | | WebReadingTypeOK, ChoicesSurvive, ShownMatchesSelection, AnswersAreExact, UndoTakesBackOneChange, GoalIsReached, ListsFollowChoices, ListedIsCurrent |
| OcrLockOrder, WebBack, WebConfirmation | | stop | violated: DraftsBeforeJobs, BackRestoresInput, ConfirmationShowsWhatIsSent (section 6) |

Why the bounds are enough. The production budgets are one retry and one recovery, which is what
OcrRaces uses. A projection relates the two slots of one draft; a race needs two Workers or two
sessions, and a second attempt on the same job needs two claims. A slot taken over needs two
jobs, an overlapping submission two submissions. A walk of the scan needs an id on a first page,
one on a later page and one the cursor has passed. What does not depend on size is proved
(section 5).

In the web runs an overtaking needs two of what overtakes: two answers under way, two versions,
two publications, two searches or two visits; one fault of each kind is enough for a lost answer
and its repeat, because the second loss finds the same state as the first. So the bounds are:
two images, two plans and two submissions with one fault in the capture page, so that a plan is
replaced, a submission is closed and restarted under a second one, and an image cannot be read at
either; two seasons of two titles and
two events in its setup; two keys, one typed text and one change elsewhere in the workspace; four
edits of a review with four members; two versions of a note; two items and three versions in the
catalog; two values, candidates and previews of radar criteria; two moves of an administrator
in the account settings; two moves of the user on the outlook with a history of two and two
publications; three directories and depths of the address on the comparison page; three events or
matches on pages of one and two in the lists. Where the history of the code is longer (the
outlook keeps more than two changes), the proof covers every length.

`CHECK_DEADLOCK FALSE` in the Ocr and Web runs: once every draft is closed, every job final and
every claim gone, or a session's bounds are used up, there is nothing left to do. The scan never
stops, and its run checks for deadlock.

Symmetry sets (jobs, Workers, slots, submissions, drafts, sessions, maps) are used for safety only.

## 4. Fairness

OcrPipeline (`Fairness`): weak fairness of

- an attempt's end: every phase of `process_claimed` has a deadline, and the process may die;
- the lease of a job nobody attends to, the job's age and the admission deadline: time passes;
- ReapStale: `WorkState::step` runs maintenance every recovery interval;
- Settle: the scan. ReadyIsSettled shows it from the steps of the scan: whatever is ready to be
  settled is settled, also when its hint was lost, provided the safety timer fires.

Nothing is assumed of users, of claims or of recovery, so EveryJobEnds also covers a job no
Worker ever claims: the reaper ends it. It does rest on MaxClaims, since an interruption at
shutdown has no budget: a Worker that is shut down again and again while it works on one job may
requeue it again and again, until the reaper meets it in the queue past the stale limit.

SubmissionScan: PromptSpec assumes that a step once started ends (every query has a timeout) and
that the timers of reconnection and continuation fire; HintIsAnswered needs no more. ReadyIsSettled
adds the safety timer as the premise of its own. Neither assumes that hints are delivered.
`MaxFaults` bounds the faults of a behaviour: with a connection that breaks for ever nothing can
be promised.

The web modules state safety only. What a screen owes its user in time depends on a network that
promises nothing, and every wait of theirs ends in the models by an answer, a failure or leaving.

## 5. What is proved

By TLAPS, for every value of the constants. The assumptions are those declared with the
constants: the NULL values are not rows (NullsAssumption), the words for a member's state are not
jobs (MemberAssumption), limits are natural numbers (LimitsAssumption, SizesAssumption,
ReviewAssumption), there is a session (SessionsAssumption), the words for other work are no
commands (AccountAssumption), the comparison the outlook opens with is one of the page's, the
results and examples it is given are distributions, its totals count at least one game and a
horizon is at least one game, as the code's guards refuse any other (OwAssumption;
calculation/distribution.ts:23, calculation/projection.ts:21 and 115), inputs of a mean and of
counts have positive scales that divide as the code's 100, 20 and 20 do (OutlookAssumption), there
is a title, and a directory that arrives counts as read (SelectionAssumption), titles, maps, aliases
and idempotency keys are told apart by their ids and no key is drawn twice (McAssumption), the modes
of the workspace are the three of the routes
(WorkspaceAssumption), the boundaries applied at first are among those that may be entered
(RadarAssumption), at least one publication may be made and the whole title is a scope
(DisplayAssumption), jobs end in one of the two ways and there is a kind of image
(CaptureAssumption), seasons belong to titles and an event is chosen by its id (OsAssumption), and
the kinds of source images are words other than those for no choice (SiAssumption),
the matches that fit an achievement are among the matches (AcBounds), the bounds of the camera
are natural numbers (CameraAssumption), held events are ids of a finite directory (HbAssumption),
and the lists are opened by links of the application, where a season comes with its own title
(HeAssumption, MlAssumption), and the matches of a season are matches of its title, as the server
validates them (MlAssumption; MatchReferenceValidation.scala:84). TLC evaluates each of them in a
run. A URL typed by hand may name a season and a title that do not belong together: what such a
list exports is not stated.

| Theorem | States | Argument |
|---|---|---|
| OcrPipeline_proofs!TypeCorrect | TypeOK | inductive by itself; one step per action |
| OcrPipeline_proofs!LifecycleImplemented | ImplementsLifecycle | every action moves each job's row by a step of the lifecycle or not at all; needs only TypeOK and that an unborn job's row is untouched (UnbornRows) |
| OcrPipeline_proofs!BudgetsHold | RunsCoverBudgets | Covered, job by job, is kept by each of the lifecycle's steps, and every action is one of them for each job (UnbornRows) |
| OcrPipeline_proofs!FencingHolds | OnlyNewestClaimWrites | Fenced: no claim in memory has a fence above its row's, and no two claims of one job have the same. A claim raises the fence, so an older attempt never matches the row again |
| OcrPipeline_proofs!LiveLeaseHolds | LiveLeaseProtects | by cases over the actions, from Fenced: none but the owner's touches a running row with a live lease |
| OcrPipeline_proofs!ProjectionHolds | UnfinishedSlotShowsRunning | SlotsShowJobs: a slot names a job that exists. Needed so that a registration, which puts a new job to work, meets it in no other slot; a terminal write projects every draft that shows the job |
| OcrPipeline_proofs!OpenSubmissionsHoldDrafts | OpenSubmissionHasDraft | every action that closes a draft aborts its submissions; the invariant also says that an open submission names a draft |
| OcrPipeline_proofs!FinalStaysFinal | FinalIsFinal | by cases over the actions |
| OcrPipeline_proofs!UnfinishedJobsAreShown | UnfinishedJobIsShown | which transactions write drafts (DraftWrites), how slots move (SlotsMove): a slot is given to another job only when its old one is final |
| OcrPipeline_proofs!UnfinishedJobsKeepImages | UnfinishedJobKeepsImage | images are staged only under `Unreferenced` or with the cancellation of the draft's queued jobs; an unborn job's image is untouched |
| OcrPipeline_proofs!RunningDraftsAwait | RunningDraftAwaitsSomething | needs that each job is shown once and that a registered member is stored; the last terminal write projects the draft, and the last member's end settles the submission |
| SubmissionScan_proofs!TypeCorrect | TypeOK | inductive by itself |
| SubmissionScan_proofs!HintsRemembered | HintIsRemembered | Shape: what stands where in a step (an empty cursor before the upper bound is read, scan_at is now in a walk, a row a hint stands for is still ready). With it, each await that moves the cursor moves past nothing a hint is owed for, unless requested or dirty is set |
| OcrTransactions_proofs!SessionsAreSound | what sessions rely on | Sound: what a session has read and not yet written is protected by a lock it holds, and no two sessions hold one lock; Committed: the invariants of OcrPipeline the statements rely on. Both are kept together, because a commit keeps Committed only if it is an action of OcrPipeline, and it is one only if the session is sound |
| OcrTransactions_proofs!CommitsAreAtomicHolds | CommitsAreAtomic | OcrTransactions implements OcrPipeline: a commit is the pipeline's action of the same name, every other step a stutter |
| OcrTransactions_proofs!ActiveLimitKept | ActiveLimitHolds | the count of active jobs grows only by a commit that holds the gate; cardinalities of finite sets |
| OcrTransactions_proofs!LocksAreOrdered | Ordered(t) | a session at a statement holds only locks of classes before it, except cancelQueued's second look at the drafts |
| OcrTransactions_proofs!OnlyCancellationsDeadlockHolds | OnlyCancellationsDeadlock | in a set of sessions that wait only for one another, take one that waits for the class highest in the order: whoever holds it must be one of the exceptional cancellations, and the one it waits for too |
| AccountSession_proofs!AccountTypes | AccountTypeOK | an invariant that also relates the query's state to what it keeps to go back to |
| AccountSession_proofs!OwnChangeStays | OwnChangeIsNotUndone | every read under way and every value a cancelled read would go back to is at least as new as the last change of the own role that was applied |
| AccountSession_proofs!AppliedAdvances | AppliedOnlyAdvances (action) | from the same invariant: acceptSelfRole and the answers of reads only raise the decision applied |
| AccountSession_proofs!RevokedStaysRevoked | RevokedWorkStaysRevoked (action) | a lease that ended is never made current again; by cases over the steps of a command |
| WebMatches_proofs!UnreadIsEntered | UnreadIsNeverConfirmed | for every cell: unread and not entered implies that the cell shows a placeholder, in the form, in what a reload brings back and in the text Escape returns to. The history of what a user entered follows Escape |
| WebMatches_proofs!RecordedOnce | InputRecordedOnce (action) | WorkInv: wherever an input is held (the page, the stored input, the recovery offered, a request under way or given up, the server's records) it comes with the number of the held event it was typed for, or the revision it was read at, and a record is older than anything the server would still accept; so a request that is sent again after its input was recorded is answered by its key or refused as stale, and no page that opens later starts from it |
| WebMatches_proofs!ReadingsFit | ReadingsFitTheCapture | ReadingInv, of three parts that do not depend on each other. CaptureInv: what the server admitted is of the page's plan, the checkpoint's own submission carries what the checkpoint says, a request on its way carries nothing else, and a later submission carries an image only when each earlier one that was admitted has failed its member for it; a job needs a registered member, so one image has one job. While another plan may still be made, nothing was sent that may be admitted, and after a restart from nothing only the draft's request is on its way (CleanSound). SetupInv: wherever a title and a season are held (the choice, the event's previous match, an answer on its way, the plan), the season is one of the title, and a number that is held came with the event chosen. ImagesInv: what advance leaves behind is tried unless the scope is stopped or the list loads (Tried), and the URLs are those of the entries |
| WebMatchesActs_proofs!LateAnswersRest | LateAnswersActNowhere (action) | ActsInv. CameraInv: a start whose generation is still the newest is the only one with it, the camera is shown and not disabled, and while it asks for a stream none is shown; every other start gives back the stream it is brought. DraftsInv: a row the page knows to be removed is gone at the server, so no read served since brings it back (RowsInv), and the draft that may move the page on is the one asked for last (VisitInv). That a page which was left sends nothing needs no invariant: Continue sends the next request only while the page is mounted, and no other step of an absent page sends |
| WebMatchesActs_proofs!SavesRest | SavesOverWhatWasShown (action) | SavesInv. NoteInv: a version that could be named by a save or a removal was shown first. ClaimsInv: a copy of a record or a match, held by the editor, a cache, a read or a request, is never newer than what is stored, and one with the version of what is stored is equal to it; so what the API accepts by its version replaces what the dialog showed. SetupInv, as above, with which reads an unset number waits for |
| WebReading_proofs!UndoTakesBack | UndoTakesBackOneChange | Sound: the pair on screen, the history, the pin and the gesture have the shape of a state of the store, and no two neighbours of history followed by the present are the same pair; kept by every operator of the store (typed means, drags, counts, examples, goals, undo, publications) on the page and in the dialog, which use the same operators. Holds for any length of history, also where it is cut at its limit |
| WebReading_proofs!GoalsReached | GoalIsReached (action) | Sound, with every distribution kept anywhere one of naturals that are not all zero. The required mean is the largest input below the threshold (RequiredIsBelow); counts are chosen for it by the first of some keys, which exists since keys are tuples of bounded integers (OneComesFirst, FirstIsAMember), and every candidate has exactly the mean and fits beside the rival's results (CandidateFits, CountsFit), so applying it is not refused; a mean below the threshold is ahead at the horizon (ReachedIsAhead) |
| WebReading_proofs!ChoicesAddUp | ChoicesSurvive | ChoicesInv, while no visit was left before it was shown: the entry the router holds carries the sum of the choices; a choice on its way is the visit taken from the one shown (UnderwayIsTaken), so the next choice and the normalization of the older visit both start from it; and what is shown at rest is canonical (RestsCanonically), so a choice made there starts from the sum as well. A new entry has a larger key than all others, so React does not show it yet (EntryIsNewer) |
| WebReading_proofs!ShownMatches | ShownMatchesSelection | DInv: a read that is observed and not under way has data or an error; every accepted or shown bundle carries markers of its own publication and scope (Held); the accepted bundle has caught up with the selection wherever the reads allow it (Timely), because every render ends in Adopted; and a context reported invalid is never what its read holds again (Dead), because a read's serial rises with every success. Invalidation lasts until React shows what was accepted, so what is still deferred is shielded meanwhile |
| WebReading_proofs!ListsFollow | ListsFollowChoices (action) | ReadInv. SearchesInv and LookedUpInv: a search, wherever it is held (the visits of the router, the one shown, the one wanted, the draft of the sheet), has a season of its title and no half condition, so a choice made from any of them has too; a season's export is then what the search lists. RefreshSound: one read of a search is under way at most, of the search on screen or of the refresh that waits for it; a refresh of a later page begins when nothing reads the first one, so whatever answers that read is as new as the refresh. HubInv: a creation sent by the mounted content is what the user asked for last, so one that ends later moves nobody |
| WebReading_proofs!ListedCurrent | ListedIsCurrent (action) | ReadInv. EventsInv: an answer is either marked old, and then its search is being read or its last read failed, or holds no event whose deletion was confirmed; a deletion is reported only after the lists were marked, and no event comes back to the server. A first read that a deletion met is an exception the property names (`heCrossed`), the retry after coming back to a failed search another (section 6). ListsSound: an answer lists the search it is kept for. HubInv: the notice kept is of a hub whose last read failed |
| WebAdmin_proofs!ConfirmedStay | ConfirmedRowsStay | a key belongs to one change, which is held until it is confirmed, so what is done under a key is what was asked for (KeyUses, DoneAsAsked) and two unconfirmed creations of a list are one; versions on the server only rise and what is gone is not registered again (Outlived), so an answer the server gives now knows every confirmed change; a read that was served and not cancelled, and every loaded list, is Aware of every confirmed change of its rows and of every row being edited |
| WebAdmin_proofs!AppliedIsShown | AppliesWhatIsShown (action) | a candidate keeps its boundaries for life (Later), so whatever state was read, and whatever was saved under a candidate, agrees with the server on it (WasRead, SavedIsHeld, AnswersHeld: also the acceptances a key would replay). The confirmation sends a candidate whose saved boundaries are the input, and while the command is on its way or of unknown outcome the input does not change (CommandSound); outside the API's answer only other administrators add an application (OnlyServed) |
| WebAdmin_proofs!OthersChangesKept | OthersChangesSurvive (action) | EditsInv. SwitchesInv: settings held anywhere were once those of the server, so equal generations mean equal settings; a draft differs from its base only in the kinds that were switched; a request names, for every kind it does not switch, what its sender had read. ItemsInv: an item held anywhere (cache, read, form, retirement, call, the answers a key would replay) is never newer than the stored one, and one of the stored version is the stored one; an order request names the revision of the catalog its dialog was opened with. The versions only rise (ItemsLater), so what the server accepts by version or revision replaces what was shown |

Lemmas cited by several proofs are stated once and named for what they say: DraftStep and JobStep
(what one transaction may do to one row), DraftWrites, SlotsMove, the field lemmas of the outlook's
state.

Only model-checked, and why:

- liveness (EveryJobEnds, EverySubmissionCloses, HintIsAnswered, ReadyIsSettled): out of the
  prover's reach, as ENABLED is;
- AnswersAreExact: the outlook's answers against enumerations of all results, and a joint table
  found by search over paths; induction over data is out of reach. What a goal needs of this
  arithmetic is proved (GoalsReached);
- DownloadsFollowConditions (WebAdmin): which target a page adopts rests on what SelectSeq returns
  for every list, an induction over data;
- the type invariants of the Web runs: they serve as a base for the runs; those of
  AccountSession, MatchReview, OutlookWorkspace and MasterCatalog are part of the invariants above
  as far as these need them.

## 6. Findings

1. `cancelQueuedOwned` locks the drafts, locks the job row whatever its status, and then calls
   `cancelQueued`, which asks for the drafts again (PostgresOcrJobsRepository.scala:243-278). A
   draft that became `ocr_running` in between, or shows the job only now, is locked after the
   job, against the order stated in PostgresMatchDraftStatusSync.scala:34 and control.rs:743. Run
   OcrLockOrder shows the transaction holding the job and waiting for the draft.
   OnlyCancellationsDeadlock shows how far it goes: only cancellations like it may wait for each
   other, which PostgreSQL resolves by ending one; without them no transaction is ever in a ring.
   With three and more sessions a third one may of course wait behind two such cancellations.
2. The input stored for the masters trip is offered only while the form's initial values are what
   they were (useMatchWorkspaceSessionDraft.ts:62). They contain the only map or season of a
   title, so adding one on that very trip loses the input; docs/requirements/base.md:122 and :137
   promise that Back restores it. Run WebBack.
3. The confirmation dialog shows the committed numbers (matchWorkspaceEditingStore.ts:273), the
   request sends the text being typed; docs/requirements/base.md:324 says that the confirmation
   shows the results. Run WebConfirmation.

Observed while modelling, without a run of its own:

- `CreateMatchDraft` accepts `ocr_running` as an initial status (CreateMatchDraft.scala:100), where
  domain-rule.md:46 and :55 allow it only once a submission was accepted. Nothing but deletion or
  a later submission moves such a draft on, which is why RunningDraftAwaitsSomething excepts
  drafts nothing was submitted for.
- `requested` is cleared before a walk's upper bound is read, and only `scan_at = now` after
  reconnection keeps the hint when that query fails (runtime.rs:289, :219). The Worker's recovery
  and reaper end jobs without a hint, so their submissions wait for the safety timer.
- OCR setup: the next number is not read anew when the event's own read fails or a picked event
  brings the list entry's number (useOcrSetupOptions.ts:82, ocrSetupModel.ts:155;
  docs/requirements/base.md:325 asks for a new read).
- Hub entry: when its own read fails it follows an earlier visit's answer (useLatestHeldEvent.ts:20;
  docs/requirements/held-event-detail.md:11). An event deleted while its creation is being
  synchronised is not reported as created.
- Achievements: changing the title by Back while a clean correction is open leaves
  `editingClaimId` set (AchievementsPage.tsx:241). After a 409 caused by a changed match the
  editor's match is not read again.
- Source images: a background download that was cancelled is resumed only when its image is
  displayed (`backgroundAttempted` stays set); `running.foreground` is written and never read.
- Lists: the notice of a failed page can stay when the search changes to one that is being read
  (`useRetryNotice`), so only the hub's notice is always its own (NoticeIsOwn); an invalidation does
  not restart a first read in flight, whose rows from before a deletion then count as new
  (ReportedIsGone excepts it by `heCrossed`); a refresh aborted because the user moved on counts as
  failed for the page it began on. HeldEventsPage.tsx:225 says that events cannot be deleted until
  the newest state is confirmed (削除は最新状態を確認できるまで行えません). That holds while the notice
  is retried in place; back on a search whose refresh failed, the read runs without the notice and
  a deletion from the old rows is accepted, so DeletesWhatIsListed asks after a failed refresh only
  that the rows are being read again.
- Comparison page: Back before React shows the pushed address leaves `pendingNavigation` dangling
  (useSeriesAnalysisLocationState.ts:87-105), and a focus chosen on an address in flight is dropped
  when its season was just invalidated. ChoicesSurvive excepts the first (`ssCrossed`) and counts
  the second as given up with its season, in the step that rewrites the URL (`Settle`). The
  adoption effect of the exports (useExportSelection.ts:23) has the same shape.
- Masters: once the administrator's role is lost the pending status is dropped, so the page may be
  left while a request is under way. A creation repeated after its row was seen and deleted gets
  the replayed row back until the next read.

## 7. Not modelled, and why

Numeric code of the analysis, image decoding and recognition, rendering, SQL projections for
lists and exports, and formatting: pure computation or I/O without interleaving. The schema lives
in another repository; locks and visibility are modelled from how the statements use them.
Components marked `not_modelled` in PROJECT.json with "planned" follow below. Of the hazards in
PROJECT.json four have no property: the dispatcher's fairness between OCR and analysis, the
publication of an artifact by a superseded attempt, the object store beside the rows of images,
and notifications prepared in a transaction whose COMMIT fails. They belong to the modules of the
plan.

The Web modules leave out looks, wording, focus and scrolling, the pages whose only state is one
read, and the charts. Abstractions that allow more than the code: a command carries the token of
the session the tab knew, and a new login of the same account is let through; a recheck may always
be the last one; radar criteria can be applied whatever the page's own recalculation of the
comparison says (radarEditingSession.ts:239-258 turns down a disagreement). The outlook's goal is
applied to the store it was shown from, so the rejection of a proposal whose expected facts are no
longer the latest (outlookProposals.ts:61-74) has no step of its own.

## 8. Plan

Done: the modules above and the proofs of section 5. Left, in this order:

1. AnalysisJobs (`series_analysis/control/`): request, claim, staging, publication, supersession
   and recovery; abstract specification: at most one current artifact for a target, never an
   older one over a newer one. To be proved: fencing across the staging transactions.
2. WorkerRuntime (`worker/runtime.rs`, `worker/runtime/dispatch.rs`): one reservation, cursors,
   contended candidates, budgets, OCR before analysis, shutdown and drain. Liveness: a candidate
   behind contended ones is reached.
3. Image rows and objects: upload against deletion and purge, several jobs for one image.
4. Idempotency: reservation, uncertain outcomes, replay; implements "runs at most once".
5. AnalysisRelease: promotion against registration of capabilities.
6. Notifications: reserved in a transaction, sent after it, cancelled with its draft.
7. Optimistic updates of drafts (`updated_at`), OAuth state, the process manager.
