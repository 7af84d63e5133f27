----------------------------- MODULE CaptureFlow -----------------------------
(***************************************************************************)
(* The capture page of the web application: the images placed in the tray, *)
(* the confirmed plan, and the workflow that turns the plan into a draft,  *)
(* a submission, uploads and OCR jobs over a network that loses requests   *)
(* and answers.  The server is reduced to what the page can observe of it: *)
(* every write is addressed by a key or an id, and repeating it repeats    *)
(* its answer.  An image number is also its selectionId and its preview    *)
(* URL; a submission's number and a kind are together the upload key, the  *)
(* job key and the job.                                                    *)
(***************************************************************************)
EXTENDS Naturals, Sequences, FiniteSets

CONSTANTS KindOrder,   \* the slot kinds, in the order of slotDefinitions
          MaxImages,   \* bound: images ever placed
          MaxPlans,    \* bound: plans ever confirmed
          MaxSubs,     \* bound: submission ids ever created
          Outcomes,    \* the ways a job ends, among "succeeded" and "failed"
          MaxFaults    \* bound: requests lost, answers lost, writes refused

ASSUME CaptureAssumption ==
    /\ KindOrder \in Seq(STRING) /\ Len(KindOrder) >= 1
    /\ Outcomes \subseteq {"succeeded", "failed"}
    /\ {MaxImages, MaxPlans, MaxSubs, MaxFaults} \subseteq Nat

VARIABLES slots,     \* the tray: one record per kind
          target,    \* captureTargetKind
          placed,    \* images placed so far
          urls,      \* preview URLs created and not revoked
          dialog,    \* the start dialog
          plan,      \* the plan it holds: its number and its images
          made,      \* submission ids created so far
          cp,        \* the plan's checkpoints (OcrSubmissionState)
          flow,      \* the workflow in flight
          net,       \* requests on their way to the server
          srv,       \* drafts and submissions of the server
          job,       \* OCR jobs of the server
          seen,      \* job statuses in the query cache
          faults,    \* faults so far
          mounted,   \* the page is on screen
          leaving    \* a navigation to the results is under way

tray == <<slots, target, placed, urls>>
client == <<dialog, plan, made, cp, flow>>
server == <<net, srv, job>>
cvars == <<tray, client, server, seen, faults, mounted, leaving>>

Kinds == {KindOrder[i] : i \in DOMAIN KindOrder}
Images == 1..MaxImages
Subs == 1..MaxSubs
Plans == 1..MaxPlans
NoImage == 0
NoJob == 0
WorkingStatus == {"uploading", "queued", "running"}
FinalStatus == {"succeeded", "failed", "cancelled"}
SlotStatus == {"empty", "selected"} \cup WorkingStatus \cup FinalStatus
JobStatus == {"none", "queued", "running"} \cup FinalStatus
MemberStatus == {"absent", "pending", "failed", "registered"}

(* A slot without an image; its job is the number of the submission it is of *)
InitialSlot == [image |-> NoImage, status |-> "empty", job |-> NoJob]
NoPlan == [n |-> 0, images |-> [k \in Kinds |-> NoImage]]
NewCheckpoints(s) ==
    [sub |-> s, draft |-> FALSE, requested |-> FALSE, only |-> Kinds, retry |-> {},
     tries |-> 0, uploaded |-> {}, jobs |-> [k \in Kinds |-> "none"]]
IdleFlow == [pc |-> "idle", i |-> 0, clean |-> FALSE, created |-> 0, failed |-> 0,
             members |-> [k \in Kinds |-> "absent"]]
Closed == [status |-> "closed"]
NoSubmission == [status |-> "none", plan |-> 0, images |-> {}, members |-> [k \in Kinds |-> "absent"]]
NothingSeen == [s \in Subs |-> [k \in Kinds |-> "none"]]
NoSubs == [s \in Subs |-> NoSubmission]

CaptureInit ==
    /\ slots = [k \in Kinds |-> InitialSlot]
    /\ target = KindOrder[1]
    /\ placed = 0 /\ urls = {}
    /\ dialog = Closed /\ plan = NoPlan /\ made = 0
    /\ cp = NewCheckpoints(0) /\ flow = IdleFlow
    /\ net = {}
    /\ srv = [drafts |-> [n \in Plans |-> "none"], subs |-> NoSubs]
    /\ job = NothingSeen /\ seen = NothingSeen
    /\ faults = 0 /\ mounted = TRUE /\ leaving = FALSE
-----------------------------------------------------------------------------
(* Slots.                                                                    *)

(* What the page shows of a slot: the last job answer read, if there is one  *)
SlotFromJob(slot, k) ==
    IF slot.job # NoJob /\ seen[slot.job][k] # "none" THEN seen[slot.job][k]
    ELSE slot.status
Status(k) == SlotFromJob(slots[k], k)
Working(k) == Status(k) \in WorkingStatus

(* pickOcrTargets: an image that was not sent, or whose reading ended badly  *)
OcrTargets == {k \in Kinds : /\ slots[k].image # NoImage
                             /\ Status(k) \in {"selected", "failed", "cancelled"}}

KeepImageOnly(slot) ==
    IF slot.image = NoImage THEN InitialSlot
    ELSE [InitialSlot EXCEPT !.image = slot.image, !.status = "selected"]

ImagesIn(tr) == {tr[k].image : k \in Kinds} \ {NoImage}

(* updateLocalSlots: a preview that left the tray is revoked at once         *)
UpdateSlots(tr) ==
    /\ slots' = tr
    /\ urls' = urls \ (ImagesIn(slots) \ ImagesIn(tr))

(* Faulty: the receipt is applied by kind alone.                             *)
ReceiptByKind(slot, image, status, s) ==
    [slot EXCEPT !.status = status, !.job = s]

(* applyOcrSlotReceipt: a receipt addresses the image it was sent for        *)
Receipt(slot, image, status, s) ==
    IF slot.image # image THEN slot
    ELSE [slot EXCEPT !.status = status, !.job = s]

(* Receipts of a page that is gone are dropped (activeRef)                   *)
Receive(k, status, s) ==
    /\ slots' = IF mounted
                THEN [slots EXCEPT ![k] = Receipt(@, plan.images[k], status, s)]
                ELSE slots
    /\ UNCHANGED <<target, placed, urls>>

Locked == dialog.status = "submitting" \/ leaving
CameraDisabled == Locked \/ \E k \in Kinds : Working(k)
(* The tray is behind the dialog while it is open                            *)
TrayReachable == mounted /\ ~leaving /\ dialog.status = "closed"

(* nextEmptyCaptureTarget *)
NextEmpty(tr, current) ==
    LET free == {i \in DOMAIN KindOrder : /\ KindOrder[i] # current
                                          /\ tr[KindOrder[i]].image = NoImage}
    IN  IF free = {} THEN current
        ELSE KindOrder[CHOOSE i \in free : \A m \in free : i <= m]

(* A capture that was already running may end while the plan is being        *)
(* confirmed: only the workflow's lock disables the camera.                  *)
AddImage ==
    /\ mounted /\ ~CameraDisabled /\ dialog.status \in {"closed", "confirming"}
    /\ placed < MaxImages
    /\ ~Working(target)
    /\ placed' = placed + 1
    /\ slots' = [slots EXCEPT ![target] =
                   [image |-> placed + 1, status |-> "selected", job |-> NoJob]]
    /\ urls' = (urls \cup {placed + 1}) \ ({slots[target].image} \ {NoImage})
    /\ target' = NextEmpty(slots', target)
    /\ UNCHANGED <<client, server, seen, faults, mounted, leaving>>

ClearImage(k) ==
    /\ TrayReachable /\ slots[k].status # "empty" /\ ~Working(k)
    /\ UpdateSlots([slots EXCEPT ![k] = InitialSlot])
    /\ UNCHANGED <<target, placed, client, server, seen, faults, mounted, leaving>>

ClearAllImages ==
    /\ TrayReachable /\ ImagesIn(slots) # {}
    /\ \A k \in Kinds : ~Working(k)
    /\ UpdateSlots([k \in Kinds |-> InitialSlot])
    /\ UNCHANGED <<target, placed, client, server, seen, faults, mounted, leaving>>

SwapImages(from, to) ==
    /\ TrayReachable /\ from # to /\ slots[from].image # NoImage
    /\ ~Working(from) /\ ~Working(to)
    /\ UpdateSlots([slots EXCEPT ![from] = KeepImageOnly(slots[to]),
                                 ![to] = KeepImageOnly(slots[from])])
    /\ UNCHANGED <<target, placed, client, server, seen, faults, mounted, leaving>>

(* resolveCaptureTargetChange refuses a kind that is being read              *)
SelectTarget(k) ==
    /\ TrayReachable /\ ~Working(k)
    /\ target' = k
    /\ UNCHANGED <<slots, placed, urls, client, server, seen, faults, mounted, leaving>>

(* The query reads a job when its id arrives and on demand, never by itself; *)
(* a failed read leaves the last answer in place.                            *)
ReadJob(k) ==
    LET s == slots[k].job
    IN  /\ mounted /\ s # NoJob
        /\ seen' = [seen EXCEPT ![s][k] = job[s][k]]
        /\ UNCHANGED <<tray, client, server, faults, mounted, leaving>>
-----------------------------------------------------------------------------
(* The dialog.                                                               *)

(* prepareOcrSubmissionPlan: a snapshot of the images to send                *)
ReviewSubmission ==
    /\ TrayReachable /\ flow.pc = "idle"
    /\ OcrTargets # {} /\ \A k \in Kinds : ~Working(k)
    /\ plan.n < MaxPlans
    /\ plan' = [n |-> plan.n + 1,
                images |-> [k \in Kinds |-> IF k \in OcrTargets
                                            THEN slots[k].image ELSE NoImage]]
    /\ cp' = NewCheckpoints(0)
    /\ dialog' = [status |-> "confirming"]
    /\ UNCHANGED <<tray, made, flow, server, seen, faults, mounted, leaving>>

TrayEditing == \/ dialog.status = "confirming"
               \/ dialog.status = "recoverable_failure" /\ dialog.canEdit

CloseDialog ==
    /\ mounted /\ ~leaving /\ TrayEditing
    /\ dialog' = Closed
    /\ UNCHANGED <<tray, plan, made, cp, flow, server, seen, faults, mounted, leaving>>

Failure(canEdit) == [status |-> "recoverable_failure", canEdit |-> canEdit]
SubmissionClosed(canRestart) ==
    [status |-> "submission_closed", canRestart |-> canRestart]

(* pickOcrTargets of the plan, in order, limited to state.targetKinds        *)
Targets(state) == SelectSeq(KindOrder, LAMBDA k : /\ plan.images[k] # NoImage
                                                  /\ k \in state.only)

(* Faulty: a restart sends every image of the plan again.                    *)
StateForAll(restart) ==
    IF restart /\ cp.retry # {} /\ cp.draft
    THEN [NewCheckpoints(made + 1) EXCEPT !.draft = TRUE]
    ELSE IF cp.sub = 0 THEN NewCheckpoints(made + 1) ELSE cp

(* The checkpoints a submit works on: a restart keeps the draft and leaves   *)
(* the images the server has registered alone.                               *)
StateFor(restart) ==
    IF restart /\ cp.retry # {} /\ cp.draft
    THEN [NewCheckpoints(made + 1) EXCEPT !.draft = TRUE, !.only = cp.retry]
    ELSE IF cp.sub = 0 THEN NewCheckpoints(made + 1) ELSE cp

(* A later rejected retry cannot disprove that an earlier one was accepted   *)
Clean == TrayEditing

(* A request names its key or id, the images it carries and the attempt      *)
Request(op, at, images, state) ==
    [op |-> op, plan |-> plan.n, at |-> at, images |-> images, try |-> state.tries]
DraftRequest(state) == Request("draft", 0, {}, state)
PutRequest(state) == Request("put", state.sub,
                             {<<k, plan.images[k]>> : k \in {k \in Kinds : /\ plan.images[k] # NoImage
                                                                          /\ k \in state.only}},
                             state)
ImageRequest(op, k) == Request(op, cp.sub, {<<k, plan.images[k]>>}, cp)

Confirm ==
    LET restart == dialog.status = "submission_closed" /\ dialog.canRestart
        state == [StateFor(restart) EXCEPT !.tries = @ + 1]
        start == [IdleFlow EXCEPT !.clean = Clean]
    IN  /\ mounted /\ flow.pc = "idle" /\ plan.n > 0
        /\ \/ TrayEditing
           \/ dialog.status \in {"recoverable_failure", "partial_result"}
           \/ restart
        /\ state.sub \in Subs
        /\ state.tries <= MaxFaults + 2
        /\ made' = IF state.sub > made THEN state.sub ELSE made
        /\ cp' = [state EXCEPT !.requested = state.draft \/ @]
        /\ dialog' = [status |-> "submitting"]
        /\ IF state.draft
           THEN /\ flow' = [start EXCEPT !.pc = "put"]
                /\ net' = net \cup {PutRequest(state)}
           ELSE /\ flow' = [start EXCEPT !.pc = "draft"]
                /\ net' = net \cup {DraftRequest(state)}
        /\ UNCHANGED <<tray, plan, srv, job, seen, faults, mounted, leaving>>

(* An image cannot be read before the submission's request is put together:  *)
(* nothing of this submission was sent, the first one or a restarted one.    *)
ConfirmUnreadable ==
    LET restart == dialog.status = "submission_closed" /\ dialog.canRestart
    IN  /\ mounted /\ flow.pc = "idle" /\ plan.n > 0
        /\ TrayEditing \/ dialog.status = "recoverable_failure" \/ restart
        /\ cp' = StateFor(restart) /\ ~cp'.requested /\ cp'.sub \in Subs
        /\ made' = IF cp'.sub > made THEN cp'.sub ELSE made
        /\ dialog' = Failure(Clean)
        /\ UNCHANGED <<tray, plan, flow, server, seen, faults, mounted, leaving>>

(* Leaving for the results starts a transition; the page stays until it ends *)
ViewMatches ==
    /\ mounted /\ ~leaving /\ flow.pc = "idle"
    /\ \/ dialog.status = "recoverable_failure" /\ ~dialog.canEdit
       \/ dialog.status \in {"partial_result", "submission_closed"}
    /\ leaving' = TRUE
    /\ UNCHANGED <<tray, client, server, seen, faults, mounted>>

(* The page unmounts: at the end of a navigation, on leaving the page while  *)
(* nothing is being sent, or when another account takes over.  Its own state *)
(* goes with it; the workflow in flight runs to its next check.              *)
Unmount ==
    /\ mounted
    /\ mounted' = FALSE /\ leaving' = FALSE
    /\ urls' = urls \ ImagesIn(slots)
    /\ slots' = [k \in Kinds |-> InitialSlot] /\ target' = KindOrder[1]
    /\ dialog' = Closed /\ seen' = NothingSeen
    /\ UNCHANGED <<placed, plan, made, cp, flow, server, faults>>
-----------------------------------------------------------------------------
(* The workflow.                                                             *)

Kind == KindOrder[flow.i]
Awaited == CASE flow.pc = "draft" -> DraftRequest(cp)
             [] flow.pc = "put" -> PutRequest(cp)
             [] OTHER -> ImageRequest(flow.pc, Kind)

End(d) == dialog' = d /\ flow' = IdleFlow
(* signal.throwIfAborted: the workflow of a page that is gone stops          *)
Abort == flow' = IdleFlow /\ UNCHANGED dialog
EndIfMounted(d) == IF mounted THEN End(d) ELSE Abort
(* Faulty: the next call is sent even though the page is gone.               *)
ContinueAlways(pc, request, rest) ==
    /\ flow' = [flow EXCEPT !.pc = pc]
    /\ net' = rest \cup {request}
    /\ UNCHANGED dialog

(* What is sent after the answer of an earlier call                          *)
Continue(pc, request, rest) ==
    IF mounted
    THEN /\ flow' = [flow EXCEPT !.pc = pc]
         /\ net' = rest \cup {request}
         /\ UNCHANGED dialog
    ELSE Abort /\ net' = rest

DraftAnswered(rest) ==
    /\ cp' = [cp EXCEPT !.draft = TRUE, !.requested = mounted]
    /\ Continue("put", PutRequest(cp), rest)

(* isDefinitiveRejection: the server refused the draft, so it has none       *)
DraftFailed(definitive) == EndIfMounted(Failure(flow.clean /\ definitive))

Unregistered(state, members) == {k \in Kinds : /\ plan.images[k] # NoImage
                                               /\ k \in state.only
                                               /\ members[k] = "failed"}

PutAnswered(sub) ==
    LET lost == Unregistered(cp, sub.members)
        over == sub.status = "aborted" \/ (sub.status = "settled" /\ lost # {})
    IN  IF ~mounted THEN Abort /\ UNCHANGED cp
        ELSE IF over
        THEN /\ cp' = [cp EXCEPT !.retry = IF sub.status = "settled" THEN lost ELSE {}]
             /\ End(SubmissionClosed(cp'.retry # {}))
        ELSE /\ UNCHANGED cp
             /\ flow' = [flow EXCEPT !.pc = "slot", !.i = 1, !.members = sub.members]
             /\ UNCHANGED dialog

(* 404 and 409 close the submission; anything else may be tried again        *)
PutFailed(gone) ==
    /\ UNCHANGED cp
    /\ EndIfMounted(IF gone THEN SubmissionClosed(FALSE) ELSE Failure(FALSE))

IsTarget(k) == plan.images[k] # NoImage /\ k \in cp.only
SkipSlot == flow' = [flow EXCEPT !.pc = "slot", !.i = @ + 1]
SlotAccepted(status) ==
    /\ Receive(Kind, status, cp.sub)
    /\ flow' = [flow EXCEPT !.pc = "slot", !.i = @ + 1, !.created = @ + 1]
SlotFailed ==
    /\ Receive(Kind, "failed", NoJob)
    /\ flow' = [flow EXCEPT !.pc = "slot", !.i = @ + 1, !.failed = @ + 1]

(* The next image: recover the job the server already has, skip an image     *)
(* whose admission closed, or go on with its upload or its job.              *)
StartSlot ==
    /\ flow.pc = "slot" /\ flow.i <= Len(KindOrder)
    /\ IF ~mounted THEN Abort /\ UNCHANGED <<tray, net>>
       ELSE IF ~IsTarget(Kind) THEN SkipSlot /\ UNCHANGED <<tray, dialog, net>>
       ELSE IF cp.jobs[Kind] # "none"
       THEN SlotAccepted(cp.jobs[Kind]) /\ UNCHANGED <<dialog, net>>
       ELSE IF flow.members[Kind] = "failed"
       THEN SlotFailed /\ UNCHANGED <<dialog, net>>
       ELSE LET op == IF flow.members[Kind] = "registered" THEN "getJob"
                      ELSE IF Kind \in cp.uploaded THEN "job" ELSE "upload"
            IN  /\ Receive(Kind, "uploading", NoJob)
                /\ Continue(op, ImageRequest(op, Kind), net)
    /\ UNCHANGED <<plan, made, cp, srv, job, seen, faults, mounted, leaving>>

UploadAnswered(rest) ==
    /\ cp' = [cp EXCEPT !.uploaded = @ \cup {Kind}]
    /\ Continue("job", ImageRequest("job", Kind), rest)
    /\ UNCHANGED tray

(* createJob or getJob answered: the slot shows the job                      *)
JobAnswered(status) ==
    /\ cp' = [cp EXCEPT !.jobs[Kind] = status]
    /\ IF mounted THEN SlotAccepted(status) /\ UNCHANGED dialog
       ELSE Abort /\ UNCHANGED tray

SlotCallFailed == IF mounted THEN SlotFailed /\ UNCHANGED dialog
                  ELSE Abort /\ UNCHANGED tray

FinishFlow ==
    /\ flow.pc = "slot" /\ flow.i > Len(KindOrder)
    /\ IF ~mounted THEN Abort /\ UNCHANGED leaving
       ELSE IF flow.created = 0
       THEN End(Failure(FALSE)) /\ UNCHANGED leaving
       ELSE IF flow.failed > 0
       THEN End([status |-> "partial_result"]) /\ UNCHANGED leaving
       ELSE End(Closed) /\ leaving' = TRUE
    /\ UNCHANGED <<tray, plan, made, cp, server, seen, faults, mounted>>
-----------------------------------------------------------------------------
(* The network and the server.  A request is served once; its answer reaches *)
(* the workflow that awaits it or is lost, and the client may give up on a   *)
(* request that the server still handles later.                              *)

Reaches(r) == flow.pc \notin {"idle", "slot"} /\ r = Awaited
Unobserved == UNCHANGED <<tray, client>>
Lost == faults < MaxFaults /\ faults' = faults + 1

CallFailed(r) ==
    CASE r.op = "draft" -> DraftFailed(FALSE) /\ UNCHANGED <<tray, cp>>
      [] r.op = "put" -> PutFailed(FALSE) /\ UNCHANGED tray
      [] OTHER -> SlotCallFailed /\ UNCHANGED cp

(* The connection breaks: before the request is sent, or after               *)
Break(r) ==
    /\ r \in net /\ Reaches(r) /\ Lost
    /\ CallFailed(r)
    /\ net' \in {net, net \ {r}}
    /\ UNCHANGED <<plan, made, srv, job, seen, mounted, leaving>>

(* An answer, or its loss on the way back                                    *)
Answer(r, answered) ==
    IF Reaches(r) THEN \/ answered /\ UNCHANGED faults
                       \/ Lost /\ CallFailed(r) /\ net' = net \ {r}
    ELSE Unobserved /\ UNCHANGED faults /\ net' = net \ {r}

ServeDraft(r) ==
    /\ r \in net /\ r.op = "draft"
    /\ \/ /\ srv' = [srv EXCEPT !.drafts[r.plan] = IF @ = "none" THEN "live" ELSE @]
          /\ Answer(r, DraftAnswered(net \ {r}) /\ UNCHANGED tray)
       \/ /\ srv.drafts[r.plan] = "none" /\ Lost
          /\ IF Reaches(r) THEN DraftFailed(TRUE) /\ UNCHANGED <<tray, cp>>
             ELSE Unobserved
          /\ net' = net \ {r}
          /\ UNCHANGED srv
    /\ UNCHANGED <<plan, made, job, seen, mounted, leaving>>

Admitted(r) ==
    [status |-> "open", plan |-> r.plan, images |-> r.images,
     members |-> [k \in Kinds |-> IF \E p \in r.images : p[1] = k
                                  THEN "pending" ELSE "absent"]]

(* PUT of a submission: it is admitted once, and repeating it reads it back  *)
ServePut(r) ==
    LET s == r.at
    IN  /\ r \in net /\ r.op = "put"
        /\ IF srv.subs[s].status = "none"
           THEN IF srv.drafts[r.plan] = "live"
                THEN /\ srv' = [srv EXCEPT !.subs[s] = Admitted(r)]
                     /\ Answer(r, /\ PutAnswered(Admitted(r))
                                  /\ net' = net \ {r} /\ UNCHANGED tray)
                ELSE /\ UNCHANGED srv
                     /\ Answer(r, PutFailed(TRUE) /\ net' = net \ {r} /\ UNCHANGED tray)
           ELSE /\ UNCHANGED srv
                /\ Answer(r, /\ PutAnswered(srv.subs[s])
                             /\ net' = net \ {r} /\ UNCHANGED tray)
        /\ UNCHANGED <<plan, made, job, seen, mounted, leaving>>

ServeUpload(r) ==
    /\ r \in net /\ r.op = "upload"
    /\ Answer(r, UploadAnswered(net \ {r}))
    /\ UNCHANGED <<plan, made, dialog, srv, job, seen, mounted, leaving>>

KindOf(r) == (CHOOSE p \in r.images : TRUE)[1]

ServeGetJob(r) ==
    /\ r \in net /\ r.op = "getJob"
    /\ Answer(r, JobAnswered(job[r.at][KindOf(r)]) /\ net' = net \ {r})
    /\ UNCHANGED <<plan, made, srv, job, seen, mounted, leaving>>

(* Faulty: a job is attached to whatever submission it names.                *)
AttachableAlways(s, k) == TRUE

(* The member is waiting for its image and the draft shows no running job    *)
Attachable(s, k) ==
    /\ srv.subs[s].status = "open" /\ srv.subs[s].members[k] = "pending"
    /\ \A t \in Subs : srv.subs[t].plan = srv.subs[s].plan => job[t][k] \notin WorkingStatus

(* POST of a job: a key that has created its job answers with it again       *)
ServeJob(r) ==
    LET s == r.at  k == KindOf(r)
    IN  /\ r \in net /\ r.op = "job"
        /\ IF job[s][k] # "none"
           THEN /\ UNCHANGED <<srv, job>>
                /\ Answer(r, JobAnswered("queued") /\ net' = net \ {r})
           ELSE IF Attachable(s, k)
           THEN /\ job' = [job EXCEPT ![s][k] = "queued"]
                /\ srv' = [srv EXCEPT !.subs[s].members[k] = "registered"]
                /\ Answer(r, JobAnswered("queued") /\ net' = net \ {r})
           ELSE /\ UNCHANGED <<srv, job>>
                /\ Answer(r, SlotCallFailed /\ net' = net \ {r} /\ UNCHANGED cp)
        /\ UNCHANGED <<plan, made, seen, mounted, leaving>>

Serve(r) == ServeDraft(r) \/ ServePut(r) \/ ServeUpload(r) \/ ServeGetJob(r) \/ ServeJob(r)

ServerKeeps == UNCHANGED <<tray, client, net, seen, faults, mounted, leaving>>

JobEnds(s, k, status) ==
    /\ job[s][k] \in {"queued", "running"}
    /\ job' = [job EXCEPT ![s][k] = status]
    /\ UNCHANGED srv
    /\ ServerKeeps

(* The admission deadline passes: the members still waiting have failed, and *)
(* the submission is settled once no member is outstanding.                  *)
Settle(s) ==
    LET sub == srv.subs[s]
        members == [k \in Kinds |-> IF sub.members[k] = "pending" THEN "failed"
                                    ELSE sub.members[k]]
        over == \A k \in Kinds : job[s][k] \notin WorkingStatus
    IN  /\ sub.status = "open"
        /\ srv' = [srv EXCEPT !.subs[s] =
                     [sub EXCEPT !.members = members,
                                 !.status = IF over THEN "settled" ELSE "open"]]
        /\ srv' # srv
        /\ UNCHANGED job
        /\ ServerKeeps

(* Somebody deletes the draft: its open submissions are aborted              *)
DeleteDraft(n) ==
    /\ srv.drafts[n] = "live"
    /\ srv' = [drafts |-> [srv.drafts EXCEPT ![n] = "deleted"],
               subs |-> [s \in Subs |->
                           IF srv.subs[s].plan = n /\ srv.subs[s].status = "open"
                           THEN [srv.subs[s] EXCEPT !.status = "aborted"]
                           ELSE srv.subs[s]]]
    /\ job' = [s \in Subs |-> [k \in Kinds |->
                 IF srv.subs[s].plan = n /\ job[s][k] = "queued" THEN "cancelled"
                 ELSE job[s][k]]]
    /\ ServerKeeps
-----------------------------------------------------------------------------
PageNext ==
    \/ AddImage \/ ClearAllImages
    \/ \E k \in Kinds : ClearImage(k) \/ SelectTarget(k) \/ ReadJob(k)
    \/ \E from, to \in Kinds : SwapImages(from, to)
    \/ ReviewSubmission \/ CloseDialog \/ Confirm \/ ConfirmUnreadable
    \/ ViewMatches \/ Unmount
FlowNext == StartSlot \/ FinishFlow
NetworkNext == \E r \in net : Serve(r) \/ Break(r)
ServerNext ==
    \/ \E s \in Subs : Settle(s)
    \/ \E s \in Subs, k \in Kinds, status \in Outcomes : JobEnds(s, k, status)
    \/ \E n \in Plans : DeleteDraft(n)
CaptureNext == PageNext \/ FlowNext \/ NetworkNext \/ ServerNext
CaptureSpec == CaptureInit /\ [][CaptureNext]_cvars
-----------------------------------------------------------------------------
(* Properties.                                                               *)

CaptureTypeOK ==
    /\ slots \in [Kinds -> [image : Images \cup {NoImage}, status : SlotStatus,
                            job : Subs \cup {NoJob}]]
    /\ target \in Kinds /\ placed \in 0..MaxImages /\ urls \subseteq Images
    /\ dialog.status \in {"closed", "confirming", "submitting", "partial_result",
                          "recoverable_failure", "submission_closed"}
    /\ job \in [Subs -> [Kinds -> JobStatus]] /\ seen \in [Subs -> [Kinds -> JobStatus]]
    /\ {mounted, leaving} \subseteq BOOLEAN

(* No image is read twice: whatever is lost, retried, restarted or handled   *)
(* late, the server has at most one job for an image the user confirmed.     *)
JobsOf(image) == {at \in Subs \X Kinds : /\ job[at[1]][at[2]] # "none"
                                         /\ <<at[2], image>> \in srv.subs[at[1]].images}
NoImageReadTwice == \A image \in Images : Cardinality(JobsOf(image)) <= 1

(* A slot shows the job of its own image, never that of an image that was    *)
(* there when the plan was confirmed.                                        *)
SlotsShowTheirOwnJob ==
    \A k \in Kinds : slots[k].job # NoJob =>
        <<k, slots[k].image>> \in srv.subs[slots[k].job].images

(* After the page is gone its workflow sends nothing more (a step).          *)
SendsNothingAfterLeaving == ~mounted => net' \subseteq net
=============================================================================
