--------------------------- MODULE SubmissionScan ---------------------------
(* How the Worker finds the submissions that settlement has something to do  *)
(* for: a cursor that walks the open submissions page by page, payload-free  *)
(* hints that may be lost or arrive in the middle of a walk, a few early     *)
(* rechecks of busy rows, and a safety timer (submissions/runtime.rs).       *)
(*                                                                           *)
(* Between two awaits of Reconciler::step anything may happen to the rows    *)
(* and any hint may arrive; Runtime keeps hints for the Reconciler while a   *)
(* step has borrowed it.  What settlement writes is in OcrPipeline; here a   *)
(* row only tells whether settling it would write.                           *)
EXTENDS Integers, FiniteSets

CONSTANTS
    Last,           \* submissions have the ids 1..Last, in the order of legacy_id
    PageSize,       \* PAGE_SIZE
    MaxBusy,        \* MAX_BUSY_SUBMISSIONS
    Delays,         \* the number of RETRY_DELAYS
    Starts,         \* BusyRetryBudget: rechecks that may start in one period
    MaxFaults       \* bound on lost connections and on busy rows met

ASSUME SizesAssumption == /\ Last \in Nat /\ PageSize \in Nat \ {0}
                          /\ MaxBusy \in Nat /\ Delays \in Nat /\ Starts \in Nat
                          /\ MaxFaults \in Nat

Ids == 1..Last

VARIABLES
    row,        \* what settling each submission would find
    sent,       \* submissions whose NOTIFY is on its way to the Worker
    owed,       \* submissions a hint was received for and that were not tried since
    dirty,      \* Runtime.submissions_dirty
    at,         \* "parked" in the Runtime, or the await a step has reached
    link,       \* the connection: up, or lost with the reconnect timer running
    cursor,     \* ScanCursor; upper = 0 is None
    requested,  \* Reconciler.requested
    scanAt,     \* scan_at: now, after CONTINUATION_DELAY, or after the timer
    busy,       \* the busy submissions of this walk
    recheck,    \* rechecks: when each is next due
    budget,     \* starts left in this period
    faults

world == <<row, sent>>
route == <<owed, dirty>>
scan == <<cursor, requested, scanAt, busy>>
spare == <<recheck, budget>>
vars == <<world, route, at, link, scan, spare, faults>>

Open == {s \in Ids : row[s] \in {"waiting", "ready"}}
NewCursor == [after |-> 0, upper |-> 0, pending |-> {}, last |-> FALSE]
NotListed == [next |-> "unlisted", attempts |-> 0]
Listed == {s \in Ids : recheck[s].next # "unlisted"}

TypeOK ==
    /\ row \in [Ids -> {"absent", "waiting", "ready", "closed"}]
    /\ sent \subseteq Ids /\ owed \subseteq Ids /\ dirty \in BOOLEAN
    /\ at \in {"parked", "advance", "upper", "page", "settle", "deadline", "recheck"}
    /\ link \in {"up", "waiting", "due"}
    /\ cursor \in [after : 0..Last, upper : 0..Last, pending : SUBSET Ids, last : BOOLEAN]
    /\ requested \in BOOLEAN /\ scanAt \in {"now", "soon", "later"}
    /\ busy \subseteq Ids
    /\ recheck \in [Ids -> [next : {"unlisted", "never", "later", "now", "started"},
                            attempts : 0..Delays]]
    /\ budget \in 0..Starts /\ faults \in 0..MaxFaults

(* discover's page: ORDER BY legacy_id LIMIT PAGE_SIZE of the open ids after *)
(* the cursor and up to its bound                                            *)
IsPage(page, left) == /\ Cardinality(page) <= PageSize
                      /\ page = left \/ Cardinality(page) = PageSize
                      /\ \A p \in page, t \in left \ page : p < t

PageRead(walk) ==
    LET left == {s \in Open : walk.after < s /\ s <= walk.upper}
    IN  {[walk EXCEPT !.pending = page, !.last = Cardinality(page) < PageSize] :
            page \in {p \in SUBSET left : IsPage(p, left)}}

HighestOpen == {s \in Open : \A t \in Open : t <= s}

(* initialize has read the first page before the Runtime gets the Reconciler *)
Init ==
    /\ row \in [Ids -> {"absent", "waiting", "ready"}]
    /\ sent = {} /\ owed = {} /\ dirty = FALSE
    /\ at = "parked" /\ link = "up"
    /\ cursor \in IF Open = {}
                  THEN {[NewCursor EXCEPT !.last = TRUE]}
                  ELSE UNION {PageRead([NewCursor EXCEPT !.upper = s]) : s \in HighestOpen}
    /\ requested = FALSE /\ scanAt = "now" /\ busy = {}
    /\ recheck = [s \in Ids |-> NotListed] /\ budget = Starts /\ faults = 0
----------------------------------------------------------------------------
(* The rest of the system.                                                   *)

(* A transaction of the API or of an attempt opens a submission, or leaves   *)
(* one with something to settle, or aborts it; its hint is sent or not.      *)
Change(s, to, hinted) ==
    /\ \/ row[s] = "absent" /\ to \in {"waiting", "ready"}
       \/ row[s] = "waiting" /\ to = "ready"
       \/ s \in Open /\ to = "closed"
    /\ row' = [row EXCEPT ![s] = to]
    /\ sent' = IF hinted /\ to = "ready" THEN sent \cup {s} ELSE sent \ {s}
    /\ owed' = owed \ {s}
    /\ UNCHANGED <<dirty, at, link, scan, spare, faults>>

(* A hint reaches the Runtime, on whichever channel: a wake without content  *)
Hint == /\ dirty' = TRUE
        /\ owed' = owed \cup sent
        /\ sent' = {}
        /\ UNCHANGED <<row, at, link, scan, spare, faults>>

(* The listener has lost its session: hints on their way are gone.           *)
ListenerLost == /\ sent # {}
                /\ sent' = {}
                /\ UNCHANGED <<row, route, at, link, scan, spare, faults>>
----------------------------------------------------------------------------
(* Steps of the Reconciler.                                                  *)

(* Faulty: the shared budget is not looked at.                               *)
RetryDueUnbudgeted == cursor.upper = 0 /\ \E s \in Ids : recheck[s].next = "now"

RetryDue == /\ cursor.upper = 0 /\ budget > 0
            /\ \E s \in Ids : recheck[s].next = "now"

(* next_at() <= now                                                          *)
Due == \/ link = "due"
       \/ link = "up" /\ (scanAt = "now" \/ RetryDue)

(* Faulty: a hint during a walk counts for that walk.                        *)
RequestScanDuringWalk(wanted) ==
    /\ requested' = (requested \/ (wanted /\ cursor.upper = 0))
    /\ scanAt' = IF wanted /\ cursor.upper = 0 THEN "now" ELSE scanAt

(* request_scan leaves a walk in progress alone.                             *)
RequestScan(wanted) ==
    /\ requested' = (requested \/ wanted)
    /\ scanAt' = IF wanted /\ cursor.upper = 0 THEN "now" ELSE scanAt

(* start_reconciliation                                                      *)
Start == /\ at = "parked" /\ (dirty \/ Due)
         /\ RequestScan(dirty)
         /\ dirty' = FALSE
         /\ UNCHANGED <<world, owed, link, cursor, busy, spare, faults>>
         /\ at' = IF Due' THEN "advance" ELSE "parked"

Park == at' = "parked"

Connect == /\ at = "advance" /\ link # "up"
           /\ link' = "up" /\ scanAt' = "now"
           /\ UNCHANGED <<world, route, at, cursor, requested, busy, spare, faults>>

(* An idle advance, or a walk that starts or goes on: a new walk forgets the *)
(* busy rows of the last one and answers every hint received so far.         *)
Advance ==
    /\ at = "advance" /\ link = "up"
    /\ \/ /\ scanAt # "now" /\ ~RetryDue
          /\ Park
          /\ UNCHANGED <<requested, busy, spare>>
       \/ /\ scanAt # "now" /\ RetryDue
          /\ \E s \in Ids :
                /\ recheck[s].next = "now"
                /\ \/ /\ recheck[s].attempts < Delays
                      /\ at' = "recheck"
                      /\ recheck' = [recheck EXCEPT ![s].next = "started",
                                                    ![s].attempts = @ + 1]
                      /\ budget' = budget - 1
                   \/ /\ Park       \* its deadline has passed
                      /\ recheck' = [recheck EXCEPT ![s].next = "never"]
                      /\ UNCHANGED budget
          /\ UNCHANGED <<requested, busy>>
       \/ /\ scanAt = "now"
          /\ requested' = (requested /\ cursor.upper # 0)
          /\ busy' = IF cursor.upper = 0 THEN {} ELSE busy
          /\ at' = IF cursor.pending # {} THEN "settle"
                   ELSE IF cursor.upper = 0 THEN "upper" ELSE "page"
          /\ UNCHANGED spare
    /\ UNCHANGED <<world, route, link, cursor, scanAt, faults>>

(* discover: the upper bound, once a walk                                    *)
ReadUpper ==
    /\ at = "upper"
    /\ \/ /\ Open = {}
          /\ cursor' = [cursor EXCEPT !.last = TRUE]
          /\ at' = "settle"
       \/ \E s \in HighestOpen :
             /\ cursor' = [cursor EXCEPT !.upper = s]
             /\ at' = "page"
    /\ UNCHANGED <<world, route, link, requested, scanAt, busy, spare, faults>>

ReadPage ==
    /\ at = "page"
    /\ cursor' \in PageRead(cursor)
    /\ at' = "settle"
    /\ UNCHANGED <<world, route, link, requested, scanAt, busy, spare, faults>>

(* The first of the page is popped before its transaction: whatever comes of *)
(* it, the walk goes on after this id.                                       *)
Pop(s) == /\ s \in cursor.pending /\ \A t \in cursor.pending : s <= t
          /\ cursor' = [cursor EXCEPT !.pending = @ \ {s}, !.after = s]

(* Settling writes what there is to write, and leaves the submission open    *)
(* when a member is still outstanding.                                       *)
Settles(s) ==
    /\ row' \in IF row[s] = "ready"
                THEN {[row EXCEPT ![s] = "waiting"], [row EXCEPT ![s] = "closed"]}
                ELSE {row}
    /\ owed' = owed \ {s}
    /\ sent' = sent \ {s}

IsBusy(s) == /\ s \in Open
             /\ faults < MaxFaults
             /\ faults' = faults + 1
             /\ owed' = owed \ {s}
             /\ UNCHANGED <<world, dirty>>

(* sweep_page; the soft budget may end after any receipt                     *)
SettleNext ==
    /\ at = "settle"
    /\ \E s \in Ids :
          /\ Pop(s)
          /\ \/ Settles(s) /\ UNCHANGED <<dirty, busy, faults>>
             \/ /\ IsBusy(s)
                /\ busy' = IF Cardinality(busy) < MaxBusy THEN busy \cup {s} ELSE busy
    /\ \/ at' = "settle" /\ UNCHANGED scanAt
       \/ cursor'.pending # {} /\ Park /\ scanAt' = "soon"
    /\ UNCHANGED <<link, requested, spare>>

(* A page is done: the next one follows after CONTINUATION_DELAY.            *)
EndPage ==
    /\ at = "settle" /\ cursor.pending = {}
    /\ IF cursor.last
       THEN cursor' = NewCursor /\ at' = "deadline" /\ UNCHANGED scanAt
       ELSE Park /\ scanAt' = "soon" /\ UNCHANGED cursor
    /\ UNCHANGED <<world, route, link, requested, busy, spare, faults>>

(* retain_busy: a recheck stays only while its row is found busy, and keeps  *)
(* its attempts; the timer of a new one may fall behind the next walk.       *)
Retained(fits) ==
    [s \in Ids |-> IF s \notin busy THEN NotListed
                   ELSE IF s \in Listed THEN recheck[s]
                   ELSE [next |-> IF Delays > 0 /\ s \in fits THEN "later" ELSE "never",
                         attempts |-> 0]]

(* Faulty: without an admission deadline to wait for no timer is set.        *)
ScheduledOnRequest == IF requested THEN "soon" ELSE "never"

(* Faulty: the timer is set without looking at the hints of this walk.       *)
ScheduleIgnoringHints == "later"

(* next_delay, and what has been asked for meanwhile                         *)
ScheduledAt == IF requested THEN "soon" ELSE "later"

(* The walk is over.                                                         *)
Schedule ==
    /\ at = "deadline"
    /\ scanAt' = ScheduledAt
    /\ recheck' \in {Retained(fits) : fits \in SUBSET busy}
    /\ busy' = {}
    /\ Park
    /\ UNCHANGED <<world, route, link, cursor, requested, budget, faults>>

(* The early recheck of one busy row                                         *)
Recheck ==
    /\ at = "recheck"
    /\ \E s \in Ids :
          /\ recheck[s].next = "started"
          /\ \/ /\ Settles(s)
                /\ recheck' = [recheck EXCEPT ![s] = NotListed]
                /\ UNCHANGED <<dirty, faults>>
             \/ /\ IsBusy(s)
                /\ \E next \in {"later", "never"} :
                      /\ next = "later" => recheck[s].attempts < Delays
                      /\ recheck' = [recheck EXCEPT ![s].next = next]
    /\ Park
    /\ UNCHANGED <<link, scan, budget>>

(* The settlement of s fails or times out: it may have committed or not.     *)
Unknown(s) == /\ Settles(s) \/ (UNCHANGED world /\ owed' = owed \ {s})
              /\ UNCHANGED dirty

(* A query, a settlement or the reconnection fails: reconnect after a delay. *)
Fail ==
    /\ faults < MaxFaults
    /\ faults' = faults + 1
    /\ \/ /\ at \in {"upper", "page", "deadline"} \/ (at = "advance" /\ link # "up")
          /\ UNCHANGED <<world, route, cursor, recheck>>
       \/ /\ at = "settle"
          /\ \E s \in Ids : Pop(s) /\ Unknown(s)
          /\ UNCHANGED recheck
       \/ /\ at = "recheck"
          /\ \E s \in Ids : /\ recheck[s].next = "started"
                            /\ Unknown(s)
                            /\ recheck' = [recheck EXCEPT ![s].next = "now"]
          /\ UNCHANGED cursor
    /\ link' = "waiting"
    /\ Park
    /\ UNCHANGED <<requested, scanAt, busy, budget>>
----------------------------------------------------------------------------
(* Timers.                                                                   *)

ReconnectTimer == /\ link = "waiting"
                  /\ link' = "due"
                  /\ UNCHANGED <<world, route, at, scan, spare, faults>>

ContinuationTimer == /\ at = "parked" /\ scanAt = "soon"
                     /\ scanAt' = "now"
                     /\ UNCHANGED <<world, route, at, link, cursor, requested, busy, spare, faults>>

(* SAFETY_INTERVAL, or the next admission deadline before it                 *)
SafetyTimer == /\ at = "parked" /\ scanAt = "later"
               /\ scanAt' = "now"
               /\ UNCHANGED <<world, route, at, link, cursor, requested, busy, spare, faults>>

RecheckTimer(s) == /\ at = "parked" /\ recheck[s].next = "later"
                   /\ recheck' = [recheck EXCEPT ![s].next = "now"]
                   /\ UNCHANGED <<world, route, at, link, scan, budget, faults>>

BudgetPeriod == /\ budget < Starts
                /\ budget' = budget + 1
                /\ UNCHANGED <<world, route, at, link, scan, recheck, faults>>

Timers == ReconnectTimer \/ ContinuationTimer

Step == \/ Start \/ Connect \/ Advance \/ ReadUpper \/ ReadPage
        \/ SettleNext \/ EndPage \/ Schedule \/ Recheck

Others == \/ \E s \in Ids, to \in {"waiting", "ready", "closed"}, hinted \in BOOLEAN :
                Change(s, to, hinted)
          \/ Hint \/ ListenerLost

Next == \/ Others \/ Step \/ Fail
        \/ Timers \/ SafetyTimer \/ BudgetPeriod \/ \E s \in Ids : RecheckTimer(s)

Spec == Init /\ [][Next]_vars

(* A step runs to its end, the connection comes back, a walk goes on after   *)
(* its pause; nothing is assumed of hints, of the safety timer or of others. *)
PromptFairness == WF_vars(Step) /\ WF_vars(Timers)
PromptSpec == Spec /\ PromptFairness

----------------------------------------------------------------------------
(* What must hold.                                                           *)

(* The walk in progress, or one that is due, still comes to s.               *)
Ahead(s) == \/ s \in cursor.pending
            \/ cursor.upper = 0 /\ scanAt = "now" /\ at \in {"parked", "advance", "upper"}
            \/ /\ cursor.upper # 0 /\ cursor.after < s /\ s <= cursor.upper
               /\ \A p \in cursor.pending : p < s
               /\ ~cursor.last \/ (cursor.pending = {} /\ at # "settle")

(* No hint is lost inside the Worker: a submission whose change was          *)
(* committed when a hint came in, and that was not tried since, is covered   *)
(* by a walk that was asked for or by the rest of the one in progress,       *)
(* whatever page, reconnection or recheck the hint interrupted.              *)
HintIsRemembered == \A s \in owed : dirty \/ requested \/ Ahead(s)

(* A hint that came in is answered by a try of every submission it stands    *)
(* for, without waiting for the safety timer.                                *)
HintIsAnswered == \A s \in Ids : s \in owed ~> s \notin owed

(* If the safety timer fires, whatever there is to settle is settled, also   *)
(* when its hint was lost, its row was busy or the connection broke on it.   *)
ReadyIsSettled == WF_vars(SafetyTimer)
                     => \A s \in Ids : row[s] = "ready" ~> row[s] # "ready"
============================================================================
