----------------------------- MODULE HeldEventHub -----------------------------
(***************************************************************************)
(* The hub of a held event (features/heldEvents/detail), the entry that    *)
(* opens the newest one (features/heldEvents/latest) and the creation of   *)
(* another one (features/heldEvents/create) from a hub or the history.     *)
(*                                                                         *)
(* Held events are numbered in the order they are held.  A hub keeps the   *)
(* last answer about its event while it is read again.  The day typed into *)
(* the creation, its key and the rows of matches are left out.             *)
(***************************************************************************)
EXTENDS Naturals, FiniteSets

CONSTANTS HbEvents,           \* an interval of numbers: the held events that may exist
          HbStart,            \* those that exist at first
          HbMoves, HbFaults   \* bounds: inputs; failures and others' changes
ASSUME HbAssumption ==
  HbEvents \subseteq Nat \ {0} /\ IsFiniteSet(HbEvents) /\ HbStart \subseteq HbEvents

VARIABLES hbServer,    \* the held events, those with records, those with a running read
          hbDetails,   \* the cached answer about each event, and its read
          hbLatest,    \* the cached newest event, and its read
          hbAt,        \* the page: the entry, the history or a hub
          hbSettled,   \* the notice kept during a retry, and the hub it belongs to
          hbForm,      \* the creation dialog of the mounted page
          hbMount,     \* the mounted content; another number is another instance
          hbCalls,     \* creations under way, each with the content that sent it
          hbBy, hbWish,    \* what moved the user last, and what he asked for last
          hbMoved, hbFaulted

hbcached == <<hbDetails, hbLatest>>
hbpage == <<hbAt, hbSettled, hbForm, hbMount, hbBy>>
hbvars == <<hbServer, hbcached, hbpage, hbCalls, hbWish, hbMoved, hbFaulted>>

NoEvent == 0
UnreadDetail == [kind |-> "none", prev |-> NoEvent, next |-> NoEvent, sure |-> FALSE,
           empty |-> TRUE, running |-> FALSE]
NoDetail == [data |-> UnreadDetail, failed |-> FALSE, read |-> "none", by |-> "page"]
NoForm == [open |-> FALSE, error |-> FALSE, made |-> NoEvent]  \* made: under its key
Hub(e) == [page |-> "hub", event |-> e]
HistoryPage == [page |-> "history", event |-> NoEvent]
EntryPage == [page |-> "entry", event |-> NoEvent]
HbCount == hbMoved < HbMoves /\ hbMoved' = hbMoved + 1
HbFault == hbFaulted < HbFaults /\ hbFaulted' = hbFaulted + 1
Newest(events) == IF events = {} THEN NoEvent ELSE CHOOSE e \in events : \A o \in events : o <= e
Oldest(events) == IF events = {} THEN NoEvent ELSE CHOOSE e \in events : \A o \in events : e <= o
-----------------------------------------------------------------------------
(* What the API answers, and what the hub makes of it.                       *)
DetailOf(server, e, sure) ==
  IF e \notin server.events THEN [UnreadDetail EXCEPT !.kind = "gone"]
  ELSE [kind |-> "found", sure |-> sure,
        prev |-> IF sure THEN Newest({o \in server.events : o < e}) ELSE NoEvent,
        next |-> IF sure THEN Oldest({o \in server.events : o > e}) ELSE NoEvent,
        empty |-> e \notin server.recorded, running |-> e \in server.running]

\* Rechecks of running reads are not the user's: only other reads are pending.
HubPending(d) == d.read # "none" /\ (d.by = "user" \/ ~d.data.running)
AdjacentEnabled(d) == ~HubPending(d) /\ ~d.failed /\ d.data.sure
RecordingHint(data) ==
  CASE data.sure /\ data.next # NoEvent -> "to newest"
    [] data.sure /\ data.next = NoEvent /\ ~data.empty -> "offer"
    [] OTHER -> "none"

HubReadFailed(d) == d.failed /\ ~HubPending(d)
StaleShown ==
  /\ hbAt.page = "hub"
  /\ LET d == hbDetails[hbAt.event]
     IN IF HubPending(d) /\ hbSettled.event = hbAt.event THEN hbSettled.on ELSE HubReadFailed(d)
NoticeOf(settled, at, d) ==
  IF settled.event # at.event \/ ~HubPending(d) THEN [event |-> at.event, on |-> HubReadFailed(d)]
  ELSE settled

\* The page that can be worked on; the creation lives as long as it does.
Content(at, details) ==
  at.page = "history" \/ (at.page = "hub" /\ details[at.event].data.kind = "found")
SameContent(at, details) ==
  at.page = hbAt.page /\ Content(at, details) /\ Content(hbAt, hbDetails)
HubRendered(at, details) ==
  /\ hbAt' = at /\ hbDetails' = details
  /\ hbSettled' = IF at.page = "hub" THEN NoticeOf(hbSettled, at, details[at.event])
                  ELSE [event |-> NoEvent, on |-> FALSE]
  /\ hbForm' = IF SameContent(at, details) THEN hbForm ELSE NoForm
  /\ hbMount' = IF SameContent(at, details) THEN hbMount ELSE hbMount + 1

\* The reads of a page that is left are aborted; a hub is read unless its answer is fresh.
Aborted(details) == [e \in HbEvents |-> [details[e] EXCEPT !.read = "none", !.by = "page"]]
Opened(e, fresh) ==
  IF fresh /\ hbDetails[e].data.kind # "none" /\ ~hbDetails[e].failed THEN Aborted(hbDetails)
  ELSE [Aborted(hbDetails) EXCEPT ![e].read = "sent"]
ShowPage(at, fresh) == HubRendered(at, IF at.page = "hub" THEN Opened(at.event, fresh)
                                ELSE Aborted(hbDetails))
Creating == \E call \in hbCalls : call.mount = hbMount
-----------------------------------------------------------------------------
(* The user's ways, which a creation under way holds back.                   *)
Visit(at) ==
  /\ ~Creating /\ HbCount
  /\ \E fresh \in BOOLEAN : ShowPage(at, fresh)
  /\ hbBy' = "user" /\ hbWish' = at
OpenHistory ==
  /\ Visit(HistoryPage)
  /\ hbLatest' = [hbLatest EXCEPT !.read = "none"]
  /\ UNCHANGED <<hbServer, hbCalls, hbFaulted>>
OpenListed ==
  /\ hbAt.page = "history" /\ ~hbForm.open
  /\ \E e \in hbServer.events : Visit(Hub(e))
  /\ UNCHANGED <<hbServer, hbLatest, hbCalls, hbFaulted>>
OpenAdjacent ==
  /\ hbAt.page = "hub" /\ hbDetails[hbAt.event].data.kind = "found" /\ ~hbForm.open
  /\ AdjacentEnabled(hbDetails[hbAt.event])
  /\ \E e \in {hbDetails[hbAt.event].data.prev, hbDetails[hbAt.event].data.next} :
       e # NoEvent /\ Visit(Hub(e))
  /\ UNCHANGED <<hbServer, hbLatest, hbCalls, hbFaulted>>
GoBackToHub ==  \* also while the dialog is open
  /\ hbAt.page = "hub" /\ \E e \in HbStart \ {hbAt.event} : Visit(Hub(e))
  /\ UNCHANGED <<hbServer, hbLatest, hbCalls, hbFaulted>>
-----------------------------------------------------------------------------
(* The entry: the newest event, by a read of its own.                        *)
OpenEntry ==
  /\ hbAt.page # "entry" /\ ~hbForm.open /\ Visit(EntryPage)
  /\ hbLatest' = [hbLatest EXCEPT !.read = "sent", !.failed = FALSE]
  /\ UNCHANGED <<hbServer, hbCalls, hbFaulted>>
RetryEntry ==
  /\ hbAt.page = "entry" /\ hbLatest.failed /\ hbLatest.read = "none" /\ HbCount
  /\ hbLatest' = [hbLatest EXCEPT !.read = "sent"]
  /\ UNCHANGED <<hbServer, hbDetails, hbpage, hbCalls, hbWish, hbFaulted>>
ServeLatest ==
  /\ hbLatest.read = "sent"
  /\ hbLatest' = [hbLatest EXCEPT !.read = "served", !.answer = Newest(hbServer.events)]
  /\ UNCHANGED <<hbServer, hbDetails, hbpage, hbCalls, hbWish, hbMoved, hbFaulted>>
Redirect(e) == \E fresh \in BOOLEAN : ShowPage(IF e = NoEvent THEN HistoryPage ELSE Hub(e), fresh)
LatestArrives ==
  /\ hbLatest.read = "served"
  /\ hbLatest' = [known |-> TRUE, event |-> hbLatest.answer, read |-> "none",
                  answer |-> NoEvent, failed |-> FALSE]
  /\ Redirect(hbLatest.answer) /\ hbBy' = "entry"
  /\ UNCHANGED <<hbServer, hbCalls, hbWish, hbMoved, hbFaulted>>

\* A failed read leaves the answer of an earlier visit, which is then followed.
LatestFails ==
  /\ hbLatest.read # "none" /\ HbFault
  /\ hbLatest' = [hbLatest EXCEPT !.read = "none", !.failed = TRUE]
  /\ IF hbLatest.known THEN Redirect(hbLatest.event) /\ hbBy' = "old entry"
     ELSE UNCHANGED <<hbpage, hbDetails>>
  /\ UNCHANGED <<hbServer, hbCalls, hbWish, hbMoved>>
-----------------------------------------------------------------------------
(* The hub's reads: the user's refresh, rechecks, and answers.               *)
UserRefreshesHub ==
  /\ hbAt.page = "hub" /\ ~hbForm.open /\ ~HubPending(hbDetails[hbAt.event])
  /\ hbDetails[hbAt.event].data.kind # "gone" /\ HbCount
  /\ HubRendered(hbAt, [hbDetails EXCEPT ![hbAt.event].read = "sent", ![hbAt.event].by = "user"])
  /\ UNCHANGED <<hbServer, hbLatest, hbCalls, hbBy, hbWish, hbFaulted>>
RecheckHub ==
  /\ hbAt.page = "hub" /\ hbDetails[hbAt.event].read = "none"
  /\ hbDetails[hbAt.event].data.running /\ ~hbDetails[hbAt.event].failed
  /\ HubRendered(hbAt, [hbDetails EXCEPT ![hbAt.event].read = "sent"])
  /\ UNCHANGED <<hbServer, hbLatest, hbCalls, hbBy, hbWish, hbMoved, hbFaulted>>
HubArrives ==
  /\ hbAt.page = "hub" /\ hbDetails[hbAt.event].read = "sent"
  /\ \E sure \in BOOLEAN :
       /\ IF sure THEN UNCHANGED hbFaulted ELSE HbFault
       /\ HubRendered(hbAt, [hbDetails EXCEPT ![hbAt.event] =
                            [NoDetail EXCEPT !.data = DetailOf(hbServer, hbAt.event, sure)]])
  /\ UNCHANGED <<hbServer, hbLatest, hbCalls, hbBy, hbWish, hbMoved>>
HubFails ==
  /\ hbAt.page = "hub" /\ hbDetails[hbAt.event].read = "sent" /\ HbFault
  /\ HubRendered(hbAt, [hbDetails EXCEPT ![hbAt.event] =
                       [NoDetail EXCEPT !.data = hbDetails[hbAt.event].data, !.failed = TRUE]])
  /\ UNCHANGED <<hbServer, hbLatest, hbCalls, hbBy, hbWish, hbMoved>>
-----------------------------------------------------------------------------
(* Creating another held event.  The dialog cannot be closed while it is     *)
(* sent; a failure stays on the page after it is closed.                     *)
CreationOffered ==
  Content(hbAt, hbDetails)
  /\ (hbAt.page = "hub" => RecordingHint(hbDetails[hbAt.event].data) = "offer")
OpenCreation ==
  /\ CreationOffered /\ ~hbForm.open /\ HbCount
  /\ hbForm' = [hbForm EXCEPT !.open = TRUE, !.error = FALSE]
  /\ UNCHANGED <<hbServer, hbcached, hbAt, hbSettled, hbMount, hbCalls, hbBy, hbWish, hbFaulted>>
CloseCreation ==
  /\ hbForm.open /\ ~Creating
  /\ hbForm' = [hbForm EXCEPT !.open = FALSE]
  /\ UNCHANGED <<hbServer, hbcached, hbAt, hbSettled, hbMount, hbCalls, hbBy, hbWish, hbMoved,
                 hbFaulted>>
SubmitCreation ==
  /\ hbForm.open /\ ~Creating /\ HbCount
  /\ hbCalls' = hbCalls \cup {[at |-> "sent", mount |-> hbMount, event |-> NoEvent]}
  /\ hbWish' = "creation"
  /\ UNCHANGED <<hbServer, hbcached, hbpage, hbFaulted>>
ServeHubCreation ==
  /\ \E call \in hbCalls :
       LET own == call.mount = hbMount
           replayed == own /\ hbForm.made # NoEvent
       IN \E e \in IF replayed THEN {hbForm.made} ELSE HbEvents \ hbServer.events :
            /\ call.at = "sent"
            /\ hbServer' = IF replayed THEN hbServer ELSE [hbServer EXCEPT !.events = @ \cup {e}]
            /\ hbForm' = IF own THEN [hbForm EXCEPT !.made = e] ELSE hbForm
            /\ hbCalls' = (hbCalls \ {call}) \cup {[call EXCEPT !.at = "made", !.event = e]}
  /\ UNCHANGED <<hbcached, hbAt, hbSettled, hbMount, hbBy, hbWish, hbMoved, hbFaulted>>

\* The created event is put into the cache, and every detail is out of date: the
\* hub that is shown is read again before the creation goes on.
CreationMade ==
  /\ \E call \in hbCalls :
       /\ call.at = "made"
       /\ hbCalls' = (hbCalls \ {call}) \cup {[call EXCEPT !.at = "syncing"]}
  /\ HubRendered(hbAt, IF hbAt.page = "hub" THEN
                      [hbDetails EXCEPT ![hbAt.event].read = "sent", ![hbAt.event].by = "page"]
                    ELSE hbDetails)
  /\ UNCHANGED <<hbServer, hbLatest, hbBy, hbWish, hbMoved, hbFaulted>>
MovesUser(call) == call.mount = hbMount /\ Content(hbAt, hbDetails)
CreationEnds ==
  /\ \E call \in hbCalls :
       /\ call.at = "syncing"
       /\ hbAt.page = "hub" => hbDetails[hbAt.event].read = "none"
       /\ hbCalls' = hbCalls \ {call}
       /\ IF MovesUser(call) THEN ShowPage(Hub(call.event), FALSE) /\ hbBy' = "creation"
          ELSE UNCHANGED <<hbDetails, hbpage>>
  /\ UNCHANGED <<hbServer, hbLatest, hbWish, hbMoved, hbFaulted>>
CreationFails ==
  /\ HbFault
  /\ \E call \in hbCalls :
       /\ call.at \in {"sent", "made"}
       /\ hbCalls' = hbCalls \ {call}
       /\ hbForm' = IF call.mount = hbMount THEN [hbForm EXCEPT !.error = TRUE] ELSE hbForm
  /\ UNCHANGED <<hbServer, hbcached, hbAt, hbSettled, hbMount, hbBy, hbWish, hbMoved>>
-----------------------------------------------------------------------------
(* Other members create, record in and delete held events; reads end.        *)
OthersChangeEvents ==
  /\ HbFault
  /\ \E e \in HbEvents :
       \/ e \notin hbServer.events /\ hbServer' = [hbServer EXCEPT !.events = @ \cup {e}]
       \/ e \in hbServer.events \ hbServer.recorded
          /\ \E running \in {{}, {e}} :
               hbServer' = [hbServer EXCEPT !.recorded = @ \cup {e}, !.running = @ \cup running]
       \/ e \in hbServer.running /\ hbServer' = [hbServer EXCEPT !.running = @ \ {e}]
       \/ e \in hbServer.events \ hbServer.recorded
          /\ hbServer' = [hbServer EXCEPT !.events = @ \ {e}]
  /\ UNCHANGED <<hbcached, hbpage, hbCalls, hbWish, hbMoved>>

HbInit ==
  /\ \E recorded \in SUBSET HbStart : \E running \in SUBSET recorded :
       hbServer = [events |-> HbStart, recorded |-> recorded, running |-> running]
  /\ hbDetails = [e \in HbEvents |-> NoDetail]
  /\ hbLatest = [known |-> FALSE, event |-> NoEvent, read |-> "sent", answer |-> NoEvent,
                 failed |-> FALSE]
  /\ hbAt = EntryPage /\ hbSettled = [event |-> NoEvent, on |-> FALSE] /\ hbForm = NoForm
  /\ hbMount = 0 /\ hbCalls = {} /\ hbBy = "user" /\ hbWish = EntryPage
  /\ hbMoved = 0 /\ hbFaulted = 0
HbNext ==
  \/ OpenHistory \/ OpenListed \/ OpenAdjacent \/ GoBackToHub \/ OpenEntry \/ RetryEntry
  \/ ServeLatest \/ LatestArrives \/ LatestFails \/ UserRefreshesHub \/ RecheckHub \/ HubArrives
  \/ HubFails \/ OpenCreation \/ CloseCreation \/ SubmitCreation \/ ServeHubCreation
  \/ CreationMade \/ CreationEnds \/ CreationFails \/ OthersChangeEvents

HbTypeOK ==
  /\ hbServer.events \subseteq HbEvents /\ hbServer.running \subseteq hbServer.recorded
  /\ hbAt \in {EntryPage, HistoryPage} \cup {Hub(e) : e \in HbEvents}
  /\ hbForm \in [open : BOOLEAN, error : BOOLEAN, made : HbEvents \cup {NoEvent}]
  /\ hbBy \in {"user", "entry", "old entry", "creation"}
  /\ hbMoved \in 0..HbMoves /\ hbFaulted \in 0..HbFaults

(* Code behaviour: a creation takes the user to the event it made only if it *)
(* is what he asked for last; he is not taken from a page he opened since.   *)
MovedWhereMeant == hbBy = "creation" => hbWish = "creation"

(* Code behaviour: the notice of a failed refresh stays while it is repeated *)
(* and is never that of another hub or of a read that has succeeded since.   *)
NoticeIsOwn == StaleShown => hbDetails[hbAt.event].failed
==============================================================================
