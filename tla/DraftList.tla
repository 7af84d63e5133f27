------------------------------- MODULE DraftList -------------------------------
(***************************************************************************)
(* The page of unconfirmed drafts (features/matches/drafts): its list with *)
(* the rechecks while images are read, continuing a draft after a fresh    *)
(* look at it, and cancelling one, while workers and other members change  *)
(* the same drafts and the user comes and goes.                            *)
(*                                                                         *)
(* "ready" stands for every status that is reviewed; the page of the list  *)
(* and the time limit of rechecks are left out (a recheck may always be    *)
(* the last one).                                                          *)
(***************************************************************************)
EXTENDS Naturals, FiniteSets

CONSTANTS DlDrafts,           \* the drafts
          DlMoves, DlFaults   \* bounds: inputs; failures and others' changes

VARIABLES dlServer,    \* the status of each draft at the API
          dlStored,    \* drafts cancelled under a key the page still holds
          dlList,      \* the cached list
          dlListRead,  \* its read
          dlHere, dlTo,       \* where the user is, and the draft that took him there
          dlOwner, dlErrors,  \* of the current visit: checks, the last intent, failures
          dlRuns,      \* checks waiting for a read, of any visit
          dlReading,   \* the read of each draft
          dlDialog,    \* the confirmation of a removal
          dlCalls,     \* removals under way
          dlGone, dlAsked,    \* drafts reported as removed; the draft asked for last
          dlVisit, dlMoved, dlFaulted

dlreads == <<dlList, dlListRead, dlReading>>
dlpage == <<dlHere, dlTo, dlOwner, dlErrors, dlAsked, dlVisit>>
dlvars == <<dlServer, dlStored, dlreads, dlpage, dlRuns, dlDialog, dlCalls, dlGone, dlMoved,
            dlFaulted>>

NoRow == "no draft"
Unlisted == [d \in DlDrafts |-> "absent"]
NoListRead == [at |-> "none", by |-> "check", rows |-> Unlisted]
NewList == [NoListRead EXCEPT !.at = "sent"]
NoDraftRead == [at |-> "none", status |-> "absent"]
NoRemoval == [draft |-> NoRow, at |-> "no"]
NewOwner == [checking |-> {}, latest |-> NoRow]
DlCount == dlMoved < DlMoves /\ dlMoved' = dlMoved + 1
DlFault == dlFaulted < DlFaults /\ dlFaulted' = dlFaulted + 1
-----------------------------------------------------------------------------
(* The rows: what can be done with a draft, by the status the list shows.    *)
groupOf(status) == CASE status = "ready" -> "action" [] status = "failed" -> "failed"
                     [] status = "running" -> "running" [] OTHER -> "none"
primaryAction(status) ==
  CASE status = "ready" -> "review" [] status = "failed" -> "manual" [] OTHER -> "none"
Cancelable(status) == status \in {"running", "failed", "ready"}
confirmedDraftDestination(status) == status = "confirmed"
runningReadsOf(rows) == {d \in DlDrafts : rows[d] = "running"}
DraftRows(server) ==
  [d \in DlDrafts |-> IF groupOf(server[d]) = "none" THEN "absent" ELSE server[d]]

\* A row's dialog stays while the row stays in its group of a page that is open.
DialogKept(dialog, list, here) ==
  IF here = "list" /\ dialog.draft # NoRow
     /\ groupOf(list.rows[dialog.draft]) = groupOf(dlList.rows[dialog.draft])
  THEN dialog ELSE NoRemoval
DlShown(list, dialog) == dlList' = list /\ dlDialog' = DialogKept(dialog, list, dlHere)
-----------------------------------------------------------------------------
(* The list: first read, rechecks while it shows running reads, the user's   *)
(* refresh, and answers.                                                     *)
FetchList ==
  /\ dlHere = "list" /\ dlListRead.at = "none"
  /\ ~dlList.read \/ (runningReadsOf(dlList.rows) # {} /\ ~dlList.failed)
  /\ dlListRead' = NewList
  /\ UNCHANGED <<dlServer, dlStored, dlList, dlReading, dlpage, dlRuns, dlDialog, dlCalls, dlGone,
                 dlMoved, dlFaulted>>
\* The refresh is offered once the list or its failure is shown, and during rechecks.
RefreshOffered ==
  IF dlListRead.at = "none" THEN dlList.read \/ dlList.failed
  ELSE dlListRead.by = "check" /\ dlList.read /\ runningReadsOf(dlList.rows) # {}
UserRefresh ==
  /\ dlHere = "list" /\ dlDialog.at = "no" /\ RefreshOffered /\ DlCount
  /\ dlListRead' = [NewList EXCEPT !.by = "user"]
  /\ UNCHANGED <<dlServer, dlStored, dlList, dlReading, dlpage, dlRuns, dlDialog, dlCalls, dlGone,
                 dlFaulted>>
ServeList ==
  /\ dlListRead.at = "sent"
  /\ dlListRead' = [dlListRead EXCEPT !.at = "served", !.rows = DraftRows(dlServer)]
  /\ UNCHANGED <<dlServer, dlStored, dlList, dlReading, dlpage, dlRuns, dlDialog, dlCalls, dlGone,
                 dlMoved, dlFaulted>>
ListArrives ==
  /\ dlListRead.at = "served"
  /\ DlShown([read |-> TRUE, failed |-> FALSE, rows |-> dlListRead.rows], dlDialog)
  /\ dlListRead' = NoListRead
  /\ UNCHANGED <<dlServer, dlStored, dlReading, dlpage, dlRuns, dlCalls, dlGone, dlMoved,
                 dlFaulted>>
ListFails ==
  /\ dlListRead.at # "none" /\ DlFault
  /\ dlList' = [dlList EXCEPT !.failed = TRUE]
  /\ dlListRead' = NoListRead
  /\ UNCHANGED <<dlServer, dlStored, dlReading, dlpage, dlRuns, dlDialog, dlCalls, dlGone,
                 dlMoved>>
-----------------------------------------------------------------------------
(* Continuing a draft: its latest status decides where the user goes, and    *)
(* only for what he asked last on the visit he asked it on.                  *)
readLatest(d) ==
  IF dlReading[d].at = "none" THEN [dlReading EXCEPT ![d] = [NoDraftRead EXCEPT !.at = "sent"]]
  ELSE dlReading
ContinueDraft ==
  /\ dlHere = "list" /\ dlDialog.at = "no" /\ DlCount
  /\ \E d \in DlDrafts :
       /\ primaryAction(dlList.rows[d]) # "none" /\ d \notin dlOwner.checking
       /\ dlOwner' = [checking |-> dlOwner.checking \cup {d}, latest |-> d]
       /\ dlErrors' = dlErrors \ {d}
       /\ dlRuns' = dlRuns \cup
            {[draft |-> d, visit |-> dlVisit, href |-> primaryAction(dlList.rows[d])]}
       /\ dlReading' = readLatest(d)
       /\ dlAsked' = d
  /\ UNCHANGED <<dlServer, dlStored, dlList, dlListRead, dlHere, dlTo, dlDialog, dlCalls, dlGone,
                 dlVisit, dlFaulted>>
ServeDraftStatus ==
  /\ \E d \in DlDrafts :
       /\ dlReading[d].at = "sent"
       /\ dlReading' = [dlReading EXCEPT ![d] = [at |-> "served", status |-> dlServer[d]]]
  /\ UNCHANGED <<dlServer, dlStored, dlList, dlListRead, dlpage, dlRuns, dlDialog, dlCalls, dlGone,
                 dlMoved, dlFaulted>>
ownsRun(run) == dlHere = "list" /\ run.visit = dlVisit
ownsNavigation(run) == ownsRun(run) /\ dlOwner.latest = run.draft

OutOfDate(list) == [list EXCEPT !.read = FALSE]  \* a confirmation was recorded

\* The read of a draft ends: with its status, or failed (a draft that is gone
\* cannot be read).  Every run that waited for it goes on.
CheckEnds(d, failed) ==
  LET runs == {run \in dlRuns : run.draft = d}
      failing == failed \/ dlReading[d].status = "gone"
      going == {run \in runs : ownsNavigation(run)}
      confirmed == confirmedDraftDestination(dlReading[d].status)
  IN /\ dlReading' = [dlReading EXCEPT ![d] = NoDraftRead]
     /\ dlRuns' = dlRuns \ runs
     /\ IF going # {} /\ ~failing
        THEN /\ dlHere' = IF confirmed THEN "match" ELSE (CHOOSE run \in going : TRUE).href
             /\ dlTo' = d /\ dlOwner' = NewOwner /\ dlErrors' = {}
             /\ dlDialog' = NoRemoval /\ dlListRead' = NoListRead
             /\ dlList' = IF confirmed THEN OutOfDate(dlList) ELSE dlList
        ELSE /\ dlErrors' = IF going # {} THEN dlErrors \cup {d} ELSE dlErrors
             /\ dlOwner' = IF \E run \in runs : ownsRun(run)
                           THEN [dlOwner EXCEPT !.checking = @ \ {d}] ELSE dlOwner
             /\ UNCHANGED <<dlHere, dlTo, dlDialog, dlListRead, dlList>>
     /\ UNCHANGED <<dlServer, dlStored, dlAsked, dlVisit, dlCalls, dlGone, dlMoved>>
DraftArrives ==
  \E d \in DlDrafts : dlReading[d].at = "served" /\ CheckEnds(d, FALSE) /\ UNCHANGED dlFaulted
DraftFails == \E d \in DlDrafts : dlReading[d].at # "none" /\ CheckEnds(d, TRUE) /\ DlFault
-----------------------------------------------------------------------------
(* Leaving the page ends its visit, its keys and its read; so does the link  *)
(* to the page itself, which keeps the page but starts another visit.        *)
LeaveDrafts ==
  /\ dlHere = "list" /\ dlDialog.at = "no" /\ DlCount
  /\ dlHere' = "away" /\ dlTo' = NoRow
  /\ dlOwner' = NewOwner /\ dlErrors' = {} /\ dlListRead' = NoListRead /\ dlStored' = {}
  /\ UNCHANGED <<dlServer, dlList, dlReading, dlRuns, dlDialog, dlCalls, dlGone, dlAsked, dlVisit,
                 dlFaulted>>
VisitDrafts ==
  /\ dlDialog.at = "no" /\ DlCount
  /\ dlHere' = "list" /\ dlTo' = NoRow /\ dlVisit' = dlVisit + 1
  /\ dlOwner' = NewOwner /\ dlErrors' = {} /\ dlAsked' = NoRow
  /\ \E fresh \in {dlHere = "list", TRUE} :  \* a list that is old is read again
       dlListRead' = IF fresh THEN dlListRead ELSE NewList
  /\ dlStored' = IF dlHere = "list" THEN dlStored ELSE {}
  /\ UNCHANGED <<dlServer, dlList, dlReading, dlRuns, dlDialog, dlCalls, dlGone, dlFaulted>>
-----------------------------------------------------------------------------
(* Cancelling a draft.  Its confirmation cannot be closed while it is sent.  *)
AskRemoval ==
  /\ dlHere = "list" /\ dlDialog.at = "no" /\ DlCount
  /\ \E d \in DlDrafts : /\ Cancelable(dlList.rows[d]) /\ d \notin dlOwner.checking
                         /\ dlDialog' = [draft |-> d, at |-> "asked"]
  /\ UNCHANGED <<dlServer, dlStored, dlreads, dlpage, dlRuns, dlCalls, dlGone, dlFaulted>>
DismissRemoval ==
  /\ dlDialog.at = "asked" /\ dlDialog' = NoRemoval
  /\ UNCHANGED <<dlServer, dlStored, dlreads, dlpage, dlRuns, dlCalls, dlGone, dlMoved, dlFaulted>>
ConfirmRemoval ==
  /\ dlDialog.at = "asked" /\ dlCalls[dlDialog.draft] = "none" /\ DlCount
  /\ dlDialog' = [dlDialog EXCEPT !.at = "sent"]
  /\ dlCalls' = [dlCalls EXCEPT ![dlDialog.draft] = "sent"]
  /\ UNCHANGED <<dlServer, dlStored, dlreads, dlpage, dlRuns, dlGone, dlFaulted>>
ServeRemoval ==
  /\ \E d \in DlDrafts : dlCalls[d] = "sent" /\ \E lost \in BOOLEAN :
       LET replayed == d \in dlStored
           done == replayed \/ Cancelable(dlServer[d])
       IN /\ IF lost THEN DlFault ELSE UNCHANGED dlFaulted
          /\ dlServer' = IF done THEN [dlServer EXCEPT ![d] = "gone"] ELSE dlServer
          /\ dlStored' = IF done /\ dlHere = "list" THEN dlStored \cup {d} ELSE dlStored
          /\ dlCalls' = [dlCalls EXCEPT ![d] = IF done /\ ~lost THEN "done" ELSE "failed"]
  /\ UNCHANGED <<dlreads, dlpage, dlRuns, dlDialog, dlGone, dlMoved>>

\* The list loses the row at once: a read under way is cancelled so that it
\* cannot bring it back, and another one begins.
WithoutRow(d) == [dlList EXCEPT !.rows[d] = "absent"]
RenewedAfter(read) == IF read.at # "none" \/ dlHere # "list" THEN read ELSE NewList
Renewed(read) == IF dlHere = "list" THEN NewList ELSE NoListRead
RemovalDone ==
  /\ \E d \in DlDrafts :
       /\ dlCalls[d] = "done"
       /\ dlCalls' = [dlCalls EXCEPT ![d] = "none"]
       /\ dlStored' = dlStored \ {d}
       /\ dlGone' = dlGone \cup {d}
       /\ DlShown(WithoutRow(d), IF dlDialog.draft = d THEN NoRemoval ELSE dlDialog)
  /\ dlListRead' = Renewed(dlListRead)
  /\ UNCHANGED <<dlServer, dlReading, dlpage, dlRuns, dlMoved, dlFaulted>>
RemovalFails ==
  /\ \E d \in DlDrafts :
       /\ dlCalls[d] = "failed"
       /\ dlCalls' = [dlCalls EXCEPT ![d] = "none"]
       /\ dlDialog' = IF dlDialog.draft = d THEN [dlDialog EXCEPT !.at = "asked"] ELSE dlDialog
  /\ UNCHANGED <<dlServer, dlStored, dlreads, dlpage, dlRuns, dlGone, dlMoved, dlFaulted>>
-----------------------------------------------------------------------------
(* Workers finish reading; others confirm and cancel drafts.                 *)
DraftMoves ==
  /\ DlFault
  /\ \E d \in DlDrafts, status \in {"ready", "failed", "confirmed", "gone"} :
       /\ dlServer[d] \notin {"confirmed", "gone", status}
       /\ status \in {"ready", "failed"} => dlServer[d] = "running"
       /\ status = "confirmed" => dlServer[d] # "running"
       /\ dlServer' = [dlServer EXCEPT ![d] = status]
  /\ UNCHANGED <<dlStored, dlreads, dlpage, dlRuns, dlDialog, dlCalls, dlGone, dlMoved>>

DlInit ==
  /\ dlServer \in [DlDrafts -> {"ready", "failed", "running"}]
  /\ dlStored = {} /\ dlList = [read |-> FALSE, failed |-> FALSE, rows |-> Unlisted]
  /\ dlListRead = NoListRead /\ dlHere = "list" /\ dlTo = NoRow
  /\ dlOwner = NewOwner /\ dlErrors = {} /\ dlRuns = {}
  /\ dlReading = [d \in DlDrafts |-> NoDraftRead]
  /\ dlDialog = NoRemoval /\ dlCalls = [d \in DlDrafts |-> "none"]
  /\ dlGone = {} /\ dlAsked = NoRow /\ dlVisit = 1 /\ dlMoved = 0 /\ dlFaulted = 0
DlNext ==
  \/ FetchList \/ UserRefresh \/ ServeList \/ ListArrives \/ ListFails \/ ContinueDraft
  \/ ServeDraftStatus \/ DraftArrives \/ DraftFails \/ LeaveDrafts \/ VisitDrafts \/ AskRemoval
  \/ DismissRemoval \/ ConfirmRemoval \/ ServeRemoval \/ RemovalDone \/ RemovalFails
  \/ DraftMoves

DlTypeOK ==
  /\ dlHere \in {"list", "review", "manual", "match", "away"}
  /\ dlTo \in DlDrafts \cup {NoRow} /\ dlGone \subseteq DlDrafts
  /\ dlOwner.checking \subseteq DlDrafts /\ dlErrors \subseteq DlDrafts
  /\ \A d \in DlDrafts : dlCalls[d] \in {"none", "sent", "done", "failed"}
  /\ dlMoved \in 0..DlMoves /\ dlFaulted \in 0..DlFaults

(* Code behaviour: answers that come in any order take the user only to the  *)
(* draft he asked for last, and never away from a page he opened meanwhile.  *)
GoesWhereAskedLast == dlTo # NoRow => dlTo = dlAsked

(* Code behaviour: a row waits for a look at its draft only while one is     *)
(* under way for the visit that is shown.                                    *)
NoCheckIsForgotten ==
  \A d \in dlOwner.checking : \E run \in dlRuns : run.draft = d /\ ownsRun(run)

(* Code behaviour: a draft that was reported as removed is not listed again, *)
(* whatever reads were under way.                                            *)
RemovedStaysGone == \A d \in dlGone : dlList.rows[d] = "absent"
==============================================================================
