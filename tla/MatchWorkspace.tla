--------------------------- MODULE MatchWorkspace ---------------------------
(***************************************************************************)
(* The workspace that records one match (features/matches/workspace): its  *)
(* initial values and the conditions it fills, the input kept in the tab's *)
(* session storage, recovery, the trip to the masters page and back, the   *)
(* confirmation dialog and the three writes with their idempotency keys    *)
(* and conflicts.  One workspace key of one account is modelled; a reload  *)
(* keeps the session storage and loses everything else.                    *)
(*                                                                         *)
(* A form is [no, map, text, rev]: the number in the held event, the map   *)
(* (it stands for every condition filled by the same rule), what the user  *)
(* typed (0 is what was read, each typed input is a new number) and the    *)
(* version an edit started from.                                           *)
(***************************************************************************)
EXTENDS Naturals, Sequences, FiniteSets

CONSTANTS WsModes,      \* subset of {"create", "review", "edit"}
          WsMaps,       \* the maps of the title that can be registered
          MaxText,      \* how many inputs the user types
          MaxElsewhere, \* how often others record, edit or confirm
          MaxKeys       \* how many idempotency keys are drawn

ASSUME WorkspaceAssumption ==
  /\ WsModes \subseteq {"create", "review", "edit"}
  /\ {MaxText, MaxElsewhere, MaxKeys} \subseteq Nat

NoMap == "none"
Nothing == [none |-> TRUE]

VARIABLES wsMode,     \* which workspace the tab holds
          wsServer,   \* [maps, count, prev, draft, match, done, others]
          wsStored,   \* the session storage entry of this workspace
          wsStorage,  \* whether sessionStorage accepts writes
          wsPage,     \* where the tab is, and the mounted workspace
          wsOrphans,  \* requests whose sender is gone or gave up
          wsRecords,  \* texts the server recorded from this tab, in order
          wsTyped,    \* how many inputs were typed
          wsNextKey   \* the next idempotency key

wsvars == <<wsMode, wsServer, wsStored, wsStorage, wsPage, wsOrphans, wsRecords,
            wsTyped, wsNextKey>>

Out == [at |-> "out"]
OpenForm == wsPage.at = "form"

-----------------------------------------------------------------------------
(* Initial values.                                                         *)

\* The one candidate a list names, if it names exactly one.
OnlyCandidate(candidates) ==
  IF Cardinality(candidates) = 1 THEN CHOOSE m \in candidates : TRUE ELSE NoMap

\* The conditions still empty follow the previous match, else a lone candidate.
FillRecordSetup(map, previous, candidates) ==
  IF map # NoMap THEN map
  ELSE IF previous # NoMap THEN previous ELSE OnlyCandidate(candidates)

\* A review of a draft that already has its held event reads no previous match.
PreviousSetup == IF wsMode = "create" THEN wsServer.prev ELSE NoMap

SetupFill(map) ==
  IF wsMode = "edit" THEN map
  ELSE FillRecordSetup(map, PreviousSetup, wsServer.maps)

BuildInitialValues ==
  CASE wsMode = "edit"   -> wsServer.match
    [] wsMode = "create" -> [no |-> wsServer.count + 1, map |-> SetupFill(NoMap),
                             text |-> 0, rev |-> 0]
    [] wsMode = "review" -> [no |-> 1, map |-> SetupFill(wsServer.draftMap),
                             text |-> 0, rev |-> 0]

ConfirmedDraftLoaded == wsMode = "review" /\ wsServer.draft = "confirmed"

-----------------------------------------------------------------------------
(* The session draft.                                                      *)

SessionDraft(page, resume) ==
  [values |-> page.values, baseline |-> page.base, resume |-> resume]

\* A stored input is offered only to the values it started from.
Recovery(baseline) ==
  IF wsStored # Nothing /\ wsStored.baseline = baseline THEN wsStored ELSE Nothing

Dirty(page) == page.values # page.base

\* The effect after each commit of the form: nothing while a recovery waits.
StoredAfter(page, stored) ==
  CASE page.recovery # Nothing -> stored
    [] page.recovery = Nothing /\ ~Dirty(page) -> Nothing
    [] page.recovery = Nothing /\ Dirty(page) ->
         IF wsStorage THEN SessionDraft(page, FALSE) ELSE stored

\* A recovery saved for the masters trip is restored without asking.
RestoreRecovery(page) ==
  [page EXCEPT !.values = page.recovery.values, !.recovery = Nothing]

MountedForm ==
  LET base == BuildInitialValues
      page == [at |-> "form", values |-> base, base |-> base,
               recovery |-> Recovery(base), confirmOpen |-> FALSE, cancelOpen |-> FALSE,
               keys |-> {}, request |-> Nothing]
  IN IF page.recovery # Nothing /\ page.recovery.resume THEN RestoreRecovery(page) ELSE page

-----------------------------------------------------------------------------
Busy == OpenForm /\ wsPage.request # Nothing
Editable == OpenForm /\ ~Busy /\ ~wsPage.confirmOpen /\ ~wsPage.cancelOpen

\* Commit an edit: the new page and the storage the effect leaves.
Commit(page) ==
  /\ wsPage' = page
  /\ wsStored' = StoredAfter(page, wsStored)

\* Opening the workspace; a draft confirmed meanwhile redirects to its match.
OpenWorkspace ==
  /\ wsPage.at = "out"
  /\ wsServer.draft # "cancelled"
  /\ IF ConfirmedDraftLoaded
       THEN wsStored' = Nothing /\ UNCHANGED wsPage
       ELSE Commit(MountedForm)
  /\ UNCHANGED <<wsMode, wsServer, wsStorage, wsOrphans, wsRecords, wsTyped, wsNextKey>>

TypeInput ==
  /\ Editable
  /\ wsTyped < MaxText
  /\ wsTyped' = wsTyped + 1
  /\ Commit([wsPage EXCEPT !.values.text = wsTyped + 1])
  /\ UNCHANGED <<wsMode, wsServer, wsStorage, wsOrphans, wsRecords, wsNextKey>>

UndoInput ==
  /\ Editable
  /\ wsPage.values.text # wsPage.base.text
  /\ Commit([wsPage EXCEPT !.values.text = wsPage.base.text])
  /\ UNCHANGED <<wsMode, wsServer, wsStorage, wsOrphans, wsRecords, wsTyped, wsNextKey>>

ChooseMap ==
  /\ Editable
  /\ \E m \in wsServer.maps \ {wsPage.values.map} :
       Commit([wsPage EXCEPT !.values.map = m])
  /\ UNCHANGED <<wsMode, wsServer, wsStorage, wsOrphans, wsRecords, wsTyped, wsNextKey>>

\* A list read again can still name the only candidate of an empty condition.
FillLater ==
  /\ OpenForm
  /\ wsPage.values.map # SetupFill(wsPage.values.map)
  /\ Commit([wsPage EXCEPT !.values.map = SetupFill(wsPage.values.map)])
  /\ UNCHANGED <<wsMode, wsServer, wsStorage, wsOrphans, wsRecords, wsTyped, wsNextKey>>

RestoreStored ==
  /\ Editable
  /\ wsPage.recovery # Nothing
  /\ Commit(RestoreRecovery(wsPage))
  /\ UNCHANGED <<wsMode, wsServer, wsStorage, wsOrphans, wsRecords, wsTyped, wsNextKey>>

DiscardStored ==
  /\ Editable
  /\ wsPage.recovery # Nothing
  /\ wsPage' = [wsPage EXCEPT !.recovery = Nothing]
  /\ wsStored' = StoredAfter(wsPage', Nothing)
  /\ UNCHANGED <<wsMode, wsServer, wsStorage, wsOrphans, wsRecords, wsTyped, wsNextKey>>

-----------------------------------------------------------------------------
(* Leaving.                                                                *)

\* Orphan the request of a page that goes away before its answer.
Abandon(page) ==
  IF page.at = "form" /\ page.request # Nothing /\ page.request.stage = "sent"
    THEN wsOrphans \cup {[page.request EXCEPT !.stage = "orphan"]} ELSE wsOrphans

SaveBeforeLeave(resume) == SessionDraft(wsPage, resume)

\* In the app: blocked while a write runs, and while unsaved input cannot be kept.
LeavePage ==
  /\ OpenForm
  /\ ~Busy
  /\ IF Dirty(wsPage)
       THEN wsStorage /\ wsStored' = SaveBeforeLeave(FALSE)
       ELSE UNCHANGED wsStored
  /\ wsPage' = Out
  /\ UNCHANGED <<wsMode, wsServer, wsStorage, wsOrphans, wsRecords, wsTyped, wsNextKey>>

\* The dialog of the guard, shown when the input cannot be kept.
DiscardAndLeave ==
  /\ OpenForm
  /\ ~Busy
  /\ Dirty(wsPage)
  /\ ~wsStorage
  /\ wsStored' = Nothing
  /\ wsPage' = Out
  /\ UNCHANGED <<wsMode, wsServer, wsStorage, wsOrphans, wsRecords, wsTyped, wsNextKey>>

\* The tab is reloaded: beforeunload saves once more unless a write runs.
ReloadTab ==
  /\ OpenForm
  /\ wsStored' = IF ~Busy /\ Dirty(wsPage) /\ wsStorage THEN SaveBeforeLeave(FALSE) ELSE wsStored
  /\ wsPage' = Out
  /\ wsOrphans' = Abandon(wsPage)
  /\ UNCHANGED <<wsMode, wsServer, wsStorage, wsRecords, wsTyped, wsNextKey>>

\* Two hours later the stored input is no longer read.
ExpireStored ==
  /\ wsPage.at = "out"
  /\ wsStored # Nothing
  /\ wsStored' = Nothing
  /\ UNCHANGED <<wsMode, wsServer, wsStorage, wsPage, wsOrphans, wsRecords, wsTyped, wsNextKey>>

\* To the masters page, only once the input is kept to be resumed.
GoToMasters ==
  /\ Editable
  /\ wsMode \in {"create", "review"}
  /\ wsStorage
  /\ wsStored' = SaveBeforeLeave(TRUE)
  /\ wsPage' = [at |-> "masters", left |-> wsPage.values]
  /\ UNCHANGED <<wsMode, wsServer, wsStorage, wsOrphans, wsRecords, wsTyped, wsNextKey>>

AddMap ==
  /\ wsPage.at = "masters"
  /\ \E m \in WsMaps \ wsServer.maps : wsServer' = [wsServer EXCEPT !.maps = @ \cup {m}]
  /\ UNCHANGED <<wsMode, wsStored, wsStorage, wsPage, wsOrphans, wsRecords, wsTyped, wsNextKey>>

\* The browser's back button mounts the same workspace again.
BackFromMasters ==
  /\ wsPage.at = "masters"
  /\ IF ConfirmedDraftLoaded
       THEN wsStored' = Nothing /\ wsPage' = Out
       ELSE Commit(MountedForm)
  /\ UNCHANGED <<wsMode, wsServer, wsStorage, wsOrphans, wsRecords, wsTyped, wsNextKey>>

-----------------------------------------------------------------------------
(* Writes.                                                                 *)

\* The same request keeps its key until it succeeds.
KeyFor(payload) ==
  LET known == {k \in wsPage.keys : k.payload = payload}
  IN IF known # {} THEN (CHOOSE k \in known : TRUE).key ELSE wsNextKey

Send(kind) ==
  LET payload == [kind |-> kind, values |-> IF kind = "cancel" THEN Nothing ELSE wsPage.values]
      key == KeyFor(payload)
  IN /\ key <= MaxKeys
     /\ wsNextKey' = IF key = wsNextKey THEN wsNextKey + 1 ELSE wsNextKey
     /\ wsPage' = [wsPage EXCEPT !.keys = @ \cup {[payload |-> payload, key |-> key]},
                                 !.request = [payload |-> payload, key |-> key,
                                              stage |-> "sent"]]

\* The primary action: an edit is saved at once, a record is confirmed first.
PrimaryAction ==
  /\ Editable
  /\ wsPage.values.map # NoMap
  /\ IF wsMode = "edit"
       THEN Send("update")
       ELSE wsPage' = [wsPage EXCEPT !.confirmOpen = TRUE] /\ UNCHANGED wsNextKey
  /\ UNCHANGED <<wsMode, wsServer, wsStored, wsStorage, wsOrphans, wsRecords, wsTyped>>

ConfirmRecord ==
  /\ OpenForm /\ ~Busy
  /\ wsPage.confirmOpen
  /\ Send("confirm")
  /\ UNCHANGED <<wsMode, wsServer, wsStored, wsStorage, wsOrphans, wsRecords, wsTyped>>

CloseMatchDialog ==
  /\ OpenForm /\ ~Busy
  /\ wsPage.confirmOpen \/ wsPage.cancelOpen
  /\ wsPage' = [wsPage EXCEPT !.confirmOpen = FALSE, !.cancelOpen = FALSE]
  /\ UNCHANGED <<wsMode, wsServer, wsStored, wsStorage, wsOrphans, wsRecords, wsTyped, wsNextKey>>

OpenCancellation ==
  /\ Editable
  /\ wsMode = "review"
  /\ wsPage' = [wsPage EXCEPT !.cancelOpen = TRUE]
  /\ UNCHANGED <<wsMode, wsServer, wsStored, wsStorage, wsOrphans, wsRecords, wsTyped, wsNextKey>>

CancelDraftConfirmed ==
  /\ OpenForm /\ ~Busy
  /\ wsPage.cancelOpen
  /\ Send("cancel")
  /\ UNCHANGED <<wsMode, wsServer, wsStored, wsStorage, wsOrphans, wsRecords, wsTyped>>

-----------------------------------------------------------------------------
(* The server, as the requests of this tab see it.                         *)

\* A confirmation that does not look for a match of the same number.
ConfirmAllowedAgain(values) == wsMode = "review" => wsServer.draft = "open"

ConfirmAllowed(values) ==
  /\ values.no = wsServer.count + 1
  /\ wsMode = "review" => wsServer.draft = "open"

UpdateAllowed(values) == values.rev = wsServer.match.rev

Accepts(r) ==
  CASE r.payload.kind = "confirm" -> ConfirmAllowed(r.payload.values)
    [] r.payload.kind = "update"  -> UpdateAllowed(r.payload.values)
    [] r.payload.kind = "cancel"  -> wsServer.draft = "open"

\* What accepting r does to the server, with its idempotency record.
Applied(r) ==
  LET done == [wsServer EXCEPT !.done = @ \cup {r.key}] IN
  CASE r.payload.kind = "confirm" ->
         [done EXCEPT !.count = @ + 1, !.prev = r.payload.values.map,
                      !.draft = IF wsMode = "review" THEN "confirmed" ELSE @]
    [] r.payload.kind = "update" ->
         [done EXCEPT !.match = [r.payload.values EXCEPT !.rev = @ + 1]]
    [] r.payload.kind = "cancel" -> [done EXCEPT !.draft = "cancelled"]

\* A key already answered replays its answer; otherwise accept or refuse.
Perform(r) ==
  IF r.key \notin wsServer.done /\ Accepts(r)
    THEN /\ wsServer' = Applied(r)
         /\ wsRecords' = IF r.payload.kind = "cancel" THEN wsRecords
                         ELSE Append(wsRecords, r.payload.values)
    ELSE UNCHANGED <<wsServer, wsRecords>>

ServerAnswers ==
  /\ Busy
  /\ wsPage.request.stage = "sent"
  /\ Perform(wsPage.request)
  /\ wsPage' = [wsPage EXCEPT !.request.stage =
                 IF wsPage.request.key \in wsServer'.done THEN "ok" ELSE "conflict"]
  /\ UNCHANGED <<wsMode, wsStored, wsStorage, wsOrphans, wsTyped, wsNextKey>>

\* The connection breaks: the request may still arrive.
ConnectionLost ==
  /\ Busy
  /\ wsPage.request.stage \in {"sent", "ok"}
  /\ wsOrphans' = Abandon(wsPage)
  /\ wsPage' = [wsPage EXCEPT !.request.stage = "failed"]
  /\ UNCHANGED <<wsMode, wsServer, wsStored, wsStorage, wsRecords, wsTyped, wsNextKey>>

OrphanArrives ==
  /\ \E r \in wsOrphans : Perform(r) /\ wsOrphans' = wsOrphans \ {r}
  /\ UNCHANGED <<wsMode, wsStored, wsStorage, wsPage, wsTyped, wsNextKey>>

OrphanIsLost ==
  /\ \E r \in wsOrphans : wsOrphans' = wsOrphans \ {r}
  /\ UNCHANGED <<wsMode, wsServer, wsStored, wsStorage, wsPage, wsRecords, wsTyped, wsNextKey>>

\* A reconciled write ends the session draft and leaves for the result.
WriteSaved ==
  /\ Busy
  /\ wsPage.request.stage = "ok"
  /\ wsStored' = Nothing
  /\ wsPage' = Out
  /\ UNCHANGED <<wsMode, wsServer, wsStorage, wsOrphans, wsRecords, wsTyped, wsNextKey>>

\* A conflict on a draft reads it again: a confirmed one leaves for its match.
RedirectOnConflict ==
  /\ Busy
  /\ wsPage.request.stage = "conflict"
  /\ wsPage.request.payload.kind = "confirm"
  /\ ConfirmedDraftLoaded
  /\ wsStored' = Nothing
  /\ wsPage' = Out
  /\ UNCHANGED <<wsMode, wsServer, wsStorage, wsOrphans, wsRecords, wsTyped, wsNextKey>>

\* Any other failure keeps the input, and the key for a retry.
WriteFailed ==
  /\ Busy
  /\ wsPage.request.stage \in {"failed", "conflict"}
  /\ ~(wsPage.request.stage = "conflict" /\ wsPage.request.payload.kind = "confirm"
         /\ ConfirmedDraftLoaded)
  /\ wsPage' = [wsPage EXCEPT !.request = Nothing, !.confirmOpen = FALSE]
  /\ UNCHANGED <<wsMode, wsServer, wsStored, wsStorage, wsOrphans, wsRecords, wsTyped, wsNextKey>>

\* Others record a match of the event, edit the match or confirm the draft.
OthersAct ==
  /\ wsServer.others < MaxElsewhere
  /\ LET next == [wsServer EXCEPT !.others = @ + 1] IN
       \/ /\ wsMode = "create"
          /\ \E m \in wsServer.maps : wsServer' = [next EXCEPT !.count = @ + 1, !.prev = m]
       \/ /\ wsMode = "edit"
          /\ wsServer' = [next EXCEPT !.match.rev = @ + 1]
       \/ /\ wsMode = "review"
          /\ wsServer.draft = "open"
          /\ wsServer' = [next EXCEPT !.draft = "confirmed", !.count = @ + 1]
  /\ UNCHANGED <<wsMode, wsStored, wsStorage, wsPage, wsOrphans, wsRecords, wsTyped, wsNextKey>>

-----------------------------------------------------------------------------
WorkspaceInit ==
  /\ wsMode \in WsModes
  /\ \E maps \in SUBSET WsMaps, saved, draftMap, prev \in WsMaps \cup {NoMap} :
       /\ {saved, draftMap, prev} \ {NoMap} \subseteq maps
       /\ wsMode # "review" => draftMap = NoMap
       /\ wsMode # "create" => prev = NoMap
       /\ wsMode = "edit" <=> saved # NoMap
       /\ wsServer = [maps |-> maps, count |-> 0, prev |-> prev, draft |-> "open",
                      draftMap |-> draftMap, done |-> {}, others |-> 0,
                      match |-> [no |-> 1, map |-> saved, text |-> 0, rev |-> 1]]
  /\ wsStored = Nothing
  /\ wsStorage \in BOOLEAN
  /\ wsPage = Out
  /\ wsOrphans = {}
  /\ wsRecords = << >>
  /\ wsTyped = 0
  /\ wsNextKey = 1

WorkspaceNext ==
  \/ OpenWorkspace \/ TypeInput \/ UndoInput \/ ChooseMap \/ FillLater
  \/ RestoreStored \/ DiscardStored
  \/ LeavePage \/ DiscardAndLeave \/ ReloadTab \/ ExpireStored
  \/ GoToMasters \/ AddMap \/ BackFromMasters
  \/ PrimaryAction \/ ConfirmRecord \/ CloseMatchDialog \/ OpenCancellation \/ CancelDraftConfirmed
  \/ ServerAnswers \/ ConnectionLost \/ OrphanArrives \/ OrphanIsLost
  \/ WriteSaved \/ RedirectOnConflict \/ WriteFailed \/ OthersAct

WorkspaceSpec == WorkspaceInit /\ [][WorkspaceNext]_wsvars

-----------------------------------------------------------------------------
FormType == [no : Nat, map : WsMaps \cup {NoMap}, text : 0..MaxText, rev : Nat]

WorkspaceTypeOK ==
  /\ wsMode \in WsModes
  /\ wsPage.at \in {"out", "form", "masters"}
  /\ OpenForm => wsPage.values \in FormType /\ wsPage.base \in FormType
  /\ wsStored # Nothing => wsStored.values \in FormType
  /\ \A i \in DOMAIN wsRecords : wsRecords[i] \in FormType

\* An input the user typed is recorded once, whatever is lost, retried,
\* reloaded, resumed or recorded elsewhere in between.
NoInputRecordedTwice ==
  wsMode # "edit" =>
    \A i, j \in DOMAIN wsRecords :
      i # j /\ wsRecords[i].text = wsRecords[j].text => wsRecords[i].text = 0

\* A workspace never opens offering, or resuming, an input already recorded.
OffersNothingRecorded ==
  wsPage.at # "form" /\ wsPage'.at = "form" =>
    \A i \in DOMAIN wsRecords :
      wsRecords[i].text # 0 =>
        /\ wsPage'.values # wsRecords[i]
        /\ wsPage'.recovery # Nothing => wsPage'.recovery.values # wsRecords[i]

\* Code behaviour: an input is recorded once, whatever is lost, retried or
\* resumed (matchFormKey, the idempotency keys and the stored input), and an
\* input already recorded is not offered again.
InputRecordedOnce == [][NoInputRecordedTwice' /\ OffersNothingRecorded]_wsvars

\* base.md: after the masters trip the browser's back button restores the same
\* work's input, unless others changed what the workspace starts from.
BackRestoresInput ==
  [][/\ wsPage.at = "masters" /\ wsPage'.at = "form" /\ wsServer.others = 0 /\ wsOrphans = {}
     => wsPage'.values.text = wsPage.left.text]_wsvars
=============================================================================
