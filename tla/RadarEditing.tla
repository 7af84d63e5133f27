---------------------------- MODULE RadarEditing ----------------------------
(***************************************************************************)
(* Changing the scoring boundaries of one game title                       *)
(* (features/seriesAnalysisAdmin/radar): the editor and what it was opened  *)
(* from, the shared candidate it prepares, the comparison the Worker        *)
(* calculates, the confirmation and the application, with one command at a  *)
(* time, lost answers and their recovery under the same key, a permission   *)
(* check in between and other administrators.  All nine boundaries of all   *)
(* axes are one value; text composition and the debounced preview are not   *)
(* modelled.                                                                *)
(***************************************************************************)
EXTENDS Integers, FiniteSets

CONSTANTS RdValues,     \* boundaries that may be entered
          RdStart,      \* the applied boundaries at first
          RdCandidates, \* candidates that may be made
          RdPreviews,   \* comparisons that may be calculated
          RdFaults      \* interruptions and steps of other administrators

ASSUME RadarAssumption == /\ RdStart \in RdValues
                          /\ RdCandidates \in Nat /\ RdPreviews \in Nat /\ RdFaults \in Nat

RadarUnread == "unreadable input"
RadarIds == 1..RdCandidates
RadarLive == {"pending", "ready", "failed"}
NoComparison == [id |-> 0, cand |-> 0, before |-> 0, status |-> "none"]
NoOperation == [kind |-> "none", cand |-> 0, status |-> "none"]

VARIABLES rdServer,   \* the title's state at the API, see RadarStates
          rdRead,     \* [stage, state]: the state being read
          rdView,     \* the state the page holds
          rdPreview,  \* the comparison the page holds
          rdEdit,     \* the editing session
          rdSubmitted,\* the save whose receipt the editor waits for
          rdDialog,   \* [open, target]: the confirmation
          rdCall,     \* [stage, purpose, request]: the call on its way
          rdCommand,  \* [request, outcome, cand]: the last command until it is adopted
          rdAnswered, \* acceptances the key still held would replay
          rdAllowed,  \* the permission is confirmed
          rdCreated,  \* the candidate to open once it is ready, and the one opened
          rdFaultsSoFar

rdvars == <<rdServer, rdRead, rdView, rdPreview, rdEdit, rdSubmitted, rdDialog, rdCall,
            rdCommand, rdAnswered, rdAllowed, rdCreated, rdFaultsSoFar>>

NoRadarSource == [basis |-> 0, from |-> 0, value |-> RadarUnread, current |-> 0, expected |-> 0,
                  saved |-> 0]
NoRadarSaved == [cand |-> 0, value |-> RadarUnread]
NoRadarEdit == [on |-> FALSE, source |-> NoRadarSource, draft |-> RadarUnread, saved |-> NoRadarSaved,
           prepared |-> 0, confirmed |-> FALSE, preview |-> 0, changed |-> FALSE]
NoRadarTarget == [cand |-> 0, preview |-> 0, current |-> 0]
RadarDialogClosed == [open |-> FALSE, target |-> NoRadarTarget]
NoRadarCommand == [kind |-> "none", cand |-> 0, preview |-> 0, current |-> 0, expected |-> 0,
              basis |-> 0, from |-> 0, value |-> RadarUnread, owned |-> FALSE]
NoRadarCall == [stage |-> "idle", purpose |-> "none", request |-> NoRadarCommand, cand |-> 0]
NothingCommanded == [request |-> NoRadarCommand, outcome |-> "none", cand |-> 0]
NothingReadYet(state) == [stage |-> "idle", state |-> state]

-----------------------------------------------------------------------------
(* What the page derives from the state it holds.                          *)

LiveCandidate(view) == IF view.cand # 0 /\ view.status[view.cand] \in RadarLive THEN view.cand ELSE 0

CurrentSource(view) ==
  [basis |-> view.current, from |-> 0, value |-> view.value[view.current],
   current |-> view.current, expected |-> LiveCandidate(view), saved |-> 0]

\* A candidate saved by hand can be edited before it is ready; a generated one cannot.
CandidateSourceAvailable(view) ==
  /\ LiveCandidate(view) # 0
  /\ view.origin[view.cand].by # "generated" \/ view.status[view.cand] = "ready"
CandidateSource(view) ==
  LET origin == view.origin[view.cand]
      generated == origin.by = "generated"
  IN [basis |-> IF generated THEN view.cand ELSE origin.basis,
      from |-> IF generated THEN view.cand ELSE origin.from,
      value |-> view.value[view.cand], current |-> view.current,
      expected |-> view.cand, saved |-> view.cand]

\* A comparison is read under its own identity.
PreviewOf(view) == IF rdPreview.id = view.preview.id THEN rdPreview ELSE NoComparison
PreviewState(view, preview) ==
  IF preview.id = view.preview.id THEN preview.status ELSE view.preview.status
OperationInProgress(view) == view.op.status = "pending"
CommunicationUnknown == rdCommand.outcome = "unknown"
ConflictNeedsRefresh == rdCommand.outcome = "refused"
CommandPending == rdCall.stage # "idle"
BusyReason == ~rdAllowed \/ CommandPending \/ CommunicationUnknown
OperationReason == BusyReason \/ OperationInProgress(rdView)
SaveDisabled == OperationReason \/ ConflictNeedsRefresh
ApplyDisabled == \/ SaveDisabled \/ rdRead.stage # "idle"
                 \/ rdView.cand = 0 \/ rdView.status[rdView.cand] # "ready"
                 \/ PreviewState(rdView, rdPreview) # "ready" \/ rdPreview.id # rdView.preview.id

ContextChanged(edit, view) == edit.source.current # view.current
                              \/ edit.source.expected # LiveCandidate(view)
MatchesSaved(edit, view) == /\ edit.on /\ edit.draft # RadarUnread
                            /\ edit.saved.cand # 0 /\ edit.draft = edit.saved.value
                            /\ LiveCandidate(view) = edit.saved.cand
\* The calculated comparison of exactly this input, or 0.
FormalComparison(edit, view, preview) ==
  IF MatchesSaved(edit, view) /\ PreviewState(view, preview) = "ready" THEN view.preview.id ELSE 0
\* Whatever comparison there is counts as the confirmed one.
ConfirmedOnly(edit, view, preview, allowed) ==
  /\ edit.confirmed /\ PreviewState(view, preview) = "ready" /\ allowed
\* The page's own recalculation of the comparison is taken to agree with it.
CanApply(edit, view, preview, allowed) ==
  /\ edit.confirmed /\ FormalComparison(edit, view, preview) # 0
  /\ edit.preview \in {0, FormalComparison(edit, view, preview)}
  /\ ~ContextChanged(edit, view) /\ allowed
NoChangeFromCurrent == /\ ~MatchesSaved(rdEdit, rdView)
                       /\ rdEdit.draft = rdView.value[rdView.current]

CurrentTarget(view) ==
  IF view.cand # 0 /\ view.status[view.cand] = "ready" /\ view.preview.id # 0
    THEN [cand |-> view.cand, preview |-> view.preview.id, current |-> view.current]
    ELSE NoRadarTarget
ConfirmationChanged == rdDialog.target # NoRadarTarget /\ rdDialog.target # CurrentTarget(rdView)

ConfirmDisabled == \/ rdDialog.target = NoRadarTarget \/ ApplyDisabled \/ ConfirmationChanged
                   \/ ~CanApply(rdEdit, rdView, rdPreview, rdAllowed)

\* A changed comparison is never taken for the confirmed one.
ReconcileComparison(edit, formal) ==
  IF ~edit.confirmed \/ formal = 0 \/ edit.preview = formal THEN edit
  ELSE IF edit.preview = 0 THEN [edit EXCEPT !.preview = formal]
  ELSE [edit EXCEPT !.confirmed = FALSE, !.changed = TRUE]

\* Every change of what the page holds is drawn with these adjustments.
RenderRadar(edit, dialog, view, preview, allowed) ==
  LET drawn == ReconcileComparison(edit, FormalComparison(edit, view, preview))
  IN /\ rdEdit' = drawn
     /\ rdDialog' = IF dialog.open /\ dialog.target = NoRadarTarget
                         /\ CanApply(drawn, view, preview, allowed)
                      THEN [dialog EXCEPT !.target = CurrentTarget(view)] ELSE dialog

-----------------------------------------------------------------------------
(* Editing.                                                                *)

RadarKept == <<rdServer, rdRead, rdView, rdPreview, rdCommand, rdAnswered, rdAllowed,
               rdFaultsSoFar>>
EditorDisabled == CommandPending \/ CommunicationUnknown \/ ~rdAllowed
RadarDialogShown == rdEdit.on /\ rdDialog # RadarDialogClosed

RadarOpened(source) == [NoRadarEdit EXCEPT !.on = TRUE, !.source = source, !.draft = source.value,
                                 !.saved = IF source.saved = 0 THEN NoRadarSaved
                                           ELSE [cand |-> source.saved, value |-> source.value]]
BeginRadarEdit == \E source \in {CurrentSource(rdView)} \cup
                           (IF CandidateSourceAvailable(rdView) THEN {CandidateSource(rdView)} ELSE {}) :
  /\ ~rdEdit.on /\ ~SaveDisabled
  /\ RenderRadar(RadarOpened(source), RadarDialogClosed, rdView, rdPreview, rdAllowed)
  /\ rdSubmitted' = NoRadarCommand
  /\ UNCHANGED <<RadarKept, rdCall, rdCreated>>

\* A candidate that was made to be edited opens once.
AutoEdit ==
  /\ ~rdEdit.on /\ ~SaveDisabled
  /\ rdCreated.accepted # 0 /\ rdCreated.entered # rdCreated.accepted
  /\ rdView.cand = rdCreated.accepted /\ rdView.status[rdView.cand] = "ready"
  /\ RenderRadar(RadarOpened(CandidateSource(rdView)), RadarDialogClosed, rdView, rdPreview, rdAllowed)
  /\ rdCreated' = [rdCreated EXCEPT !.entered = rdCreated.accepted]
  /\ rdSubmitted' = NoRadarCommand
  /\ UNCHANGED <<RadarKept, rdCall>>

ChangeThreshold == \E value \in RdValues \cup {RadarUnread} :
  /\ rdEdit.on /\ ~EditorDisabled /\ ~RadarDialogShown /\ value # rdEdit.draft
  /\ rdEdit' = [rdEdit EXCEPT !.draft = value, !.confirmed = FALSE]
  /\ UNCHANGED <<RadarKept, rdCall, rdSubmitted, rdDialog, rdCreated>>

ResetThresholds ==
  /\ rdEdit.on /\ ~EditorDisabled /\ ~RadarDialogShown
  /\ rdEdit' = [rdEdit EXCEPT !.draft = rdEdit.source.value, !.confirmed = FALSE]
  /\ UNCHANGED <<RadarKept, rdCall, rdSubmitted, rdDialog, rdCreated>>

\* The input stays; what it is compared with and would replace is the latest.
AdoptSource ==
  /\ rdEdit.on /\ ~EditorDisabled /\ ~RadarDialogShown /\ ContextChanged(rdEdit, rdView)
  /\ rdEdit' = [rdEdit EXCEPT !.source = CurrentSource(rdView), !.saved = NoRadarSaved,
                              !.confirmed = FALSE]
  /\ UNCHANGED <<RadarKept, rdCall, rdSubmitted, rdDialog, rdCreated>>

CloseRadarConfirmation ==
  /\ RadarDialogShown /\ (CommandPending => rdCall.purpose = "prepare")
  /\ rdDialog' = RadarDialogClosed
  /\ UNCHANGED <<RadarKept, rdEdit, rdCall, rdSubmitted, rdCreated>>

-----------------------------------------------------------------------------
(* Commands.                                                               *)

SendRadar(purpose, request) ==
  /\ ~CommandPending
  /\ rdCall' = [NoRadarCall EXCEPT !.stage = "sent", !.purpose = purpose, !.request = request]
  /\ rdCommand' = [NothingCommanded EXCEPT !.request = request]
  /\ UNCHANGED <<rdServer, rdRead, rdView, rdPreview, rdAnswered, rdAllowed, rdFaultsSoFar>>

RadarSaveRequest(edit) ==
  [NoRadarCommand EXCEPT !.kind = "manual", !.value = edit.draft, !.basis = edit.source.basis,
                    !.from = edit.source.from, !.current = edit.source.current,
                    !.expected = edit.source.expected]
RadarApplyRequest(target) ==
  [NoRadarCommand EXCEPT !.kind = "apply", !.cand = target.cand, !.preview = target.preview,
                    !.current = target.current]

\* The dialog opens at once and waits for the comparison of the saved input.
RequestApply ==
  /\ rdEdit.on /\ ~EditorDisabled /\ ~RadarDialogShown /\ rdEdit.draft # RadarUnread
  /\ ~SaveDisabled /\ ~ContextChanged(rdEdit, rdView) /\ ~NoChangeFromCurrent
  /\ IF CanApply(rdEdit, rdView, rdPreview, rdAllowed)
       THEN /\ rdDialog' = [open |-> TRUE, target |-> CurrentTarget(rdView)]
            /\ UNCHANGED <<RadarKept, rdEdit, rdCall, rdSubmitted, rdCreated>>
     ELSE IF rdEdit.saved.cand # 0 /\ rdEdit.draft = rdEdit.saved.value
       THEN /\ rdView.cand = rdEdit.saved.cand
            /\ UNCHANGED <<rdSubmitted, rdCreated>>
            /\ IF PreviewState(rdView, rdPreview) = "ready"
                 THEN /\ RenderRadar([rdEdit EXCEPT !.source.expected = rdEdit.saved.cand,
                                        !.confirmed = TRUE, !.preview = 0, !.changed = FALSE],
                                     [open |-> TRUE, target |-> NoRadarTarget],
                                     rdView, rdPreview, rdAllowed)
                      /\ UNCHANGED <<RadarKept, rdCall>>
                 ELSE /\ SendRadar("prepare", [NoRadarCommand EXCEPT !.kind = "preview",
                                                               !.cand = rdEdit.saved.cand])
                      /\ rdDialog' = [open |-> TRUE, target |-> NoRadarTarget]
                      /\ UNCHANGED rdEdit
     ELSE /\ SendRadar("prepare", RadarSaveRequest(rdEdit))
          /\ rdSubmitted' = RadarSaveRequest(rdEdit)
          /\ rdDialog' = [open |-> TRUE, target |-> NoRadarTarget]
          /\ UNCHANGED <<rdEdit, rdCreated>>

ConfirmApply ==
  /\ RadarDialogShown /\ ~ConfirmDisabled
  /\ SendRadar("apply", RadarApplyRequest(rdDialog.target))
  /\ UNCHANGED <<rdEdit, rdDialog, rdSubmitted, rdCreated>>

\* Leaving an edit withdraws the candidate only as the draft this edit saved.
RadarDiscardRequest(edit) == [NoRadarCommand EXCEPT !.kind = "withdraw", !.cand = edit.prepared,
                                          !.owned = TRUE]

DiscardRadarEdit ==
  /\ rdEdit.on /\ ~CommandPending /\ ~CommunicationUnknown /\ ~RadarDialogShown
  /\ IF rdEdit.prepared = 0
       THEN /\ rdEdit' = NoRadarEdit /\ rdSubmitted' = NoRadarCommand
            /\ UNCHANGED <<RadarKept, rdCall, rdDialog, rdCreated>>
       ELSE /\ rdAllowed /\ SendRadar("discard", RadarDiscardRequest(rdEdit))
            /\ UNCHANGED <<rdEdit, rdSubmitted, rdDialog, rdCreated>>

\* A new candidate is made only outside an edit; so is a withdrawal, which also takes back
\* an application that is not published yet.
ChangeMethods == IF rdEdit.on \/ OperationReason \/ LiveCandidate(rdView) # 0 THEN {}
                 ELSE {"candidate"} \cup (IF rdView.previous # rdView.current THEN {"restore"} ELSE {})
WithdrawOffered == ~rdEdit.on /\ ~BusyReason /\ LiveCandidate(rdView) # 0
\* What failed can be tried again, also from the dialog that waits for it.
RetryOffered == ~OperationReason /\ rdView.op.status = "failed"

PanelCommand == \E kind \in {"candidate", "restore", "withdraw", "retry"} :
  /\ CASE kind = "withdraw" -> WithdrawOffered
       [] kind = "retry" -> RetryOffered
       [] OTHER -> kind \in ChangeMethods
  /\ SendRadar("panel", [NoRadarCommand EXCEPT !.kind = kind,
        !.cand = IF kind \in {"withdraw", "retry"} THEN rdView.cand ELSE 0,
        !.current = IF kind = "restore" THEN rdView.current ELSE 0])
  /\ UNCHANGED <<rdEdit, rdDialog, rdSubmitted, rdCreated>>

\* The same request under the same key finds out what became of it.
CheckOperation ==
  /\ CommunicationUnknown /\ rdAllowed
  /\ SendRadar("check", rdCommand.request)
  /\ UNCHANGED <<rdEdit, rdDialog, rdSubmitted, rdCreated>>

-----------------------------------------------------------------------------
(* The API, under the title's lock, and the Worker.                        *)

RadarPrepared(state, kind, cand) ==
  [state EXCEPT !.op = [kind |-> kind, cand |-> cand, status |-> "pending"]]
WithCandidate(state, kind, value, origin) ==
  LET id == state.made + 1
  IN [RadarPrepared(state, kind, id) EXCEPT
        !.made = id, !.cand = id, !.value = [@ EXCEPT ![id] = value],
        !.status = [@ EXCEPT ![id] = "pending"], !.origin = [@ EXCEPT ![id] = origin],
        !.preview = IF LiveCandidate(state) # 0 THEN [@ EXCEPT !.status = "stale"] ELSE @]
RadarWithdrawn(state, cand) ==
  [state EXCEPT !.status = [@ EXCEPT ![cand] = "withdrawn"],
                !.op = IF @.cand = cand /\ @.status = "pending" THEN [@ EXCEPT !.status = "withdrawn"]
                       ELSE @,
                !.preview = IF @.cand = cand THEN [@ EXCEPT !.status = "stale"] ELSE @]

SourceValid(state, request) ==
  \/ request.basis = state.current /\ request.from = 0
  \/ /\ LiveCandidate(state) # 0
     /\ \/ /\ request.from = state.cand /\ request.basis = state.cand
           /\ state.status[state.cand] = "ready"
        \/ /\ state.origin[state.cand].by # "generated"
           /\ request.basis = state.origin[state.cand].basis
           /\ request.from = state.origin[state.cand].from

RadarAccepts(state, request) ==
  LET idle == state.op.status # "pending"
  IN CASE request.kind = "manual" ->
            /\ idle /\ request.current = state.current
            /\ request.expected = LiveCandidate(state) /\ SourceValid(state, request)
            /\ request.value # state.value[state.current]
       [] request.kind = "candidate" -> idle /\ LiveCandidate(state) = 0
       [] request.kind = "restore" -> idle /\ LiveCandidate(state) = 0
                                      /\ request.current = state.current
       [] request.kind = "preview" -> idle /\ request.cand # 0
                                      /\ request.cand = LiveCandidate(state)
                                      /\ state.status[request.cand] = "ready"
       [] request.kind = "retry" -> idle /\ request.cand # 0
                                    /\ request.cand = LiveCandidate(state)
                                    /\ state.op.status = "failed"
       [] request.kind = "apply" ->
            /\ idle /\ request.cand # 0 /\ request.cand = LiveCandidate(state)
            /\ state.status[request.cand] = "ready"
            /\ request.preview = state.preview.id /\ state.preview.status = "ready"
            /\ state.preview.before = state.current /\ request.current = state.current
       [] request.kind = "withdraw" ->
            /\ request.cand # 0 /\ state.status[request.cand] # "applied"
            /\ request.owned => state.origin[request.cand].by = "me"
                                /\ request.cand \notin state.applications

RadarAfter(state, request, by) ==
  CASE request.kind = "manual" ->
         WithCandidate(IF LiveCandidate(state) = 0 THEN state ELSE RadarWithdrawn(state, state.cand),
                       "manual", request.value,
                       [by |-> by, basis |-> request.basis, from |-> request.from])
    [] request.kind \in {"candidate", "restore"} ->
         WithCandidate(state, request.kind,
                       IF request.kind = "restore" THEN state.value[state.previous]
                       ELSE CHOOSE v \in RdValues : v # state.value[state.current],
                       [by |-> "generated", basis |-> 0, from |-> 0])
    [] request.kind = "preview" -> RadarPrepared(state, "preview", request.cand)
    [] request.kind = "retry" -> RadarPrepared(state, state.op.kind, request.cand)
    [] request.kind = "apply" ->
         [RadarPrepared(state, "apply", request.cand) EXCEPT !.applications = @ \cup {request.cand}]
    [] request.kind = "withdraw" -> RadarWithdrawn(state, request.cand)

RadarBounded(state) == state.made <= RdCandidates /\ state.calculated <= RdPreviews

ServeRadar ==
  LET request == rdCall.request
      replayed == {a \in rdAnswered : a.request = request}
  IN /\ rdCall.stage = "sent"
     /\ IF replayed # {}
          THEN /\ rdCall' = [rdCall EXCEPT !.stage = "accepted",
                                           !.cand = (CHOOSE a \in replayed : TRUE).cand]
               /\ UNCHANGED <<rdServer, rdAnswered>>
        ELSE IF RadarAccepts(rdServer, request)
          THEN /\ rdServer.made < RdCandidates \/ request.kind \notin {"manual", "candidate", "restore"}
               /\ rdServer' = RadarAfter(rdServer, request, "me")
               /\ rdCall' = [rdCall EXCEPT !.stage = "accepted", !.cand = rdServer'.cand]
               /\ rdAnswered' = {[request |-> request, cand |-> rdServer'.cand]}
        ELSE /\ rdCall' = [rdCall EXCEPT !.stage = "refused"]
             /\ UNCHANGED <<rdServer, rdAnswered>>
     /\ UNCHANGED <<rdRead, rdView, rdPreview, rdEdit, rdSubmitted, rdDialog, rdCommand,
                    rdAllowed, rdCreated, rdFaultsSoFar>>

\* A published application is the basis, and no comparison was made against it.
RadarPublished(state) ==
  [state EXCEPT !.op.status = "succeeded", !.previous = state.current, !.current = state.op.cand,
                !.status = [@ EXCEPT ![state.op.cand] = "applied"], !.preview.status = "stale"]

\* A finished preparation readies its candidate and compares it with the basis.
RadarCompleted(state) ==
  [state EXCEPT !.op.status = "succeeded", !.status = [@ EXCEPT ![state.op.cand] = "ready"],
                !.preview = [id |-> state.calculated + 1, cand |-> state.op.cand,
                             before |-> state.current, status |-> "ready"],
                !.calculated = @ + 1]

RadarFailed(state) ==
  [state EXCEPT !.op.status = "failed",
                !.status = [@ EXCEPT ![state.op.cand] = IF @ = "pending" THEN "failed" ELSE @]]

WorkerFinishes ==
  /\ rdServer.op.status = "pending"
  /\ rdServer' = IF rdServer.op.kind = "apply" THEN RadarPublished(rdServer)
                                               ELSE RadarCompleted(rdServer)
  /\ RadarBounded(rdServer')
  /\ UNCHANGED <<rdRead, rdView, rdPreview, rdEdit, rdSubmitted, rdDialog, rdCall, rdCommand,
                 rdAnswered, rdAllowed, rdCreated, rdFaultsSoFar>>

\* A calculation fails, the records change under a comparison, or another
\* administrator saves, withdraws, applies or calculates.
RadarElsewhere ==
  /\ rdFaultsSoFar < RdFaults /\ rdFaultsSoFar' = rdFaultsSoFar + 1
  /\ \/ rdServer.op.status = "pending" /\ rdServer' = RadarFailed(rdServer)
     \/ /\ rdServer.preview.status = "ready"
        /\ rdServer' = [rdServer EXCEPT !.preview.status = "stale"]
     \/ \E request \in
          {[RadarSaveRequest(RadarOpened(CurrentSource(rdServer))) EXCEPT !.value = v] : v \in RdValues}
          \cup {RadarApplyRequest(CurrentTarget(rdServer)),
                [NoRadarCommand EXCEPT !.kind = "preview", !.cand = rdServer.cand]} :
          /\ RadarAccepts(rdServer, request)
          /\ rdServer.made < RdCandidates \/ request.kind # "manual"
          /\ rdServer' = RadarAfter(rdServer, request, "others")
     \/ LiveCandidate(rdServer) # 0 /\ rdServer' = RadarWithdrawn(rdServer, rdServer.cand)
  /\ UNCHANGED <<rdRead, rdView, rdPreview, rdEdit, rdSubmitted, rdDialog, rdCall, rdCommand,
                 rdAnswered, rdAllowed, rdCreated>>

-----------------------------------------------------------------------------
(* Answers.                                                                *)

RadarReadAgain == [stage |-> "asked", state |-> rdView]
\* The save confirms the input only if it still is the input.
ConfirmSaved(edit, request, cand, prepared) ==
  [edit EXCEPT !.source.expected = cand, !.saved = [cand |-> cand, value |-> request.value],
               !.prepared = prepared, !.confirmed = TRUE, !.preview = 0, !.changed = FALSE]
AcceptSaveReceipt(edit, request, cand) ==
  IF /\ edit.on /\ request.basis = edit.source.basis /\ request.from = edit.source.from
     /\ request.current = edit.source.current /\ request.expected = edit.source.expected
     /\ edit.draft = request.value
    THEN ConfirmSaved(edit, request, cand, cand) ELSE edit
ApplyReceiptMatches(edit, cand) == edit.on /\ edit.saved.cand = cand /\ edit.draft = edit.saved.value

\* What the page does with an acceptance once its permission is confirmed: caches are
\* refreshed, a saved input is confirmed, an applied edit ends.
AdoptAcceptance(request, cand, allowed) ==
  IF ~allowed THEN /\ rdRead' = rdRead /\ rdSubmitted' = rdSubmitted /\ rdCreated' = rdCreated
                   /\ RenderRadar(rdEdit, rdDialog, rdView, rdPreview, allowed)
  ELSE LET ends == request.kind = "apply" /\ ApplyReceiptMatches(rdEdit, cand)
           saves == request.kind = "manual" /\ rdSubmitted = request
       IN /\ rdRead' = RadarReadAgain
          /\ rdCreated' = IF request.kind \in {"candidate", "restore"}
                            THEN [rdCreated EXCEPT !.accepted = cand] ELSE rdCreated
          /\ rdSubmitted' = IF ends \/ saves THEN NoRadarCommand ELSE rdSubmitted
          /\ RenderRadar(IF ends THEN NoRadarEdit
                         ELSE IF saves THEN AcceptSaveReceipt(rdEdit, request, cand) ELSE rdEdit,
                         IF ends THEN RadarDialogClosed ELSE rdDialog,
                         rdView, rdPreview, allowed)

RadarAccepted ==
  /\ rdCall.stage = "accepted"
  /\ rdCommand' = IF rdAllowed THEN NothingCommanded
                  ELSE [rdCommand EXCEPT !.outcome = "accepted", !.cand = rdCall.cand]
  /\ rdAnswered' = {} /\ rdCall' = NoRadarCall
  /\ IF rdAllowed /\ rdCall.purpose = "discard"
       THEN /\ rdRead' = RadarReadAgain /\ rdEdit' = NoRadarEdit /\ rdDialog' = RadarDialogClosed
            /\ rdSubmitted' = NoRadarCommand /\ UNCHANGED rdCreated
     ELSE IF rdAllowed /\ rdCall.purpose = "prepare" /\ rdCall.request.kind = "preview"
       THEN /\ rdRead' = RadarReadAgain
            /\ RenderRadar([rdEdit EXCEPT !.source.expected = rdEdit.saved.cand,
                              !.confirmed = TRUE, !.preview = 0, !.changed = FALSE],
                           rdDialog, rdView, rdPreview, rdAllowed)
            /\ UNCHANGED <<rdSubmitted, rdCreated>>
     ELSE AdoptAcceptance(rdCall.request, rdCall.cand, rdAllowed)
  /\ UNCHANGED <<rdServer, rdView, rdPreview, rdAllowed, rdFaultsSoFar>>

\* A refused withdrawal ends the edit only once a fresh read shows that its draft is gone.
DraftNoLongerOwned(state, cand) ==
  state.cand # cand \/ state.status[cand] \in {"withdrawn", "applied"} \/ cand \in state.applications

RadarRefused ==
  /\ rdCall.stage = "refused"
  /\ rdCall' = NoRadarCall /\ rdAnswered' = {}
  /\ IF rdCall.purpose = "discard" /\ rdAllowed /\ DraftNoLongerOwned(rdServer, rdCall.request.cand)
       THEN /\ rdView' = rdServer /\ rdRead' = NothingReadYet(rdServer)
            /\ rdPreview' = PreviewOf(rdServer)
            /\ rdCommand' = NothingCommanded
            /\ rdEdit' = NoRadarEdit /\ rdDialog' = RadarDialogClosed /\ rdSubmitted' = NoRadarCommand
       ELSE /\ rdCommand' = [NothingCommanded EXCEPT !.outcome = "refused"]
            /\ rdSubmitted' = NoRadarCommand
            /\ UNCHANGED <<rdView, rdRead, rdPreview, rdEdit, rdDialog>>
  /\ UNCHANGED <<rdServer, rdAllowed, rdCreated, rdFaultsSoFar>>

\* The answer is lost: what became of the command is unknown, and its key is kept.
CommandLost ==
  /\ rdCall.stage \in {"sent", "accepted"}
  /\ rdFaultsSoFar < RdFaults /\ rdFaultsSoFar' = rdFaultsSoFar + 1
  /\ rdCall' = NoRadarCall
  /\ rdCommand' = [rdCommand EXCEPT !.outcome = "unknown"]
  /\ UNCHANGED <<rdServer, rdRead, rdView, rdPreview, rdEdit, rdSubmitted, rdDialog,
                 rdAnswered, rdAllowed, rdCreated>>

\* The permission is being checked again, or is confirmed again; an acceptance that came
\* meanwhile is adopted then.
RecheckPermission ==
  /\ rdAllowed /\ rdFaultsSoFar < RdFaults /\ rdFaultsSoFar' = rdFaultsSoFar + 1
  /\ rdAllowed' = FALSE
  /\ UNCHANGED <<rdServer, rdRead, rdView, rdPreview, rdEdit, rdSubmitted, rdDialog, rdCall,
                 rdCommand, rdAnswered, rdCreated>>
PermissionConfirmed ==
  /\ ~rdAllowed /\ rdAllowed' = TRUE
  /\ IF rdCommand.outcome = "accepted"
       THEN /\ rdCommand' = NothingCommanded
            /\ AdoptAcceptance(rdCommand.request, rdCommand.cand, TRUE)
       ELSE /\ RenderRadar(rdEdit, rdDialog, rdView, rdPreview, TRUE)
            /\ UNCHANGED <<rdCommand, rdRead, rdSubmitted, rdCreated>>
  /\ UNCHANGED <<rdServer, rdView, rdPreview, rdCall, rdAnswered, rdFaultsSoFar>>

-----------------------------------------------------------------------------
(* Reads.                                                                  *)

RefreshRadar ==
  /\ rdAllowed /\ rdRead.stage = "idle" /\ ~CommandPending /\ rdView # rdServer
  /\ rdRead' = RadarReadAgain
  /\ UNCHANGED <<rdServer, rdView, rdPreview, rdEdit, rdSubmitted, rdDialog, rdCall, rdCommand,
                 rdAnswered, rdAllowed, rdCreated, rdFaultsSoFar>>
ServeState ==
  /\ rdRead.stage = "asked" /\ rdRead' = [stage |-> "served", state |-> rdServer]
  /\ UNCHANGED <<rdServer, rdView, rdPreview, rdEdit, rdSubmitted, rdDialog, rdCall, rdCommand,
                 rdAnswered, rdAllowed, rdCreated, rdFaultsSoFar>>
\* A state that was read also clears a refusal.
StateArrives ==
  /\ rdRead.stage = "served"
  /\ rdView' = rdRead.state /\ rdRead' = NothingReadYet(rdRead.state)
  /\ rdPreview' = PreviewOf(rdRead.state)
  /\ rdCommand' = IF ConflictNeedsRefresh /\ ~CommandPending THEN NothingCommanded ELSE rdCommand
  /\ RenderRadar(rdEdit, rdDialog, rdRead.state, rdPreview, rdAllowed)
  /\ UNCHANGED <<rdServer, rdSubmitted, rdCall, rdAnswered, rdAllowed, rdCreated, rdFaultsSoFar>>
\* The comparison named by the state is read by itself.
PreviewArrives ==
  /\ rdAllowed /\ rdView.preview.id # 0
  /\ LET latest == IF rdServer.preview.id = rdView.preview.id THEN rdServer.preview
                   ELSE [rdView.preview EXCEPT !.status = "stale"]
     IN /\ rdPreview # latest /\ rdPreview' = latest
        /\ RenderRadar(rdEdit, rdDialog, rdView, latest, rdAllowed)
  /\ UNCHANGED <<rdServer, rdRead, rdView, rdSubmitted, rdCall, rdCommand, rdAnswered, rdAllowed,
                 rdCreated, rdFaultsSoFar>>

RadarStart ==
  [current |-> 0, previous |-> 0, made |-> 0, cand |-> 0, calculated |-> 0,
   value |-> [i \in {0} \cup RadarIds |-> RdStart], status |-> [i \in RadarIds |-> "none"],
   origin |-> [i \in RadarIds |-> [by |-> "nobody", basis |-> 0, from |-> 0]],
   preview |-> NoComparison, op |-> NoOperation, applications |-> {}]

RadarInit ==
  /\ rdServer = RadarStart /\ rdView = RadarStart /\ rdRead = NothingReadYet(RadarStart)
  /\ rdPreview = NoComparison /\ rdEdit = NoRadarEdit /\ rdSubmitted = NoRadarCommand
  /\ rdDialog = RadarDialogClosed /\ rdCall = NoRadarCall /\ rdCommand = NothingCommanded
  /\ rdAnswered = {} /\ rdAllowed = TRUE /\ rdCreated = [accepted |-> 0, entered |-> 0]
  /\ rdFaultsSoFar = 0

RadarNext ==
  \/ BeginRadarEdit \/ AutoEdit \/ ChangeThreshold \/ ResetThresholds \/ AdoptSource
  \/ CloseRadarConfirmation \/ RequestApply \/ ConfirmApply \/ DiscardRadarEdit \/ PanelCommand
  \/ CheckOperation \/ ServeRadar \/ WorkerFinishes \/ RadarElsewhere
  \/ RadarAccepted \/ RadarRefused \/ CommandLost \/ RecheckPermission \/ PermissionConfirmed
  \/ RefreshRadar \/ ServeState \/ StateArrives \/ PreviewArrives

RadarSpec == RadarInit /\ [][RadarNext]_rdvars
-----------------------------------------------------------------------------
(* Properties.                                                             *)

\* Every variable has its type.
RadarTypeOK ==
  /\ rdServer.current \in {0} \cup RadarIds /\ rdServer.cand \in {0} \cup RadarIds
  /\ rdServer.preview.status \in {"none", "ready", "stale"}
  /\ rdRead.stage \in {"idle", "asked", "served"}
  /\ rdEdit.draft \in RdValues \cup {RadarUnread} /\ rdEdit.on \in BOOLEAN
  /\ rdCall.stage \in {"idle", "sent", "accepted", "refused"}
  /\ rdCommand.outcome \in {"none", "accepted", "refused", "unknown"}
  /\ rdAllowed \in BOOLEAN /\ rdFaultsSoFar \in 0..RdFaults

\* An application that the API accepts from the confirmation applies the boundaries on
\* the screen, whatever other administrators made of the shared candidate meanwhile
\* (radarEditingSession.ts, canApply; useRadarApplyConfirmation.ts).
AppliesWhatIsShown ==
  [][rdCall.purpose \in {"apply", "check"} /\ rdCall.request.kind = "apply"
     /\ rdServer'.applications # rdServer.applications /\ rdFaultsSoFar' = rdFaultsSoFar
       => rdEdit.on /\ rdServer'.value[rdCall.request.cand] = rdEdit.draft]_rdvars
=============================================================================
