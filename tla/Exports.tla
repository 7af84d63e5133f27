------------------------------- MODULE Exports -------------------------------
(***************************************************************************)
(* The export page: its conditions in the URL, the directory a target is   *)
(* chosen from, the look-up of a target that no page of it lists, the      *)
(* default that is adopted into the URL, and the download that belongs to  *)
(* the conditions shown.                                                   *)
(*                                                                         *)
(* Seasons come in one list, held events in pages of one; a match is       *)
(* chosen as a held event is, by the cursors of MatchList.  A query that   *)
(* is watched without an answer or a failure is being read.  The failure   *)
(* notices kept during a retry are left out.                               *)
(***************************************************************************)
EXTENDS Naturals, Sequences, SequencesExt

CONSTANTS ExSeasons,  \* the seasons there are, as listed
          ExEvents,   \* the held events there are, as listed
          ExGhosts,   \* identifiers of no season or held event
          ExTrails,   \* the visits a session starts with, the newest last
          ExMoves, ExFaults  \* bounds: choices; failures and others' changes

VARIABLES exTrail,    \* the router's visits
          exShown,    \* the conditions React shows
          exAdopted,  \* the default the effect has handled last
          exPage,     \* the page of held events
          exSnapshot, \* the target remembered while its directory moves
          exServer,   \* what exists
          exKnown,    \* the answer each query holds
          exReads,    \* reads under way: [key, answer]
          exFailed,   \* watched queries whose last read failed
          exKept,     \* the page whose rows stand in for the next one's
          exCalls,    \* downloads under way: [request, at, aborted, agreed]
          exActive,   \* the request of the active attempt
          exResult,   \* the outcome shown and its request
          exSaved,    \* the file that this step saved
          exLeft,     \* the page was left
          exMoved, exFaulted

exvars == <<exTrail, exShown, exAdopted, exPage, exSnapshot, exServer, exKnown, exReads, exFailed,
            exKept, exCalls, exActive, exResult, exSaved, exLeft, exMoved, exFaulted>>
exread == <<exServer, exKnown, exReads, exFailed, exKept>>
excall == <<exCalls, exActive, exResult>>

NoId == ""
ExistingTargets == ToSet(ExSeasons) \cup ToSet(ExEvents)
ExIds == ExistingTargets \cup ExGhosts
Conditions(format, scope, id) == [format |-> format, scope |-> scope, id |-> id, odd |-> FALSE]
NoDownload == Conditions("csv", "invalid", NoId)
-----------------------------------------------------------------------------
(* Queries and the answers the API gives them.                               *)
SeasonKey == <<"season", 1>>
PageKey(page) == <<"heldEvent", page>>
TargetKey(id) == <<"target", id>>
Keys == {SeasonKey} \cup {PageKey(p) : p \in 1..Len(ExEvents)} \cup {TargetKey(id) : id \in ExIds}
ExAnswer(rows, pages, verdict) == [rows |-> rows, pages |-> pages, verdict |-> verdict]
NotRead == ExAnswer(<<>>, 0, "unknown")
ExListed(ids) == SelectSeq(ids, LAMBDA id : id \in exServer)
AnswerTo(key) ==
  CASE key[1] = "season"    -> ExAnswer(ExListed(ExSeasons), 1, "found")
    [] key[1] = "heldEvent" ->
         LET found == ExListed(ExEvents)
         IN ExAnswer(IF key[2] \in DOMAIN found THEN <<found[key[2]]>> ELSE <<>>,
                   IF found = <<>> THEN 1 ELSE Len(found), "found")
    [] key[1] = "target"    ->
         ExAnswer(<<>>, 1, IF key[2] \in exServer THEN "found" ELSE "notFound")

HasData(key) == exKnown[key] # NotRead
Scope == exShown.scope
Id == exShown.id
DirectoryKey == IF Scope = "season" THEN SeasonKey ELSE PageKey(exPage)
Sent(key) == \E r \in exReads : r.key = key
DirectoryFetching == Sent(DirectoryKey) \/ (~HasData(DirectoryKey) /\ DirectoryKey \notin exFailed)
DirectoryFailed == DirectoryKey \in exFailed /\ ~DirectoryFetching
StandIn == ~HasData(DirectoryKey) /\ ~DirectoryFailed /\ Scope = "heldEvent" /\ exKept # 0
ExOnScreen == exKnown[IF StandIn THEN PageKey(exKept) ELSE DirectoryKey]

(* A cached row cannot stop the revalidation of a target known to be absent. *)
OnPage == Id \in ToSet(ExOnScreen.rows)
NeedsLookup == Scope = "heldEvent" /\ Id # NoId /\ ~OnPage
Verdict == IF Scope = "heldEvent" /\ Id # NoId THEN exKnown[TargetKey(Id)].verdict ELSE "unknown"
KnownAbsent == Verdict = "notFound"
TargetWatched == NeedsLookup \/ KnownAbsent
TargetFetching ==
  /\ Scope = "heldEvent" /\ Id # NoId
  /\ Sent(TargetKey(Id)) \/ (NeedsLookup /\ Verdict = "unknown" /\ TargetKey(Id) \notin exFailed)
TargetReadFailed == NeedsLookup /\ TargetKey(Id) \in exFailed /\ ~TargetFetching
WatchedTarget ==
  (IF Scope \in {"season", "heldEvent"} THEN {DirectoryKey} ELSE {})
    \cup (IF TargetWatched THEN {TargetKey(Id)} ELSE {})

(* resolveExportCandidate: whether the chosen target is known, and how far.  *)
HasTarget ==
  /\ Id # NoId /\ ~KnownAbsent
  /\ OnPage \/ (Scope = "heldEvent" /\ (Verdict = "found" \/ exSnapshot = Id))
Resolution ==
  CASE KnownAbsent \/ (Scope = "season" /\ Id # NoId /\ ~OnPage) -> "not-found"
    [] HasTarget \/ ~NeedsLookup -> "resolved"
    [] ~HasTarget /\ NeedsLookup /\ ~KnownAbsent ->
         IF TargetReadFailed THEN "load-failed" ELSE "resolving"
FirstRead == DirectoryFetching /\ ~HasData(DirectoryKey) /\ ~StandIn
ExRefreshing ==
  \/ Scope # "all" /\ DirectoryFetching /\ (~FirstRead \/ (Scope # "season" /\ HasTarget))
  \/ TargetFetching /\ TargetReadFailed
ScopeChanging == StandIn /\ DirectoryFetching

(* buildCandidateView.                                                       *)
Candidates == IF KnownAbsent THEN ToSet(ExOnScreen.rows) \ {Id} ELSE ToSet(ExOnScreen.rows)
ViewKind ==
  CASE Scope = "all" -> "hidden"
    [] Scope # "all" /\ DirectoryFailed /\ ~HasData(DirectoryKey) /\ ~HasTarget -> "error"
    [] Scope # "all" /\ FirstRead /\ (Scope = "season" \/ ~HasTarget) -> "loading"
    [] OTHER -> IF Candidates = {} /\ Id = NoId THEN "empty" ELSE "ready"
SelectedId == IF Id # NoId THEN Id ELSE IF ViewKind = "ready" THEN ExOnScreen.rows[1] ELSE NoId
SelectionState == IF Id = NoId \/ Id \in Candidates THEN "resolved" ELSE Resolution
IsExportSelectionReady ==
  ~exShown.odd /\ (Scope = "all" \/ (ViewKind = "ready" /\ SelectionState = "resolved"))

(* resolveExportSelection: the displayed default is already the target of a  *)
(* request while its URL is still being adopted.                             *)
ExRequest ==
  IF ~exShown.odd /\ (Scope = "all" \/ SelectedId # NoId)
  THEN Conditions(exShown.format, Scope, SelectedId) ELSE NoDownload
NormalizedSearch ==
  IF ~exShown.odd /\ Scope # "all" /\ Id = NoId /\ SelectedId # NoId
  THEN Conditions(exShown.format, Scope, SelectedId) ELSE NoDownload
-----------------------------------------------------------------------------
(* The download of the attempt whose conditions are no longer shown is       *)
(* aborted when React shows others, and its outcome is forgotten.            *)
NoResult == [kind |-> "none", request |-> NoDownload]
Pending == exActive # 0
ExCommitted ==
  LET others == ExRequest' # ExRequest \/ exLeft'
      aborted(c) == IF c.id = exActive THEN [c EXCEPT !.aborted = TRUE] ELSE c
      calls == IF others THEN {aborted(c) : c \in exCalls} ELSE exCalls
  IN /\ exKept' = IF exKnown'[PageKey(exPage')] # NotRead THEN exPage' ELSE exKept
     /\ exCalls' = IF exLeft' \/ Len(exTrail') < Len(exTrail)
                   THEN {[c EXCEPT !.agreed = FALSE] : c \in calls} ELSE calls
     /\ exActive' = IF others THEN 0 ELSE exActive
     /\ exResult' = IF others THEN NoResult ELSE exResult
     /\ exSaved' = NoDownload
ExQuiet == UNCHANGED <<exServer, exKnown, exFaulted>>

(* A query that is no longer watched is aborted, and forgets its failure.    *)
ExWatches ==
  LET watched == {SeasonKey, PageKey(exPage')} \cup {TargetKey(id) : id \in {exShown'.id} \ {NoId}}
  IN /\ exReads' = {r \in exReads : r.key \in watched}
     /\ exFailed' = {key \in exFailed : key \in watched /\ exShown'.scope = Scope}

(* Choices replace the visit; they start from the conditions shown.          *)
ExCount == exMoved < ExMoves /\ exMoved' = exMoved + 1
Update(format, scope, id) ==
  exTrail' = [exTrail EXCEPT ![Len(exTrail)] = Conditions(format, scope, id)]
ResetCandidates == exPage' = 1 /\ exSnapshot' = NoId
RereadTarget == ExWatches /\ ExQuiet /\ ExCommitted
ChangeFormat ==
  /\ ~exLeft /\ ~Pending /\ ExCount
  /\ \E format \in {"csv", "tsv"} \ {exShown.format} : Update(format, Scope, Id)
  /\ UNCHANGED <<exShown, exAdopted, exPage, exSnapshot, exLeft>> /\ RereadTarget
ChangeScope ==
  /\ ~exLeft /\ ~Pending /\ ExCount
  /\ \E scope \in {"all", "season", "heldEvent"} \ {Scope} : Update(exShown.format, scope, NoId)
  /\ ResetCandidates
  /\ UNCHANGED <<exShown, exAdopted, exLeft>> /\ RereadTarget
ResetConditions ==
  /\ ~exLeft /\ exShown.odd /\ ExCount
  /\ Update("csv", "all", NoId) /\ ResetCandidates
  /\ UNCHANGED <<exShown, exAdopted, exLeft>> /\ RereadTarget
SelectCandidate ==
  /\ ~exLeft /\ ~Pending /\ ViewKind = "ready" /\ ~ExRefreshing /\ ExCount
  /\ \E id \in Candidates \ {Id} :
       exSnapshot' = id /\ Update(exShown.format, Scope, id)
  /\ UNCHANGED <<exShown, exAdopted, exPage, exLeft>> /\ RereadTarget
RememberSelection == exSnapshot' = IF HasTarget THEN Id ELSE exSnapshot
SetPage ==
  /\ ~exLeft /\ ~Pending /\ Scope = "heldEvent" /\ ViewKind = "ready" /\ Candidates # {}
  /\ ~ExRefreshing /\ ExCount
  /\ exPage' \in (1..ExOnScreen.pages) \ {exPage}
  /\ RememberSelection
  /\ UNCHANGED <<exTrail, exShown, exAdopted, exLeft>> /\ RereadTarget

(* Retries of the directory, with the look-up that failed beside it, or of   *)
(* the look-up alone.                                                        *)
Again(keys) ==
  /\ exFailed' = exFailed \ keys
  /\ exReads' = exReads \cup {[key |-> key, answer |-> NotRead] :
                                key \in {k \in keys : HasData(k) /\ ~Sent(k)}}
Retry ==
  /\ ~exLeft /\ ViewKind \in {"error", "empty", "ready"} /\ ~ExRefreshing
  /\ DirectoryFailed \/ TargetReadFailed
  /\ Again({DirectoryKey} \cup (IF TargetReadFailed THEN {TargetKey(Id)} ELSE {}))
  /\ RememberSelection
  /\ UNCHANGED <<exTrail, exShown, exAdopted, exPage, exLeft, exMoved>> /\ ExQuiet /\ ExCommitted
RetrySelectedCandidate ==
  /\ ~exLeft /\ ViewKind = "ready" /\ SelectionState = "load-failed"
  /\ Again({TargetKey(Id)})
  /\ UNCHANGED <<exTrail, exShown, exAdopted, exPage, exSnapshot, exLeft, exMoved>>
  /\ ExQuiet /\ ExCommitted

(* The effect that adopts the displayed default runs once for each value.    *)
AdoptDefault ==
  /\ ~exLeft /\ exAdopted # NormalizedSearch
  /\ exAdopted' = NormalizedSearch
  /\ IF NormalizedSearch = NoDownload THEN UNCHANGED exTrail
     ELSE Update(exShown.format, Scope, SelectedId)
  /\ UNCHANGED <<exShown, exPage, exSnapshot, exLeft, exMoved>> /\ RereadTarget
ShowConditions ==
  /\ ~exLeft /\ exShown # Last(exTrail)
  /\ exShown' = Last(exTrail)
  /\ UNCHANGED <<exTrail, exAdopted, exPage, exSnapshot, exLeft, exMoved>> /\ RereadTarget
BackInExports ==
  /\ ~exLeft /\ Len(exTrail) > 1 /\ ExCount
  /\ exTrail' = Front(exTrail)
  /\ UNCHANGED <<exShown, exAdopted, exPage, exSnapshot, exLeft>> /\ RereadTarget
LeaveExports ==
  /\ ~exLeft /\ ExCount
  /\ exLeft' = TRUE
  /\ UNCHANGED <<exTrail, exShown, exAdopted, exPage, exSnapshot, exReads, exFailed>>
  /\ ExQuiet /\ ExCommitted
-----------------------------------------------------------------------------
(* Reads; a known answer may be read again at any time.                      *)
exelse == <<exTrail, exShown, exAdopted, exPage, exSnapshot, exLeft, exMoved>>
ExServe ==
  /\ ~exLeft
  /\ \E key \in WatchedTarget :
       /\ \A r \in exReads : r.key = key => r.answer = NotRead
       /\ Sent(key) \/ ~HasData(key)
       /\ Sent(key) \/ key \notin exFailed
       /\ exReads' = {r \in exReads : r.key # key} \cup {[key |-> key, answer |-> AnswerTo(key)]}
  /\ UNCHANGED <<exelse, exServer, exKnown, exFailed, exFaulted>> /\ ExCommitted
ExArrives ==
  /\ ~exLeft
  /\ \E r \in exReads :
       /\ r.answer # NotRead
       /\ exReads' = exReads \ {r}
       /\ exKnown' = [exKnown EXCEPT ![r.key] = r.answer]
       /\ exFailed' = exFailed \ {r.key}
  /\ UNCHANGED <<exelse, exServer, exFaulted>> /\ ExCommitted
ExReadFails ==
  /\ ~exLeft /\ exFaulted < ExFaults /\ exFaulted' = exFaulted + 1
  /\ \E key \in WatchedTarget :
       /\ Sent(key) \/ (~HasData(key) /\ key \notin exFailed)
       /\ exReads' = {r \in exReads : r.key # key}
       /\ exFailed' = exFailed \cup {key}
  /\ UNCHANGED <<exelse, exServer, exKnown>> /\ ExCommitted
ReadAgain ==
  /\ ~exLeft
  /\ \E key \in WatchedTarget : HasData(key) /\ ~Sent(key) /\ Again({key})
  /\ UNCHANGED exelse /\ ExQuiet /\ ExCommitted
OthersDelete ==
  /\ exFaulted < ExFaults /\ exFaulted' = exFaulted + 1
  /\ \E id \in exServer : exServer' = exServer \ {id}
  /\ UNCHANGED <<exelse, exKnown, exReads, exFailed>> /\ ExCommitted
-----------------------------------------------------------------------------
(* The download: one attempt at a time, bound to the request it was started  *)
(* for; a transport may complete although it was aborted or too late.        *)
exrest == <<exTrail, exShown, exAdopted, exPage, exSnapshot, exread, exLeft>>
StartDownload ==
  /\ ~exLeft /\ IsExportSelectionReady /\ ExRequest # NoDownload /\ ~Pending /\ ExCount
  /\ exActive' = exMoved'
  /\ exCalls' = exCalls \cup
       {[id |-> exMoved', request |-> ExRequest, at |-> "asked", aborted |-> FALSE,
         agreed |-> Last(exTrail) \in {exShown, NormalizedSearch}]}
  /\ exResult' = IF exResult.kind = "success" THEN NoResult ELSE exResult
  /\ exSaved' = NoDownload
  /\ UNCHANGED <<exrest, exFaulted>>
CallMoves(from, to) ==
  /\ \E c \in exCalls :
       /\ c.at \in from
       /\ exCalls' = (exCalls \ {c}) \cup {[c EXCEPT !.at = to]}
  /\ exSaved' = NoDownload
  /\ UNCHANGED <<exrest, exActive, exResult, exMoved>>
FileArrives == CallMoves({"asked"}, "served") /\ UNCHANGED exFaulted
DownloadFails ==
  exFaulted < ExFaults /\ exFaulted' = exFaulted + 1 /\ CallMoves({"asked"}, "failed")
TimeRunsOut ==
  exFaulted < ExFaults /\ exFaulted' = exFaulted + 1 /\ CallMoves({"asked", "served"}, "timeout")
OutcomeOfTransport(c) == IF c.at = "served" THEN "success" ELSE c.at
Outcome(c) ==
  CASE c.aborted -> "cancelled"
    [] ~c.aborted /\ c.at = "served" -> "success"
    [] ~c.aborted /\ c.at # "served" -> c.at
EndDownload ==
  /\ \E c \in exCalls :
       /\ c.at # "asked" \/ c.aborted
       /\ exCalls' = exCalls \ {c}
       /\ exSaved' = IF Outcome(c) = "success" THEN c.request ELSE NoDownload
       /\ IF c.id # exActive THEN UNCHANGED <<exActive, exResult>>
          ELSE /\ exActive' = 0
               /\ exResult' = IF Outcome(c) = "cancelled" THEN NoResult
                              ELSE [kind |-> Outcome(c), request |-> c.request]
  /\ UNCHANGED <<exrest, exMoved, exFaulted>>

ExInit ==
  /\ exTrail \in ExTrails /\ exShown = Last(exTrail)
  /\ exAdopted = NoDownload /\ exPage = 1 /\ exSnapshot = NoId
  /\ exServer = ExistingTargets /\ exKnown = [key \in Keys |-> NotRead]
  /\ exReads = {} /\ exFailed = {} /\ exKept = 0
  /\ exCalls = {} /\ exActive = 0 /\ exResult = NoResult /\ exSaved = NoDownload
  /\ exLeft = FALSE /\ exMoved = 0 /\ exFaulted = 0
ExNext ==
  \/ ChangeFormat \/ ChangeScope \/ ResetConditions \/ SelectCandidate \/ SetPage
  \/ Retry \/ RetrySelectedCandidate \/ AdoptDefault \/ ShowConditions \/ BackInExports
  \/ LeaveExports \/ ExServe \/ ExArrives \/ ExReadFails \/ ReadAgain \/ OthersDelete
  \/ StartDownload \/ FileArrives \/ DownloadFails \/ TimeRunsOut \/ EndDownload

ExTypeOK ==
  /\ exTrail \in Seq([format : {"csv", "tsv"}, scope : {"all", "season", "heldEvent"},
                      id : ExIds \cup {NoId}, odd : BOOLEAN])
  /\ exPage \in 1..Len(ExEvents) /\ exKept \in 0..Len(ExEvents)
  /\ exSnapshot \in ExIds \cup {NoId} /\ exServer \subseteq ExistingTargets
  /\ exFailed \subseteq Keys /\ exLeft \in BOOLEAN
  /\ exMoved \in 0..ExMoves /\ exFaulted \in 0..ExFaults

(* Code behaviour: a file is saved only for the conditions that are shown    *)
(* when it is saved, even if it was asked for, or has arrived, under others  *)
(* (exportDownload.ts: a transport that completed after the abort).          *)
SavesWhatIsShown == exSaved # NoDownload => exSaved = ExRequest /\ ~exLeft

(* Code behaviour: no download starts for an identifier that nothing was     *)
(* ever recorded under, nor for a target whose look-up says that it is gone, *)
(* although an older page of the directory may still list it.                *)
DownloadsOnlyWhatIsThere ==
  exActive' # 0 /\ exActive = 0 =>
    Scope = "all" \/ (ExRequest.id \in ExistingTargets /\ ~KnownAbsent)

(* Code behaviour: adopting the displayed default into the URL, reading the  *)
(* directory and turning its pages never cut a download short; only history, *)
(* leaving and the deletions of others do.                                   *)
DownloadSurvivesAdoption ==
  \A c \in exCalls : c.aborted /\ c.agreed => exServer # ExistingTargets
=============================================================================
