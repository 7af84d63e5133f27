---------------------------- MODULE HeldEventList ----------------------------
(***************************************************************************)
(* The list of held events: the search in the URL, the filter bar and the  *)
(* search sheet that change it, the pages read for it, the correction of a *)
(* page beyond the last one, and the deletion of an empty event.           *)
(*                                                                         *)
(* The router commits a navigation within the call that asks for it; React *)
(* shows it later, and the search wanted meanwhile is optimistic.  The     *)
(* read follows the deferred search.  A map is chosen as a season is, a    *)
(* match count as a phrase is, without a draft; the order as the size is.  *)
(***************************************************************************)
EXTENDS ListSearch, Sequences

CONSTANTS HeEvents,   \* numbers: a greater one was held later
          HeTraits,   \* per event, the conditions it fulfils
          HeUsed,     \* events with matches or drafts
          HeSizes,    \* page sizes
          HeStarts,   \* searches of the URL a visit starts with
          HeMoves, HeFaults  \* bounds: choices; failures and others' changes

VARIABLES heTrail,    \* the router's visits, the newest last
          heShown,    \* the search of the visit React shows
          heWanted,   \* the optimistic one while React is behind, or none
          heDeferred, \* the search that is read
          heBar,      \* the drafts of the filter bar
          heSheet,    \* the draft of the open search sheet
          heServer,   \* events that exist
          heCache,    \* answers: [search, rows, pages, old]
          heRead,     \* the read of heDeferred: "none", "sent" or its answer
          heFailed,   \* searches whose last read failed
          heKept,     \* the search whose answer was shown last
          heNotice,   \* the settled problem and its search
          heTarget,   \* the deletion asked for: [event, at]
          heReported, \* events whose deletion was reported
          heCrossed,  \* only for the properties: a deletion met a first read
          heMoved, heFaulted

hevars == <<heTrail, heShown, heWanted, heDeferred, heBar, heSheet, heServer, heCache, heRead,
            heFailed, heKept, heNotice, heTarget, heReported, heCrossed, heMoved, heFaulted>>
heurl == <<heTrail, heShown, heWanted, heBar, heMoved>>
heread == <<heCache, heRead, heFailed, heKept>>

HeNone == [none |-> TRUE]
HeUsualSize == CHOOSE n \in HeSizes : \A k \in HeSizes : n <= k
DefaultSearch ==
  [title |-> Unset, season |-> Unset, period |-> Unset, memo |-> Unset, metric |-> Unset,
   page |-> 1, size |-> HeUsualSize]
-----------------------------------------------------------------------------
(* One choice applied to a search.                                           *)
ClearConditions(search) == [DefaultSearch EXCEPT !.size = search.size]
ApplyChange(search, kind, value) ==
  CASE kind = "page"   -> [search EXCEPT !.page = value]
    [] kind = "size"   -> [search EXCEPT !.size = value]
    [] kind = "title"  -> WithTitle(search, value)
    [] kind = "season" -> [search EXCEPT !.season = value]
    [] kind = "period" -> IF Inverted(value) THEN search ELSE [search EXCEPT !.period = value]
    [] kind = "memo"   -> [search EXCEPT !.memo = value]
    [] kind = "metric" -> [search EXCEPT !.metric = CompleteOnly(value)]
    [] kind = "conditions" ->
         [value EXCEPT !.metric = CompleteOnly(@), !.size = search.size]
ChangeSearch(search, kind, value) ==
  LET next == ApplyChange(search, kind, value)
  IN IF kind = "page" \/ (kind = "period" /\ Inverted(value)) THEN next
     ELSE [next EXCEPT !.page = 1]
HasConditions(search) == [search EXCEPT !.page = 1, !.size = HeUsualSize] # DefaultSearch

(* What the API answers: one page of the events that fulfil the conditions.  *)
Fulfils(event, search) ==
  \A part \in {"title", "season", "period", "memo", "metric"} :
    search[part] # Unset => search[part] \in HeTraits[event]
AnswerTo(search, server) ==
  LET found == {e \in server : Fulfils(e, search)}
      Before(e) == Cardinality({f \in found : f > e})
      last == (Cardinality(found) + search.size - 1) \div search.size
  IN [search |-> search, pages |-> last, old |-> FALSE,
      rows |-> {e \in found : Before(e) \div search.size = search.page - 1}]
-----------------------------------------------------------------------------
(* What is shown.                                                            *)
Current == IF heWanted = HeNone THEN heShown ELSE heWanted
HeSettling == heWanted # HeNone \/ Current # heDeferred
HasAnswer(search) == \E a \in heCache : a.search = search
CachedAnswer(search) == CHOOSE a \in heCache : a.search = search
Idle == [pages |-> 0, at |-> "none"]
Sent == [pages |-> 0, at |-> "sent"]
HeFetching == heRead # Idle
HeConfirmed == HasAnswer(heDeferred)
ReadFailed == heDeferred \in heFailed /\ ~HeFetching
IsPlaceholder == ~HeConfirmed /\ ~ReadFailed /\ heKept # HeNone
ShownAnswer ==
  IF HeConfirmed THEN CachedAnswer(heDeferred)
  ELSE IF IsPlaceholder THEN CachedAnswer(heKept) ELSE HeNone

(* useRetryNotice: a problem stays while the same search is tried again.     *)
Problem == [load |-> ReadFailed /\ ~HeConfirmed, stale |-> ReadFailed /\ HeConfirmed]
Noticed == NoticeShown(heNotice, Current, Problem, HeFetching)
Settled == heNotice' = NoticeKept(heNotice, Current', Problem', HeFetching')

ConfirmedAnyhow == HeConfirmed
CorrectionConfirmed == HeConfirmed /\ heDeferred = Current
LastPage(answer) == IF answer.pages = 0 THEN 1 ELSE answer.pages
CorrectionPage ==
  IF CorrectionConfirmed /\ heDeferred.page > LastPage(ShownAnswer)
  THEN LastPage(ShownAnswer) ELSE 0
ScopeChanging == HeSettling \/ IsPlaceholder
HeReady ==
  /\ ShownAnswer # HeNone
  /\ ~Noticed.load /\ CorrectionPage = 0
RowsShown == IF HeReady THEN ShownAnswer.rows ELSE {}
DeletePending == heTarget.at = "sent"
DeleteDisabled == DeletePending \/ Noticed.stale \/ ScopeChanging
-----------------------------------------------------------------------------
(* Choices: the newest one wins, and a draft follows a newly committed value.*)
Follow(from, to) == heBar' = CommittedDraft(heBar, from, to)
NavigateTo(search) ==
  /\ search # Current
  /\ heMoved < HeMoves
  /\ heMoved' = heMoved + 1
  /\ heTrail' = Append(heTrail, search)
  /\ heWanted' = search
  /\ UNCHANGED heShown
ChooseIn(kind, value) == NavigateTo(ChangeSearch(Current, kind, value))
Free == heSheet = HeNone /\ heTarget.at = "none"
Elsewhere == UNCHANGED <<heDeferred, heServer, heread, heTarget, heReported, heCrossed, heFaulted>>

ChooseScope ==
  /\ Free
  /\ \/ \E title \in Titles \cup {Unset} : ChooseIn("title", title)
     \/ \E season \in SeasonsOffered(Current.title) : ChooseIn("season", season)
  /\ Follow(Current, heWanted')
  /\ UNCHANGED heSheet /\ Elsewhere
Typed(bar) ==
  /\ heMoved < HeMoves
  /\ heMoved' = heMoved + 1
  /\ heBar' = bar
TypePeriod ==
  /\ Free
  /\ \E period \in {"june", "inverted", Unset} \ {heBar.period} :
       IF Inverted(period) \/ period = Current.period
       THEN Typed([heBar EXCEPT !.period = period]) /\ UNCHANGED <<heTrail, heShown, heWanted>>
       ELSE ChooseIn("period", period) /\ heBar' = [heBar EXCEPT !.period = period]
  /\ UNCHANGED heSheet /\ Elsewhere
TypeDetail ==
  /\ Free
  /\ \/ \E memo \in {Unset, "word"} \ {heBar.memo} : Typed([heBar EXCEPT !.memo = memo])
     \/ \E metric \in {Unset, "half", "best"} \ {heBar.metric} :
          Typed([heBar EXCEPT !.metric = metric])
  /\ UNCHANGED <<heTrail, heShown, heWanted, heSheet>> /\ Elsewhere
CommitMemo ==
  /\ Free /\ heBar.memo # Current.memo
  /\ ChooseIn("memo", heBar.memo)
  /\ Follow(Current, heWanted')
  /\ UNCHANGED heSheet /\ Elsewhere
CommitMetric ==
  /\ Free /\ heBar.metric # Current.metric
  /\ heBar.metric = EmptyMetric => IsComplete(Current.metric)
  /\ heBar.metric # EmptyMetric => IsComplete(heBar.metric)
  /\ ChooseIn("metric", heBar.metric)
  /\ Follow(Current, heWanted')
  /\ UNCHANGED heSheet /\ Elsewhere
RemoveCondition ==
  /\ Free /\ ~ScopeChanging
  /\ \E part \in {"title", "season", "period", "memo", "metric"} :
       Current[part] # Unset /\ ChooseIn(part, Unset)
  /\ Follow(Current, heWanted')
  /\ UNCHANGED heSheet /\ Elsewhere
ClearAll ==
  /\ Free /\ HasConditions(Current)
  /\ NavigateTo(ClearConditions(Current))
  /\ Follow(Current, heWanted')
  /\ UNCHANGED heSheet /\ Elsewhere
TurnPage ==
  /\ Free /\ ~ScopeChanging /\ HeReady
  /\ \/ \E page \in 1..ShownAnswer.pages : ChooseIn("page", page)
     \/ \E size \in HeSizes : ChooseIn("size", size)
  /\ Follow(Current, heWanted')
  /\ UNCHANGED heSheet /\ Elsewhere

(* The sheet edits every condition as one draft of its own.                  *)
SheetInvalid == Inverted(heSheet.period) \/ heSheet.metric = "half"
OpenSheet ==
  /\ Free
  /\ heSheet' = Current
  /\ Typed(heBar) /\ UNCHANGED <<heTrail, heShown, heWanted>> /\ Elsewhere
EditSheet ==
  /\ heSheet # HeNone
  /\ heSheet' \in
       {SheetTitle(heSheet, title) : title \in Titles \cup {Unset}}
       \cup {[heSheet EXCEPT !.season = season] : season \in SeasonsOffered(heSheet.title)}
       \cup {[heSheet EXCEPT !.period = "inverted"], [heSheet EXCEPT !.metric = "half"]}
       \cup {[heSheet EXCEPT !.memo = "word"], ClearConditions(heSheet)}
  /\ heSheet' # heSheet
  /\ Typed(heBar) /\ UNCHANGED <<heTrail, heShown, heWanted>> /\ Elsewhere
ApplySheet ==
  /\ heSheet # HeNone /\ ~SheetInvalid
  /\ heSheet' = HeNone
  /\ IF ChangeSearch(Current, "conditions", heSheet) = Current THEN UNCHANGED heurl
     ELSE ChooseIn("conditions", heSheet) /\ Follow(Current, heWanted')
  /\ Elsewhere
CloseSheet ==
  /\ heSheet # HeNone
  /\ heSheet' = HeNone
  /\ UNCHANGED heurl /\ Elsewhere

Back ==
  /\ Len(heTrail) > 1 /\ heMoved < HeMoves
  /\ heTrail' = SubSeq(heTrail, 1, Len(heTrail) - 1)
  /\ heMoved' = heMoved + 1
  /\ UNCHANGED <<heShown, heWanted, heBar, heSheet>> /\ Elsewhere

(* React shows the router's visit, and later reads what it shows.            *)
Show ==
  /\ heWanted # HeNone \/ heShown # heTrail[Len(heTrail)]
  /\ heShown' = heTrail[Len(heTrail)]
  /\ heWanted' = HeNone
  /\ Follow(Current, heShown')
  /\ UNCHANGED <<heTrail, heMoved, heSheet>> /\ Elsewhere
-----------------------------------------------------------------------------
(* Reads.  Only the deferred search is read: a read left behind is aborted.  *)
(* A known answer is read again when it is old, or when time has passed.     *)
Adopt(search) ==
  /\ heRead' \in IF HasAnswer(search) /\ ~CachedAnswer(search).old THEN {Idle, Sent} ELSE {Sent}
  /\ heFailed' = IF HasAnswer(search) THEN heFailed ELSE heFailed \ {search}
Unread == UNCHANGED <<heSheet, heDeferred, heServer, heTarget, heReported, heCrossed>>
Defer ==
  /\ heDeferred # Current
  /\ heDeferred' = Current
  /\ Adopt(Current)
  /\ heKept' = IF HasAnswer(Current) THEN Current ELSE heKept
  /\ UNCHANGED <<heurl, heSheet, heServer, heCache, heTarget, heReported, heCrossed, heFaulted>>
Refresh ==
  /\ Free /\ ~HeFetching
  /\ heMoved < HeMoves
  /\ heMoved' = heMoved + 1
  /\ heRead' = Sent
  /\ heFailed' = IF HeConfirmed THEN heFailed ELSE heFailed \ {heDeferred}
  /\ UNCHANGED <<heTrail, heShown, heWanted, heBar, heCache, heKept, heFaulted>> /\ Unread
ServeRead ==
  /\ heRead = Sent
  /\ heRead' = AnswerTo(heDeferred, heServer)
  /\ UNCHANGED <<heurl, heCache, heFailed, heKept, heFaulted>> /\ Unread
ReadArrives ==
  /\ heRead \notin {Idle, Sent}
  /\ heRead' = Idle
  /\ heCache' = {a \in heCache : a.search # heDeferred} \cup {heRead}
  /\ heFailed' = heFailed \ {heDeferred}
  /\ heKept' = heDeferred
  /\ UNCHANGED <<heurl, heFaulted>> /\ Unread
HeReadFails ==
  /\ HeFetching /\ heFaulted < HeFaults
  /\ heRead' = Idle
  /\ heFailed' = heFailed \cup {heDeferred}
  /\ heFaulted' = heFaulted + 1
  /\ UNCHANGED <<heurl, heCache, heKept>> /\ Unread
Correct ==
  /\ CorrectionPage > 0
  /\ heTrail' = Append(heTrail, ChangeSearch(Current, "page", CorrectionPage))
  /\ heWanted' = heTrail'[Len(heTrail')]
  /\ UNCHANGED <<heShown, heBar, heMoved, heSheet>> /\ Elsewhere
-----------------------------------------------------------------------------
(* Deletion.                                                                 *)
NoTarget == [event |-> 0, at |-> "none"]
RequestDelete ==
  /\ Free /\ ~DeleteDisabled
  /\ \E event \in RowsShown \ HeUsed : heTarget' = [event |-> event, at |-> "asked"]
  /\ UNCHANGED <<heurl, heSheet, heDeferred, heServer, heread, heReported, heCrossed, heFaulted>>
CancelDelete ==
  /\ heTarget.at \in {"asked", "failed"}
  /\ heTarget' = NoTarget
  /\ UNCHANGED <<heurl, heSheet, heDeferred, heServer, heread, heReported, heCrossed, heFaulted>>
ConfirmDelete ==
  /\ heTarget.at \in {"asked", "failed"}
  /\ heTarget' = [heTarget EXCEPT !.at = "sent"]
  /\ UNCHANGED <<heurl, heSheet, heDeferred, heServer, heread, heReported, heCrossed, heFaulted>>
(* The server deletes the event, or finds the same request done already.  An *)
(* answer may be lost.                                                       *)
ServeDelete ==
  /\ heTarget.at = "sent"
  /\ heServer' = heServer \ {heTarget.event}
  /\ heTarget' = [heTarget EXCEPT !.at = "served"]
  /\ UNCHANGED <<heurl, heSheet, heDeferred, heread, heReported, heCrossed, heFaulted>>
DeleteFails ==
  /\ heTarget.at \in {"sent", "served"} /\ heFaulted < HeFaults
  /\ heTarget' = [heTarget EXCEPT !.at = "failed"]
  /\ heFaulted' = heFaulted + 1
  /\ UNCHANGED <<heurl, heSheet, heDeferred, heServer, heread, heReported, heCrossed>>
(* Every list page becomes old, and the one shown is read again from the     *)
(* start, unless its first read is under way, which goes on.                 *)
SyncDetailsOnly == UNCHANGED <<heCache, heRead, heFailed>>
SyncDeleted ==
  /\ heCache' = {[a EXCEPT !.old = TRUE] : a \in heCache}
  /\ heRead' = IF HeConfirmed \/ ~HeFetching THEN Sent ELSE heRead
  /\ heFailed' = IF HeConfirmed THEN heFailed ELSE heFailed \ {heDeferred}
DeleteAnswered ==
  /\ heTarget.at = "served"
  /\ SyncDeleted
  /\ heCrossed' = (heCrossed \/ (HeFetching /\ ~HeConfirmed))
  /\ heTarget' = [heTarget EXCEPT !.at = "synced"]
  /\ UNCHANGED <<heurl, heSheet, heDeferred, heServer, heKept, heReported, heFaulted>>
ReportDeleted ==
  /\ heTarget.at = "synced" /\ ~HeFetching
  /\ heReported' = heReported \cup {heTarget.event}
  /\ heTarget' = NoTarget
  /\ UNCHANGED <<heurl, heSheet, heDeferred, heServer, heread, heCrossed, heFaulted>>

HeInit ==
  /\ heShown \in HeStarts /\ heWanted = HeNone /\ heDeferred = heShown
  /\ heTrail = <<heShown>>
  /\ heBar = [period |-> heShown.period, memo |-> heShown.memo, metric |-> heShown.metric]
  /\ heSheet = HeNone /\ heKept = HeNone
  /\ heServer = HeEvents
  /\ heCache = {} /\ heRead = Sent /\ heFailed = {}
  /\ heNotice = [search |-> heShown, problem |-> [load |-> FALSE, stale |-> FALSE]]
  /\ heTarget = NoTarget /\ heReported = {} /\ heCrossed = FALSE
  /\ heMoved = 0 /\ heFaulted = 0
HeStep ==
  \/ ChooseScope \/ TypePeriod \/ TypeDetail \/ CommitMemo \/ CommitMetric \/ RemoveCondition
  \/ ClearAll \/ TurnPage \/ OpenSheet \/ EditSheet \/ ApplySheet \/ CloseSheet
  \/ Back \/ Show \/ Defer \/ Refresh \/ ServeRead \/ ReadArrives \/ HeReadFails \/ Correct
  \/ RequestDelete \/ CancelDelete \/ ConfirmDelete \/ ServeDelete \/ DeleteFails
  \/ DeleteAnswered \/ ReportDeleted
HeNext == HeStep /\ Settled
-----------------------------------------------------------------------------
Searches ==
  [title : Titles \cup {Unset}, season : DOMAIN TitleOf \cup {Unset},
   period : {Unset, "june"}, memo : {Unset, "word"}, metric : {Unset, "best"},
   page : 1..Cardinality(HeEvents), size : HeSizes]
\* A visit starts from a link of the application: a season comes with its own title.
ASSUME HeAssumption == HeStarts \subseteq Searches /\ \A search \in HeStarts : TitleFits(search)

HeTypeOK ==
  /\ \A search \in {heTrail[i] : i \in DOMAIN heTrail} \cup {heShown, heDeferred, Current} :
       search \in Searches
  /\ \A a \in heCache : a.search \in Searches /\ a.rows \subseteq HeEvents
  /\ heKept # HeNone => HasAnswer(heKept)
  /\ heReported \subseteq HeEvents \ HeUsed

(* Code behaviour: no order of choices in the bar, the sheet, the chips and  *)
(* the history searches for a season of another title, an inverted period or *)
(* half a metric; a page beyond the last one is corrected only by an answer  *)
(* to the very search that is wanted, and changes nothing but the page.      *)
SearchIsSound ==
  /\ TitleFits(Current)
  /\ ~Inverted(Current.period) /\ Current.metric # "half"
CorrectsItsOwnSearch ==
  Correct =>
    /\ \E a \in heCache : a.search = Current /\ heWanted' = [Current EXCEPT !.page = LastPage(a)]
    /\ Current.page > heWanted'.page

(* Code behaviour: an event is deleted only from the rows of the search      *)
(* wanted and, once their last refresh failed, only while they are being     *)
(* read again.  The notice of the failure says that a deletion waits for the *)
(* newest state; while it is retried in place the notice stays and holds the *)
(* deletion off, but back on a search whose refresh failed the read runs     *)
(* without a notice, and the old rows can be deleted from.                   *)
DeletesWhatIsListed ==
  RequestDelete =>
    \E a \in heCache : /\ a.search = Current /\ heTarget'.event \in a.rows
                       /\ Current \in heFailed => HeFetching

(* Code behaviour: once its deletion is reported the list shows an event no  *)
(* more, unless it says that the rows are being read again, are another      *)
(* search's, or could not be refreshed.  Not so after a deletion that was    *)
(* answered during the first read of a search (heCrossed): that read is not  *)
(* started again, and an answer from before the deletion counts as new.      *)
ReportedIsGone ==
  ~heCrossed /\ ~ScopeChanging /\ ~HeFetching /\ ~Noticed.stale => RowsShown \cap heReported = {}
=============================================================================
