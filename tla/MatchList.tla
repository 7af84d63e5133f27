------------------------------ MODULE MatchList ------------------------------
(***************************************************************************)
(* The list of recorded matches: the search in the URL, its filter bar and *)
(* search sheet, its pages by cursors that the server issues, the refresh  *)
(* a user asks for, and the link that exports what is listed.              *)
(*                                                                         *)
(* As in HeldEventList the router holds a navigation at once, React shows  *)
(* it later, and the read follows the deferred search.  A map is chosen as *)
(* a season is, the order as the page size is.                             *)
(***************************************************************************)
EXTENDS ListSearch, Sequences

CONSTANTS MlMatches,  \* numbers: a greater one is listed earlier
          MlTraits,   \* per match, the conditions it fulfils
          MlHeld,     \* held events
          MlSizes,    \* page sizes
          MlStarts,   \* searches of the URL a visit starts with
          MlMoves, MlFaults  \* bounds: choices; failures and others' changes

VARIABLES mlTrail,    \* the router's visits, the newest last
          mlShown,    \* the search of the visit React shows
          mlWanted,   \* the optimistic one while React is behind, or none
          mlDeferred, \* the search that is read
          mlBar,      \* the drafts of the filter bar
          mlSheet,    \* the draft of the open search sheet
          mlServer,   \* recorded matches
          mlCache,    \* answers: [search, rows, page, pages, edges, age]
          mlReads,    \* reads under way: [search, answer]
          mlFailed,   \* searches whose last read failed
          mlKept,     \* the search whose answer was shown last
          mlNotice,   \* the settled problem and its search
          mlRefresh,  \* the refresh asked for: [origin, at, age]
          mlFailure,  \* the search whose refresh failed
          mlLeft,     \* the page was left
          mlMoved, mlFaulted

mlvars == <<mlTrail, mlShown, mlWanted, mlDeferred, mlBar, mlSheet, mlServer, mlCache, mlReads,
            mlFailed, mlKept, mlNotice, mlRefresh, mlFailure, mlLeft, mlMoved, mlFaulted>>
mlurl == <<mlTrail, mlShown, mlWanted, mlBar, mlMoved>>
mlread == <<mlCache, mlReads, mlFailed, mlKept>>

MlNone == [none |-> TRUE]
FirstPage == 0
MlUsualSize == CHOOSE n \in MlSizes : \A k \in MlSizes : n <= k
Conditions == {"title", "season", "event", "period", "memo", "metric"}
AllMatches ==
  [title |-> Unset, season |-> Unset, event |-> Unset, period |-> Unset, memo |-> Unset,
   metric |-> Unset, cursor |-> FirstPage, size |-> MlUsualSize]
NarrowedBy(search) == {part \in Conditions : search[part] # Unset}
-----------------------------------------------------------------------------
(* What the API answers: the rows below a cursor, and the cursors of the     *)
(* first, the neighbouring and the last page.  An age counts the changes.    *)
Lists(search, match) == \A part \in NarrowedBy(search) : search[part] \in MlTraits[match]
Found(search, server) == {m \in server : Lists(search, m)}
Above(match, matches) == Cardinality({m \in matches : m > match})
EdgeOf(page, size, matches) ==
  IF page <= 1 THEN FirstPage ELSE CHOOSE m \in matches : Above(m, matches) = (page - 1) * size - 1
MatchAnswer(search, server, age) ==
  LET found == Found(search, server)
      below == {m \in found : search.cursor = FirstPage \/ m < search.cursor}
      above == Cardinality(found \ below)
      pages == (Cardinality(found) + search.size - 1) \div search.size
  IN [search |-> search, age |-> age, pages |-> pages,
      rows |-> {m \in below : Above(m, below) < search.size},
      page |-> (above + search.size - 1) \div search.size + 1,
      edges |-> [p \in 1..pages |-> EdgeOf(p, search.size, found)]]
MlAge == Cardinality(MlMatches \ mlServer)

(* cursorForPage: only the edges the server issued lead anywhere.            *)
PagesReached(answer) ==
  {p \in {1, answer.pages, answer.page - 1, answer.page + 1} :
     p \in 1..answer.pages /\ p # answer.page}
-----------------------------------------------------------------------------
(* One choice applied to a search.                                           *)
ClearMatchConditions(search) == [AllMatches EXCEPT !.size = search.size]
ChangeMatches(search, kind, value) ==
  LET next ==
        CASE kind = "size"   -> [search EXCEPT !.size = value]
          [] kind = "title"  -> WithTitle(search, value)
          [] kind = "metric" -> [search EXCEPT !.metric = CompleteOnly(value)]
          [] kind \in {"season", "event", "period", "memo"} -> [search EXCEPT ![kind] = value]
          [] kind = "conditions" -> [value EXCEPT !.size = search.size]
  IN [next EXCEPT !.cursor = FirstPage]

(* matchListExportLink: an export takes one held event or one season.        *)
ExportLink(search) ==
  IF NarrowedBy(search) = {"event"} THEN [kind |-> "event", of |-> search.event]
  ELSE IF search.season # Unset /\ NarrowedBy(search) \subseteq {"season", "title"}
  THEN [kind |-> "season", of |-> search.season]
  ELSE [kind |-> "all", of |-> Unset]
ExportLinkOfSeason(search) ==
  IF search.season # Unset THEN [kind |-> "season", of |-> search.season]
  ELSE [kind |-> "all", of |-> Unset]
-----------------------------------------------------------------------------
(* What is shown.                                                            *)
Chosen == IF mlWanted = MlNone THEN mlShown ELSE mlWanted
MlSettling == mlWanted # MlNone \/ Chosen # mlDeferred
Cached(search) == \E a \in mlCache : a.search = search
CacheOf(search) == CHOOSE a \in mlCache : a.search = search
Reading(search) == \E r \in mlReads : r.search = search
MlFetching == Reading(mlDeferred)
MlConfirmed == Cached(mlDeferred)
MlReadFailed == mlDeferred \in mlFailed /\ ~MlFetching
MlRetained == ~MlConfirmed /\ ~MlReadFailed /\ mlKept # MlNone
MlAnswer ==
  IF MlConfirmed THEN CacheOf(mlDeferred) ELSE IF MlRetained THEN CacheOf(mlKept) ELSE MlNone
RefreshPending == mlRefresh.at # "none"
ListFailed ==
  NoticeShown(mlNotice, Chosen, MlReadFailed /\ ~MlConfirmed, MlFetching \/ RefreshPending)
MlChanging == MlSettling \/ MlRetained
FirstLoading == ~MlConfirmed /\ ~MlRetained /\ MlFetching
ListPending == RefreshPending \/ MlChanging \/ (MlFetching /\ ~FirstLoading)
Rows == IF MlAnswer = MlNone \/ ListFailed THEN {} ELSE MlAnswer.rows
ShowsPages ==
  ~ListFailed /\ MlAnswer # MlNone /\ MlAnswer.pages > 1
-----------------------------------------------------------------------------
(* Choices: each starts from the newest one, and any goes to the router.     *)
MlFollow(from, to) == mlBar' = CommittedDraft(mlBar, from, to)
GoTo(search) ==
  /\ mlTrail' = Append(mlTrail, search)
  /\ mlWanted' = search
  /\ UNCHANGED mlShown
Count == mlMoved < MlMoves /\ mlMoved' = mlMoved + 1
Choose(kind, value) ==
  /\ Count
  /\ GoTo(ChangeMatches(Chosen, kind, value))
MlFree == mlSheet = MlNone /\ ~mlLeft
MlElse == UNCHANGED <<mlDeferred, mlServer, mlread, mlRefresh, mlLeft, mlFaulted>>

ChooseScopeOfMatches ==
  /\ MlFree
  /\ \/ \E title \in (Titles \cup {Unset}) \ {Chosen.title} : Choose("title", title)
     \/ \E season \in SeasonsOffered(Chosen.title) \ {Chosen.season} : Choose("season", season)
     \/ \E event \in (MlHeld \cup {Unset}) \ {Chosen.event} : Choose("event", event)
  /\ MlFollow(Chosen, mlWanted')
  /\ UNCHANGED mlSheet /\ MlElse
TypePeriodOfMatches ==
  /\ MlFree
  /\ \E period \in {"june", "inverted", Unset} \ {mlBar.period} :
       /\ IF Inverted(period) THEN Count /\ UNCHANGED <<mlTrail, mlShown, mlWanted>>
          ELSE Choose("period", period)
       /\ mlBar' = [mlBar EXCEPT !.period = period]
  /\ UNCHANGED mlSheet /\ MlElse
TypeText ==
  /\ MlFree /\ Count
  /\ mlBar' \in {[mlBar EXCEPT !.memo = memo] : memo \in {Unset, "word"}}
                \cup {[mlBar EXCEPT !.metric = metric] : metric \in {Unset, "half", "best"}}
  /\ mlBar' # mlBar
  /\ UNCHANGED <<mlTrail, mlShown, mlWanted, mlSheet>> /\ MlElse
CommitText ==
  /\ MlFree
  /\ \/ mlBar.memo # Chosen.memo /\ Choose("memo", mlBar.memo)
     \/ /\ mlBar.metric # Chosen.metric
        /\ IF mlBar.metric = EmptyMetric THEN IsComplete(Chosen.metric)
           ELSE IsComplete(mlBar.metric)
        /\ Choose("metric", mlBar.metric)
  /\ MlFollow(Chosen, mlWanted')
  /\ UNCHANGED mlSheet /\ MlElse
RemoveChip ==
  /\ MlFree /\ ~MlChanging
  /\ \E part \in NarrowedBy(Chosen) : Choose(part, Unset)
  /\ MlFollow(Chosen, mlWanted')
  /\ UNCHANGED mlSheet /\ MlElse
ClearMatches ==
  /\ MlFree /\ NarrowedBy(Chosen) # {}
  /\ Count /\ GoTo(ClearMatchConditions(Chosen))
  /\ MlFollow(Chosen, mlWanted')
  /\ UNCHANGED mlSheet /\ MlElse
TurnMatchPage ==
  /\ MlFree /\ ~MlChanging /\ ShowsPages
  /\ \/ \E page \in PagesReached(MlAnswer) :
          Count /\ GoTo([Chosen EXCEPT !.cursor = MlAnswer.edges[page]])
     \/ \E size \in MlSizes \ {Chosen.size} : Choose("size", size)
  /\ MlFollow(Chosen, mlWanted')
  /\ UNCHANGED mlSheet /\ MlElse

(* The sheet edits all conditions as one draft of its own.                   *)
OpenMatchSheet ==
  /\ MlFree /\ Count
  /\ mlSheet' = Chosen
  /\ UNCHANGED <<mlTrail, mlShown, mlWanted, mlBar>> /\ MlElse
EditMatchSheet ==
  /\ mlSheet # MlNone /\ Count
  /\ mlSheet' \in
       {SheetTitle(mlSheet, title) : title \in Titles \cup {Unset}}
       \cup {[mlSheet EXCEPT !.season = season] : season \in SeasonsOffered(mlSheet.title)}
       \cup {[mlSheet EXCEPT !.event = event] : event \in MlHeld}
       \cup {[mlSheet EXCEPT !.period = "inverted"], [mlSheet EXCEPT !.metric = "half"]}
       \cup {[mlSheet EXCEPT !.memo = "word"], ClearMatchConditions(mlSheet)}
  /\ mlSheet' # mlSheet
  /\ UNCHANGED <<mlTrail, mlShown, mlWanted, mlBar>> /\ MlElse
SubmitSheet ==
  /\ mlSheet # MlNone
  /\ ~Inverted(mlSheet.period) /\ mlSheet.metric # "half"
  /\ GoTo(ChangeMatches(Chosen, "conditions", mlSheet))
  /\ MlFollow(Chosen, mlWanted')
  /\ mlSheet' = MlNone
  /\ UNCHANGED mlMoved /\ MlElse
DropSheet ==
  /\ mlSheet # MlNone /\ mlSheet' = MlNone
  /\ UNCHANGED mlurl /\ MlElse

BackInList ==
  /\ ~mlLeft /\ Len(mlTrail) > 1 /\ Count
  /\ mlTrail' = SubSeq(mlTrail, 1, Len(mlTrail) - 1)
  /\ UNCHANGED <<mlShown, mlWanted, mlBar, mlSheet>> /\ MlElse
ShowVisit ==
  /\ ~mlLeft
  /\ mlWanted # MlNone \/ mlShown # mlTrail[Len(mlTrail)]
  /\ mlShown' = mlTrail[Len(mlTrail)]
  /\ mlWanted' = MlNone
  /\ MlFollow(Chosen, mlShown')
  /\ UNCHANGED <<mlTrail, mlMoved, mlSheet>> /\ MlElse
LeaveList ==
  /\ ~mlLeft /\ Count
  /\ mlLeft' = TRUE
  /\ mlReads' = {r \in mlReads : r.search # mlDeferred}
  /\ mlRefresh' = IF mlRefresh.at = "sent" /\ mlRefresh.read = mlDeferred
                  THEN [mlRefresh EXCEPT !.at = "failed"] ELSE mlRefresh
  /\ UNCHANGED <<mlTrail, mlShown, mlWanted, mlDeferred, mlBar, mlSheet, mlServer, mlCache,
                 mlFailed, mlKept, mlFaulted>>
-----------------------------------------------------------------------------
(* Reads.  A read that nobody watches any more is aborted, also the refresh  *)
(* that waits for it; a known answer is read again when time has passed.     *)
Unanswered == [age |-> 0]
PendingRead(search) == [search |-> search, answer |-> Unanswered]
DeferSearch ==
  /\ ~mlLeft /\ mlDeferred # Chosen
  /\ mlDeferred' = Chosen
  /\ LET others == {r \in mlReads : r.search # mlDeferred}
     IN mlReads' \in
          IF \E r \in others : r.search = Chosen THEN {others}
          ELSE IF Cached(Chosen) THEN {others, others \cup {PendingRead(Chosen)}}
          ELSE {others \cup {PendingRead(Chosen)}}
  /\ mlRefresh' = IF mlRefresh.at = "sent" /\ mlRefresh.read = mlDeferred /\ MlFetching
                  THEN [mlRefresh EXCEPT !.at = "failed"] ELSE mlRefresh
  /\ mlFailed' = IF Cached(Chosen) THEN mlFailed ELSE mlFailed \ {Chosen}
  /\ mlKept' = IF Cached(Chosen) THEN Chosen ELSE mlKept
  /\ UNCHANGED <<mlurl, mlSheet, mlServer, mlCache, mlLeft, mlFaulted>>
ServeMatches ==
  /\ \E r \in mlReads :
       /\ r.answer = Unanswered
       /\ mlReads' = (mlReads \ {r})
            \cup {[r EXCEPT !.answer = MatchAnswer(r.search, mlServer, MlAge + 1)]}
  /\ UNCHANGED <<mlurl, mlDeferred, mlSheet, mlServer, mlCache, mlFailed, mlKept, mlRefresh,
                 mlLeft, mlFaulted>>
RefreshHears(search, outcome) ==
  mlRefresh' = IF mlRefresh.at = "sent" /\ mlRefresh.read = search
               THEN [mlRefresh EXCEPT !.at = outcome] ELSE mlRefresh
MatchesArrive ==
  /\ \E r \in mlReads :
       /\ r.answer # Unanswered
       /\ mlReads' = mlReads \ {r}
       /\ mlCache' = {a \in mlCache : a.search # r.search} \cup {r.answer}
       /\ mlFailed' = mlFailed \ {r.search}
       /\ mlKept' = IF r.search = mlDeferred THEN mlDeferred ELSE mlKept
       /\ RefreshHears(r.search, "refreshed")
  /\ UNCHANGED <<mlurl, mlDeferred, mlSheet, mlServer, mlLeft, mlFaulted>>
MatchesFail ==
  /\ mlFaulted < MlFaults /\ mlFaulted' = mlFaulted + 1
  /\ \E r \in mlReads :
       /\ mlReads' = mlReads \ {r}
       /\ mlFailed' = mlFailed \cup {r.search}
       /\ RefreshHears(r.search, "failed")
  /\ UNCHANGED <<mlurl, mlDeferred, mlSheet, mlServer, mlCache, mlKept, mlLeft>>
OthersRemove ==
  /\ mlFaulted < MlFaults /\ mlFaulted' = mlFaulted + 1
  /\ \E m \in mlServer : mlServer' = mlServer \ {m}
  /\ UNCHANGED <<mlurl, mlDeferred, mlSheet, mlread, mlRefresh, mlLeft>>
-----------------------------------------------------------------------------
(* The refresh: from a later page it reads the first one, which is adopted   *)
(* only by the search it was asked for.  The number of drafts is read beside *)
(* it, so that it ends some time after its list.                             *)
MlNoRefresh == [at |-> "none"]
AskRefresh ==
  /\ MlFree /\ ~ListPending /\ (FirstLoading => ListFailed)
  /\ Count
  /\ LET read == [Chosen EXCEPT !.cursor = FirstPage]
     IN /\ mlRefresh' = [origin |-> Chosen, at |-> "sent", read |-> read, age |-> MlAge + 1]
        /\ mlReads' = IF Reading(read) THEN mlReads ELSE mlReads \cup {PendingRead(read)}
        /\ mlFailed' = IF Cached(read) THEN mlFailed ELSE mlFailed \ {read}
  /\ UNCHANGED <<mlTrail, mlShown, mlWanted, mlBar, mlDeferred, mlSheet, mlServer, mlCache,
                 mlKept, mlLeft, mlFaulted>>
ResolveAnyhow == ~mlLeft /\ mlRefresh.at = "refreshed" /\ mlRefresh.origin.cursor # FirstPage
ResolveRefresh == ResolveAnyhow /\ Chosen = mlRefresh.origin
EndRefresh ==
  /\ mlRefresh.at \in {"refreshed", "failed"}
  /\ mlRefresh' = MlNoRefresh
  /\ IF ResolveRefresh
     THEN GoTo([Chosen EXCEPT !.cursor = FirstPage]) /\ MlFollow(Chosen, mlWanted')
     ELSE UNCHANGED <<mlTrail, mlShown, mlWanted, mlBar>>
  /\ UNCHANGED <<mlMoved, mlDeferred, mlSheet, mlServer, mlread, mlLeft, mlFaulted>>

(* After every step: the failure of another search is forgotten.             *)
MlSettled ==
  /\ mlFailure' = IF mlRefresh.at = "failed" /\ mlRefresh' = MlNoRefresh /\ ~mlLeft
                  THEN (IF mlRefresh.origin = Chosen' THEN Chosen' ELSE MlNone)
                  ELSE IF mlRefresh.at = "refreshed" /\ mlRefresh' = MlNoRefresh /\ ~mlLeft
                  THEN MlNone
                  ELSE IF mlFailure = Chosen' THEN mlFailure ELSE MlNone
  /\ mlNotice' = NoticeKept(mlNotice, Chosen', (MlReadFailed /\ ~MlConfirmed)',
                            (MlFetching \/ RefreshPending)')

MlInit ==
  /\ mlShown \in MlStarts /\ mlWanted = MlNone /\ mlDeferred = mlShown
  /\ mlTrail = <<mlShown>>
  /\ mlBar = [period |-> mlShown.period, memo |-> mlShown.memo, metric |-> mlShown.metric]
  /\ mlSheet = MlNone /\ mlKept = MlNone
  /\ mlServer = MlMatches
  /\ mlCache = {} /\ mlReads = {PendingRead(mlShown)} /\ mlFailed = {}
  /\ mlNotice = [search |-> mlShown, problem |-> FALSE]
  /\ mlRefresh = MlNoRefresh /\ mlFailure = MlNone /\ mlLeft = FALSE
  /\ mlMoved = 0 /\ mlFaulted = 0
MlStep ==
  \/ ChooseScopeOfMatches \/ TypePeriodOfMatches \/ TypeText \/ CommitText \/ RemoveChip
  \/ ClearMatches \/ TurnMatchPage \/ OpenMatchSheet \/ EditMatchSheet \/ SubmitSheet
  \/ DropSheet \/ BackInList \/ ShowVisit \/ LeaveList \/ DeferSearch \/ ServeMatches
  \/ MatchesArrive \/ MatchesFail \/ OthersRemove \/ AskRefresh \/ EndRefresh
MlNext == MlStep /\ MlSettled
-----------------------------------------------------------------------------
MatchSearches ==
  [title : Titles \cup {Unset}, season : DOMAIN TitleOf \cup {Unset},
   event : MlHeld \cup {Unset}, period : {Unset, "june"}, memo : {Unset, "word"},
   metric : {Unset, "best"}, cursor : MlMatches \cup {FirstPage}, size : MlSizes]
\* The matches of a season are matches of its title (MatchReferenceValidation.scala), and
\* a visit starts from a link of the application: a season comes with its own title.
ASSUME MlAssumption ==
  /\ IsFiniteSet(MlMatches)
  /\ \A m \in MlMatches : \A season \in MlTraits[m] \cap DOMAIN TitleOf :
       TitleOf[season] \in MlTraits[m]
  /\ MlStarts \subseteq MatchSearches /\ \A search \in MlStarts : TitleFits(search)

MlTypeOK ==
  /\ \A search \in {mlTrail[i] : i \in DOMAIN mlTrail} \cup {mlShown, mlDeferred, Chosen} :
       search \in MatchSearches
  /\ \A a \in mlCache : a.search \in MatchSearches /\ a.rows \subseteq MlMatches
  /\ mlKept # MlNone => Cached(mlKept)
  /\ mlFailure # MlNone => mlFailure = Chosen

(* Code behaviour: a refresh that ends changes the search only from a later  *)
(* page of it to its first one, never the search chosen meanwhile nor the    *)
(* address of the page the user left for; and the first page it leads to is  *)
(* known, and not older than the refresh.                                    *)
RefreshKeepsChoices ==
  EndRefresh /\ mlTrail' # mlTrail =>
    /\ ~mlLeft
    /\ Chosen = mlRefresh.origin /\ mlWanted' = mlRefresh.read
    /\ Cached(mlWanted') /\ CacheOf(mlWanted').age >= mlRefresh.age

(* Code behaviour: the rows that can be acted on are the chosen search's,    *)
(* whatever was read before.                                                 *)
RowsAreChosen ==
  ~mlLeft /\ ~MlChanging => \A m \in Rows : Lists(Chosen, m)

(* Code behaviour: the export a list leads to covers the matches the list    *)
(* searches for, no more and no less, or is the export of all matches.       *)
ExportsWhatIsListed ==
  LET link == ExportLink(Chosen)
  IN link.kind # "all" =>
       \A m \in MlMatches : Lists(Chosen, m) <=> link.of \in MlTraits[m]
=============================================================================
