------------------------------- MODULE OcrSetup -------------------------------
(***************************************************************************)
(* The match conditions of an OCR capture (features/ocrCapture/setup): the *)
(* held event with the next number in it, the title and its season, filled *)
(* by the rule every way of recording shares (shared/heldEvents), next to  *)
(* reads that are cached, repeated and fail.                               *)
(*                                                                         *)
(* The map is chosen as the season is, and the owner is always chosen:     *)
(* both are left out, and so are the picker's other pages.                 *)
(***************************************************************************)
EXTENDS Naturals, FiniteSets

CONSTANTS OsTitles,
          OsSeasons,          \* each season with the title it belongs to
          OsEvents,           \* the held events that exist at first
          OsStart,            \* the event the page was opened for, or none
          OsNumbers,          \* bound: the largest match number
          OsMoves, OsFaults   \* bounds: inputs; failures and others' changes
ASSUME OsAssumption ==
  /\ {OsNumbers, OsMoves, OsFaults} \subseteq Nat
  /\ OsSeasons \subseteq [id : STRING, title : OsTitles]
  /\ "none" \notin OsTitles \cup OsEvents /\ OsStart \in OsEvents \cup {"none"}

VARIABLES osServer,    \* titles, seasons and events that exist, with their latest match
          osReads,     \* cached answers with their reads: titles, seasons, list and events
          osValue,     \* the conditions on the page
          osNumber,    \* where the number is from, and the event it was set for
          osPlan,      \* the conditions last taken for a submission
          osMoved, osFaulted

osform == <<osValue, osNumber>>
osvars == <<osServer, osReads, osform, osPlan, osMoved, osFaulted>>

NoChoice == "none"
NoNumber == 0
NoSetup == [title |-> NoChoice, season |-> NoChoice]
NoPlanMade == [event |-> NoChoice, number |-> NoNumber, setup |-> NoSetup]
NoEvent == [next |-> NoNumber, previous |-> NoSetup]
OsMove == osMoved < OsMoves /\ osMoved' = osMoved + 1
OsFault == osFaulted < OsFaults /\ osFaulted' = osFaulted + 1
ValuesKept == UNCHANGED <<osServer, osPlan>>

\* A query: whether it has an answer, the answer, the state of its read.  An answer
\* that is out of date is read again when it is shown.
Query(answer) == [known |-> FALSE, answer |-> answer, old |-> FALSE, read |-> FALSE,
                  failed |-> FALSE]
Fetching(q) == [q EXCEPT !.read = TRUE]
Answered(answer) == [known |-> TRUE, answer |-> answer, old |-> FALSE, read |-> FALSE,
                        failed |-> FALSE]
Failed(q) == [q EXCEPT !.read = FALSE, !.failed = TRUE]
ShowError(q) == q.failed /\ ~q.read
Observed(q, fresh) == IF q.known /\ fresh THEN [q EXCEPT !.old = FALSE]
                      ELSE [q EXCEPT !.old = TRUE, !.read = TRUE]
-----------------------------------------------------------------------------
(* What the page makes of the answers.                                       *)
SeasonsOf(reads, t) == IF t = NoChoice THEN {} ELSE {s \in reads.seasons[t].answer : s.title = t}
SeasonIds(reads, t) == {s.id : s \in SeasonsOf(reads, t)}
ContextOf(reads, e) == IF e = NoChoice THEN Query(NoEvent) ELSE reads.details[e]
ContextPending(context) == context.read /\ (context.old \/ ~context.known)

\* The event's own answer is preferred to its entry in the list.
NextNumber(reads, e) ==
  IF e = NoChoice THEN NoNumber
  ELSE IF reads.details[e].known /\ reads.details[e].answer # NoEvent THEN reads.details[e].answer.next
  ELSE reads.list.answer[e]
EventContext(reads, e) ==
  CASE e = NoChoice -> "idle"
    [] e # NoChoice /\ NextNumber(reads, e) # NoNumber -> "resolved"
    [] e # NoChoice /\ NextNumber(reads, e) = NoNumber /\ (reads.list.read \/ reads.details[e].read)
       -> "pending"
    [] OTHER -> IF reads.details[e].known THEN "notFound" ELSE "failed"

OnlyOne(candidates) ==
  IF Cardinality(candidates) = 1 THEN CHOOSE c \in candidates : TRUE ELSE NoChoice

\* Empty conditions follow the event's previous match, or a lone candidate.  A list read
\* for another title says nothing about this one.
CarriedSeason(previous, title) == IF previous.title = title THEN previous.season ELSE NoChoice
FillTitle(setup, previous, titles) ==
  CASE setup.title # NoChoice -> setup.title
    [] setup.title = NoChoice /\ previous.title \in titles -> previous.title
    [] OTHER -> OnlyOne(titles)
FillSeason(setup, previous, title, ids) ==
  CASE setup.season # NoChoice -> setup.season
    [] setup.season = NoChoice /\ CarriedSeason(previous, title) # NoChoice -> CarriedSeason(previous, title)
    [] OTHER -> IF setup.title = title THEN OnlyOne(ids) ELSE NoChoice
FillSetup(setup, previous, titles, ids) ==
  LET title == FillTitle(setup, previous, titles)
  IN IF title = NoChoice THEN setup
     ELSE [title |-> title, season |-> FillSeason(setup, previous, title, ids)]

\* Choices that no longer exist are dropped, by lists that are known and not empty.
DropGone(setup, titles, ids) ==
  CASE titles # {} /\ setup.title \notin titles -> NoSetup
    [] ids # {} /\ setup.season \notin ids -> [setup EXCEPT !.season = NoChoice]
    [] OTHER -> setup

DeriveEvent(v, reads) ==
  IF EventContext(reads, v.event) = "notFound"
  THEN [v EXCEPT !.event = NoChoice, !.number = NoNumber] ELSE v
DeriveNumber(v, reads) ==
  IF v.event # NoChoice /\ v.number = NoNumber /\ ~ContextPending(reads.details[v.event])
  THEN [v EXCEPT !.number = NextNumber(reads, v.event)] ELSE v
DeriveSetup(v, reads) ==
  LET kept == DropGone(v.setup, reads.titles.answer, SeasonIds(reads, v.setup.title))
      context == ContextOf(reads, v.event)
      previous == IF context.known THEN context.answer.previous ELSE NoSetup
  IN [v EXCEPT !.setup = IF ContextPending(context) THEN kept
                         ELSE FillSetup(kept, previous, reads.titles.answer,
                                        SeasonIds(reads, kept.title))]
Derive(v, reads) == DeriveSetup(DeriveNumber(DeriveEvent(v, reads), reads), reads)
-----------------------------------------------------------------------------
(* A change of the conditions or of an answer, and what is rendered of it:   *)
(* conditions are derived, and the reads of what they name begin, until      *)
(* nothing changes.                                                          *)
ObservedOnly(queries, from, to, fresh) ==
  [k \in DOMAIN queries |-> CASE k = to /\ k # from -> Observed(queries[k], fresh)
                              [] k # to -> [queries[k] EXCEPT !.read = FALSE]
                              [] OTHER -> queries[k]]
Follow(from, to, reads, fresh) ==
  [reads EXCEPT !.seasons = ObservedOnly(@, from.setup.title, to.setup.title, fresh),
                !.details = ObservedOnly(@, from.event, to.event, fresh)]
Pass(page, fresh) ==
  LET v == Derive(page.value, page.reads)
  IN [value |-> v, reads |-> Follow(page.value, v, page.reads, fresh)]
NumberSource(reads, e) ==
  IF reads.details[e].known /\ ~reads.details[e].old THEN "read" ELSE "cached"
Rendered(v, number, reads) ==
  \E fresh \in BOOLEAN :
    LET begun == [value |-> v, reads |-> Follow(osValue, v, reads, fresh)]
        settled == Pass(Pass(Pass(begun, fresh), fresh), fresh)
    IN /\ osValue' = settled.value /\ osReads' = settled.reads
       /\ osNumber' = IF settled.value.number = v.number THEN number
                      ELSE [from |-> IF settled.value.number = NoNumber THEN "none"
                                     ELSE NumberSource(settled.reads, settled.value.event),
                            event |-> settled.value.event]
-----------------------------------------------------------------------------
(* The user's choices.  A picked entry brings the number it shows.           *)
SetupChanged(v, number) ==
  /\ OsMove /\ Rendered(v, number, osReads) /\ ValuesKept /\ UNCHANGED osFaulted
ChooseTitle ==
  \E t \in osReads.titles.answer :
    SetupChanged([osValue EXCEPT !.setup = [title |-> t, season |-> NoChoice]], osNumber)
ChooseSeason ==
  \E s \in SeasonIds(osReads, osValue.setup.title) :
    SetupChanged([osValue EXCEPT !.setup.season = s], osNumber)
Picked(e) == [osValue EXCEPT !.event = e, !.number = NextNumber(osReads, e)]
Pickable == {e \in OsEvents : NextNumber(osReads, e) # NoNumber} \cup {NoChoice}
ChooseEvent ==
  \E e \in Pickable \ {osValue.event} :
    SetupChanged(Picked(e), [from |-> IF e = NoChoice THEN "none" ELSE "picked", event |-> e])
TypeNumber ==
  /\ osValue.event # NoChoice
  /\ \E n \in 0..OsNumbers :
       SetupChanged([osValue EXCEPT !.number = n], [from |-> "typed", event |-> osValue.event])
-----------------------------------------------------------------------------
(* Reads that end, and the retry the page offers when one failed.            *)
Arrives(reads) ==
  Rendered(osValue, osNumber, reads) /\ ValuesKept /\ UNCHANGED osMoved
SetupReadSucceeds ==
  /\ UNCHANGED osFaulted
  /\ \/ osReads.titles.read
        /\ Arrives([osReads EXCEPT !.titles = Answered(osServer.titles)])
     \/ osReads.list.read
        /\ Arrives([osReads EXCEPT !.list =
                      Answered([e \in OsEvents |-> osServer.events[e].next])])
     \/ \E t \in OsTitles : osReads.seasons[t].read
          /\ Arrives([osReads EXCEPT !.seasons[t] =
                        Answered({s \in osServer.seasons : s.title = t})])
     \/ \E e \in OsEvents : osReads.details[e].read
          /\ Arrives([osReads EXCEPT !.details[e] = Answered(osServer.events[e])])
SetupReadFails ==
  /\ OsFault
  /\ \/ osReads.titles.read /\ Arrives([osReads EXCEPT !.titles = Failed(@)])
     \/ osReads.list.read /\ Arrives([osReads EXCEPT !.list = Failed(@)])
     \/ \E t \in OsTitles : osReads.seasons[t].read
          /\ Arrives([osReads EXCEPT !.seasons[t] = Failed(@)])
     \/ \E e \in OsEvents : osReads.details[e].read
          /\ Arrives([osReads EXCEPT !.details[e] = Failed(@)])

SeasonsRead == IF osValue.setup.title = NoChoice THEN Query({})
               ELSE osReads.seasons[osValue.setup.title]
SetupFailed ==
  \/ ShowError(osReads.titles) \/ ShowError(osReads.list) \/ ShowError(SeasonsRead)
  \/ EventContext(osReads, osValue.event) \in {"notFound", "failed"}
SetupRefreshing == osReads.titles.read \/ SeasonsRead.read
              \/ EventContext(osReads, osValue.event) = "pending"
RetrySetup ==
  /\ SetupFailed /\ ~SetupRefreshing /\ OsMove
  /\ osReads' = [titles |-> Fetching(osReads.titles), list |-> Fetching(osReads.list),
                 seasons |-> [t \in OsTitles |-> IF t = osValue.setup.title
                                                 THEN Fetching(osReads.seasons[t])
                                                 ELSE osReads.seasons[t]],
                 details |-> [e \in OsEvents |-> IF e = osValue.event
                                                 THEN Fetching(osReads.details[e])
                                                 ELSE osReads.details[e]]]
  /\ ValuesKept /\ UNCHANGED <<osform, osFaulted>>
-----------------------------------------------------------------------------
(* The conditions are taken for a submission when every choice is confirmed. *)
Loading ==
  \/ osReads.titles.read /\ ~osReads.titles.known
  \/ EventContext(osReads, osValue.event) = "pending"
  \/ ContextPending(ContextOf(osReads, osValue.event))
  \/ SeasonsRead.read /\ ~SeasonsRead.known
ChoicesReady ==
  /\ ~Loading /\ ~ShowError(osReads.titles) /\ ~ShowError(SeasonsRead)
  /\ EventContext(osReads, osValue.event) \notin {"notFound", "failed"}
  /\ osValue.setup.title \in osReads.titles.answer
  /\ osValue.setup.season \in SeasonIds(osReads, osValue.setup.title)
Valid(v) == v.setup.title # NoChoice /\ v.setup.season # NoChoice
            /\ (v.event # NoChoice => v.number # NoNumber)
TakeSetup ==
  /\ ChoicesReady /\ Valid(osValue) /\ osPlan # osValue
  /\ osPlan' = osValue
  /\ UNCHANGED <<osServer, osReads, osform, osMoved, osFaulted>>
-----------------------------------------------------------------------------
(* Others confirm matches, delete events, and add and retire titles and      *)
(* seasons.                                                                  *)
OthersChangeSetup ==
  /\ OsFault
  /\ \/ \E e \in OsEvents : \E s \in osServer.seasons :
          /\ osServer.events[e] # NoEvent /\ osServer.events[e].next < OsNumbers
          /\ osServer' = [osServer EXCEPT !.events[e] =
                            [next |-> @.next + 1,
                             previous |-> [title |-> s.title, season |-> s.id]]]
     \/ \E e \in OsEvents :
          osServer.events[e].previous = NoSetup /\ osServer' = [osServer EXCEPT !.events[e] = NoEvent]
     \/ \E s \in OsSeasons : osServer' = [osServer EXCEPT !.seasons = (@ \cup {s}) \ (@ \cap {s})]
     \/ \E t \in OsTitles : osServer' = [osServer EXCEPT !.titles = @ \ {t},
                                                         !.seasons = {s \in @ : s.title # t}]
  /\ UNCHANGED <<osReads, osform, osPlan, osMoved>>

Beginning(seasons, previous) ==
  [titles |-> OsTitles, seasons |-> seasons,
   events |-> [e \in OsEvents |-> [next |-> IF previous = NoSetup THEN 1 ELSE 2,
                                   previous |-> previous]]]
OsInit ==
  /\ \E seasons \in SUBSET OsSeasons :
       \E previous \in {NoSetup} \cup {[title |-> s.title, season |-> s.id] : s \in seasons} :
         osServer = Beginning(seasons, previous)
  /\ osReads = [titles |-> Fetching(Query({})),
                list |-> Fetching(Query([e \in OsEvents |-> NoNumber])),
                seasons |-> [t \in OsTitles |-> Query({})],
                details |-> [e \in OsEvents |-> IF e = OsStart THEN Fetching(Query(NoEvent))
                                                ELSE Query(NoEvent)]]
  /\ osValue = [NoPlanMade EXCEPT !.event = OsStart]
  /\ osNumber = [from |-> "none", event |-> OsStart]
  /\ osPlan = NoPlanMade /\ osMoved = 0 /\ osFaulted = 0
OsNext ==
  \/ ChooseTitle \/ ChooseSeason \/ ChooseEvent \/ TypeNumber
  \/ SetupReadSucceeds \/ SetupReadFails \/ RetrySetup \/ TakeSetup
  \/ OthersChangeSetup

OsTypeOK ==
  /\ osServer.titles \subseteq OsTitles /\ osServer.seasons \subseteq OsSeasons
  /\ osValue.event \in OsEvents \cup {NoChoice} /\ osValue.number \in 0..OsNumbers
  /\ osValue.setup.title \in OsTitles \cup {NoChoice}
  /\ osNumber.from \in {"none", "typed", "picked", "read", "cached"}
  /\ osMoved \in 0..OsMoves /\ osFaulted \in 0..OsFaults

(* Code behaviour: whatever is chosen, filled, read late or retired, the     *)
(* season belongs to the title and the number was set for the event; a plan  *)
(* has a number for its event.                                               *)
SeasonOfTitle(setup) ==
  setup.season = NoChoice \/ \E s \in OsSeasons : s.id = setup.season /\ s.title = setup.title
SetupFits ==
  /\ SeasonOfTitle(osValue.setup) /\ SeasonOfTitle(osPlan.setup)
  /\ osValue.number # NoNumber => osNumber.event = osValue.event /\ osValue.event # NoChoice
  /\ osPlan.event # NoChoice => osPlan.number # NoNumber

(* Code behaviour: a number is filled in only when the event's own read has  *)
(* answered, or has failed.                                                  *)
NumberWaitsForRead ==
  osNumber'.from = "cached" /\ osNumber # osNumber' => osReads'.details[osValue'.event].failed

(* Code behaviour: an answer changes a choice only if what is chosen is no   *)
(* longer there.                                                             *)
ChoicesStay ==
  osMoved' = osMoved =>
    /\ osValue.setup.title \in {NoChoice, osValue'.setup.title}
       \/ osValue.setup.title \notin osReads'.titles.answer
    /\ \/ osValue.setup.season \in {NoChoice, osValue'.setup.season}
       \/ osValue.setup.title # osValue'.setup.title
       \/ osValue.setup.season \notin SeasonIds(osReads', osValue.setup.title)
    /\ osValue.event # osValue'.event => osReads'.details[osValue.event].known
    /\ osValue.event = osValue'.event => osValue.number \in {NoNumber, osValue'.number}
==============================================================================
