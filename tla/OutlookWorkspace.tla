-------------------------- MODULE OutlookWorkspace --------------------------
(***************************************************************************)
(* The outlook workspace: the future results a user tries for a focus and  *)
(* a rival player.  It starts from their recent results, lives as long as  *)
(* the comparison page and this pair, follows new publications unless the  *)
(* user tried something of his own, and takes whole gestures, typed means, *)
(* counts from a dialog, historical examples and goals as one change each. *)
(*                                                                         *)
(* Roles are 1, the focus, and 2, the rival.  What is on screen is the     *)
(* store's state, so a proposal outlives a change only in the dialog.      *)
(***************************************************************************)
EXTENDS OutlookCalculation

CONSTANTS OwKeys,      \* comparisons: a scope and its pair of players
          OwStart,     \* the one opened first
          OwFacts,     \* per comparison and publication: recent results and totals
          OwArtifacts, \* bound: publications
          OwExamples,  \* results of past stretches of games
          OwTyped,     \* what a user may type as a mean
          OwHorizons,  \* horizons of a goal
          OwHistory,   \* changes that can be undone (the code's 50)
          OwMoves      \* bound: edits

ASSUME OwAssumption ==
  /\ OwStart \in OwKeys /\ "none" \notin OwKeys /\ OwArtifacts \in Nat \ {0}
  /\ OwHorizons # {} /\ OwHorizons \subseteq Nat \ {0}
  /\ \A example \in OwExamples : IsDistribution(example)
  /\ \A key \in OwKeys, artifact \in 1..OwArtifacts :
       LET facts == OwFacts[key][artifact]
       IN /\ \A role \in 1..2 : IsDistribution(facts.recent[role])
          /\ facts.totals \in [games : Nat \ {0}, focus : Nat, rival : Nat]

VARIABLES owWorkspace, \* the store's value
          owSelected,  \* the comparison the page's selection names
          owPage,      \* the accepted summary: comparison and publication
          owMounted,   \* the outlook is the view shown
          owDialog,    \* the open proposal of counts
          owMoved

owvars == <<owWorkspace, owSelected, owPage, owMounted, owDialog, owMoved>>

Roles == 1..2
OtherRole(role) == 3 - role
NoWorkspace == [key |-> "none", gesture |-> <<>>]
NoText == <<>>
AsDisplayed == <<0, 1>>  \* the rounded mean as the field shows it
NoGesture == <<>>
NoPairKept == <<>>
NoDialog == [role |-> 0]

Source(kind, artifact) == [kind |-> kind, artifact |-> artifact]
Saved(entry) == [dist |-> entry.dist, source |-> entry.source]
Snapshot(state) == <<Saved(state.entries[1]), Saved(state.entries[2])>>
Peer(state, role) == state.entries[OtherRole(role)].dist
Pending(entry) == entry.draft # NoText \/ entry.error
SamePair(a, b) == \A role \in Roles : SameDistribution(a[role].dist, b[role].dist)

UpdateEntry(state, role, entry) == [state EXCEPT !.entries[role] = entry]
Cleared(state, role) ==
  [state EXCEPT !.entries[role].draft = NoText, !.entries[role].error = FALSE]
Refused(state, role) == [state EXCEPT !.entries[role].error = TRUE]
Remember(history, pair) ==
  LET all == Append(history, pair)
  IN IF Len(all) > OwHistory THEN Tail(all) ELSE all

CanPin(state) ==
  /\ state.gesture = NoGesture
  /\ \A role \in Roles : ~Pending(state.entries[role])
  /\ state.pinned # NoPairKept => ~SamePair(state.pinned, state.entries)
Pin(state) == IF CanPin(state) THEN [state EXCEPT !.pinned = Snapshot(state)] ELSE state

RecentEntry(page, role) ==
  [dist |-> OwFacts[page.key][page.artifact].recent[role],
   source |-> Source("recent", page.artifact), draft |-> NoText, error |-> FALSE]
Fresh(page) ==
  [key |-> page.key, artifact |-> page.artifact,
   entries |-> <<RecentEntry(page, 1), RecentEntry(page, 2)>>,
   history |-> <<>>, pinned |-> NoPairKept, gesture |-> NoGesture,
   task |-> "performance", transfer |-> <<3, 4>>, goal |-> Min(OwHorizons), goalValid |-> TRUE]

(* What the accepted summary makes of a stored workspace.                    *)
FollowsRecent(state) ==
  \A role \in Roles : state.entries[role].source = Source("recent", state.artifact)
AdoptSummary(state, page) ==
  IF state.key # page.key THEN Fresh(page)
  ELSE IF state.artifact = page.artifact THEN state
  ELSE [state EXCEPT
          !.artifact = page.artifact, !.history = <<>>, !.pinned = NoPairKept,
          !.gesture = NoGesture,
          !.entries =
             IF FollowsRecent(state)
             THEN <<[RecentEntry(page, 1) EXCEPT !.draft = state.entries[1].draft],
                    [RecentEntry(page, 2) EXCEPT !.draft = state.entries[2].draft]>>
             ELSE @]

(* A new distribution for one player: refused beside the other's, nothing    *)
(* new, or one more change; a change inside a gesture is not yet complete.   *)
ApplyDistribution(state, role, dist, source) ==
  LET prior == state.entries[role]
      sameSource == source.kind # "recent" \/ source = prior.source
  IN IF ~Compatible(dist, Peer(state, role)) THEN Refused(state, role)
     ELSE IF SameDistribution(prior.dist, dist) /\ sameSource THEN Cleared(state, role)
     ELSE [UpdateEntry(state, role, [dist |-> dist, source |-> source,
                                     draft |-> NoText, error |-> FALSE])
             EXCEPT !.history = IF state.gesture = NoGesture
                                THEN Remember(@, Snapshot(state)) ELSE @]

BeginGesture(state, role) ==
  IF state.gesture # NoGesture THEN state
  ELSE [state EXCEPT !.gesture = [role |-> role, before |-> Snapshot(state)]]
Restore(state, pair) ==
  [state EXCEPT !.entries = [role \in Roles |->
     [state.entries[role] EXCEPT !.dist = pair[role].dist, !.source = pair[role].source]]]
FinishKeepingAll(state, cancel) ==
  IF state.gesture = NoGesture THEN state
  ELSE LET before == state.gesture.before
           next == IF cancel THEN Restore(state, before)
                   ELSE [state EXCEPT !.history = Remember(@, before)]
       IN [next EXCEPT !.gesture = NoGesture]
FinishGesture(state, cancel) ==
  IF state.gesture = NoGesture THEN state
  ELSE LET before == state.gesture.before
           next == IF cancel \/ SamePair(state.entries, before) THEN Restore(state, before)
                   ELSE [state EXCEPT !.history = Remember(@, before)]
       IN [next EXCEPT !.gesture = NoGesture]
Undo(state) ==
  IF state.gesture # NoGesture \/ state.history = <<>> THEN state
  ELSE LET restored == Restore(state, state.history[Len(state.history)])
       IN [Cleared(Cleared(restored, 1), 2)
             EXCEPT !.history = SubSeq(@, 1, Len(@) - 1)]

(* The slider and its keys: from where the gesture began.                    *)
Origin(state, role) ==
  IF state.gesture = NoGesture THEN Saved(state.entries[role]) ELSE state.gesture.before[role]
SetMean(state, role, step) ==
  LET start == Origin(state, role)
      counts == CountsFromMean(step, Peer(state, role), start.dist)
  IN IF RankSum(start.dist) * OcSteps = step * Total(start.dist)
     THEN ApplyDistribution(state, role, start.dist, start.source)
     ELSE IF counts = NoCounts THEN Refused(state, role)
     ELSE ApplyDistribution(state, role, counts, Source("average", 0))

(* The typed mean.                                                           *)
CommitMean(state, role) ==
  LET entry == state.entries[role]
      input == MeanInput(entry.draft, Mean(entry.dist))
      counts == CountsFromMean(input.step, Peer(state, role), entry.dist)
  IN IF entry.draft = AsDisplayed \/ input.kind = "unchanged" THEN Cleared(state, role)
     ELSE IF input.kind = "invalid" \/ counts = NoCounts THEN Refused(state, role)
     ELSE ApplyDistribution(state, role, counts, Source("average", 0))

(* Whole counts: games move between two ranks.                               *)
CountBase(state, role, dist) ==
  IF HasWholeCounts(dist) THEN WholeCounts(dist) ELSE NearestWholeCounts(dist, Peer(state, role))
TransferCount(state, role, value) ==
  LET gain == state.transfer[1]
      lose == state.transfer[2]
      origin == Origin(state, role)
      base == CountBase(state, role, origin.dist)
      total == base[gain] + base[lose]
      limits == Capacities(Peer(state, role), OcGames)
  IN IF base = NoCounts THEN state
     ELSE IF value \notin 0..total \/ value > limits[gain] \/ total - value > limits[lose]
     THEN Refused(state, role)
     ELSE IF value = base[gain]
     THEN IF SameDistribution(state.entries[role].dist, origin.dist) \/ state.gesture = NoGesture
          THEN [state EXCEPT !.entries[role].error = FALSE]
          ELSE ApplyDistribution(state, role, origin.dist, origin.source)
     ELSE ApplyDistribution(state, role,
            [base EXCEPT ![gain] = value, ![lose] = total - value], Source("counts", 0))
TransferRank(state, role, side, rank) ==
  LET finished == FinishGesture(state, FALSE)
  IN [finished EXCEPT !.entries[role].error = FALSE,
                      !.transfer = IF side = "lose" THEN <<@[1], rank>> ELSE <<rank, @[2]>>]
CountInput(state, role, value) ==
  LET gain == state.transfer[1]
      lose == state.transfer[2]
      counts == CountBase(state, role, state.entries[role].dist)
      capacity == Capacities(Peer(state, role), OcGames)
      total == counts[gain] + counts[lose]
  IN IF counts = NoCounts THEN state
     ELSE IF value \in Max({0, total - capacity[lose]})..Min({capacity[gain], total})
     THEN TransferCount(BeginGesture(state, role), role, value)
     ELSE Refused(state, role)

(* The goal: shown as reached, or the largest mean that reaches it.  It uses *)
(* what the rival's fields have applied, so nothing of theirs may be pending.*)
UsePerformance(state) == [state EXCEPT !.task = "performance"]
GoalPending(state) ==
  Pending(state.entries[2]) \/ state.gesture # NoGesture \/ ~state.goalValid
ReachesOrTies(mean, threshold) == ~Less(threshold, mean)
Reaches(mean, threshold) == Less(mean, threshold)
Totals(state) == OwFacts[state.key][state.artifact].totals
GoalCounts(state) ==
  LET needed == RequiredMean(Totals(state), state.entries[2].dist, state.goal)
  IN IF needed.maximum = 0 THEN NoCounts
     ELSE CountsFromMean(needed.maximum, state.entries[2].dist, state.entries[1].dist)
GoalShownReached(state) ==
  Reaches(Mean(state.entries[1].dist),
          RequiredMean(Totals(state), state.entries[2].dist, state.goal).threshold)
CanApplyGoal(state) ==
  ~GoalPending(state) /\ (GoalShownReached(state) \/ GoalCounts(state) # NoCounts)
\* outlookProposals turns down a proposal whose horizon, rival or mean is no longer the
\* store's. Here the screen is the store, so what is expected is what is found.
ApplyGoal(state) ==
  UsePerformance(IF GoalShownReached(state) THEN Cleared(state, 1)
                 ELSE ApplyDistribution(state, 1, GoalCounts(state), Source("average", 0)))

(* A past stretch of games: at least as good as the focus, at least as bad   *)
(* as the rival, or reaching the goal.                                       *)
ExamplePending(state, role, kind) ==
  \/ state.gesture # NoGesture
  \/ Pending(state.entries[OtherRole(role)])
  \/ kind = "mean" /\ Pending(state.entries[role])
  \/ kind = "goal" /\ ~state.goalValid
ExampleMeets(state, role, kind, example) ==
  LET mean == Mean(state.entries[role].dist)
  IN IF kind = "goal"
     THEN Reaches(Mean(example),
                  RequiredMean(Totals(state), state.entries[2].dist, state.goal).threshold)
     ELSE IF role = 1 THEN ~Less(mean, Mean(example)) ELSE ~Less(Mean(example), mean)
ApplyExample(state, role, kind, example) ==
  LET next == ApplyDistribution(state, role, example, Source("example", state.artifact))
  IN IF kind = "goal" THEN UsePerformance(next) ELSE next

RestoreRecent(state, role) ==
  LET recent == RecentEntry(owPage, role)
  IN ApplyDistribution(FinishGesture(state, FALSE), role, recent.dist, recent.source)
-----------------------------------------------------------------------------
(* The page.  Edits go through the summary store: they start from the stored *)
(* workspace as the accepted summary adopts it, and commit once.             *)
Read == AdoptSummary(owWorkspace, owPage)
OtherChosen == owPage.key # owSelected
Lifecycle(state, key) == IF state.key # key THEN NoWorkspace ELSE state
AdoptPage(page) ==
  /\ owPage' = page
  /\ owWorkspace' = IF owMounted THEN AdoptSummary(owWorkspace, page) ELSE owWorkspace

OpenOutlook ==
  /\ ~owMounted
  /\ owMounted' = TRUE
  /\ owWorkspace' = Read
  /\ UNCHANGED <<owSelected, owPage, owDialog, owMoved>>
LeaveOutlook ==
  /\ owMounted
  /\ owMounted' = FALSE
  /\ owWorkspace' = FinishGesture(owWorkspace, FALSE)
  /\ owDialog' = NoDialog
  /\ UNCHANGED <<owSelected, owPage, owMoved>>
(* The page defers a publication while a gesture runs, but not another       *)
(* selection; a new comparison starts over, in the dialog too.               *)
Publication ==
  /\ owPage.artifact < OwArtifacts /\ owWorkspace.gesture = NoGesture
  /\ AdoptPage([owPage EXCEPT !.artifact = @ + 1])
  /\ UNCHANGED <<owSelected, owMounted, owDialog, owMoved>>
SelectComparison ==
  /\ owMoved < OwMoves
  /\ owMoved' = owMoved + 1
  /\ \E key \in OwKeys \ {owSelected} :
       /\ owSelected' = key
       /\ owWorkspace' = Lifecycle(owWorkspace, key)
  /\ UNCHANGED <<owPage, owMounted, owDialog>>
ArriveComparison ==
  /\ OtherChosen
  /\ AdoptPage([owPage EXCEPT !.key = owSelected])
  /\ owDialog' = NoDialog
  /\ UNCHANGED <<owSelected, owMounted, owMoved>>

OnPage == owMounted /\ ~OtherChosen /\ owDialog = NoDialog
Edit(next) ==
  /\ owWorkspace' = next
  /\ UNCHANGED <<owSelected, owPage, owMounted, owDialog>>
Counted == owMoved < OwMoves /\ owMoved' = owMoved + 1
Uncounted == UNCHANGED owMoved
Quiet == OnPage /\ Read.gesture = NoGesture
Editable(role) == Read.task = "performance" \/ role = 2

MeanDraft ==
  /\ Quiet /\ Counted
  /\ \E role \in Roles, typed \in OwTyped :
       /\ Editable(role)
       /\ Edit(UpdateEntry(Read, role, [Read.entries[role] EXCEPT !.draft = typed, !.error = FALSE]))
CancelMean ==
  /\ Quiet /\ Uncounted
  /\ \E role \in Roles : Editable(role) /\ Pending(Read.entries[role]) /\ Edit(Cleared(Read, role))
CommitMeanDraft ==
  /\ Quiet /\ Uncounted
  /\ \E role \in Roles :
       Editable(role) /\ Read.entries[role].draft # NoText /\ Edit(CommitMean(Read, role))

BeginSlide ==
  /\ Quiet /\ Uncounted
  /\ \E role \in Roles : Editable(role) /\ Edit(BeginGesture(Read, role))
Slide ==
  /\ OnPage /\ Counted
  /\ Read.gesture # NoGesture
  /\ LET role == Read.gesture.role
         limits == MeanLimits(Peer(Read, role))
     IN \E step \in limits.minimum..limits.maximum : Edit(SetMean(Read, role, step))
PressKey ==
  /\ Quiet /\ Counted
  /\ \E role \in Roles, direction \in {1, -1} :
       LET next == NextMean(Mean(Read.entries[role].dist), direction, Peer(Read, role))
           held == BeginGesture(Read, role)
       IN Editable(role) /\ Edit(IF next = 0 THEN held ELSE SetMean(held, role, next))
FinishSlide ==
  /\ OnPage /\ Uncounted
  /\ Read.gesture # NoGesture
  /\ \E cancel \in BOOLEAN : Edit(FinishGesture(Read, cancel))

UndoChange == Quiet /\ Uncounted /\ Read.history # <<>> /\ Edit(Undo(Read))
PinPair == Quiet /\ Uncounted /\ CanPin(Read) /\ Edit(Pin(Read))
Unpin == Quiet /\ Uncounted /\ Read.pinned # NoPairKept /\ Edit([Read EXCEPT !.pinned = NoPairKept])
ChooseTask ==
  /\ Quiet /\ Uncounted
  /\ \E task \in {"performance", "goal"} \ {Read.task} : Edit([Read EXCEPT !.task = task])
ChooseHorizon ==
  /\ Quiet /\ Read.task = "goal"
  /\ \/ Counted /\ \E horizon \in OwHorizons :
          Edit([Read EXCEPT !.goal = horizon, !.goalValid = TRUE])
     \/ Counted /\ Edit([Read EXCEPT !.goalValid = FALSE])
PursueGoal ==
  Quiet /\ Uncounted /\ Read.task = "goal" /\ CanApplyGoal(Read) /\ Edit(ApplyGoal(Read))
TryExample ==
  /\ Quiet /\ Counted
  /\ \E role \in Roles, kind \in {"mean", "goal"}, example \in OwExamples :
       /\ kind = "goal" => Read.task = "goal" /\ role = 1
       /\ kind = "mean" => Editable(role)
       /\ ~ExamplePending(Read, role, kind)
       /\ ExampleMeets(Read, role, kind, example) /\ Compatible(example, Peer(Read, role))
       /\ Edit(ApplyExample(Read, role, kind, example))
UseRecent ==
  /\ Quiet /\ Counted
  /\ \E role \in Roles : Editable(role) /\ Edit(RestoreRecent(Read, role))

(* The dialog edits its own copy of the workspace.                           *)
OpenCounts ==
  /\ Quiet /\ Counted
  /\ \E role \in Roles :
       owDialog' = [role |-> role, key |-> Read.key, artifact |-> Read.artifact,
                    draft |-> [Cleared(Cleared(Read, 1), 2) EXCEPT !.history = <<>>]]
  /\ UNCHANGED <<owWorkspace, owSelected, owPage, owMounted>>
EditDraft(next) == next # owDialog.draft /\ owDialog' = [owDialog EXCEPT !.draft = next]
EditCounts ==
  /\ owDialog # NoDialog /\ Counted
  /\ UNCHANGED <<owWorkspace, owSelected, owPage, owMounted>>
  /\ LET draft == owDialog.draft
         role == owDialog.role
         finished == FinishGesture(draft, FALSE)
     IN \/ EditDraft(BeginGesture(draft, role))
        \/ \E cancel \in BOOLEAN : EditDraft(FinishGesture(draft, cancel))
        \/ EditDraft([finished EXCEPT !.entries[role].error = FALSE])
        \/ \E side \in {"gain", "lose"}, rank \in RankIndex \ {draft.transfer[1], draft.transfer[2]} :
             EditDraft(TransferRank(draft, role, side, rank))
        \/ \E value \in 0..(OcGames + 1) : EditDraft(CountInput(draft, role, value))
        \/ \E value \in 0..OcGames : EditDraft(TransferCount(draft, role, value))
        \/ EditDraft(Undo(finished))
ApplyCounts ==
  /\ owDialog # NoDialog
  /\ LET role == owDialog.role
         entry == owDialog.draft.entries[role]
     IN /\ ~entry.error
        /\ owDialog.key = Read.key /\ owDialog.artifact = Read.artifact
        /\ Compatible(entry.dist, Peer(Read, role))
        /\ owWorkspace' = ApplyDistribution(FinishGesture(Read, FALSE), role, entry.dist, entry.source)
  /\ owDialog' = NoDialog
  /\ UNCHANGED <<owSelected, owPage, owMounted, owMoved>>
CloseCounts ==
  /\ owDialog # NoDialog
  /\ owDialog' = NoDialog
  /\ UNCHANGED <<owWorkspace, owSelected, owPage, owMounted, owMoved>>

OwInit ==
  /\ owWorkspace = NoWorkspace
  /\ owSelected = OwStart
  /\ owPage = [key |-> owSelected, artifact |-> 1]
  /\ owMounted = FALSE /\ owDialog = NoDialog /\ owMoved = 0
OwNext ==
  \/ OpenOutlook \/ LeaveOutlook \/ Publication \/ SelectComparison \/ ArriveComparison
  \/ MeanDraft \/ CancelMean \/ CommitMeanDraft \/ BeginSlide \/ Slide \/ PressKey \/ FinishSlide
  \/ UndoChange \/ PinPair \/ Unpin \/ ChooseTask \/ ChooseHorizon \/ PursueGoal \/ TryExample
  \/ UseRecent \/ OpenCounts \/ EditCounts \/ ApplyCounts \/ CloseCounts
OwSpec == OwInit /\ [][OwNext]_owvars
-----------------------------------------------------------------------------
PairsOf(state) ==
  {Snapshot(state)} \cup {state.history[i] : i \in DOMAIN state.history}
  \cup (IF state.pinned = NoPairKept THEN {} ELSE {state.pinned})
  \cup (IF state.gesture = NoGesture THEN {} ELSE {state.gesture.before})
StateFits(state) ==
  /\ \A pair \in PairsOf(state) : Compatible(pair[1].dist, pair[2].dist)
  /\ Len(state.history) <= OwHistory
  /\ state.artifact \in 1..OwArtifacts /\ state.goal \in OwHorizons
OwTypeOK ==
  /\ owWorkspace # NoWorkspace => StateFits(owWorkspace)
  /\ owDialog # NoDialog => StateFits(owDialog.draft)
  /\ owPage.artifact \in 1..OwArtifacts /\ {owPage.key, owSelected} \subseteq OwKeys

(* Code behaviour: one Undo takes back one visible change of what a player   *)
(* is tried with: no two neighbours in the history are the same, and the     *)
(* last differs from the pair on screen (during a gesture, from the pair it  *)
(* began with), so a drag is one change and an abandoned one is none.        *)
Changes(state) ==
  LET now == IF state.gesture = NoGesture THEN Snapshot(state) ELSE state.gesture.before
      trail == Append(state.history, now)
  IN \A i \in 1..Len(state.history) : trail[i] # trail[i + 1]
UndoTakesBackOneChange ==
  /\ owWorkspace # NoWorkspace => Changes(owWorkspace)
  /\ owDialog # NoDialog => Changes(owDialog.draft)

(* Code behaviour: what a goal or an example for it puts on screen does put  *)
(* the focus strictly ahead at the goal's horizon, against results of the    *)
(* rival that are applied, from the totals the page shows.                   *)
GoalIsReached ==
  [][owWorkspace' # NoWorkspace /\ owWorkspace'.task = "performance"
       /\ Read.task = "goal" /\ (PursueGoal \/ TryExample) =>
       LET pair == owWorkspace'.entries
       IN /\ ProjectOutlook(OwFacts[owPage.key][owPage.artifact].totals, pair[1].dist,
                            pair[2].dist, owWorkspace'.goal) = "ahead"
          /\ ~Pending(pair[2]) /\ owWorkspace'.goalValid]_owvars
=============================================================================
