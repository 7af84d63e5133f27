------------------------- MODULE OutlookCalculation -------------------------
(***************************************************************************)
(* The exact arithmetic of the outlook: what constant future results mean  *)
(* for two totals, which results two players can have together, which      *)
(* counts a typed mean stands for, and the joint table of ranks that is    *)
(* closest to the observed one.                                            *)
(*                                                                         *)
(* A distribution is a tuple of four weights; only their ratios count.  A  *)
(* mean is a pair <<n, d>>.  The joint table is built one augmentation at  *)
(* a time, by any cheapest path: the code's edge order is left out.        *)
(***************************************************************************)
EXTENDS Integers, Sequences, FiniteSetsExt

CONSTANTS OcSteps,       \* inputs of a mean per rank (the code's 100)
          OcGrid,        \* count units per input of a mean (20)
          OcGames,       \* games of an input of counts (20)
          OcRecent,      \* distributions observed in recent matches
          OcCumulatives, \* totals of two players: games, focus and rival rank sums
          OcFar,         \* bound: the last horizon looked at
          OcTables       \* observed joint tables

Units == OcSteps * OcGrid
RankIndex == 1..4
Cells == {cell \in RankIndex \X RankIndex : cell[1] # cell[2]}

ASSUME OutlookAssumption ==
  /\ {OcSteps, OcGrid, OcGames, OcFar} \subseteq Nat \ {0}
  /\ Units % 4 = 0 /\ OcSteps % OcGames = 0

VARIABLES ocAsked, \* the totals and the pair of distributions asked about
          jnPlan,  \* the joint table to build: rows, columns and the observed cells
          jnFlow,  \* per cell: mass within and beyond the observed one
          jnLeft,  \* mass still to be placed
          jnState  \* "none", "building", "built" or "refused"

ocvars == <<ocAsked, jnPlan, jnFlow, jnLeft, jnState>>

Sum4(w) == w[1] + w[2] + w[3] + w[4]
Total(d) == Sum4(d)
RankSum(d) == d[1] + 2 * d[2] + 3 * d[3] + 4 * d[4]
IsDistribution(d) == d \in [RankIndex -> Nat] /\ Total(d) > 0
Mean(d) == <<RankSum(d), Total(d)>>
Less(a, b) == a[1] * b[2] < b[1] * a[2]
Ceiling(n, d) == -((-n) \div d)
Clamp(value, low, high) == Max({low, Min({high, value})})
Distributions(total) ==
  {d \in [RankIndex -> 0..total] : Total(d) = total}

SameDistribution(a, b) == \A r \in RankIndex : a[r] * Total(b) = b[r] * Total(a)
IncompatibleRanks(a, b) ==
  {r \in RankIndex : a[r] * Total(b) + b[r] * Total(a) > Total(a) * Total(b)}
Compatible(a, b) == IncompatibleRanks(a, b) = {}

(* What an opponent leaves of `games` in each rank.                          *)
Capacities(opponent, games) ==
  [r \in RankIndex |-> (games * (Total(opponent) - opponent[r])) \div Total(opponent)]
HasWholeCounts(d) == \A r \in RankIndex : (d[r] * OcGames) % Total(d) = 0
WholeCounts(d) == [r \in RankIndex |-> (d[r] * OcGames) \div Total(d)]

(* The rank sum of filling the ranks in an order, up to their capacities.    *)
Endpoint(capacity, total, order) ==
  LET Left[i \in 0..4] ==
        IF i = 0 THEN total ELSE Left[i - 1] - Min({capacity[order[i]], Left[i - 1]})
      Taken(i) == Left[i - 1] - Left[i]
  IN order[1] * Taken(1) + order[2] * Taken(2) + order[3] * Taken(3) + order[4] * Taken(4)
Upwards == <<1, 2, 3, 4>>
Downwards == <<4, 3, 2, 1>>

MeanLimits(opponent) ==
  LET all == Total(opponent)
      free == [r \in RankIndex |-> all - opponent[r]]
      capacity == Capacities(opponent, Units)
      low == Endpoint(capacity, Units, Upwards)
      high == Endpoint(capacity, Units, Downwards)
  IN [continuousMinimum |-> <<Endpoint(free, all, Upwards), all>>,
      continuousMaximum |-> <<Endpoint(free, all, Downwards), all>>,
      countMinimum |-> <<low, Units>>, countMaximum |-> <<high, Units>>,
      minimum |-> Ceiling(low, OcGrid), maximum |-> high \div OcGrid]

(* The member of a nonempty set whose key, a tuple, comes first.             *)
Precedes(s, t) == \E i \in DOMAIN s : s[i] < t[i] /\ \A j \in 1..(i - 1) : s[j] = t[j]
First(S, key(_)) ==
  LET keyed == {<<key(x), x>> : x \in S}
  IN (CHOOSE p \in keyed : \A q \in keyed : ~Precedes(q[1], p[1]))[2]

NoCounts == <<>>
Distance(counts, games, d) ==
  LET Gap(r) == counts[r] * Total(d) - games * d[r]
  IN Gap(1) * Gap(1) + Gap(2) * Gap(2) + Gap(3) * Gap(3) + Gap(4) * Gap(4)
Magnitude(n) == IF n < 0 THEN -n ELSE n

(* The whole counts an edit of counts starts from: nearest mean, then        *)
(* nearest counts, then more of the earlier ranks.                           *)
NearestWholeCounts(d, opponent) ==
  LET capacity == Capacities(opponent, OcGames)
      candidates == {c \in Distributions(OcGames) : \A r \in RankIndex : c[r] <= capacity[r]}
      Key(c) == <<Magnitude(RankSum(c) * Total(d) - OcGames * RankSum(d)),
                  Distance(c, OcGames, d), -c[1], -c[2], -c[3]>>
  IN IF candidates = {} THEN NoCounts ELSE First(candidates, Key)

(* The counts of a typed mean: per number of fourth places, the one or two   *)
(* numbers of third places next to the balanced one; of those, the most      *)
(* balanced, then the nearest to the reference, then fewer early ranks.      *)
ThirdPlaces(fourth, excess, capacity) ==
  LET first == Units - excess + 2 * fourth
      second == excess - 3 * fourth
      lower == Max({0, -first, Ceiling(second - capacity[2], 2)})
      upper == Min({capacity[3], capacity[1] - first, second \div 2})
      sixfold == 3 * excess - Units - 8 * fourth
  IN IF lower > upper THEN {}
     ELSE Clamp(sixfold \div 6, lower, upper)..Clamp(Ceiling(sixfold, 6), lower, upper)
Imbalance(c) ==
  LET Off(r) == c[r] - Units \div 4
  IN Off(1) * Off(1) + Off(2) * Off(2) + Off(3) * Off(3) + Off(4) * Off(4)
CountsFromMean(step, opponent, reference) ==
  LET capacity == Capacities(opponent, Units)
      excess == OcGrid * step - Units
      candidates ==
        UNION {{<<Units - excess + 2 * fourth + third, excess - 3 * fourth - 2 * third,
                  third, fourth>> : third \in ThirdPlaces(fourth, excess, capacity)}
               : fourth \in 0..capacity[4]}
      Key(c) == <<Imbalance(c), Distance(c, Units, reference)>> \o c
  IN IF step \notin OcSteps..(4 * OcSteps) \/ candidates = {} THEN NoCounts
     ELSE First(candidates, Key)

(* The next input of a mean in a direction (1 or -1), or 0.                  *)
NextMean(current, direction, opponent) ==
  LET limits == MeanLimits(opponent)
      next == IF direction = 1
              THEN Max({(current[1] * OcSteps) \div current[2] + 1, limits.minimum})
              ELSE Min({Ceiling(current[1] * OcSteps, current[2]) - 1, limits.maximum})
  IN IF next \in limits.minimum..limits.maximum THEN next ELSE 0

(* What a typed number means: nothing new, an input of a mean, or an error.  *)
NotDecimal == <<0, 0>>
MeanInput(typed, current) ==
  CASE typed = NotDecimal -> [kind |-> "invalid"]
    [] typed # NotDecimal /\ typed[1] * current[2] = current[1] * typed[2] ->
         [kind |-> "unchanged"]
    [] OTHER ->
         LET step == (typed[1] * OcSteps) \div typed[2]
         IN IF step * typed[2] = typed[1] * OcSteps /\ step \in OcSteps..(4 * OcSteps)
            THEN [kind |-> "mean", step |-> step] ELSE [kind |-> "invalid"]

Relation(n) == IF n > 0 THEN "ahead" ELSE IF n < 0 THEN "behind" ELSE "tied"

(* Both totals after `horizon` games with constant results.                  *)
Average(sum, games, d, horizon) ==
  <<sum * Total(d) + horizon * RankSum(d), (games + horizon) * Total(d)>>
ProjectOutlook(totals, focus, rival, horizon) ==
  LET a == Average(totals.focus, totals.games, focus, horizon)
      b == Average(totals.rival, totals.games, rival, horizon)
  IN Relation(b[1] * a[2] - a[1] * b[2])

(* The first horizon a line reaches zero, or leaves it behind.               *)
Never == -1
FirstNonnegative(intercept, slope) ==
  IF intercept >= 0 THEN 0 ELSE IF slope > 0 THEN Ceiling(-intercept, slope) ELSE Never
FirstPositiveEarly(intercept, slope) ==
  IF intercept > 0 THEN 0 ELSE IF slope > 0 THEN Ceiling(-intercept, slope) ELSE Never
FirstPositive(intercept, slope) ==
  IF intercept > 0 THEN 0 ELSE IF slope > 0 THEN (-intercept) \div slope + 1 ELSE Never

OutlookCrossings(totals, focus, rival) ==
  LET intercept == (totals.rival - totals.focus) * Total(focus) * Total(rival)
      slope == RankSum(rival) * Total(focus) - RankSum(focus) * Total(rival)
      tie == IF slope > 0 THEN (-intercept) \div slope
             ELSE IF slope < 0 THEN intercept \div (-slope) ELSE 0
  IN [current |-> Relation(intercept),
      focusAtLeast |-> FirstNonnegative(intercept, slope),
      focusAhead |-> FirstPositive(intercept, slope),
      rivalAtLeast |-> FirstNonnegative(-intercept, -slope),
      rivalAhead |-> FirstPositive(-intercept, -slope),
      exactTie |-> IF tie >= 0 /\ intercept + tie * slope = 0 THEN tie ELSE Never]

(* The headline: when the order changes, and who is ahead from then on.      *)
OutlookOutcome(totals, focus, rival) ==
  LET crossing == OutlookCrossings(totals, focus, rival)
      event == CASE crossing.current = "ahead" -> crossing.rivalAhead
                 [] crossing.current = "behind" -> crossing.focusAhead
                 [] OTHER -> Max({crossing.focusAhead, crossing.rivalAhead})
      rivalLeads == \/ crossing.current = "ahead"
                    \/ crossing.current = "tied" /\ crossing.focusAhead = Never
  IN [event |-> event, leader |-> IF rivalLeads THEN "rival" ELSE "focus"]

(* What another pair of distributions changes of the headline.               *)
Arrival(crossing) ==
  CASE crossing.current = "behind" -> crossing.focusAhead
    [] crossing.current = "ahead" -> crossing.rivalAhead
    [] OTHER -> IF crossing.focusAhead # Never THEN 0
                ELSE IF crossing.rivalAhead # Never THEN 1 ELSE Never
CompareOutcomes(totals, before, after) ==
  LET crossing == OutlookCrossings(totals, before[1], before[2])
      old == Arrival(crossing)
      new == Arrival(OutlookCrossings(totals, after[1], after[2]))
      Gained == IF crossing.current = "tied" THEN "leads" ELSE "arrives"
  IN CASE old = new -> "same"
       [] old # new /\ old = Never -> Gained
       [] old # new /\ new = Never -> "stays away"
       [] OTHER -> IF crossing.current = "tied" THEN "other leader"
                   ELSE IF new < old THEN "earlier" ELSE "later"

(* The largest input of a mean that puts the focus strictly ahead after      *)
(* `horizon` games against the rival's distribution, if one can be entered.  *)
RequiredMean(totals, opponent, horizon) ==
  LET limits == MeanLimits(opponent)
      threshold == <<RankSum(opponent) * horizon
                       - (totals.focus - totals.rival) * Total(opponent),
                     Total(opponent) * horizon>>
      highest == Min({Ceiling(OcSteps * threshold[1], threshold[2]) - 1, limits.maximum})
      entered == {step \in limits.minimum..highest :
                    CountsFromMean(step, opponent, opponent) # NoCounts}
  IN [threshold |-> threshold,
      kind |-> IF ~Less(limits.continuousMinimum, threshold) THEN "impossible"
               ELSE IF Less(limits.countMinimum, threshold) /\ entered # {}
               THEN "mean" ELSE "precision-impossible",
      maximum |-> IF Less(limits.countMinimum, threshold) /\ entered # {}
                  THEN Max(entered) ELSE 0]

NextMatchOutcomes(totals) ==
  [cell \in Cells |-> Relation(totals.rival - totals.focus + cell[2] - cell[1])]
-----------------------------------------------------------------------------
(* The joint table.  A plan scales rows, columns and observed cells to one   *)
(* common number of games.                                                   *)
CommonMultiple(S) ==
  Min({n \in 1..(Units * Max(S) * Max(S) * Max(S)) : \A k \in S \cup {Units} : n % k = 0})
Mass(table) == FoldSet(LAMBDA cell, sum : sum + table[cell], 0, Cells)
Scaled(weights, all, total) == [k \in DOMAIN weights |-> weights[k] * (total \div all)]
JointPlan(first, second, observed) ==
  LET total == CommonMultiple({Total(first), Total(second), Mass(observed)})
  IN [total |-> total, rows |-> Scaled(first, Total(first), total),
      columns |-> Scaled(second, Total(second), total),
      observed |-> Scaled(observed, Mass(observed), total)]

Joint == [cell \in Cells |-> jnFlow[cell].within + jnFlow[cell].beyond]
RowSum(table, i) == MapThenSumSet(LAMBDA j : table[<<i, j>>], RankIndex \ {i})
ColumnSum(table, j) == MapThenSumSet(LAMBDA i : table[<<i, j>>], RankIndex \ {j})

(* An edge of the residual graph: more mass in a cell, free within the       *)
(* observed mass, or less of it, which gives back what that mass had cost.   *)
More(cell) ==
  IF jnFlow[cell].within < jnPlan.observed[cell]
  THEN [cell |-> cell, part |-> "within", by |-> 1, cost |-> 0,
        room |-> jnPlan.observed[cell] - jnFlow[cell].within]
  ELSE [cell |-> cell, part |-> "beyond", by |-> 1, cost |-> 1,
        room |-> jnPlan.total - jnFlow[cell].beyond]
NoWayBack(cell) == [cell |-> cell, part |-> "within", by |-> -1, cost |-> 0, room |-> 0]
LessOf(cell) ==
  IF jnFlow[cell].beyond > 0
  THEN [cell |-> cell, part |-> "beyond", by |-> -1, cost |-> -1, room |-> jnFlow[cell].beyond]
  ELSE [cell |-> cell, part |-> "within", by |-> -1, cost |-> 0, room |-> jnFlow[cell].within]

(* The cheapest walks from the rows that have mass to place, to every row    *)
(* and column, improved pass by pass.                                        *)
Unreached == 1000
Walk(cost, path) == [cost |-> cost, path |-> path]
Cheaper(walk, others) ==
  LET best == CHOOSE w \in others \cup {walk} : \A o \in others \cup {walk} : w.cost <= o.cost
  IN IF best.cost < walk.cost THEN best ELSE walk
Step(walk, edge) ==
  IF walk.cost = Unreached \/ edge.room = 0 THEN Walk(Unreached, <<>>)
  ELSE Walk(walk.cost + edge.cost, Append(walk.path, edge))
Each(value(_)) == <<value(1), value(2), value(3), value(4)>>
Pass(reach) ==
  LET Row(i) == Cheaper(reach.rows[i],
        {Step(reach.columns[j], LessOf(<<i, j>>)) : j \in RankIndex \ {i}})
      Column(j) == Cheaper(reach.columns[j],
        {Step(reach.rows[i], More(<<i, j>>)) : i \in RankIndex \ {j}})
  IN [rows |-> Each(Row), columns |-> Each(Column)]
ShortestPaths ==
  LET Start(i) == Walk(IF RowSum(Joint, i) < jnPlan.rows[i] THEN 0 ELSE Unreached, <<>>)
      Nowhere(j) == Walk(Unreached, <<>>)
      Reach[k \in 0..8] ==
        IF k = 0 THEN [rows |-> Each(Start), columns |-> Each(Nowhere)] ELSE Pass(Reach[k - 1])
      ends == Reach[8].columns
      Open(j) == ends[j].cost < Unreached /\ ColumnSum(Joint, j) < jnPlan.columns[j]
  IN {ends[j].path : j \in {j \in RankIndex :
        Open(j) /\ \A other \in RankIndex : Open(other) => ends[j].cost <= ends[other].cost}}

(* Mass moved along a path, limited by its edges and by the row and the      *)
(* column it starts and ends in.                                             *)
Amount(path) ==
  LET first == path[1].cell[1]
      last == path[Len(path)].cell[2]
  IN Min({path[k].room : k \in DOMAIN path}
         \cup {jnLeft, jnPlan.rows[first] - RowSum(Joint, first),
               jnPlan.columns[last] - ColumnSum(Joint, last)})
Moved(path, amount) ==
  [cell \in Cells |-> [side \in {"within", "beyond"} |->
     LET by == {path[k].by : k \in {k \in DOMAIN path :
                                      path[k].cell = cell /\ path[k].part = side}}
     IN jnFlow[cell][side] + (IF by = {} THEN 0 ELSE amount * (CHOOSE b \in by : TRUE))]]

NothingAsked == [totals |-> <<>>]
NothingBuilt == jnPlan = <<>> /\ jnFlow = <<>> /\ jnLeft = 0 /\ jnState = "none"
EmptyFlow == [cell \in Cells |-> [within |-> 0, beyond |-> 0]]

BuildJointDistribution(first, second, observed) ==
  /\ jnPlan = JointPlan(first, second, observed)
  /\ jnFlow = EmptyFlow
  /\ jnLeft = jnPlan.total
  /\ jnState = IF Compatible(first, second) THEN "building" ELSE "refused"

Augment ==
  /\ jnState = "building" /\ jnLeft > 0
  /\ \/ \E path \in ShortestPaths :
          /\ jnFlow' = Moved(path, Amount(path))
          /\ jnLeft' = jnLeft - Amount(path)
          /\ UNCHANGED jnState
     \/ /\ ShortestPaths = {}
        /\ jnState' = "refused"
        /\ UNCHANGED <<jnFlow, jnLeft>>
  /\ UNCHANGED <<ocAsked, jnPlan>>
FinishJoint ==
  /\ jnState = "building" /\ jnLeft = 0
  /\ jnState' = "built"
  /\ UNCHANGED <<ocAsked, jnPlan, jnFlow, jnLeft>>

Asked == OcRecent \cup Distributions(Units)
OutlookInit ==
  \/ /\ ocAsked \in [totals : OcCumulatives, focus : Asked, rival : Asked]
     /\ Compatible(ocAsked.focus, ocAsked.rival)
     /\ NothingBuilt
  \/ /\ ocAsked = NothingAsked
     /\ \E first, second \in OcRecent, observed \in OcTables :
          BuildJointDistribution(first, second, observed)
OutlookNext == Augment \/ FinishJoint
-----------------------------------------------------------------------------
OutlookTypeOK ==
  /\ jnState \in {"none", "building", "built", "refused"} /\ jnLeft \in Nat
  /\ jnState # "none" => \A cell \in Cells, side \in {"within", "beyond"} :
                           jnFlow[cell][side] \in 0..jnPlan.total

(* The order changes at the announced horizon, not before, and under the     *)
(* announced leader.                                                         *)
HeadlineHolds(totals, focus, rival) ==
  LET outcome == OutlookOutcome(totals, focus, rival)
      crossing == OutlookCrossings(totals, focus, rival)
      At(h) == ProjectOutlook(totals, focus, rival, h)
      now == At(0)
      changed == {h \in 0..OcFar : At(h) \in {"ahead", "behind"} \ {now}}
  IN /\ IF changed = {} THEN outcome.event \notin 0..OcFar
        ELSE /\ outcome.event = Min(changed)
             /\ At(Min(changed)) = IF outcome.leader = "focus" THEN "ahead" ELSE "behind"
     /\ \A h \in 0..OcFar : h = crossing.exactTie => At(h) = "tied"
GoalIsExact(totals, rival, horizon) ==
  LET needed == RequiredMean(totals, rival, horizon)
      Wins(d) == Compatible(d, rival) /\ ProjectOutlook(totals, d, rival, horizon) = "ahead"
      steps == {step \in OcSteps..(4 * OcSteps) :
                  \E d \in Distributions(Units) : RankSum(d) = OcGrid * step /\ Wins(d)}
  IN needed.maximum = IF steps = {} THEN 0 ELSE Max(steps)
CountsAreBalanced(focus, rival) ==
  \A step \in OcSteps..(4 * OcSteps) :
    LET counts == CountsFromMean(step, rival, focus)
        possible == {d \in Distributions(Units) :
                       RankSum(d) = OcGrid * step /\ Compatible(d, rival)}
    IN IF possible = {} THEN counts = NoCounts
       ELSE counts \in possible /\ \A d \in possible : Imbalance(counts) <= Imbalance(d)
(* The keys move a mean to the next input the opponent leaves possible.      *)
KeysStayPossible(focus, rival) ==
  \A direction \in {1, -1} :
    LET next == NextMean(Mean(focus), direction, rival)
        beyond == {step \in OcSteps..(4 * OcSteps) :
                     /\ CountsFromMean(step, rival, focus) # NoCounts
                     /\ direction * RankSum(focus) * OcSteps < direction * step * Total(focus)}
    IN next = IF beyond = {} THEN 0 ELSE IF direction = 1 THEN Min(beyond) ELSE Max(beyond)
(* A comparison says what the first change of the order says.                *)
ComparisonHolds(totals, before, after) ==
  LET At(pair, h) == ProjectOutlook(totals, pair[1], pair[2], h)
      now == At(before, 0)
      Change(pair) == {h \in 0..OcFar : At(pair, h) \in {"ahead", "behind"} \ {now}}
      old == Change(before)
      new == Change(after)
  IN CompareOutcomes(totals, before, after) =
       CASE old = {} /\ new = {} -> "same"
         [] old = {} /\ new # {} -> IF now = "tied" THEN "leads" ELSE "arrives"
         [] old # {} /\ new = {} -> "stays away"
         [] OTHER ->
              IF now = "tied"
              THEN IF At(before, Min(old)) = At(after, Min(new)) THEN "same" ELSE "other leader"
              ELSE IF Min(old) = Min(new) THEN "same"
                   ELSE IF Min(new) < Min(old) THEN "earlier" ELSE "later"
NextMatchHolds(totals) ==
  LET Always(rank) == [r \in RankIndex |-> IF r = rank THEN 1 ELSE 0]
  IN \A cell \in Cells :
       NextMatchOutcomes(totals)[cell]
         = ProjectOutlook(totals, Always(cell[1]), Always(cell[2]), 1)
(* A compatible pair always gets a table; it has the pair's                  *)
(* distributions as its margins, and no other table is nearer to the         *)
(* observed one.                                                             *)
Beyond(table) ==
  MapThenSumSet(LAMBDA cell : Max({0, table[cell] - jnPlan.observed[cell]}), Cells)
RowChoices(i) ==
  {row \in [RankIndex \ {i} -> 0..jnPlan.rows[i]] :
     MapThenSumSet(LAMBDA j : row[j], RankIndex \ {i}) = jnPlan.rows[i]}
JointTables ==
  {table \in
     {[cell \in Cells |-> rows[cell[1]][cell[2]]] :
        rows \in {<<a, b, c, d>> : a \in RowChoices(1), b \in RowChoices(2),
                                   c \in RowChoices(3), d \in RowChoices(4)}} :
     \A j \in RankIndex : ColumnSum(table, j) = jnPlan.columns[j]}
JointIsClosest ==
  jnState \in {"built", "refused"} =>
    LET tables == JointTables
    IN IF tables = {} THEN jnState = "refused"
       ELSE /\ jnState = "built" /\ Joint \in tables
            /\ \A table \in tables : Beyond(Joint) <= Beyond(table)

(* Code behaviour: the headline, the required mean and the counts of a typed *)
(* mean are what one game after another would show: the order changes at     *)
(* the announced horizon, not before, and under the announced leader; the    *)
(* required mean can be entered, wins, and the next one up does not; the     *)
(* counts of a mean are the most balanced the opponent leaves; and the joint *)
(* table of a compatible pair exists and none is nearer to the observed one. *)
AnswersAreExact ==
  /\ JointIsClosest
  /\ ocAsked # NothingAsked =>
    /\ HeadlineHolds(ocAsked.totals, ocAsked.focus, ocAsked.rival)
    /\ GoalIsExact(ocAsked.totals, ocAsked.rival, 2)
    /\ CountsAreBalanced(ocAsked.focus, ocAsked.rival)
    /\ KeysStayPossible(ocAsked.focus, ocAsked.rival)
    /\ NextMatchHolds(ocAsked.totals)
    /\ \A other \in OcRecent :
         Compatible(ocAsked.focus, other) =>
           ComparisonHolds(ocAsked.totals, <<ocAsked.focus, ocAsked.rival>>,
                           <<ocAsked.focus, other>>)

=============================================================================
