------------------------- MODULE WebReading_proofs -------------------------
(***************************************************************************)
(* Proofs about the pages that compare series and about the lists: Undo    *)
(* and goals in the outlook, what the comparison page shows while reads    *)
(* end in any order, and that the lists of held events and of matches      *)
(* follow what was chosen and act on what they show.                       *)
(***************************************************************************)
EXTENDS WebReadingMC, SequenceTheorems, FiniteSetTheorems, WellFoundedInduction, TLAPS

(***************************************************************************)
(* One Undo takes back one visible change, for any comparisons, facts,     *)
(* examples, typed means and number of edits, and any length of history.   *)
(*                                                                         *)
(* The fact every edit keeps: neighbours in the history differ, and its    *)
(* last pair differs from what is on screen, or from the pair a running    *)
(* gesture began with.  It rests on what a distribution applied twice does *)
(* (nothing) and on the shape of the pairs a gesture and Undo put back.    *)
(*                                                                         *)
(* And a goal that is applied is reached.  The largest mean that can be    *)
(* entered below the goal's threshold stands for counts with exactly that  *)
(* mean, which leave the rival's distribution its room, so they are        *)
(* applied and not refused.  For this the invariant also says that every   *)
(* distribution kept anywhere is one: naturals, not all of them zero.      *)
(***************************************************************************)

-----------------------------------------------------------------------------
(* The arithmetic.                                                         *)

LEMMA Sums ==
  ASSUME NEW d, IsDistribution(d)
  PROVE  /\ Total(d) \in Nat \ {0} /\ RankSum(d) \in Nat
         /\ \A r \in RankIndex : d[r] \in Nat
  BY DEF IsDistribution, Total, Sum4, RankSum, RankIndex

LEMMA PositiveProduct ==
  ASSUME NEW a \in Int, NEW b \in Int, a > 0, b > 0 PROVE a * b > 0
  OBVIOUS

\* After h games the focus is strictly ahead if its mean is below the threshold.
LEMMA BelowThreshold ==
  ASSUME NEW Rf \in Int, NEW Tf \in Int, NEW Ro \in Int, NEW To \in Int,
         NEW g \in Nat, NEW h \in Nat \ {0}, NEW F \in Int, NEW V \in Int,
         Rf * (To * h) < (Ro * h - (F - V) * To) * Tf
  PROVE  (V * To + h * Ro) * ((g + h) * Tf) - (F * Tf + h * Rf) * ((g + h) * To) > 0
<1> DEFINE k == (Ro * h - (F - V) * To) * Tf - Rf * (To * h)
<1>1. (V * To + h * Ro) * ((g + h) * Tf) - (F * Tf + h * Rf) * ((g + h) * To) = (g + h) * k
  OBVIOUS
<1>2. k \in Int /\ k > 0 /\ g + h \in Int /\ g + h > 0
  OBVIOUS
<1> HIDE DEF k
<1>3. (g + h) * k > 0
  BY <1>2, PositiveProduct
<1> QED BY <1>1, <1>3

LEMMA ReachedIsAhead ==
  ASSUME NEW f, IsDistribution(f), NEW o, IsDistribution(o), NEW totals, NEW h \in Nat \ {0},
         totals.games \in Nat, totals.focus \in Int, totals.rival \in Int,
         Less(Mean(f), RequiredMean(totals, o, h).threshold)
  PROVE  ProjectOutlook(totals, f, o, h) = "ahead"
BY Sums, BelowThreshold DEF RequiredMean, Mean, Less, ProjectOutlook, Average, Relation

LEMMA SameMean ==
  ASSUME NEW a, IsDistribution(a), NEW b, IsDistribution(b), SameDistribution(a, b),
         NEW n \in Int, NEW m \in Nat \ {0}, Less(Mean(b), <<n, m>>)
  PROVE  Less(Mean(a), <<n, m>>)
<1>1. PICK A, B : A = Total(a) /\ B = Total(b)
  OBVIOUS
<1>2. RankSum(a) * B = RankSum(b) * A
  <2>1. /\ a[1] * B = b[1] * A /\ a[2] * B = b[2] * A /\ a[3] * B = b[3] * A /\ a[4] * B = b[4] * A
    BY <1>1 DEF SameDistribution, RankIndex
  <2>2. /\ a[1] \in Nat /\ a[2] \in Nat /\ a[3] \in Nat /\ a[4] \in Nat
        /\ b[1] \in Nat /\ b[2] \in Nat /\ b[3] \in Nat /\ b[4] \in Nat
    BY Sums DEF RankIndex
  <2>3. A \in Nat /\ B \in Nat
    BY <1>1, Sums
  <2>4. /\ RankSum(a) * B = a[1] * B + 2 * (a[2] * B) + 3 * (a[3] * B) + 4 * (a[4] * B)
        /\ RankSum(b) * A = b[1] * A + 2 * (b[2] * A) + 3 * (b[3] * A) + 4 * (b[4] * A)
    BY <2>2, <2>3 DEF RankSum
  <2> QED BY <2>1, <2>4
<1>3. PICK x, y : x = RankSum(a) /\ y = RankSum(b)
  OBVIOUS
<1>4. x \in Nat /\ y \in Nat /\ A \in Nat \ {0} /\ B \in Nat \ {0} /\ x * B = y * A
  BY <1>1, <1>2, <1>3, Sums
<1>5. y * m < n * B
  BY <1>1, <1>3 DEF Less, Mean
<1>6. x * m < n * A
  BY <1>4, <1>5, PositiveProduct
<1> QED BY <1>1, <1>3, <1>6 DEF Less, Mean

LEMMA NatOrder ==
  \E R : IsWellFoundedOn(R, Nat) /\ \A x, y \in Nat : x < y <=> <<x, y>> \in R
BY NatLessThanWellFounded DEF OpToRel

LEMMA Minimal ==
  ASSUME NEW R, IsWellFoundedOn(R, Nat), NEW T, T \subseteq Nat, T # {}
  PROVE  \E x \in T : \A y \in T : ~(<<y, x>> \in R)
BY WFMin

LEMMA NaturalsHaveLeast ==
  ASSUME NEW T, T \subseteq Nat, T # {}
  PROVE  \E x \in T : \A y \in T : x <= y
<1>1. PICK R : IsWellFoundedOn(R, Nat) /\ \A x, y \in Nat : x < y <=> <<x, y>> \in R
  BY NatOrder
<1>2. PICK x \in T : \A y \in T : ~(<<y, x>> \in R)
  BY <1>1, Minimal
<1>3. ASSUME NEW y \in T PROVE x <= y
  <2>1. y \in Nat /\ x \in Nat
    OBVIOUS
  <2>2. ~(y < x)
    BY <1>1, <1>2, <2>1, Zenon
  <2> QED BY <2>1, <2>2
<1> QED BY <1>3

LEMMA IntegersHaveLeast ==
  ASSUME NEW T, NEW b \in Int, \A x \in T : x \in Int /\ b <= x, T # {}
  PROVE  \E x \in T : \A y \in T : x <= y
<1>1. PICK U : U = {x - b : x \in T}
  OBVIOUS
<1>2. U \subseteq Nat /\ U # {}
  BY <1>1
<1>3. PICK u \in U : \A v \in U : u <= v
  BY <1>2, NaturalsHaveLeast
<1>4. PICK x \in T : u = x - b
  BY <1>1
<1>5. \A y \in T : x <= y
  BY <1>1, <1>3, <1>4
<1> QED BY <1>5

LEMMA MaxBound ==
  ASSUME NEW T, NEW b \in Int, \A x \in T : x \in Int /\ x <= b, T # {}
  PROVE  Max(T) \in T /\ \A x \in T : x <= Max(T)
<1>1. PICK U : U = {-x : x \in T}
  OBVIOUS
<1>2. PICK c \in Int : c = -b
  OBVIOUS
<1>7. U # {} /\ \A x \in U : x \in Int /\ c <= x
  BY <1>1, <1>2
<1>3. PICK u \in U : \A v \in U : u <= v
  BY <1>7, IntegersHaveLeast
<1>4. PICK x \in T : u = -x
  BY <1>1
<1>5. \A y \in T : x >= y
  BY <1>1, <1>3, <1>4
<1>6. PICK m : m = Max(T)
  OBVIOUS
<1>8. m \in T /\ \A y \in T : m >= y
  BY <1>5, <1>6 DEF Max
<1> QED BY <1>6, <1>8

LEMMA MinMaxOfTwo ==
  ASSUME NEW a \in Int, NEW b \in Int
  PROVE  /\ Min({a, b}) \in {a, b} /\ Min({a, b}) <= a /\ Min({a, b}) <= b
         /\ Max({a, b}) \in {a, b} /\ Max({a, b}) >= a /\ Max({a, b}) >= b
BY DEF Min, Max

LEMMA MinMaxOfThree ==
  ASSUME NEW a \in Int, NEW b \in Int, NEW c \in Int
  PROVE  /\ Min({a, b, c}) \in {a, b, c} /\ Min({a, b, c}) <= a /\ Min({a, b, c}) <= b
         /\ Min({a, b, c}) <= c
         /\ Max({a, b, c}) \in {a, b, c} /\ Max({a, b, c}) >= a /\ Max({a, b, c}) >= b
         /\ Max({a, b, c}) >= c
BY DEF Min, Max

LEMMA ClampBetween ==
  ASSUME NEW value \in Int, NEW low \in Int, NEW high \in Int, low <= high
  PROVE  Clamp(value, low, high) \in low..high
<1>1. PICK m : m = Min({high, value})
  OBVIOUS
<1>2. m \in Int /\ m <= high
  BY <1>1, MinMaxOfTwo
<1>3. Max({low, m}) \in {low, m} /\ Max({low, m}) >= low
  BY <1>2, MinMaxOfTwo
<1> QED BY <1>1, <1>2, <1>3 DEF Clamp

\* Of tuples of bounded integers one comes first.
LEMMA OneComesFirst ==
  ASSUME NEW K, K # {}, NEW n \in Nat, NEW b \in Int,
         \A k \in K : DOMAIN k = 1..n /\ \A i \in 1..n : k[i] \in Int /\ b <= k[i]
  PROVE  \E p \in K : \A q \in K : ~Precedes(q, p)
<1> DEFINE Before(q, p, i) == q[i] < p[i] /\ \A j \in 1..(i - 1) : q[j] = p[j]
           Good(m) == {p \in K : \A q \in K : \A i \in 1..m : ~Before(q, p, i)}
           Bad == {m \in 0..n : Good(m) = {}}
<1> HIDE DEF Before, Good, Bad
<1>0. \A m : Good(m) \subseteq K
  BY DEF Good
<1>1. ASSUME Bad # {} PROVE FALSE
  <2>1. PICK m \in Bad : \A k \in Bad : m <= k
    <3>1. Bad \subseteq Nat
      BY DEF Bad
    <3> QED BY <1>1, <3>1, NaturalsHaveLeast
  <2>2. m \in 0..n /\ Good(m) = {}
    BY DEF Bad
  <2>3. m # 0
    BY <2>2 DEF Good
  <2>4. m - 1 \in 0..n /\ Good(m - 1) # {}
    BY <2>2, <2>3, <2>1 DEF Bad
  <2>5. PICK T : T = {p[m] : p \in Good(m - 1)}
    OBVIOUS
  <2>6. T # {} /\ \A x \in T : x \in Int /\ b <= x
    <3>1. m \in 1..n
      BY <2>2, <2>3
    <3> QED BY <1>0, <2>4, <2>5, <3>1
  <2>7. PICK least \in T : \A y \in T : least <= y
    BY <2>6, IntegersHaveLeast
  <2>8. PICK p \in Good(m - 1) : least = p[m]
    BY <2>5
  <2>9. p \in K /\ \A q \in K : \A i \in 1..(m - 1) : ~Before(q, p, i)
    BY <2>8 DEF Good
  <2>10. ASSUME NEW q \in K, NEW i \in 1..m, Before(q, p, i) PROVE FALSE
    <3>1. i = m
      BY <2>2, <2>9, <2>10
    <3>2. q[m] < p[m] /\ \A j \in 1..(m - 1) : q[j] = p[j]
      BY <2>10, <3>1 DEF Before
    <3>3. ASSUME NEW o \in K, NEW k \in 1..(m - 1), Before(o, q, k) PROVE FALSE
      BY <2>2, <3>2, <3>3, <2>9 DEF Before
    <3>4. q \in Good(m - 1)
      BY <3>3 DEF Good
    <3>5. q[m] \in T
      BY <2>5, <3>4
    <3>6. q[m] \in Int /\ p[m] \in Int
      <4>1. m \in 1..n
        BY <2>2, <2>3
      <4> QED BY <2>9, <4>1
    <3> QED BY <2>7, <2>8, <3>2, <3>5, <3>6
  <2>11. p \in Good(m)
    BY <2>9, <2>10 DEF Good
  <2> QED BY <2>2, <2>11
<1>2. PICK p : p \in Good(n)
  BY <1>1 DEF Bad
<1>3. ASSUME NEW q \in K, Precedes(q, p) PROVE FALSE
  <2>1. PICK i \in 1..n : Before(q, p, i)
    BY <1>3 DEF Precedes, Before
  <2> QED BY <1>2, <2>1 DEF Good
<1> QED BY <1>0, <1>2, <1>3

\* What First takes of a set of keyed members.
Foremost(keyed) == (CHOOSE p \in keyed : \A q \in keyed : ~Precedes(q[1], p[1]))[2]

LEMMA FirstIsAMember ==
  ASSUME NEW S, NEW keyed, keyed # {}, NEW n \in Nat, NEW b \in Int,
         \A k \in keyed : /\ k[2] \in S /\ DOMAIN k[1] = 1..n
                          /\ \A i \in 1..n : k[1][i] \in Int /\ b <= k[1][i]
  PROVE  Foremost(keyed) \in S
<1>1. PICK K : K = {k[1] : k \in keyed}
  OBVIOUS
<1>2. K # {} /\ \A k \in K : DOMAIN k = 1..n /\ \A i \in 1..n : k[i] \in Int /\ b <= k[i]
  BY <1>1
<1>3. PICK p \in K : \A q \in K : ~Precedes(q, p)
  BY <1>2, OneComesFirst
<1>4. PICK k \in keyed : k[1] = p
  BY <1>1
<1>5. \A q \in keyed : ~Precedes(q[1], k[1])
  BY <1>1, <1>3, <1>4
<1>6. PICK chosen : chosen = CHOOSE c \in keyed : \A q \in keyed : ~Precedes(q[1], c[1])
  OBVIOUS
<1>7. chosen \in keyed
  BY <1>4, <1>5, <1>6, Zenon
<1>8. Foremost(keyed) = chosen[2]
  BY <1>6, Zenon DEF Foremost
<1> QED BY <1>7, <1>8

LEMMA SquareIsNat ==
  ASSUME NEW x \in Int PROVE x * x \in Nat
  OBVIOUS

LEMMA UnitsPositive == Units \in Nat \ {0} /\ Units \div 4 \in Nat
BY OutlookAssumption, PositiveProduct DEF Units

LEMMA EndpointIsInt ==
  ASSUME NEW capacity, \A r \in RankIndex : capacity[r] \in Nat, NEW total \in Nat,
         NEW order, order = Upwards \/ order = Downwards
  PROVE  Endpoint(capacity, total, order) \in Int
<1> DEFINE From(left, i) == left - Min({capacity[order[i]], left})
           one == From(total, 1)
           two == From(one, 2)
           three == From(two, 3)
           four == From(three, 4)
           f == [i \in 0..4 |-> IF i = 0 THEN total ELSE IF i = 1 THEN one
                                ELSE IF i = 2 THEN two ELSE IF i = 3 THEN three ELSE four]
           Left == CHOOSE g : g = [i \in 0..4 |-> IF i = 0 THEN total
                                    ELSE g[i - 1] - Min({capacity[order[i]], g[i - 1]})]
<1>1. \A i \in 1..4 : order[i] \in Int /\ capacity[order[i]] \in Int
  BY DEF Upwards, Downwards, RankIndex
<1>2. ASSUME NEW left \in Int, NEW i \in 1..4 PROVE From(left, i) \in Int
  <2>1. PICK c \in Int : c = capacity[order[i]]
    BY <1>1
  <2>2. Min({c, left}) \in Int
    BY MinMaxOfTwo
  <2> QED BY <2>1, <2>2
<1> HIDE DEF From
<1>3. one \in Int /\ two \in Int /\ three \in Int /\ four \in Int
  BY <1>2
<1> HIDE DEF one, two, three, four
<1>4. f = [i \in 0..4 |-> IF i = 0 THEN total ELSE From(f[i - 1], i)]
  BY DEF one, two, three, four
<1>5. \E g : g = [i \in 0..4 |-> IF i = 0 THEN total
                                    ELSE g[i - 1] - Min({capacity[order[i]], g[i - 1]})]
  <2> HIDE DEF f
  <2> QED BY <1>4, Zenon DEF From
<1>6. Left = [i \in 0..4 |-> IF i = 0 THEN total
                               ELSE Left[i - 1] - Min({capacity[order[i]], Left[i - 1]})]
  BY <1>5, Zenon
<1> HIDE DEF Left
<1>7. Left = [i \in 0..4 |-> IF i = 0 THEN total ELSE From(Left[i - 1], i)]
  BY <1>6, Zenon DEF From
<1>8. /\ Left[0] \in Int /\ Left[1] \in Int /\ Left[2] \in Int /\ Left[3] \in Int /\ Left[4] \in Int
  BY <1>7, <1>2
<1>9. Endpoint(capacity, total, order)
        = order[1] * (Left[1 - 1] - Left[1]) + order[2] * (Left[2 - 1] - Left[2])
          + order[3] * (Left[3 - 1] - Left[3]) + order[4] * (Left[4 - 1] - Left[4])
  BY Zenon DEF Endpoint, Left
<1> QED BY <1>1, <1>8, <1>9

LEMMA CapacitiesBound ==
  ASSUME NEW o, IsDistribution(o), NEW games \in Nat
  PROVE  \A r \in RankIndex : /\ Capacities(o, games)[r] \in Nat
                              /\ Capacities(o, games)[r] * Total(o) + o[r] * games <= games * Total(o)
<1> SUFFICES ASSUME NEW r \in RankIndex
             PROVE  /\ Capacities(o, games)[r] \in Nat
                    /\ Capacities(o, games)[r] * Total(o) + o[r] * games <= games * Total(o)
  OBVIOUS
<1>1. PICK T, x, q : T = Total(o) /\ x = o[r] /\ q = (games * (T - x)) \div T
  OBVIOUS
<1>2. T \in Nat \ {0} /\ x \in Nat /\ x <= T
  BY <1>1, Sums DEF Total, Sum4, RankIndex
<1>3. games * (T - x) \in Nat
  BY <1>2
<1>4. PICK y \in Nat : y = games * (T - x)
  BY <1>3
<1>5. q \in Nat /\ q * T <= y
  BY <1>1, <1>2, <1>4
<1>6. q * T + x * games <= games * T
  BY <1>2, <1>4, <1>5
<1> QED BY <1>1, <1>5, <1>6 DEF Capacities

LEMMA ThirdPlacesBound ==
  ASSUME NEW fourth \in Int, NEW excess \in Int, NEW capacity,
         \A r \in RankIndex : capacity[r] \in Nat, NEW third \in ThirdPlaces(fourth, excess, capacity)
  PROVE  /\ third \in Int /\ third >= 0 /\ third <= capacity[3]
         /\ Units - excess + 2 * fourth + third \in 0..capacity[1]
         /\ excess - 3 * fourth - 2 * third \in 0..capacity[2]
<1>1. PICK c1, c2, c3 : c1 = capacity[1] /\ c2 = capacity[2] /\ c3 = capacity[3]
  OBVIOUS
<1>2. c1 \in Nat /\ c2 \in Nat /\ c3 \in Nat /\ Units \in Nat
  BY <1>1, UnitsPositive DEF RankIndex
<1>3. PICK first, second : first = Units - excess + 2 * fourth /\ second = excess - 3 * fourth
  OBVIOUS
<1>4. first \in Int /\ second \in Int
  BY <1>2, <1>3
<1>5. PICK least, most : least = Ceiling(second - c2, 2) /\ most = second \div 2
  OBVIOUS
<1>6. /\ least \in Int /\ most \in Int /\ 2 * least >= second - c2 /\ 2 * most <= second
  BY <1>2, <1>4, <1>5 DEF Ceiling
<1>7. PICK minus, rest : minus = -first /\ rest = c1 - first
  OBVIOUS
<1>8. PICK lower, upper : lower = Max({0, minus, least}) /\ upper = Min({c3, rest, most})
  OBVIOUS
<1>9. minus \in Int /\ rest \in Int
  BY <1>2, <1>4, <1>7
<1>10. /\ lower \in Int /\ lower >= 0 /\ lower >= minus /\ lower >= least
       /\ upper \in Int /\ upper <= c3 /\ upper <= rest /\ upper <= most
  <2>1. PICK zero \in Int : zero = 0
    OBVIOUS
  <2>2. /\ Max({zero, minus, least}) \in {zero, minus, least} /\ Max({zero, minus, least}) >= zero
        /\ Max({zero, minus, least}) >= minus /\ Max({zero, minus, least}) >= least
    BY <1>6, <1>9, MinMaxOfThree
  <2>3. /\ Min({c3, rest, most}) \in {c3, rest, most} /\ Min({c3, rest, most}) <= c3
        /\ Min({c3, rest, most}) <= rest /\ Min({c3, rest, most}) <= most
    <3>1. c3 \in Int
      BY <1>2
    <3> QED BY <1>6, <1>9, <3>1, MinMaxOfThree
  <2> QED BY <1>2, <1>6, <1>8, <1>9, <2>1, <2>2, <2>3
<1>11. PICK low, high : low = (3 * excess - Units - 8 * fourth) \div 6
                        /\ high = Ceiling(3 * excess - Units - 8 * fourth, 6)
  OBVIOUS
<1>12. low \in Int /\ high \in Int
  BY <1>2, <1>11 DEF Ceiling
<1>13. ThirdPlaces(fourth, excess, capacity)
         = IF lower > upper THEN {} ELSE Clamp(low, lower, upper)..Clamp(high, lower, upper)
  BY <1>1, <1>3, <1>5, <1>7, <1>8, <1>11, Zenon DEF ThirdPlaces
<1>14. lower <= upper /\ third \in Clamp(low, lower, upper)..Clamp(high, lower, upper)
  BY <1>10, <1>13
<1>15. third \in lower..upper
  <2>1. Clamp(low, lower, upper) \in lower..upper /\ Clamp(high, lower, upper) \in lower..upper
    BY <1>10, <1>12, <1>14, ClampBetween
  <2> QED BY <1>10, <1>14, <2>1
<1> QED BY <1>1, <1>2, <1>3, <1>4, <1>6, <1>7, <1>10, <1>15

\* The counts of a mean step have this mean, and fit beside the opponent's results.
CountsFit(c, step, o) ==
  /\ IsDistribution(c) /\ Total(c) = Units /\ RankSum(c) = OcGrid * step
  /\ Compatible(c, o)

LEMMA CandidateFits ==
  ASSUME NEW o, IsDistribution(o), NEW step \in Int, NEW fourth \in 0..Capacities(o, Units)[4],
         NEW third \in ThirdPlaces(fourth, OcGrid * step - Units, Capacities(o, Units)),
         NEW c, c = <<Units - (OcGrid * step - Units) + 2 * fourth + third,
                      OcGrid * step - Units - 3 * fourth - 2 * third, third, fourth>>
  PROVE  CountsFit(c, step, o)
<1>1. PICK capacity : capacity = Capacities(o, Units)
  OBVIOUS
<1>2. \A r \in RankIndex : /\ capacity[r] \in Nat
                           /\ capacity[r] * Total(o) + o[r] * Units <= Units * Total(o)
  BY <1>1, UnitsPositive, CapacitiesBound
<1>3. PICK excess \in Int : excess = OcGrid * step - Units
  BY UnitsPositive, OutlookAssumption
<1>4. /\ third \in Int /\ third >= 0 /\ third <= capacity[3]
      /\ Units - excess + 2 * fourth + third \in 0..capacity[1]
      /\ excess - 3 * fourth - 2 * third \in 0..capacity[2]
      /\ fourth \in 0..capacity[4]
  <2>1. fourth \in Int
    BY <1>1, <1>2 DEF RankIndex
  <2> QED BY <1>1, <1>2, <1>3, <2>1, ThirdPlacesBound
<1>5. \A r \in RankIndex : c[r] \in Nat /\ c[r] <= capacity[r]
  BY <1>2, <1>3, <1>4 DEF RankIndex
<1>6. c \in [RankIndex -> Nat]
  BY <1>5 DEF RankIndex
<1>7. Total(c) = Units /\ RankSum(c) = OcGrid * step
  BY <1>3, <1>4, UnitsPositive, OutlookAssumption DEF Total, Sum4, RankSum
<1>8. Compatible(c, o)
  BY <1>2, <1>5, Sums, UnitsPositive, <1>7 DEF Compatible, IncompatibleRanks
<1> QED BY <1>6, <1>7, <1>8, UnitsPositive DEF CountsFit, IsDistribution

LEMMA DistanceIsNat ==
  ASSUME NEW c, \A r \in RankIndex : c[r] \in Int, NEW games \in Nat, NEW d, IsDistribution(d)
  PROVE  Distance(c, games, d) \in Nat
<1> DEFINE Gap(r) == c[r] * Total(d) - games * d[r]
<1>1. \A r \in RankIndex : Gap(r) \in Int
  BY Sums
<1> HIDE DEF Gap
<1>2. \A r \in RankIndex : Gap(r) * Gap(r) \in Nat
  BY <1>1, SquareIsNat
<1>3. Gap(1) * Gap(1) + Gap(2) * Gap(2) + Gap(3) * Gap(3) + Gap(4) * Gap(4) \in Nat
  BY <1>2 DEF RankIndex
<1> QED BY <1>3 DEF Distance, Gap

LEMMA ImbalanceIsNat ==
  ASSUME NEW c, \A r \in RankIndex : c[r] \in Int
  PROVE  Imbalance(c) \in Nat
<1> DEFINE Off(r) == c[r] - Units \div 4
<1>1. \A r \in RankIndex : Off(r) \in Int
  BY UnitsPositive
<1> HIDE DEF Off
<1>2. \A r \in RankIndex : Off(r) * Off(r) \in Nat
  BY <1>1, SquareIsNat
<1>3. Off(1) * Off(1) + Off(2) * Off(2) + Off(3) * Off(3) + Off(4) * Off(4) \in Nat
  BY <1>2 DEF RankIndex
<1> QED BY <1>3 DEF Imbalance, Off

LEMMA CountsOfMeanFit ==
  ASSUME NEW o, IsDistribution(o), NEW reference, IsDistribution(reference), NEW step,
         NEW c, c = CountsFromMean(step, o, reference), c # NoCounts
  PROVE  step \in OcSteps..(4 * OcSteps) /\ CountsFit(c, step, o)
<1> DEFINE capacity == Capacities(o, Units)
           excess == OcGrid * step - Units
           candidates ==
             UNION {{<<Units - excess + 2 * fourth + third, excess - 3 * fourth - 2 * third,
                       third, fourth>> : third \in ThirdPlaces(fourth, excess, capacity)}
                    : fourth \in 0..capacity[4]}
           Key(x) == <<Imbalance(x), Distance(x, Units, reference)>> \o x
           keyed == {<<Key(x), x>> : x \in candidates}
<1>1. /\ step \in OcSteps..(4 * OcSteps) /\ candidates # {}
      /\ c = Foremost(keyed)
  BY DEF CountsFromMean, First, Foremost
<1>2. step \in Int
  BY <1>1, OutlookAssumption
<1>3. ASSUME NEW x \in candidates
      PROVE  CountsFit(x, step, o) /\ \E a1, a2, a3, a4 : x = <<a1, a2, a3, a4>>
  BY <1>2, CandidateFits
<1> HIDE DEF candidates
<1>4. ASSUME NEW k \in keyed
      PROVE  /\ k[2] \in candidates /\ DOMAIN k[1] = 1..6
             /\ \A i \in 1..6 : k[1][i] \in Int /\ 0 <= k[1][i]
  <2>1. PICK x \in candidates : k = <<Key(x), x>>
    OBVIOUS
  <2>2. PICK a1, a2, a3, a4 : x = <<a1, a2, a3, a4>>
    BY <1>3
  <2>3. \A r \in RankIndex : x[r] \in Nat
    BY <1>3, Sums DEF CountsFit
  <2>4. a1 \in Nat /\ a2 \in Nat /\ a3 \in Nat /\ a4 \in Nat
    BY <2>2, <2>3 DEF RankIndex
  <2>5. PICK m, d : m = Imbalance(x) /\ d = Distance(x, Units, reference)
    OBVIOUS
  <2>6. m \in Nat /\ d \in Nat
    BY <2>3, <2>5, ImbalanceIsNat, DistanceIsNat, UnitsPositive
  <2>7. k[1] = <<m, d>> \o <<a1, a2, a3, a4>> /\ k[2] = x
    BY <2>1, <2>2, <2>5
  <2>8. PICK s, t : s = <<m, d>> /\ t = <<a1, a2, a3, a4>>
    OBVIOUS
  <2>9. s \in Seq(Nat) /\ t \in Seq(Nat) /\ Len(s) = 2 /\ Len(t) = 4
    BY <2>4, <2>6, <2>8
  <2>10. s \o t \in Seq(Nat) /\ Len(s \o t) = 6
    <3>1. s \o t \in Seq(Nat) /\ Len(s \o t) = Len(s) + Len(t)
      BY <2>9, ConcatProperties, Zenon
    <3> QED BY <2>9, <3>1
  <2> QED BY <2>7, <2>8, <2>10
<1>5. keyed # {}
  BY <1>1
<1> HIDE DEF keyed
<1>6. c \in candidates
  <2>1. \A k \in keyed : /\ k[2] \in candidates /\ DOMAIN k[1] = 1..6
                         /\ \A i \in 1..6 : k[1][i] \in Int /\ 0 <= k[1][i]
    BY <1>4
  <2>2. Foremost(keyed) \in candidates
    <3>1. PICK n \in Nat, b \in Int : n = 6 /\ b = 0
      OBVIOUS
    <3>2. \A k \in keyed : /\ k[2] \in candidates /\ DOMAIN k[1] = 1..n
                           /\ \A i \in 1..n : k[1][i] \in Int /\ b <= k[1][i]
      BY <2>1, <3>1
    <3> QED BY <1>5, <3>2, FirstIsAMember
  <2> QED BY <1>1, <2>2, Zenon
<1> QED BY <1>1, <1>3, <1>6

LEMMA CeilingIsNext ==
  ASSUME NEW n \in Int, NEW d \in Nat \ {0}
  PROVE  Ceiling(n, d) \in Int /\ (Ceiling(n, d) - 1) * d < n
BY DEF Ceiling

\* The mean a goal proposes is below the goal's threshold.
LEMMA RequiredIsBelow ==
  ASSUME NEW o, IsDistribution(o), NEW totals, totals.focus \in Int, totals.rival \in Int,
         NEW h \in Nat \ {0}, NEW step, step = RequiredMean(totals, o, h).maximum, step # 0,
         NEW t1, NEW t2, RequiredMean(totals, o, h).threshold = <<t1, t2>>
  PROVE  step \in Int /\ t1 \in Int /\ t2 \in Nat \ {0} /\ step * t2 < OcSteps * t1
<1> DEFINE limits == MeanLimits(o)
           threshold == <<RankSum(o) * h - (totals.focus - totals.rival) * Total(o), Total(o) * h>>
           highest == Min({Ceiling(OcSteps * threshold[1], threshold[2]) - 1, limits.maximum})
           entered == {s \in limits.minimum..highest : CountsFromMean(s, o, o) # NoCounts}
<1>1. /\ <<t1, t2>> = threshold
      /\ step = IF Less(limits.countMinimum, threshold) /\ entered # {} THEN Max(entered) ELSE 0
  BY DEF RequiredMean
<1>2. t1 \in Int /\ t2 \in Nat \ {0}
  BY <1>1, Sums, PositiveProduct
<1>3. PICK ceiling : ceiling = Ceiling(OcSteps * t1, t2)
  OBVIOUS
<1>4. ceiling \in Int /\ (ceiling - 1) * t2 < OcSteps * t1 /\ OcSteps * t1 \in Int
  <2>1. PICK n : n = OcSteps * t1
    OBVIOUS
  <2>2. n \in Int
    BY <1>2, <2>1, OutlookAssumption
  <2> QED BY <1>2, <1>3, <2>1, <2>2, CeilingIsNext
<1>5. limits.maximum \in Int /\ limits.minimum \in Int
  <2>1. PICK capacity : capacity = Capacities(o, Units)
    OBVIOUS
  <2>2. \A r \in RankIndex : capacity[r] \in Nat
    BY <2>1, UnitsPositive, CapacitiesBound
  <2>3. PICK low, high : low = Endpoint(capacity, Units, Upwards)
                          /\ high = Endpoint(capacity, Units, Downwards)
    OBVIOUS
  <2>4. low \in Int /\ high \in Int
    BY <2>2, <2>3, UnitsPositive, EndpointIsInt
  <2>5. limits.maximum = high \div OcGrid /\ limits.minimum = Ceiling(low, OcGrid)
    BY <2>1, <2>3, Zenon DEF MeanLimits
  <2>6. PICK grid \in Nat \ {0} : grid = OcGrid
    BY OutlookAssumption
  <2>7. Ceiling(low, grid) \in Int
    BY <2>4, CeilingIsNext
  <2>8. high \div grid \in Int
    BY <2>4
  <2> QED BY <2>5, <2>6, <2>7, <2>8
<1>6. /\ entered # {} /\ step = Max(entered)
      /\ highest = Min({ceiling - 1, limits.maximum})
  BY <1>1, <1>3
<1> HIDE DEF limits
<1>7. highest \in Int /\ highest <= ceiling - 1
  <2>1. PICK below \in Int : below = ceiling - 1
    BY <1>4
  <2> HIDE DEF highest
  <2> QED BY <1>5, <1>6, <2>1, MinMaxOfTwo
<1> HIDE DEF highest
<1>8. step \in Int /\ step <= highest
  <2>1. \A s \in entered : s \in Int /\ s <= highest
    BY <1>5, <1>7
  <2> HIDE DEF entered
  <2> QED BY <1>6, <1>7, <2>1, MaxBound
<1>9. step \in Int /\ step <= ceiling - 1
  BY <1>4, <1>7, <1>8
<1>10. step * t2 <= (ceiling - 1) * t2
  BY <1>2, <1>4, <1>9
<1> QED BY <1>2, <1>4, <1>9, <1>10

LEMMA CountsAreBelow ==
  ASSUME NEW step \in Int, NEW t1 \in Int, NEW t2 \in Nat \ {0}, step * t2 < OcSteps * t1,
         NEW o, NEW c, CountsFit(c, step, o)
  PROVE  Less(Mean(c), <<t1, t2>>)
BY OutlookAssumption, PositiveProduct DEF CountsFit, Mean, Units, Less

LEMMA WholeCountsFit ==
  ASSUME NEW d, IsDistribution(d), HasWholeCounts(d)
  PROVE  IsDistribution(WholeCounts(d))
<1>1. PICK g, T, q : g = OcGames /\ T = Total(d) /\ q = WholeCounts(d)
  OBVIOUS
<1>2. g \in Nat \ {0} /\ T \in Nat \ {0} /\ \A r \in RankIndex : d[r] \in Nat
  BY <1>1, Sums, OutlookAssumption
<1>3. ASSUME NEW r \in RankIndex PROVE q[r] \in Nat /\ q[r] * T = d[r] * g
  BY <1>1, <1>2 DEF HasWholeCounts, WholeCounts
<1>4. q \in [RankIndex -> Nat]
  BY <1>1, <1>3 DEF WholeCounts
<1>5. PICK s : s = q[1] + q[2] + q[3] + q[4]
  OBVIOUS
<1>6. s \in Nat /\ s * T = g * T
  <2>1. /\ q[1] \in Nat /\ q[2] \in Nat /\ q[3] \in Nat /\ q[4] \in Nat
        /\ d[1] \in Nat /\ d[2] \in Nat /\ d[3] \in Nat /\ d[4] \in Nat
    BY <1>2, <1>3 DEF RankIndex
  <2>2. s * T = q[1] * T + q[2] * T + q[3] * T + q[4] * T
    BY <1>2, <1>5, <2>1
  <2>3. g * T = d[1] * g + d[2] * g + d[3] * g + d[4] * g
    BY <1>1, <1>2, <2>1 DEF Total, Sum4
  <2> QED BY <1>3, <1>5, <2>1, <2>2, <2>3 DEF RankIndex
<1>7. s # 0
  BY <1>2, <1>6, PositiveProduct
<1> QED BY <1>1, <1>4, <1>5, <1>6, <1>7 DEF IsDistribution, Total, Sum4

LEMMA NearestWholeCountsFit ==
  ASSUME NEW d, IsDistribution(d), NEW o, NEW c, c = NearestWholeCounts(d, o), c # NoCounts
  PROVE  IsDistribution(c)
<1> DEFINE capacity == Capacities(o, OcGames)
           candidates == {x \in Distributions(OcGames) : \A r \in RankIndex : x[r] <= capacity[r]}
           Key(x) == <<Magnitude(RankSum(x) * Total(d) - OcGames * RankSum(d)),
                       Distance(x, OcGames, d), -x[1], -x[2], -x[3]>>
           keyed == {<<Key(x), x>> : x \in candidates}
<1>1. candidates # {} /\ c = Foremost(keyed)
  BY DEF NearestWholeCounts, First, Foremost
<1>2. PICK g \in Nat \ {0} : g = OcGames
  BY OutlookAssumption
<1>3. ASSUME NEW x \in candidates
      PROVE  x \in [RankIndex -> 0..g] /\ IsDistribution(x)
  BY <1>2 DEF Distributions, IsDistribution
<1> HIDE DEF candidates
<1>4. PICK n \in Nat, b \in Int : n = 5 /\ b = -g
  OBVIOUS
<1>5. ASSUME NEW k \in keyed
      PROVE  /\ k[2] \in candidates /\ DOMAIN k[1] = 1..n
             /\ \A i \in 1..n : k[1][i] \in Int /\ b <= k[1][i]
  BY <1>2, <1>3, DistanceIsNat, Sums, <1>4 DEF Magnitude, RankIndex
<1>6. keyed # {}
  BY <1>1
<1> HIDE DEF keyed
<1>7. Foremost(keyed) \in candidates
  BY <1>5, <1>6, FirstIsAMember
<1> QED BY <1>1, <1>3, <1>7

LEMMA TransferFits ==
  ASSUME NEW base, IsDistribution(base), NEW gain \in RankIndex, NEW lose \in RankIndex, gain # lose,
         NEW value, NEW total, total = base[gain] + base[lose], value \in 0..total
  PROVE  IsDistribution([base EXCEPT ![gain] = value, ![lose] = total - value])
BY Sums DEF IsDistribution, Total, Sum4, RankIndex

-----------------------------------------------------------------------------
(* The inductive invariant.                                                *)

EntryShaped(entry) ==
  /\ entry = [dist |-> entry.dist, source |-> entry.source, draft |-> entry.draft,
               error |-> entry.error]
  /\ IsDistribution(entry.dist)
EntriesShaped(entries) == /\ entries = [role \in Roles |-> entries[role]]
                          /\ \A role \in Roles : EntryShaped(entries[role])
PairOf(entries) == <<Saved(entries[1]), Saved(entries[2])>>
IsPair(pair) == pair = PairOf(pair) /\ \A role \in Roles : IsDistribution(pair[role].dist)
PairsIn(history) == \E S : history \in Seq(S) /\ \A pair \in S : IsPair(pair)

\* A workspace by the fields that undoing depends on.
Transfers == {pair \in RankIndex \X RankIndex : pair[1] # pair[2]}
Fields(state, key, entries, history, gesture) ==
  /\ state.transfer \in Transfers /\ state.goal \in OwHorizons
  /\ state = [key |-> key, artifact |-> state.artifact, entries |-> entries, history |-> history,
              pinned |-> state.pinned, gesture |-> gesture, task |-> state.task,
              transfer |-> state.transfer, goal |-> state.goal, goalValid |-> state.goalValid]

\* Neighbours differ, and the last differs from what is there now.
Apart(history, now) ==
  /\ \A i \in 1..(Len(history) - 1) : history[i] # history[i + 1]
  /\ Len(history) > 0 => history[Len(history)] # now
Now(entries, gesture) == IF gesture = NoGesture THEN PairOf(entries) ELSE gesture.before

Parts(key, entries, history, gesture) ==
  /\ key \in OwKeys
  /\ EntriesShaped(entries)
  /\ PairsIn(history)
  /\ gesture # NoGesture => gesture.role \in Roles /\ IsPair(gesture.before)
  /\ Apart(history, Now(entries, gesture))
Sound(state) ==
  \E key, entries, history, gesture :
    Fields(state, key, entries, history, gesture) /\ Parts(key, entries, history, gesture)

DialogSound ==
  \E role \in Roles : \E key, artifact, draft :
    /\ owDialog = [role |-> role, key |-> key, artifact |-> artifact, draft |-> draft]
    /\ Sound(draft)
IInv == /\ owWorkspace = NoWorkspace \/ Sound(owWorkspace)
        /\ owDialog = NoDialog \/ DialogSound
        /\ owSelected \in OwKeys
        /\ \E key \in OwKeys : \E artifact \in 1..OwArtifacts : owPage = [key |-> key, artifact |-> artifact]

-----------------------------------------------------------------------------
(* Fields.                                                                 *)

LEMMA FieldsOf ==
  ASSUME NEW state, NEW key, NEW entries, NEW history, NEW gesture,
         Fields(state, key, entries, history, gesture)
  PROVE  /\ state.key = key /\ state.entries = entries /\ state.history = history
         /\ state.gesture = gesture
BY DEF Fields

LEMMA SoundFields ==
  ASSUME NEW state, Sound(state)
  PROVE  /\ Fields(state, state.key, state.entries, state.history, state.gesture)
         /\ Parts(state.key, state.entries, state.history, state.gesture)
BY FieldsOf DEF Sound

LEMMA EntriesSet ==
  ASSUME NEW state, NEW key, NEW entries, NEW history, NEW gesture,
         Fields(state, key, entries, history, gesture), NEW other,
         NEW next, next = [state EXCEPT !.entries = other]
  PROVE  Fields(next, key, other, history, gesture)
BY DEF Fields

LEMMA HistorySet ==
  ASSUME NEW state, NEW key, NEW entries, NEW history, NEW gesture,
         Fields(state, key, entries, history, gesture), NEW other,
         NEW next, next = [state EXCEPT !.history = other]
  PROVE  Fields(next, key, entries, other, gesture)
BY DEF Fields

LEMMA GestureSet ==
  ASSUME NEW state, NEW key, NEW entries, NEW history, NEW gesture,
         Fields(state, key, entries, history, gesture), NEW other,
         NEW next, next = [state EXCEPT !.gesture = other]
  PROVE  Fields(next, key, entries, history, other)
BY DEF Fields

LEMMA PinnedSet ==
  ASSUME NEW state, NEW key, NEW entries, NEW history, NEW gesture,
         Fields(state, key, entries, history, gesture), NEW value,
         NEW next, next = [state EXCEPT !.pinned = value]
  PROVE  Fields(next, key, entries, history, gesture)
BY DEF Fields

LEMMA TaskSet ==
  ASSUME NEW state, NEW key, NEW entries, NEW history, NEW gesture,
         Fields(state, key, entries, history, gesture), NEW value,
         NEW next, next = [state EXCEPT !.task = value]
  PROVE  Fields(next, key, entries, history, gesture)
BY DEF Fields

LEMMA TransferSet ==
  ASSUME NEW state, NEW key, NEW entries, NEW history, NEW gesture,
         Fields(state, key, entries, history, gesture), NEW value \in Transfers,
         NEW next, next = [state EXCEPT !.transfer = value]
  PROVE  Fields(next, key, entries, history, gesture)
BY DEF Fields

LEMMA ValidSet ==
  ASSUME NEW state, NEW key, NEW entries, NEW history, NEW gesture,
         Fields(state, key, entries, history, gesture), NEW value,
         NEW next, next = [state EXCEPT !.goalValid = value]
  PROVE  Fields(next, key, entries, history, gesture)
BY DEF Fields

LEMMA GoalSet ==
  ASSUME NEW state, NEW key, NEW entries, NEW history, NEW gesture,
         Fields(state, key, entries, history, gesture), NEW value \in OwHorizons, NEW valid,
         NEW next, next = [state EXCEPT !.goal = value, !.goalValid = valid]
  PROVE  Fields(next, key, entries, history, gesture)
<1>1. PICK goaled : goaled = [state EXCEPT !.goal = value]
  OBVIOUS
<1>2. Fields(goaled, key, entries, history, gesture)
  BY <1>1 DEF Fields
<1>3. next = [goaled EXCEPT !.goalValid = valid]
  BY <1>1 DEF Fields
<1>. QED
  BY <1>2, <1>3, ValidSet

LEMMA RoleSet ==
  ASSUME NEW entries, EntriesShaped(entries), NEW role \in Roles, NEW entry, EntryShaped(entry),
         NEW other, other = [entries EXCEPT ![role] = entry]
  PROVE  /\ EntriesShaped(other) /\ other[role] = entry
         /\ \A r \in Roles \ {role} : other[r] = entries[r]
BY DEF EntriesShaped

LEMMA SamePairOf ==
  ASSUME NEW entries, NEW other, \A r \in Roles : Saved(other[r]) = Saved(entries[r])
  PROVE  PairOf(other) = PairOf(entries)
BY DEF PairOf, Roles

-----------------------------------------------------------------------------
(* The history.                                                            *)

LEMMA Remembered ==
  ASSUME NEW history, PairsIn(history), NEW now, IsPair(now), Apart(history, now),
         NEW other, other = Remember(history, now), NEW next, next # now
  PROVE  PairsIn(other) /\ Apart(other, next)
<1>1. PICK S : history \in Seq(S) /\ \A pair \in S : IsPair(pair)
  BY Zenon DEF PairsIn
<1>2. PICK T : T = S \cup {now}
  OBVIOUS
<1>3. PICK all : all = Append(history, now)
  OBVIOUS
<1>4. history \in Seq(T) /\ \A pair \in T : IsPair(pair)
  BY <1>2, <1>1, SeqMonotonic
<1>5. /\ all \in Seq(T) /\ Len(all) = Len(history) + 1 /\ all[Len(all)] = now
      /\ \A i \in 1..Len(history) : all[i] = history[i]
  BY <1>2, <1>3, <1>4
<1>6. Apart(all, next)
  BY <1>1, <1>5 DEF Apart
<1>7. Tail(all) \in Seq(T) /\ Apart(Tail(all), next)
  BY <1>5, <1>6 DEF Apart
<1>8. other = all \/ other = Tail(all)
  BY <1>3 DEF Remember
<1>. QED
  BY <1>4, <1>5, <1>6, <1>7, <1>8, Zenon DEF PairsIn

LEMMA TakenBack ==
  ASSUME NEW history, PairsIn(history), history # <<>>, NEW now, Apart(history, now),
         NEW other, other = SubSeq(history, 1, Len(history) - 1),
         NEW last, last = history[Len(history)]
  PROVE  PairsIn(other) /\ IsPair(last) /\ Apart(other, last)
<1>1. PICK S : history \in Seq(S) /\ \A pair \in S : IsPair(pair)
  BY Zenon DEF PairsIn
<1>2. Len(history) \in Nat \ {0} /\ last \in S
  BY <1>1
<1>3. /\ other \in Seq(S) /\ Len(other) = Len(history) - 1
      /\ \A i \in 1..Len(other) : other[i] = history[i]
  <2>1. PICK n \in Nat : n = Len(history) - 1
    BY <1>2
  <2>2. \A i \in 1..n : history[i] \in S
    BY <1>1, <2>1, ElementOfSeq
  <2>3. /\ SubSeq(history, 1, n) \in Seq(S) /\ Len(SubSeq(history, 1, n)) = n
        /\ \A i \in 1..n : SubSeq(history, 1, n)[i] = history[i]
    BY <2>2, SubSeqProperties
  <2>. QED
    BY <2>1, <2>3
<1>4. Apart(other, last)
  BY <1>1, <1>2, <1>3 DEF Apart
<1>. QED
  BY <1>1, <1>2, <1>3, <1>4, Zenon DEF PairsIn

\* What the property asks of a workspace.
LEMMA SoundChanges ==
  ASSUME NEW state, Sound(state)
  PROVE  Changes(state)
BY SoundFields DEF Parts, PairsIn, Apart, Now, Snapshot, PairOf, Changes

-----------------------------------------------------------------------------
(* Edits that leave the pair alone.                                        *)

LEMMA PairKept ==
  ASSUME NEW state, Sound(state), NEW next, NEW entries, EntriesShaped(entries),
         Fields(next, state.key, entries, state.history, state.gesture),
         PairOf(entries) = PairOf(state.entries)
  PROVE  Sound(next)
BY SoundFields DEF Parts, Now, Sound

LEMMA EntryPut ==
  ASSUME NEW state, Sound(state), NEW role \in Roles, NEW entry, EntryShaped(entry),
         NEW next, next = UpdateEntry(state, role, entry)
  PROVE  \E entries : /\ Fields(next, state.key, entries, state.history, state.gesture)
                      /\ EntriesShaped(entries) /\ entries[role] = entry
                      /\ \A r \in Roles \ {role} : entries[r] = state.entries[r]
<1>1. PICK old : old = state.entries
  OBVIOUS
<1>2. PICK entries : entries = [old EXCEPT ![role] = entry]
  OBVIOUS
<1>3. next = [state EXCEPT !.entries = entries]
  BY <1>1, <1>2 DEF UpdateEntry
<1>4. Fields(next, state.key, entries, state.history, state.gesture)
  BY <1>3, SoundFields, EntriesSet
<1>5. EntriesShaped(old)
  BY <1>1, SoundFields DEF Parts
<1>. QED
  BY <1>1, <1>2, <1>4, <1>5, RoleSet

LEMMA EntryKeepsPair ==
  ASSUME NEW state, Sound(state), NEW role \in Roles, NEW entry, EntryShaped(entry),
         Saved(entry) = Saved(state.entries[role]),
         NEW next, next = UpdateEntry(state, role, entry)
  PROVE  Sound(next)
BY EntryPut, SamePairOf, PairKept

LEMMA ClearedFields ==
  ASSUME NEW state, NEW key, NEW old, NEW history, NEW gesture,
         Fields(state, key, old, history, gesture), EntriesShaped(old),
         NEW role \in Roles, NEW next, next = Cleared(state, role)
  PROVE  \E entries : /\ Fields(next, key, entries, history, gesture)
                      /\ EntriesShaped(entries) /\ PairOf(entries) = PairOf(old)
<1>1. state.entries = old /\ EntryShaped(old[role]) /\ EntriesShaped(old)
  BY FieldsOf DEF EntriesShaped
<1>2. PICK entry : entry = [old[role] EXCEPT !.draft = NoText, !.error = FALSE]
  OBVIOUS
<1>3. PICK entries : entries = [old EXCEPT ![role] = entry]
  OBVIOUS
<1>4. next = [state EXCEPT !.entries = entries]
  BY <1>1, <1>2, <1>3 DEF Cleared
<1>5. EntryShaped(entry) /\ Saved(entry) = Saved(old[role])
  BY <1>1, <1>2 DEF EntryShaped, Saved
<1>6. EntriesShaped(entries) /\ \A r \in Roles : Saved(entries[r]) = Saved(old[r])
  BY <1>5, <1>3 DEF EntriesShaped
<1>7. Fields(next, key, entries, history, gesture)
  BY <1>4, EntriesSet
<1>. QED
  BY <1>6, <1>7, SamePairOf

LEMMA ClearedSound ==
  ASSUME NEW state, Sound(state), NEW role \in Roles, NEW next, next = Cleared(state, role)
  PROVE  Sound(next)
BY SoundFields, ClearedFields, PairKept DEF Parts

LEMMA RefusedSound ==
  ASSUME NEW state, Sound(state), NEW role \in Roles, NEW next, next = Refused(state, role)
  PROVE  Sound(next)
<1>1. PICK old : old = state.entries
  OBVIOUS
<1>2. EntryShaped(old[role])
  BY <1>1, SoundFields DEF Parts, EntriesShaped
<1>3. PICK entry : entry = [old[role] EXCEPT !.error = TRUE]
  OBVIOUS
<1>4. next = UpdateEntry(state, role, entry)
  BY <1>1, <1>3 DEF UpdateEntry, Refused
<1>5. EntryShaped(entry) /\ Saved(entry) = Saved(old[role])
  BY <1>2, <1>3 DEF EntryShaped, Saved
<1>. QED
  BY <1>1, <1>4, <1>5, EntryKeepsPair

LEMMA ErrorGone ==
  ASSUME NEW state, Sound(state), NEW role \in Roles,
         NEW next, next = [state EXCEPT !.entries[role].error = FALSE]
  PROVE  Sound(next)
<1>1. PICK old : old = state.entries
  OBVIOUS
<1>2. EntryShaped(old[role])
  BY <1>1, SoundFields DEF Parts, EntriesShaped
<1>3. PICK entry : entry = [old[role] EXCEPT !.error = FALSE]
  OBVIOUS
<1>4. next = UpdateEntry(state, role, entry)
  BY <1>1, <1>3 DEF UpdateEntry
<1>5. EntryShaped(entry) /\ Saved(entry) = Saved(old[role])
  BY <1>2, <1>3 DEF EntryShaped, Saved
<1>. QED
  BY <1>1, <1>4, <1>5, EntryKeepsPair

LEMMA Drafted ==
  ASSUME NEW state, Sound(state), NEW role \in Roles, NEW typed,
         NEW next,
         next = UpdateEntry(state, role, [state.entries[role] EXCEPT !.draft = typed, !.error = FALSE])
  PROVE  Sound(next)
<1>1. PICK was : was = state.entries[role]
  OBVIOUS
<1>2. EntryShaped(was)
  BY <1>1, SoundFields DEF Parts, EntriesShaped
<1>3. PICK entry : entry = [was EXCEPT !.draft = typed, !.error = FALSE]
  OBVIOUS
<1>4. EntryShaped(entry) /\ Saved(entry) = Saved(was)
  BY <1>2, <1>3 DEF EntryShaped, Saved
<1>5. next = UpdateEntry(state, role, entry)
  BY <1>1, <1>3
<1>. QED
  BY <1>1, <1>4, <1>5, EntryKeepsPair

-----------------------------------------------------------------------------
(* Edits that change the pair.                                             *)

LEMMA PairsShaped ==
  ASSUME NEW entries, EntriesShaped(entries)
  PROVE  IsPair(PairOf(entries))
BY DEF IsPair, PairOf, Saved, EntriesShaped, EntryShaped, Roles

LEMMA PairMoved ==
  ASSUME NEW state, Sound(state), NEW entries, EntriesShaped(entries), NEW was, IsPair(was),
         was = Now(state.entries, state.gesture), PairOf(entries) # was,
         NEW next,
         Fields(next, state.key, entries, Remember(state.history, was), NoGesture)
  PROVE  Sound(next)
BY SoundFields, Remembered DEF Parts, Now, Sound

\* The same distribution from the same source is no change.
LEMMA AnotherPair ==
  ASSUME NEW entries, NEW other, NEW role \in Roles, NEW dist, NEW source,
         Saved(other[role]) = [dist |-> dist, source |-> source],
         ~(SameDistribution(entries[role].dist, dist)
             /\ (source.kind # "recent" \/ source = entries[role].source))
  PROVE  PairOf(other) # PairOf(entries)
BY DEF PairOf, Roles, Saved, SameDistribution

LEMMA Applied ==
  ASSUME NEW state, Sound(state), NEW role \in Roles, NEW dist, IsDistribution(dist), NEW source,
         NEW next, next = ApplyDistribution(state, role, dist, source)
  PROVE  Sound(next)
<1>1. PICK prior : prior = state.entries[role]
  OBVIOUS
<1>2. CASE ~Compatible(dist, Peer(state, role))
  BY <1>2, RefusedSound DEF ApplyDistribution
<1>3. CASE /\ Compatible(dist, Peer(state, role))
           /\ SameDistribution(prior.dist, dist)
           /\ source.kind # "recent" \/ source = prior.source
  BY <1>1, <1>3, ClearedSound DEF ApplyDistribution
<1>4. CASE /\ Compatible(dist, Peer(state, role))
           /\ ~(SameDistribution(prior.dist, dist)
                  /\ (source.kind # "recent" \/ source = prior.source))
  <2>1. PICK entry : entry = [dist |-> dist, source |-> source, draft |-> NoText, error |-> FALSE]
    OBVIOUS
  <2>2. PICK put : put = UpdateEntry(state, role, entry)
    OBVIOUS
  <2>3. EntryShaped(entry) /\ Saved(entry) = [dist |-> dist, source |-> source]
    BY <2>1 DEF EntryShaped, Saved
  <2>4. PICK entries : /\ Fields(put, state.key, entries, state.history, state.gesture)
                       /\ EntriesShaped(entries) /\ entries[role] = entry
                       /\ \A r \in Roles \ {role} : entries[r] = state.entries[r]
    BY <2>2, <2>3, EntryPut
  <2>5. next = [put EXCEPT !.history = IF state.gesture = NoGesture
                                       THEN Remember(@, Snapshot(state)) ELSE @]
    BY <1>1, <1>4, <2>1, <2>2, Zenon DEF ApplyDistribution
  <2>6. PairOf(entries) # PairOf(state.entries)
    <3>1. PICK before : before = state.entries
      OBVIOUS
    <3>2. ~(SameDistribution(before[role].dist, dist)
              /\ (source.kind # "recent" \/ source = before[role].source))
      BY <1>1, <1>4, <3>1
    <3>3. Saved(entries[role]) = [dist |-> dist, source |-> source]
      BY <2>3, <2>4
    <3>4. PairOf(entries) # PairOf(before)
      BY <3>2, <3>3, AnotherPair
    <3> QED BY <3>1, <3>4
  <2>7. CASE state.gesture = NoGesture
    <3>1. PICK was : was = PairOf(state.entries)
      OBVIOUS
    <3>2. next = [put EXCEPT !.history = Remember(state.history, was)]
      BY <2>4, <2>5, <2>7, <3>1, FieldsOf DEF Snapshot, PairOf
    <3>3. Fields(next, state.key, entries, Remember(state.history, was), NoGesture)
      BY <2>4, <2>7, <3>2, HistorySet
    <3>. QED
      <4>1. IsPair(was)
        BY <3>1, SoundFields, PairsShaped DEF Parts
      <4>. QED
        BY <2>4, <2>6, <2>7, <3>1, <3>3, <4>1, PairMoved DEF Now
  <2>8. CASE state.gesture # NoGesture
    <3>1. next = [put EXCEPT !.history = state.history]
      BY <2>4, <2>5, <2>8, FieldsOf
    <3>2. Fields(next, state.key, entries, state.history, state.gesture)
      BY <2>4, <3>1, HistorySet
    <3>3. Parts(state.key, state.entries, state.history, state.gesture)
      BY SoundFields
    <3>4. Parts(state.key, entries, state.history, state.gesture)
      BY <2>4, <2>8, <3>3 DEF Parts, Now
    <3>. QED
      BY <3>2, <3>4, Zenon DEF Sound
  <2>. QED
    BY <2>7, <2>8
<1>. QED
  BY <1>2, <1>3, <1>4

-----------------------------------------------------------------------------
(* Gestures and Undo.                                                      *)

LEMMA Begun ==
  ASSUME NEW state, Sound(state), NEW role \in Roles, NEW next, next = BeginGesture(state, role)
  PROVE  Sound(next)
<1>1. CASE state.gesture # NoGesture
  BY <1>1 DEF BeginGesture
<1>2. CASE state.gesture = NoGesture
  <2>1. PICK was : was = PairOf(state.entries)
    OBVIOUS
  <2>2. PICK gesture : gesture = [role |-> role, before |-> was]
    OBVIOUS
  <2>3. next = [state EXCEPT !.gesture = gesture]
    BY <1>2, <2>1, <2>2 DEF BeginGesture, Snapshot, PairOf
  <2>4. Fields(next, state.key, state.entries, state.history, gesture)
    BY <2>3, SoundFields, GestureSet
  <2>5. IsPair(was)
    BY <2>1, SoundFields, PairsShaped DEF Parts
  <2>6. gesture.role \in Roles /\ gesture.before = was
    BY <2>2
  <2>7. Parts(state.key, state.entries, state.history, gesture)
    BY <1>2, <2>1, <2>5, <2>6, SoundFields DEF Parts, Now
  <2>. QED
    BY <2>4, <2>7, Zenon DEF Sound
<1>. QED
  BY <1>1, <1>2

LEMMA Restored ==
  ASSUME NEW state, Sound(state), NEW pair, IsPair(pair), NEW next, next = Restore(state, pair)
  PROVE  \E entries : /\ Fields(next, state.key, entries, state.history, state.gesture)
                      /\ EntriesShaped(entries) /\ PairOf(entries) = pair
<1>1. PICK old : old = state.entries
  OBVIOUS
<1>2. PICK entries : entries = [role \in Roles |-> [old[role] EXCEPT !.dist = pair[role].dist,
                                                                   !.source = pair[role].source]]
  OBVIOUS
<1>3. Fields(next, state.key, entries, state.history, state.gesture)
  BY <1>1, <1>2, SoundFields, EntriesSet DEF Restore
<1>4. ASSUME NEW role \in Roles
      PROVE  EntryShaped(entries[role]) /\ Saved(entries[role]) = Saved(pair[role])
  <2>1. EntryShaped(old[role])
    BY <1>1, SoundFields DEF Parts, EntriesShaped
  <2>2. entries[role] = [old[role] EXCEPT !.dist = pair[role].dist, !.source = pair[role].source]
    BY <1>2
  <2>3. PICK was, entry : was = old[role] /\ entry = entries[role]
    OBVIOUS
  <2>4. PICK dist, source : dist = pair[role].dist /\ source = pair[role].source
    OBVIOUS
  <2>5. IsDistribution(dist)
    BY <2>4 DEF IsPair
  <2>6. entry = [was EXCEPT !.dist = dist, !.source = source]
    BY <2>2, <2>3, <2>4
  <2>7. EntryShaped(entry) /\ entry.dist = dist /\ entry.source = source
    BY <2>1, <2>3, <2>5, <2>6 DEF EntryShaped
  <2>. QED
    BY <2>3, <2>4, <2>7 DEF Saved
<1>5. EntriesShaped(entries)
  BY <1>2, <1>4 DEF EntriesShaped
<1>6. PairOf(entries) = pair
  BY <1>4 DEF PairOf, IsPair, Roles
<1>. QED
  BY <1>3, <1>5, <1>6

LEMMA Finished ==
  ASSUME NEW state, Sound(state), NEW cancel, NEW next, next = FinishGesture(state, cancel)
  PROVE  Sound(next)
<1>1. CASE state.gesture = NoGesture
  BY <1>1 DEF FinishGesture
<1>2. CASE state.gesture # NoGesture
  <2>1. PICK was : was = state.gesture.before
    OBVIOUS
  <2>2. IsPair(was) /\ was = Now(state.entries, state.gesture)
    BY <1>2, <2>1, SoundFields DEF Parts, Now
  <2>3. CASE cancel \/ SamePair(state.entries, was)
    <3>1. PICK back : back = Restore(state, was)
      OBVIOUS
    <3>2. next = [back EXCEPT !.gesture = NoGesture]
      BY <1>2, <2>1, <2>3, <3>1 DEF FinishGesture
    <3>3. PICK entries : /\ Fields(back, state.key, entries, state.history, state.gesture)
                         /\ EntriesShaped(entries) /\ PairOf(entries) = was
      BY <2>2, <3>1, Restored
    <3>4. Fields(next, state.key, entries, state.history, NoGesture)
      BY <3>2, <3>3, GestureSet
    <3>5. Parts(state.key, entries, state.history, NoGesture)
      BY <2>2, <3>3, SoundFields DEF Parts, Now
    <3>. QED
      BY <3>4, <3>5, Zenon DEF Sound
  <2>4. CASE ~cancel /\ ~SamePair(state.entries, was)
    <3>1. PICK longer : longer = [state EXCEPT !.history = Remember(state.history, was)]
      OBVIOUS
    <3>2. next = [longer EXCEPT !.gesture = NoGesture]
      BY <1>2, <2>1, <2>4, <3>1 DEF FinishGesture
    <3>3. Fields(longer, state.key, state.entries, Remember(state.history, was), state.gesture)
      BY <3>1, SoundFields, HistorySet
    <3>4. Fields(next, state.key, state.entries, Remember(state.history, was), NoGesture)
      BY <3>2, <3>3, GestureSet
    <3>5. PairOf(state.entries) # was
      BY <2>4 DEF PairOf, Saved, Roles, SamePair, SameDistribution
    <3>6. EntriesShaped(state.entries)
      BY SoundFields DEF Parts
    <3>. QED
      BY <2>2, <3>4, <3>5, <3>6, PairMoved
  <2>. QED
    BY <2>3, <2>4
<1>. QED
  BY <1>1, <1>2

LEMMA Undone ==
  ASSUME NEW state, Sound(state), NEW next, next = Undo(state)
  PROVE  Sound(next)
<1>1. CASE state.gesture # NoGesture \/ state.history = <<>>
  BY <1>1 DEF Undo
<1>2. CASE state.gesture = NoGesture /\ state.history # <<>>
  <2>1. PICK history, last, shorter :
          /\ history = state.history /\ last = history[Len(history)]
          /\ shorter = SubSeq(history, 1, Len(history) - 1)
    OBVIOUS
  <2>2. PICK now : now = PairOf(state.entries)
    OBVIOUS
  <2>3. PairsIn(history) /\ Apart(history, now) /\ state.key \in OwKeys
    BY <1>2, <2>1, <2>2, SoundFields DEF Parts, Now
  <2>4. PairsIn(shorter) /\ IsPair(last) /\ Apart(shorter, last)
    BY <1>2, <2>1, <2>3, TakenBack
  <2>5. PICK back : back = Restore(state, last)
    OBVIOUS
  <2>6. PICK es0 : /\ Fields(back, state.key, es0, history, NoGesture)
                   /\ EntriesShaped(es0) /\ PairOf(es0) = last
    BY <1>2, <2>1, <2>4, <2>5, Restored
  <2>7. PICK clear1 : clear1 = Cleared(back, 1)
    OBVIOUS
  <2>8. PICK es1 : /\ Fields(clear1, state.key, es1, history, NoGesture)
                   /\ EntriesShaped(es1) /\ PairOf(es1) = last
    BY <2>6, <2>7, ClearedFields DEF Roles
  <2>9. PICK clear2 : clear2 = Cleared(clear1, 2)
    OBVIOUS
  <2>10. PICK es2 : /\ Fields(clear2, state.key, es2, history, NoGesture)
                    /\ EntriesShaped(es2) /\ PairOf(es2) = last
    BY <2>8, <2>9, ClearedFields DEF Roles
  <2>11. next = [clear2 EXCEPT !.history = SubSeq(@, 1, Len(@) - 1)]
    BY <1>2, <2>1, <2>5, <2>7, <2>9, Zenon DEF Undo
  <2>12. next = [clear2 EXCEPT !.history = shorter]
    <3>1. clear2.history = history
      BY <2>10, FieldsOf
    <3>2. SubSeq(clear2.history, 1, Len(clear2.history) - 1) = shorter
      BY <2>1, <3>1
    <3>. QED
      BY <2>11, <3>2
  <2>13. Fields(next, state.key, es2, shorter, NoGesture)
    BY <2>10, <2>12, HistorySet
  <2>14. Parts(state.key, es2, shorter, NoGesture)
    BY <2>3, <2>4, <2>10 DEF Parts, Now
  <2>. QED
    BY <2>13, <2>14, Zenon DEF Sound
<1>. QED
  BY <1>1, <1>2

-----------------------------------------------------------------------------
(* The edits that these are composed of.                                   *)

LEMMA OthersKept ==
  ASSUME NEW state, Sound(state), NEW next,
         Fields(next, state.key, state.entries, state.history, state.gesture)
  PROVE  Sound(next)
BY SoundFields, Zenon DEF Sound

LEMMA ChoicesKept ==
  ASSUME NEW state, Sound(state), NEW value, NEW next,
         \/ next = [state EXCEPT !.pinned = value]
         \/ next = [state EXCEPT !.task = value]
         \/ next = [state EXCEPT !.transfer = value] /\ value \in Transfers
         \/ next = [state EXCEPT !.goalValid = value]
  PROVE  Sound(next)
BY SoundFields, PinnedSet, OthersKept, TaskSet, TransferSet, ValidSet

LEMMA GoalKept ==
  ASSUME NEW state, Sound(state), NEW value \in OwHorizons, NEW valid,
         NEW next, next = [state EXCEPT !.goal = value, !.goalValid = valid]
  PROVE  Sound(next)
BY SoundFields, GoalSet, OthersKept

LEMMA PerformanceUsed ==
  ASSUME NEW state, Sound(state), NEW next, next = UsePerformance(state)
  PROVE  Sound(next)
BY ChoicesKept DEF UsePerformance

LEMMA EntryFits ==
  ASSUME NEW state, Sound(state), NEW role \in Roles
  PROVE  IsDistribution(state.entries[role].dist) /\ IsDistribution(Peer(state, role))
<1>1. \A r \in Roles : IsDistribution(state.entries[r].dist)
  BY SoundFields, Zenon DEF Parts, EntriesShaped, EntryShaped
<1>2. PICK other : other = OtherRole(role)
  OBVIOUS
<1>3. other \in Roles /\ Peer(state, role) = state.entries[other].dist
  BY <1>2 DEF OtherRole, Roles, Peer
<1>. QED
  BY <1>1, <1>3

LEMMA OriginFits ==
  ASSUME NEW state, Sound(state), NEW role \in Roles
  PROVE  IsDistribution(Origin(state, role).dist)
BY EntryFits, SoundFields DEF Origin, Saved, Parts, IsPair

LEMMA CountsFitAlways ==
  ASSUME NEW o, IsDistribution(o), NEW reference, IsDistribution(reference), NEW step,
         NEW c, c = CountsFromMean(step, o, reference), c # NoCounts
  PROVE  IsDistribution(c)
BY CountsOfMeanFit DEF CountsFit

LEMMA MeanSet ==
  ASSUME NEW state, Sound(state), NEW role \in Roles, NEW step,
         NEW next, next = SetMean(state, role, step)
  PROVE  Sound(next)
BY OriginFits, EntryFits, CountsFitAlways, Applied, RefusedSound DEF SetMean

LEMMA MeanCommitted ==
  ASSUME NEW state, Sound(state), NEW role \in Roles, NEW next, next = CommitMean(state, role)
  PROVE  Sound(next)
BY EntryFits, CountsFitAlways, Applied, RefusedSound, ClearedSound DEF CommitMean

LEMMA BaseFits ==
  ASSUME NEW state, Sound(state), NEW role \in Roles, NEW dist, IsDistribution(dist),
         NEW base, base = CountBase(state, role, dist), base # NoCounts
  PROVE  IsDistribution(base)
BY WholeCountsFit, NearestWholeCountsFit DEF CountBase

LEMMA TransferOf ==
  ASSUME NEW state, Sound(state)
  PROVE  /\ state.transfer[1] \in RankIndex /\ state.transfer[2] \in RankIndex
         /\ state.transfer[1] # state.transfer[2]
         /\ state.transfer = <<state.transfer[1], state.transfer[2]>>
BY SoundFields DEF Fields, Transfers

LEMMA CountTransferred ==
  ASSUME NEW state, Sound(state), NEW role \in Roles, NEW value,
         NEW next, next = TransferCount(state, role, value)
  PROVE  Sound(next)
BY OriginFits, BaseFits, TransferOf, TransferFits, Applied, RefusedSound, ErrorGone
DEF TransferCount

LEMMA CountTyped ==
  ASSUME NEW state, Sound(state), NEW role \in Roles, NEW value,
         NEW next, next = CountInput(state, role, value)
  PROVE  Sound(next)
BY Begun, CountTransferred, RefusedSound DEF CountInput

LEMMA RankTransferred ==
  ASSUME NEW state, Sound(state), NEW role \in Roles, NEW side,
         NEW rank \in RankIndex \ {state.transfer[1], state.transfer[2]},
         NEW next, next = TransferRank(state, role, side, rank)
  PROVE  Sound(next)
<1>1. PICK finished : finished = FinishGesture(state, FALSE)
  OBVIOUS
<1>2. Sound(finished) /\ finished.transfer = state.transfer
  <2>1. Sound(finished)
    BY <1>1, Finished
  <2>2. finished.transfer = state.transfer
    <3>1. PICK back, was : was = state.gesture.before /\ back = Restore(state, was)
      OBVIOUS
    <3>2. PICK longer : longer = [state EXCEPT !.history = Remember(@, was)]
      OBVIOUS
    <3>3. Fields(state, state.key, state.entries, state.history, state.gesture)
      BY SoundFields
    <3>4. back.transfer = state.transfer /\ [back EXCEPT !.gesture = NoGesture].transfer = back.transfer
      BY <3>1, <3>3 DEF Restore, Fields
    <3>5. longer.transfer = state.transfer /\ [longer EXCEPT !.gesture = NoGesture].transfer = longer.transfer
      BY <3>2, <3>3 DEF Fields
    <3>6. \/ finished = state
          \/ finished = [back EXCEPT !.gesture = NoGesture]
          \/ finished = [longer EXCEPT !.gesture = NoGesture]
      BY <1>1, <3>1, <3>2, Zenon DEF FinishGesture
    <3>. QED
      BY <3>4, <3>5, <3>6
  <2>. QED
    BY <2>1, <2>2
<1>3. PICK half : half = [finished EXCEPT !.entries[role].error = FALSE]
  OBVIOUS
<1>4. Sound(half)
  BY <1>2, <1>3, ErrorGone
<1>5. half.transfer = state.transfer
  BY <1>2, <1>3, SoundFields DEF Fields
<1>6. PICK gain, lose : gain = state.transfer[1] /\ lose = state.transfer[2]
  OBVIOUS
<1>7. PICK transfer : transfer = IF side = "lose" THEN <<gain, rank>> ELSE <<rank, lose>>
  OBVIOUS
<1>8. transfer \in Transfers
  BY <1>6, <1>7, TransferOf DEF Transfers
<1>9. next = [half EXCEPT !.transfer = transfer]
  BY <1>1, <1>2, <1>3, <1>5, <1>6, <1>7, SoundFields DEF TransferRank, Fields
<1>. QED
  BY <1>4, <1>8, <1>9, ChoicesKept

LEMMA GoalApplied ==
  ASSUME NEW state, Sound(state), CanApplyGoal(state), NEW next, next = ApplyGoal(state)
  PROVE  Sound(next)
BY EntryFits, CountsFitAlways, Applied, ClearedSound, PerformanceUsed
DEF Roles, GoalCounts, CanApplyGoal, ApplyGoal

LEMMA ExampleApplied ==
  ASSUME NEW state, Sound(state), NEW role \in Roles, NEW kind, NEW example \in OwExamples,
         NEW next, next = ApplyExample(state, role, kind, example)
  PROVE  Sound(next)
<1>1. IsDistribution(example)
  BY OwAssumption
<1>. QED
  BY <1>1, Applied, PerformanceUsed DEF ApplyExample

-----------------------------------------------------------------------------
(* What the accepted summary makes of it.                                  *)

LEMMA NothingTaken ==
  ASSUME NEW key \in OwKeys, NEW entries, EntriesShaped(entries)
  PROVE  Parts(key, entries, <<>>, NoGesture)
<1>1. PICK S : S = {}
  OBVIOUS
<1>2. <<>> \in Seq(S) /\ \A pair \in S : IsPair(pair)
  BY <1>1, EmptySeq
<1>3. PairsIn(<<>>)
  BY <1>2, Zenon DEF PairsIn
<1>4. \A now : Apart(<<>>, now)
  BY EmptySeq DEF Apart
<1>. QED
  BY <1>3, <1>4 DEF Parts

LEMMA TwoEntries ==
  ASSUME NEW first, EntryShaped(first), NEW second, EntryShaped(second)
  PROVE  EntriesShaped(<<first, second>>)
BY DEF EntriesShaped, Roles

LEMMA RecentShaped ==
  ASSUME NEW page, page.key \in OwKeys, page.artifact \in 1..OwArtifacts, NEW role \in Roles,
         NEW entry, entry = RecentEntry(page, role)
  PROVE  EntryShaped(entry) /\ \A draft : EntryShaped([entry EXCEPT !.draft = draft])
<1>1. IsDistribution(OwFacts[page.key][page.artifact].recent[role])
  BY OwAssumption DEF Roles
<1>2. EntryShaped(entry)
  BY <1>1 DEF RecentEntry, EntryShaped
<1>. QED
  BY <1>2 DEF EntryShaped

LEMMA FreshSound ==
  ASSUME NEW page, page.key \in OwKeys, page.artifact \in 1..OwArtifacts,
         NEW next, next = Fresh(page)
  PROVE  Sound(next)
<1>1. PICK first, second : first = RecentEntry(page, 1) /\ second = RecentEntry(page, 2)
  OBVIOUS
<1>2. PICK entries : entries = <<first, second>>
  OBVIOUS
<1>3. EntriesShaped(entries)
  BY <1>1, <1>2, RecentShaped, TwoEntries DEF Roles
<1>4. PICK goal : goal = Min(OwHorizons)
  OBVIOUS
<1>5. goal \in OwHorizons
  BY OwAssumption, NaturalsHaveLeast, <1>4 DEF Min
<1>6. <<3, 4>> \in Transfers
  BY DEF Transfers, RankIndex
<1>7. Fields(next, page.key, entries, <<>>, NoGesture)
  BY <1>1, <1>2, <1>4, <1>5, <1>6 DEF Fresh, Fields
<1>. QED
  BY <1>3, <1>7, NothingTaken, Zenon DEF Sound

LEMMA AdoptedFields ==
  ASSUME NEW state, state = NoWorkspace \/ Sound(state), NEW page, page.key \in OwKeys,
         page.artifact \in 1..OwArtifacts, NEW next, next = AdoptSummary(state, page)
  PROVE  Sound(next)
<1>1. CASE state.key # page.key
  BY <1>1, FreshSound DEF AdoptSummary
<1>2. CASE state.key = page.key
  <2>1. Sound(state)
    BY <1>2, OwAssumption DEF NoWorkspace
  <2>2. CASE state.artifact = page.artifact
    BY <1>2, <2>1, <2>2 DEF AdoptSummary
  <2>3. CASE state.artifact # page.artifact
    <3>1. PICK entries :
            entries = IF FollowsRecent(state)
                      THEN <<[RecentEntry(page, 1) EXCEPT !.draft = state.entries[1].draft],
                             [RecentEntry(page, 2) EXCEPT !.draft = state.entries[2].draft]>>
                      ELSE state.entries
      OBVIOUS
    <3>2. EntriesShaped(entries)
      BY RecentShaped, <3>1, TwoEntries, <2>1, SoundFields DEF Roles, Parts
    <3>3. next = [state EXCEPT !.artifact = page.artifact, !.history = <<>>, !.pinned = NoPairKept,
                               !.gesture = NoGesture, !.entries = entries]
      BY <1>2, <2>3, <3>1 DEF AdoptSummary
    <3>4. Fields(next, state.key, entries, <<>>, NoGesture)
      <4>1. Fields(state, state.key, state.entries, state.history, state.gesture)
        BY <2>1, SoundFields
      <4>. QED
        BY <3>3, <4>1 DEF Fields
    <3>5. Parts(state.key, entries, <<>>, NoGesture)
      BY <1>2, <3>2, NothingTaken
    <3>. QED
      BY <3>4, <3>5, Zenon DEF Sound
  <2>. QED
    BY <2>2, <2>3
<1>. QED
  BY <1>1, <1>2

-----------------------------------------------------------------------------
(* The page.                                                               *)

LEMMA PageKey ==
  ASSUME IInv
  PROVE  owPage.key \in OwKeys /\ owPage.artifact \in 1..OwArtifacts /\ owPage = [key |-> owPage.key, artifact |-> owPage.artifact]
BY DEF IInv

LEMMA RecentRestored ==
  ASSUME IInv, NEW state, Sound(state), NEW role \in Roles,
         NEW next, next = RestoreRecent(state, role)
  PROVE  Sound(next)
BY PageKey, RecentShaped, Finished, Applied DEF RestoreRecent, EntryShaped

LEMMA ReadSound ==
  ASSUME IInv
  PROVE  Sound(Read)
BY PageKey, AdoptedFields DEF IInv, Read

LEMMA EditInv ==
  ASSUME IInv, NEW next, Sound(next), Edit(next)
  PROVE  IInv'
BY DEF IInv, Edit, DialogSound

LEMMA OpenOutlookInv ==
  ASSUME IInv, OpenOutlook
  PROVE  IInv'
BY ReadSound DEF OpenOutlook, IInv, DialogSound

LEMMA LeaveOutlookInv ==
  ASSUME IInv, LeaveOutlook
  PROVE  IInv'
BY Finished DEF LeaveOutlook, FinishGesture, NoWorkspace, NoGesture, IInv

\* A publication or another comparison arrives.
LEMMA AdoptPageInv ==
  ASSUME IInv, NEW page, AdoptPage(page), NEW key \in OwKeys, NEW artifact \in 1..OwArtifacts,
         page = [key |-> key, artifact |-> artifact],
         owDialog' = owDialog \/ owDialog' = NoDialog, UNCHANGED owSelected
  PROVE  IInv'
BY AdoptedFields DEF AdoptPage, IInv, DialogSound

LEMMA PublicationInv ==
  ASSUME IInv, Publication
  PROVE  IInv'
BY OwAssumption, AdoptPageInv DEF IInv, Publication

LEMMA ArriveComparisonInv ==
  ASSUME IInv, ArriveComparison
  PROVE  IInv'
BY PageKey, AdoptPageInv DEF IInv, ArriveComparison

LEMMA SelectComparisonInv ==
  ASSUME IInv, SelectComparison
  PROVE  IInv'
BY DEF SelectComparison, Lifecycle, IInv, DialogSound

-----------------------------------------------------------------------------
(* Edits of the workspace.                                                 *)

LEMMA MeanDraftInv ==
  ASSUME IInv, MeanDraft
  PROVE  IInv'
BY ReadSound, Drafted, EditInv DEF MeanDraft

LEMMA CancelMeanInv ==
  ASSUME IInv, CancelMean
  PROVE  IInv'
BY ReadSound, ClearedSound, EditInv DEF CancelMean

LEMMA CommitMeanDraftInv ==
  ASSUME IInv, CommitMeanDraft
  PROVE  IInv'
BY ReadSound, MeanCommitted, EditInv DEF CommitMeanDraft

LEMMA BeginSlideInv ==
  ASSUME IInv, BeginSlide
  PROVE  IInv'
BY ReadSound, Begun, EditInv DEF BeginSlide

LEMMA SlideInv ==
  ASSUME IInv, Slide
  PROVE  IInv'
BY ReadSound, SoundFields, MeanSet, EditInv DEF Slide, Parts

LEMMA PressKeyInv ==
  ASSUME IInv, PressKey
  PROVE  IInv'
BY ReadSound, Begun, MeanSet, EditInv DEF PressKey

LEMMA FinishSlideInv ==
  ASSUME IInv, FinishSlide
  PROVE  IInv'
BY ReadSound, Finished, EditInv DEF FinishSlide

LEMMA UndoChangeInv ==
  ASSUME IInv, UndoChange
  PROVE  IInv'
<1>1. Edit(Undo(Read))
  BY Zenon DEF UndoChange
<1>. QED
  BY <1>1, ReadSound, Undone, EditInv

LEMMA PinPairInv ==
  ASSUME IInv, PinPair
  PROVE  IInv'
BY ReadSound, ChoicesKept, EditInv DEF PinPair, Pin

LEMMA UnpinInv ==
  ASSUME IInv, Unpin
  PROVE  IInv'
BY ReadSound, ChoicesKept, EditInv DEF Unpin

LEMMA ChooseTaskInv ==
  ASSUME IInv, ChooseTask
  PROVE  IInv'
BY ReadSound, ChoicesKept, EditInv DEF ChooseTask

LEMMA ChooseHorizonInv ==
  ASSUME IInv, ChooseHorizon
  PROVE  IInv'
BY ReadSound, GoalKept, ChoicesKept, EditInv DEF ChooseHorizon

LEMMA PursueGoalInv ==
  ASSUME IInv, PursueGoal
  PROVE  IInv'
BY ReadSound, GoalApplied, EditInv DEF PursueGoal

LEMMA TryExampleInv ==
  ASSUME IInv, TryExample
  PROVE  IInv'
BY ReadSound, ExampleApplied, EditInv DEF TryExample

LEMMA UseRecentInv ==
  ASSUME IInv, UseRecent
  PROVE  IInv'
BY ReadSound, RecentRestored, EditInv DEF UseRecent

-----------------------------------------------------------------------------
(* The dialog of counts.                                                   *)

LEMMA OpenCountsInv ==
  ASSUME IInv, OpenCounts
  PROVE  IInv'
<1>1. PICK read : read = Read
  OBVIOUS
<1>2. Sound(read) /\ read.gesture = NoGesture
  BY <1>1, ReadSound DEF OpenCounts, Quiet
<1>3. PICK clear : clear = Cleared(Cleared(read, 1), 2)
  OBVIOUS
<1>4. PICK one, two : one = 1 /\ two = 2
  OBVIOUS
<1>5. PICK half : half = Cleared(read, one)
  OBVIOUS
<1>6. Fields(read, read.key, read.entries, read.history, NoGesture) /\ EntriesShaped(read.entries)
      /\ read.key \in OwKeys
  BY <1>2, SoundFields DEF Parts
<1>7. one \in Roles /\ two \in Roles /\ clear = Cleared(half, two)
  BY <1>3, <1>4, <1>5 DEF Roles
<1>8. PICK es1 : Fields(half, read.key, es1, read.history, NoGesture) /\ EntriesShaped(es1)
  BY <1>5, <1>6, <1>7, ClearedFields
<1>9. PICK es2 : Fields(clear, read.key, es2, read.history, NoGesture) /\ EntriesShaped(es2)
  BY <1>7, <1>8, ClearedFields
<1>10. PICK draft : draft = [clear EXCEPT !.history = <<>>]
  OBVIOUS
<1>11. Fields(draft, read.key, es2, <<>>, NoGesture)
  BY <1>9, <1>10, HistorySet
<1>12. Sound(draft)
  BY <1>6, <1>9, <1>11, NothingTaken, Zenon DEF Sound
<1>13. PICK role \in Roles : owDialog' = [role |-> role, key |-> read.key,
                                          artifact |-> read.artifact, draft |-> draft]
  BY <1>1, <1>3, <1>10, Zenon DEF OpenCounts
<1>14. DialogSound'
  BY <1>12, <1>13, Zenon DEF DialogSound
<1>15. UNCHANGED <<owWorkspace, owSelected, owPage>>
  BY DEF OpenCounts
<1>. QED
  BY <1>14, <1>15 DEF IInv

LEMMA EditDraftInv ==
  ASSUME IInv, owDialog # NoDialog, NEW next, Sound(next), EditDraft(next),
         UNCHANGED <<owWorkspace, owSelected, owPage>>
  PROVE  IInv'
<1>1. PICK role \in Roles : \E key, artifact, draft :
        owDialog = [role |-> role, key |-> key, artifact |-> artifact, draft |-> draft]
  BY DEF IInv, DialogSound
<1>2. PICK key, artifact, draft :
        owDialog = [role |-> role, key |-> key, artifact |-> artifact, draft |-> draft]
  BY <1>1
<1>3. owDialog' = [role |-> role, key |-> key, artifact |-> artifact, draft |-> next]
  BY <1>2 DEF EditDraft
<1>4. DialogSound'
  BY <1>3, Zenon DEF DialogSound
<1>. QED
  BY <1>4 DEF IInv

LEMMA EditCountsInv ==
  ASSUME IInv, EditCounts
  PROVE  IInv'
<1>1. PICK draft, role : draft = owDialog.draft /\ role = owDialog.role
  OBVIOUS
<1>2. Sound(draft) /\ role \in Roles
  BY <1>1 DEF IInv, DialogSound, EditCounts
<1>3. owDialog # NoDialog /\ UNCHANGED <<owWorkspace, owSelected, owPage>>
  BY DEF EditCounts
<1>4. PICK finished : finished = FinishGesture(draft, FALSE)
  OBVIOUS
<1>5. Sound(finished)
  BY <1>2, <1>4, Finished
<1>6. \/ EditDraft(BeginGesture(draft, role))
      \/ \E cancel \in BOOLEAN : EditDraft(FinishGesture(draft, cancel))
      \/ EditDraft([finished EXCEPT !.entries[role].error = FALSE])
      \/ \E side : \E rank \in RankIndex \ {draft.transfer[1], draft.transfer[2]} :
           EditDraft(TransferRank(draft, role, side, rank))
      \/ \E value : EditDraft(CountInput(draft, role, value))
      \/ \E value : EditDraft(TransferCount(draft, role, value))
      \/ EditDraft(Undo(finished))
  BY <1>1, <1>4 DEF EditCounts
<1>7. CASE EditDraft(BeginGesture(draft, role))
  BY <1>2, <1>3, <1>7, Begun, EditDraftInv
<1>8. CASE \E cancel \in BOOLEAN : EditDraft(FinishGesture(draft, cancel))
  BY <1>2, <1>3, <1>8, Finished, EditDraftInv
<1>9. CASE EditDraft([finished EXCEPT !.entries[role].error = FALSE])
  BY <1>2, <1>3, <1>5, <1>9, ErrorGone, EditDraftInv
<1>10. CASE \E side : \E rank \in RankIndex \ {draft.transfer[1], draft.transfer[2]} :
              EditDraft(TransferRank(draft, role, side, rank))
  BY <1>2, <1>3, <1>10, RankTransferred, EditDraftInv
<1>11. CASE \E value : EditDraft(CountInput(draft, role, value))
  BY <1>2, <1>3, <1>11, CountTyped, EditDraftInv
<1>12. CASE \E value : EditDraft(TransferCount(draft, role, value))
  BY <1>2, <1>3, <1>12, CountTransferred, EditDraftInv
<1>13. CASE EditDraft(Undo(finished))
  BY <1>3, <1>5, <1>13, Undone, EditDraftInv
<1>. QED
  BY <1>6, <1>7, <1>8, <1>9, <1>10, <1>11, <1>12, <1>13

LEMMA ApplyCountsInv ==
  ASSUME IInv, ApplyCounts
  PROVE  IInv'
<1>1. PICK role : role = owDialog.role
  OBVIOUS
<1>2. role \in Roles
  BY <1>1 DEF IInv, DialogSound, ApplyCounts
<1>3. PICK finished : finished = FinishGesture(Read, FALSE)
  OBVIOUS
<1>7. PICK dist, source : /\ dist = owDialog.draft.entries[role].dist
                          /\ source = owDialog.draft.entries[role].source
  OBVIOUS
<1>4. owWorkspace' = ApplyDistribution(finished, role, dist, source)
  BY <1>1, <1>3, <1>7, Zenon DEF ApplyCounts
<1>8. IsDistribution(dist)
  <2>1. Sound(owDialog.draft)
    BY DEF IInv, DialogSound, ApplyCounts
  <2>. QED
    BY <1>2, <1>7, <2>1, EntryFits
<1>5. Sound(owWorkspace')
  BY <1>2, <1>3, <1>4, <1>8, ReadSound, Finished, Applied
<1>6. owDialog' = NoDialog /\ UNCHANGED <<owSelected, owPage>>
  BY DEF ApplyCounts
<1>. QED
  BY <1>5, <1>6 DEF IInv

LEMMA CloseCountsInv ==
  ASSUME IInv, CloseCounts
  PROVE  IInv'
BY DEF IInv, CloseCounts

-----------------------------------------------------------------------------
LEMMA InitInv == OwInit => IInv
BY OwAssumption DEF OwInit, IInv

LEMMA NextInv == IInv /\ [OwNext]_owvars => IInv'
<1>1. ASSUME IInv, OwNext
      PROVE  IInv'
  BY <1>1, OpenOutlookInv, LeaveOutlookInv, PublicationInv, SelectComparisonInv,
     ArriveComparisonInv, MeanDraftInv, CancelMeanInv, CommitMeanDraftInv, BeginSlideInv, SlideInv,
     PressKeyInv, FinishSlideInv, UndoChangeInv, PinPairInv, UnpinInv, ChooseTaskInv,
     ChooseHorizonInv, PursueGoalInv, TryExampleInv, UseRecentInv, OpenCountsInv, EditCountsInv,
     ApplyCountsInv, CloseCountsInv, Zenon DEF OwNext
<1>2. ASSUME IInv, UNCHANGED owvars
      PROVE  IInv'
  BY <1>2 DEF IInv, owvars, DialogSound
<1>. QED
  BY <1>1, <1>2

\* One Undo takes back one visible change: whatever is typed, dragged, applied from the dialog,
\* an example or a goal, taken back or published meanwhile, no two neighbours in the history
\* are the same pair and the last differs from what is on screen.
THEOREM UndoTakesBack == OwSpec => []UndoTakesBackOneChange
<1>1. IInv => UndoTakesBackOneChange
  BY SoundChanges DEF IInv, DialogSound, UndoTakesBackOneChange
<1>. QED
  BY InitInv, NextInv, <1>1, PTL DEF OwSpec

-----------------------------------------------------------------------------
(* Goals.                                                                  *)

LEMMA ReadIsCurrent ==
  ASSUME IInv
  PROVE  Read.key = owPage.key /\ Read.artifact = owPage.artifact
BY SoundFields, PageKey, OwAssumption DEF IInv, AdoptSummary, Fresh, Read, NoWorkspace, Fields

LEMMA ClearedOther ==
  ASSUME NEW state, Sound(state), NEW one, one = 1, NEW next, next = Cleared(state, one)
  PROVE  /\ next.entries[1].dist = state.entries[1].dist /\ next.entries[2] = state.entries[2]
         /\ next.goal = state.goal /\ next.goalValid = state.goalValid /\ next.task = state.task
<1>1. PICK old : old = state.entries
  OBVIOUS
<1>2. EntriesShaped(old)
  BY <1>1, SoundFields DEF Parts
<1>3. PICK was : was = old[one]
  OBVIOUS
<1>4. EntryShaped(was)
  BY <1>2, <1>3 DEF EntriesShaped, Roles
<1>5. PICK entry : entry = [was EXCEPT !.draft = NoText, !.error = FALSE]
  OBVIOUS
<1>6. entry.dist = was.dist
  BY <1>4, <1>5 DEF EntryShaped
<1>7. PICK entries : entries = [old EXCEPT ![one] = entry]
  OBVIOUS
<1>8. entries[1] = entry /\ entries[2] = old[2]
  BY <1>2, <1>7 DEF EntriesShaped, Roles
<1>9. next = [state EXCEPT !.entries = entries]
  BY <1>1, <1>2, <1>3, <1>4, <1>5, <1>7 DEF Cleared
<1>10. /\ next.entries = entries /\ next.goal = state.goal /\ next.goalValid = state.goalValid
       /\ next.task = state.task
  BY <1>9, SoundFields DEF Fields
<1>. QED
  BY <1>1, <1>3, <1>6, <1>8, <1>10

\* What is below a threshold stays below it once it is applied.
LEMMA BelowApplied ==
  ASSUME NEW state, Sound(state), NEW one, one = 1, NEW dist, IsDistribution(dist), NEW source,
         Compatible(dist, state.entries[2].dist), NEW n \in Int, NEW m \in Nat \ {0},
         Less(Mean(dist), <<n, m>>), NEW next, next = ApplyDistribution(state, one, dist, source)
  PROVE  /\ IsDistribution(next.entries[1].dist) /\ Less(Mean(next.entries[1].dist), <<n, m>>)
         /\ next.entries[2] = state.entries[2]
         /\ next.goal = state.goal /\ next.goalValid = state.goalValid
<1>1. Peer(state, one) = state.entries[2].dist
  BY DEF Peer, OtherRole
<1>2. PICK prior : prior = state.entries[one]
  OBVIOUS
<1>3. IsDistribution(prior.dist)
  BY <1>2, EntryFits DEF Roles
<1>4. CASE SameDistribution(prior.dist, dist) /\ next = Cleared(state, one)
  BY <1>3, <1>4, SameMean, <1>2, ClearedOther
<1>5. CASE \E history :
        next = [UpdateEntry(state, one, [dist |-> dist, source |-> source, draft |-> NoText,
                                         error |-> FALSE]) EXCEPT !.history = history]
  <2>1. PICK entry : entry = [dist |-> dist, source |-> source, draft |-> NoText, error |-> FALSE]
    OBVIOUS
  <2>2. PICK old : old = state.entries
    OBVIOUS
  <2>3. PICK entries : entries = [old EXCEPT ![one] = entry]
    OBVIOUS
  <2>4. EntriesShaped(old)
    BY <2>2, SoundFields DEF Parts
  <2>5. entries[1] = entry /\ entries[2] = old[2]
    BY <2>3, <2>4 DEF EntriesShaped, Roles
  <2>6. PICK put : put = [state EXCEPT !.entries = entries]
    OBVIOUS
  <2>7. PICK history : next = [put EXCEPT !.history = history]
    BY <1>5, <2>1, <2>2, <2>3, <2>6 DEF UpdateEntry
  <2>8. /\ next.entries = entries /\ next.goal = state.goal /\ next.goalValid = state.goalValid
    <3>1. Fields(state, state.key, state.entries, state.history, state.gesture)
      BY SoundFields
    <3>2. /\ put.entries = entries /\ put.goal = state.goal /\ put.goalValid = state.goalValid
          /\ Fields(put, state.key, entries, state.history, state.gesture)
      BY <2>6, <3>1 DEF Fields
    <3>3. next.entries = put.entries /\ next.goal = put.goal /\ next.goalValid = put.goalValid
      BY <2>7, <3>2 DEF Fields
    <3>. QED
      BY <3>2, <3>3
  <2>9. next.entries[1].dist = dist /\ next.entries[2] = state.entries[2]
    BY <2>1, <2>2, <2>5, <2>8
  <2>. QED
    BY <2>8, <2>9
<1>6. \/ SameDistribution(prior.dist, dist) /\ next = Cleared(state, one)
      \/ \E history :
        next = [UpdateEntry(state, one, [dist |-> dist, source |-> source, draft |-> NoText,
                                         error |-> FALSE]) EXCEPT !.history = history]
  BY <1>1, <1>2 DEF ApplyDistribution
<1>. QED
  BY <1>4, <1>5, <1>6

LEMMA TaskOfRecords ==
  ASSUME NEW state, Sound(state), NEW entries, NEW history,
         NEW put, put = [state EXCEPT !.entries = entries],
         NEW next, next = put \/ next = [put EXCEPT !.history = history]
  PROVE  next.task = state.task
<1>1. put.task = state.task /\ Fields(put, state.key, entries, state.history, state.gesture)
  BY SoundFields DEF Fields
<1>. QED
  BY <1>1 DEF Fields

LEMMA TaskKept ==
  ASSUME NEW state, Sound(state), NEW role \in Roles, NEW dist, NEW source,
         NEW next, next = ApplyDistribution(state, role, dist, source)
  PROVE  next.task = state.task
<1>1. PICK a, b, c : /\ a = [state.entries EXCEPT ![role].draft = NoText, ![role].error = FALSE]
                     /\ b = [state.entries EXCEPT ![role].error = TRUE]
                     /\ c = [state.entries EXCEPT ![role] = [dist |-> dist, source |-> source,
                                                             draft |-> NoText, error |-> FALSE]]
  OBVIOUS
<1>2. PICK pa, pb, pc : /\ pa = [state EXCEPT !.entries = a] /\ pb = [state EXCEPT !.entries = b]
                        /\ pc = [state EXCEPT !.entries = c]
  OBVIOUS
<1>3. Cleared(state, role) = pa
  BY <1>1, <1>2, SoundFields DEF Cleared, Fields
<1>4. Refused(state, role) = pb
  BY <1>1, <1>2 DEF Refused
<1>5. PICK history : history = IF state.gesture = NoGesture
                               THEN Remember(pc.history, Snapshot(state)) ELSE pc.history
  OBVIOUS
<1>6. next = pa \/ next = pb \/ next = [pc EXCEPT !.history = history]
  <2>1. PICK entry : entry = [dist |-> dist, source |-> source, draft |-> NoText, error |-> FALSE]
    OBVIOUS
  <2>2. UpdateEntry(state, role, entry) = pc
    BY <1>1, <1>2, <2>1 DEF UpdateEntry
  <2>3. PICK put : put = UpdateEntry(state, role, entry)
    OBVIOUS
  <2>4. \/ next = Cleared(state, role) \/ next = Refused(state, role)
        \/ next = [put EXCEPT !.history = IF state.gesture = NoGesture
                                          THEN Remember(@, Snapshot(state)) ELSE @]
    BY <2>1, <2>3, Zenon DEF ApplyDistribution
  <2>5. put = pc
    BY <2>2, <2>3
  <2>6. \/ next = Cleared(state, role) \/ next = Refused(state, role)
        \/ next = [pc EXCEPT !.history = history]
    BY <1>5, <2>4, <2>5, Zenon
  <2>. QED
    BY <1>3, <1>4, <2>6, Zenon
<1>7. CASE next = pa
  BY <1>2, <1>7, TaskOfRecords, Zenon
<1>8. CASE next = pb
  BY <1>2, <1>8, TaskOfRecords, Zenon
<1>9. CASE next = [pc EXCEPT !.history = history]
  BY <1>2, <1>9, TaskOfRecords
<1>. QED
  BY <1>6, <1>7, <1>8, <1>9

\* The goal's threshold, and what is below it.
LEMMA Threshold ==
  ASSUME NEW o, IsDistribution(o), NEW totals, totals.focus \in Int, totals.rival \in Int,
         NEW h \in Nat \ {0}, NEW t, t = RequiredMean(totals, o, h).threshold
  PROVE  t[1] \in Int /\ t[2] \in Nat \ {0} /\ t = <<t[1], t[2]>>
BY Sums, PositiveProduct DEF RequiredMean

\* Nothing of the rival is pending, and the goal is entered.
GoalReady(state) == ~Pending(state.entries[2]) /\ state.goalValid
Below(state, dist) ==
  Less(Mean(dist), RequiredMean(Totals(state), state.entries[2].dist, state.goal).threshold)

LEMMA CountsOfGoalBelow ==
  ASSUME NEW state, Sound(state), NEW totals, totals = Totals(state),
         totals.focus \in Int, totals.rival \in Int, NEW counts, counts = GoalCounts(state), counts # NoCounts
  PROVE  IsDistribution(counts) /\ Compatible(counts, state.entries[2].dist) /\ Below(state, counts)
<1>1. PICK o, f, h : o = state.entries[2].dist /\ f = state.entries[1].dist /\ h = state.goal
  OBVIOUS
<1>2. IsDistribution(o) /\ IsDistribution(f) /\ h \in Nat \ {0}
  BY <1>1, EntryFits, SoundFields, OwAssumption DEF Roles, Fields
<1>3. PICK step : step = RequiredMean(totals, o, h).maximum
  OBVIOUS
<1>4. step # 0 /\ counts = CountsFromMean(step, o, f)
  BY <1>1, <1>3, Zenon DEF GoalCounts
<1>5. CountsFit(counts, step, o)
  BY <1>2, <1>4, CountsOfMeanFit
<1>6. PICK n \in Int, m \in Nat \ {0} : RequiredMean(totals, o, h).threshold = <<n, m>>
  <2>1. PICK t : t = RequiredMean(totals, o, h).threshold
    OBVIOUS
  <2>2. t[1] \in Int /\ t[2] \in Nat \ {0} /\ t = <<t[1], t[2]>>
    BY <1>2, <2>1, Threshold
  <2>. QED
    BY <2>1, <2>2
<1>7. step \in Int /\ step * m < OcSteps * n
  BY <1>2, <1>3, <1>4, <1>6, RequiredIsBelow
<1>8. Less(Mean(counts), <<n, m>>)
  BY <1>5, <1>7, CountsAreBelow
<1>9. Below(state, counts)
  BY <1>1, <1>6, <1>8 DEF Below
<1>. QED
  BY <1>1, <1>5, <1>9 DEF CountsFit

LEMMA TotalsFit ==
  ASSUME IInv, NEW totals, totals = Totals(Read)
  PROVE  /\ totals.games \in Nat /\ totals.focus \in Int /\ totals.rival \in Int
         /\ totals = OwFacts[owPage.key][owPage.artifact].totals
BY ReadIsCurrent, PageKey, OwAssumption DEF Totals

\* A change of the focus that stays below the threshold puts it ahead.
LEMMA GoalShown ==
  ASSUME IInv, NEW next, IsDistribution(next.entries[1].dist), Below(Read, next.entries[1].dist),
         next.entries[2] = Read.entries[2], next.goal = Read.goal
  PROVE  ProjectOutlook(OwFacts[owPage.key][owPage.artifact].totals, next.entries[1].dist,
                        next.entries[2].dist, next.goal) = "ahead"
BY ReadSound, EntryFits, SoundFields, OwAssumption, TotalsFit, ReachedIsAhead
DEF Roles, Fields, Below

\* What is applied for a goal puts the focus ahead.
LEMMA AppliedForGoal ==
  ASSUME IInv, NEW dist, IsDistribution(dist), NEW source, Compatible(dist, Read.entries[2].dist),
         Below(Read, dist), GoalReady(Read), NEW one, one = 1,
         NEW half, half = ApplyDistribution(Read, one, dist, source)
  PROVE  /\ IsDistribution(half.entries[1].dist) /\ Below(Read, half.entries[1].dist)
         /\ half.entries[2] = Read.entries[2] /\ half.goal = Read.goal
         /\ half.goalValid = Read.goalValid
<1>1. PICK read, o, h, totals :
        read = Read /\ o = read.entries[2].dist /\ h = read.goal /\ totals = Totals(read)
  OBVIOUS
<1>2. Sound(read)
  BY <1>1, ReadSound
<1>3. IsDistribution(o) /\ h \in Nat \ {0}
  BY <1>1, <1>2, EntryFits, SoundFields, OwAssumption DEF Roles, Fields
<1>4. totals.focus \in Int /\ totals.rival \in Int
  BY <1>1, TotalsFit
<1>5. PICK n \in Int, m \in Nat \ {0} : RequiredMean(totals, o, h).threshold = <<n, m>>
  <2>1. PICK t : t = RequiredMean(totals, o, h).threshold
    OBVIOUS
  <2>2. t[1] \in Int /\ t[2] \in Nat \ {0} /\ t = <<t[1], t[2]>>
    BY <1>3, <1>4, <2>1, Threshold
  <2>. QED
    BY <2>1, <2>2
<1>6. \A d : Below(read, d) <=> Less(Mean(d), <<n, m>>)
  BY <1>1, <1>5 DEF Below
<1>7. half = ApplyDistribution(read, one, dist, source) /\ Less(Mean(dist), <<n, m>>)
      /\ Compatible(dist, read.entries[2].dist)
  BY <1>1, <1>6
<1>8. /\ IsDistribution(half.entries[1].dist) /\ Less(Mean(half.entries[1].dist), <<n, m>>)
      /\ half.entries[2] = read.entries[2]
      /\ half.goal = read.goal /\ half.goalValid = read.goalValid
  BY <1>2, <1>7, BelowApplied
<1>. QED
  BY <1>1, <1>6, <1>8

LEMMA PerformanceKeeps ==
  ASSUME NEW state, Sound(state), NEW next, next = UsePerformance(state)
  PROVE  /\ next.entries = state.entries /\ next.goal = state.goal
         /\ next.goalValid = state.goalValid
BY SoundFields DEF UsePerformance, Fields

Reached(next) ==
  /\ ProjectOutlook(OwFacts[owPage.key][owPage.artifact].totals, next.entries[1].dist,
                    next.entries[2].dist, next.goal) = "ahead"
  /\ ~Pending(next.entries[2]) /\ next.goalValid

LEMMA PerformanceReached ==
  ASSUME IInv, GoalReady(Read), NEW half, Sound(half), IsDistribution(half.entries[1].dist),
         Below(Read, half.entries[1].dist), half.entries[2] = Read.entries[2],
         half.goal = Read.goal, half.goalValid = Read.goalValid, NEW next, next = UsePerformance(half)
  PROVE  Reached(next)
BY PerformanceKeeps, GoalShown DEF Reached, GoalReady

LEMMA PursueGoalReaches ==
  ASSUME IInv, PursueGoal
  PROVE  Reached(owWorkspace')
<1>1. PICK read : read = Read
  OBVIOUS
<1>2. Sound(read) /\ CanApplyGoal(read) /\ owWorkspace' = ApplyGoal(read)
  BY <1>1, ReadSound DEF PursueGoal, Edit
<1>3. GoalReady(read)
  BY <1>2 DEF CanApplyGoal, GoalPending, GoalReady
<1>4. PICK one : one = 1
  OBVIOUS
<1>5. CASE GoalShownReached(read)
  BY <1>2, <1>4, <1>5, ClearedOther, ClearedSound, EntryFits, <1>1, <1>3, PerformanceReached
  DEF ApplyGoal, Roles, GoalShownReached, Reaches, Below
<1>6. CASE ~GoalShownReached(read)
  BY <1>2, <1>6, <1>4, <1>1, TotalsFit, CountsOfGoalBelow, <1>3, AppliedForGoal, Applied,
     PerformanceReached DEF CanApplyGoal, ApplyGoal, Roles
<1>. QED
  BY <1>5, <1>6

LEMMA TryExampleReaches ==
  ASSUME IInv, TryExample, Read.task = "goal", owWorkspace'.task = "performance"
  PROVE  Reached(owWorkspace')
<1>1. PICK read : read = Read
  OBVIOUS
<1>2. PICK role \in Roles, kind \in {"mean", "goal"}, example \in OwExamples :
        /\ kind = "goal" => role = 1
        /\ ~ExamplePending(read, role, kind)
        /\ ExampleMeets(read, role, kind, example) /\ Compatible(example, Peer(read, role))
        /\ owWorkspace' = ApplyExample(read, role, kind, example)
  BY <1>1, Zenon DEF TryExample, Edit
<1>3. Sound(read) /\ IsDistribution(example)
  BY <1>1, ReadSound, OwAssumption
<1>4. PICK source : source = Source("example", read.artifact)
  OBVIOUS
<1>5. PICK half : half = ApplyDistribution(read, role, example, source)
  OBVIOUS
<1>6. owWorkspace' = IF kind = "goal" THEN UsePerformance(half) ELSE half
  BY <1>2, <1>4, <1>5, Zenon DEF ApplyExample
<1>7. half.task = "goal"
  BY <1>1, <1>3, <1>5, TaskKept
<1>8. kind = "goal" /\ role = 1
  BY <1>2, <1>6, <1>7
<1>9. GoalReady(read) /\ Peer(read, role) = read.entries[2].dist
  BY <1>2, <1>8 DEF ExamplePending, GoalReady, OtherRole, Peer
<1>10. Below(read, example)
  BY <1>2, <1>8 DEF ExampleMeets, Reaches, Below
<1>11. /\ IsDistribution(half.entries[1].dist) /\ Below(read, half.entries[1].dist)
       /\ half.entries[2] = read.entries[2] /\ half.goal = read.goal
       /\ half.goalValid = read.goalValid
  BY <1>1, <1>2, <1>3, <1>5, <1>8, <1>9, <1>10, AppliedForGoal
<1>12. Sound(half)
  BY <1>3, <1>5, Applied
<1>13. owWorkspace' = UsePerformance(half)
  BY <1>6, <1>8
<1>. QED
  BY <1>1, <1>9, <1>11, <1>12, <1>13, PerformanceReached

\* A goal is reached: whatever was typed, dragged, applied or published before, what a goal or an
\* example for it puts on screen puts the focus strictly ahead at the goal's horizon, from the
\* totals the page shows, against results of the rival that are applied.
THEOREM GoalsReached == OwSpec => GoalIsReached
<1>1. OwInit => IInv
  BY InitInv
<1>2. IInv /\ [OwNext]_owvars => IInv'
  BY NextInv
<1>3. IInv /\ [OwNext]_owvars =>
        [owWorkspace' # NoWorkspace /\ owWorkspace'.task = "performance"
           /\ Read.task = "goal" /\ (PursueGoal \/ TryExample) =>
           LET pair == owWorkspace'.entries
           IN /\ ProjectOutlook(OwFacts[owPage.key][owPage.artifact].totals, pair[1].dist,
                                pair[2].dist, owWorkspace'.goal) = "ahead"
              /\ ~Pending(pair[2]) /\ owWorkspace'.goalValid]_owvars
  BY PursueGoalReaches, TryExampleReaches, Zenon DEF Reached
<1>. QED
  BY <1>1, <1>2, <1>3, PTL DEF OwSpec, GoalIsReached

-----------------------------------------------------------------------------
(***************************************************************************)
(* What the user can act on is the answer to the selection of the moment,  *)
(* for any scopes, matches, publications, choices and order of answers.    *)
(*                                                                         *)
(* The facts every step keeps: a read that is observed and not under way   *)
(* has data or an error; the accepted bundle has caught up with the        *)
(* selection wherever the reads allow it to (Timely); and the serial of a  *)
(* context only rises, so a dead one is not given again (Dead).            *)
(***************************************************************************)
(* What every state is made of.                                              *)
CacheShaped ==
  sdCache \in [Reads -> [value : {"none", "available", "empty", "invalid", "read", "included",
                                  "excluded", "unavailable"},
                         error : {"no", "failed", "expired"}, serial : Nat]]
SdTyped == /\ sdSel \in Selections /\ sdDeferred \in Selections
         /\ sdServer \in 0..SdArtifacts /\ sdStatus.artifact \in 0..sdServer
         /\ CacheShaped
         /\ \A read \in ContextReads :
              sdCache[read].value \in {"none", "included", "excluded", "unavailable"}

(* A read that is observed and not under way has ended.                      *)
Ended(read) == sdCache[read].value # "none" \/ sdCache[read].error # "no"
ReadsEnd == /\ sdFetching \subseteq Observed
            /\ \A read \in Observed : read \in sdFetching \/ Ended(read)

(* The markers of a bundle come from a read of its own publication and scope. *)
Held(bundle) ==
  /\ bundle = [results |-> bundle.results, view |-> bundle.view, context |-> bundle.context]
  /\ bundle.context # NoContext =>
       /\ bundle.view # "outlook" /\ bundle.context.match # NoMatch
       /\ bundle.context.read
            = <<"context", bundle.results[2], bundle.results[3], bundle.context.match>>
       /\ bundle.context.read \in ContextReads
       /\ bundle.context.read[2] <= sdStatus.artifact
       /\ bundle.context.serial \in Nat
       /\ bundle.context.serial <= sdCache[bundle.context.read].serial

(* The accepted bundle has caught up with the selection wherever the reads   *)
(* allow it to.                                                              *)
ForSelection(bundle) == bundle.view = sdSel.view /\ bundle.context.match \in {NoMatch, sdSel.focus}
ContextGivenUp == ContextFailed \/ ContextUnavailable
WithoutContext == /\ Resolution = "waiting" /\ ContextRead # NoRead /\ Candidate # NoBundle
                  /\ ContextGivenUp
ActiveFailed == Failed(ActiveRead) /\ ~HasData(ActiveRead)
SameAnswer(bundle) == OfScope(bundle) /\ Purpose(bundle.view) = Purpose(sdSel.view)
Timely(bundle) ==
  /\ Resolution = "ready" \/ WithoutContext => ForSelection(bundle)
  /\ ContextUnavailable => bundle.context = NoContext
  /\ ActiveFailed /\ SameAnswer(bundle) => ForSelection(bundle)

(* A context that was reported invalid never is what a read gives again.     *)
Dead(context) ==
  /\ context # NoContext /\ context.read \in ContextReads
  /\ context.read[2] <= sdStatus.artifact
  /\ context.serial \in Nat /\ context.serial <= sdCache[context.read].serial
  /\ /\ context.read[2] = sdStatus.artifact
     /\ context.serial = sdCache[context.read].serial
     => sdCache[context.read].value # "included"

DInv == /\ SdTyped /\ ReadsEnd
        /\ \A bundle \in {sdAccepted, sdShown} : Held(bundle)
        /\ \A bundle \in {sdAccepted} : Timely(bundle)
        /\ \A context \in sdDead : Dead(context)
        /\ sdAccepted.context \notin sdDead
        /\ sdInvalid \/ sdShown.context \notin sdDead
-----------------------------------------------------------------------------
(* What the reads of a selection are.                                        *)
ReadsKnown ==
  /\ ScopeRead # NoRead => ScopeRead = <<"scope", sdStatus.artifact, sdSel.scope>>
                           /\ ScopeRead \in ScopeReads
  /\ ActiveRead # NoRead =>
       /\ Planned = "query" /\ sdStatus.artifact # 0 /\ ActiveRead \in ResultReads
       /\ ActiveRead[1] = Purpose(sdSel.view) /\ ActiveRead[2] = sdStatus.artifact
       /\ ActiveRead[3] = IF Purpose(sdSel.view) = "analysis" THEN sdDeferred.scope ELSE sdSel.scope
  /\ ContextRead # NoRead =>
       /\ Planned = "query" /\ sdSel.view # "outlook" /\ sdSel.focus # NoMatch
       /\ ContextRead = <<"context", sdStatus.artifact, sdSel.scope, sdSel.focus>>
       /\ ContextRead \in ContextReads
  /\ Planned = "query" => ActiveRead # NoRead
  /\ Planned = "query" /\ sdSel.view # "outlook" /\ sdSel.focus # NoMatch => ContextRead # NoRead

LEMMA ReadsAre == SdTyped => ReadsKnown
<1> SUFFICES ASSUME SdTyped PROVE ReadsKnown
  OBVIOUS
<1>1. /\ sdSel.scope \in SdScopes /\ sdDeferred.scope \in SdScopes
      /\ sdSel.focus \in SdMatches \cup {NoMatch} /\ sdSel.view \in DisplayViews
      /\ sdStatus.artifact \in 0..SdArtifacts
  BY DisplayAssumption DEF SdTyped, Selections
<1>2. Planned = "query" => sdStatus.artifact \in Published
  BY <1>1, DisplayAssumption DEF Planned, Plan, Published
<1>3. ScopeRead # NoRead => ScopeRead = <<"scope", sdStatus.artifact, sdSel.scope>>
                            /\ ScopeRead \in ScopeReads
  BY <1>1 DEF ScopeRead, ScopeReads
<1>4. Planned # "query" => ActiveRead = NoRead /\ ContextRead = NoRead
  BY DEF ActiveRead, ContextRead
<1>5. ASSUME Planned = "query"
      PROVE  /\ ActiveRead # NoRead /\ ActiveRead \in ResultReads
             /\ ActiveRead[1] = Purpose(sdSel.view) /\ ActiveRead[2] = sdStatus.artifact
             /\ ActiveRead[3] = IF Purpose(sdSel.view) = "analysis" THEN sdDeferred.scope
                                ELSE sdSel.scope
  BY <1>1, <1>5, <1>2 DEF Purpose, ResultKinds, DisplayViews, ActiveRead, ResultReads, NoRead
<1>6. ASSUME Planned = "query", sdSel.view # "outlook", sdSel.focus # NoMatch
      PROVE  /\ ContextRead = <<"context", sdStatus.artifact, sdSel.scope, sdSel.focus>>
             /\ ContextRead # NoRead /\ ContextRead \in ContextReads
  BY <1>1, <1>2, <1>6 DEF ContextRead, ContextReads, NoRead
<1>7. sdSel.view = "outlook" \/ sdSel.focus = NoMatch => ContextRead = NoRead
  BY DEF ContextRead
<1>8. Planned = "query" => sdStatus.artifact # 0
  BY <1>2 DEF Published
<1> QED BY <1>3, <1>4, <1>5, <1>6, <1>7, <1>8 DEF ReadsKnown

-----------------------------------------------------------------------------
(* What the page adopts, from the bundle it had.                             *)
(* Where invalid markers are removed, a failed read without data has already *)
(* put the bundle under the selected view.                                   *)
Behind(bundle) ==
  ContextUnavailable /\ bundle.context # NoContext /\ ActiveFailed /\ SameAnswer(bundle)
    => bundle.view = sdSel.view
AdoptedFits ==
  \A previous, bundle :
    Held(previous) /\ Behind(previous) /\ bundle = Adopted(previous) =>
      /\ Held(bundle) /\ Timely(bundle)
      /\ bundle.context \in {NoContext, previous.context}
         \/ /\ sdCache[ContextRead].value = "included" /\ ContextRead # NoRead
            /\ bundle.context.read = ContextRead
            /\ bundle.context.serial = sdCache[ContextRead].serial

LEMMA BundleFields ==
  /\ \A results, view, context :
       /\ Bundle(results, view, context).results = results
       /\ Bundle(results, view, context).view = view
       /\ Bundle(results, view, context).context = context
       /\ Bundle(results, view, context)
            = [results |-> results, view |-> view, context |-> context]
  /\ NoContext.match = NoMatch /\ NoBundle.context = NoContext /\ NoBundle.results = NoRead
  /\ NoBundle = [results |-> NoRead, view |-> "-", context |-> NoContext]
BY DEF Bundle, NoContext, NoBundle

LEMMA CandidateIs ==
  /\ Held(Candidate) /\ Candidate.context = NoContext
  /\ Candidate # NoBundle =>
       Candidate.view = sdSel.view /\ OfSelection(Candidate) /\ ForSelection(Candidate)
BY BundleFields DEF Held, ForSelection, Candidate

LEMMA ResolvedIs ==
  ASSUME SdTyped, Resolution = "ready"
  PROVE  /\ Held(Resolved) /\ ForSelection(Resolved)
         /\ Resolved.context = NoContext
            \/ /\ sdCache[ContextRead].value = "included" /\ ContextRead # NoRead
               /\ Resolved.context.read = ContextRead
               /\ Resolved.context.serial = sdCache[ContextRead].serial
BY CandidateIs, ReadsAre
DEF Resolution, Resolved, Held, OfSelection, OfScope, ReadsKnown, SdTyped, CacheShaped, Reads,
    ForSelection

LEMMA AdoptedFit == SdTyped => AdoptedFits
<1> SUFFICES ASSUME SdTyped, NEW previous, NEW bundle, Held(previous), Behind(previous),
                    bundle = Adopted(previous)
             PROVE  /\ Held(bundle) /\ Timely(bundle)
                    /\ bundle.context \in {NoContext, previous.context}
                       \/ /\ sdCache[ContextRead].value = "included" /\ ContextRead # NoRead
                          /\ bundle.context.read = ContextRead
                          /\ bundle.context.serial = sdCache[ContextRead].serial
  BY DEF AdoptedFits
<1>1. NoContext.match = NoMatch
  BY BundleFields
<1>2. ContextUnavailable => Resolution # "ready"
  BY ReadsAre DEF ContextUnavailable, ReadsKnown, Resolution
<1>3. CASE GestureHolds(previous)
  BY <1>3, <1>1 DEF Adopted, GestureHolds, Held, Timely, ForSelection
<1>4. CASE ~GestureHolds(previous) /\ Resolution = "ready"
  <2>1. bundle = Resolved
    BY <1>4 DEF Adopted
  <2> QED BY <1>2, <1>4, <2>1, ResolvedIs DEF Timely
<1>5. CASE ~GestureHolds(previous) /\ Resolution # "ready" /\ WithoutContext
  <2>1. bundle = Candidate
    BY <1>5 DEF Adopted, WithoutContext, ContextGivenUp
  <2> QED BY <1>5, <2>1, CandidateIs DEF Timely, WithoutContext
<1>6. CASE /\ ~GestureHolds(previous) /\ Resolution # "ready" /\ ~WithoutContext
           /\ ContextUnavailable /\ previous.context # NoContext
  BY <1>6, BundleFields, <1>1
  DEF Adopted, WithoutContext, ContextGivenUp, Held, Behind, SameAnswer, OfScope, ForSelection,
      Timely
<1>7. CASE /\ ~GestureHolds(previous) /\ Resolution # "ready" /\ ~WithoutContext
           /\ ~(ContextUnavailable /\ previous.context # NoContext)
  <2>1. bundle = Retained(previous)
    BY <1>7 DEF Adopted, WithoutContext, ContextGivenUp
  <2>2. CASE Failed(ActiveRead) /\ OfScope(previous) /\ Purpose(previous.view) = Purpose(sdSel.view)
    BY <2>1, <2>2, BundleFields, <1>1 DEF Retained, ForSelection, Purpose, Held, Timely
  <2>3. CASE ~(Failed(ActiveRead) /\ OfScope(previous)
               /\ Purpose(previous.view) = Purpose(sdSel.view))
    <3>1. bundle = previous
      BY <2>1, <2>3 DEF Retained
    <3> QED BY <1>7, <2>3, <3>1 DEF Timely, ActiveFailed, SameAnswer
  <2> QED BY <2>2, <2>3
<1> QED BY <1>3, <1>4, <1>5, <1>6, <1>7

-----------------------------------------------------------------------------
(* What the invariant says of the page.                                      *)
LEMMA ObservedEnds ==
  ASSUME SdTyped, ReadsEnd, NEW read, read # NoRead, read \in {ScopeRead, ActiveRead, ContextRead},
         ~Fetching(read)
  PROVE  HasData(read) \/ Failed(read)
BY DEF Observed, Fetching, ReadsEnd, Ended, HasData, Failed, Errored

LEMMA CurrentIsShown ==
  ASSUME DInv
  PROVE  ShownAsSelected
<1> SUFFICES ASSUME Interactive, Resolution # "excluded"
             PROVE  /\ OfScope(Visible) /\ Visible.view = sdSel.view
                    /\ Visible.context # NoContext =>
                         /\ Visible.context.match = sdSel.focus
                         /\ <<Visible.context.read[2], Visible.context.read[3]>>
                              = <<Visible.results[2], Visible.results[3]>>
  BY DEF ShownAsSelected
<1>1. /\ Visible # NoBundle /\ Purpose(Visible.view) = Purpose(sdSel.view) /\ ~Shielded
      /\ ~(Resolution = "waiting" /\ Fetching(ContextRead))
  BY DEF Interactive
<1>2. Visible = Displayed /\ (GestureHolds(sdAccepted) \/ Planned = "query" \/ ScopePending)
  BY <1>1 DEF Visible
<1>3. Held(Displayed)
  BY DEF DInv, Held, Displayed
<1>4. PICK bundle : bundle = Displayed
  OBVIOUS
<1>5. bundle.context # NoContext =>
        /\ bundle.view # "outlook" /\ bundle.context.match # NoMatch
        /\ bundle.context.read[2] = bundle.results[2] /\ bundle.context.read[3] = bundle.results[3]
  BY <1>3, <1>4 DEF Held
<1>6. SUFFICES OfScope(bundle) /\ ForSelection(bundle)
  BY <1>2, <1>4, <1>5 DEF ForSelection
<1>7. CASE sdSel.view = "outlook" /\ bundle.view = "outlook" /\ OfScope(bundle)
  BY <1>5, <1>7, BundleFields DEF ForSelection
<1>8. CASE /\ ~(sdSel.view = "outlook" /\ bundle.view = "outlook" /\ OfScope(bundle))
           /\ Changing
  BY <1>1, <1>2, <1>4, <1>8 DEF Shielded, OfSelection, Marks, ForSelection
<1>9. CASE /\ ~(sdSel.view = "outlook" /\ bundle.view = "outlook" /\ OfScope(bundle))
           /\ ~Changing
  <2>1. ~ScopePending /\ ~(Resolution = "waiting" /\ BundleFetching)
    BY <1>1, <1>2, <1>4, <1>9 DEF Shielded
  <2>2. OfScope(bundle) /\ Purpose(bundle.view) = Purpose(sdSel.view)
    BY <1>1, <1>2, <1>4, <1>9, <2>1 DEF Visible
  <2>3. /\ sdShown = sdAccepted /\ sdSel.scope = sdDeferred.scope
        /\ ~Fetching(ActiveRead) /\ ~Fetching(ContextRead)
    BY <1>9 DEF Changing, BundleFetching
  <2>4. bundle.results = sdAccepted.results /\ bundle.view = sdAccepted.view
        /\ bundle.context \in {NoContext, sdAccepted.context}
    BY <1>4, <2>3 DEF Displayed, DInv, Held
  <2>5. SameAnswer(sdAccepted)
    <3>1. sdAccepted # NoBundle
      BY <1>1, <1>2, <2>3, BundleFields DEF Displayed
    <3> QED BY <2>2, <2>4, <3>1 DEF SameAnswer, OfScope
  <2>6. ForSelection(sdAccepted) => ForSelection(bundle)
    BY <2>4, BundleFields DEF ForSelection
  <2>7. Timely(sdAccepted) /\ ReadsKnown
    BY ReadsAre DEF DInv
  <2>8. SUFFICES ASSUME Resolution # "ready", ~WithoutContext PROVE ForSelection(bundle)
    BY <2>2, <2>6, <2>7 DEF Timely
  <2>9. ~GestureHolds(sdAccepted) /\ Planned = "query"
    BY <1>2, <1>9, <2>1, <2>2, <2>4 DEF GestureHolds
  <2>10. CASE HasData(ActiveRead)
    <3>1. Received(Purpose(sdSel.view)) = ActiveRead
      BY <2>7, <2>9, <2>10 DEF Received, ReadsKnown
    <3>2. ActiveRead[2] = sdStatus.artifact /\ ActiveRead[3] = sdSel.scope /\ ActiveRead # NoRead
      BY <2>3, <2>7, <2>9 DEF ReadsKnown
    <3>3. PICK new : new = Bundle(ActiveRead, sdSel.view, NoContext)
      OBVIOUS
    <3>4. new # NoBundle /\ OfSelection(new) /\ new.results # NoRead
      BY <3>2, <3>3, BundleFields DEF OfSelection, OfScope
    <3>5. Candidate # NoBundle
      BY <3>1, <3>3, <3>4 DEF Candidate
    <3>6. sdSel.view # "outlook" /\ sdSel.focus # NoMatch /\ Resolution = "waiting"
      BY <2>8, <3>5 DEF Resolution
    <3>7. ContextRead # NoRead /\ sdCache[ContextRead].value \notin {"included", "excluded"}
      BY <2>7, <2>8, <2>9, <3>5, <3>6 DEF ReadsKnown, Resolution
    <3>8. HasData(ContextRead) \/ Failed(ContextRead)
      BY <2>3, <3>7, ObservedEnds DEF DInv
    <3>9. ContextGivenUp
      BY <2>7, <3>7, <3>8
      DEF ReadsKnown, DInv, SdTyped, HasData, ContextGivenUp, ContextUnavailable, ContextFailed,
          Failed
    <3> QED BY <2>8, <3>5, <3>6, <3>7, <3>9 DEF WithoutContext
  <2>11. CASE ~HasData(ActiveRead)
    <3>1. ActiveFailed
      BY <2>3, <2>7, <2>9, <2>11, ObservedEnds DEF ActiveFailed, DInv, ReadsKnown
    <3> QED BY <2>5, <2>6, <2>7, <3>1 DEF Timely
  <2> QED BY <2>10, <2>11
<1> QED BY <1>7, <1>8, <1>9

LEMMA DeadIsNotShown ==
  ASSUME DInv
  PROVE  InvalidMarkersStayGone
<1>1. NoContext \notin sdDead
  BY DEF DInv, Dead
<1>2. CASE Visible = NoBundle
  BY <1>1, <1>2, BundleFields DEF InvalidMarkersStayGone
<1>3. CASE Visible = Displayed
  <2>1. CASE ContextUnavailable \/ sdInvalid
    <3>1. Displayed.context = NoContext
      BY <2>1 DEF Displayed, DInv, Held
    <3> QED BY <1>1, <1>3, <3>1 DEF InvalidMarkersStayGone
  <2>2. CASE ~(ContextUnavailable \/ sdInvalid)
    BY <1>3, <2>2 DEF Displayed, DInv, InvalidMarkersStayGone
  <2> QED BY <2>1, <2>2
<1> QED BY <1>2, <1>3 DEF Visible

-----------------------------------------------------------------------------
(* A step with a render.  Reads only learn.                                  *)
CacheLater ==
  \A read \in Reads :
    /\ sdCache'[read].serial \in Nat /\ sdCache[read].serial \in Nat
    /\ sdCache[read].serial <= sdCache'[read].serial
    /\ Ended(read) => sdCache'[read].value # "none" \/ sdCache'[read].error # "no"
    /\ sdCache'[read].value = "included" /\ sdCache[read].value # "included"
         => sdCache[read].serial < sdCache'[read].serial
Later == CacheLater /\ sdStatus.artifact \in Nat /\ sdStatus'.artifact \in Nat
                    /\ sdStatus.artifact <= sdStatus'.artifact

LEMMA ContextReadsAre == \A read \in ContextReads : read \in Reads /\ read[2] \in Nat
BY DisplayAssumption DEF ContextReads, Reads, Published

LEMMA HeldLater ==
  ASSUME Later, NEW bundle, Held(bundle)
  PROVE  Held(bundle)'
BY ContextReadsAre DEF Held, Later, CacheLater

LEMMA DeadLater ==
  ASSUME Later, NEW context, Dead(context)
  PROVE  Dead(context)'
BY ContextReadsAre DEF Dead, Later, CacheLater

RenderShows == Rendered /\ Invalidation /\ (sdShown' = sdShown \/ sdShown' = sdAccepted')

LEMMA RenderStep ==
  ASSUME DInv, SdTyped', ReadsEnd', Later, RenderShows, \A bundle \in {sdAccepted} : Behind(bundle)'
  PROVE  DInv'
<1>1. PICK previous \in {sdAccepted} : sdAccepted' = Adopted(previous)'
  BY Zenon DEF RenderShows, Rendered
<1>2. PICK bundle : bundle = sdAccepted'
  OBVIOUS
<1>3. Held(previous)' /\ Behind(previous)'
  BY <1>1, HeldLater DEF DInv
<1>4. (SdTyped => AdoptedFits)' /\ (SdTyped => ReadsKnown)'
  BY AdoptedFit, ReadsAre, PTL
<1>5. ReadsKnown'
  BY <1>4
<1>6. /\ Held(bundle)' /\ Timely(bundle)'
      /\ bundle.context \in {NoContext, previous.context}
         \/ /\ sdCache'[ContextRead'].value = "included" /\ ContextRead' # NoRead
            /\ bundle.context.read = ContextRead'
            /\ bundle.context.serial = sdCache'[ContextRead'].serial
  BY <1>1, <1>2, <1>3, <1>4 DEF AdoptedFits
<1>7. PICK shown : shown = sdShown'
  OBVIOUS
<1>8. Held(shown)'
  BY <1>2, <1>6, <1>7, HeldLater DEF RenderShows, DInv
<1>9. \A context \in sdDead' : Dead(context)'
  <2>1. sdDead' = sdDead \cup DeadAfter
    BY DEF RenderShows, Invalidation
  <2>2. \A context \in sdDead : Dead(context)'
    BY DeadLater DEF DInv
  <2>3. ASSUME NEW context \in DeadAfter
        PROVE  Dead(context)'
    BY <2>3, HeldLater, <1>5, BundleFields
    DEF DeadAfter, DInv, Reported, ContextUnavailable, ReadsKnown, Held, Dead
  <2> QED BY <2>1, <2>2, <2>3
<1>10. bundle.context \notin sdDead'
  <2>1. SUFFICES ASSUME bundle.context \in sdDead' PROVE FALSE
    OBVIOUS
  <2>2. Dead(bundle.context)'
    BY <1>9, <2>1
  <2>3. CASE bundle.context = NoContext
    BY <2>2, <2>3 DEF Dead
  <2>4. CASE bundle.context = previous.context /\ bundle.context # NoContext
    BY <1>1, <2>4, <2>1, <1>6 DEF DInv, RenderShows, Invalidation, DeadAfter, Reported, Timely
  <2>5. CASE /\ sdCache'[ContextRead'].value = "included" /\ ContextRead' # NoRead
             /\ bundle.context.read = ContextRead'
             /\ bundle.context.serial = sdCache'[ContextRead'].serial
    <3>1. ContextRead'[2] = sdStatus'.artifact
      BY <1>5, <2>5 DEF ReadsKnown
    <3> QED BY <2>2, <2>5, <3>1 DEF Dead
  <2> QED BY <1>6, <2>3, <2>4, <2>5
<1>11. sdInvalid' \/ shown.context \notin sdDead'
  BY <1>2, <1>7, <1>10 DEF RenderShows, Invalidation, DeadAfter, Reported, DInv
<1>12. (\A b \in {sdAccepted, sdShown} : Held(b))' /\ (\A b \in {sdAccepted} : Timely(b))'
  BY <1>2, <1>6, <1>7, <1>8
<1> QED BY <1>2, <1>7, <1>9, <1>10, <1>11, <1>12 DEF DInv

-----------------------------------------------------------------------------
(* What each step needs for it.                                              *)
LEMMA ReadsOn ==
  ASSUME DInv, SdTyped', CacheLater, NEW ended, NEW again, NEW stale, ReadsGoOn(ended, again, stale),
         \A read \in ended : sdCache'[read].value # "none" \/ sdCache'[read].error # "no"
  PROVE  ReadsEnd'
<1>1. (SdTyped => ReadsKnown)'
  BY ReadsAre, PTL
<1>2. Observed' \subseteq Reads
  BY <1>1 DEF Observed, ReadsKnown, Reads
<1>3. sdFetching' \subseteq Observed'
  BY DEF ReadsGoOn
<1>4. ASSUME NEW read \in Observed', read \notin sdFetching'
      PROVE  sdCache'[read].value # "none" \/ sdCache'[read].error # "no"
  BY <1>2, <1>4 DEF ReadsGoOn, DInv, ReadsEnd, CacheLater
<1> QED BY <1>3, <1>4 DEF ReadsEnd, Ended

LEMMA ActiveStays ==
  ASSUME DInv, SdTyped', NEW ended, NEW again, NEW stale, ReadsGoOn(ended, again, stale), ActiveFailed'
  PROVE  /\ ActiveRead' = ActiveRead /\ ActiveRead # NoRead
         /\ Planned = "query" /\ Planned' = "query" /\ sdStatus'.artifact = sdStatus.artifact
         /\ Purpose(sdSel'.view) = Purpose(sdSel.view)
         /\ ActiveRead \notin ended => ActiveRead \notin sdFetching
<1>1. PICK read : read = ActiveRead'
  OBVIOUS
<1>2. read # NoRead /\ read \notin sdFetching' /\ sdCache'[read].value = "none"
  BY <1>1 DEF ActiveFailed, Failed, HasData
<1>3. ReadsKnown /\ (SdTyped => ReadsKnown)'
  BY ReadsAre, PTL DEF DInv
<1>4. read \in Observed'
  BY <1>1, <1>2 DEF Observed
<1>5. read \in Observed
  BY <1>2, <1>4 DEF ReadsGoOn
<1>6. read[1] = Purpose(sdSel'.view) /\ read[2] = sdStatus'.artifact /\ read \in ResultReads
      /\ Planned' = "query"
  BY <1>1, <1>2, <1>3 DEF ReadsKnown
<1>7. read = ActiveRead
  BY <1>6, <1>3, <1>2, <1>5 DEF ResultReads, ResultKinds, ReadsKnown, Observed
<1>8. ActiveRead \notin ended => ActiveRead \notin sdFetching
  BY <1>2, <1>4, <1>7 DEF ReadsGoOn
<1> QED BY <1>1, <1>2, <1>3, <1>6, <1>7, <1>8 DEF ReadsKnown

(* Where a match becomes unavailable only under an active read that has not  *)
(* failed, nothing lags.                                                     *)
LEMMA NothingLags ==
  ASSUME DInv, ContextUnavailable' /\ ActiveFailed' => ContextUnavailable
  PROVE  \A bundle \in {sdAccepted} : Behind(bundle)'
BY DEF DInv, Timely, Behind

LEMMA SameCache ==
  ASSUME SdTyped, UNCHANGED sdCache
  PROVE  CacheLater
BY DEF SdTyped, CacheShaped, CacheLater, Ended

LEMMA SameStatus ==
  ASSUME SdTyped, CacheLater, sdStatus' = sdStatus
  PROVE  Later
BY DEF SdTyped, Later

(* The same selection on the same reads.                                     *)
LEMMA SameReads ==
  ASSUME UNCHANGED <<sdSel, sdStatus, sdCache>>
  PROVE  ContextUnavailable' <=> ContextUnavailable
BY DEF ContextUnavailable, ContextRead, Planned, ScopeState, ScopeRead

LEMMA SelectInv ==
  ASSUME DInv, NEW sel \in Selections, NEW stale, Select(sel, stale)
  PROVE  DInv'
<1>1. /\ sdSel' = sel /\ UNCHANGED <<sdDeferred, sdServer, sdStatus, sdCache, sdShown>>
      /\ ReadsGoOn({}, {}, stale) /\ RenderShows
      /\ sel.scope # sdSel.scope => sel = [sdSel EXCEPT !.scope = sel.scope, !.focus = NoMatch]
      /\ sel.scope = sdSel.scope => sel.view = sdSel.view \/ sel.focus = sdSel.focus
  BY DEF Select, RenderShows
<1>2. SdTyped'
  BY <1>1 DEF DInv, SdTyped, CacheShaped
<1>3. Later /\ CacheLater
  BY <1>1, SameCache, SameStatus DEF DInv
<1>4. ReadsEnd'
  BY <1>1, <1>2, <1>3, ReadsOn
<1>5. ReadsKnown /\ (SdTyped => ReadsKnown)'
  BY ReadsAre, PTL DEF DInv
<1>6. ASSUME NEW bundle \in {sdAccepted}, ContextUnavailable', bundle.context # NoContext,
             ActiveFailed', SameAnswer(bundle)'
      PROVE  bundle.view = sdSel'.view
  <2>1. ~ContextUnavailable
    BY <1>6 DEF DInv, Timely
  <2>2. /\ ContextRead' = <<"context", sdStatus'.artifact, sdSel'.scope, sdSel'.focus>>
        /\ sdSel'.view # "outlook" /\ sdSel'.focus # NoMatch
        /\ sdCache'[ContextRead'].value = "unavailable"
    BY <1>2, <1>5, <1>6 DEF ContextUnavailable, ReadsKnown
  <2>3. /\ ActiveRead' = ActiveRead /\ ActiveRead # NoRead /\ Planned = "query"
        /\ Purpose(sdSel'.view) = Purpose(sdSel.view) /\ ActiveRead \notin sdFetching
    BY <1>1, <1>2, <1>6, ActiveStays
  <2>4. sdSel'.scope = sdSel.scope
    BY <1>1, <2>2 DEF DInv, SdTyped, Selections
  <2>5. CASE sdSel'.view = sdSel.view
    BY <1>1, <1>6, <2>3, <2>4, <2>5
    DEF ActiveFailed, Failed, Errored, HasData, SameAnswer, OfScope, DInv, Timely, ForSelection
  <2>6. CASE sdSel'.view # sdSel.view
    BY <1>1, <2>4, <2>6, <2>2, <2>3, <1>5, <2>1 DEF Purpose, ReadsKnown, ContextUnavailable
  <2> QED BY <2>5, <2>6
<1>7. \A bundle \in {sdAccepted} : Behind(bundle)'
  BY <1>6 DEF Behind
<1> QED BY <1>1, <1>2, <1>3, <1>4, <1>7, RenderStep

LEMMA ClearExcludedInv ==
  ASSUME DInv, ClearExcluded
  PROVE  DInv'
<1>1. PICK stale :
        /\ sdSel' = [sdSel EXCEPT !.focus = NoMatch]
        /\ UNCHANGED <<sdDeferred, sdServer, sdStatus, sdCache, sdShown>>
        /\ ReadsGoOn({}, {}, stale) /\ RenderShows
  BY Zenon DEF ClearExcluded, RenderShows
<1>2. SdTyped'
  BY <1>1 DEF DInv, SdTyped, CacheShaped, Selections
<1>3. Later /\ CacheLater
  BY <1>1, SameCache, SameStatus DEF DInv
<1>4. ReadsEnd'
  BY <1>1, <1>2, <1>3, ReadsOn
<1>5. ~ContextUnavailable'
  <2>1. sdSel'.focus = NoMatch
    BY <1>1 DEF DInv, SdTyped, Selections
  <2> QED BY <2>1 DEF ContextUnavailable, ContextRead
<1> QED BY <1>1, <1>2, <1>3, <1>4, <1>5, NothingLags, RenderStep

(* React catches up, a gesture, and a status that cannot be read: the same   *)
(* selection on the same reads.                                              *)
LEMMA CatchUpInv ==
  ASSUME DInv, Background \/ (\E on \in BOOLEAN : Drag(on)) \/ StatusFails
  PROVE  DInv'
<1>1. PICK again, stale :
        /\ UNCHANGED <<sdSel, sdServer, sdStatus, sdCache>> /\ sdDeferred' \in {sdDeferred, sdSel}
        /\ ReadsGoOn({}, again, stale) /\ RenderShows
  <2>1. CASE Background
    BY <2>1, Zenon DEF Background, RenderShows
  <2>2. CASE \E on \in BOOLEAN : Drag(on)
    BY <2>2, Zenon DEF Drag, RenderShows
  <2>3. CASE StatusFails
    BY <2>3, Zenon DEF StatusFails, RenderShows
  <2> QED BY <2>1, <2>2, <2>3
<1>2. SdTyped'
  BY <1>1 DEF DInv, SdTyped, CacheShaped
<1>3. Later /\ CacheLater
  BY <1>1, SameCache, SameStatus DEF DInv
<1>4. ReadsEnd'
  BY <1>1, <1>2, <1>3, ReadsOn
<1>5. ContextUnavailable' <=> ContextUnavailable
  BY <1>1, SameReads
<1> QED BY <1>1, <1>2, <1>3, <1>4, <1>5, NothingLags, RenderStep

LEMMA StatusReadInv ==
  ASSUME DInv, NEW stale, StatusRead(stale)
  PROVE  DInv'
<1>1. PICK again :
        /\ UNCHANGED <<sdSel, sdDeferred, sdServer, sdCache, sdShown>>
        /\ sdStatus' = [read |-> TRUE, artifact |-> sdServer]
        /\ ReadsGoOn({}, again, stale) /\ RenderShows
  BY DEF StatusRead, RenderShows
<1>2. sdStatus'.artifact = sdServer
  BY <1>1
<1>3. SdTyped'
  BY <1>1, <1>2 DEF DInv, SdTyped, CacheShaped
<1>4. CacheLater
  BY <1>1, SameCache DEF DInv
<1>5. Later
  BY <1>2, <1>4 DEF DInv, SdTyped, Later
<1>6. ReadsEnd'
  BY <1>1, <1>3, <1>4, ReadsOn
<1>7. ReadsKnown /\ (SdTyped => ReadsKnown)'
  BY ReadsAre, PTL DEF DInv
<1>8. ASSUME ContextUnavailable', ActiveFailed'
      PROVE  ContextUnavailable
  BY <1>3, <1>7, <1>8, <1>1, ActiveStays DEF ContextUnavailable, ReadsKnown
<1> QED BY <1>1, <1>3, <1>5, <1>6, <1>8, NothingLags, RenderStep

(* The answer of a read.                                                     *)
LEMMA AnswerInv ==
  ASSUME DInv, NEW read \in sdFetching, NEW entry, NEW again, NEW stale,
         entry \in [value : {"none", "available", "empty", "invalid", "read", "included",
                             "excluded", "unavailable"},
                    error : {"no", "failed", "expired"}, serial : Nat],
         read \in ContextReads => entry.value \in {"none", "included", "excluded", "unavailable"},
         entry.value # "none" \/ entry.error # "no",
         sdCache[read].serial <= entry.serial,
         entry.value = "included" /\ sdCache[read].value # "included"
           => sdCache[read].serial < entry.serial,
         sdCache' = [sdCache EXCEPT ![read] = entry],
         UNCHANGED <<sdSel, sdDeferred, sdServer, sdStatus>>, ReadsGoOn({read}, again, stale), RenderShows
  PROVE  DInv'
<1>1. ReadsKnown /\ (SdTyped => ReadsKnown)'
  BY ReadsAre, PTL DEF DInv
<1>2. read \in Reads
  BY <1>1 DEF DInv, ReadsEnd, Observed, ReadsKnown, Reads
<1>3. /\ sdCache'[read] = entry
      /\ \A other \in Reads : other # read => sdCache'[other] = sdCache[other]
      /\ CacheShaped'
  BY <1>2 DEF DInv, SdTyped, CacheShaped
<1>4. SdTyped'
  BY <1>3, ContextReadsAre DEF DInv, SdTyped
<1>5. CacheLater
  BY <1>2, <1>3 DEF DInv, SdTyped, CacheShaped, CacheLater, Ended
<1>6. Later
  BY <1>5, SameStatus DEF DInv
<1>7. ReadsEnd'
  BY <1>3, <1>4, <1>5, ReadsOn
<1>8. ASSUME NEW bundle \in {sdAccepted}, ContextUnavailable', bundle.context # NoContext,
             ActiveFailed', SameAnswer(bundle)'
      PROVE  bundle.view = sdSel'.view
  <2>1. ~ContextUnavailable
    BY <1>8 DEF DInv, Timely
  <2>2. /\ ContextRead' = <<"context", sdStatus'.artifact, sdSel'.scope, sdSel'.focus>>
        /\ sdSel'.view # "outlook" /\ sdSel'.focus # NoMatch /\ ContextRead' \in ContextReads
        /\ sdCache'[ContextRead'].value = "unavailable"
    BY <1>1, <1>4, <1>8 DEF ContextUnavailable, ReadsKnown
  <2>3. /\ ActiveRead' = ActiveRead /\ ActiveRead # NoRead /\ Planned = "query"
        /\ ActiveRead # read => ActiveRead \notin sdFetching
    BY <1>4, <1>8, ActiveStays
  <2>4. ContextRead' = ContextRead /\ ContextRead # NoRead
    BY <1>1, <2>2, <2>3 DEF ReadsKnown
  <2>5. ContextRead = read
    BY <1>3, <2>1, <2>2, <2>4, ContextReadsAre DEF ContextUnavailable
  <2>6. ActiveRead # read /\ ActiveRead \in Reads
    BY <1>1, <2>2, <2>3, <2>4, <2>5 DEF ReadsKnown, ResultReads, ResultKinds, Reads
  <2>7. ActiveFailed
    BY <1>3, <1>8, <2>3, <2>6 DEF ActiveFailed, Failed, Errored, HasData
  <2>8. SameAnswer(bundle)
    BY <1>8 DEF SameAnswer, OfScope
  <2> QED BY <2>7, <2>8 DEF DInv, Timely, ForSelection
<1>9. \A bundle \in {sdAccepted} : Behind(bundle)'
  BY <1>8 DEF Behind
<1> QED BY <1>4, <1>6, <1>7, <1>9, RenderStep

LEMMA AnswersAre ==
  ASSUME NEW read, NEW value \in Answers(read)
  PROVE  /\ value \in {"available", "empty", "invalid", "read", "included", "excluded",
                       "unavailable"}
         /\ read \in ContextReads => value \in {"included", "excluded", "unavailable"}
BY DEF Answers, ScopeReads, ResultReads, ContextReads, ResultKinds

LEMMA ReadSucceedsInv ==
  ASSUME DInv, NEW read \in sdFetching, NEW stale, NEW value \in Answers(read),
         NEW error \in {"no", "failed", "expired"}, ReadSucceeds(read, value, error, stale)
  PROVE  DInv'
<1>1. read \in Reads
  BY ReadsAre DEF DInv, ReadsEnd, Observed, ReadsKnown, Reads
<1>2. PICK serial : serial = IF sdCache[read].value # value /\ value = "included"
                             THEN sdCache[read].serial + 1 ELSE sdCache[read].serial
  OBVIOUS
<1>3. PICK entry : entry = [value |-> value, error |-> error, serial |-> serial]
  OBVIOUS
<1>4. PICK again : /\ sdCache' = [sdCache EXCEPT ![read] = entry]
                   /\ UNCHANGED <<sdSel, sdDeferred, sdServer, sdStatus>>
                   /\ ReadsGoOn({read}, again, stale) /\ RenderShows
  BY <1>2, <1>3 DEF ReadSucceeds, RenderShows
<1>5. sdCache[read].serial \in Nat
  BY <1>1 DEF DInv, SdTyped, CacheShaped
<1>6. /\ value \in {"available", "empty", "invalid", "read", "included", "excluded",
                      "unavailable"}
      /\ read \in ContextReads => value \in {"included", "excluded", "unavailable"}
  BY AnswersAre
<1>7. /\ entry.value = value /\ entry.serial = serial /\ serial \in Nat
      /\ sdCache[read].serial <= serial
      /\ value = "included" /\ sdCache[read].value # "included" => sdCache[read].serial < serial
  BY <1>2, <1>3, <1>5
<1>8. entry \in [value : {"none", "available", "empty", "invalid", "read", "included",
                          "excluded", "unavailable"},
                 error : {"no", "failed", "expired"}, serial : Nat]
  BY <1>3, <1>6, <1>7
<1>9. /\ read \in ContextReads =>
           entry.value \in {"none", "included", "excluded", "unavailable"}
      /\ entry.value # "none" \/ entry.error # "no"
      /\ sdCache[read].serial <= entry.serial
      /\ entry.value = "included" /\ sdCache[read].value # "included"
           => sdCache[read].serial < entry.serial
  BY <1>6, <1>7
<1> QED BY <1>4, <1>8, <1>9, AnswerInv

LEMMA ReadFailsInv ==
  ASSUME DInv, NEW read \in sdFetching, NEW error \in {"failed", "expired"}, ReadFails(read, error)
  PROVE  DInv'
<1>1. read \in Reads
  BY ReadsAre DEF DInv, ReadsEnd, Observed, ReadsKnown, Reads
<1>2. PICK left : left = IF sdCache[read].error # "no" /\ sdCache[read].value = "unavailable"
                         THEN sdCache[read].error ELSE error
  OBVIOUS
<1>3. PICK entry : entry = [sdCache[read] EXCEPT !.error = left]
  OBVIOUS
<1>4. sdCache' = [sdCache EXCEPT ![read] = entry] /\ UNCHANGED <<sdSel, sdDeferred, sdServer, sdStatus>>
  BY <1>1, <1>2, <1>3 DEF ReadFails, DInv, SdTyped, CacheShaped
<1>5. PICK again, stale : ReadsGoOn({read}, again, stale) /\ RenderShows
  BY Zenon DEF ReadFails, RenderShows
<1>6. sdCache[read] \in [value : {"none", "available", "empty", "invalid", "read", "included",
                                  "excluded", "unavailable"},
                         error : {"no", "failed", "expired"}, serial : Nat]
      /\ (read \in ContextReads =>
            sdCache[read].value \in {"none", "included", "excluded", "unavailable"})
  BY <1>1 DEF DInv, SdTyped, CacheShaped
<1>7. /\ entry.value = sdCache[read].value /\ entry.serial = sdCache[read].serial
      /\ entry.error = left /\ left \in {"failed", "expired"}
  BY <1>2, <1>3, <1>6
<1>8. entry \in [value : {"none", "available", "empty", "invalid", "read", "included",
                          "excluded", "unavailable"},
                 error : {"no", "failed", "expired"}, serial : Nat]
  BY <1>3, <1>6, <1>7
<1>9. /\ read \in ContextReads =>
           entry.value \in {"none", "included", "excluded", "unavailable"}
      /\ entry.value # "none" \/ entry.error # "no"
      /\ sdCache[read].serial <= entry.serial
      /\ entry.value = "included" /\ sdCache[read].value # "included"
           => sdCache[read].serial < entry.serial
  BY <1>6, <1>7
<1> QED BY <1>4, <1>5, <1>8, <1>9, AnswerInv

LEMMA StutterInv ==
  ASSUME DInv, sdServer' = sdServer \/ (sdServer' = sdServer + 1 /\ sdServer < SdArtifacts),
         UNCHANGED <<sdSel, sdDeferred, sdStatus, sdCache, sdFetching, sdLast, sdAccepted, sdShown,
                     sdInvalid, sdGesture, sdDead>>
  PROVE  DInv'
<1>1. /\ UNCHANGED <<sdSel, sdDeferred, sdStatus, sdCache, sdFetching, sdLast, sdAccepted, sdShown,
                     sdInvalid, sdGesture, sdDead>>
      /\ sdServer' \in 0..SdArtifacts /\ sdServer <= sdServer'
  BY DisplayAssumption DEF DInv, SdTyped
<1>2. SdTyped'
  BY <1>1, DisplayAssumption DEF DInv, SdTyped, CacheShaped
<1>3. ScopeRead' = ScopeRead /\ ScopeState' = ScopeState
  BY <1>1 DEF ScopeState, ScopeRead
<1>4. Planned' = Planned
  BY <1>1, <1>3 DEF Planned
<1>5. ActiveRead' = ActiveRead /\ ContextRead' = ContextRead
  BY <1>1, <1>4 DEF ActiveRead, ContextRead
<1>6. Received(Purpose(sdSel.view))' = Received(Purpose(sdSel.view))
  BY <1>1, <1>5 DEF Received, HasData, Errored
<1>7. Candidate' = Candidate
  BY <1>1, <1>6 DEF Candidate, OfSelection, OfScope
<1>8. Resolution' = Resolution
  BY <1>1, <1>5, <1>7 DEF Resolution
<1>9. /\ ContextUnavailable' <=> ContextUnavailable
      /\ ActiveFailed' <=> ActiveFailed
      /\ WithoutContext' <=> WithoutContext
  BY <1>1, <1>5, <1>7, <1>8 DEF ContextUnavailable, ActiveFailed, Failed, Errored, HasData,
     WithoutContext, ContextGivenUp, ContextFailed
<1>10. ReadsEnd'
  BY <1>1, <1>3, <1>5 DEF DInv, ReadsEnd, Observed, Ended
<1>11. (\A bundle \in {sdAccepted, sdShown} : Held(bundle))' /\ (\A context \in sdDead : Dead(context))'
  BY <1>1 DEF DInv, Held, Dead
<1>12. (\A bundle \in {sdAccepted} : Timely(bundle))'
  BY <1>1, <1>8, <1>9 DEF DInv, Timely, ForSelection, SameAnswer, OfScope
<1> QED BY <1>1, <1>2, <1>10, <1>11, <1>12 DEF DInv

(* A publication and the start of a refresh are not seen on the page.        *)
LEMMA UnseenInv ==
  ASSUME DInv, Publish \/ StartRefresh
  PROVE  DInv'
BY StutterInv DEF Publish, StartRefresh

LEMMA DisplayInitInv ==
  ASSUME DisplayInit
  PROVE  DInv
<1>1. /\ sdSel = [scope |-> SdWhole, view |-> "review", focus |-> NoMatch] /\ sdDeferred = sdSel
      /\ sdServer \in {0, 1} /\ sdStatus.artifact = 0 /\ ~sdStatus.read
      /\ sdCache = [read \in Reads |-> [value |-> "none", error |-> "no", serial |-> 0]]
      /\ sdFetching = {} /\ sdAccepted = NoBundle /\ sdShown = NoBundle /\ sdDead = {}
  BY DEF DisplayInit
<1>2. SdTyped
  BY <1>1, ContextReadsAre, DisplayAssumption DEF SdTyped, CacheShaped, Selections, DisplayViews
<1>3. ScopeRead = NoRead
  BY <1>1 DEF ScopeRead
<1>4. Planned # "query"
  BY <1>1, <1>3 DEF Planned, Plan, ScopeState
<1>5. ActiveRead = NoRead /\ ContextRead = NoRead
  BY <1>4 DEF ActiveRead, ContextRead
<1>6. ReadsEnd
  BY <1>1, <1>3, <1>5 DEF ReadsEnd, Observed
<1>7. Held(NoBundle)
  BY BundleFields DEF Held
<1>8. Resolution = "waiting" /\ ~ContextUnavailable /\ ~ActiveFailed /\ ~WithoutContext
  BY <1>1, <1>5, BundleFields
  DEF Purpose, ResultKinds, Received, DisplayInit, Candidate, Resolution, ContextUnavailable,
      ActiveFailed, Failed, WithoutContext
<1>9. Timely(NoBundle)
  BY <1>8 DEF Timely
<1> QED BY <1>1, <1>2, <1>6, <1>7, <1>9 DEF DInv

LEMMA DisplayNextInv ==
  ASSUME DInv, [DisplayNext]_sdvars
  PROVE  DInv'
<1>1. CASE UNCHANGED sdvars
  BY <1>1, StutterInv DEF sdvars
<1>2. CASE \E sel \in Selections, stale \in BOOLEAN : Select(sel, stale)
  BY <1>2, SelectInv
<1>3. CASE ClearExcluded
  BY <1>3, ClearExcludedInv
<1>4. CASE Background \/ (\E on \in BOOLEAN : Drag(on)) \/ StatusFails
  BY <1>4, CatchUpInv
<1>5. CASE Publish \/ StartRefresh
  BY <1>5, UnseenInv
<1>6. CASE \E stale \in BOOLEAN : StatusRead(stale)
  BY <1>6, StatusReadInv
<1>7. CASE \E read \in sdFetching, stale \in BOOLEAN :
             \E value \in Answers(read), error \in {"no", "failed", "expired"} :
               ReadSucceeds(read, value, error, stale)
  BY <1>7, ReadSucceedsInv
<1>8. CASE \E read \in sdFetching, error \in {"failed", "expired"} : ReadFails(read, error)
  BY <1>8, ReadFailsInv
<1> QED BY <1>1, <1>2, <1>3, <1>4, <1>5, <1>6, <1>7, <1>8, Zenon DEF DisplayNext
-----------------------------------------------------------------------------
(* For any scopes, matches and publications, and any number of choices and   *)
(* answers: what the user can act on is the answer to the selection of the   *)
(* moment, whatever order reads end in and whatever React still defers, and  *)
(* markers of a match declared unavailable come back only with a new read.   *)
THEOREM ShownMatches == DisplaySpec => []ShownMatchesSelection
<1>1. DisplayInit => DInv
  BY DisplayInitInv
<1>2. DInv /\ [DisplayNext]_sdvars => DInv'
  BY DisplayNextInv
<1>3. DInv => ShownMatchesSelection
  BY CurrentIsShown, DeadIsNotShown DEF ShownMatchesSelection
<1> QED BY <1>1, <1>2, <1>3, PTL DEF DisplaySpec
-----------------------------------------------------------------------------
(* The selection of the comparison page: what the router holds is the sum of  *)
(* the choices, and what React shows is canonical once it is the same visit.  *)

\* A new entry has a larger key than any other and than the one React shows.
IsSequence(history) == history \in Seq({history[i] : i \in DOMAIN history})
HistoryFits(history, at, shown) ==
  /\ IsSequence(history) /\ at \in DOMAIN history
  /\ \A i \in DOMAIN history : history[i].key \in Nat
  /\ \E top \in DOMAIN history :
       /\ \A i \in DOMAIN history : history[i].key <= history[top].key
       /\ shown.key \in Nat /\ shown.key <= history[top].key

\* Nothing is chosen before the directory is read.
NothingChosenUnread == ~ssDirectory.read => ssPending = NoPending

\* The choice on its way is the visit that the router took from the one shown.
UnderwayIsTaken ==
  ssPending # NoPending =>
    /\ Here.key # ssShown.key
    /\ Here.url = ssPending.url /\ ssPending.source = ssShown.key

RestsCanonically ==
  ~Lagging /\ ssDirectory.read => NormalizedSelection = ssShown.url.selection

ChoicesInv ==
  /\ HistoryFits(ssHistory, ssAt, ssShown) /\ NothingChosenUnread
  /\ ~ssCrossed => UnderwayIsTaken /\ RestsCanonically /\ Here.url.selection = ssWanted

LEMMA EntryIsNewer ==
  ASSUME NEW history, NEW at, NEW shown, NEW url, HistoryFits(history, at, shown)
  PROVE  /\ Entry(url, history).url = url /\ Entry(url, history).key \in Nat
         /\ \A i \in DOMAIN history : history[i].key < Entry(url, history).key
         /\ shown.key \in Nat /\ shown.key < Entry(url, history).key
<1> DEFINE keys == {history[i].key : i \in DOMAIN history}
           LargestKey(k) == k \in keys /\ \A i \in DOMAIN history : history[i].key <= k
<1>1. PICK top \in DOMAIN history :
        /\ \A i \in DOMAIN history : history[i].key <= history[top].key
        /\ shown.key \in Nat /\ shown.key <= history[top].key
  BY DEF HistoryFits
<1>2. \E k : LargestKey(k)
  BY <1>1
<1>3. PICK newest : newest = CHOOSE k \in keys : \A i \in DOMAIN history : history[i].key <= k
  OBVIOUS
<1>4. LargestKey(newest)
  BY <1>2, <1>3, Zenon
<1>5. newest \in Nat /\ history[top].key <= newest
  BY <1>1, <1>4 DEF HistoryFits
<1>6. \A i \in DOMAIN history : history[i].key \in Nat /\ history[i].key <= newest
  BY <1>4 DEF HistoryFits
<1>7. Entry(url, history) = [url |-> url, key |-> 1 + newest]
  BY <1>3, Zenon DEF Entry
<1>8. Entry(url, history).url = url /\ Entry(url, history).key = 1 + newest
  BY <1>7
<1> HIDE DEF LargestKey
<1>9. history[top].key \in Nat
  BY <1>6
<1> QED BY <1>1, <1>5, <1>6, <1>8, <1>9

LEMMA HistoryReplaced ==
  ASSUME NEW history, NEW at, NEW shown, NEW url, HistoryFits(history, at, shown)
  PROVE  /\ HistoryFits(Replaced(history, at, url), at, shown)
         /\ Replaced(history, at, url)[at].url = url
         /\ Replaced(history, at, url)[at].key # shown.key
<1>1. PICK entry : entry = Entry(url, history)
  OBVIOUS
<1>2. /\ entry.url = url /\ entry.key \in Nat
      /\ \A i \in DOMAIN history : history[i].key < entry.key
      /\ shown.key \in Nat /\ shown.key < entry.key
  BY <1>1, EntryIsNewer
<1>3. PICK after : after = Replaced(history, at, url)
  OBVIOUS
<1>4. after = [history EXCEPT ![at] = entry]
  BY <1>1, <1>3 DEF Replaced
<1>5. /\ at \in DOMAIN history /\ DOMAIN history = 1..Len(history) /\ Len(history) \in Nat
      /\ history = [i \in 1..Len(history) |-> history[i]]
      /\ \A i \in DOMAIN history : history[i].key \in Nat
  BY DEF HistoryFits, IsSequence
<1>6. /\ DOMAIN after = DOMAIN history /\ after[at] = entry
      /\ \A i \in DOMAIN after : i # at => after[i] = history[i]
      /\ after = [i \in 1..Len(history) |-> after[i]]
  BY <1>4, <1>5
<1>7. IsSequence(after)
  BY <1>5, <1>6, SeqDef DEF IsSequence
<1>8. \A i \in DOMAIN after : after[i].key \in Nat /\ after[i].key <= after[at].key
  BY <1>2, <1>5, <1>6
<1>9. HistoryFits(after, at, shown)
  BY <1>2, <1>5, <1>6, <1>7, <1>8 DEF HistoryFits
<1> QED BY <1>2, <1>3, <1>6, <1>9

LEMMA HistoryPushed ==
  ASSUME NEW history, NEW at, NEW shown, NEW url, HistoryFits(history, at, shown)
  PROVE  /\ HistoryFits(Pushed(history, at, url), at + 1, shown)
         /\ Pushed(history, at, url)[at + 1].url = url
         /\ Pushed(history, at, url)[at + 1].key # shown.key
<1>1. PICK entry : entry = Entry(url, history)
  OBVIOUS
<1>2. /\ entry.url = url /\ entry.key \in Nat
      /\ \A i \in DOMAIN history : history[i].key < entry.key
      /\ shown.key \in Nat /\ shown.key < entry.key
  BY <1>1, EntryIsNewer
<1>3. PICK after : after = Pushed(history, at, url)
  OBVIOUS
<1>4. after = Append(SubSeq(history, 1, at), entry)
  BY <1>1, <1>3 DEF Pushed
<1>5. PICK S : S = {history[i] : i \in DOMAIN history} \cup {entry}
  OBVIOUS
<1>6. /\ history \in Seq(S) /\ entry \in S /\ at \in 1..Len(history)
      /\ \A i \in 1..Len(history) : history[i].key \in Nat
  BY <1>5, SeqDef DEF HistoryFits, IsSequence
<1>7. /\ after \in Seq(S) /\ Len(after) = at + 1 /\ after[at + 1] = entry
      /\ \A i \in 1..at : after[i] = history[i]
  BY <1>4, <1>6
<1>8. DOMAIN after = 1..(at + 1) /\ after = [i \in 1..(at + 1) |-> after[i]] /\ at \in Nat
  BY <1>6, <1>7
<1>9. IsSequence(after)
  BY <1>8, SeqDef DEF IsSequence
<1>10. \A i \in DOMAIN after : after[i].key \in Nat /\ after[i].key <= after[at + 1].key
  <2> TAKE i \in DOMAIN after
  <2>1. i = at + 1 \/ (i \in 1..at /\ i \in 1..Len(history))
    BY <1>6, <1>8
  <2> QED BY <2>1, <1>2, <1>6, <1>7
<1>11. /\ at + 1 \in DOMAIN after /\ shown.key \in Nat
       /\ shown.key <= after[at + 1].key /\ after[at + 1].key # shown.key
       /\ after[at + 1].url = url
  BY <1>2, <1>7, <1>8
<1> QED BY <1>3, <1>9, <1>10, <1>11 DEF HistoryFits

\* The history fits wherever the user goes in it, and whatever of it is shown.
LEMMA HistoryVisited ==
  ASSUME NEW history, NEW at, NEW shown, HistoryFits(history, at, shown),
         NEW other \in DOMAIN history
  PROVE  HistoryFits(history, other, shown) /\ HistoryFits(history, other, history[at])
BY DEF HistoryFits

LEMMA SettledInv ==
  ASSUME ChoicesInv, NEW shown, NEW directory, NEW verdict, Settle(shown, directory, verdict),
         HistoryFits(ssHistory, ssAt, shown), ssAt' = ssAt,
         ssDirectory.read => directory.read,
         \/ shown = Here /\ Here # ssShown /\ ssCrossed' = ssCrossed
         \/ /\ shown = ssShown /\ directory.read
            /\ ssCrossed' = (ssCrossed \/ (Lagging /\ ~InFlight /\ ssHistory' # ssHistory))
  PROVE  ChoicesInv'
<1> DEFINE kept == NormalizedUnder(directory, verdict, shown.url, shown.url.selection)
           canonical == Url(kept, shown.url.hash)
           rewritten == Replaced(ssHistory, ssAt, canonical)
           wanted == NormalizedUnder(directory, verdict, Url(ssWanted, ""), ssWanted)
<1>1. ssShown' = shown /\ ssDirectory' = directory /\ ssVerdict' = verdict
  BY Zenon DEF Settle
<1>2. CASE ~directory.read \/ Waits(shown)
  BY <1>2, <1>1
  DEF Settle, Here, ChoicesInv, NothingChosenUnread, Waits, UnderwayIsTaken, RestsCanonically,
      Lagging
<1>3. CASE directory.read /\ ~Waits(shown)
  <2>1. ssPending' = NoPending
    BY <1>3, Zenon DEF Settle
  <2>2. CASE canonical = shown.url
    <3>1. ssHistory' = ssHistory /\ ssWanted' = ssWanted
      BY <1>3, <2>2, Zenon DEF Settle
    <3>2. Here' = Here
      BY <3>1 DEF Here
    <3>3. kept = shown.url.selection
      BY <2>2 DEF Url
    <3>4. NormalizedSelection' = ssShown'.url.selection
      BY <1>1, <3>3, Zenon DEF NormalizedSelection, Shown
    <3> QED BY <1>1, <2>1, <3>1, <3>2, <3>4
            DEF ChoicesInv, NothingChosenUnread, UnderwayIsTaken, RestsCanonically
  <2>3. CASE canonical # shown.url
    <3>1. ssHistory' = rewritten /\ ssWanted' = wanted
      BY <1>3, <2>3, Zenon DEF Settle
    <3>2. /\ HistoryFits(rewritten, ssAt, shown)
          /\ rewritten[ssAt].url = canonical /\ rewritten[ssAt].key # shown.key
      BY HistoryReplaced
    <3>3. Here' = rewritten[ssAt]
      BY <3>1 DEF Here
    <3>4. Here'.url.selection = kept
      BY <3>2, <3>3 DEF Url
    <3>5. ASSUME ~ssCrossed' PROVE shown.url.selection = ssWanted
      <4>1. UnderwayIsTaken /\ Here.url.selection = ssWanted
        BY <3>5 DEF ChoicesInv
      <4>2. CASE shown = Here
        BY <4>1, <4>2
      <4>3. CASE shown = ssShown /\ ~Lagging
        BY <4>1, <4>3 DEF Lagging
      <4>4. CASE shown = ssShown /\ Lagging /\ InFlight
        BY <1>3, <4>1, <4>4 DEF Waits, InFlight, UnderwayIsTaken
      <4>5. ssHistory' # ssHistory
        <5>1. PICK entry : entry = Entry(canonical, ssHistory)
          OBVIOUS
        <5>2. ssHistory[ssAt].key < entry.key /\ ssHistory[ssAt].key \in Nat
          BY <5>1, EntryIsNewer DEF HistoryFits
        <5>3. rewritten[ssAt] = entry
          BY <5>1 DEF Replaced, HistoryFits
        <5>4. ssHistory[ssAt] # rewritten[ssAt]
          BY <5>2, <5>3
        <5> QED BY <3>1, <5>4, Zenon
      <4>6. \/ shown = Here
            \/ shown = ssShown /\ ~Lagging
            \/ shown = ssShown /\ Lagging /\ InFlight
        BY <3>5, <4>5
      <4> QED BY <4>2, <4>3, <4>4, <4>6
    <3>6. shown.url.selection = ssWanted => kept = wanted
      BY DEF Url, NormalizedUnder
    <3>7. HistoryFits(ssHistory', ssAt', ssShown') /\ NothingChosenUnread'
      BY <1>1, <2>1, <3>1, <3>2 DEF NothingChosenUnread
    <3>8. Here' # ssShown'
      BY <1>1, <3>2, <3>3
    <3>9. UnderwayIsTaken' /\ RestsCanonically'
      BY <2>1, <3>8 DEF UnderwayIsTaken, RestsCanonically, Lagging
    <3> QED BY <3>1, <3>4, <3>5, <3>6, <3>7, <3>9 DEF ChoicesInv
  <2> QED BY <2>2, <2>3
<1> QED BY <1>2, <1>3

LEMMA CommitInv ==
  ASSUME ChoicesInv, NEW change, CommitSelectionChange(change)
  PROVE  ChoicesInv'
<1>1. PICK url : /\ url.selection = Shown(Change(Base, change))
                 /\ ssPending' = [source |-> ssShown.key, url |-> url]
                 /\ ssHistory' = IF Replaces(change) THEN Replaced(ssHistory, ssAt, url)
                                 ELSE Pushed(ssHistory, ssAt, url)
  <2>1. \A selection, hash : Url(selection, hash).selection = selection
    BY Zenon DEF Url
  <2> QED BY <2>1, Zenon DEF CommitSelectionChange
<1>2. /\ ssDirectory.read /\ ssWanted' = Shown(Change(ssWanted, change))
      /\ ssAt' = IF Replaces(change) THEN ssAt ELSE ssAt + 1
      /\ ssCrossed' = (ssCrossed \/ (Lagging /\ ~InFlight))
      /\ ssShown' = ssShown /\ ssDirectory' = ssDirectory
  BY Zenon DEF CommitSelectionChange
<1>3. /\ HistoryFits(ssHistory', ssAt', ssShown)
      /\ ssHistory'[ssAt'].url = url /\ ssHistory'[ssAt'].key # ssShown.key
  BY <1>1, <1>2, HistoryReplaced, HistoryPushed DEF ChoicesInv
<1>4. Here'.url = url /\ Here'.key # ssShown'.key
  BY <1>2, <1>3 DEF Here
<1>5. UnderwayIsTaken' /\ RestsCanonically' /\ NothingChosenUnread'
  BY <1>1, <1>2, <1>4 DEF UnderwayIsTaken, RestsCanonically, NothingChosenUnread, Lagging
<1>6. ASSUME ~ssCrossed' PROVE Base = ssWanted
  BY <1>2, <1>6 DEF ChoicesInv, Base, InFlight, UnderwayIsTaken, RestsCanonically, Lagging
<1> QED BY <1>1, <1>2, <1>3, <1>4, <1>5, <1>6 DEF ChoicesInv

LEMMA ChoicesInvStep ==
  ChoicesInv /\ [SelectionNext]_ssvars => ChoicesInv'
<1> SUFFICES ASSUME ChoicesInv, [SelectionNext]_ssvars PROVE ChoicesInv'
  OBVIOUS
<1>1. HistoryFits(ssHistory, ssAt, ssShown)
  BY DEF ChoicesInv
<1>2. CASE Render
  BY <1>1, HistoryVisited, <1>2, SettledInv DEF HistoryFits, Here, Render, Lagging
<1>3. ASSUME NEW directory \in SsDirectories, OptionsRead(directory) PROVE ChoicesInv'
  BY SelectionAssumption, <1>1, <1>3, SettledInv DEF OptionsRead
<1>4. ASSUME NEW verdict, IdentityRead(verdict) PROVE ChoicesInv'
  BY <1>4, <1>1, SettledInv DEF IdentityRead, Asks
<1>5. ASSUME NEW change, CommitSelectionChange(change) PROVE ChoicesInv'
  BY <1>5, CommitInv
<1>6. CASE FollowContents
  <2>1. PICK url : url = [ssShown.url EXCEPT !.hash = "section"]
    OBVIOUS
  <2>2. /\ ssHistory' = Pushed(ssHistory, ssAt, url) /\ ssAt' = ssAt + 1
        /\ ssCrossed' = (ssCrossed \/ Lagging)
        /\ UNCHANGED <<ssShown, ssPending, ssDirectory, ssVerdict, ssWanted>>
    BY <1>6, <2>1 DEF FollowContents
  <2>3. HistoryFits(ssHistory', ssAt', ssShown') /\ Here'.url = url
    BY <1>1, <2>2, HistoryPushed DEF Here
  <2>4. url.selection = ssShown.url.selection
    BY <2>1
  <2>5. NothingChosenUnread' /\ NormalizedSelection' = NormalizedSelection
    BY <2>2 DEF ChoicesInv, NothingChosenUnread, NormalizedSelection, Shown
  <2> QED BY <2>2, <2>3, <2>4, <2>5
          DEF ChoicesInv, UnderwayIsTaken, RestsCanonically, Lagging
<1>7. ASSUME NEW at, Travel(at) PROVE ChoicesInv'
  BY <1>7, <1>1, HistoryVisited
  DEF Travel, Here, ChoicesInv, NothingChosenUnread, NormalizedSelection, Shown, UnderwayIsTaken,
      RestsCanonically, Lagging
<1>8. CASE UNCHANGED ssvars
  BY <1>8 DEF ssvars, ChoicesInv, NothingChosenUnread, UnderwayIsTaken, RestsCanonically,
              Lagging, Here, NormalizedSelection, Shown
<1> QED BY <1>2, <1>3, <1>4, <1>5, <1>6, <1>7, <1>8 DEF SelectionNext

\* For any titles, directories, first URLs and verdicts of the API, and any number of
\* choices and steps in the history: once React shows what the router holds, the page
\* compares what the user's choices add up to, as far as the directory and the API
\* allow it (useSeriesComparisonSelection, useSeriesAnalysisLocationState).
THEOREM ChoicesAddUp == SelectionSpec => []ChoicesSurvive
<1>1. SelectionInit => ChoicesInv
  BY DEF SelectionInit, NoDirectory, HistoryFits, IsSequence, ChoicesInv, NothingChosenUnread,
      UnderwayIsTaken, RestsCanonically, Here
<1>2. ChoicesInv => ChoicesSurvive
  BY DEF ChoicesSurvive, ChoicesInv, AtRest, RestsCanonically, Lagging, Url, NormalizedSelection,
      Shown, Still, NormalizedUnder
<1> QED BY <1>1, <1>2, ChoicesInvStep, PTL DEF SelectionSpec
-----------------------------------------------------------------------------
(* Searches: wherever one is held, its season is one of its title, and it has *)
(* no inverted period and no half a metric.                                  *)
SearchShaped(search) ==
  /\ search = [title |-> search.title, season |-> search.season, period |-> search.period,
               memo |-> search.memo, metric |-> search.metric, page |-> search.page,
               size |-> search.size]
  /\ TitleFits(search)
Allowed(search) ==
  SearchShaped(search) /\ ~Inverted(search.period) /\ search.metric # "half"
TrailAllowed(trail) ==
  \E S : trail \in Seq(S) /\ trail # <<>> /\ \A search \in S : Allowed(search)
SearchesInv ==
  /\ TrailAllowed(heTrail) /\ Allowed(heShown)
  /\ heWanted # HeNone => Allowed(heWanted)
  /\ heSheet # HeNone => SearchShaped(heSheet)

LEMMA TrailGrows ==
  ASSUME NEW trail, TrailAllowed(trail), NEW search, Allowed(search)
  PROVE  TrailAllowed(Append(trail, search))
<1>1. PICK S : trail \in Seq(S) /\ \A s \in S : Allowed(s)
  BY DEF TrailAllowed
<1>2. PICK T : T = S \cup {search}
  OBVIOUS
<1>3. trail \in Seq(T) /\ search \in T /\ \A s \in T : Allowed(s)
  BY <1>2, <1>1, SeqDef
<1>4. Append(trail, search) \in Seq(T) /\ Append(trail, search) # <<>>
  BY <1>3, AppendProperties
<1> QED BY <1>3, <1>4 DEF TrailAllowed

LEMMA TrailNewest ==
  ASSUME NEW trail, TrailAllowed(trail)
  PROVE  Allowed(trail[Len(trail)])
BY EmptySeq, LenProperties, ElementOfSeq DEF TrailAllowed

LEMMA TrailGoesBack ==
  ASSUME NEW trail, TrailAllowed(trail), Len(trail) > 1
  PROVE  TrailAllowed(SubSeq(trail, 1, Len(trail) - 1))
<1>1. PICK S : trail \in Seq(S) /\ \A s \in S : Allowed(s)
  BY DEF TrailAllowed
<1>2. PICK past : past = SubSeq(trail, 1, Len(trail) - 1)
  OBVIOUS
<1>3. past \in Seq(S) /\ Len(past) = Len(trail) - 1
  BY <1>1, <1>2, SubSeqProperties, LenProperties
<1>4. past # <<>>
  BY <1>1, <1>3, EmptySeq, LenProperties
<1> QED BY <1>1, <1>2, <1>3, <1>4 DEF TrailAllowed

(* One choice.                                                               *)
LEMMA TitleChosen ==
  ASSUME NEW search, SearchShaped(search), NEW title
  PROVE  /\ SearchShaped(WithTitle(search, title)) /\ SearchShaped(SheetTitle(search, title))
         /\ WithTitle(search, title).period = search.period
         /\ WithTitle(search, title).metric = search.metric
<1>1. PICK season : season = IF title # Unset /\ title = search.title THEN search.season ELSE Unset
  OBVIOUS
<1>2. WithTitle(search, title) = [search EXCEPT !.title = title, !.season = season]
  BY <1>1 DEF WithTitle, SearchShaped
<1>3. WithTitle(search, title) =
        [title |-> title, season |-> season, period |-> search.period, memo |-> search.memo,
         metric |-> search.metric, page |-> search.page, size |-> search.size]
  BY <1>2 DEF SearchShaped
<1>4. PICK kept : kept = IF title = search.title THEN search.season ELSE Unset
  OBVIOUS
<1>5. SheetTitle(search, title) = [search EXCEPT !.title = title, !.season = kept]
  BY <1>4 DEF SheetTitle, SearchShaped
<1>6. SheetTitle(search, title) =
        [title |-> title, season |-> kept, period |-> search.period, memo |-> search.memo,
         metric |-> search.metric, page |-> search.page, size |-> search.size]
  BY <1>5 DEF SearchShaped
<1> QED BY <1>1, <1>3, <1>4, <1>6 DEF SearchShaped, TitleFits

LEMMA SeasonChosen ==
  ASSUME NEW search, SearchShaped(search), NEW season,
         season \in SeasonsOffered(search.title) \/ season = Unset
  PROVE  SearchShaped([search EXCEPT !.season = season])
BY DEF SearchShaped, TitleFits, SeasonsOffered

LEMMA EventSearchCleared ==
  ASSUME NEW search
  PROVE  Allowed(ClearConditions(search))
<1>1. PICK size : size = search.size
  OBVIOUS
<1>2. PICK usual : usual = HeUsualSize
  OBVIOUS
<1>3. ClearConditions(search) =
        [title |-> Unset, season |-> Unset, period |-> Unset, memo |-> Unset, metric |-> Unset,
         page |-> 1, size |-> size]
  BY <1>1, <1>2 DEF ClearConditions, DefaultSearch
<1>4. SearchShaped(ClearConditions(search))
  BY <1>3 DEF SearchShaped, TitleFits
<1>5. Unset # "inverted" /\ Unset # "half"
  BY DEF Unset
<1> QED BY <1>3, <1>4, <1>5 DEF Allowed, Inverted

\* Every choice leads from an allowed search to one.
LEMMA ChangeAllowed ==
  ASSUME NEW search, Allowed(search), NEW kind, NEW value,
         kind \in {"page", "size", "title", "season", "period", "memo", "metric", "conditions"},
         kind = "season" => value \in SeasonsOffered(search.title) \/ value = Unset,
         kind = "conditions" => SearchShaped(value) /\ ~Inverted(value.period)
  PROVE  Allowed(ChangeSearch(search, kind, value))
<1>1. PICK next : next = ApplyChange(search, kind, value)
  OBVIOUS
<1>2. Allowed(next)
  <2>1. CASE kind = "title"
    BY <1>1, <2>1, TitleChosen DEF ApplyChange, Allowed
  <2>2. CASE kind = "season"
    BY <1>1, <2>2, SeasonChosen DEF ApplyChange, Allowed, SearchShaped
  <2>3. CASE kind = "conditions"
    BY <1>1, <2>3
    DEF ApplyChange, SearchShaped, CompleteOnly, IsComplete, EmptyMetric, Unset, Allowed, TitleFits
  <2>4. CASE kind = "metric"
    BY <1>1, <2>4
    DEF ApplyChange, Allowed, SearchShaped, CompleteOnly, IsComplete, EmptyMetric, Unset, TitleFits
  <2>5. CASE kind = "period"
    BY <1>1, <2>5 DEF ApplyChange, Allowed, SearchShaped, TitleFits
  <2>6. CASE kind \in {"page", "size", "memo"}
    BY <1>1, <2>6 DEF ApplyChange, Allowed, SearchShaped, TitleFits
  <2> QED BY <2>1, <2>2, <2>3, <2>4, <2>5, <2>6
<1>3. ChangeSearch(search, kind, value) \in {next, [next EXCEPT !.page = 1]}
  BY <1>1 DEF ChangeSearch
<1>4. [next EXCEPT !.page = 1] =
        [title |-> next.title, season |-> next.season, period |-> next.period,
         memo |-> next.memo, metric |-> next.metric, page |-> 1, size |-> next.size]
  BY <1>2 DEF Allowed, SearchShaped
<1>5. Allowed([next EXCEPT !.page = 1])
  BY <1>2, <1>4 DEF Allowed, SearchShaped, TitleFits
<1> QED BY <1>2, <1>3, <1>5

-----------------------------------------------------------------------------
(* The steps that change the search.                                       *)
LEMMA CurrentAllowed ==
  ASSUME SearchesInv
  PROVE  Allowed(Current) /\ SearchShaped(Current) /\ SearchIsSound
BY DEF SearchesInv, Current, Allowed, SearchShaped, SearchIsSound

LEMMA NavigationHolds ==
  ASSUME SearchesInv, NEW search, NavigateTo(search), Allowed(search), heSheet' \in {heSheet, HeNone}
  PROVE  SearchesInv'
<1>1. TrailAllowed(heTrail')
  BY TrailGrows DEF SearchesInv, NavigateTo
<1> QED BY <1>1 DEF SearchesInv, NavigateTo

LEMMA ChoiceHolds ==
  ASSUME SearchesInv, NEW kind, NEW value, ChooseIn(kind, value),
         kind \in {"page", "size", "title", "season", "period", "memo", "metric", "conditions"},
         kind = "season" => value \in SeasonsOffered(Current.title) \/ value = Unset,
         kind = "conditions" => SearchShaped(value) /\ ~Inverted(value.period),
         heSheet' \in {heSheet, HeNone}
  PROVE  SearchesInv'
BY CurrentAllowed, ChangeAllowed, NavigationHolds DEF ChooseIn

LEMMA SearchRests ==
  ASSUME SearchesInv, UNCHANGED <<heTrail, heShown, heWanted>>,
         heSheet' # HeNone => SearchShaped(heSheet')
  PROVE  SearchesInv'
BY DEF SearchesInv

LEMMA ChoicesHold ==
  ASSUME SearchesInv,
         ChooseScope \/ TypePeriod \/ CommitMemo \/ CommitMetric \/ RemoveCondition \/ TurnPage
  PROVE  SearchesInv'
<1>1. UNCHANGED heSheet
  BY DEF ChooseScope, TypePeriod, CommitMemo, CommitMetric, RemoveCondition, TurnPage
<1>2. CASE ChooseScope
  BY <1>2, <1>1, ChoiceHolds DEF ChooseScope
<1>3. CASE TypePeriod
  BY <1>3, <1>1, SearchRests, ChoiceHolds DEF TypePeriod, SearchesInv
<1>4. CASE CommitMemo
  BY <1>1, <1>4, ChoiceHolds DEF CommitMemo
<1>5. CASE CommitMetric
  BY <1>1, <1>5, ChoiceHolds DEF CommitMetric
<1>6. CASE RemoveCondition
  BY <1>6, <1>1, ChoiceHolds DEF RemoveCondition
<1>7. CASE TurnPage
  BY <1>7, <1>1, ChoiceHolds DEF TurnPage
<1> QED BY <1>2, <1>3, <1>4, <1>5, <1>6, <1>7

LEMMA SheetHolds ==
  ASSUME SearchesInv, OpenSheet \/ EditSheet \/ ApplySheet \/ CloseSheet
  PROVE  SearchesInv'
<1>1. CASE OpenSheet
  BY <1>1, SearchRests, CurrentAllowed DEF OpenSheet
<1>2. CASE EditSheet
  <2>1. SearchShaped(heSheet) /\ UNCHANGED <<heTrail, heShown, heWanted>>
    BY <1>2 DEF EditSheet, SearchesInv
  <2>2. \/ \E title : heSheet' = SheetTitle(heSheet, title)
        \/ \E season \in SeasonsOffered(heSheet.title) : heSheet' = [heSheet EXCEPT !.season = season]
        \/ heSheet' = [heSheet EXCEPT !.period = "inverted"]
        \/ heSheet' = [heSheet EXCEPT !.metric = "half"]
        \/ heSheet' = [heSheet EXCEPT !.memo = "word"]
        \/ heSheet' = ClearConditions(heSheet)
    BY <1>2 DEF EditSheet
  <2>3. SearchShaped(heSheet')
    <3>1. CASE \E title : heSheet' = SheetTitle(heSheet, title)
      BY <2>1, <3>1, TitleChosen
    <3>2. CASE \E season \in SeasonsOffered(heSheet.title) :
                 heSheet' = [heSheet EXCEPT !.season = season]
      BY <2>1, <3>2, SeasonChosen
    <3>3. CASE heSheet' = ClearConditions(heSheet)
      BY <3>3, EventSearchCleared DEF Allowed
    <3>4. CASE \/ heSheet' = [heSheet EXCEPT !.period = "inverted"]
               \/ heSheet' = [heSheet EXCEPT !.metric = "half"]
               \/ heSheet' = [heSheet EXCEPT !.memo = "word"]
      BY <2>1, <3>4 DEF SearchShaped, TitleFits
    <3> QED BY <2>2, <3>1, <3>2, <3>3, <3>4
  <2> QED BY <2>1, <2>3, SearchRests
<1>3. CASE ApplySheet
  BY <1>3, SearchRests, ChoiceHolds DEF ApplySheet, SearchesInv, SheetInvalid, heurl
<1>4. CASE CloseSheet
  BY <1>4, SearchRests DEF CloseSheet, heurl
<1> QED BY <1>1, <1>2, <1>3, <1>4

LEMMA VisitsChange ==
  ASSUME SearchesInv, ClearAll \/ Back \/ Show \/ Correct
  PROVE  SearchesInv'
<1>1. CASE ClearAll
  BY <1>1, EventSearchCleared, NavigationHolds DEF ClearAll
<1>2. CASE Back
  <2>1. TrailAllowed(heTrail')
    BY <1>2, TrailGoesBack DEF Back, SearchesInv
  <2> QED BY <1>2, <2>1 DEF Back, SearchesInv
<1>3. CASE Show
  <2>1. Allowed(heShown')
    BY <1>3, TrailNewest DEF Show, SearchesInv
  <2> QED BY <1>3, <2>1 DEF Show, SearchesInv
<1>4. CASE Correct
  <2>1. PICK search : search = ChangeSearch(Current, "page", CorrectionPage)
    OBVIOUS
  <2>2. Allowed(search)
    BY <2>1, CurrentAllowed, ChangeAllowed
  <2>3. heTrail' = Append(heTrail, search) /\ heWanted' = heTrail'[Len(heTrail')]
        /\ UNCHANGED <<heShown, heSheet>>
    BY <1>4, <2>1 DEF Correct
  <2>4. TrailAllowed(heTrail')
    BY <2>2, <2>3, TrailGrows DEF SearchesInv
  <2>5. Allowed(heWanted')
    BY <2>3, <2>4, TrailNewest
  <2> QED BY <2>3, <2>4, <2>5 DEF SearchesInv
<1> QED BY <1>1, <1>2, <1>3, <1>4

LEMMA OtherStepsRest ==
  ASSUME SearchesInv,
         \/ TypeDetail \/ Defer \/ Refresh \/ ServeRead \/ ReadArrives \/ HeReadFails
         \/ RequestDelete \/ CancelDelete \/ ConfirmDelete \/ ServeDelete \/ DeleteFails
         \/ DeleteAnswered \/ ReportDeleted \/ UNCHANGED hevars
  PROVE  SearchesInv'
<1>1. UNCHANGED <<heTrail, heShown, heWanted, heSheet>>
  BY DEF TypeDetail, Defer, Refresh, ServeRead, ReadArrives, HeReadFails, RequestDelete,
         CancelDelete, ConfirmDelete, ServeDelete, DeleteFails, DeleteAnswered, ReportDeleted,
         hevars, heurl, Unread
<1> QED BY <1>1, SearchRests DEF SearchesInv

\* Only an answer to the search that is wanted corrects it, to a page before its own.
LEMMA CorrectionIsOwn ==
  ASSUME SearchesInv
  PROVE  CorrectsItsOwnSearch
<1> SUFFICES ASSUME Correct
             PROVE  /\ \E a \in heCache : /\ a.search = Current
                                          /\ heWanted' = [Current EXCEPT !.page = LastPage(a)]
                    /\ Current.page > heWanted'.page
  BY DEF CorrectsItsOwnSearch
<1>1. PICK page : page = CorrectionPage
  OBVIOUS
<1>2. CorrectionConfirmed /\ page = LastPage(ShownAnswer) /\ heDeferred.page > page
  BY <1>1 DEF Correct, CorrectionPage
<1>3. heDeferred = Current /\ HeConfirmed
  BY <1>2 DEF CorrectionConfirmed
<1>4. PICK a : a = ShownAnswer
  OBVIOUS
<1>5. a \in heCache /\ a.search = Current
  BY <1>3, <1>4 DEF ShownAnswer, HeConfirmed, HasAnswer, CachedAnswer
<1>6. PICK search : search = [Current EXCEPT !.page = page]
  OBVIOUS
<1>7. heTrail' = Append(heTrail, search) /\ heWanted' = heTrail'[Len(heTrail')]
  BY <1>1, <1>6 DEF Correct, ChangeSearch, ApplyChange
<1>8. heWanted' = search
  BY SeqDef, <1>7, AppendProperties DEF SearchesInv, TrailAllowed
<1>9. search.page = page
  BY <1>6, CurrentAllowed DEF SearchShaped
<1> QED BY <1>2, <1>3, <1>4, <1>5, <1>6, <1>8, <1>9

LEMMA SearchesGoOn ==
  ASSUME SearchesInv, HeNext \/ UNCHANGED hevars
  PROVE  SearchesInv' /\ CorrectsItsOwnSearch
<1>1. SearchesInv'
  BY ChoicesHold, SheetHolds, VisitsChange, OtherStepsRest DEF HeNext, HeStep
<1> QED BY <1>1, CorrectionIsOwn

LEMMA SearchesStart == HeInit => SearchesInv
<1> SUFFICES ASSUME HeInit PROVE SearchesInv
  OBVIOUS
<1>1. heShown \in Searches /\ TitleFits(heShown) /\ heTrail = <<heShown>>
      /\ heWanted = HeNone /\ heSheet = HeNone
  BY HeAssumption DEF HeInit
<1>2. SearchShaped(heShown) /\ heShown.period \in {Unset, "june"} /\ heShown.metric \in {Unset, "best"}
  BY <1>1 DEF Searches, SearchShaped
<1>3. Allowed(heShown)
  <2>1. Unset # "inverted" /\ Unset # "half"
    BY DEF Unset
  <2> QED BY <1>2, <2>1 DEF Allowed, Inverted
<1>4. TrailAllowed(heTrail)
  <2>1. heTrail \in Seq({heShown}) /\ heTrail # <<>>
    BY <1>1
  <2> QED BY <1>3, <2>1 DEF TrailAllowed
<1> QED BY <1>1, <1>3, <1>4 DEF SearchesInv

-----------------------------------------------------------------------------
(* The rows.  What an answer gives was read before or after a deletion: an   *)
(* answer from before is marked old, and the one on screen is then read      *)
(* again, or its read has failed.                                            *)
AnswerShaped(a) == a = [search |-> a.search, pages |-> a.pages, old |-> a.old, rows |-> a.rows]
Confirmed == IF heTarget.at = "synced" THEN heReported \cup {heTarget.event} ELSE heReported
Without(a, events) == a.rows \cap events = {}
AnswersSound ==
  /\ \A a \in heCache : AnswerShaped(a) /\ a.old \in BOOLEAN
  /\ \A a, b \in heCache : a.search = b.search => a = b
OldIsRead ==
  \A a \in heCache : a.old /\ a.search = heDeferred => HeFetching \/ heDeferred \in heFailed
NewIsWithout ==
  ~heCrossed =>
    /\ \A a \in heCache : ~a.old => Without(a, Confirmed)
    /\ heRead \notin {Idle, Sent} => Without(heRead, Confirmed)
ServedSound ==
  heRead \notin {Idle, Sent} =>
    AnswerShaped(heRead) /\ heRead.search = heDeferred /\ heRead.old = FALSE
DeletedIsGone ==
  /\ heReported \cap heServer = {}
  /\ heTarget.at \in {"served", "synced"} => heTarget.event \notin heServer
EventsInv ==
  /\ AnswersSound /\ OldIsRead /\ NewIsWithout /\ ServedSound /\ DeletedIsGone
  /\ heTarget = [event |-> heTarget.event, at |-> heTarget.at]
  /\ heCrossed \in BOOLEAN

LEMMA AnswerIsNoIdle ==
  ASSUME NEW a, AnswerShaped(a)
  PROVE  a # Idle /\ a # Sent
BY DEF AnswerShaped, Idle, Sent

LEMMA SentIsNoIdle == Sent # Idle
<1>1. Sent.at = "sent" /\ Idle.at = "none"
  BY DEF Sent, Idle
<1> QED BY <1>1

LEMMA AnswerToSound ==
  ASSUME NEW search, NEW server
  PROVE  /\ AnswerShaped(AnswerTo(search, server))
         /\ AnswerTo(search, server).search = search
         /\ AnswerTo(search, server).old = FALSE
         /\ AnswerTo(search, server).rows \subseteq server
<1>1. PICK pages, rows, no : /\ AnswerTo(search, server) = [search |-> search, pages |-> pages,
                                                          old |-> no, rows |-> rows]
                             /\ no = FALSE /\ rows \subseteq server
  <2> DEFINE found == {e \in server : Fulfils(e, search)}
             Before(e) == Cardinality({f \in found : f > e})
             last == (Cardinality(found) + search.size - 1) \div search.size
             rows == {e \in found : Before(e) \div search.size = search.page - 1}
  <2>1. AnswerTo(search, server) = [search |-> search, pages |-> last, old |-> FALSE, rows |-> rows]
    BY Zenon DEF AnswerTo
  <2>2. rows \subseteq server
    OBVIOUS
  <2>3. PICK pages, shown : pages = last /\ shown = rows
    OBVIOUS
  <2> HIDE DEF found, Before, last, rows
  <2>4. PICK no \in BOOLEAN : no = FALSE
    OBVIOUS
  <2>5. AnswerTo(search, server) = [search |-> search, pages |-> pages, old |-> no, rows |-> shown]
    BY <2>1, <2>3, <2>4, Zenon
  <2> QED BY <2>2, <2>3, <2>4, <2>5
<1> QED BY <1>1 DEF AnswerShaped

\* Nothing of the rows moves: another target that was not confirmed is no matter.
LEMMA RowsRest ==
  ASSUME EventsInv, UNCHANGED <<heDeferred, heread, heCrossed>>, heServer' \subseteq heServer,
         Confirmed' = Confirmed, DeletedIsGone',
         heTarget' = [event |-> heTarget'.event, at |-> heTarget'.at]
  PROVE  EventsInv'
BY DEF EventsInv, heread, AnswersSound, OldIsRead, NewIsWithout, ServedSound, HeFetching, Idle, Sent

LEMMA AllRest ==
  ASSUME EventsInv,
         UNCHANGED <<heDeferred, heServer, heread, heTarget, heReported, heCrossed>>
  PROVE  EventsInv'
<1>1. DeletedIsGone' /\ Confirmed' = Confirmed
  BY DEF EventsInv, DeletedIsGone, Confirmed
<1> QED BY <1>1, RowsRest DEF EventsInv

LEMMA SearchingHolds ==
  ASSUME EventsInv,
         \/ ChooseScope \/ TypePeriod \/ TypeDetail \/ CommitMemo \/ CommitMetric
         \/ RemoveCondition \/ ClearAll \/ TurnPage \/ OpenSheet \/ EditSheet \/ ApplySheet
         \/ CloseSheet \/ Back \/ Show \/ Correct \/ UNCHANGED hevars
  PROVE  EventsInv'
<1>1. UNCHANGED <<heDeferred, heServer, heread, heTarget, heReported, heCrossed>>
  BY DEF ChooseScope, TypePeriod, TypeDetail, CommitMemo, CommitMetric, RemoveCondition, ClearAll,
         TurnPage, OpenSheet, EditSheet, ApplySheet, CloseSheet, Back, Show, Correct, Elsewhere,
         hevars, heread
<1> QED BY <1>1, AllRest

LEMMA DeferHolds ==
  ASSUME EventsInv, Defer
  PROVE  EventsInv'
<1>1. /\ heDeferred' = Current /\ Adopt(Current)
      /\ UNCHANGED <<heServer, heCache, heTarget, heReported, heCrossed>>
  BY DEF Defer
<1>2. heRead' \in {Idle, Sent}
  BY <1>1 DEF Adopt
<1>3. AnswersSound' /\ ServedSound'
  BY <1>1, <1>2 DEF EventsInv, AnswersSound, ServedSound, Idle, Sent
<1>4. OldIsRead'
  BY <1>1, SentIsNoIdle
  DEF OldIsRead, HeFetching, Idle, HasAnswer, CachedAnswer, EventsInv, AnswersSound, Adopt
<1>5. Confirmed' = Confirmed
  BY <1>1 DEF Confirmed
<1>6. NewIsWithout'
  BY <1>1, <1>2, <1>5 DEF EventsInv, NewIsWithout, Idle, Sent
<1>7. DeletedIsGone'
  BY <1>1 DEF EventsInv, DeletedIsGone
<1> QED BY <1>1, <1>3, <1>4, <1>6, <1>7 DEF EventsInv

LEMMA ReadsHold ==
  ASSUME EventsInv, Refresh \/ ServeRead \/ ReadArrives \/ HeReadFails
  PROVE  EventsInv'
<1>1. UNCHANGED <<heDeferred, heServer, heTarget, heReported, heCrossed>>
  BY DEF Refresh, ServeRead, ReadArrives, HeReadFails, Unread
<1>2. Confirmed' = Confirmed /\ DeletedIsGone'
  BY <1>1 DEF EventsInv, DeletedIsGone, Confirmed
<1>3. CASE Refresh
  BY <1>3, <1>1, SentIsNoIdle, <1>2
  DEF Refresh, EventsInv, AnswersSound, ServedSound, OldIsRead, HeFetching, Idle, Sent, NewIsWithout
<1>4. CASE ServeRead
  <2>1. heRead' = AnswerTo(heDeferred, heServer) /\ UNCHANGED <<heCache, heFailed>>
    BY <1>4 DEF ServeRead
  <2>2. heRead' # Idle /\ ServedSound'
    BY <1>1, <2>1, AnswerToSound, AnswerIsNoIdle DEF ServedSound
  <2>3. AnswersSound' /\ OldIsRead'
    BY <1>1, <2>1, <2>2 DEF EventsInv, AnswersSound, OldIsRead, HeFetching, Idle
  <2>4. Without(heRead', Confirmed)
    <3>1. heRead'.rows \subseteq heServer
      BY <2>1, AnswerToSound
    <3>2. Confirmed \cap heServer = {}
      BY DEF Confirmed, EventsInv, DeletedIsGone
    <3> QED BY <3>1, <3>2 DEF Without
  <2>5. NewIsWithout'
    BY <1>1, <1>2, <2>1, <2>4 DEF EventsInv, NewIsWithout, Idle, Sent
  <2> QED BY <1>1, <1>2, <2>2, <2>3, <2>5 DEF EventsInv
<1>5. CASE ReadArrives
  BY <1>5, <1>1, <1>2
  DEF ReadArrives, EventsInv, ServedSound, AnswersSound, OldIsRead, Idle, NewIsWithout, Sent
<1>6. CASE HeReadFails
  BY <1>6, <1>1, <1>2
  DEF HeReadFails, EventsInv, AnswersSound, ServedSound, OldIsRead, Idle, NewIsWithout
<1> QED BY <1>3, <1>4, <1>5, <1>6

LEMMA DeletionHolds ==
  ASSUME EventsInv,
         RequestDelete \/ CancelDelete \/ ConfirmDelete \/ ServeDelete \/ DeleteFails \/ ReportDeleted
  PROVE  EventsInv'
<1>1. UNCHANGED <<heDeferred, heread, heCrossed>>
  BY DEF RequestDelete, CancelDelete, ConfirmDelete, ServeDelete, DeleteFails, ReportDeleted
<1>2. heTarget = [event |-> heTarget.event, at |-> heTarget.at] /\ DeletedIsGone
  BY DEF EventsInv
<1>3. CASE RequestDelete \/ CancelDelete \/ ConfirmDelete \/ DeleteFails
  BY <1>2, <1>3, <1>1, RowsRest
  DEF RequestDelete, CancelDelete, ConfirmDelete, DeleteFails, NoTarget, Free, DeletedIsGone,
      Confirmed
<1>4. CASE ServeDelete
  BY <1>2, <1>4, <1>1, RowsRest DEF ServeDelete, DeletedIsGone, Confirmed
<1>5. CASE ReportDeleted
  BY <1>5, <1>2, <1>1, RowsRest DEF ReportDeleted, NoTarget, DeletedIsGone, Confirmed
<1> QED BY <1>3, <1>4, <1>5

LEMMA DeleteAnsweredHolds ==
  ASSUME EventsInv, DeleteAnswered
  PROVE  EventsInv'
<1>1. /\ heTarget.at = "served" /\ SyncDeleted
      /\ heCrossed' = (heCrossed \/ (HeFetching /\ ~HeConfirmed))
      /\ heTarget' = [heTarget EXCEPT !.at = "synced"]
      /\ UNCHANGED <<heDeferred, heServer, heReported>>
  BY DEF DeleteAnswered
<1>2. heTarget' = [event |-> heTarget.event, at |-> "synced"]
  BY <1>1 DEF EventsInv
<1>3. PICK yes \in BOOLEAN : yes = TRUE
  OBVIOUS
<1>4. heCache' = {[a EXCEPT !.old = yes] : a \in heCache}
  BY <1>1, <1>3 DEF SyncDeleted
<1>5. \A a \in heCache : [a EXCEPT !.old = yes] = [search |-> a.search, pages |-> a.pages,
                                                   old |-> yes, rows |-> a.rows]
  BY DEF EventsInv, AnswersSound, AnswerShaped
<1>6. ASSUME NEW b \in heCache'
      PROVE  \E a \in heCache : b = [search |-> a.search, pages |-> a.pages, old |-> yes,
                                    rows |-> a.rows]
  BY <1>4, <1>5
<1>7. AnswersSound'
  BY <1>6 DEF AnswerShaped, EventsInv, AnswersSound
<1>8. heRead' # Idle
  BY <1>1, SentIsNoIdle DEF SyncDeleted, HeFetching
<1>9. OldIsRead'
  BY <1>8 DEF OldIsRead, HeFetching, Idle
<1>10. heRead' = Sent \/ (HeFetching /\ ~HeConfirmed /\ heRead' = heRead)
  BY <1>1 DEF SyncDeleted
<1>11. ServedSound'
  BY <1>1, <1>10 DEF EventsInv, ServedSound, Idle, Sent
<1>12. \A b \in heCache' : b.old
  <2>1. \A b \in heCache' : b.old = yes
    BY <1>6
  <2> QED BY <1>3, <2>1, Zenon
<1>13. ~heCrossed' => heRead' = Sent
  BY <1>1, <1>10
<1>14. NewIsWithout'
  BY <1>12, <1>13 DEF NewIsWithout, Idle, Sent
<1>15. DeletedIsGone'
  BY <1>1, <1>2 DEF EventsInv, DeletedIsGone
<1>16. heCrossed' \in BOOLEAN
  BY <1>1
<1> QED BY <1>2, <1>7, <1>9, <1>11, <1>14, <1>15, <1>16 DEF EventsInv

LEMMA EventsStart == HeInit => EventsInv
<1> SUFFICES ASSUME HeInit PROVE EventsInv
  OBVIOUS
<1>1. heCache = {} /\ heRead = Sent /\ heTarget = NoTarget /\ heReported = {}
      /\ heCrossed = FALSE
  BY DEF HeInit
<1>2. AnswersSound /\ OldIsRead /\ NewIsWithout /\ ServedSound /\ DeletedIsGone
  BY <1>1 DEF AnswersSound, OldIsRead, NewIsWithout, ServedSound, DeletedIsGone, NoTarget
<1> QED BY <1>1, <1>2 DEF EventsInv, NoTarget

\* What is deleted is a row of the search wanted.
LEMMA DeletionIsListed == DeletesWhatIsListed
<1> SUFFICES ASSUME RequestDelete
             PROVE  \E a \in heCache : /\ a.search = Current /\ heTarget'.event \in a.rows
                                       /\ Current \in heFailed => HeFetching
  BY DEF DeletesWhatIsListed
<1>1. PICK event \in RowsShown : heTarget' = [event |-> event, at |-> "asked"]
  BY DEF RequestDelete
<1>2. ~Noticed.stale /\ ~ScopeChanging
  BY DEF RequestDelete, DeleteDisabled
<1>3. Current = heDeferred /\ ~IsPlaceholder
  BY <1>2 DEF ScopeChanging, HeSettling
<1>4. ShownAnswer # HeNone /\ event \in ShownAnswer.rows
  BY <1>1 DEF RowsShown, HeReady
<1>5. HeConfirmed /\ ShownAnswer = CachedAnswer(heDeferred)
  BY <1>3, <1>4 DEF ShownAnswer
<1>6. ShownAnswer \in heCache /\ ShownAnswer.search = heDeferred
  BY <1>5 DEF HeConfirmed, HasAnswer, CachedAnswer
<1>7. Current \in heFailed => HeFetching
  BY <1>3, <1>2, <1>5 DEF Noticed, NoticeShown, Problem, ReadFailed
<1> QED BY <1>1, <1>3, <1>4, <1>6, <1>7

\* A row that is shown is not one whose deletion was reported.
LEMMA ReportedAreGone == EventsInv => ReportedIsGone
<1> SUFFICES ASSUME EventsInv, ~heCrossed, ~ScopeChanging, ~HeFetching, ~Noticed.stale,
                    NEW event \in RowsShown, event \in heReported
             PROVE  FALSE
  BY DEF ReportedIsGone
<1>1. ~IsPlaceholder
  BY DEF ScopeChanging
<1>2. ShownAnswer # HeNone /\ event \in ShownAnswer.rows
  BY DEF RowsShown, HeReady
<1>3. HeConfirmed /\ ShownAnswer = CachedAnswer(heDeferred)
  BY <1>1, <1>2 DEF ShownAnswer
<1>4. ShownAnswer \in heCache /\ ShownAnswer.search = heDeferred
  BY <1>3 DEF HeConfirmed, HasAnswer, CachedAnswer
<1>5. heDeferred \notin heFailed
  BY <1>3 DEF Noticed, NoticeShown, Problem, ReadFailed
<1>6. ~ShownAnswer.old
  BY <1>4, <1>5 DEF EventsInv, OldIsRead
<1>7. Without(ShownAnswer, Confirmed)
  BY <1>4, <1>6 DEF EventsInv, NewIsWithout
<1> QED BY <1>2, <1>7 DEF Without, Confirmed

LEMMA EventsGoOn ==
  ASSUME EventsInv, HeNext \/ UNCHANGED hevars
  PROVE  EventsInv'
BY SearchingHolds, DeferHolds, ReadsHold, DeletionHolds, DeleteAnsweredHolds DEF HeNext, HeStep
-----------------------------------------------------------------------------
(* The inductive invariant.  A creation sent by the mounted content is what  *)
(* the user asked for last, and the notice kept for a hub is one of its own. *)
HubEvents == HbEvents \cup {NoEvent}
CallsBehind == \A call \in hbCalls :
  /\ call = [at |-> call.at, mount |-> call.mount, event |-> call.event]
  /\ call.mount \in Nat /\ call.mount <= hbMount
  /\ call.mount = hbMount => hbWish = "creation"
  /\ call.at # "sent" => call.event \in HbEvents
FormShaped(form) ==
  form = [open |-> form.open, error |-> form.error, made |-> form.made] /\ form.made \in HubEvents
HubServerShaped ==
  /\ hbServer = [events |-> hbServer.events, recorded |-> hbServer.recorded,
                 running |-> hbServer.running]
  /\ hbServer.events \subseteq HbEvents
DetailShaped(d) ==
  /\ d = [data |-> d.data, failed |-> d.failed, read |-> d.read, by |-> d.by]
  /\ d.data.prev \in HubEvents /\ d.data.next \in HubEvents
DetailsShaped(details) ==
  /\ details = [e \in HbEvents |-> details[e]]
  /\ \A e \in HbEvents : DetailShaped(details[e])
LatestShaped ==
  /\ hbLatest = [known |-> hbLatest.known, event |-> hbLatest.event, read |-> hbLatest.read,
                 answer |-> hbLatest.answer, failed |-> hbLatest.failed]
  /\ hbLatest.event \in HubEvents /\ hbLatest.answer \in HubEvents
PageKnown(at) == at.page = "hub" => at.event \in HbEvents
KeptNoticeIsOwn ==
  hbSettled.on => hbSettled.event \in HbEvents /\ hbDetails[hbSettled.event].failed
HubInv ==
  /\ hbMount \in Nat /\ CallsBehind /\ FormShaped(hbForm) /\ HubServerShaped
  /\ DetailsShaped(hbDetails) /\ LatestShaped /\ PageKnown(hbAt) /\ KeptNoticeIsOwn
  /\ MovedWhereMeant

\* What a rendering of the page leaves right, whatever it shows.
HubRests ==
  /\ hbMount' \in {hbMount, hbMount + 1} /\ FormShaped(hbForm') /\ DetailsShaped(hbDetails')
  /\ PageKnown(hbAt') /\ KeptNoticeIsOwn'

LEMMA EventsHaveNewest ==
  ASSUME NEW S, S \subseteq HbEvents, S # {}
  PROVE  \E e \in S : \A o \in S : o <= e
<1> DEFINE Newer(e) == {o \in S : o > e}
           Counts == {Cardinality(Newer(e)) : e \in S}
<1>1. IsFiniteSet(S) /\ S \subseteq Nat
  BY HbAssumption, FS_Subset
<1>2. \A e \in S : IsFiniteSet(Newer(e)) /\ Cardinality(Newer(e)) \in Nat
  BY <1>1, FS_Subset, FS_CardinalityType
<1>3. Counts \subseteq Nat /\ Counts # {}
  BY <1>2
<1>4. PICK c \in Counts : \A d \in Counts : c <= d
  BY <1>3, NaturalsHaveLeast
<1>5. PICK e \in S : c = Cardinality(Newer(e))
  BY <1>4
<1>6. ASSUME NEW o \in S, o > e
      PROVE  FALSE
  <2>1. o \in Nat /\ e \in Nat
    BY <1>1
  <2>2. ASSUME NEW x \in Newer(o)
        PROVE  x \in Newer(e)
    <3>1. x \in S /\ x \in Nat /\ x > o
      BY <1>1
    <3> QED BY <1>6, <2>1, <3>1
  <2>3. Newer(o) \subseteq Newer(e)
    BY <2>2, Zenon
  <2>4. o \in Newer(e)
    BY <1>6
  <2>5. o \notin Newer(o)
    BY <2>1
  <2>6. Newer(o) \subseteq Newer(e) /\ o \in Newer(e) /\ o \notin Newer(o)
    BY <2>3, <2>4, <2>5
  <2>7. Newer(o) # Newer(e)
    BY <2>6
  <2>8. Cardinality(Newer(o)) <= Cardinality(Newer(e))
        /\ (Cardinality(Newer(e)) = Cardinality(Newer(o)) => Newer(e) = Newer(o))
    BY <1>2, <2>6, FS_Subset
  <2>9. Cardinality(Newer(e)) <= Cardinality(Newer(o))
    BY <1>4, <1>5
  <2> QED BY <1>2, <2>7, <2>8, <2>9
<1> QED BY <1>1, <1>6

\* The newest or the oldest of some events is one of them, if there are any.
LEMMA NewestOldest ==
  ASSUME NEW S, S \subseteq HbEvents
  PROVE  Newest(S) \in HubEvents /\ Oldest(S) \in HubEvents
BY EventsHaveNewest, HbAssumption, NaturalsHaveLeast DEF Newest, Oldest, HubEvents

LEMMA NoDetailShaped == DetailShaped(NoDetail) /\ NoDetail.failed = FALSE /\ NoDetail.read = "none"
BY DEF NoDetail, DetailShaped, UnreadDetail, HubEvents

\* The page is rendered with details of its hub; a failure that is still shown stays one.
LEMMA RenderedRests ==
  ASSUME HubInv, NEW at, NEW details, HubRendered(at, details), DetailsShaped(details),
         PageKnown(at),
         hbSettled.on /\ hbSettled.event = at.event /\ HubPending(details[at.event])
           => details[at.event].failed
  PROVE  HubRests
<1>1. FormShaped(NoForm)
  BY DEF FormShaped, NoForm, HubEvents
<1>2. FormShaped(hbForm') /\ hbMount' \in {hbMount, hbMount + 1}
  BY <1>1 DEF HubInv, HubRendered
<1>3. hbAt' = at /\ hbDetails' = details
  BY DEF HubRendered
<1>4. KeptNoticeIsOwn'
  <2>1. CASE at.page = "hub"
    <3>1. at.event \in HbEvents
      BY <2>1 DEF PageKnown
    <3>2. PICK d : d = details[at.event]
      OBVIOUS
    <3>3. hbSettled' = NoticeOf(hbSettled, at, d)
      BY <2>1, <3>2 DEF HubRendered
    <3>4. CASE hbSettled.event # at.event \/ ~HubPending(d)
      BY <3>3, <3>4, <1>3, <3>1, <3>2 DEF NoticeOf, HubReadFailed, KeptNoticeIsOwn
    <3>5. CASE hbSettled.event = at.event /\ HubPending(d)
      <4>1. hbSettled' = hbSettled
        BY <3>3, <3>5 DEF NoticeOf
      <4> QED BY <1>3, <3>1, <3>2, <3>5, <4>1 DEF KeptNoticeIsOwn
    <3> QED BY <3>4, <3>5
  <2>2. CASE at.page # "hub"
    BY <2>2 DEF HubRendered, KeptNoticeIsOwn
  <2> QED BY <2>1, <2>2
<1> QED BY <1>2, <1>3, <1>4 DEF HubRests

LEMMA AbortedShaped ==
  ASSUME HubInv
  PROVE  /\ DetailsShaped(Aborted(hbDetails))
         /\ \A e \in HbEvents : Aborted(hbDetails)[e].failed = hbDetails[e].failed
<1>1. ASSUME NEW e \in HbEvents
      PROVE  /\ DetailShaped(Aborted(hbDetails)[e])
             /\ Aborted(hbDetails)[e].failed = hbDetails[e].failed
  <2>1. PICK d : d = hbDetails[e]
    OBVIOUS
  <2>2. DetailShaped(d)
    BY <2>1 DEF HubInv, DetailsShaped
  <2>3. Aborted(hbDetails)[e] = [d EXCEPT !.read = "none", !.by = "page"]
    BY <2>1 DEF Aborted
  <2>4. Aborted(hbDetails)[e] = [data |-> d.data, failed |-> d.failed, read |-> "none", by |-> "page"]
    BY <2>2, <2>3 DEF DetailShaped
  <2> QED BY <2>1, <2>2, <2>4 DEF DetailShaped
<1>2. Aborted(hbDetails) = [e \in HbEvents |-> Aborted(hbDetails)[e]]
  BY DEF Aborted
<1> QED BY <1>1, <1>2 DEF DetailsShaped

AskedAgain(details, e) == [details EXCEPT ![e].read = "sent"]
AskedAgainBy(details, e, by) == [details EXCEPT ![e].read = "sent", ![e].by = by]

\* A read of a hub begins.
LEMMA ReadBegins ==
  ASSUME NEW details, DetailsShaped(details), NEW e \in HbEvents, NEW by, NEW next,
         next = AskedAgain(details, e) \/ next = AskedAgainBy(details, e, by)
  PROVE  /\ DetailsShaped(next)
         /\ \A o \in HbEvents : next[o].failed = details[o].failed
<1>1. PICK d : d = details[e]
  OBVIOUS
<1>2. d = [data |-> d.data, failed |-> d.failed, read |-> d.read, by |-> d.by]
      /\ d.data.prev \in HubEvents /\ d.data.next \in HubEvents
  BY <1>1 DEF DetailsShaped, DetailShaped
<1>3. PICK who : next = [details EXCEPT ![e] = [data |-> d.data, failed |-> d.failed,
                                                read |-> "sent", by |-> who]]
  <2>1. CASE next = AskedAgain(details, e)
    <3>2. PICK sent : sent = [d EXCEPT !.read = "sent"]
      OBVIOUS
    <3>3. sent = [data |-> d.data, failed |-> d.failed, read |-> "sent", by |-> d.by]
      BY <1>2, <3>2
    <3>4. next = [details EXCEPT ![e] = sent]
      BY <1>1, <2>1, <3>2 DEF AskedAgain, DetailsShaped
    <3>1. next = [details EXCEPT ![e] = [data |-> d.data, failed |-> d.failed,
                                         read |-> "sent", by |-> d.by]]
      BY <3>3, <3>4
    <3> QED BY <3>1
  <2>2. CASE next = AskedAgainBy(details, e, by)
    <3>9. PICK old : old = [d EXCEPT !.read = "sent"]
      OBVIOUS
    <3>10. old = [data |-> d.data, failed |-> d.failed, read |-> "sent", by |-> d.by]
      BY <1>2, <3>9
    <3>1. PICK sent : sent = [data |-> d.data, failed |-> d.failed, read |-> "sent", by |-> d.by]
      OBVIOUS
    <3>2. PICK middle : middle = [details EXCEPT ![e].read = "sent"]
      OBVIOUS
    <3>3. middle = [details EXCEPT ![e] = sent]
      BY <1>1, <3>1, <3>2, <3>9, <3>10 DEF DetailsShaped
    <3>4. middle[e] = sent
      BY <3>3 DEF DetailsShaped
    <3>5. next = [middle EXCEPT ![e].by = by]
      BY <2>2, <3>2 DEF AskedAgainBy
    <3>6. [sent EXCEPT !.by = by] = [data |-> d.data, failed |-> d.failed, read |-> "sent", by |-> by]
      BY <3>1
    <3>7. next = [middle EXCEPT ![e] = [data |-> d.data, failed |-> d.failed,
                                        read |-> "sent", by |-> by]]
      BY <3>3, <3>4, <3>5, <3>6 DEF DetailsShaped
    <3>8. next = [details EXCEPT ![e] = [data |-> d.data, failed |-> d.failed,
                                         read |-> "sent", by |-> by]]
      BY <3>3, <3>7 DEF DetailsShaped
    <3> QED BY <3>8
  <2> QED BY <2>1, <2>2
<1>4. PICK new : new = [data |-> d.data, failed |-> d.failed, read |-> "sent", by |-> who]
  OBVIOUS
<1>5. next = [o \in HbEvents |-> IF o = e THEN new ELSE details[o]]
  BY <1>3, <1>4 DEF DetailsShaped
<1>6. DetailShaped(new) /\ new.failed = d.failed
  BY <1>2, <1>4 DEF DetailShaped
<1> QED BY <1>1, <1>5, <1>6 DEF DetailsShaped

LEMMA ShowPageRests ==
  ASSUME HubInv, NEW at, NEW fresh, ShowPage(at, fresh), PageKnown(at)
  PROVE  HubRests
BY AbortedShaped, ReadBegins, RenderedRests
DEF ShowPage, Opened, AskedAgain, PageKnown, HubInv, KeptNoticeIsOwn

-----------------------------------------------------------------------------
(* The steps.                                                              *)

\* A page that rests keeps what HubInv says of it.
LEMMA PageRests ==
  ASSUME HubInv, UNCHANGED <<hbDetails, hbAt, hbSettled, hbMount>>, FormShaped(hbForm')
  PROVE  HubRests
BY DEF HubInv, HubRests, KeptNoticeIsOwn

LEMMA HubGoesOn ==
  ASSUME HubInv, HubRests, CallsBehind', HubServerShaped', LatestShaped', MovedWhereMeant'
  PROVE  HubInv'
BY DEF HubInv, HubRests

LEMMA CallsRest ==
  ASSUME HubInv, HubRests, UNCHANGED <<hbCalls, hbWish>>
  PROVE  CallsBehind'
BY DEF HubInv, HubRests, CallsBehind

\* The user opens a page: no creation of the content he leaves is under way.
LEMMA VisitHolds ==
  ASSUME HubInv, NEW at, Visit(at), PageKnown(at), UNCHANGED <<hbServer, hbCalls>>,
         LatestShaped'
  PROVE  HubInv'
BY ShowPageRests, HubGoesOn
DEF Visit, HubInv, HubRests, CallsBehind, Creating, MovedWhereMeant, HubServerShaped

LEMMA HubIsKnown ==
  /\ PageKnown(HistoryPage) /\ PageKnown(EntryPage)
  /\ \A e \in HbEvents : PageKnown(Hub(e))
BY DEF PageKnown, HistoryPage, EntryPage, Hub

LEMMA VisitsHold ==
  ASSUME HubInv, OpenHistory \/ OpenListed \/ OpenAdjacent \/ GoBackToHub \/ OpenEntry
  PROVE  HubInv'
<1>1. LatestShaped
  BY DEF HubInv
<1>2. CASE OpenHistory
  BY <1>2, <1>1, VisitHolds, HubIsKnown DEF OpenHistory, LatestShaped
<1>3. CASE OpenListed
  BY <1>3, HubIsKnown, <1>1, VisitHolds DEF OpenListed, HubInv, HubServerShaped, LatestShaped
<1>4. CASE OpenAdjacent
  BY <1>4, HubIsKnown, <1>1, VisitHolds
  DEF OpenAdjacent, HubInv, PageKnown, DetailsShaped, DetailShaped, HubEvents, LatestShaped
<1>5. CASE GoBackToHub
  BY <1>5, HubIsKnown, HbAssumption, <1>1, VisitHolds DEF GoBackToHub, LatestShaped
<1>6. CASE OpenEntry
  BY <1>6, <1>1, VisitHolds, HubIsKnown DEF OpenEntry, LatestShaped
<1> QED BY <1>2, <1>3, <1>4, <1>5, <1>6

LEMMA RedirectRests ==
  ASSUME HubInv, NEW e \in HubEvents, Redirect(e)
  PROVE  HubRests
BY HubIsKnown, ShowPageRests DEF Redirect, HubEvents

LEMMA EntryHolds ==
  ASSUME HubInv, RetryEntry \/ ServeLatest \/ LatestArrives \/ LatestFails
  PROVE  HubInv'
<1>1. LatestShaped /\ HubServerShaped /\ MovedWhereMeant /\ FormShaped(hbForm)
  BY DEF HubInv
<1>2. CASE RetryEntry
  BY <1>1, <1>2, PageRests, CallsRest, HubGoesOn
  DEF RetryEntry, LatestShaped, hbpage, HubServerShaped, MovedWhereMeant
<1>3. CASE ServeLatest
  BY <1>1, NewestOldest, <1>3, PageRests, CallsRest, HubGoesOn
  DEF HubServerShaped, ServeLatest, LatestShaped, hbpage, MovedWhereMeant
<1>4. CASE LatestArrives
  BY <1>4, <1>1, RedirectRests, CallsRest, HubGoesOn
  DEF LatestArrives, LatestShaped, HubEvents, MovedWhereMeant, HubServerShaped
<1>5. CASE LatestFails
  BY <1>5, <1>1, RedirectRests, PageRests, CallsRest, HubGoesOn
  DEF LatestFails, LatestShaped, MovedWhereMeant, hbpage, HubServerShaped
<1> QED BY <1>2, <1>3, <1>4, <1>5

\* The hub that is shown is rendered with new details, and nothing else moves.
LEMMA HubReadHolds ==
  ASSUME HubInv, NEW details, HubRendered(hbAt, details), DetailsShaped(details),
         hbAt.page = "hub",
         UNCHANGED <<hbServer, hbLatest, hbBy, hbWish>>,
         \/ HubPending(details[hbAt.event]) => details[hbAt.event].failed
         \/ details[hbAt.event].failed = hbDetails[hbAt.event].failed
  PROVE  HubRests /\ (UNCHANGED hbCalls => HubInv')
BY RenderedRests, CallsRest, HubGoesOn
DEF HubInv, KeptNoticeIsOwn, LatestShaped, HubServerShaped, MovedWhereMeant

LEMMA DetailOfShaped ==
  ASSUME HubInv, NEW e \in HbEvents, NEW sure \in BOOLEAN
  PROVE  /\ DetailOf(hbServer, e, sure).prev \in HubEvents
         /\ DetailOf(hbServer, e, sure).next \in HubEvents
BY NewestOldest DEF DetailOf, UnreadDetail, HubEvents, HubInv, HubServerShaped

\* What answers replaces the details of the hub that is shown.
LEMMA DetailReplaced ==
  ASSUME HubInv, NEW e \in HbEvents, NEW d, DetailShaped(d), NEW details,
         details = [hbDetails EXCEPT ![e] = d]
  PROVE  DetailsShaped(details) /\ details[e] = d
BY DEF HubInv, DetailsShaped

LEMMA HubReadsHold ==
  ASSUME HubInv, UserRefreshesHub \/ RecheckHub \/ HubArrives \/ HubFails
  PROVE  HubInv'
<1>1. /\ hbAt.page = "hub" /\ UNCHANGED <<hbServer, hbLatest, hbCalls, hbBy, hbWish>>
  BY DEF UserRefreshesHub, RecheckHub, HubArrives, HubFails
<1>2. hbAt.event \in HbEvents /\ DetailsShaped(hbDetails)
  BY <1>1 DEF HubInv, PageKnown
<1>3. CASE UserRefreshesHub
  <2>1. PICK details : details = AskedAgainBy(hbDetails, hbAt.event, "user")
    OBVIOUS
  <2>2. HubRendered(hbAt, details)
    BY <1>3, <2>1 DEF UserRefreshesHub, AskedAgainBy
  <2>3. DetailsShaped(details) /\ details[hbAt.event].failed = hbDetails[hbAt.event].failed
    BY <1>2, <2>1, ReadBegins
  <2> QED BY <1>1, <2>2, <2>3, HubReadHolds
<1>4. CASE RecheckHub
  BY <1>4, <1>2, ReadBegins, <1>1, HubReadHolds DEF RecheckHub, AskedAgain
<1>5. CASE HubArrives
  BY <1>5, <1>2, DetailOfShaped, DetailReplaced, <1>1, HubReadHolds
  DEF HubArrives, NoDetail, DetailShaped, HubPending
<1>6. CASE HubFails
  <2>1. PICK yes \in BOOLEAN : yes = TRUE
    OBVIOUS
  <2>2. PICK data : data = hbDetails[hbAt.event].data
    OBVIOUS
  <2>3. PICK d : d = [NoDetail EXCEPT !.data = data, !.failed = yes]
    OBVIOUS
  <2>4. PICK details : details = [hbDetails EXCEPT ![hbAt.event] = d]
    OBVIOUS
  <2>5. HubRendered(hbAt, details)
    BY <1>6, <2>1, <2>2, <2>3, <2>4 DEF HubFails
  <2>6. DetailShaped(d) /\ d.failed
    BY <2>3, <1>2, <2>2, <2>1 DEF NoDetail, DetailsShaped, DetailShaped
  <2>7. DetailsShaped(details) /\ details[hbAt.event] = d
    BY <1>2, <2>4, <2>6, DetailReplaced
  <2> QED BY <1>1, <2>5, <2>6, <2>7, HubReadHolds
<1> QED BY <1>3, <1>4, <1>5, <1>6

\* One call moves on, under the same content.
LEMMA CallMovesOn ==
  ASSUME HubInv, HubRests, UNCHANGED hbWish, NEW call \in hbCalls, NEW moved,
         moved = [at |-> moved.at, mount |-> call.mount, event |-> moved.event],
         moved.at # "sent" => moved.event \in HbEvents,
         hbCalls' \subseteq hbCalls \cup {moved}
  PROVE  CallsBehind'
<1> SUFFICES ASSUME NEW c \in hbCalls'
             PROVE  /\ c = [at |-> c.at, mount |-> c.mount, event |-> c.event]
                    /\ c.mount \in Nat /\ c.mount <= hbMount'
                    /\ c.mount = hbMount' => hbWish = "creation"
                    /\ c.at # "sent" => c.event \in HbEvents
  BY DEF CallsBehind
<1>1. hbMount \in Nat /\ hbMount' \in {hbMount, hbMount + 1}
  BY DEF HubInv, HubRests
<1>2. CASE c \in hbCalls
  BY <1>1, <1>2 DEF HubInv, CallsBehind
<1>3. CASE c = moved
  <2>1. c.mount = call.mount
    BY <1>3
  <2> QED BY <1>1, <1>3, <2>1 DEF HubInv, CallsBehind
<1> QED BY <1>2, <1>3

LEMMA CreationFormHolds ==
  ASSUME HubInv, OpenCreation \/ CloseCreation \/ SubmitCreation
  PROVE  HubInv'
<1>1. LatestShaped /\ HubServerShaped /\ MovedWhereMeant /\ FormShaped(hbForm)
  BY DEF HubInv
<1>2. UNCHANGED <<hbServer, hbcached, hbAt, hbSettled, hbMount, hbBy>>
  BY DEF OpenCreation, CloseCreation, SubmitCreation, hbpage
<1>3. LatestShaped' /\ HubServerShaped'
  BY <1>1, <1>2 DEF hbcached, LatestShaped, HubServerShaped
<1>4. CASE OpenCreation \/ CloseCreation
  BY <1>4, <1>1, <1>2, PageRests, <1>3, CallsRest, HubGoesOn
  DEF OpenCreation, CloseCreation, FormShaped, hbcached, MovedWhereMeant
<1>5. CASE SubmitCreation
  BY <1>5, <1>2, <1>1, PageRests, <1>3, HubGoesOn
  DEF SubmitCreation, HubInv, CallsBehind, hbcached, hbpage, MovedWhereMeant
<1> QED BY <1>4, <1>5

LEMMA ServeCreationHolds ==
  ASSUME HubInv, ServeHubCreation
  PROVE  HubInv'
<1>1. LatestShaped /\ HubServerShaped /\ MovedWhereMeant /\ FormShaped(hbForm)
  BY DEF HubInv
<1>2. UNCHANGED <<hbcached, hbAt, hbSettled, hbMount, hbBy, hbWish>>
  BY DEF ServeHubCreation
<1>3. PICK call \in hbCalls :
        LET own == call.mount = hbMount
            replayed == own /\ hbForm.made # NoEvent
        IN \E e \in IF replayed THEN {hbForm.made} ELSE HbEvents \ hbServer.events :
             /\ call.at = "sent"
             /\ hbServer' = IF replayed THEN hbServer ELSE [hbServer EXCEPT !.events = @ \cup {e}]
             /\ hbForm' = IF own THEN [hbForm EXCEPT !.made = e] ELSE hbForm
             /\ hbCalls' = (hbCalls \ {call}) \cup {[call EXCEPT !.at = "made", !.event = e]}
  BY DEF ServeHubCreation
<1>4. PICK e : /\ e \in IF call.mount = hbMount /\ hbForm.made # NoEvent THEN {hbForm.made}
                        ELSE HbEvents \ hbServer.events
               /\ hbServer' \in {hbServer, [hbServer EXCEPT !.events = @ \cup {e}]}
               /\ hbForm' \in {hbForm, [hbForm EXCEPT !.made = e]}
               /\ hbCalls' = (hbCalls \ {call}) \cup {[call EXCEPT !.at = "made", !.event = e]}
  BY <1>3
<1>5. e \in HbEvents
  BY <1>1, <1>4 DEF FormShaped, HubEvents
<1>6. HubServerShaped'
  BY <1>1, <1>4, <1>5 DEF HubServerShaped
<1>7. FormShaped(hbForm')
  BY <1>1, <1>4, <1>5 DEF FormShaped, HubEvents
<1>8. HubRests
  BY <1>2, <1>7, PageRests DEF hbcached
<1>9. PICK moved : moved = [call EXCEPT !.at = "made", !.event = e]
  OBVIOUS
<1>13. call = [at |-> call.at, mount |-> call.mount, event |-> call.event]
  BY DEF HubInv, CallsBehind
<1>10. moved = [at |-> "made", mount |-> call.mount, event |-> e]
  BY <1>9, <1>13
<1>11. CallsBehind'
  BY <1>2, <1>4, <1>5, <1>8, <1>9, <1>10, CallMovesOn
<1>12. LatestShaped' /\ MovedWhereMeant'
  BY <1>1, <1>2 DEF hbcached, LatestShaped, MovedWhereMeant
<1> QED BY <1>6, <1>8, <1>11, <1>12, HubGoesOn

LEMMA CreationMadeHolds ==
  ASSUME HubInv, CreationMade
  PROVE  HubInv'
<1>1. LatestShaped /\ HubServerShaped /\ MovedWhereMeant /\ PageKnown(hbAt)
      /\ DetailsShaped(hbDetails)
  BY DEF HubInv
<1>2. UNCHANGED <<hbServer, hbLatest, hbBy, hbWish>>
  BY DEF CreationMade
<1>3. PICK call \in hbCalls :
        /\ call.at = "made"
        /\ hbCalls' = (hbCalls \ {call}) \cup {[call EXCEPT !.at = "syncing"]}
  BY DEF CreationMade
<1>4. PICK details : details = IF hbAt.page = "hub" THEN AskedAgainBy(hbDetails, hbAt.event, "page")
                               ELSE hbDetails
  OBVIOUS
<1>5. HubRendered(hbAt, details)
  BY <1>4 DEF CreationMade, AskedAgainBy
<1>6. DetailsShaped(details) /\ \A e \in HbEvents : details[e].failed = hbDetails[e].failed
  BY <1>1, <1>4, ReadBegins DEF PageKnown
<1>7. hbSettled.on /\ hbSettled.event = hbAt.event => details[hbAt.event].failed
  BY <1>6 DEF HubInv, KeptNoticeIsOwn
<1>8. HubRests
  BY <1>1, <1>5, <1>6, <1>7, RenderedRests
<1>9. PICK moved : moved = [call EXCEPT !.at = "syncing"]
  OBVIOUS
<1>10. moved = [at |-> "syncing", mount |-> call.mount, event |-> call.event]
       /\ call.event \in HbEvents
  BY <1>3, <1>9 DEF HubInv, CallsBehind
<1>11. CallsBehind'
  BY <1>2, <1>3, <1>8, <1>9, <1>10, CallMovesOn
<1>12. LatestShaped' /\ HubServerShaped' /\ MovedWhereMeant'
  BY <1>1, <1>2 DEF LatestShaped, HubServerShaped, MovedWhereMeant
<1> QED BY <1>8, <1>11, <1>12, HubGoesOn

LEMMA CreationEndsHolds ==
  ASSUME HubInv, CreationEnds
  PROVE  HubInv'
<1>1. LatestShaped /\ HubServerShaped /\ MovedWhereMeant /\ FormShaped(hbForm)
  BY DEF HubInv
<1>2. UNCHANGED <<hbServer, hbLatest, hbWish>>
  BY DEF CreationEnds
<1>3. PICK call \in hbCalls :
        /\ call.at = "syncing" /\ hbCalls' = hbCalls \ {call}
        /\ IF MovesUser(call) THEN ShowPage(Hub(call.event), FALSE) /\ hbBy' = "creation"
           ELSE UNCHANGED <<hbDetails, hbpage>>
  BY DEF CreationEnds
<1>4. HubRests /\ MovedWhereMeant'
  <2>1. CASE MovesUser(call)
    BY <1>3, <2>1, HubIsKnown, <1>2, ShowPageRests
    DEF HubInv, CallsBehind, MovesUser, MovedWhereMeant
  <2>2. CASE ~MovesUser(call)
    <3>1. UNCHANGED <<hbDetails, hbpage>>
      BY <1>3, <2>2
    <3> QED BY <1>1, <1>2, <3>1, PageRests DEF hbpage, MovedWhereMeant
  <2> QED BY <2>1, <2>2
<1>5. CallsBehind'
  BY <1>2, <1>3, <1>4 DEF HubInv, HubRests, CallsBehind
<1>6. LatestShaped' /\ HubServerShaped'
  BY <1>1, <1>2 DEF LatestShaped, HubServerShaped
<1> QED BY <1>4, <1>5, <1>6, HubGoesOn

LEMMA CreationFailsHolds ==
  ASSUME HubInv, CreationFails
  PROVE  HubInv'
BY PageRests, HubGoesOn
DEF HubInv, CreationFails, FormShaped, hbcached, CallsBehind, LatestShaped, HubServerShaped,
    MovedWhereMeant

LEMMA OthersHold ==
  ASSUME HubInv, OthersChangeEvents
  PROVE  HubInv'
BY PageRests, CallsRest, HubGoesOn
DEF HubInv, OthersChangeEvents, HubServerShaped, hbcached, hbpage, LatestShaped, MovedWhereMeant

LEMMA HubStarts == HbInit => HubInv
BY HbAssumption, NoDetailShaped, HubIsKnown
DEF HbInit, HubServerShaped, DetailsShaped, LatestShaped, HubEvents, FormShaped, NoForm,
    CallsBehind, KeptNoticeIsOwn, MovedWhereMeant, HubInv

LEMMA HubKeepsItsNotice == HubInv => NoticeIsOwn
BY DEF HubInv, KeptNoticeIsOwn, NoticeIsOwn, StaleShown, HubReadFailed

LEMMA HubStepHolds ==
  ASSUME HubInv, HbNext \/ UNCHANGED hbvars
  PROVE  HubInv'
<1>1. CASE HbNext
  BY <1>1, VisitsHold, EntryHolds, HubReadsHold, CreationFormHolds, ServeCreationHolds,
     CreationMadeHolds, CreationEndsHolds, CreationFailsHolds, OthersHold DEF HbNext
<1>2. CASE UNCHANGED hbvars
  <2>1. HubRests
    BY <1>2, PageRests DEF hbvars, hbcached, hbpage, HubInv
  <2> QED BY <1>2, <2>1, CallsRest, HubGoesOn
      DEF hbvars, hbcached, hbpage, HubInv, LatestShaped, HubServerShaped, MovedWhereMeant
<1> QED BY <1>1, <1>2
-----------------------------------------------------------------------------
(* The searches of the match list: wherever one is held, its season is one   *)
(* of its title.                                                             *)
MatchShaped(search) ==
  /\ search = [title |-> search.title, season |-> search.season, event |-> search.event,
               period |-> search.period, memo |-> search.memo, metric |-> search.metric,
               cursor |-> search.cursor, size |-> search.size]
  /\ search.season \in DOMAIN TitleOf \cup {Unset}
  /\ TitleFits(search)
VisitsShaped(trail) ==
  \E S : trail \in Seq(S) /\ trail # <<>> /\ \A search \in S : MatchShaped(search)
LookedUpInv ==
  /\ VisitsShaped(mlTrail) /\ MatchShaped(mlShown)
  /\ mlWanted # MlNone => MatchShaped(mlWanted)
  /\ mlSheet # MlNone => MatchShaped(mlSheet)

LEMMA VisitsGrow ==
  ASSUME NEW trail, VisitsShaped(trail), NEW search, MatchShaped(search)
  PROVE  VisitsShaped(Append(trail, search))
<1>1. PICK S : trail \in Seq(S) /\ \A s \in S : MatchShaped(s)
  BY DEF VisitsShaped
<1>2. PICK T : T = S \cup {search}
  OBVIOUS
<1>3. trail \in Seq(T) /\ search \in T /\ \A s \in T : MatchShaped(s)
  BY <1>2, <1>1, SeqDef
<1>4. Append(trail, search) \in Seq(T) /\ Append(trail, search) # <<>>
  BY <1>3, AppendProperties
<1> QED BY <1>3, <1>4 DEF VisitsShaped

LEMMA VisitNewest ==
  ASSUME NEW trail, VisitsShaped(trail)
  PROVE  MatchShaped(trail[Len(trail)])
BY EmptySeq, LenProperties, ElementOfSeq DEF VisitsShaped

LEMMA VisitsGoBack ==
  ASSUME NEW trail, VisitsShaped(trail), Len(trail) > 1
  PROVE  VisitsShaped(SubSeq(trail, 1, Len(trail) - 1))
<1>1. PICK S : trail \in Seq(S) /\ \A s \in S : MatchShaped(s)
  BY DEF VisitsShaped
<1>2. PICK past : past = SubSeq(trail, 1, Len(trail) - 1)
  OBVIOUS
<1>3. past \in Seq(S) /\ Len(past) = Len(trail) - 1
  BY <1>1, <1>2, SubSeqProperties, LenProperties
<1>4. past # <<>>
  BY <1>1, <1>3, EmptySeq, LenProperties
<1> QED BY <1>1, <1>2, <1>3, <1>4 DEF VisitsShaped

LEMMA TitleOfMatchesChosen ==
  ASSUME NEW search, MatchShaped(search), NEW title
  PROVE  MatchShaped(WithTitle(search, title)) /\ MatchShaped(SheetTitle(search, title))
<1>1. PICK season : season = IF title # Unset /\ title = search.title THEN search.season ELSE Unset
  OBVIOUS
<1>2. WithTitle(search, title) = [search EXCEPT !.title = title, !.season = season]
  BY <1>1 DEF WithTitle, MatchShaped
<1>3. WithTitle(search, title) =
        [title |-> title, season |-> season, event |-> search.event, period |-> search.period,
         memo |-> search.memo, metric |-> search.metric, cursor |-> search.cursor,
         size |-> search.size]
  BY <1>2 DEF MatchShaped
<1>4. PICK kept : kept = IF title = search.title THEN search.season ELSE Unset
  OBVIOUS
<1>5. SheetTitle(search, title) = [search EXCEPT !.title = title, !.season = kept]
  BY <1>4 DEF SheetTitle, MatchShaped
<1>6. SheetTitle(search, title) =
        [title |-> title, season |-> kept, event |-> search.event, period |-> search.period,
         memo |-> search.memo, metric |-> search.metric, cursor |-> search.cursor,
         size |-> search.size]
  BY <1>5 DEF MatchShaped
<1> QED BY <1>1, <1>3, <1>4, <1>6 DEF MatchShaped, TitleFits

LEMMA SeasonOfMatchesChosen ==
  ASSUME NEW search, MatchShaped(search), NEW season,
         season \in SeasonsOffered(search.title) \/ season = Unset
  PROVE  MatchShaped([search EXCEPT !.season = season])
BY DEF MatchShaped, TitleFits, SeasonsOffered

\* A field other than the title and the season may hold anything.
LEMMA DetailChosen ==
  ASSUME NEW search, MatchShaped(search), NEW value, NEW next,
         \/ next = [search EXCEPT !.event = value]
         \/ next = [search EXCEPT !.period = value]
         \/ next = [search EXCEPT !.memo = value]
         \/ next = [search EXCEPT !.metric = value]
         \/ next = [search EXCEPT !.cursor = value]
         \/ next = [search EXCEPT !.size = value]
  PROVE  MatchShaped(next)
BY DEF MatchShaped, TitleFits

LEMMA MatchesCleared ==
  ASSUME NEW search
  PROVE  MatchShaped(ClearMatchConditions(search))
BY DEF ClearMatchConditions, AllMatches, MatchShaped, TitleFits

\* Every choice leads from a sound search to one.
LEMMA ChangeShaped ==
  ASSUME NEW search, MatchShaped(search), NEW kind, NEW value,
         kind \in {"size", "title", "season", "event", "period", "memo", "metric", "conditions"},
         kind = "season" => value \in SeasonsOffered(search.title) \/ value = Unset,
         kind = "conditions" => MatchShaped(value)
  PROVE  MatchShaped(ChangeMatches(search, kind, value))
BY TitleOfMatchesChosen, SeasonOfMatchesChosen, DetailChosen DEF ChangeMatches

LEMMA ChosenShaped ==
  ASSUME LookedUpInv
  PROVE  MatchShaped(Chosen)
BY DEF LookedUpInv, Chosen

LEMMA VisitOfMatchesHolds ==
  ASSUME LookedUpInv, NEW search, GoTo(search), MatchShaped(search), mlSheet' \in {mlSheet, MlNone}
  PROVE  LookedUpInv'
<1>1. VisitsShaped(mlTrail')
  BY VisitsGrow DEF LookedUpInv, GoTo
<1> QED BY <1>1 DEF LookedUpInv, GoTo

LEMMA ChooseHolds ==
  ASSUME LookedUpInv, NEW kind, NEW value, GoTo(ChangeMatches(Chosen, kind, value)),
         kind \in {"size", "title", "season", "event", "period", "memo", "metric", "conditions"},
         kind = "season" => value \in SeasonsOffered(Chosen.title) \/ value = Unset,
         kind = "conditions" => MatchShaped(value),
         mlSheet' \in {mlSheet, MlNone}
  PROVE  LookedUpInv'
BY ChosenShaped, ChangeShaped, VisitOfMatchesHolds

LEMMA LookUpRests ==
  ASSUME LookedUpInv, UNCHANGED <<mlTrail, mlShown, mlWanted>>,
         mlSheet' # MlNone => MatchShaped(mlSheet')
  PROVE  LookedUpInv'
BY DEF LookedUpInv

LEMMA BarHolds ==
  ASSUME LookedUpInv,
         ChooseScopeOfMatches \/ TypePeriodOfMatches \/ CommitText \/ RemoveChip \/ TurnMatchPage
  PROVE  LookedUpInv'
<1>1. UNCHANGED mlSheet
  BY DEF ChooseScopeOfMatches, TypePeriodOfMatches, CommitText, RemoveChip, TurnMatchPage
<1>2. CASE ChooseScopeOfMatches
  BY <1>2, <1>1, ChooseHolds DEF ChooseScopeOfMatches, Choose
<1>3. CASE TypePeriodOfMatches
  BY <1>3, <1>1, LookUpRests, ChooseHolds DEF TypePeriodOfMatches, LookedUpInv, Choose
<1>4. CASE CommitText
  BY <1>4, <1>1, ChooseHolds DEF CommitText, Choose
<1>5. CASE RemoveChip
  BY <1>5, <1>1, ChooseHolds DEF RemoveChip, NarrowedBy, Conditions, Choose
<1>6. CASE TurnMatchPage
  BY <1>6, ChosenShaped, DetailChosen, <1>1, VisitOfMatchesHolds, ChooseHolds DEF TurnMatchPage, Choose
<1> QED BY <1>2, <1>3, <1>4, <1>5, <1>6

LEMMA SheetOfMatchesHolds ==
  ASSUME LookedUpInv, OpenMatchSheet \/ EditMatchSheet \/ SubmitSheet \/ DropSheet
  PROVE  LookedUpInv'
<1>1. CASE OpenMatchSheet
  BY <1>1, LookUpRests, ChosenShaped DEF OpenMatchSheet
<1>2. CASE EditMatchSheet
  BY <1>2, TitleOfMatchesChosen, SeasonOfMatchesChosen, DetailChosen, MatchesCleared, LookUpRests
  DEF EditMatchSheet, LookedUpInv
<1>3. CASE SubmitSheet
  BY <1>3, ChooseHolds DEF SubmitSheet, LookedUpInv
<1>4. CASE DropSheet
  BY <1>4, LookUpRests DEF DropSheet, mlurl
<1> QED BY <1>1, <1>2, <1>3, <1>4

LEMMA VisitsOfMatchesHold ==
  ASSUME LookedUpInv, ClearMatches \/ BackInList \/ ShowVisit \/ EndRefresh
  PROVE  LookedUpInv'
<1>1. CASE ClearMatches
  BY <1>1, MatchesCleared, VisitOfMatchesHolds DEF ClearMatches
<1>2. CASE BackInList
  <2>1. VisitsShaped(mlTrail')
    BY <1>2, VisitsGoBack DEF BackInList, LookedUpInv
  <2> QED BY <1>2, <2>1 DEF BackInList, LookedUpInv
<1>3. CASE ShowVisit
  <2>1. MatchShaped(mlShown')
    BY <1>3, VisitNewest DEF ShowVisit, LookedUpInv
  <2> QED BY <1>3, <2>1 DEF ShowVisit, LookedUpInv
<1>4. CASE EndRefresh
  BY <1>4, ChosenShaped, DetailChosen, VisitOfMatchesHolds, LookUpRests DEF EndRefresh, LookedUpInv
<1> QED BY <1>1, <1>2, <1>3, <1>4

LEMMA LookUpsRest ==
  ASSUME LookedUpInv,
         \/ TypeText \/ LeaveList \/ DeferSearch \/ ServeMatches \/ MatchesArrive \/ MatchesFail
         \/ OthersRemove \/ AskRefresh \/ UNCHANGED mlvars
  PROVE  LookedUpInv'
<1>1. UNCHANGED <<mlTrail, mlShown, mlWanted, mlSheet>>
  BY DEF TypeText, LeaveList, DeferSearch, ServeMatches, MatchesArrive, MatchesFail, OthersRemove,
         AskRefresh, mlvars, mlurl
<1> QED BY <1>1, LookUpRests DEF LookedUpInv

LEMMA LookedUpGoesOn ==
  ASSUME LookedUpInv, MlNext \/ UNCHANGED mlvars
  PROVE  LookedUpInv'
BY BarHolds, SheetOfMatchesHolds, VisitsOfMatchesHold, LookUpsRest DEF MlNext, MlStep

LEMMA LookedUpStarts == MlInit => LookedUpInv
<1> SUFFICES ASSUME MlInit PROVE LookedUpInv
  OBVIOUS
<1>1. mlShown \in MatchSearches /\ TitleFits(mlShown) /\ mlTrail = <<mlShown>>
      /\ mlWanted = MlNone /\ mlSheet = MlNone
  BY MlAssumption DEF MlInit
<1>2. MatchShaped(mlShown)
  BY <1>1 DEF MatchSearches, MatchShaped
<1>3. VisitsShaped(mlTrail)
  <2>1. mlTrail \in Seq({mlShown}) /\ mlTrail # <<>>
    BY <1>1
  <2> QED BY <1>2, <2>1 DEF VisitsShaped
<1> QED BY <1>1, <1>2, <1>3 DEF LookedUpInv

\* The export covers what the search lists: a season has only matches of its title.
LEMMA ExportIsListed == LookedUpInv => ExportsWhatIsListed
BY ChosenShaped, MlAssumption
DEF ExportsWhatIsListed, ExportLink, Lists, MatchShaped, NarrowedBy, Conditions, TitleFits

-----------------------------------------------------------------------------
(* The rows and the refresh.  One read of a search is under way at most, and *)
(* it is the deferred one's or the one a refresh waits for; what it answers  *)
(* lists that search, and is no older than the changes before it.            *)
AnswersFor(a, search) ==
  a.search = search /\ a.age \in Nat /\ \A m \in a.rows : Lists(search, m)
ReadsSound ==
  /\ \A r \in mlReads : /\ r = [search |-> r.search, answer |-> r.answer]
                        /\ r.answer # Unanswered => AnswersFor(r.answer, r.search)
  /\ \A r, q \in mlReads : r.search = q.search => r = q
ListsSound == \A a \in mlCache : AnswersFor(a, a.search)
Awaits(refresh, search) == refresh.at = "sent" /\ refresh.read = search
ReadsAwaited ==
  \A r \in mlReads : r.search = mlDeferred \/ Awaits(mlRefresh, r.search)
AsNewAs(search, age) == \A a \in mlCache : a.search = search => a.age >= age
ReadsAsNewAs(search, age) ==
  \A r \in mlReads : r.search = search /\ r.answer # Unanswered => r.answer.age >= age
RefreshShaped(refresh) ==
  /\ refresh = [origin |-> refresh.origin, at |-> refresh.at, read |-> refresh.read,
                age |-> refresh.age]
  /\ refresh.at \in {"sent", "refreshed", "failed"}
  /\ refresh.read = [refresh.origin EXCEPT !.cursor = FirstPage]
  /\ refresh.age \in Nat
RefreshSound ==
  /\ RefreshPending => RefreshShaped(mlRefresh) /\ mlRefresh.age <= MlAge + 1
  /\ RefreshPending /\ mlRefresh.origin.cursor # FirstPage =>
       /\ ReadsAsNewAs(mlRefresh.read, mlRefresh.age)
       /\ mlRefresh.at = "refreshed" =>
            Cached(mlRefresh.read) /\ AsNewAs(mlRefresh.read, mlRefresh.age)
  /\ ~RefreshPending => mlRefresh = MlNoRefresh
MatchesInv == LookedUpInv /\ ReadsSound /\ ListsSound /\ ReadsAwaited /\ RefreshSound

LEMMA AgeCounts == MlAge \in Nat
<1>1. IsFiniteSet(MlMatches \ mlServer)
  BY MlAssumption, FS_Subset
<1> QED BY <1>1, FS_CardinalityType DEF MlAge

LEMMA AgeGrows ==
  ASSUME mlServer' \subseteq mlServer
  PROVE  MlAge' \in Nat /\ MlAge <= MlAge'
BY MlAssumption, FS_Subset, FS_CardinalityType DEF MlAge

\* What the server answers lists the search it was asked for.
LEMMA MatchAnswered ==
  ASSUME NEW search, NEW server, NEW age \in Nat
  PROVE  AnswersFor(MatchAnswer(search, server, age), search)
         /\ MatchAnswer(search, server, age).age = age
<1> DEFINE found == Found(search, server)
           below == {m \in found : search.cursor = FirstPage \/ m < search.cursor}
           above == Cardinality(found \ below)
           pages == (Cardinality(found) + search.size - 1) \div search.size
           rows == {m \in below : Above(m, below) < search.size}
           page == (above + search.size - 1) \div search.size + 1
           edges == [p \in 1..pages |-> EdgeOf(p, search.size, found)]
<1>1. MatchAnswer(search, server, age) =
        [search |-> search, age |-> age, pages |-> pages, rows |-> rows, page |-> page,
         edges |-> edges]
  BY Zenon DEF MatchAnswer
<1>2. \A m \in rows : Lists(search, m)
  BY DEF Found
<1>3. PICK p, shown, q, e : pages = p /\ rows = shown /\ page = q /\ edges = e
  OBVIOUS
<1> HIDE DEF found, below, above, pages, rows, page, edges
<1>4. MatchAnswer(search, server, age) =
        [search |-> search, age |-> age, pages |-> p, rows |-> shown, page |-> q, edges |-> e]
  BY <1>1, <1>3, Zenon
<1>5. \A m \in shown : Lists(search, m)
  BY <1>2, <1>3
<1> QED BY <1>4, <1>5 DEF AnswersFor

\* A step that only searches, or the deletion of a match by others.
LEMMA MatchesRest ==
  ASSUME MatchesInv, LookedUpInv', mlServer' \subseteq mlServer,
         UNCHANGED <<mlDeferred, mlCache, mlReads, mlRefresh>>
  PROVE  MatchesInv'
BY AgeCounts, AgeGrows
DEF MatchesInv, ReadsSound, ListsSound, ReadsAwaited, RefreshPending, RefreshShaped, RefreshSound,
    ReadsAsNewAs, AsNewAs, Cached

LEMMA LookUpStepsHold ==
  ASSUME MatchesInv, LookedUpInv',
         \/ ChooseScopeOfMatches \/ TypePeriodOfMatches \/ TypeText \/ CommitText \/ RemoveChip
         \/ ClearMatches \/ TurnMatchPage \/ OpenMatchSheet \/ EditMatchSheet \/ SubmitSheet
         \/ DropSheet \/ BackInList \/ ShowVisit \/ OthersRemove \/ UNCHANGED mlvars
  PROVE  MatchesInv'
<1>1. UNCHANGED <<mlDeferred, mlCache, mlReads, mlRefresh>> /\ mlServer' \subseteq mlServer
  BY DEF ChooseScopeOfMatches, TypePeriodOfMatches, TypeText, CommitText, RemoveChip,
         ClearMatches, TurnMatchPage, OpenMatchSheet, EditMatchSheet, SubmitSheet, DropSheet,
         BackInList, ShowVisit, OthersRemove, MlElse, mlread, mlvars
<1> QED BY <1>1, MatchesRest

\* The refresh a step gives up, or that hears of its read.
LEMMA RefreshEnds ==
  ASSUME MatchesInv, NEW at \in {"refreshed", "failed"}, mlRefresh.at = "sent",
         mlRefresh' = [mlRefresh EXCEPT !.at = at]
  PROVE  /\ RefreshShaped(mlRefresh') /\ RefreshPending' /\ mlRefresh'.at = at
         /\ mlRefresh'.age = mlRefresh.age /\ mlRefresh'.read = mlRefresh.read
         /\ mlRefresh'.origin = mlRefresh.origin
BY DEF MatchesInv, RefreshSound, RefreshPending, RefreshShaped

LEMMA RefreshFails ==
  ASSUME MatchesInv, UNCHANGED mlServer, mlRefresh.at = "sent",
         mlRefresh' = [mlRefresh EXCEPT !.at = "failed"],
         mlRefresh.origin.cursor # FirstPage => ReadsAsNewAs(mlRefresh.read, mlRefresh.age)'
  PROVE  RefreshSound'
BY RefreshEnds DEF MatchesInv, RefreshSound, RefreshPending, MlAge

\* Reads that go away, or that were not answered yet, leave a refresh as new as it was.
LEMMA FewerReadsAsNew ==
  ASSUME NEW search, NEW age, ReadsAsNewAs(search, age),
         \A r \in mlReads' : r \in mlReads \/ r.answer = Unanswered
  PROVE  ReadsAsNewAs(search, age)'
BY DEF ReadsAsNewAs

LEMMA RefreshRests ==
  ASSUME MatchesInv, UNCHANGED <<mlServer, mlCache, mlRefresh>>,
         RefreshPending /\ mlRefresh.origin.cursor # FirstPage =>
           ReadsAsNewAs(mlRefresh.read, mlRefresh.age)'
  PROVE  RefreshSound'
<1>1. MlAge' = MlAge /\ RefreshPending' = RefreshPending
  BY DEF MlAge, RefreshPending
<1> QED BY <1>1 DEF MatchesInv, RefreshSound, AsNewAs, Cached, ReadsAsNewAs

LEMMA LeavingHolds ==
  ASSUME MatchesInv, LookedUpInv', LeaveList
  PROVE  MatchesInv'
BY RefreshFails, RefreshRests
DEF LeaveList, MatchesInv, ReadsSound, ListsSound, Awaits, ReadsAwaited, ReadsAsNewAs, RefreshSound

LEMMA DeferringHolds ==
  ASSUME MatchesInv, LookedUpInv', DeferSearch
  PROVE  MatchesInv'
<1>1. PICK others, chosen : others = {r \in mlReads : r.search # mlDeferred} /\ chosen = Chosen
  OBVIOUS
<1>2. PICK asked : asked = PendingRead(chosen)
  OBVIOUS
<1>3. /\ mlDeferred' = chosen /\ mlDeferred # chosen
      /\ UNCHANGED <<mlServer, mlCache>>
      /\ mlRefresh' = IF mlRefresh.at = "sent" /\ mlRefresh.read = mlDeferred /\ MlFetching
                      THEN [mlRefresh EXCEPT !.at = "failed"] ELSE mlRefresh
  BY <1>1 DEF DeferSearch
<1>4. \/ mlReads' = others
      \/ mlReads' = others \cup {asked} /\ ~\E r \in others : r.search = chosen
  BY <1>1, <1>2, Zenon DEF DeferSearch
<1>5. asked = [search |-> chosen, answer |-> Unanswered]
  BY <1>2 DEF PendingRead
<1>6. \A r \in mlReads' : r \in others \/ r = asked
  BY <1>4
<1>7. ReadsSound' /\ ListsSound'
  <2>1. ASSUME NEW r \in mlReads'
        PROVE  /\ r = [search |-> r.search, answer |-> r.answer]
               /\ r.answer # Unanswered => AnswersFor(r.answer, r.search)
    BY <1>1, <1>5, <1>6 DEF MatchesInv, ReadsSound
  <2>2. ASSUME NEW r \in mlReads', NEW q \in mlReads', r.search = q.search
        PROVE  r = q
    <3>1. asked.search = chosen
      BY <1>5
    <3> QED BY <1>1, <1>4, <2>2, <3>1 DEF MatchesInv, ReadsSound
  <2>3. ListsSound'
    BY <1>3 DEF MatchesInv, ListsSound
  <2> QED BY <2>1, <2>2, <2>3 DEF ReadsSound
<1>8. \A r \in mlReads' : r \in mlReads \/ r.answer = Unanswered
  BY <1>1, <1>5, <1>6
<1>9. CASE Awaits(mlRefresh, mlDeferred) /\ MlFetching
  BY <1>3, <1>9, <1>1, RefreshEnds, <1>5, <1>6, RefreshFails, <1>7
  DEF Awaits, MatchesInv, ReadsAwaited, ReadsAsNewAs
<1>10. CASE ~(Awaits(mlRefresh, mlDeferred) /\ MlFetching)
  BY <1>3, <1>10, <1>1, <1>5, <1>6, <1>8, RefreshRests, <1>7
  DEF Awaits, MatchesInv, ReadsAwaited, RefreshSound, ReadsAsNewAs
<1> QED BY <1>9, <1>10

LEMMA ServingHolds ==
  ASSUME MatchesInv, LookedUpInv', ServeMatches
  PROVE  MatchesInv'
<1>1. PICK r \in mlReads :
        /\ r.answer = Unanswered
        /\ mlReads' = (mlReads \ {r})
             \cup {[r EXCEPT !.answer = MatchAnswer(r.search, mlServer, MlAge + 1)]}
  BY DEF ServeMatches
<1>2. UNCHANGED <<mlDeferred, mlServer, mlCache, mlRefresh>>
  BY DEF ServeMatches
<1>3. PICK age : age = MlAge + 1
  OBVIOUS
<1>4. age \in Nat
  BY <1>3, AgeCounts
<1>5. PICK a : a = MatchAnswer(r.search, mlServer, age)
  OBVIOUS
<1>6. AnswersFor(a, r.search) /\ a.age = age
  <2>1. PICK server : server = mlServer
    OBVIOUS
  <2> QED BY <1>4, <1>5, <2>1, MatchAnswered
<1>7. r = [search |-> r.search, answer |-> r.answer]
  BY DEF MatchesInv, ReadsSound
<1>8. PICK served : served = [search |-> r.search, answer |-> a]
  OBVIOUS
<1>9. mlReads' = (mlReads \ {r}) \cup {served}
  <2>1. [r EXCEPT !.answer = a] = served
    BY <1>7, <1>8
  <2> QED BY <1>1, <1>3, <1>5, <2>1, Zenon
<1>10. ReadsSound' /\ ListsSound'
  BY <1>6, <1>8, <1>9, <1>2 DEF MatchesInv, ReadsSound, ListsSound
<1>11. ReadsAwaited'
  BY <1>2, <1>8, <1>9 DEF MatchesInv, ReadsAwaited
<1>12. RefreshPending /\ mlRefresh.origin.cursor # FirstPage =>
         ReadsAsNewAs(mlRefresh.read, mlRefresh.age)'
  <2> SUFFICES ASSUME RefreshPending, mlRefresh.origin.cursor # FirstPage,
                      NEW q \in mlReads', q.search = mlRefresh.read, q.answer # Unanswered
               PROVE  q.answer.age >= mlRefresh.age
    BY <1>2 DEF ReadsAsNewAs
  <2>1. CASE q = served
    <3>1. mlRefresh.age <= age /\ mlRefresh.age \in Nat
      BY <1>3 DEF MatchesInv, RefreshSound, RefreshShaped
    <3> QED BY <1>4, <1>6, <1>8, <2>1, <3>1
  <2>2. CASE q # served
    BY <1>9, <2>2 DEF MatchesInv, RefreshSound, ReadsAsNewAs
  <2> QED BY <2>1, <2>2
<1>13. RefreshSound'
  BY <1>2, <1>12, RefreshRests
<1> QED BY <1>10, <1>11, <1>13 DEF MatchesInv

LEMMA ArrivingHolds ==
  ASSUME MatchesInv, LookedUpInv', MatchesArrive
  PROVE  MatchesInv'
<1>1. PICK r \in mlReads :
        /\ r.answer # Unanswered
        /\ mlReads' = mlReads \ {r}
        /\ mlCache' = {a \in mlCache : a.search # r.search} \cup {r.answer}
        /\ RefreshHears(r.search, "refreshed")
  BY DEF MatchesArrive
<1>2. UNCHANGED <<mlDeferred, mlServer>>
  BY DEF MatchesArrive
<1>3. AnswersFor(r.answer, r.search)
  BY <1>1 DEF MatchesInv, ReadsSound
<1>4. ReadsSound'
  BY <1>1 DEF MatchesInv, ReadsSound
<1>5. ListsSound'
  <2>1. AnswersFor(r.answer, r.answer.search)
    BY <1>3 DEF AnswersFor
  <2> QED BY <1>1, <2>1 DEF MatchesInv, ListsSound
<1>6. \A q \in mlReads' : q.search # r.search
  BY <1>1 DEF MatchesInv, ReadsSound
<1>7. MlAge' = MlAge
  BY <1>2 DEF MlAge
<1>8. CASE Awaits(mlRefresh, r.search)
  <2>1. mlRefresh.at = "sent" /\ mlRefresh.read = r.search
        /\ mlRefresh' = [mlRefresh EXCEPT !.at = "refreshed"]
    BY <1>1, <1>8 DEF RefreshHears, Awaits
  <2>2. /\ RefreshShaped(mlRefresh') /\ RefreshPending'
        /\ mlRefresh'.age = mlRefresh.age /\ mlRefresh'.read = mlRefresh.read
        /\ mlRefresh'.origin = mlRefresh.origin
    BY <2>1, RefreshEnds
  <2>3. ReadsAwaited'
    BY <1>1, <1>2, <1>6, <2>1 DEF MatchesInv, ReadsAwaited, Awaits
  <2>4. /\ mlRefresh.age <= MlAge + 1
        /\ mlRefresh.origin.cursor # FirstPage => ReadsAsNewAs(mlRefresh.read, mlRefresh.age)
    BY <2>1 DEF MatchesInv, RefreshSound, RefreshPending
  <2>5. ASSUME mlRefresh.origin.cursor # FirstPage
        PROVE  /\ ReadsAsNewAs(mlRefresh.read, mlRefresh.age)'
               /\ Cached(mlRefresh.read)' /\ AsNewAs(mlRefresh.read, mlRefresh.age)'
    BY <1>6, <2>1, <2>2, <1>1, <2>4, <2>5, <1>3 DEF ReadsAsNewAs, Cached, AnswersFor, AsNewAs
  <2>6. RefreshSound'
    BY <1>7, <2>2, <2>4, <2>5 DEF RefreshSound
  <2> QED BY <1>4, <1>5, <2>3, <2>6 DEF MatchesInv
<1>9. CASE ~Awaits(mlRefresh, r.search)
  <2>1. UNCHANGED mlRefresh
    BY <1>1, <1>9 DEF RefreshHears, Awaits
  <2>2. ReadsAwaited'
    BY <1>1, <1>2, <2>1 DEF MatchesInv, ReadsAwaited
  <2>3. ASSUME RefreshPending, mlRefresh.origin.cursor # FirstPage
        PROVE  /\ ReadsAsNewAs(mlRefresh.read, mlRefresh.age)'
               /\ mlRefresh.at = "refreshed" =>
                    Cached(mlRefresh.read)' /\ AsNewAs(mlRefresh.read, mlRefresh.age)'
    BY <2>3, <1>1, <2>1, <1>3
    DEF MatchesInv, RefreshSound, ReadsAsNewAs, Cached, AnswersFor, AsNewAs
  <2>4. RefreshPending' = RefreshPending
    BY <2>1 DEF RefreshPending
  <2>5. RefreshSound'
    BY <1>7, <2>1, <2>3, <2>4 DEF MatchesInv, RefreshSound
  <2> QED BY <1>4, <1>5, <2>2, <2>5 DEF MatchesInv
<1> QED BY <1>8, <1>9

LEMMA FailingHolds ==
  ASSUME MatchesInv, LookedUpInv', MatchesFail
  PROVE  MatchesInv'
BY RefreshEnds, RefreshFails, RefreshRests
DEF MatchesFail, MatchesInv, ReadsSound, ListsSound, RefreshHears, Awaits, ReadsAsNewAs,
    ReadsAwaited, RefreshSound

\* From a later page, nothing reads the first one yet: its read is the refresh's own.
LEMMA AskingHolds ==
  ASSUME MatchesInv, LookedUpInv', AskRefresh
  PROVE  MatchesInv'
<1>1. PICK chosen : chosen = Chosen
  OBVIOUS
<1>2. PICK read, age : read = [chosen EXCEPT !.cursor = FirstPage] /\ age = MlAge + 1
  OBVIOUS
<1>3. PICK asked : asked = PendingRead(read)
  OBVIOUS
<1>4. /\ mlRefresh' = [origin |-> chosen, at |-> "sent", read |-> read, age |-> age]
      /\ mlReads' = IF Reading(read) THEN mlReads ELSE mlReads \cup {asked}
      /\ UNCHANGED <<mlDeferred, mlServer, mlCache>>
  BY <1>1, <1>2, <1>3 DEF AskRefresh
<1>5. ~RefreshPending /\ mlDeferred = chosen
  BY <1>1 DEF AskRefresh, ListPending, MlChanging, MlSettling
<1>6. MatchShaped(chosen)
  BY <1>1, ChosenShaped DEF MatchesInv
<1>7. \A r \in mlReads : r.search = chosen
  <2>1. mlRefresh.at = "none"
    BY <1>5 DEF RefreshPending
  <2> QED BY <1>5, <2>1 DEF MatchesInv, ReadsAwaited, Awaits
<1>8. asked = [search |-> read, answer |-> Unanswered]
  BY <1>3 DEF PendingRead
<1>9. \A r \in mlReads' : r \in mlReads \/ (r = asked /\ ~Reading(read))
  BY <1>4
<1>10. ReadsSound' /\ ListsSound'
  <2>1. ASSUME NEW r \in mlReads'
        PROVE  /\ r = [search |-> r.search, answer |-> r.answer]
               /\ r.answer # Unanswered => AnswersFor(r.answer, r.search)
    BY <1>8, <1>9 DEF MatchesInv, ReadsSound
  <2>2. ASSUME NEW r \in mlReads', NEW q \in mlReads', r.search = q.search
        PROVE  r = q
    <3>1. asked.search = read
      BY <1>8
    <3> QED BY <1>9, <2>2, <3>1 DEF MatchesInv, ReadsSound, Reading
  <2>3. ListsSound'
    BY <1>4 DEF MatchesInv, ListsSound
  <2> QED BY <2>1, <2>2, <2>3 DEF ReadsSound
<1>11. ReadsAwaited'
  BY <1>4, <1>5, <1>7, <1>8, <1>9 DEF ReadsAwaited, Awaits
<1>12. RefreshShaped(mlRefresh') /\ mlRefresh'.age <= MlAge' + 1 /\ RefreshPending'
  <2>1. MlAge \in Nat /\ MlAge' = MlAge
    BY <1>4, AgeCounts DEF MlAge
  <2> QED BY <1>2, <1>4, <2>1 DEF RefreshShaped, RefreshPending
<1>13. mlRefresh'.origin.cursor # FirstPage => ReadsAsNewAs(mlRefresh.read, mlRefresh.age)'
  BY <1>4, <1>2, <1>6, <1>7, <1>8, <1>9 DEF ReadsAsNewAs, MatchShaped
<1>14. mlRefresh'.at = "sent"
  BY <1>4
<1>15. RefreshSound'
  BY <1>12, <1>13, <1>14 DEF RefreshSound
<1> QED BY <1>10, <1>11, <1>15 DEF MatchesInv

LEMMA EndingHolds ==
  ASSUME MatchesInv, LookedUpInv', EndRefresh
  PROVE  MatchesInv'
BY DEF EndRefresh, mlread, MatchesInv, ReadsSound, ListsSound, ReadsAwaited, Awaits, RefreshPending,
    MlNoRefresh, RefreshSound

LEMMA MatchesGoOn ==
  ASSUME MatchesInv, MlNext \/ UNCHANGED mlvars
  PROVE  MatchesInv'
<1>1. LookedUpInv'
  BY LookedUpGoesOn DEF MatchesInv
<1> QED BY <1>1, LookUpStepsHold, LeavingHolds, DeferringHolds, ServingHolds, ArrivingHolds,
           FailingHolds, AskingHolds, EndingHolds
        DEF MlNext, MlStep

LEMMA MatchesStart == MlInit => MatchesInv
BY LookedUpStarts
DEF MlInit, ReadsSound, ListsSound, ReadsAwaited, PendingRead, RefreshSound, RefreshPending,
    MlNoRefresh, MatchesInv

\* The rows on screen are the chosen search's.
LEMMA RowsAreOfTheChoice == MatchesInv => RowsAreChosen
BY DEF RowsAreChosen, MlChanging, MlSettling, Rows, MlAnswer, MlConfirmed, Cached, CacheOf,
    MatchesInv, ListsSound, AnswersFor

\* A refresh that ends leads to the first page of its own search, read since it was asked for.
LEMMA RefreshKept == MatchesInv => RefreshKeepsChoices
BY DEF RefreshKeepsChoices, EndRefresh, ResolveRefresh, ResolveAnyhow, MatchesInv, RefreshSound,
    RefreshPending, GoTo, RefreshShaped, Cached, CacheOf, AsNewAs
-----------------------------------------------------------------------------
(* The run's action properties: the two lists and the hub together.          *)

ReadInv == SearchesInv /\ EventsInv /\ HubInv /\ MatchesInv

LEMMA SearchSound == SearchesInv => SearchIsSound
BY CurrentAllowed

LEMMA ReadingStarts == Init => ReadInv
<1> SUFFICES ASSUME Init PROVE ReadInv
  OBVIOUS
<1>1. HeInit /\ HbInit /\ MlInit
  BY DEF Init
<1> QED BY <1>1, SearchesStart, EventsStart, HubStarts, MatchesStart DEF ReadInv

LEMMA ReadingGoesOn ==
  ASSUME ReadInv, [Next]_<<part, ocvars, owvars, ssvars, sdvars, hevars, hbvars, mlvars>>
  PROVE  ReadInv' /\ CorrectsItsOwnSearch
<1>1. /\ HeNext \/ UNCHANGED hevars
      /\ HbNext \/ UNCHANGED hbvars
      /\ MlNext \/ UNCHANGED mlvars
  BY Zenon DEF Next
<1>2. SearchesInv' /\ CorrectsItsOwnSearch
  BY <1>1, SearchesGoOn DEF ReadInv
<1>3. EventsInv' /\ HubInv' /\ MatchesInv'
  BY <1>1, EventsGoOn, HubStepHolds, MatchesGoOn DEF ReadInv
<1> QED BY <1>2, <1>3 DEF ReadInv

\* For any events, matches, traits, seasons, visits, choices and lost or late answers:
\* no order of choices, corrections, refreshes and renderings searches for what nobody
\* chose, or exports something else than is listed, or moves a user who went elsewhere
\* (useHeldEventListController, useMatchListController, useHeldEventCreation).
THEOREM ListsFollow == Spec => ListsFollowChoices
<1> DEFINE Rest == /\ SearchIsSound'
                   /\ CorrectsItsOwnSearch
                   /\ RefreshKeepsChoices
                   /\ ExportsWhatIsListed'
                   /\ MovedWhereMeant'
<1>1. Init => ReadInv
  BY ReadingStarts
<1>2. ReadInv /\ [Next]_<<part, ocvars, owvars, ssvars, sdvars, hevars, hbvars, mlvars>>
        => ReadInv' /\ [Rest]_<<ocvars, owvars, ssvars, sdvars, hevars, hbvars, mlvars>>
  <2> SUFFICES ASSUME ReadInv,
                      [Next]_<<part, ocvars, owvars, ssvars, sdvars, hevars, hbvars, mlvars>>
               PROVE  ReadInv' /\ Rest
    OBVIOUS
  <2>1. ReadInv'
    BY ReadingGoesOn
  <2>2. CorrectsItsOwnSearch
    BY ReadingGoesOn
  <2>3. SearchIsSound'
    BY <2>1, SearchSound, PTL DEF ReadInv
  <2>4. RefreshKeepsChoices
    BY RefreshKept DEF ReadInv
  <2>5. ExportsWhatIsListed'
    BY <2>1, ExportIsListed, PTL DEF ReadInv, MatchesInv
  <2>6. MovedWhereMeant'
    BY <2>1 DEF ReadInv, HubInv
  <2> QED BY <2>1, <2>2, <2>3, <2>4, <2>5, <2>6
<1> HIDE DEF Rest
<1>3. Spec => [][Rest]_<<ocvars, owvars, ssvars, sdvars, hevars, hbvars, mlvars>>
  BY <1>1, <1>2, PTL DEF Spec
<1> QED BY <1>3 DEF Rest, ListsFollowChoices

\* For any events, matches, visits, choices and lost or late answers: a deletion begins
\* at a row of the search wanted and, when the last refresh of it failed, only while it
\* is read again; an event whose deletion was reported is not shown while the list says
\* nothing of its rows, unless a deletion was answered during a first read (heCrossed);
\* rows of matches that can be acted on are the chosen search's; and the notice of a
\* failed refresh is the hub's own, while the list's may stay when another search is
\* shown (HeldEventsTable, MatchListTable, HeldEventDetailPage).
THEOREM ListedCurrent == Spec => ListedIsCurrent
<1> DEFINE Rest == /\ DeletesWhatIsListed
                   /\ ReportedIsGone'
                   /\ RowsAreChosen'
                   /\ NoticeIsOwn'
<1>1. Init => ReadInv
  BY ReadingStarts
<1>2. ReadInv /\ [Next]_<<part, ocvars, owvars, ssvars, sdvars, hevars, hbvars, mlvars>>
        => ReadInv' /\ [Rest]_<<ocvars, owvars, ssvars, sdvars, hevars, hbvars, mlvars>>
  <2> SUFFICES ASSUME ReadInv,
                      [Next]_<<part, ocvars, owvars, ssvars, sdvars, hevars, hbvars, mlvars>>
               PROVE  ReadInv' /\ Rest
    OBVIOUS
  <2>1. ReadInv'
    BY ReadingGoesOn
  <2>2. ReportedIsGone'
    BY <2>1, ReportedAreGone, PTL DEF ReadInv
  <2>3. RowsAreChosen'
    BY <2>1, RowsAreOfTheChoice, PTL DEF ReadInv
  <2>4. NoticeIsOwn'
    BY <2>1, HubKeepsItsNotice, PTL DEF ReadInv
  <2> QED BY <2>1, <2>2, <2>3, <2>4, DeletionIsListed
<1> HIDE DEF Rest
<1>3. Spec => [][Rest]_<<ocvars, owvars, ssvars, sdvars, hevars, hbvars, mlvars>>
  BY <1>1, <1>2, PTL DEF Spec
<1> QED BY <1>3 DEF Rest, ListedIsCurrent
==============================================================================
