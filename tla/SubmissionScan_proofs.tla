------------------------ MODULE SubmissionScan_proofs ------------------------
(* No hint is lost inside the Worker, for any number of submissions, pages   *)
(* of any size and any faults.                                               *)
EXTENDS SubmissionScan, TLAPS

USE SizesAssumption

Cursors == [after : 0..Last, upper : 0..Last, pending : SUBSET Ids, last : BOOLEAN]
Rechecks == [next : {"unlisted", "never", "later", "now", "started"},
             attempts : 0..Delays]
RowState == {"absent", "waiting", "ready", "closed"}
----------------------------------------------------------------------------
(* The pieces the actions share.                                             *)

LEMMA NewCursorTyped == NewCursor \in Cursors
  BY DEF NewCursor, Cursors

LEMMA CursorUpdated ==
    ASSUME NEW c \in Cursors, NEW n \in 0..Last, NEW ids \in SUBSET Ids, NEW b \in BOOLEAN
    PROVE  /\ [c EXCEPT !.upper = n] \in Cursors
           /\ [c EXCEPT !.last = b] \in Cursors
           /\ [c EXCEPT !.pending = ids, !.last = b] \in Cursors
           /\ [c EXCEPT !.pending = ids, !.after = n] \in Cursors
  BY DEF Cursors

LEMMA PageReadTyped ==
    ASSUME NEW walk \in Cursors, NEW c \in PageRead(walk)
    PROVE  c \in Cursors
<1>1. PICK page \in SUBSET Ids :
          c = [walk EXCEPT !.pending = page, !.last = Cardinality(page) < PageSize]
  BY DEF PageRead, Open
<1>2. (Cardinality(page) < PageSize) \in BOOLEAN
  OBVIOUS
<1>3. 0 \in 0..Last
  OBVIOUS
<1> QED
  BY <1>1, <1>2, <1>3, CursorUpdated, Zenon

LEMMA HighestIsOpen == \A s \in HighestOpen : s \in Open /\ s \in 1..Last
  BY DEF HighestOpen, Open, Ids

LEMMA PopTyped ==
    ASSUME NEW s, cursor \in Cursors, Pop(s)
    PROVE  s \in Ids /\ cursor' \in Cursors
<1>1. s \in Ids /\ cursor.pending \ {s} \in SUBSET Ids
  BY DEF Pop, Cursors
<1>2. s \in 0..Last
  BY <1>1 DEF Ids
<1>3. cursor' = [cursor EXCEPT !.pending = cursor.pending \ {s}, !.after = s]
  BY DEF Pop
<1> QED
  BY <1>1, <1>2, <1>3, CursorUpdated

LEMMA SettlesTyped ==
    ASSUME TypeOK, NEW s \in Ids, Settles(s)
    PROVE  row' \in [Ids -> RowState] /\ sent' \subseteq Ids /\ owed' \subseteq Ids
  BY DEF Settles, TypeOK, RowState

LEMMA RetainedTyped ==
    ASSUME TypeOK, NEW fits
    PROVE  Retained(fits) \in [Ids -> Rechecks]
  BY DEF Retained, TypeOK, Rechecks, NotListed, Listed

THEOREM TypeInit == Init => TypeOK
<1> SUFFICES ASSUME Init PROVE TypeOK
  OBVIOUS
<1>1. cursor \in Cursors
  <2>1. CASE Open = {}
    <3>1. cursor = [NewCursor EXCEPT !.last = TRUE]
      BY <2>1 DEF Init
    <3>2. TRUE \in BOOLEAN /\ 0 \in 0..Last /\ {} \in SUBSET Ids
      OBVIOUS
    <3> QED
      BY <3>1, <3>2, NewCursorTyped, CursorUpdated, Zenon
  <2>2. CASE Open # {}
    <3>1. PICK s \in HighestOpen : cursor \in PageRead([NewCursor EXCEPT !.upper = s])
      BY <2>2 DEF Init
    <3>2. s \in 0..Last /\ {} \in SUBSET Ids /\ TRUE \in BOOLEAN
      BY HighestIsOpen
    <3>3. [NewCursor EXCEPT !.upper = s] \in Cursors
      BY <3>2, NewCursorTyped, CursorUpdated, Zenon
    <3> QED
      BY <3>1, <3>3, PageReadTyped
  <2> QED
    BY <2>1, <2>2
<1>2. recheck \in [Ids -> Rechecks]
  BY DEF Init, NotListed, Rechecks
<1>3. budget \in 0..Starts /\ faults \in 0..MaxFaults
  BY DEF Init
<1> QED
  BY <1>1, <1>2, <1>3 DEF Init, TypeOK, Cursors, Rechecks
----------------------------------------------------------------------------
(* Types.                                                                    *)

USE DEF world, route, scan, spare

LEMMA TypeCursor == TypeOK => cursor \in Cursors /\ recheck \in [Ids -> Rechecks]
  BY DEF TypeOK, Cursors, Rechecks

LEMMA SettleNextTyped == TypeOK /\ SettleNext => TypeOK'
<1> SUFFICES ASSUME TypeOK, SettleNext PROVE TypeOK'
  OBVIOUS
<1>1. PICK s \in Ids :
         /\ Pop(s)
         /\ \/ Settles(s) /\ UNCHANGED <<dirty, busy, faults>>
            \/ /\ IsBusy(s)
               /\ busy' = IF Cardinality(busy) < MaxBusy THEN busy \cup {s} ELSE busy
  BY DEF SettleNext
<1>2. cursor' \in Cursors
  BY <1>1, TypeCursor, PopTyped
<1>3. /\ row' \in [Ids -> RowState] /\ sent' \subseteq Ids /\ owed' \subseteq Ids
      /\ busy' \subseteq Ids /\ faults' \in 0..MaxFaults /\ dirty' = dirty
  <2>1. CASE Settles(s) /\ UNCHANGED <<dirty, busy, faults>>
    BY <2>1, SettlesTyped DEF TypeOK
  <2>2. CASE /\ IsBusy(s)
             /\ busy' = IF Cardinality(busy) < MaxBusy THEN busy \cup {s} ELSE busy
    BY <2>2 DEF TypeOK, IsBusy, RowState
  <2> QED
    BY <1>1, <2>1, <2>2
<1>4. /\ at' \in {"settle", "parked"} /\ scanAt' \in {scanAt, "soon"}
      /\ UNCHANGED <<link, requested, recheck, budget>>
  BY DEF SettleNext, Park
<1> QED
  BY <1>2, <1>3, <1>4 DEF TypeOK, Cursors, RowState

LEMMA RecheckTyped == TypeOK /\ Recheck => TypeOK'
<1> SUFFICES ASSUME TypeOK, Recheck PROVE TypeOK'
  OBVIOUS
<1>1. PICK s \in Ids :
         \/ /\ Settles(s)
            /\ recheck' = [recheck EXCEPT ![s] = NotListed]
            /\ UNCHANGED <<dirty, faults>>
         \/ /\ IsBusy(s)
            /\ \E next \in {"later", "never"} :
                  recheck' = [recheck EXCEPT ![s].next = next]
  BY DEF Recheck
<1>2. /\ row' \in [Ids -> RowState] /\ sent' \subseteq Ids /\ owed' \subseteq Ids
      /\ faults' \in 0..MaxFaults /\ dirty' = dirty /\ recheck' \in [Ids -> Rechecks]
  <2>1. CASE /\ Settles(s)
             /\ recheck' = [recheck EXCEPT ![s] = NotListed]
             /\ UNCHANGED <<dirty, faults>>
    <3>1. NotListed \in Rechecks
      BY DEF NotListed, Rechecks
    <3> QED
      BY <2>1, <3>1, SettlesTyped, TypeCursor DEF TypeOK
  <2>2. CASE /\ IsBusy(s)
             /\ \E next \in {"later", "never"} :
                   recheck' = [recheck EXCEPT ![s].next = next]
    <3>1. recheck' \in [Ids -> Rechecks]
      BY <2>2, TypeCursor DEF Rechecks
    <3> QED
      BY <2>2, <3>1 DEF TypeOK, IsBusy, RowState
  <2> QED
    BY <1>1, <2>1, <2>2
<1>3. at' = "parked" /\ UNCHANGED <<link, cursor, requested, scanAt, busy, budget>>
  BY DEF Recheck, Park
<1> QED
  BY <1>2, <1>3 DEF TypeOK, Rechecks, RowState

LEMMA FailTyped == TypeOK /\ Fail => TypeOK'
<1> SUFFICES ASSUME TypeOK, Fail PROVE TypeOK'
  OBVIOUS
<1>1. \A s \in Ids : Unknown(s) =>
         /\ row' \in [Ids -> RowState] /\ sent' \subseteq Ids /\ owed' \subseteq Ids
         /\ dirty' = dirty
  BY SettlesTyped DEF Unknown, TypeOK, RowState
<1>2. /\ row' \in [Ids -> RowState] /\ sent' \subseteq Ids /\ owed' \subseteq Ids
      /\ dirty' = dirty /\ cursor' \in Cursors /\ recheck' \in [Ids -> Rechecks]
  <2>1. CASE UNCHANGED <<world, route, cursor, recheck>>
    BY <2>1, TypeCursor DEF TypeOK, RowState
  <2>2. CASE (\E s \in Ids : Pop(s) /\ Unknown(s)) /\ UNCHANGED recheck
    BY <2>2, <1>1, TypeCursor, PopTyped
  <2>3. CASE /\ \E s \in Ids : /\ Unknown(s)
                               /\ recheck' = [recheck EXCEPT ![s].next = "now"]
             /\ UNCHANGED cursor
    <3>1. PICK s \in Ids : Unknown(s) /\ recheck' = [recheck EXCEPT ![s].next = "now"]
      BY <2>3
    <3>2. recheck' \in [Ids -> Rechecks]
      BY <3>1, TypeCursor DEF Rechecks
    <3> QED
      BY <1>1, <2>3, <3>1, <3>2, TypeCursor
  <2> QED
    BY <2>1, <2>2, <2>3 DEF Fail
<1>3. /\ at' = "parked" /\ link' = "waiting" /\ faults' \in 0..MaxFaults
      /\ UNCHANGED <<requested, scanAt, busy, budget>>
  BY DEF Fail, Park, TypeOK
<1> QED
  BY <1>2, <1>3 DEF TypeOK, Cursors, Rechecks, RowState

LEMMA AdvanceTyped == TypeOK /\ Advance => TypeOK'
<1> SUFFICES ASSUME TypeOK, Advance PROVE TypeOK'
  OBVIOUS
<1>1. /\ requested' \in BOOLEAN /\ busy' \subseteq Ids
      /\ at' \in {"parked", "recheck", "settle", "upper", "page"}
      /\ budget' \in 0..Starts /\ recheck' \in [Ids -> Rechecks]
  <2>1. CASE scanAt = "now"
    BY <2>1, TypeCursor DEF Advance, TypeOK
  <2>2. CASE scanAt # "now" /\ ~RetryDue
    BY <2>2, TypeCursor DEF Advance, TypeOK, Park
  <2>3. CASE scanAt # "now" /\ RetryDue
    <3>1. PICK s \in Ids :
             \/ /\ recheck[s].attempts < Delays
                /\ at' = "recheck"
                /\ recheck' = [recheck EXCEPT ![s].next = "started",
                                              ![s].attempts = @ + 1]
                /\ budget' = budget - 1
             \/ /\ at' = "parked"
                /\ recheck' = [recheck EXCEPT ![s].next = "never"]
                /\ UNCHANGED budget
      BY <2>3 DEF Advance, Park
    <3>2. budget' \in 0..Starts
      BY <2>3, <3>1 DEF RetryDue, TypeOK
    <3>3. recheck' \in [Ids -> Rechecks]
      BY <3>1, TypeCursor DEF Rechecks
    <3> QED
      BY <2>3, <3>1, <3>2, <3>3 DEF Advance, TypeOK
  <2> QED
    BY <2>1, <2>2, <2>3
<1> QED
  BY <1>1 DEF Advance, TypeOK, Rechecks

THEOREM TypeStep == TypeOK /\ [Next]_vars => TypeOK'
<1> SUFFICES ASSUME TypeOK, [Next]_vars PROVE TypeOK'
  OBVIOUS
<1>1. ASSUME NEW s \in Ids, NEW to \in {"waiting", "ready", "closed"},
             NEW hinted \in BOOLEAN, Change(s, to, hinted)
      PROVE  TypeOK'
  BY <1>1 DEF Change, TypeOK
<1>2. CASE Hint
  BY <1>2 DEF Hint, TypeOK
<1>3. CASE ListenerLost
  BY <1>3 DEF ListenerLost, TypeOK
<1>4. CASE Start
  BY <1>4 DEF Start, RequestScan, TypeOK
<1>5. CASE Connect
  BY <1>5 DEF Connect, TypeOK
<1>6. CASE Advance
  BY <1>6, AdvanceTyped
<1>7. CASE ReadUpper
  <2>1. cursor' \in Cursors
    <3>1. TRUE \in BOOLEAN /\ {} \in SUBSET Ids /\ 0 \in 0..Last
      OBVIOUS
    <3>2. CASE cursor' = [cursor EXCEPT !.last = TRUE]
      BY <3>1, <3>2, TypeCursor, CursorUpdated, Zenon
    <3>3. ASSUME NEW s \in HighestOpen, cursor' = [cursor EXCEPT !.upper = s]
          PROVE  cursor' \in Cursors
      <4>1. s \in 0..Last
        BY HighestIsOpen
      <4> QED
        BY <3>1, <3>3, <4>1, TypeCursor, CursorUpdated, Zenon
    <3> QED
      BY <1>7, <3>2, <3>3 DEF ReadUpper
  <2> QED
    BY <1>7, <2>1 DEF ReadUpper, TypeOK, Cursors
<1>8. CASE ReadPage
  <2>1. cursor' \in Cursors
    BY <1>8, TypeCursor, PageReadTyped DEF ReadPage
  <2> QED
    BY <1>8, <2>1 DEF ReadPage, TypeOK, Cursors
<1>9. CASE SettleNext
  BY <1>9, SettleNextTyped
<1>10. CASE EndPage
  <2>1. cursor' \in Cursors
    BY <1>10, TypeCursor, NewCursorTyped DEF EndPage
  <2> QED
    BY <1>10, <2>1 DEF EndPage, Park, TypeOK, Cursors
<1>11. CASE Schedule
  <2>1. recheck' \in [Ids -> Rechecks]
    BY <1>11, RetainedTyped DEF Schedule
  <2> QED
    BY <1>11, <2>1 DEF Schedule, ScheduledAt, Park, TypeOK, Rechecks
<1>12. CASE Recheck
  BY <1>12, RecheckTyped
<1>13. CASE Fail
  BY <1>13, FailTyped
<1>14. CASE ReconnectTimer
  BY <1>14 DEF ReconnectTimer, TypeOK
<1>15. CASE ContinuationTimer \/ SafetyTimer
  BY <1>15 DEF ContinuationTimer, SafetyTimer, TypeOK
<1>16. CASE BudgetPeriod
  BY <1>16 DEF BudgetPeriod, TypeOK
<1>17. ASSUME NEW s \in Ids, RecheckTimer(s) PROVE TypeOK'
  <2>1. recheck' \in [Ids -> Rechecks]
    BY <1>17, TypeCursor DEF RecheckTimer, Rechecks
  <2> QED
    BY <1>17, <2>1 DEF RecheckTimer, TypeOK, Rechecks
<1>18. CASE UNCHANGED vars
  BY <1>18 DEF vars, TypeOK
<1> QED
  BY <1>1, <1>2, <1>3, <1>4, <1>5, <1>6, <1>7, <1>8, <1>9, <1>10, <1>11, <1>12,
     <1>13, <1>14, <1>15, <1>16, <1>17, <1>18
     DEF Next, Others, Step, Timers

(* Every variable keeps its type.                                            *)
THEOREM TypeCorrect == Spec => []TypeOK
  BY TypeInit, TypeStep, PTL DEF Spec
----------------------------------------------------------------------------
(* Hints.                                                                    *)

(* What a hint stands for is there to settle, and a walk has a bound exactly *)
(* while it is under way.                                                    *)
Shape == /\ \A s \in owed \cup sent : row[s] = "ready"
         /\ cursor.upper = 0 => cursor.after = 0 /\ cursor.pending = {}
         /\ at \in {"upper", "deadline"} => cursor.upper = 0
         /\ at = "page" => cursor.upper # 0 /\ cursor.pending = {}

LEMMA ShapeInit == Init => Shape
<1> SUFFICES ASSUME Init PROVE Shape
  OBVIOUS
<1>1. cursor.upper = 0 => cursor.after = 0 /\ cursor.pending = {}
  <2>1. CASE Open = {}
    BY <2>1 DEF Init, NewCursor
  <2>2. CASE Open # {}
    <3>1. PICK s \in HighestOpen : cursor \in PageRead([NewCursor EXCEPT !.upper = s])
      BY <2>2 DEF Init
    <3>2. PICK page, b : cursor = [[NewCursor EXCEPT !.upper = s]
                                       EXCEPT !.pending = page, !.last = b]
      BY <3>1 DEF PageRead
    <3>3. cursor.upper = s
      BY <3>2 DEF NewCursor
    <3> QED
      BY <3>3, HighestIsOpen
  <2> QED
    BY <2>1, <2>2
<1> QED
  BY <1>1 DEF Init, Shape

(* A pop happens inside a walk, and settling a row takes it out of the hints *)
LEMMA PopInWalk ==
    ASSUME TypeOK, Shape, NEW s \in Ids, Pop(s)
    PROVE  /\ cursor.upper # 0 /\ cursor'.upper = cursor.upper
           /\ cursor'.last = cursor.last /\ cursor'.after = s
           /\ cursor'.pending = cursor.pending \ {s} /\ s \in cursor.pending
           /\ \A t \in cursor.pending : s <= t
  BY TypeCursor DEF Pop, Shape, Cursors

LEMMA TriedIsReady ==
    ASSUME TypeOK, Shape, NEW s \in Ids,
           \/ Settles(s)
           \/ UNCHANGED world /\ owed' = owed \ {s}
    PROVE  /\ owed' = owed \ {s} /\ \A t \in owed' \cup sent' : row'[t] = "ready"
<1>1. CASE Settles(s)
  BY <1>1 DEF Settles, TypeOK, Shape
<1>2. CASE UNCHANGED world /\ owed' = owed \ {s}
  BY <1>2 DEF Shape
<1> QED
  BY <1>1, <1>2

LEMMA PageReadKeeps ==
    ASSUME cursor \in Cursors, cursor' \in PageRead(cursor)
    PROVE  cursor'.upper = cursor.upper /\ cursor'.after = cursor.after
  BY DEF PageRead, Cursors

LEMMA ShapeStep == TypeOK /\ Shape /\ [Next]_vars => Shape'
<1> SUFFICES ASSUME TypeOK, Shape, [Next]_vars PROVE Shape'
  OBVIOUS
<1>1. ASSUME NEW s \in Ids, NEW to \in {"waiting", "ready", "closed"},
             NEW hinted \in BOOLEAN, Change(s, to, hinted)
      PROVE  Shape'
  BY <1>1 DEF Change, Shape, TypeOK
<1>2. CASE Hint
  BY <1>2 DEF Hint, Shape
<1>3. CASE ListenerLost
  BY <1>3 DEF ListenerLost, Shape
<1>4. CASE Start
  BY <1>4 DEF Start, Shape
<1>5. CASE Connect
  BY <1>5 DEF Connect, Shape
<1>6. CASE Advance
  BY <1>6 DEF Advance, Park, Shape
<1>7. CASE ReadUpper
  <2>1. CASE cursor' = [cursor EXCEPT !.last = TRUE] /\ at' = "settle"
    BY <1>7, <2>1, TypeCursor DEF ReadUpper, Shape, Cursors
  <2>2. ASSUME NEW s \in HighestOpen, cursor' = [cursor EXCEPT !.upper = s], at' = "page"
        PROVE  Shape'
    <3>1. cursor'.upper = s /\ s # 0 /\ cursor'.pending = {}
      BY <1>7, <2>2, HighestIsOpen, TypeCursor DEF ReadUpper, Shape, Cursors
    <3> QED
      BY <1>7, <2>2, <3>1 DEF ReadUpper, Shape
  <2> QED
    BY <1>7, <2>1, <2>2 DEF ReadUpper
<1>8. CASE ReadPage
  BY <1>8, TypeCursor, PageReadKeeps DEF ReadPage, Shape
<1>9. CASE SettleNext
  <2>1. PICK s \in Ids : Pop(s) /\ (Settles(s) \/ IsBusy(s))
    BY <1>9 DEF SettleNext
  <2>2. \A t \in owed' \cup sent' : row'[t] = "ready"
    BY <2>1, TriedIsReady DEF IsBusy
  <2>3. cursor'.upper # 0
    BY <2>1, PopInWalk
  <2>4. at' \in {"settle", "parked"}
    BY <1>9 DEF SettleNext, Park
  <2> QED
    BY <2>2, <2>3, <2>4 DEF Shape
<1>10. CASE EndPage
  BY <1>10 DEF EndPage, NewCursor, Park, Shape
<1>11. CASE Schedule
  BY <1>11 DEF Schedule, Park, Shape
<1>12. CASE Recheck
  <2>1. PICK s \in Ids : Settles(s) \/ IsBusy(s)
    BY <1>12 DEF Recheck
  <2>2. \A t \in owed' \cup sent' : row'[t] = "ready"
    BY <2>1, TriedIsReady DEF IsBusy
  <2> QED
    BY <1>12, <2>2 DEF Recheck, Park, Shape
<1>13. CASE Fail
  <2>1. CASE UNCHANGED <<world, route, cursor>>
    BY <1>13, <2>1 DEF Fail, Park, Shape
  <2>2. ASSUME NEW s \in Ids, Pop(s), Unknown(s)
        PROVE  Shape'
    BY <1>13, <2>2, PopInWalk, TriedIsReady DEF Unknown, Fail, Park, Shape
  <2>3. ASSUME NEW s \in Ids, Unknown(s), UNCHANGED cursor
        PROVE  Shape'
    BY <1>13, <2>3, TriedIsReady DEF Unknown, Fail, Park, Shape
  <2> QED
    BY <1>13, <2>1, <2>2, <2>3 DEF Fail
<1>14. CASE Timers \/ SafetyTimer \/ BudgetPeriod
  BY <1>14 DEF Timers, ReconnectTimer, ContinuationTimer, SafetyTimer, BudgetPeriod, Shape
<1>15. ASSUME NEW s \in Ids, RecheckTimer(s) PROVE Shape'
  BY <1>15 DEF RecheckTimer, Shape
<1>16. CASE UNCHANGED vars
  BY <1>16 DEF vars, Shape
<1> QED
  BY <1>1, <1>2, <1>3, <1>4, <1>5, <1>6, <1>7, <1>8, <1>9, <1>10, <1>11, <1>12,
     <1>13, <1>14, <1>15, <1>16
     DEF Next, Others, Step

(* The walk goes on: nothing it has ahead is lost while its cursor stands.   *)
LEMMA AheadStays ==
    ASSUME NEW s, Ahead(s), UNCHANGED cursor,
           at' = "settle" => cursor.pending # {} \/ at = "settle",
           \/ cursor.upper # 0
           \/ scanAt' = "now" /\ at' \in {"parked", "advance", "upper"}
    PROVE  Ahead(s)' \/ cursor.upper = 0
  BY DEF Ahead

(* Only the id that is tried leaves the walk.                                *)
LEMMA AheadOfPop ==
    ASSUME TypeOK, Shape, NEW s \in Ids, NEW p \in Ids, Pop(p), s # p, Ahead(s),
           at = "settle"
    PROVE  Ahead(s)'
<1>1. /\ cursor.upper # 0 /\ cursor'.upper = cursor.upper
      /\ cursor'.last = cursor.last /\ cursor'.after = p
      /\ cursor'.pending = cursor.pending \ {p} /\ p \in cursor.pending
  BY PopInWalk
<1>2. CASE s \in cursor.pending
  BY <1>1, <1>2 DEF Ahead
<1>3. CASE s \notin cursor.pending
  BY <1>1, <1>3 DEF Ahead
<1> QED
  BY <1>2, <1>3

(* A page holds the first ids that are left, and all of them when it is the  *)
(* last one.                                                                 *)
LEMMA AheadOfPage ==
    ASSUME TypeOK, Shape, ReadPage, NEW s \in Ids, row[s] = "ready", Ahead(s)
    PROVE  Ahead(s)'
<1>1. /\ cursor.upper # 0 /\ cursor.pending = {}
      /\ cursor.after < s /\ s <= cursor.upper
  BY DEF ReadPage, Shape, Ahead
<1> DEFINE left == {t \in Open : cursor.after < t /\ t <= cursor.upper}
<1>2. PICK page \in SUBSET left :
          /\ IsPage(page, left)
          /\ cursor' = [cursor EXCEPT !.pending = page,
                                      !.last = Cardinality(page) < PageSize]
  BY DEF ReadPage, PageRead
<1>3. s \in left
  BY <1>1 DEF Open
<1>4. /\ cursor'.pending = page /\ cursor'.upper = cursor.upper
      /\ cursor'.after = cursor.after
      /\ Cardinality(page) = PageSize => ~cursor'.last
  <2> DEFINE short == Cardinality(page) < PageSize
  <2>1. cursor' = [cursor EXCEPT !.pending = page, !.last = short]
    BY <1>2
  <2>2. short \in BOOLEAN
    OBVIOUS
  <2>3. Cardinality(page) = PageSize => ~short
    BY SizesAssumption
  <2> HIDE DEF short
  <2>4. /\ cursor'.pending = page /\ cursor'.upper = cursor.upper
        /\ cursor'.after = cursor.after /\ cursor'.last = short
    BY <2>1, <2>2, TypeCursor DEF Cursors
  <2> QED
    BY <2>3, <2>4
<1>5. CASE s \in page
  BY <1>4, <1>5 DEF Ahead
<1>6. CASE s \notin page
  <2>1. Cardinality(page) = PageSize /\ \A t \in page : t < s
    BY <1>2, <1>3, <1>6 DEF IsPage
  <2> QED
    BY <1>1, <1>4, <2>1 DEF Ahead
<1> QED
  BY <1>5, <1>6

LEMMA RememberStep ==
    TypeOK /\ Shape /\ HintIsRemembered /\ [Next]_vars => HintIsRemembered'
<1> SUFFICES ASSUME TypeOK, Shape, HintIsRemembered, [Next]_vars,
                    NEW s \in owed'
             PROVE  dirty' \/ requested' \/ Ahead(s)'
  BY DEF HintIsRemembered
<1>0. s \in Ids /\ (s \in owed => row[s] = "ready" /\ (dirty \/ requested \/ Ahead(s)))
  <2>1. s \in Ids
    BY TypeStep DEF TypeOK
  <2> QED
    BY <2>1 DEF Shape, HintIsRemembered
<1>1. ASSUME NEW t \in Ids, NEW to \in {"waiting", "ready", "closed"},
             NEW hinted \in BOOLEAN, Change(t, to, hinted)
      PROVE  dirty' \/ requested' \/ Ahead(s)'
  BY <1>0, <1>1 DEF Change, Ahead
<1>2. CASE Hint
  BY <1>2 DEF Hint
<1>3. CASE ListenerLost
  BY <1>0, <1>3 DEF ListenerLost, Ahead
<1>4. CASE Start
  BY <1>0, <1>4 DEF Start, RequestScan, Ahead
<1>5. CASE Connect
  BY <1>0, <1>5 DEF Connect, Ahead
<1>6. CASE Advance
  <2>1. CASE scanAt # "now"
    BY <1>0, <1>6, <2>1 DEF Advance, Park, RetryDue, Ahead
  <2>2. CASE scanAt = "now" /\ cursor.upper = 0
    BY <1>6, <2>2 DEF Advance, Shape, Ahead
  <2>3. CASE scanAt = "now" /\ cursor.upper # 0
    BY <1>0, <1>6, <2>3 DEF Advance, Ahead
  <2> QED
    BY <2>1, <2>2, <2>3
<1>7. CASE ReadUpper
  <2>0. /\ s \in owed /\ cursor.upper = 0 /\ cursor.after = 0 /\ cursor.pending = {}
        /\ UNCHANGED <<dirty, requested>>
    BY <1>7 DEF ReadUpper, Shape
  <2>1. s \in Open /\ s > 0
    BY <1>0, <2>0 DEF Open, Ids
  <2>2. PICK u \in HighestOpen : cursor' = [cursor EXCEPT !.upper = u] /\ at' = "page"
    BY <1>7, <2>1 DEF ReadUpper
  <2>3. /\ cursor'.upper = u /\ cursor'.after = 0 /\ cursor'.pending = {}
        /\ u # 0 /\ s <= u
    BY <2>0, <2>1, <2>2, HighestIsOpen, TypeCursor DEF Cursors, HighestOpen
  <2> QED
    BY <2>1, <2>2, <2>3 DEF Ahead
<1>8. CASE ReadPage
  BY <1>0, <1>8, AheadOfPage DEF ReadPage
<1>9. CASE SettleNext
  <2>1. PICK p \in Ids : Pop(p) /\ (Settles(p) \/ IsBusy(p)) /\ UNCHANGED dirty
    BY <1>9 DEF SettleNext, IsBusy
  <2>2. s \in owed /\ s # p
    BY <2>1 DEF Settles, IsBusy
  <2> QED
    BY <1>0, <1>9, <2>1, <2>2, AheadOfPop DEF SettleNext
<1>10. CASE EndPage
  <2>1. CASE cursor.last
    BY <1>0, <1>10, <2>1 DEF EndPage, Ahead
  <2>2. CASE ~cursor.last
    BY <1>0, <1>10, <2>2 DEF EndPage, Park, Ahead
  <2> QED
    BY <2>1, <2>2
<1>11. CASE Schedule
  BY <1>0, <1>11 DEF Schedule, Shape, Ahead
<1>12. CASE Recheck
  <2>1. s \in owed /\ UNCHANGED <<dirty, requested>>
    BY <1>12 DEF Recheck, Settles, IsBusy
  <2> QED
    BY <1>0, <1>12, <2>1 DEF Recheck, Park, Ahead
<1>13. CASE Fail
  <2>1. s \in owed /\ UNCHANGED <<dirty, requested, scanAt>> /\ at' = "parked"
    BY <1>13 DEF Fail, Park, Unknown, Settles
  <2>2. CASE at # "settle" /\ UNCHANGED cursor
    BY <1>0, <1>13, <2>1, <2>2 DEF Fail, Shape, Ahead
  <2>3. ASSUME at = "settle", NEW p \in Ids, Pop(p), Unknown(p)
        PROVE  dirty' \/ requested' \/ Ahead(s)'
    <3>1. s # p
      BY <2>3 DEF Unknown, Settles
    <3> QED
      BY <1>0, <2>1, <2>3, <3>1, AheadOfPop
  <2> QED
    BY <1>13, <2>2, <2>3 DEF Fail
<1>14. CASE Timers \/ SafetyTimer \/ BudgetPeriod
  BY <1>0, <1>14 DEF Timers, ReconnectTimer, ContinuationTimer, SafetyTimer, BudgetPeriod, Ahead
<1>15. ASSUME NEW t \in Ids, RecheckTimer(t)
       PROVE  dirty' \/ requested' \/ Ahead(s)'
  BY <1>0, <1>15 DEF RecheckTimer, Ahead
<1>16. CASE UNCHANGED vars
  BY <1>0, <1>16 DEF vars, Ahead
<1> QED
  BY <1>1, <1>2, <1>3, <1>4, <1>5, <1>6, <1>7, <1>8, <1>9, <1>10, <1>11, <1>12,
     <1>13, <1>14, <1>15, <1>16
     DEF Next, Others, Step

(* A hint the Runtime has received is kept until every submission it stands  *)
(* for has been tried.                                                       *)
THEOREM HintsRemembered == Spec => []HintIsRemembered
<1>1. Init => HintIsRemembered
  BY DEF Init, HintIsRemembered
<1> QED
  BY <1>1, TypeInit, TypeStep, ShapeInit, ShapeStep, RememberStep, PTL DEF Spec
============================================================================
