------------------------- MODULE WebMatches_proofs -------------------------
(***************************************************************************)
(* Proofs about the screens from an image to a recorded match.             *)
(***************************************************************************)
EXTENDS WebMatchesMC, FiniteSetTheorems, SequenceTheorems, WellFoundedInduction, TLAPS

-----------------------------------------------------------------------------
(***************************************************************************)
(* A value OCR left out is confirmed only after the user entered it, for   *)
(* any members, readings, numbers typed and number of edits.               *)
(*                                                                         *)
(* The fact every edit keeps: a cell without a reading that the user has   *)
(* not filled shows an empty text, never the number that stands behind it. *)
(***************************************************************************)
(* The inductive invariant.                                                *)

RowShaped(row) == row = [member |-> row.member, order |-> row.order, num |-> row.num]
RowsShaped(rows) == /\ rows = [r \in Rows |-> rows[r]]
                    /\ \A r \in Rows : RowShaped(rows[r])
TextsShaped(typed) == typed = [c \in NumericCells |-> typed[c]]
FormShaped(form) ==
  /\ form = [rows |-> form.rows, typed |-> form.typed, acked |-> form.acked,
             synced |-> form.synced, active |-> form.active]
  /\ RowsShaped(form.rows)
  /\ TextsShaped(form.typed)

\* The cells of a form that hold no value OCR read.
Unfilled(form) == {c \in NumericCells : c[2] \in UnreadFieldsOf(Review, c[1], form.rows[c[1]].order)}

\* An unfilled cell that the user has not entered shows an empty text.
UnenteredAreEmpty(form, entered) ==
  \A c \in Unfilled(form) : c \in entered \/ form.typed[c] = EmptyText

\* What Escape would put back into such a cell is empty as well.
FocusRemembersEmpty ==
  rvFocus.cell \in Unfilled(rvForm) => rvFocus.own \/ rvFocus.before = EmptyText

OpenHasEntered == rvConfirm # "closed" => Unfilled(rvForm) \subseteq rvEntered

IInv == /\ FormShaped(rvForm) /\ UnenteredAreEmpty(rvForm, rvEntered)
        /\ FocusRemembersEmpty /\ OpenHasEntered

-----------------------------------------------------------------------------
(* What the store's edits leave alone.                                     *)

SameOrders(form, other) == \A r \in Rows : other.rows[r].order = form.rows[r].order
SameTexts(form, other, cells) == \A c \in NumericCells \ cells : other.typed[c] = form.typed[c]

LEMMA CellParts ==
  ASSUME NEW c \in NumericCells
  PROVE  c[1] \in Rows /\ c[2] \in Numeric /\ c = <<c[1], c[2]>>
BY DEF NumericCells

LEMMA SameOrdersUnfilled ==
  ASSUME NEW form, NEW other, SameOrders(form, other)
  PROVE  Unfilled(other) = Unfilled(form)
BY CellParts DEF SameOrders, Unfilled

LEMMA TextSet ==
  ASSUME NEW form, FormShaped(form), NEW c \in NumericCells, NEW text,
         NEW set, set = SetNumericDraft(form, c, text)
  PROVE  /\ FormShaped(set) /\ set.rows = form.rows /\ set.typed[c] = text
         /\ SameTexts(form, set, {c})
BY DEF FormShaped, TextsShaped, SetNumericDraft, SameTexts

LEMMA Acknowledged ==
  ASSUME NEW form, FormShaped(form), NEW c, NEW acked, acked = Acknowledge(form, c)
  PROVE  FormShaped(acked) /\ acked.rows = form.rows /\ acked.typed = form.typed
BY DEF FormShaped, Acknowledge

\* The two ways an edit replaces rows.
WithNumber(form, c, number) == [form EXCEPT !.rows[c[1]].num[c[2]] = number]
WithRows(form, rows) == [form EXCEPT !.rows = rows]

LEMMA RowsReplaced ==
  ASSUME NEW form, FormShaped(form), NEW rows, RowsShaped(rows),
         NEW other, other = WithRows(form, rows)
  PROVE  FormShaped(other) /\ other.rows = rows /\ other.typed = form.typed
BY DEF FormShaped, WithRows

LEMMA Numbered ==
  ASSUME NEW form, FormShaped(form), NEW c \in NumericCells, NEW number,
         NEW numbered, numbered = WithNumber(form, c, number)
  PROVE  FormShaped(numbered) /\ SameOrders(form, numbered) /\ numbered.typed = form.typed
<1> DEFINE row == form.rows[c[1]]
           renumbered == [row EXCEPT !.num[c[2]] = number]
           rows == [form.rows EXCEPT ![c[1]] = renumbered]
<1>1. row = [member |-> row.member, order |-> row.order, num |-> row.num]
  BY CellParts DEF FormShaped, RowsShaped, RowShaped
<1>2. renumbered = [member |-> row.member, order |-> row.order,
                    num |-> [row.num EXCEPT ![c[2]] = number]]
  BY <1>1
<1>3. RowShaped(renumbered) /\ renumbered.order = row.order
  BY <1>2 DEF RowShaped
<1>4. numbered = WithRows(form, rows)
  BY DEF FormShaped, WithNumber, WithRows
<1> HIDE DEF renumbered
<1>5. RowsShaped(rows) /\ \A r \in Rows : rows[r].order = form.rows[r].order
  BY <1>3, CellParts DEF FormShaped, RowsShaped
<1> HIDE DEF rows
<1>6. FormShaped(numbered) /\ numbered.rows = rows /\ numbered.typed = form.typed
  BY <1>4, <1>5, RowsReplaced
<1>. QED
  BY <1>5, <1>6 DEF SameOrders

LEMMA SyncedSet ==
  ASSUME NEW form, FormShaped(form), NEW synced, NEW set, set = [form EXCEPT !.synced = synced]
  PROVE  FormShaped(set) /\ set.rows = form.rows /\ set.typed = form.typed
BY DEF FormShaped

LEMMA PlayerChanged ==
  ASSUME NEW form, FormShaped(form), NEW c \in NumericCells, NEW number,
         NEW other, other = ChangePlayer(form, c, number)
  PROVE  /\ FormShaped(other) /\ SameOrders(form, other) /\ other.typed[c] = NoText
         /\ SameTexts(form, other, {c})
<1>1. PICK numbered : numbered = WithNumber(form, c, number)
  OBVIOUS
<1>2. PICK set : set = SetNumericDraft(numbered, c, NoText)
  OBVIOUS
<1>3. other = Acknowledge(set, c)
  BY <1>1, <1>2, Zenon DEF ChangePlayer, WithNumber
<1>4. FormShaped(numbered) /\ SameOrders(form, numbered) /\ numbered.typed = form.typed
  BY <1>1, Numbered
<1>5. /\ FormShaped(set) /\ set.rows = numbered.rows /\ set.typed[c] = NoText
      /\ SameTexts(numbered, set, {c})
  BY <1>2, <1>4, TextSet
<1>6. FormShaped(other) /\ other.rows = set.rows /\ other.typed = set.typed
  BY <1>3, <1>5, Acknowledged
<1>. QED
  BY <1>4, <1>5, <1>6 DEF SameOrders, SameTexts

LEMMA NumberChanged ==
  ASSUME NEW form, FormShaped(form), NEW c \in NumericCells, NEW number,
         NEW other, other = ChangeNumber(form, c, number)
  PROVE  /\ FormShaped(other) /\ SameOrders(form, other) /\ other.typed[c] = NoText
         /\ SameTexts(form, other, {c})
BY PlayerChanged, SyncedSet DEF ChangeNumber, ChangeIncident, SameOrders, SameTexts

\* An edit of one cell leaves no other cell without its empty text.
LEMMA UnenteredKept ==
  ASSUME NEW form, NEW other, NEW c, NEW entered, NEW after,
         SameOrders(form, other), SameTexts(form, other, {c}), UnenteredAreEmpty(form, entered),
         c \in Unfilled(form) => c \in after \/ other.typed[c] = EmptyText,
         entered \ {c} \subseteq after
  PROVE  UnenteredAreEmpty(other, after)
BY SameOrdersUnfilled DEF UnenteredAreEmpty, SameTexts, Unfilled

LEMMA UnenteredShowEmpty ==
  ASSUME NEW form, NEW entered, UnenteredAreEmpty(form, entered), NEW c \in Unfilled(form),
         c \notin entered
  PROVE  NumericInput(form, c) = EmptyText
BY DEF UnenteredAreEmpty, NumericInput, EmptyText, NoText

LEMMA Committed ==
  ASSUME NEW form, FormShaped(form), NEW entered, UnenteredAreEmpty(form, entered), NEW c,
         NEW other, other = CommitInput(form, c)
  PROVE  FormShaped(other) /\ SameOrders(form, other) /\ UnenteredAreEmpty(other, entered)
<1>1. CASE c \notin NumericCells \/ Shown(form, c) = EmptyText
  BY <1>1 DEF CommitInput, SameOrders
<1>2. CASE c \in NumericCells /\ Shown(form, c) # EmptyText
  <2>1. c \in Unfilled(form) => c \in entered
    BY <1>2, UnenteredShowEmpty DEF Shown
  <2>2. \/ other = ChangeNumber(form, c, Shown(form, c))
        \/ other = SetNumericDraft(form, c, NoText)
    BY <1>2, Zenon DEF CommitInput
  <2>3. FormShaped(other) /\ SameOrders(form, other) /\ SameTexts(form, other, {c})
    <3>1. CASE other = ChangeNumber(form, c, Shown(form, c))
      BY <1>2, <3>1, NumberChanged
    <3>2. CASE other = SetNumericDraft(form, c, NoText)
      BY <1>2, <3>2, TextSet DEF SameOrders
    <3>. QED
      BY <2>2, <3>1, <3>2
  <2>. QED
    BY <2>1, <2>3, UnenteredKept
<1>. QED
  BY <1>1, <1>2

LEMMA Blurred ==
  ASSUME FormShaped(rvForm), UnenteredAreEmpty(rvForm, rvEntered), NEW left, left = AfterBlur
  PROVE  FormShaped(left) /\ SameOrders(rvForm, left) /\ UnenteredAreEmpty(left, rvEntered)
BY Committed, Zenon DEF AfterBlur

LEMMA OtherFieldsSet ==
  ASSUME NEW form, FormShaped(form), NEW acked, NEW active, NEW synced, NEW other,
         \/ other = [form EXCEPT !.active = active]
         \/ other = [form EXCEPT !.acked = acked]
         \/ other = [form EXCEPT !.synced = synced]
  PROVE  FormShaped(other) /\ other.rows = form.rows /\ other.typed = form.typed
BY DEF FormShaped

\* Escape puts a text back that is empty or was the user's.
LEMMA Reverted ==
  ASSUME NEW form, FormShaped(form), NEW c \in NumericCells, NEW before,
         NEW other, other = RevertCell(form, c, before)
  PROVE  /\ FormShaped(other) /\ SameOrders(form, other) /\ SameTexts(form, other, {c})
         /\ before = EmptyText => other.typed[c] = EmptyText
<1>1. CASE before = EmptyText
  <2>1. other = SetNumericDraft(form, c, EmptyText)
    BY <1>1, Zenon DEF RevertCell
  <2>. QED
    BY <2>1, TextSet DEF SameOrders
<1>2. CASE before # EmptyText /\ before = form.rows[c[1]].num[c[2]]
  BY <1>2, TextSet DEF RevertCell, SameOrders
<1>3. CASE before # EmptyText /\ before # form.rows[c[1]].num[c[2]]
  BY <1>3, TextSet, NumberChanged DEF RevertCell, SameOrders, SameTexts
<1>. QED
  BY <1>1, <1>2, <1>3

-----------------------------------------------------------------------------
(* A new play order, which may move the row to another incident column.    *)

WithOrder(form, row, order) == [form EXCEPT !.rows[row].order = order]
OrderMoved(form, other, row, order) ==
  \A r \in Rows : other.rows[r].order = IF r = row THEN order ELSE form.rows[r].order

OrderedRows(rows, row, order) == [rows EXCEPT ![row].order = order]
CountedRows(rows, row, order, num) ==
  [rows EXCEPT ![row] = [@ EXCEPT !.order = order, !.num.incident = num]]

LEMMA RowOrdered ==
  ASSUME NEW rows, RowsShaped(rows), NEW row \in Rows, NEW order,
         NEW other, other = OrderedRows(rows, row, order)
  PROVE  /\ RowsShaped(other)
         /\ \A r \in Rows : other[r].order = IF r = row THEN order ELSE rows[r].order
<1>0. PICK member, old, nums : rows[row] = [member |-> member, order |-> old, num |-> nums]
  BY DEF RowsShaped, RowShaped
<1> DEFINE new == [rows[row] EXCEPT !.order = order]
<1>1. new = [member |-> member, order |-> order, num |-> nums]
  BY <1>0
<1>2. other = [rows EXCEPT ![row] = new]
  BY DEF OrderedRows
<1> HIDE DEF new
<1>. QED
  BY <1>1, <1>2 DEF RowsShaped, RowShaped

LEMMA RowCounted ==
  ASSUME NEW rows, RowsShaped(rows), NEW row \in Rows, NEW order, NEW num,
         NEW other, other = CountedRows(rows, row, order, num)
  PROVE  /\ RowsShaped(other)
         /\ \A r \in Rows : other[r].order = IF r = row THEN order ELSE rows[r].order
<1>0. PICK member, old, nums : rows[row] = [member |-> member, order |-> old, num |-> nums]
  BY DEF RowsShaped, RowShaped
<1> DEFINE ordered == [rows[row] EXCEPT !.order = order]
           new == [ordered EXCEPT !.num.incident = num]
<1>1. new = [member |-> member, order |-> order, num |-> [nums EXCEPT !.incident = num]]
  <2>1. ordered = [member |-> member, order |-> order, num |-> nums]
    BY <1>0
  <2> HIDE DEF ordered
  <2>. QED
    BY <2>1
<1>2. other = [rows EXCEPT ![row] = new]
  BY DEF CountedRows
<1> HIDE DEF new
<1>. QED
  BY <1>1, <1>2 DEF RowsShaped, RowShaped

\* What is unread in a row changes only in the incident cell.
LEMMA UnreadMoves ==
  ASSUME NEW row, NEW field, field # "incident", NEW order, NEW other
  PROVE  (field \in UnreadFieldsOf(Review, row, order)) <=> (field \in UnreadFieldsOf(Review, row, other))
BY DEF UnreadFieldsOf

LEMMA UnreadStays ==
  ASSUME ~SyncIncidents, NEW row, NEW order, NEW other
  PROVE  UnreadFieldsOf(Review, row, order) = UnreadFieldsOf(Review, row, other)
BY DEF UnreadFieldsOf, SyncIncidents

LEMMA OrderSet ==
  ASSUME NEW form, FormShaped(form), NEW row \in Rows, NEW order,
         NEW other, other = WithOrder(form, row, order)
  PROVE  FormShaped(other) /\ OrderMoved(form, other, row, order) /\ other.typed = form.typed
BY RowOrdered, RowsReplaced DEF FormShaped, WithOrder, WithRows, OrderedRows, OrderMoved

\* The texts of a row whose counts follow its new column.
ColumnTexts(form, row, order) ==
  WithEmptyUnreadInputs([form.typed EXCEPT ![<<row, "incident">>] = NoText],
                        UnreadCells(Review, row, order) \cap {<<row, "incident">>})

LEMMA ColumnTextsSet ==
  ASSUME NEW form, FormShaped(form), NEW row \in Rows, NEW order,
         NEW typed, typed = ColumnTexts(form, row, order)
  PROVE  /\ TextsShaped(typed)
         /\ \A c \in NumericCells \ {<<row, "incident">>} : typed[c] = form.typed[c]
         /\ <<row, "incident">> \in UnreadCells(Review, row, order)
              => typed[<<row, "incident">>] = EmptyText
BY DEF FormShaped, TextsShaped, ColumnTexts, WithEmptyUnreadInputs, UnreadCells

LEMMA SyncedRowSet ==
  ASSUME NEW form, FormShaped(form), NEW row \in Rows, NEW order, SyncIncidents,
         NEW other, other = SyncedRow(form, row, order)
  PROVE  /\ FormShaped(other) /\ OrderMoved(form, other, row, order)
         /\ other.typed = ColumnTexts(form, row, order)
<1>1. PICK num : num = IF order \in DOMAIN Review.columns
                       THEN NumberValue(Review.columns[order], 0) ELSE 0
  OBVIOUS
<1>2. PICK typed : typed = ColumnTexts(form, row, order)
  OBVIOUS
<1>3. PICK rows : rows = CountedRows(form.rows, row, order, num)
  OBVIOUS
<1>4. other = [form EXCEPT !.rows[row] = [@ EXCEPT !.order = order, !.num.incident = num],
                           !.typed = typed, !.synced = row]
  BY <1>1, <1>2, Zenon DEF SyncedRow, ColumnTexts
<1>5. PICK old, texts, acked, synced, active :
        /\ form = [rows |-> old, typed |-> texts, acked |-> acked, synced |-> synced,
                  active |-> active]
        /\ old = form.rows
  BY DEF FormShaped
<1>6. other = [rows |-> rows, typed |-> typed, acked |-> acked, synced |-> row,
               active |-> active]
  BY <1>3, <1>4, <1>5 DEF CountedRows
<1>7. /\ RowsShaped(rows)
      /\ \A r \in Rows : rows[r].order = IF r = row THEN order ELSE form.rows[r].order
  BY <1>3, RowCounted DEF FormShaped
<1>8. TextsShaped(typed)
  BY <1>2, ColumnTextsSet
<1>9. FormShaped(other) /\ other.rows = rows /\ other.typed = typed
  BY <1>6, <1>7, <1>8 DEF FormShaped
<1>. QED
  BY <1>2, <1>7, <1>9 DEF OrderMoved

LEMMA IncidentCell ==
  ASSUME NEW row \in Rows
  PROVE  /\ <<row, "incident">> \in NumericCells
         /\ \A c \in NumericCells \ {<<row, "incident">>} : c[1] = row => c[2] # "incident"
BY CellParts DEF NumericCells, Numeric

\* With a new play order the unfilled cells are still empty, unless the user entered them.
LEMMA PlayOrderChanged ==
  ASSUME NEW form, FormShaped(form), NEW row \in Rows, NEW order, NEW entered,
         UnenteredAreEmpty(form, entered), NEW other, other = ChangePlayOrder(form, row, order)
  PROVE  /\ FormShaped(other)
         /\ UnenteredAreEmpty(other, IF SyncIncidents THEN entered \ {<<row, "incident">>}
                                     ELSE entered)
<1>1. PICK moved : moved = SyncedRow(form, row, order)
  OBVIOUS
<1>2. PICK changed : changed = [moved EXCEPT !.acked = moved.acked \ Invalidated(row)]
  OBVIOUS
<1>3. other = Acknowledge(changed, <<row, "playOrder">>)
  BY <1>1, <1>2, Zenon DEF ChangePlayOrder
<1>4. /\ FormShaped(moved) /\ OrderMoved(form, moved, row, order)
      /\ moved.typed = IF SyncIncidents THEN ColumnTexts(form, row, order) ELSE form.typed
  <2>1. CASE SyncIncidents
    BY <1>1, <2>1, SyncedRowSet
  <2>2. CASE ~SyncIncidents
    <3>1. moved = WithOrder(form, row, order)
      BY <1>1, <2>2, Zenon DEF SyncedRow, WithOrder
    <3>. QED
      BY <2>2, <3>1, OrderSet
  <2>. QED
    BY <2>1, <2>2
<1>5. FormShaped(changed) /\ changed.rows = moved.rows /\ changed.typed = moved.typed
  <2>1. PICK acked : changed = [moved EXCEPT !.acked = acked]
    BY <1>2
  <2>. QED
    BY <1>4, <2>1, OtherFieldsSet
<1>6. FormShaped(other) /\ other.rows = moved.rows /\ other.typed = moved.typed
  BY <1>3, <1>5, Acknowledged
<1>7. OrderMoved(form, other, row, order)
  BY <1>4, <1>6 DEF OrderMoved
<1>8. CASE SyncIncidents
  <2>1. PICK typed : typed = ColumnTexts(form, row, order)
    OBVIOUS
  <2>2. /\ \A c \in NumericCells \ {<<row, "incident">>} : typed[c] = form.typed[c]
        /\ <<row, "incident">> \in UnreadCells(Review, row, order)
             => typed[<<row, "incident">>] = EmptyText
    BY <2>1, ColumnTextsSet
  <2>3. other.typed = typed
    BY <1>4, <1>6, <1>8, <2>1
  <2>4. ASSUME NEW c \in Unfilled(other), c \notin entered \ {<<row, "incident">>}
        PROVE  other.typed[c] = EmptyText
    <3>1. c \in NumericCells /\ c[1] \in Rows /\ c = <<c[1], c[2]>>
      BY CellParts DEF Unfilled
    <3>2. CASE c = <<row, "incident">>
      <4>1. c \in UnreadCells(Review, row, order)
        BY <1>7, <3>1, <3>2 DEF Unfilled, UnreadCells, OrderMoved
      <4>. QED
        BY <2>2, <2>3, <3>2, <4>1
    <3>3. CASE c # <<row, "incident">>
      <4>1. c \in Unfilled(form)
        BY <1>7, <3>1, <3>3, UnreadMoves, IncidentCell DEF Unfilled, OrderMoved
      <4>. QED
        BY <2>2, <2>3, <2>4, <3>1, <3>3, <4>1 DEF UnenteredAreEmpty
    <3>. QED
      BY <3>2, <3>3
  <2>. QED
    BY <1>6, <1>8, <2>4 DEF UnenteredAreEmpty
<1>9. CASE ~SyncIncidents
  <2>1. Unfilled(other) = Unfilled(form)
    BY <1>7, <1>9, UnreadStays, CellParts DEF Unfilled, OrderMoved
  <2>. QED
    BY <1>4, <1>6, <1>9, <2>1 DEF UnenteredAreEmpty
<1>. QED
  BY <1>8, <1>9

-----------------------------------------------------------------------------
(* Every step keeps the invariant.                                         *)

LEMMA NoCellIsUnfilled ==
  ASSUME NEW form
  PROVE  NoFocus.cell \notin Unfilled(form)
BY CellParts DEF NoFocus, NoCell, Unfilled, Numeric

\* What a step leaves, put together; the readings of a behaviour never change.
LEMMA StepInv ==
  ASSUME UNCHANGED rvPayload, FormShaped(rvForm'), UnenteredAreEmpty(rvForm', rvEntered'),
         rvFocus'.cell \in Unfilled(rvForm') => rvFocus'.own \/ rvFocus'.before = EmptyText,
         rvConfirm' # "closed" => Unfilled(rvForm') \subseteq rvEntered'
  PROVE  IInv'
BY DEF Review, Unfilled, UnreadFieldsOf, IInv, FormShaped, RowsShaped, TextsShaped, RowShaped,
    UnenteredAreEmpty, FocusRemembersEmpty, OpenHasEntered

LEMMA ClosedInv ==
  ASSUME Editing, FormShaped(rvForm'), UnenteredAreEmpty(rvForm', rvEntered'),
         rvFocus'.cell \in Unfilled(rvForm') => rvFocus'.own \/ rvFocus'.before = EmptyText
  PROVE  IInv'
BY StepInv DEF Editing

LEMMA FocusInv ==
  ASSUME NEW form, NEW c, UnenteredAreEmpty(form, rvEntered), c \in Unfilled(form)
  PROVE  FocusOn(form, c).cell = c /\ (FocusOn(form, c).own \/ FocusOn(form, c).before = EmptyText)
BY UnenteredShowEmpty DEF FocusOn, Unfilled

\* Moving to a cell.
LEMMA MoveInv ==
  ASSUME IInv, Editing, NEW c, NEW left, left = AfterBlur,
         rvForm' = [left EXCEPT !.active = c], rvFocus' = FocusOn(left, c), UNCHANGED rvEntered
  PROVE  IInv'
<1>1. FormShaped(left) /\ UnenteredAreEmpty(left, rvEntered)
  BY Blurred DEF IInv
<1>2. FormShaped(rvForm') /\ rvForm'.rows = left.rows /\ rvForm'.typed = left.typed
  BY <1>1, OtherFieldsSet
<1>3. Unfilled(rvForm') = Unfilled(left) /\ UnenteredAreEmpty(rvForm', rvEntered')
  BY <1>1, <1>2 DEF Unfilled, UnenteredAreEmpty
<1>4. rvFocus'.cell = c
  BY DEF FocusOn
<1>. QED
  BY <1>1, <1>2, <1>3, <1>4, FocusInv, ClosedInv

LEMMA FocusCellInv ==
  ASSUME IInv, FocusCell
  PROVE  IInv'
BY MoveInv, Zenon DEF FocusCell, Edited

LEMMA NavigateInv ==
  ASSUME IInv, NavigateReviewItems
  PROVE  IInv'
BY MoveInv, Zenon DEF NavigateReviewItems, Edited

LEMMA TypeTextInv ==
  ASSUME IInv, TypeText
  PROVE  IInv'
<1>1. PICK text : /\ rvForm' = SetNumericDraft(rvForm, rvFocus.cell, text)
                  /\ rvEntered' = IF text = EmptyText THEN rvEntered \ {rvFocus.cell}
                                  ELSE rvEntered \cup {rvFocus.cell}
  BY Zenon DEF TypeText, Edited
<1>2. Editing /\ rvFocus.cell \in NumericCells /\ UNCHANGED rvFocus
  BY DEF TypeText
<1>3. /\ FormShaped(rvForm') /\ rvForm'.rows = rvForm.rows /\ rvForm'.typed[rvFocus.cell] = text
      /\ SameTexts(rvForm, rvForm', {rvFocus.cell})
  BY <1>1, <1>2, TextSet DEF IInv
<1>4. SameOrders(rvForm, rvForm') /\ Unfilled(rvForm') = Unfilled(rvForm)
  BY <1>3 DEF SameOrders, Unfilled
<1>5. UnenteredAreEmpty(rvForm', rvEntered')
  <2>1. PICK cell : cell = rvFocus.cell
    OBVIOUS
  <2>2. cell \in rvEntered' \/ rvForm'.typed[cell] = EmptyText
    BY <1>1, <1>3, <2>1
  <2>3. rvEntered \ {cell} \subseteq rvEntered'
    BY <1>1, <2>1
  <2>4. SameTexts(rvForm, rvForm', {cell})
    BY <1>3, <2>1
  <2>. QED
    BY <1>4, <2>2, <2>3, <2>4, UnenteredKept DEF IInv
<1>. QED
  BY <1>2, <1>3, <1>4, <1>5, ClosedInv DEF IInv, FocusRemembersEmpty

LEMMA EscapeInv ==
  ASSUME IInv, Escape
  PROVE  IInv'
<1>1. PICK cell, before : cell = rvFocus.cell /\ before = rvFocus.before
  OBVIOUS
<1>2. /\ rvForm' = RevertCell(rvForm, cell, before)
      /\ rvEntered' = IF rvFocus.own THEN rvEntered \cup {cell} ELSE rvEntered \ {cell}
  BY <1>1, Zenon DEF Escape, Edited
<1>3. Editing /\ cell \in NumericCells /\ UNCHANGED rvFocus
  BY <1>1 DEF Escape
<1>4. /\ FormShaped(rvForm') /\ SameOrders(rvForm, rvForm')
      /\ SameTexts(rvForm, rvForm', {cell})
      /\ before = EmptyText => rvForm'.typed[cell] = EmptyText
  BY <1>2, <1>3, Reverted DEF IInv
<1>5. Unfilled(rvForm') = Unfilled(rvForm)
  BY <1>4, SameOrdersUnfilled
<1>6. UnenteredAreEmpty(rvForm', rvEntered')
  <2>1. UnenteredAreEmpty(rvForm, rvEntered)
    BY DEF IInv
  <2>2. cell \in Unfilled(rvForm) => cell \in rvEntered' \/ before = EmptyText
    BY <1>1, <1>2 DEF IInv, FocusRemembersEmpty
  <2>3. rvEntered \ {cell} \subseteq rvEntered'
    BY <1>2
  <2> QED BY <1>4, <2>1, <2>2, <2>3, UnenteredKept
<1>. QED
  BY <1>3, <1>4, <1>5, <1>6, ClosedInv DEF IInv, FocusRemembersEmpty

LEMMA ResizeWindowInv ==
  ASSUME IInv, ResizeWindow
  PROVE  IInv'
BY NoCellIsUnfilled, ClosedInv DEF ResizeWindow, IInv

LEMMA SelectPlayOrderInv ==
  ASSUME IInv, SelectPlayOrder
  PROVE  IInv'
BY Blurred, PlayOrderChanged, NoCellIsUnfilled, ClosedInv DEF SelectPlayOrder, Edited, IInv

LEMMA RowNamed ==
  ASSUME NEW rows, RowsShaped(rows), NEW row \in Rows
  PROVE  \E was, order, nums : rows[row] = [member |-> was, order |-> order, num |-> nums]
BY DEF RowsShaped, RowShaped

LEMMA MemberSet ==
  ASSUME NEW form, FormShaped(form), NEW row \in Rows, NEW member,
         NEW other, other = ChangeMember(form, row, member)
  PROVE  FormShaped(other) /\ SameOrders(form, other) /\ other.typed = form.typed
<1>1. PICK rows : rows = [form.rows EXCEPT ![row] = [@ EXCEPT !.member = member]]
  OBVIOUS
<1>2. RowsShaped(form.rows)
  BY DEF FormShaped
<1>3. PICK was, order, nums : form.rows[row] = [member |-> was, order |-> order, num |-> nums]
  BY <1>2, RowNamed
<1>4. [form.rows[row] EXCEPT !.member = member] = [member |-> member, order |-> order, num |-> nums]
  BY <1>3
<1>5. rows = [form.rows EXCEPT ![row] = [member |-> member, order |-> order, num |-> nums]]
  BY <1>1, <1>4
<1>6. RowsShaped(rows) /\ \A r \in Rows : rows[r].order = form.rows[r].order
  BY <1>2, <1>3, <1>5 DEF RowsShaped, RowShaped
<1>7. PICK changed : changed = WithRows(form, rows)
  OBVIOUS
<1>8. other = Acknowledge(changed, <<row, "memberId">>)
  BY <1>1, <1>7 DEF FormShaped, WithRows, ChangeMember
<1>9. FormShaped(changed) /\ changed.rows = rows /\ changed.typed = form.typed
  BY <1>6, <1>7, RowsReplaced
<1>10. FormShaped(other) /\ other.rows = changed.rows /\ other.typed = changed.typed
  BY <1>8, <1>9, Acknowledged
<1>. QED
  BY <1>6, <1>9, <1>10 DEF SameOrders

\* A form with the same rows' orders and texts has the same unfilled cells, as empty.
LEMMA SameFormKeeps ==
  ASSUME NEW form, NEW other, NEW entered, UnenteredAreEmpty(form, entered),
         SameOrders(form, other), other.typed = form.typed
  PROVE  UnenteredAreEmpty(other, entered)
<1>1. Unfilled(other) = Unfilled(form)
  BY SameOrdersUnfilled
<1>. QED
  BY <1>1 DEF UnenteredAreEmpty

LEMMA SelectMemberInv ==
  ASSUME IInv, SelectMember
  PROVE  IInv'
BY Blurred, MemberSet, SameFormKeeps, NoCellIsUnfilled, ClosedInv DEF SelectMember, Edited, IInv

LEMMA AcknowledgeActiveItemInv ==
  ASSUME IInv, AcknowledgeActiveItem
  PROVE  IInv'
BY Blurred, OtherFieldsSet, SameFormKeeps, NoCellIsUnfilled, ClosedInv
DEF AcknowledgeActiveItem, Edited, IInv, SameOrders

\* The confirmation opens for a form whose every number cell shows a number.
LEMMA RequestConfirmationInv ==
  ASSUME IInv, RequestConfirmation
  PROVE  IInv'
BY Blurred, UnenteredShowEmpty, NoCellIsUnfilled, StepInv
DEF RequestConfirmation, Edited, IInv, ValidateMatchForm, MatchFormInput, Unfilled

LEMMA DialogInv ==
  ASSUME IInv, CloseConfirmation \/ ConfirmReview
  PROVE  IInv'
BY StepInv DEF IInv, FocusRemembersEmpty, OpenHasEntered, CloseConfirmation, ConfirmReview

\* A form built from the readings shows an empty text wherever OCR left a value out.
LEMMA BuiltForm ==
  ASSUME NEW form, form = DraftToMatchForm(rvPayload)
  PROVE  FormShaped(form) /\ UnenteredAreEmpty(form, {})
BY CellParts
DEF DraftToMatchForm, Review, RowsShaped, RowShaped, TextsShaped, WithEmptyUnreadInputs, FormShaped,
    Unfilled, UnreadCells, UnenteredAreEmpty

LEMMA ReloadReviewInv ==
  ASSUME IInv, ReloadReview
  PROVE  IInv'
<1>1. Editing /\ rvFocus' = NoFocus
  BY DEF ReloadReview
<1>2. FormShaped(rvForm') /\ UnenteredAreEmpty(rvForm', rvEntered')
  <2>1. CASE rvForm' = Restored(rvForm) /\ UNCHANGED rvEntered
    <3>1. PICK acked, active : rvForm' = [rvForm EXCEPT !.synced = 0, !.active = active,
                                                        !.acked = acked]
      BY <2>1, Zenon DEF Restored
    <3>2. FormShaped(rvForm') /\ rvForm'.rows = rvForm.rows /\ rvForm'.typed = rvForm.typed
      BY <3>1 DEF IInv, FormShaped
    <3>. QED
      BY <2>1, <3>2, SameFormKeeps DEF IInv, SameOrders
  <2>2. CASE rvForm' = DraftToMatchForm(rvPayload) /\ rvEntered' = {}
    BY <2>2, BuiltForm
  <2>. QED
    BY <2>1, <2>2, Zenon DEF ReloadReview
<1>. QED
  BY <1>1, <1>2, NoCellIsUnfilled, ClosedInv

LEMMA InitInv ==
  ASSUME ReviewInit
  PROVE  IInv
BY BuiltForm, NoCellIsUnfilled DEF ReviewInit, FocusRemembersEmpty, OpenHasEntered, IInv

LEMMA NextInv ==
  ASSUME IInv, [ReviewNext]_rvvars
  PROVE  IInv'
<1>1. CASE UNCHANGED rvvars
  BY <1>1, StepInv DEF rvvars, IInv, FocusRemembersEmpty, OpenHasEntered
<1>2. CASE ReviewNext
  BY <1>2, FocusCellInv, TypeTextInv, EscapeInv, ResizeWindowInv, SelectPlayOrderInv,
     SelectMemberInv, AcknowledgeActiveItemInv, NavigateInv, RequestConfirmationInv, DialogInv,
     ReloadReviewInv, Zenon DEF ReviewNext
<1>. QED
  BY <1>1, <1>2

\* A value OCR left out is confirmed only after the user entered it, whatever was typed,
\* put back, moved to another column or restored after a reload (unreadFields.ts).
THEOREM UnreadIsEntered == ReviewSpec => []UnreadIsNeverConfirmed
<1>1. IInv => UnreadIsNeverConfirmed
  BY DEF IInv, OpenHasEntered, UnreadIsNeverConfirmed, Unfilled, UnreadCells
<1>. QED
  BY InitInv, NextInv, <1>1, PTL DEF ReviewSpec

-----------------------------------------------------------------------------
(***************************************************************************)
(* An input is recorded once, and not offered again once it is recorded.   *)
(*                                                                         *)
(* The fact every step keeps: wherever an input is held - the page, the    *)
(* stored input, a recovery, a request under way or orphaned, the records  *)
(* of the server - it comes with the number in the held event it was typed *)
(* for, and what the server recorded has an older number, or an older      *)
(* version of the edited match, than what it would accept now.             *)
(***************************************************************************)
(* The inductive invariant.                                                *)

\* numbers[t] is the number in the held event of the t-th input typed.
Fit(values, mode, numbers) ==
  /\ values \in FormType
  /\ mode # "edit" /\ values.text # 0
       => values.text \in DOMAIN numbers /\ values.no = numbers[values.text]
SameStart(values, base) == values.no = base.no /\ values.rev = base.rev

DraftSound(draft, mode, numbers) ==
  /\ draft = [values |-> draft.values, baseline |-> draft.baseline, resume |-> draft.resume]
  /\ Fit(draft.values, mode, numbers)
  /\ draft.baseline \in FormType /\ SameStart(draft.values, draft.baseline)

RequestSound(request, mode, numbers) ==
  /\ request = [payload |-> request.payload, key |-> request.key, stage |-> request.stage]
  /\ request.payload.kind \in {"confirm", "update", "cancel"}
  /\ request.payload.kind = "update" => mode = "edit"
  /\ request.payload.kind = "confirm" => mode # "edit"
  /\ request.payload.kind # "cancel" => Fit(request.payload.values, mode, numbers)

WorkShaped(page) ==
  page = [at |-> "form", values |-> page.values, base |-> page.base, recovery |-> page.recovery,
          confirmOpen |-> page.confirmOpen, cancelOpen |-> page.cancelOpen,
          keys |-> page.keys, request |-> page.request]
FormSound(page, mode, numbers) ==
  /\ WorkShaped(page)
  /\ Fit(page.values, mode, numbers)
  /\ page.base \in FormType /\ (mode # "edit" => page.base.text = 0)
  /\ SameStart(page.values, page.base)
  /\ page.recovery # Nothing =>
       DraftSound(page.recovery, mode, numbers) /\ page.recovery.baseline = page.base
  /\ page.confirmOpen => mode # "edit"
  /\ page.request # Nothing => RequestSound(page.request, mode, numbers)
PageSound(page, mode, numbers) ==
  /\ page.at \in {"out", "form", "masters"}
  /\ page.at = "form" => FormSound(page, mode, numbers)

StoredSound(stored, mode, numbers) == stored # Nothing => DraftSound(stored, mode, numbers)
OrphansSound(orphans, mode, numbers) ==
  \A request \in orphans : RequestSound(request, mode, numbers)

ServerSound(api, mode) ==
  /\ api = [maps |-> api.maps, count |-> api.count, prev |-> api.prev,
            draft |-> api.draft, draftMap |-> api.draftMap, done |-> api.done,
            others |-> api.others, match |-> api.match]
  /\ api.maps \subseteq WsMaps
  /\ {api.prev, api.draftMap} \subseteq WsMaps \cup {NoMap}
  /\ api.match \in FormType /\ api.count \in Nat
  /\ mode = "review" /\ api.draft # "confirmed" => api.count = 0

\* What was recorded is older than what the server would accept now.
RecordsSound(records, api, mode, numbers) ==
  /\ records \in Seq(FormType)
  /\ \A i \in DOMAIN records :
       /\ Fit(records[i], mode, numbers)
       /\ mode # "edit" => records[i].no <= api.count
       /\ mode = "edit" => records[i].rev < api.match.rev
  /\ mode # "edit" => \A i, j \in DOMAIN records : i < j => records[i].no < records[j].no

Everywhere(numbers, mode, api, stored, page, orphans, records) ==
  /\ PageSound(page, mode, numbers) /\ StoredSound(stored, mode, numbers)
  /\ OrphansSound(orphans, mode, numbers) /\ ServerSound(api, mode)
  /\ RecordsSound(records, api, mode, numbers)
WorkInv ==
  /\ wsMode \in WsModes /\ wsTyped \in 0..MaxText
  /\ \E numbers \in Seq(Nat) :
       /\ Len(numbers) = wsTyped
       /\ Everywhere(numbers, wsMode, wsServer, wsStored, wsPage, wsOrphans, wsRecords)

-----------------------------------------------------------------------------
(* Forms.                                                                   *)
LEMMA FormFields ==
  ASSUME NEW form \in FormType
  PROVE  /\ form = [no |-> form.no, map |-> form.map, text |-> form.text, rev |-> form.rev]
         /\ form.no \in Nat /\ form.map \in WsMaps \cup {NoMap}
         /\ form.text \in 0..MaxText /\ form.text \in Nat /\ form.rev \in Nat
BY WorkspaceAssumption DEF FormType

LEMMA FormMade ==
  ASSUME NEW no \in Nat, NEW map \in WsMaps \cup {NoMap}, NEW text \in 0..MaxText, NEW rev \in Nat
  PROVE  [no |-> no, map |-> map, text |-> text, rev |-> rev] \in FormType
BY DEF FormType

LEMMA TextPut ==
  ASSUME NEW form \in FormType, NEW text \in 0..MaxText
  PROVE  /\ [form EXCEPT !.text = text] \in FormType
         /\ [form EXCEPT !.text = text].text = text
         /\ SameStart([form EXCEPT !.text = text], form)
BY DEF FormType, SameStart

LEMMA MapPut ==
  ASSUME NEW form \in FormType, NEW map \in WsMaps \cup {NoMap}
  PROVE  /\ [form EXCEPT !.map = map] \in FormType
         /\ [form EXCEPT !.map = map].text = form.text
         /\ SameStart([form EXCEPT !.map = map], form)
BY DEF FormType, SameStart

LEMMA RevRaised ==
  ASSUME NEW form \in FormType
  PROVE  /\ [form EXCEPT !.rev = @ + 1] \in FormType
         /\ [form EXCEPT !.rev = @ + 1].rev = form.rev + 1
BY DEF FormType

LEMMA StartsAgree ==
  ASSUME NEW a, NEW b, NEW c, SameStart(a, b), SameStart(b, c)
  PROVE  SameStart(a, c)
BY DEF SameStart

(* A form with the number and the input of another one fits where that does. *)
LEMMA FitsToo ==
  ASSUME NEW mode, NEW numbers, NEW form \in FormType, NEW other, Fit(other, mode, numbers),
         form.text = other.text, SameStart(form, other)
  PROVE  Fit(form, mode, numbers)
BY DEF Fit, SameStart

LEMMA EmptyFits ==
  ASSUME NEW mode, NEW numbers, NEW form \in FormType, mode # "edit" => form.text = 0
  PROVE  Fit(form, mode, numbers)
BY DEF Fit

-----------------------------------------------------------------------------
(* One more input is typed.                                                  *)
LEMMA FitsLater ==
  ASSUME NEW mode, NEW numbers \in Seq(Nat), NEW no \in Nat, NEW form,
         Fit(form, mode, numbers)
  PROVE  Fit(form, mode, Append(numbers, no))
BY DEF Fit

LEMMA DraftLater ==
  ASSUME NEW mode, NEW numbers \in Seq(Nat), NEW no \in Nat, NEW draft,
         DraftSound(draft, mode, numbers)
  PROVE  DraftSound(draft, mode, Append(numbers, no))
BY FitsLater DEF DraftSound

LEMMA RequestLater ==
  ASSUME NEW mode, NEW numbers \in Seq(Nat), NEW no \in Nat, NEW request,
         RequestSound(request, mode, numbers)
  PROVE  RequestSound(request, mode, Append(numbers, no))
BY FitsLater DEF RequestSound

-----------------------------------------------------------------------------
(* The page, when something on it is replaced.                               *)
LEMMA ValuesPut ==
  ASSUME NEW mode, NEW numbers, NEW page, FormSound(page, mode, numbers),
         NEW form, Fit(form, mode, numbers), SameStart(form, page.base),
         NEW next, next = [page EXCEPT !.values = form]
  PROVE  FormSound(next, mode, numbers)
BY DEF FormSound, WorkShaped

LEMMA TextTyped ==
  ASSUME NEW mode, NEW numbers, NEW page, FormSound(page, mode, numbers), NEW text \in 0..MaxText,
         mode # "edit" /\ text # 0
           => text \in DOMAIN numbers /\ page.values.no = numbers[text],
         NEW next, next = [page EXCEPT !.values.text = text]
  PROVE  FormSound(next, mode, numbers)
<1> DEFINE form == [page.values EXCEPT !.text = text]
<1>1. page.values \in FormType /\ SameStart(page.values, page.base)
  BY DEF FormSound, Fit
<1>2. form \in FormType /\ form.text = text /\ SameStart(form, page.values)
  BY <1>1, TextPut
<1>3. Fit(form, mode, numbers)
  BY <1>2 DEF Fit, SameStart
<1>4. SameStart(form, page.base)
  BY <1>1, <1>2, StartsAgree
<1>5. next = [page EXCEPT !.values = form]
  OBVIOUS
<1> HIDE DEF form
<1> QED BY <1>3, <1>4, <1>5, ValuesPut

LEMMA MapChosen ==
  ASSUME NEW mode, NEW numbers, NEW page, FormSound(page, mode, numbers),
         NEW map \in WsMaps \cup {NoMap}, NEW next, next = [page EXCEPT !.values.map = map]
  PROVE  FormSound(next, mode, numbers)
<1> DEFINE form == [page.values EXCEPT !.map = map]
<1>1. /\ page.values \in FormType /\ SameStart(page.values, page.base)
      /\ Fit(page.values, mode, numbers)
  BY DEF FormSound, Fit
<1>2. form \in FormType /\ form.text = page.values.text /\ SameStart(form, page.values)
  BY <1>1, MapPut
<1>3. Fit(form, mode, numbers)
  BY <1>1, <1>2, FitsToo
<1>4. SameStart(form, page.base)
  BY <1>1, <1>2, StartsAgree
<1>5. next = [page EXCEPT !.values = form]
  OBVIOUS
<1> HIDE DEF form
<1> QED BY <1>3, <1>4, <1>5, ValuesPut

LEMMA RecoveryGone ==
  ASSUME NEW mode, NEW numbers, NEW page, FormSound(page, mode, numbers),
         NEW next, next = [page EXCEPT !.recovery = Nothing]
  PROVE  FormSound(next, mode, numbers)
BY DEF FormSound, WorkShaped

LEMMA ConfirmPut ==
  ASSUME NEW mode, NEW numbers, NEW page, FormSound(page, mode, numbers),
         NEW open, open => mode # "edit",
         NEW next, next = [page EXCEPT !.confirmOpen = open]
  PROVE  FormSound(next, mode, numbers)
BY DEF FormSound, WorkShaped

LEMMA CancelPut ==
  ASSUME NEW mode, NEW numbers, NEW page, FormSound(page, mode, numbers),
         NEW open,
         NEW next, next = [page EXCEPT !.cancelOpen = open]
  PROVE  FormSound(next, mode, numbers)
BY DEF FormSound, WorkShaped

LEMMA KeysPut ==
  ASSUME NEW mode, NEW numbers, NEW page, FormSound(page, mode, numbers),
         NEW keys,
         NEW next, next = [page EXCEPT !.keys = keys]
  PROVE  FormSound(next, mode, numbers)
BY DEF FormSound, WorkShaped

LEMMA RequestPut ==
  ASSUME NEW mode, NEW numbers, NEW page, FormSound(page, mode, numbers),
         NEW request, request # Nothing => RequestSound(request, mode, numbers),
         NEW next, next = [page EXCEPT !.request = request]
  PROVE  FormSound(next, mode, numbers)
BY DEF FormSound, WorkShaped

LEMMA RecoveryRestored ==
  ASSUME NEW mode, NEW numbers, NEW page, FormSound(page, mode, numbers), page.recovery # Nothing
  PROVE  FormSound(RestoreRecovery(page), mode, numbers)
<1>1. /\ WorkShaped(page) /\ page.recovery.baseline = page.base
      /\ DraftSound(page.recovery, mode, numbers)
  BY DEF FormSound
<1>2. Fit(page.recovery.values, mode, numbers) /\ SameStart(page.recovery.values, page.base)
  BY <1>1 DEF DraftSound
<1>3. PICK mid : mid = [page EXCEPT !.values = page.recovery.values]
  OBVIOUS
<1>4. FormSound(mid, mode, numbers)
  BY <1>2, <1>3, ValuesPut
<1>5. RestoreRecovery(page) = [mid EXCEPT !.recovery = Nothing]
  BY <1>1, <1>3 DEF RestoreRecovery, WorkShaped
<1> QED BY <1>4, <1>5, RecoveryGone

LEMMA StagePut ==
  ASSUME NEW mode, NEW numbers, NEW request, RequestSound(request, mode, numbers), NEW stage
  PROVE  RequestSound([request EXCEPT !.stage = stage], mode, numbers)
<1> DEFINE next == [request EXCEPT !.stage = stage]
<1>1. request = [payload |-> request.payload, key |-> request.key, stage |-> request.stage]
  BY DEF RequestSound
<1>2. /\ next = [payload |-> next.payload, key |-> next.key, stage |-> next.stage]
      /\ next.payload = request.payload
  BY <1>1
<1> HIDE DEF next
<1> QED BY <1>2 DEF RequestSound

-----------------------------------------------------------------------------
(* The session draft.                                                        *)
LEMMA DraftMade ==
  ASSUME NEW mode, NEW numbers, NEW page, FormSound(page, mode, numbers), NEW resume
  PROVE  DraftSound(SessionDraft(page, resume), mode, numbers)
BY DEF SessionDraft, FormSound, DraftSound

LEMMA StoredLater ==
  ASSUME NEW mode, NEW numbers, NEW page, FormSound(page, mode, numbers), NEW stored,
         StoredSound(stored, mode, numbers)
  PROVE  StoredSound(StoredAfter(page, stored), mode, numbers)
BY DraftMade DEF StoredAfter, StoredSound

-----------------------------------------------------------------------------
(* Opening the form.                                                         *)
LEMMA ServerFields ==
  ASSUME NEW api, NEW mode, ServerSound(api, mode)
  PROVE  /\ api.maps \subseteq WsMaps
         /\ api.prev \in WsMaps \cup {NoMap} /\ api.draftMap \in WsMaps \cup {NoMap}
         /\ api.match \in FormType /\ api.count \in Nat
         /\ mode = "review" /\ api.draft # "confirmed" => api.count = 0
BY DEF ServerSound

LEMMA CandidateIs ==
  ASSUME NEW maps \in SUBSET WsMaps
  PROVE  OnlyCandidate(maps) \in WsMaps \cup {NoMap}
<1>1. CASE Cardinality(maps) = 1
  <2>1. maps # {}
    BY <1>1, FS_EmptySet
  <2> QED BY <2>1 DEF OnlyCandidate
<1>2. CASE Cardinality(maps) # 1
  BY <1>2 DEF OnlyCandidate
<1> QED BY <1>1, <1>2

LEMMA Filled ==
  ASSUME ServerSound(wsServer, wsMode), NEW map \in WsMaps \cup {NoMap}
  PROVE  SetupFill(map) \in WsMaps \cup {NoMap}
BY ServerFields, CandidateIs DEF SetupFill, FillRecordSetup, PreviousSetup

LEMMA Built ==
  ASSUME ServerSound(wsServer, wsMode), wsMode \in WsModes
  PROVE  /\ BuildInitialValues \in FormType
         /\ wsMode # "edit" => BuildInitialValues.text = 0
         /\ wsMode = "edit" => BuildInitialValues = wsServer.match
         /\ wsMode = "create" => BuildInitialValues.no = wsServer.count + 1
         /\ wsMode = "review" => BuildInitialValues.no = 1
BY WorkspaceAssumption, ServerFields, Filled, FormMade DEF BuildInitialValues

\* Nothing recorded began where a form that is opened begins.
LEMMA BuiltIsNew ==
  ASSUME ServerSound(wsServer, wsMode), wsMode \in WsModes, ~ConfirmedDraftLoaded,
         NEW numbers, RecordsSound(wsRecords, wsServer, wsMode, numbers),
         NEW i \in DOMAIN wsRecords
  PROVE  ~SameStart(wsRecords[i], BuildInitialValues)
<1>1. wsMode \in {"edit", "create", "review"}
  BY WorkspaceAssumption
<1>2. /\ wsRecords[i] \in FormType
      /\ wsMode # "edit" => wsRecords[i].no <= wsServer.count
      /\ wsMode = "edit" => wsRecords[i].rev < wsServer.match.rev
  BY DEF RecordsSound, Fit
<1>3. /\ wsRecords[i].no \in Nat /\ wsRecords[i].rev \in Nat
      /\ wsServer.match.rev \in Nat /\ wsServer.count \in Nat
  BY <1>2, ServerFields, FormFields
<1>4. CASE wsMode = "edit"
  BY <1>2, <1>3, <1>4, Built DEF SameStart
<1>5. CASE wsMode = "create"
  BY <1>2, <1>3, <1>5, Built DEF SameStart
<1>6. CASE wsMode = "review"
  BY <1>2, <1>3, <1>6, Built, ServerFields DEF SameStart, ConfirmedDraftLoaded
<1> QED BY <1>1, <1>4, <1>5, <1>6

LEMMA Mounted ==
  ASSUME ServerSound(wsServer, wsMode), wsMode \in WsModes, NEW numbers,
         StoredSound(wsStored, wsMode, numbers)
  PROVE  /\ FormSound(MountedForm, wsMode, numbers)
         /\ MountedForm.base = BuildInitialValues
<1>1. PICK base : base = BuildInitialValues
  OBVIOUS
<1>2. PICK recovery : recovery = Recovery(base)
  OBVIOUS
<1>3. PICK no : no = FALSE
  OBVIOUS
<1>4. PICK page : page = [at |-> "form", values |-> base, base |-> base, recovery |-> recovery,
                          confirmOpen |-> no, cancelOpen |-> no, keys |-> {}, request |-> Nothing]
  OBVIOUS
<1>5. /\ WorkShaped(page) /\ page.values = base /\ page.base = base
      /\ page.recovery = recovery /\ page.confirmOpen = no /\ page.request = Nothing
  BY <1>4 DEF WorkShaped
<1>6. /\ base \in FormType /\ (wsMode # "edit" => base.text = 0) /\ SameStart(base, base)
      /\ Fit(base, wsMode, numbers)
  BY <1>1, Built, EmptyFits DEF SameStart
<1>7. recovery # Nothing => DraftSound(recovery, wsMode, numbers) /\ recovery.baseline = base
  BY <1>2 DEF Recovery, StoredSound
<1>8. FormSound(page, wsMode, numbers)
  BY <1>3, <1>5, <1>6, <1>7 DEF FormSound
<1>9. MountedForm = IF page.recovery # Nothing /\ page.recovery.resume
                    THEN RestoreRecovery(page) ELSE page
  BY <1>1, <1>2, <1>3, <1>4, Zenon DEF MountedForm
<1>10. CASE page.recovery # Nothing /\ page.recovery.resume
  BY <1>9, <1>10, <1>5, <1>1, <1>8, RecoveryRestored DEF RestoreRecovery, WorkShaped
<1>11. CASE ~(page.recovery # Nothing /\ page.recovery.resume)
  <2>1. MountedForm = page
    BY <1>9, <1>11, Zenon
  <2> QED BY <1>1, <1>5, <1>8, <2>1
<1> QED BY <1>10, <1>11

-----------------------------------------------------------------------------
(* What the server records.                                                  *)
LEMMA RecordsOlder ==
  ASSUME NEW records, NEW api, NEW mode, NEW numbers, RecordsSound(records, api, mode, numbers),
         NEW next, api.count \in Nat, next.count \in Nat, api.count <= next.count,
         api.match \in FormType, next.match \in FormType, api.match.rev <= next.match.rev
  PROVE  RecordsSound(records, next, mode, numbers)
<1>1. \A i \in DOMAIN records : records[i].no \in Nat /\ records[i].rev \in Nat
  BY FormFields DEF RecordsSound, Fit
<1>2. api.match.rev \in Nat /\ next.match.rev \in Nat
  BY FormFields
<1> QED BY <1>1, <1>2 DEF RecordsSound

LEMMA RecordAdded ==
  ASSUME NEW records, NEW api, NEW mode, NEW numbers, RecordsSound(records, api, mode, numbers),
         NEW next, api.count \in Nat, next.count \in Nat, api.count <= next.count,
         api.match \in FormType, next.match \in FormType, api.match.rev <= next.match.rev,
         NEW form, Fit(form, mode, numbers),
         mode # "edit" => form.no = api.count + 1 /\ next.count = api.count + 1,
         mode = "edit" => form.rev < next.match.rev
  PROVE  RecordsSound(Append(records, form), next, mode, numbers)
<1>1. RecordsSound(records, next, mode, numbers)
  BY RecordsOlder
<1>2. records \in Seq(FormType) /\ form \in FormType
  BY DEF RecordsSound, Fit
<1>3. PICK all : all = Append(records, form)
  OBVIOUS
<1>4. /\ all \in Seq(FormType) /\ Len(all) = Len(records) + 1
      /\ \A i \in 1..Len(records) : all[i] = records[i]
      /\ all[Len(records) + 1] = form
      /\ Len(records) \in Nat /\ DOMAIN records = 1..Len(records)
      /\ DOMAIN all = 1..(Len(records) + 1)
  BY <1>2, <1>3
<1>5. ASSUME NEW i \in DOMAIN all
      PROVE  /\ Fit(all[i], mode, numbers)
             /\ mode # "edit" => all[i].no <= next.count
             /\ mode = "edit" => all[i].rev < next.match.rev
  BY <1>4, <1>1 DEF RecordsSound
<1>6. ASSUME mode # "edit", NEW i \in DOMAIN all, NEW j \in DOMAIN all, i < j
      PROVE  all[i].no < all[j].no
  <2>1. i \in 1..Len(records)
    BY <1>4, <1>6
  <2>2. CASE j \in 1..Len(records)
    BY <1>1, <1>4, <1>6, <2>1, <2>2 DEF RecordsSound
  <2>3. CASE j = Len(records) + 1
    <3>1. records[i].no <= api.count /\ records[i].no \in Nat
      BY <1>4, <1>6, <2>1, FormFields DEF RecordsSound, Fit
    <3> QED BY <1>4, <1>6, <2>1, <2>3, <3>1
  <2> QED BY <1>4, <2>2, <2>3
<1> HIDE <1>1
<1>7. RecordsSound(all, next, mode, numbers)
  BY <1>4, <1>5, <1>6 DEF RecordsSound
<1> QED BY <1>3, <1>7

LEMMA Performed ==
  ASSUME NEW mode, mode = wsMode, NEW numbers, NEW request, RequestSound(request, mode, numbers),
         ServerSound(wsServer, mode), RecordsSound(wsRecords, wsServer, mode, numbers),
         Perform(request)
  PROVE  ServerSound(wsServer', mode) /\ RecordsSound(wsRecords', wsServer', mode, numbers)
<1>1. CASE ~(request.key \notin wsServer.done /\ Accepts(request))
  BY <1>1 DEF Perform
<1>2. CASE request.key \notin wsServer.done /\ Accepts(request)
  <2>1. /\ wsServer' = Applied(request)
        /\ wsRecords' = IF request.payload.kind = "cancel" THEN wsRecords
                        ELSE Append(wsRecords, request.payload.values)
    BY <1>2 DEF Perform
  <2>2. /\ request.payload.kind \in {"confirm", "update", "cancel"}
        /\ request.payload.kind = "update" => mode = "edit"
        /\ request.payload.kind = "confirm" => mode # "edit"
        /\ request.payload.kind # "cancel" => Fit(request.payload.values, mode, numbers)
    BY DEF RequestSound
  <2>3. PICK payload : payload = request.payload
    OBVIOUS
  <2>4. PICK done : done = [wsServer EXCEPT !.done = @ \cup {request.key}]
    OBVIOUS
  <2>5. /\ done.maps = wsServer.maps /\ done.prev = wsServer.prev
        /\ done.draftMap = wsServer.draftMap /\ done.match = wsServer.match
        /\ done.count = wsServer.count /\ done.draft = wsServer.draft
        /\ done = [maps |-> done.maps, count |-> done.count, prev |-> done.prev,
                   draft |-> done.draft, draftMap |-> done.draftMap, done |-> done.done,
                   others |-> done.others, match |-> done.match]
    BY <2>4 DEF ServerSound
  <2>6. CASE payload.kind = "confirm"
    <3>1. PICK draft : draft = IF wsMode = "review" THEN "confirmed" ELSE done.draft
      OBVIOUS
    <3>2. wsServer' = [done EXCEPT !.count = @ + 1, !.prev = payload.values.map, !.draft = draft]
      BY <2>1, <2>3, <2>4, <2>5, <2>6, <3>1 DEF Applied
    <3>3. payload.values \in FormType /\ Fit(payload.values, mode, numbers)
      BY <2>2, <2>3, <2>6 DEF Fit
    <3>4. payload.values.no = wsServer.count + 1 /\ payload.values.map \in WsMaps \cup {NoMap}
      BY <1>2, <2>3, <2>6, <3>3, FormFields DEF Accepts, ConfirmAllowed
    <3>5. PICK next : next = wsServer'
      OBVIOUS
    <3>6. PICK counted : counted = [done EXCEPT !.count = done.count + 1]
      OBVIOUS
    <3>7. PICK marked : marked = [counted EXCEPT !.prev = payload.values.map]
      OBVIOUS
    <3>8. next = [marked EXCEPT !.draft = draft]
      BY <3>2, <3>5, <3>6, <3>7
    <3> HIDE <3>2
    <3>9. /\ next.maps = wsServer.maps /\ next.prev = payload.values.map
          /\ next.draftMap = wsServer.draftMap /\ next.match = wsServer.match
          /\ next.count = wsServer.count + 1 /\ next.draft = draft
          /\ next = [maps |-> next.maps, count |-> next.count, prev |-> next.prev,
                     draft |-> next.draft, draftMap |-> next.draftMap, done |-> next.done,
                     others |-> next.others, match |-> next.match]
      BY <2>5, <3>6, <3>7, <3>8
    <3>10. ServerSound(next, mode)
      BY <3>1, <3>4, <3>9, ServerFields DEF ServerSound
    <3>11. RecordsSound(Append(wsRecords, payload.values), next, mode, numbers)
      BY <2>2, <2>3, <2>6, <3>3, <3>4, <3>9, ServerFields, FormFields, RecordAdded
    <3> QED BY <2>1, <2>3, <2>6, <3>5, <3>10, <3>11
  <2>7. CASE payload.kind = "update"
    <3>1. payload.values \in FormType /\ Fit(payload.values, mode, numbers)
      BY <2>2, <2>3, <2>7 DEF Fit
    <3>2. PICK match : match = [payload.values EXCEPT !.rev = payload.values.rev + 1]
      OBVIOUS
    <3>3. match \in FormType /\ match.rev = payload.values.rev + 1
      BY <3>1, <3>2, RevRaised
    <3>4. payload.values.rev = wsServer.match.rev
      BY <1>2, <2>3, <2>7 DEF Accepts, UpdateAllowed
    <3>5. PICK next : next = wsServer'
      OBVIOUS
    <3>6. next = [done EXCEPT !.match = match]
      BY <2>1, <2>3, <2>4, <2>7, <3>2, <3>5 DEF Applied
    <3>7. /\ next.maps = wsServer.maps /\ next.prev = wsServer.prev
          /\ next.draftMap = wsServer.draftMap /\ next.match = match
          /\ next.count = wsServer.count /\ next.draft = wsServer.draft
          /\ next = [maps |-> next.maps, count |-> next.count, prev |-> next.prev,
                     draft |-> next.draft, draftMap |-> next.draftMap, done |-> next.done,
                     others |-> next.others, match |-> next.match]
      BY <2>5, <3>6
    <3>8. ServerSound(next, mode)
      BY <3>3, <3>7, ServerFields DEF ServerSound
    <3>9. payload.values.rev \in Nat /\ mode = "edit" /\ wsServer.count \in Nat
          /\ wsServer.match \in FormType
      BY <2>2, <2>3, <2>7, <3>1, FormFields, ServerFields
    <3>10. RecordsSound(Append(wsRecords, payload.values), next, mode, numbers)
      BY <3>1, <3>3, <3>4, <3>7, <3>9, RecordAdded
    <3> QED BY <2>1, <2>3, <2>7, <3>5, <3>8, <3>10
  <2>8. CASE payload.kind = "cancel"
    <3>1. PICK next : next = wsServer'
      OBVIOUS
    <3>2. next = [done EXCEPT !.draft = "cancelled"] /\ wsRecords' = wsRecords
      BY <2>1, <2>3, <2>4, <2>8, <3>1 DEF Applied
    <3>3. /\ next.maps = wsServer.maps /\ next.prev = wsServer.prev
          /\ next.draftMap = wsServer.draftMap /\ next.match = wsServer.match
          /\ next.count = wsServer.count /\ next.draft = "cancelled"
          /\ next = [maps |-> next.maps, count |-> next.count, prev |-> next.prev,
                     draft |-> next.draft, draftMap |-> next.draftMap, done |-> next.done,
                     others |-> next.others, match |-> next.match]
      BY <2>5, <3>2
    <3>4. mode = "review" => wsServer.count = 0
      BY <1>2, <2>3, <2>8, ServerFields DEF Accepts
    <3>5. ServerSound(next, mode)
      BY <3>3, <3>4, ServerFields DEF ServerSound
    <3>6. wsServer.count \in Nat /\ wsServer.match \in FormType /\ wsServer.match.rev \in Nat
      BY ServerFields, FormFields
    <3>7. RecordsSound(wsRecords, next, mode, numbers)
      BY <3>3, <3>6, RecordsOlder
    <3> QED BY <3>1, <3>2, <3>5, <3>7
  <2> QED BY <2>2, <2>3, <2>6, <2>7, <2>8
<1> QED BY <1>1, <1>2

-----------------------------------------------------------------------------
(* Each action.                                                              *)
Now(numbers) == Everywhere(numbers, wsMode, wsServer, wsStored, wsPage, wsOrphans, wsRecords)
Then(numbers) ==
  Everywhere(numbers, wsMode, wsServer', wsStored', wsPage', wsOrphans', wsRecords')

LEMMA FormIs ==
  ASSUME NEW numbers, Now(numbers), OpenForm
  PROVE  FormSound(wsPage, wsMode, numbers)
BY DEF Now, Everywhere, PageSound, OpenForm

LEMMA FormPages ==
  ASSUME NEW mode, NEW numbers, NEW page, FormSound(page, mode, numbers)
  PROVE  PageSound(page, mode, numbers)
<1>1. page.at = "form"
  BY DEF FormSound, WorkShaped
<1> QED BY <1>1 DEF PageSound

LEMMA OutPages ==
  ASSUME NEW mode, NEW numbers
  PROVE  PageSound(Out, mode, numbers) /\ StoredSound(Nothing, mode, numbers)
BY DEF PageSound, Out, StoredSound

\* A step that only commits a page.
LEMMA PageCommitted ==
  ASSUME NEW numbers, Now(numbers), NEW page, FormSound(page, wsMode, numbers), Commit(page),
         UNCHANGED <<wsServer, wsOrphans, wsRecords>>
  PROVE  Then(numbers)
BY StoredLater, FormPages DEF Commit, Now, Everywhere, Then

\* A step that only changes the form.
LEMMA OnlyForm ==
  ASSUME NEW numbers, Now(numbers), FormSound(wsPage', wsMode, numbers),
         UNCHANGED <<wsServer, wsStored, wsOrphans, wsRecords>>
  PROVE  Then(numbers)
BY FormPages DEF Now, Then, Everywhere

\* A step that ends the form, and what it stores and orphans.
LEMMA FormLeft ==
  ASSUME NEW numbers, Now(numbers), PageSound(wsPage', wsMode, numbers),
         StoredSound(wsStored', wsMode, numbers), OrphansSound(wsOrphans', wsMode, numbers),
         UNCHANGED <<wsServer, wsRecords>>
  PROVE  Then(numbers)
BY DEF Now, Then, Everywhere

LEMMA OpenWorkspaceInv ==
  ASSUME NEW numbers, Now(numbers), wsMode \in WsModes, OpenWorkspace
  PROVE  Then(numbers)
BY OutPages, FormLeft, Mounted, PageCommitted DEF OpenWorkspace, Now, Everywhere

LEMMA BackFromMastersInv ==
  ASSUME NEW numbers, Now(numbers), wsMode \in WsModes, BackFromMasters
  PROVE  Then(numbers)
BY OutPages, FormLeft, Mounted, PageCommitted DEF BackFromMasters, Now, Everywhere

LEMMA UndoInputInv ==
  ASSUME NEW numbers, Now(numbers), UndoInput
  PROVE  Then(numbers)
<1>1. PICK page : /\ page = [wsPage EXCEPT !.values.text = wsPage.base.text]
                  /\ OpenForm /\ Commit(page) /\ UNCHANGED <<wsServer, wsOrphans, wsRecords>>
  BY DEF UndoInput, Editable
<1>2. FormSound(wsPage, wsMode, numbers)
  BY <1>1, FormIs
<1>3. /\ wsPage.base.text \in 0..MaxText
      /\ wsMode # "edit" => wsPage.base.text = 0
  BY <1>2, FormFields DEF FormSound
<1>4. FormSound(page, wsMode, numbers)
  BY <1>1, <1>2, <1>3, TextTyped
<1> QED BY <1>1, <1>4, PageCommitted

LEMMA ChooseMapInv ==
  ASSUME NEW numbers, Now(numbers), ChooseMap
  PROVE  Then(numbers)
BY ServerFields, FormIs, MapChosen, PageCommitted DEF ChooseMap, Editable, Now, Everywhere

LEMMA FillLaterInv ==
  ASSUME NEW numbers, Now(numbers), FillLater
  PROVE  Then(numbers)
BY FormIs, FormFields, Filled, MapChosen, PageCommitted
DEF FillLater, FormSound, Fit, Now, Everywhere

LEMMA RestoreStoredInv ==
  ASSUME NEW numbers, Now(numbers), RestoreStored
  PROVE  Then(numbers)
BY FormIs, RecoveryRestored, PageCommitted DEF RestoreStored, Editable

LEMMA DiscardStoredInv ==
  ASSUME NEW numbers, Now(numbers), DiscardStored
  PROVE  Then(numbers)
BY FormIs, RecoveryGone, OutPages, StoredLater, FormPages, FormLeft
DEF DiscardStored, Editable, Now, Everywhere

\* Leaving the form.
LEMMA DraftKept ==
  ASSUME NEW numbers, Now(numbers), OpenForm, NEW resume
  PROVE  StoredSound(SaveBeforeLeave(resume), wsMode, numbers)
BY FormIs, DraftMade DEF StoredSound, SaveBeforeLeave

LEMMA Orphaned ==
  ASSUME NEW numbers, Now(numbers)
  PROVE  OrphansSound(Abandon(wsPage), wsMode, numbers)
<1>1. OrphansSound(wsOrphans, wsMode, numbers) /\ PageSound(wsPage, wsMode, numbers)
  BY DEF Now, Everywhere
<1>2. CASE wsPage.at = "form" /\ wsPage.request # Nothing /\ wsPage.request.stage = "sent"
  BY <1>1, <1>2, StagePut DEF PageSound, FormSound, Abandon, OrphansSound
<1>3. CASE ~(wsPage.at = "form" /\ wsPage.request # Nothing /\ wsPage.request.stage = "sent")
  <2>1. Abandon(wsPage) = wsOrphans
    BY <1>3 DEF Abandon
  <2> QED BY <1>1, <2>1
<1> QED BY <1>2, <1>3

LEMMA LeavePageInv ==
  ASSUME NEW numbers, Now(numbers), LeavePage
  PROVE  Then(numbers)
BY DraftKept, OutPages, FormLeft DEF LeavePage, Now, Everywhere

LEMMA DiscardAndLeaveInv ==
  ASSUME NEW numbers, Now(numbers), DiscardAndLeave
  PROVE  Then(numbers)
BY OutPages, FormLeft DEF DiscardAndLeave, Now, Everywhere

LEMMA ReloadTabInv ==
  ASSUME NEW numbers, Now(numbers), ReloadTab
  PROVE  Then(numbers)
BY DraftKept, Orphaned, OutPages, FormLeft DEF ReloadTab, Now, Everywhere

LEMMA ExpireStoredInv ==
  ASSUME NEW numbers, Now(numbers), ExpireStored
  PROVE  Then(numbers)
BY OutPages, FormLeft DEF ExpireStored, Now, Everywhere

LEMMA GoToMastersInv ==
  ASSUME NEW numbers, Now(numbers), GoToMasters
  PROVE  Then(numbers)
BY DraftKept, FormLeft DEF GoToMasters, Editable, PageSound, Now, Everywhere

\* The writes.
LEMMA Sent ==
  ASSUME NEW numbers, Now(numbers), OpenForm, NEW kind \in {"confirm", "update", "cancel"},
         kind = "update" => wsMode = "edit", kind = "confirm" => wsMode # "edit", Send(kind)
  PROVE  FormSound(wsPage', wsMode, numbers)
<1>1. FormSound(wsPage, wsMode, numbers)
  BY FormIs
<1>2. PICK values : values = IF kind = "cancel" THEN Nothing ELSE wsPage.values
  OBVIOUS
<1>3. PICK payload : payload = [kind |-> kind, values |-> values]
  OBVIOUS
<1>4. PICK key : key = KeyFor(payload)
  OBVIOUS
<1>5. PICK request : request = [payload |-> payload, key |-> key, stage |-> "sent"]
  OBVIOUS
<1>6. PICK keys : keys = wsPage.keys \cup {[payload |-> payload, key |-> key]}
  OBVIOUS
<1>7. wsPage' = [wsPage EXCEPT !.keys = keys, !.request = request]
  BY <1>2, <1>3, <1>4, <1>5, <1>6 DEF Send
<1>8. kind # "cancel" => Fit(values, wsMode, numbers)
  BY <1>1, <1>2 DEF FormSound
<1>9. /\ request.payload = payload /\ payload.kind = kind /\ payload.values = values
      /\ request = [payload |-> request.payload, key |-> request.key, stage |-> request.stage]
  BY <1>3, <1>5
<1>10. RequestSound(request, wsMode, numbers)
  BY <1>8, <1>9 DEF RequestSound
<1>11. PICK mid : mid = [wsPage EXCEPT !.keys = keys]
  OBVIOUS
<1>12. WorkShaped(wsPage)
  BY <1>1 DEF FormSound
<1>13. wsPage' = [mid EXCEPT !.request = request]
  BY <1>7, <1>11, <1>12 DEF WorkShaped
<1>14. FormSound(mid, wsMode, numbers)
  BY <1>1, <1>11, KeysPut
<1> QED BY <1>10, <1>13, <1>14, RequestPut

LEMMA PrimaryActionInv ==
  ASSUME NEW numbers, Now(numbers), PrimaryAction
  PROVE  Then(numbers)
BY Sent, OnlyForm, FormIs, ConfirmPut DEF PrimaryAction, Editable

LEMMA ConfirmRecordInv ==
  ASSUME NEW numbers, Now(numbers), ConfirmRecord
  PROVE  Then(numbers)
BY FormIs, Sent, OnlyForm DEF ConfirmRecord, FormSound

LEMMA CancelDraftConfirmedInv ==
  ASSUME NEW numbers, Now(numbers), CancelDraftConfirmed
  PROVE  Then(numbers)
BY Sent, OnlyForm DEF CancelDraftConfirmed

LEMMA CloseMatchDialogInv ==
  ASSUME NEW numbers, Now(numbers), CloseMatchDialog
  PROVE  Then(numbers)
<1>1. PICK no : no = FALSE
  OBVIOUS
<1>2. /\ OpenForm /\ wsPage' = [wsPage EXCEPT !.confirmOpen = no, !.cancelOpen = no]
      /\ UNCHANGED <<wsServer, wsStored, wsOrphans, wsRecords>>
  BY <1>1, Zenon DEF CloseMatchDialog
<1>3. FormSound(wsPage, wsMode, numbers) /\ WorkShaped(wsPage)
  BY <1>2, FormIs DEF FormSound
<1>4. PICK mid : mid = [wsPage EXCEPT !.confirmOpen = no]
  OBVIOUS
<1>5. wsPage' = [mid EXCEPT !.cancelOpen = no]
  BY <1>2, <1>3, <1>4 DEF WorkShaped
<1>6. FormSound(mid, wsMode, numbers)
  BY <1>1, <1>3, <1>4, ConfirmPut
<1> QED BY <1>2, <1>5, <1>6, CancelPut, OnlyForm

LEMMA OpenCancellationInv ==
  ASSUME NEW numbers, Now(numbers), OpenCancellation
  PROVE  Then(numbers)
BY FormIs, CancelPut, OnlyForm DEF OpenCancellation, Editable

\* The answers.
LEMMA RequestIs ==
  ASSUME NEW numbers, Now(numbers), Busy
  PROVE  /\ FormSound(wsPage, wsMode, numbers) /\ RequestSound(wsPage.request, wsMode, numbers)
BY FormIs DEF Busy, FormSound

\* The stage of the request is all that changes on the page.
LEMMA StageMoves ==
  ASSUME NEW numbers, Now(numbers), Busy, NEW stage,
         NEW next, next = [wsPage EXCEPT !.request.stage = stage]
  PROVE  FormSound(next, wsMode, numbers)
BY RequestIs, StagePut, RequestPut

LEMMA ServerAnswersInv ==
  ASSUME NEW numbers, Now(numbers), ServerAnswers
  PROVE  Then(numbers)
BY StageMoves, RequestIs, Performed, FormPages DEF ServerAnswers, Now, Everywhere, Then

LEMMA ConnectionLostInv ==
  ASSUME NEW numbers, Now(numbers), ConnectionLost
  PROVE  Then(numbers)
BY StageMoves, FormPages, Orphaned, FormLeft DEF ConnectionLost, Now, Everywhere

LEMMA OrphanArrivesInv ==
  ASSUME NEW numbers, Now(numbers), OrphanArrives
  PROVE  Then(numbers)
BY Performed DEF OrphanArrives, Now, Everywhere, OrphansSound, Then

LEMMA OrphanIsLostInv ==
  ASSUME NEW numbers, Now(numbers), OrphanIsLost
  PROVE  Then(numbers)
BY DEF OrphanIsLost, Now, Everywhere, OrphansSound, Then

LEMMA WriteSavedInv ==
  ASSUME NEW numbers, Now(numbers), WriteSaved \/ RedirectOnConflict
  PROVE  Then(numbers)
BY OutPages, FormLeft DEF WriteSaved, RedirectOnConflict, Now, Everywhere

LEMMA WriteFailedInv ==
  ASSUME NEW numbers, Now(numbers), WriteFailed
  PROVE  Then(numbers)
<1>1. PICK no : no = FALSE
  OBVIOUS
<1>2. /\ Busy /\ wsPage' = [wsPage EXCEPT !.request = Nothing, !.confirmOpen = no]
      /\ UNCHANGED <<wsServer, wsStored, wsOrphans, wsRecords>>
  BY <1>1, Zenon DEF WriteFailed
<1>3. FormSound(wsPage, wsMode, numbers) /\ WorkShaped(wsPage)
  BY <1>2, RequestIs DEF FormSound
<1>4. PICK mid : mid = [wsPage EXCEPT !.request = Nothing]
  OBVIOUS
<1>5. wsPage' = [mid EXCEPT !.confirmOpen = no]
  BY <1>2, <1>3, <1>4 DEF WorkShaped
<1>6. FormSound(mid, wsMode, numbers)
  BY <1>3, <1>4, RequestPut
<1> QED BY <1>1, <1>2, <1>5, <1>6, ConfirmPut, OnlyForm

\* What others do.
ServerShaped(api) ==
  api = [maps |-> api.maps, count |-> api.count, prev |-> api.prev,
         draft |-> api.draft, draftMap |-> api.draftMap, done |-> api.done,
         others |-> api.others, match |-> api.match]

LEMMA ServerMoves ==
  ASSUME NEW numbers, Now(numbers), UNCHANGED <<wsStored, wsPage, wsOrphans, wsRecords>>,
         ServerShaped(wsServer'), wsServer'.maps \subseteq WsMaps,
         wsServer'.prev \in WsMaps \cup {NoMap}, wsServer'.draftMap = wsServer.draftMap,
         wsServer'.match \in FormType, wsServer.match.rev <= wsServer'.match.rev,
         wsServer'.count \in Nat, wsServer.count <= wsServer'.count,
         wsMode = "review" /\ wsServer'.draft # "confirmed" => wsServer'.count = 0
  PROVE  Then(numbers)
BY ServerFields, RecordsOlder DEF Now, Everywhere, ServerSound, ServerShaped, Then

LEMMA ServerIs ==
  ASSUME NEW numbers, Now(numbers)
  PROVE  /\ ServerShaped(wsServer) /\ wsServer.maps \subseteq WsMaps
         /\ wsServer.prev \in WsMaps \cup {NoMap}
         /\ wsServer.match \in FormType /\ wsServer.match.rev \in Nat /\ wsServer.count \in Nat
         /\ wsMode = "review" /\ wsServer.draft # "confirmed" => wsServer.count = 0
BY ServerFields, FormFields DEF Now, Everywhere, ServerSound, ServerShaped

LEMMA AddMapInv ==
  ASSUME NEW numbers, Now(numbers), AddMap
  PROVE  Then(numbers)
BY ServerIs, ServerMoves DEF AddMap, ServerShaped

LEMMA OthersActInv ==
  ASSUME NEW numbers, Now(numbers), OthersAct
  PROVE  Then(numbers)
<1>1. PICK next : next = [wsServer EXCEPT !.others = @ + 1]
  OBVIOUS
<1>2. /\ ServerShaped(next) /\ next.maps = wsServer.maps
      /\ next.prev = wsServer.prev /\ next.draftMap = wsServer.draftMap
      /\ next.match = wsServer.match /\ next.count = wsServer.count
      /\ next.draft = wsServer.draft
  BY <1>1, ServerIs DEF ServerShaped
<1>3. UNCHANGED <<wsStored, wsPage, wsOrphans, wsRecords>>
  BY DEF OthersAct
<1>4. \/ /\ wsMode = "create"
         /\ \E m \in wsServer.maps : wsServer' = [next EXCEPT !.count = @ + 1, !.prev = m]
      \/ wsMode = "edit" /\ wsServer' = [next EXCEPT !.match.rev = @ + 1]
      \/ wsMode = "review" /\ wsServer' = [next EXCEPT !.draft = "confirmed", !.count = @ + 1]
  BY <1>1 DEF OthersAct
<1>5. CASE /\ wsMode = "create"
           /\ \E m \in wsServer.maps : wsServer' = [next EXCEPT !.count = @ + 1, !.prev = m]
  <2>1. PICK m \in wsServer.maps : wsServer' = [next EXCEPT !.count = next.count + 1, !.prev = m]
    BY <1>5
  <2>2. PICK mid : mid = [next EXCEPT !.count = next.count + 1]
    OBVIOUS
  <2>3. wsServer' = [mid EXCEPT !.prev = m]
    BY <1>2, <2>1, <2>2 DEF ServerShaped
  <2>4. /\ ServerShaped(mid) /\ mid.maps = wsServer.maps
        /\ mid.draftMap = wsServer.draftMap /\ mid.match = wsServer.match
        /\ mid.count = wsServer.count + 1
    BY <1>2, <2>2 DEF ServerShaped
  <2>5. /\ ServerShaped(wsServer') /\ wsServer'.maps = wsServer.maps
        /\ wsServer'.prev = m /\ wsServer'.draftMap = wsServer.draftMap
        /\ wsServer'.match = wsServer.match /\ wsServer'.count = wsServer.count + 1
    BY <2>3, <2>4 DEF ServerShaped
  <2> QED BY <1>3, <1>5, <2>5, ServerIs, ServerMoves
<1>6. CASE wsMode = "edit" /\ wsServer' = [next EXCEPT !.match.rev = @ + 1]
  <2>1. PICK match : match = [next.match EXCEPT !.rev = next.match.rev + 1]
    OBVIOUS
  <2>2. wsServer' = [next EXCEPT !.match = match]
    BY <1>6, <2>1
  <2>3. match \in FormType /\ match.rev = wsServer.match.rev + 1
    BY <1>2, <2>1, ServerIs, RevRaised
  <2>4. /\ ServerShaped(wsServer') /\ wsServer'.maps = wsServer.maps
        /\ wsServer'.prev = wsServer.prev /\ wsServer'.draftMap = wsServer.draftMap
        /\ wsServer'.match = match /\ wsServer'.count = wsServer.count
    BY <1>2, <2>2 DEF ServerShaped
  <2> QED BY <1>3, <1>6, <2>3, <2>4, ServerIs, ServerMoves
<1>7. CASE wsMode = "review" /\ wsServer' = [next EXCEPT !.draft = "confirmed", !.count = @ + 1]
  <2>1. wsServer' = [next EXCEPT !.draft = "confirmed", !.count = next.count + 1]
    BY <1>7
  <2>2. PICK mid : mid = [next EXCEPT !.draft = "confirmed"]
    OBVIOUS
  <2>3. wsServer' = [mid EXCEPT !.count = mid.count + 1]
    BY <1>2, <2>1, <2>2 DEF ServerShaped
  <2>4. /\ ServerShaped(mid) /\ mid.maps = wsServer.maps /\ mid.prev = wsServer.prev
        /\ mid.draftMap = wsServer.draftMap /\ mid.match = wsServer.match
        /\ mid.count = wsServer.count /\ mid.draft = "confirmed"
    BY <1>2, <2>2 DEF ServerShaped
  <2>5. /\ ServerShaped(wsServer') /\ wsServer'.maps = wsServer.maps
        /\ wsServer'.prev = wsServer.prev /\ wsServer'.draftMap = wsServer.draftMap
        /\ wsServer'.match = wsServer.match /\ wsServer'.count = wsServer.count + 1
        /\ wsServer'.draft = "confirmed"
    BY <2>3, <2>4 DEF ServerShaped
  <2> QED BY <1>3, <1>7, <2>5, ServerIs, ServerMoves
<1> QED BY <1>4, <1>5, <1>6, <1>7

-----------------------------------------------------------------------------
(* A new input takes the number of the form it is typed into.                *)
LEMMA TypeInputInv ==
  ASSUME NEW numbers \in Seq(Nat), Now(numbers), Len(numbers) = wsTyped, wsTyped \in 0..MaxText,
         TypeInput
  PROVE  \E more \in Seq(Nat) : Len(more) = wsTyped' /\ Then(more)
<1>1. /\ OpenForm /\ wsTyped < MaxText /\ wsTyped' = wsTyped + 1
      /\ Commit([wsPage EXCEPT !.values.text = wsTyped + 1])
      /\ UNCHANGED <<wsServer, wsOrphans, wsRecords>>
  BY DEF TypeInput, Editable
<1>2. /\ FormSound(wsPage, wsMode, numbers) /\ StoredSound(wsStored, wsMode, numbers)
      /\ OrphansSound(wsOrphans, wsMode, numbers) /\ ServerSound(wsServer, wsMode)
      /\ RecordsSound(wsRecords, wsServer, wsMode, numbers)
  BY <1>1, FormIs DEF Now, Everywhere
<1>3. wsPage.values.no \in Nat
  BY <1>2, FormFields DEF FormSound, Fit
<1>4. PICK more : more = Append(numbers, wsPage.values.no)
  OBVIOUS
<1>5. /\ more \in Seq(Nat) /\ Len(more) = wsTyped + 1
      /\ wsTyped + 1 \in DOMAIN more /\ more[wsTyped + 1] = wsPage.values.no
  BY <1>3, <1>4
<1>6. /\ StoredSound(wsStored, wsMode, more)
      /\ OrphansSound(wsOrphans, wsMode, more)
      /\ RecordsSound(wsRecords, wsServer, wsMode, more)
  BY <1>2, <1>3, <1>4, DraftLater, RequestLater, FitsLater
  DEF StoredSound, OrphansSound, RecordsSound
<1>7. FormSound(wsPage, wsMode, more)
  BY <1>2, <1>3, <1>4, FitsLater, DraftLater, RequestLater DEF FormSound
<1>8. Now(more)
  BY <1>2, <1>6, <1>7, FormPages DEF Now, Everywhere
<1>9. PICK text : text = wsTyped + 1
  OBVIOUS
<1>10. text \in 0..MaxText
  BY <1>1, <1>9, WorkspaceAssumption
<1>11. FormSound([wsPage EXCEPT !.values.text = text], wsMode, more)
  BY <1>5, <1>7, <1>9, <1>10, TextTyped
<1>12. Then(more)
  BY <1>1, <1>8, <1>9, <1>11, PageCommitted
<1> QED BY <1>1, <1>5, <1>12

LEMMA WorkInit == WorkspaceInit => WorkInv
<1> SUFFICES ASSUME WorkspaceInit PROVE WorkInv
  OBVIOUS
<1>1. PICK maps \in SUBSET WsMaps, saved \in WsMaps \cup {NoMap}, draftMap \in WsMaps \cup {NoMap},
           prev \in WsMaps \cup {NoMap} :
        wsServer = [maps |-> maps, count |-> 0, prev |-> prev, draft |-> "open",
                    draftMap |-> draftMap, done |-> {}, others |-> 0,
                    match |-> [no |-> 1, map |-> saved, text |-> 0, rev |-> 1]]
  BY DEF WorkspaceInit
<1>2. PICK match : match = [no |-> 1, map |-> saved, text |-> 0, rev |-> 1]
  OBVIOUS
<1>3. match \in FormType
  BY <1>2, FormMade, WorkspaceAssumption
<1>4. wsServer = [maps |-> maps, count |-> 0, prev |-> prev, draft |-> "open",
                  draftMap |-> draftMap, done |-> {}, others |-> 0, match |-> match]
  BY <1>1, <1>2
<1>5. ServerSound(wsServer, wsMode)
  BY <1>3, <1>4 DEF ServerSound
<1>6. /\ wsPage = Out /\ wsStored = Nothing /\ wsOrphans = {} /\ wsRecords = << >>
      /\ wsTyped = 0 /\ wsMode \in WsModes
  BY DEF WorkspaceInit
<1>7. PICK numbers \in Seq(Nat) : Len(numbers) = 0
  <2>1. << >> \in Seq(Nat) /\ Len(<< >>) = 0
    OBVIOUS
  <2> QED BY <2>1
<1>8. RecordsSound(wsRecords, wsServer, wsMode, numbers)
  BY <1>6 DEF RecordsSound
<1>9. Everywhere(numbers, wsMode, wsServer, wsStored, wsPage, wsOrphans, wsRecords)
  BY <1>5, <1>6, <1>8, OutPages DEF Everywhere, OrphansSound
<1>10. wsTyped \in 0..MaxText /\ Len(numbers) = wsTyped
  BY <1>6, <1>7, WorkspaceAssumption
<1> QED BY <1>6, <1>9, <1>10, Zenon DEF WorkInv

LEMMA WorkNext == WorkInv /\ [WorkspaceNext]_wsvars => WorkInv'
<1> SUFFICES ASSUME WorkInv, [WorkspaceNext]_wsvars PROVE WorkInv'
  OBVIOUS
<1>1. wsMode \in WsModes /\ wsTyped \in 0..MaxText
  BY DEF WorkInv
<1>2. PICK numbers \in Seq(Nat) : Len(numbers) = wsTyped /\ Now(numbers)
  BY DEF WorkInv, Now
<1>3. ASSUME NEW more \in Seq(Nat), Len(more) = wsTyped', Then(more), wsMode' = wsMode,
             wsTyped' \in 0..MaxText
      PROVE  WorkInv'
  BY <1>1, <1>3 DEF WorkInv, Then
<1>4. CASE TypeInput
  BY <1>4, <1>1, WorkspaceAssumption, <1>2, TypeInputInv, <1>3 DEF TypeInput
<1>5. CASE \/ OpenWorkspace \/ UndoInput \/ ChooseMap \/ FillLater \/ RestoreStored
           \/ DiscardStored
  <2>1. wsMode' = wsMode /\ wsTyped' = wsTyped
    BY <1>5 DEF OpenWorkspace, UndoInput, ChooseMap, FillLater, RestoreStored, DiscardStored
  <2>2. Then(numbers)
    BY <1>1, <1>2, <1>5, OpenWorkspaceInv, UndoInputInv, ChooseMapInv, FillLaterInv,
       RestoreStoredInv, DiscardStoredInv
  <2> QED BY <1>1, <1>2, <1>3, <2>1, <2>2
<1>6. CASE \/ LeavePage \/ DiscardAndLeave \/ ReloadTab \/ ExpireStored \/ GoToMasters
           \/ AddMap \/ BackFromMasters
  <2>1. wsMode' = wsMode /\ wsTyped' = wsTyped
    BY <1>6 DEF LeavePage, DiscardAndLeave, ReloadTab, ExpireStored, GoToMasters, AddMap,
                BackFromMasters
  <2>2. Then(numbers)
    BY <1>1, <1>2, <1>6, LeavePageInv, DiscardAndLeaveInv, ReloadTabInv, ExpireStoredInv,
       GoToMastersInv, AddMapInv, BackFromMastersInv
  <2> QED BY <1>1, <1>2, <1>3, <2>1, <2>2
<1>7. CASE \/ PrimaryAction \/ ConfirmRecord \/ CloseMatchDialog \/ OpenCancellation
           \/ CancelDraftConfirmed
  BY <1>7, <1>2, PrimaryActionInv, ConfirmRecordInv, CloseMatchDialogInv, OpenCancellationInv,
     CancelDraftConfirmedInv, <1>1, <1>3
  DEF PrimaryAction, ConfirmRecord, CloseMatchDialog, OpenCancellation, CancelDraftConfirmed
<1>8. CASE \/ ServerAnswers \/ ConnectionLost \/ OrphanArrives \/ OrphanIsLost
           \/ WriteSaved \/ RedirectOnConflict \/ WriteFailed \/ OthersAct
  <2>1. wsMode' = wsMode /\ wsTyped' = wsTyped
    BY <1>8 DEF ServerAnswers, ConnectionLost, OrphanArrives, OrphanIsLost, WriteSaved,
                RedirectOnConflict, WriteFailed, OthersAct
  <2>2. Then(numbers)
    BY <1>2, <1>8, ServerAnswersInv, ConnectionLostInv, OrphanArrivesInv, OrphanIsLostInv,
       WriteSavedInv, WriteFailedInv, OthersActInv
  <2> QED BY <1>1, <1>2, <1>3, <2>1, <2>2
<1>9. CASE UNCHANGED wsvars
  BY <1>1, <1>2, <1>3, <1>9 DEF wsvars, Now, Then
<1> QED BY <1>4, <1>5, <1>6, <1>7, <1>8, <1>9 DEF WorkspaceNext

-----------------------------------------------------------------------------
(* What it shows.                                                            *)
LEMMA RecordedOnceNow == WorkInv => NoInputRecordedTwice
<1> SUFFICES ASSUME WorkInv, wsMode # "edit",
                    NEW i \in DOMAIN wsRecords, NEW j \in DOMAIN wsRecords, i # j,
                    wsRecords[i].text = wsRecords[j].text, wsRecords[i].text # 0
             PROVE  FALSE
  BY DEF NoInputRecordedTwice
<1>1. PICK numbers \in Seq(Nat) : RecordsSound(wsRecords, wsServer, wsMode, numbers)
  BY DEF WorkInv, Everywhere
<1>2. wsRecords[i].no = wsRecords[j].no
  BY <1>1 DEF RecordsSound, Fit
<1>3. wsRecords[i].no \in Nat
  BY <1>1, FormFields DEF RecordsSound, Fit
<1>4. i \in Nat /\ j \in Nat
  BY <1>1 DEF RecordsSound
<1>5. CASE i < j
  BY <1>1, <1>2, <1>3, <1>5 DEF RecordsSound
<1>6. CASE j < i
  BY <1>1, <1>2, <1>3, <1>6 DEF RecordsSound
<1> QED BY <1>4, <1>5, <1>6

LEMMA OffersOnlyNew == WorkInv /\ [WorkspaceNext]_wsvars => OffersNothingRecorded
<1> SUFFICES ASSUME WorkInv, [WorkspaceNext]_wsvars, wsPage.at # "form", wsPage'.at = "form",
                    NEW i \in DOMAIN wsRecords
             PROVE  /\ wsPage'.values # wsRecords[i]
                    /\ wsPage'.recovery # Nothing => wsPage'.recovery.values # wsRecords[i]
  BY DEF OffersNothingRecorded
<1>1. wsMode \in WsModes
  BY DEF WorkInv
<1>2. PICK numbers \in Seq(Nat) : Now(numbers)
  BY DEF WorkInv, Now
<1>3. OpenWorkspace \/ BackFromMasters
  <2>1. ~OpenForm /\ ~Busy /\ ~Editable
    BY DEF OpenForm, Busy, Editable
  <2>2. wsPage' # Out /\ wsPage' # wsPage
    BY DEF Out
  <2> QED BY <2>1, <2>2 DEF WorkspaceNext, wsvars, TypeInput, UndoInput, ChooseMap, FillLater,
            RestoreStored, DiscardStored, LeavePage, DiscardAndLeave, ReloadTab, ExpireStored,
            GoToMasters, AddMap, PrimaryAction, ConfirmRecord, CloseMatchDialog,
            OpenCancellation, CancelDraftConfirmed, ServerAnswers, ConnectionLost,
            OrphanArrives, OrphanIsLost, WriteSaved, RedirectOnConflict, WriteFailed, OthersAct
<1>4. ~ConfirmedDraftLoaded /\ wsPage' = MountedForm
  BY <1>3 DEF OpenWorkspace, BackFromMasters, Commit, Out
<1>5. PICK page : page = wsPage'
  OBVIOUS
<1>6. FormSound(page, wsMode, numbers) /\ page.base = BuildInitialValues
  BY <1>1, <1>2, <1>4, <1>5, Mounted DEF Now, Everywhere
<1>7. ~SameStart(wsRecords[i], page.base)
  BY <1>1, <1>2, <1>4, <1>6, BuiltIsNew DEF Now, Everywhere
<1>8. page.values # wsRecords[i]
  BY <1>6, <1>7 DEF FormSound
<1>9. page.recovery # Nothing => page.recovery.values # wsRecords[i]
  BY <1>6, <1>7 DEF FormSound, DraftSound
<1> QED BY <1>5, <1>8, <1>9

\* For any maps, modes and numbers of inputs, keys and acts of others: an input
\* the user typed is recorded once, and none already recorded is offered again,
\* whatever is lost, retried, reloaded or resumed in between (useMatchSave, the
\* stored input of the workspace and the server's checks).
THEOREM RecordedOnce == WorkspaceSpec => InputRecordedOnce
<1>1. WorkInv /\ [WorkspaceNext]_wsvars
        => [NoInputRecordedTwice' /\ OffersNothingRecorded]_wsvars
  <2> SUFFICES ASSUME WorkInv, [WorkspaceNext]_wsvars
               PROVE  NoInputRecordedTwice' /\ OffersNothingRecorded
    OBVIOUS
  <2>1. WorkInv'
    BY WorkNext
  <2>2. NoInputRecordedTwice'
    BY <2>1, RecordedOnceNow, PTL
  <2> QED BY <2>2, OffersOnlyNew
<1> QED BY <1>1, WorkInit, WorkNext, PTL DEF WorkspaceSpec, InputRecordedOnce

-----------------------------------------------------------------------------
(***************************************************************************)
(* The source images of a review: the displayed image is downloaded first, *)
(* tries are asked for, URLs are released, and an archive is of the page.  *)
(***************************************************************************)
(* The inductive invariant.                                                 *)
EntryShaped(entry) ==
  /\ entry = [image |-> entry.image, read |-> entry.read, foreground |-> entry.foreground,
              background |-> entry.background, replaced |-> entry.replaced, url |-> entry.url]
  /\ entry.image # 0 /\ entry.foreground \in BOOLEAN /\ entry.background \in BOOLEAN
  /\ entry.replaced \in BOOLEAN /\ entry.url \in BOOLEAN
EntrySound(entry) ==
  /\ EntryShaped(entry)
  /\ entry.foreground \/ entry.replaced \/ entry.url => entry.background
  /\ entry.read = "fetching" => entry.background /\ ~entry.url /\ ~entry.replaced
ResourceShaped(r) ==
  /\ r = [stopped |-> r.stopped, active |-> r.active, running |-> r.running,
          blocked |-> r.blocked, entries |-> r.entries]
  /\ r.entries = [k \in ImageKinds |-> r.entries[k]]
  /\ r.active \in ImageKinds /\ r.stopped \in BOOLEAN /\ r.blocked \in BOOLEAN
ResourceSound(r) ==
  /\ ResourceShaped(r)
  /\ \A k \in ImageKinds : r.entries[k] = NoEntry \/ EntrySound(r.entries[k])
  /\ \A k \in ImageKinds : r.running = k <=> IsEntry(r.entries[k]) /\ r.entries[k].read = "fetching"
  /\ r.running \in ImageKinds \cup {NoKind}
  /\ r.blocked /\ r.running # NoKind => r.entries[r.running].foreground
  /\ r.stopped => \A k \in ImageKinds : r.entries[k] = NoEntry
Tried(r) == ~NeedsDisplay(r.entries[r.active])

ArchiveSound ==
  /\ siSaved \subseteq {siList.rev}
  /\ siArchive.request \in {NoArchive, siList.rev}
  /\ siArchive.request # NoArchive => siArchive.request # siArchive.conflict
  /\ siList.loading => siArchive.request = NoArchive /\ siSaved = {}
  /\ siArchive = [request |-> siArchive.request, conflict |-> siArchive.conflict,
                  asking |-> siArchive.asking]
ListSound ==
  /\ siList = [loading |-> siList.loading, rev |-> siList.rev, image |-> siList.image,
               newer |-> siList.newer]
  /\ siList.loading \in BOOLEAN
  /\ siList.loading => \A k \in ImageKinds : siList.image[k] = 0
  /\ \A k \in ImageKinds :
       IsEntry(siResource.entries[k]) => siResource.entries[k].image = siList.image[k]
ViewSound ==
  /\ siView = [choice |-> siView.choice, preferred |-> siView.preferred,
               preview |-> siView.preview]
  /\ siView.choice \in ImageKinds \cup {AutoKind} /\ siView.preferred \in ImageKinds
ImagesInv ==
  /\ ResourceSound(siResource) /\ ListSound /\ ViewSound /\ ArchiveSound
  /\ ~siResource.stopped /\ ~siList.loading => Tried(siResource)
  /\ siUrls = UrlsOf(siResource)
  /\ siAsked \in [ImageKinds -> Nat]

-----------------------------------------------------------------------------
(* The kinds, and the first of them.                                         *)
LEMMA KindNames == NoKind \notin ImageKinds /\ AutoKind \notin ImageKinds /\ SiKinds[1] \in ImageKinds
BY SiAssumption DEF ImageKinds, NoKind, AutoKind

LEMMA NatOrder ==
  \E R : IsWellFoundedOn(R, Nat) /\ \A x, y \in Nat : x < y <=> <<x, y>> \in R
BY NatLessThanWellFounded DEF OpToRel

LEMMA Minimal ==
  ASSUME NEW R, IsWellFoundedOn(R, Nat), NEW T, T \subseteq Nat, T # {}
  PROVE  \E x \in T : \A y \in T : ~(<<y, x>> \in R)
BY WFMin

LEMMA LeastNumber ==
  ASSUME NEW T, T \subseteq Nat, T # {}
  PROVE  \E x \in T : \A y \in T : x <= y
<1>1. PICK R : IsWellFoundedOn(R, Nat) /\ \A x, y \in Nat : x < y <=> <<x, y>> \in R
  BY NatOrder
<1>2. PICK x \in T : \A y \in T : ~(<<y, x>> \in R)
  BY <1>1, Minimal
<1>3. ASSUME NEW y \in T PROVE x <= y
  <2>1. y \in Nat /\ x \in Nat
    OBVIOUS
  <2>2. ~(y < x)
    BY <1>1, <1>2, <2>1, Zenon
  <2> QED BY <2>1, <2>2
<1> QED BY <1>3

LEMMA FirstKindIs ==
  ASSUME NEW kinds
  PROVE  \/ FirstKind(kinds) = NoKind
         \/ FirstKind(kinds) \in kinds /\ FirstKind(kinds) \in ImageKinds
<1> DEFINE places == {i \in DOMAIN SiKinds : SiKinds[i] \in kinds}
<1>1. CASE places = {}
  BY <1>1 DEF FirstKind
<1>2. CASE places # {}
  <2>1. places \subseteq Nat
    BY SiAssumption
  <2>2. \E i \in places : \A j \in places : i <= j
    BY <1>2, <2>1, LeastNumber
  <2>3. PICK i \in places : FirstKind(kinds) = SiKinds[i]
    BY <1>2, <2>2 DEF FirstKind
  <2> QED BY <2>3 DEF ImageKinds
<1> QED BY <1>1, <1>2

-----------------------------------------------------------------------------
(* Fields of entries and resources.                                          *)
LEMMA SoundEntry ==
  ASSUME NEW entry, EntrySound(entry)
  PROVE  IsEntry(entry) /\ EntryShaped(entry)
BY DEF EntrySound, EntryShaped, IsEntry, NoEntry

LEMMA EntryForeground ==
  ASSUME NEW entry, EntryShaped(entry), NEW yes \in BOOLEAN,
         NEW next, next = [entry EXCEPT !.foreground = yes]
  PROVE  /\ EntryShaped(next) /\ next.foreground = yes
         /\ next.image = entry.image /\ next.read = entry.read /\ next.url = entry.url
         /\ next.background = entry.background /\ next.replaced = entry.replaced
BY DEF EntryShaped

LEMMA EntryRead ==
  ASSUME NEW entry, EntryShaped(entry), NEW read, NEW next, next = [entry EXCEPT !.read = read]
  PROVE  /\ EntryShaped(next) /\ next.read = read
         /\ next.image = entry.image /\ next.foreground = entry.foreground
         /\ next.url = entry.url
         /\ next.background = entry.background /\ next.replaced = entry.replaced
BY DEF EntryShaped

LEMMA EntryBackground ==
  ASSUME NEW entry, EntryShaped(entry), NEW next, next = [entry EXCEPT !.background = TRUE]
  PROVE  /\ EntryShaped(next) /\ next.background = TRUE
         /\ next.image = entry.image /\ next.foreground = entry.foreground
         /\ next.url = entry.url
         /\ next.read = entry.read /\ next.replaced = entry.replaced
BY DEF EntryShaped

LEMMA EntryUrl ==
  ASSUME NEW entry, EntryShaped(entry), NEW yes \in BOOLEAN,
         NEW next, next = [entry EXCEPT !.url = yes]
  PROVE  /\ EntryShaped(next) /\ next.url = yes
         /\ next.image = entry.image /\ next.foreground = entry.foreground
         /\ next.background = entry.background
         /\ next.read = entry.read /\ next.replaced = entry.replaced
BY DEF EntryShaped

LEMMA EntryReplaced ==
  ASSUME NEW entry, EntryShaped(entry), NEW yes \in BOOLEAN,
         NEW next, next = [entry EXCEPT !.replaced = yes]
  PROVE  /\ EntryShaped(next) /\ next.replaced = yes
         /\ next.image = entry.image /\ next.foreground = entry.foreground
         /\ next.background = entry.background
         /\ next.read = entry.read /\ next.url = entry.url
BY DEF EntryShaped

LEMMA EntryPut ==
  ASSUME NEW r, ResourceShaped(r), NEW k \in ImageKinds, NEW entry,
         NEW s, s = [r EXCEPT !.entries[k] = entry]
  PROVE  /\ ResourceShaped(s) /\ s.entries[k] = entry
         /\ \A j \in ImageKinds : j # k => s.entries[j] = r.entries[j]
         /\ s.active = r.active /\ s.running = r.running
         /\ s.stopped = r.stopped /\ s.blocked = r.blocked
BY DEF ResourceShaped

LEMMA RunningPut ==
  ASSUME NEW r, ResourceShaped(r), NEW k, NEW s, s = [r EXCEPT !.running = k]
  PROVE  /\ ResourceShaped(s) /\ s.running = k
         /\ s.entries = r.entries /\ s.active = r.active
         /\ s.stopped = r.stopped /\ s.blocked = r.blocked
BY DEF ResourceShaped

LEMMA EntriesPut ==
  ASSUME NEW r, ResourceShaped(r), NEW E, E = [k \in ImageKinds |-> E[k]],
         NEW s, s = [r EXCEPT !.entries = E]
  PROVE  /\ ResourceShaped(s) /\ s.entries = E
         /\ s.running = r.running /\ s.active = r.active
         /\ s.stopped = r.stopped /\ s.blocked = r.blocked
BY DEF ResourceShaped

LEMMA ActivePut ==
  ASSUME NEW r, ResourceShaped(r), NEW k \in ImageKinds, NEW s, s = [r EXCEPT !.active = k]
  PROVE  /\ ResourceShaped(s) /\ s.active = k
         /\ s.running = r.running /\ s.entries = r.entries
         /\ s.stopped = r.stopped /\ s.blocked = r.blocked
BY DEF ResourceShaped

LEMMA BlockedPut ==
  ASSUME NEW r, ResourceShaped(r), NEW yes \in BOOLEAN, NEW s, s = [r EXCEPT !.blocked = yes]
  PROVE  /\ ResourceShaped(s) /\ s.blocked = yes
         /\ s.running = r.running /\ s.entries = r.entries
         /\ s.stopped = r.stopped /\ s.active = r.active
BY DEF ResourceShaped

LEMMA StoppedPut ==
  ASSUME NEW r, ResourceShaped(r), NEW yes \in BOOLEAN, NEW s, s = [r EXCEPT !.stopped = yes]
  PROVE  /\ ResourceShaped(s) /\ s.stopped = yes
         /\ s.running = r.running /\ s.entries = r.entries
         /\ s.blocked = r.blocked /\ s.active = r.active
BY DEF ResourceShaped

\* What does not change when downloads begin.
SameHeld(r, s) ==
  /\ s.active = r.active /\ s.stopped = r.stopped
  /\ \A k \in ImageKinds :
       /\ IsEntry(s.entries[k]) <=> IsEntry(r.entries[k])
       /\ IsEntry(r.entries[k]) => /\ s.entries[k].image = r.entries[k].image
                                   /\ s.entries[k].url = r.entries[k].url
                                   
LEMMA SameUrls ==
  ASSUME NEW r, NEW s, SameHeld(r, s)
  PROVE  UrlsOf(s) = UrlsOf(r)
BY DEF SameHeld, UrlsOf

LEMMA HeldThrough ==
  ASSUME NEW r, NEW s, NEW t, SameHeld(r, s), SameHeld(s, t)
  PROVE  SameHeld(r, t)
BY DEF SameHeld

-----------------------------------------------------------------------------
(* What the resource does when it looks for the next download.               *)
RunningIs(r) ==
  \A k \in ImageKinds : r.running = k <=> IsEntry(r.entries[k]) /\ r.entries[k].read = "fetching"
EntriesSound(r) == \A k \in ImageKinds : r.entries[k] = NoEntry \/ EntrySound(r.entries[k])

LEMMA SoundParts ==
  ASSUME NEW r
  PROVE  ResourceSound(r) <=>
           /\ ResourceShaped(r) /\ EntriesSound(r) /\ RunningIs(r)
           /\ r.running \in ImageKinds \cup {NoKind}
           /\ r.blocked /\ r.running # NoKind => r.entries[r.running].foreground
           /\ r.stopped => \A k \in ImageKinds : r.entries[k] = NoEntry
BY Zenon DEF ResourceSound, EntriesSound, RunningIs

LEMMA RunningEntry ==
  ASSUME NEW r, ResourceSound(r), r.running # NoKind
  PROVE  /\ r.running \in ImageKinds /\ IsEntry(r.entries[r.running])
         /\ EntrySound(r.entries[r.running]) /\ r.entries[r.running].read = "fetching"
         /\ ~r.stopped
BY SoundParts DEF RunningIs, EntriesSound, IsEntry

LEMMA Foregrounded ==
  ASSUME NEW entry, EntrySound(entry), entry.read = "fetching",
         NEW next, next = [entry EXCEPT !.foreground = TRUE]
  PROVE  /\ EntrySound(next) /\ next.image = entry.image /\ next.url = entry.url
         /\ next.read = entry.read /\ next.foreground
BY EntryForeground DEF EntrySound

LEMMA JoinedSound ==
  ASSUME NEW r, ResourceSound(r), NEW s, s = Joined(r)
  PROVE  /\ ResourceSound(s) /\ SameHeld(r, s) /\ s.running = r.running
         /\ s.blocked = r.blocked
         /\ s.running # NoKind /\ s.running = s.active => ~NeedsDisplay(s.entries[s.active])
         /\ \A k \in ImageKinds : NeedsDisplay(s.entries[k]) => NeedsDisplay(r.entries[k])
<1>1. CASE ~(r.running # NoKind /\ r.running = r.active)
  BY <1>1 DEF Joined, SameHeld
<1>2. CASE r.running # NoKind /\ r.running = r.active
  <2>1. PICK k : k = r.active
    OBVIOUS
  <2>2. PICK entry : entry = r.entries[k]
    OBVIOUS
  <2>3. PICK next : next = [entry EXCEPT !.foreground = TRUE]
    OBVIOUS
  <2>4. k \in ImageKinds /\ EntrySound(entry) /\ entry.read = "fetching" /\ IsEntry(entry)
    BY <1>2, <2>1, <2>2, RunningEntry
  <2>5. s = [r EXCEPT !.entries[k] = next]
    BY <1>2, <2>1, <2>2, <2>3, SoundParts DEF Joined, ResourceShaped
  <2>6. ResourceShaped(r)
    BY SoundParts
  <2>7. /\ EntrySound(next) /\ next.image = entry.image /\ next.url = entry.url
        /\ next.read = entry.read /\ next.foreground
    BY <2>3, <2>4, Foregrounded
  <2>8. IsEntry(next)
    BY <2>7, SoundEntry
  <2>9. /\ ResourceShaped(s) /\ s.entries[k] = next
        /\ \A j \in ImageKinds : j # k => s.entries[j] = r.entries[j]
        /\ s.active = r.active /\ s.running = r.running
        /\ s.stopped = r.stopped /\ s.blocked = r.blocked
    BY <2>4, <2>5, <2>6, EntryPut
  <2>10. SameHeld(r, s)
    BY <2>2, <2>4, <2>7, <2>8, <2>9 DEF SameHeld
  <2>11. EntriesSound(s)
    BY <2>7, <2>9, SoundParts DEF EntriesSound
  <2>12. RunningIs(s)
    BY <2>2, <2>4, <2>7, <2>8, <2>9, SoundParts DEF RunningIs
  <2>13. ResourceSound(s)
    BY <1>2, <2>1, <2>4, <2>7, <2>9, <2>11, <2>12, SoundParts, RunningEntry
  <2>14. \A j \in ImageKinds : NeedsDisplay(s.entries[j]) => NeedsDisplay(r.entries[j])
    BY <2>7, <2>9 DEF NeedsDisplay
  <2>15. ~NeedsDisplay(s.entries[s.active])
    BY <2>1, <2>7, <2>9 DEF NeedsDisplay
  <2> QED BY <2>9, <2>10, <2>13, <2>14, <2>15
<1> QED BY <1>1, <1>2

LEMMA BackgroundFields ==
  ASSUME NEW entry, EntryShaped(entry), NEW next, next = InBackground(entry)
  PROVE  /\ EntryShaped(next) /\ next.read = entry.read
         /\ next.image = entry.image /\ ~next.foreground
         /\ next.url = entry.url
         /\ next.background = entry.background
         /\ next.replaced = entry.replaced
BY EntryForeground DEF InBackground

LEMMA HaltedFields ==
  ASSUME NEW entry, EntryShaped(entry), NEW next, next = Halted(entry)
  PROVE  /\ EntryShaped(next) /\ next.read = "idle"
         /\ next.image = entry.image /\ ~next.foreground
         /\ next.url = entry.url
         /\ next.background = entry.background
         /\ next.replaced = entry.replaced
BY BackgroundFields, EntryRead DEF Halted

LEMMA HaltedSound ==
  ASSUME NEW entry, EntrySound(entry), NEW next, next = Halted(entry)
  PROVE  /\ EntrySound(next) /\ next.image = entry.image /\ next.url = entry.url
         /\ next.read = "idle"
BY SoundEntry, HaltedFields DEF EntrySound

LEMMA PreemptedSound ==
  ASSUME NEW r, ResourceSound(r), r.running # NoKind, r.running # r.active,
         NEW s, s = Preempted(r)
  PROVE  /\ ResourceSound(s) /\ SameHeld(r, s) /\ s.running = NoKind
         /\ s.blocked = r.blocked /\ s.entries[s.active] = r.entries[r.active]
<1>1. PICK k : k = r.running
  OBVIOUS
<1>2. PICK entry : entry = r.entries[k]
  OBVIOUS
<1>3. PICK next : next = Halted(entry)
  OBVIOUS
<1>4. PICK mid : mid = [r EXCEPT !.running = NoKind]
  OBVIOUS
<1>5. ResourceShaped(r) /\ r.active \in ImageKinds
  BY SoundParts DEF ResourceShaped
<1>6. k \in ImageKinds /\ EntrySound(entry)
  BY <1>1, <1>2, RunningEntry
<1>7. /\ ResourceShaped(mid) /\ mid.running = NoKind
      /\ mid.entries = r.entries /\ mid.active = r.active
      /\ mid.stopped = r.stopped /\ mid.blocked = r.blocked
  BY <1>4, <1>5, RunningPut
<1>8. s = [mid EXCEPT !.entries[k] = next]
  BY <1>1, <1>2, <1>3, <1>4, <1>5 DEF Preempted, ResourceShaped
<1>9. /\ ResourceShaped(s) /\ s.entries[k] = next
      /\ \A j \in ImageKinds : j # k => s.entries[j] = mid.entries[j]
      /\ s.active = mid.active /\ s.running = mid.running
      /\ s.stopped = mid.stopped /\ s.blocked = mid.blocked
  BY <1>6, <1>7, <1>8, EntryPut
<1>10. /\ EntrySound(next) /\ next.image = entry.image /\ next.url = entry.url
       /\ next.read = "idle"
  BY <1>3, <1>6, HaltedSound
<1>11. IsEntry(next) /\ IsEntry(entry)
  BY <1>6, <1>10, SoundEntry
<1>12. SameHeld(r, s)
  BY <1>2, <1>7, <1>9, <1>10, <1>11 DEF SameHeld
<1>13. EntriesSound(s)
  BY <1>7, <1>9, <1>10, SoundParts DEF EntriesSound
<1>14. RunningIs(s)
  BY <1>1, <1>7, <1>9, <1>10, SoundParts, KindNames DEF RunningIs
<1>15. ~s.stopped
  BY <1>7, <1>9, RunningEntry
<1>16. ResourceSound(s)
  BY <1>7, <1>9, <1>13, <1>14, <1>15, SoundParts
<1> QED BY <1>1, <1>5, <1>7, <1>9, <1>12, <1>16

LEMMA BegunSound ==
  ASSUME NEW entry, EntrySound(entry), NEW yes \in BOOLEAN,
         ~entry.url, ~entry.replaced,
         NEW next, next = Begun(entry, yes)
  PROVE  /\ EntrySound(next) /\ next.image = entry.image /\ next.url = entry.url
         /\ next.read = "fetching" /\ next.foreground = (entry.foreground \/ yes)
         /\ next.replaced = entry.replaced
BY SoundEntry, EntryRead, EntryBackground, EntryForeground DEF EntrySound, EntryShaped, Begun

LEMMA StartSound ==
  ASSUME NEW r, ResourceSound(r), r.running = NoKind, ~r.stopped, NEW k \in ImageKinds,
         NEW yes \in BOOLEAN, r.blocked => yes,
         IsEntry(r.entries[k]), ~r.entries[k].url, ~r.entries[k].replaced,
         NEW s, s = Start(r, k, yes)
  PROVE  /\ ResourceSound(s) /\ SameHeld(r, s) /\ s.running = k
         /\ \A j \in ImageKinds : NeedsDisplay(s.entries[j]) => NeedsDisplay(r.entries[j])
         /\ yes => ~NeedsDisplay(s.entries[k])
<1>1. PICK entry : entry = r.entries[k]
  OBVIOUS
<1>2. PICK next : next = Begun(entry, yes)
  OBVIOUS
<1>3. PICK mid : mid = [r EXCEPT !.running = k]
  OBVIOUS
<1>4. ResourceShaped(r) /\ EntrySound(entry)
  BY <1>1, SoundParts DEF EntriesSound, IsEntry
<1>5. /\ ResourceShaped(mid) /\ mid.running = k
      /\ mid.entries = r.entries /\ mid.active = r.active
      /\ mid.stopped = r.stopped /\ mid.blocked = r.blocked
  BY <1>3, <1>4, RunningPut
<1>6. s = [mid EXCEPT !.entries[k] = next]
  BY <1>1, <1>2, <1>3, <1>4 DEF Start, ResourceShaped
<1>7. /\ ResourceShaped(s) /\ s.entries[k] = next
      /\ \A j \in ImageKinds : j # k => s.entries[j] = mid.entries[j]
      /\ s.active = mid.active /\ s.running = mid.running
      /\ s.stopped = mid.stopped /\ s.blocked = mid.blocked
  BY <1>5, <1>6, EntryPut
<1>8. /\ EntrySound(next) /\ next.image = entry.image /\ next.url = entry.url
      /\ next.read = "fetching" /\ next.foreground = (entry.foreground \/ yes)
      /\ next.replaced = entry.replaced
  BY <1>1, <1>2, <1>4, BegunSound
<1>9. IsEntry(next)
  BY <1>8, SoundEntry
<1>10. SameHeld(r, s)
  BY <1>1, <1>5, <1>7, <1>8, <1>9 DEF SameHeld
<1>11. EntriesSound(s)
  BY <1>5, <1>7, <1>8, SoundParts DEF EntriesSound
<1>12. RunningIs(s)
  BY <1>5, <1>7, <1>8, <1>9, SoundParts, KindNames DEF RunningIs
<1>13. ResourceSound(s)
  BY <1>5, <1>7, <1>8, <1>11, <1>12, SoundParts
<1>14. \A j \in ImageKinds : NeedsDisplay(s.entries[j]) => NeedsDisplay(r.entries[j])
  BY <1>1, <1>5, <1>7, <1>8 DEF NeedsDisplay
<1>15. yes => ~NeedsDisplay(s.entries[k])
  BY <1>7, <1>8 DEF NeedsDisplay
<1> QED BY <1>5, <1>7, <1>10, <1>13, <1>14, <1>15

\* A download that has just begun is of the displayed image only if that had to be read.
LEMMA Advanced ==
  ASSUME NEW r, ResourceSound(r), NEW loading \in BOOLEAN, NEW s, s = Advance(r, loading)
  PROVE  /\ ResourceSound(s) /\ SameHeld(r, s)
         /\ ~s.stopped /\ ~loading => Tried(s)
         /\ s.running # r.running /\ s.running = s.active
              => ~r.stopped /\ ~loading /\ NeedsDisplay(r.entries[r.active])
<1>1. CASE r.stopped \/ loading
  BY <1>1 DEF Advance, SameHeld
<1>2. CASE ~r.stopped /\ ~loading
  <2>1. PICK joined : joined = Joined(r)
    OBVIOUS
  <2>2. /\ ResourceSound(joined) /\ SameHeld(r, joined) /\ joined.running = r.running
        /\ joined.blocked = r.blocked
        /\ joined.running # NoKind /\ joined.running = joined.active
             => ~NeedsDisplay(joined.entries[joined.active])
        /\ \A k \in ImageKinds : NeedsDisplay(joined.entries[k]) => NeedsDisplay(r.entries[k])
    BY <2>1, JoinedSound
  <2>3. joined.active = r.active /\ joined.stopped = r.stopped /\ r.active \in ImageKinds
    BY <2>2, SoundParts DEF SameHeld, ResourceShaped
  <2>4. CASE NeedsDisplay(joined.entries[r.active])
    <3>1. PICK free : free = IF joined.running # NoKind THEN Preempted(joined) ELSE joined
      OBVIOUS
    <3>2. /\ ResourceSound(free) /\ SameHeld(joined, free) /\ free.running = NoKind
          /\ free.entries[r.active] = joined.entries[r.active]
      BY <2>2, <2>3, <2>4, <3>1, PreemptedSound DEF SameHeld
    <3>3. free.active = r.active /\ free.stopped = r.stopped
      BY <2>3, <3>2 DEF SameHeld
    <3>4. s = Start(free, r.active, TRUE)
      BY <1>2, <2>1, <2>3, <2>4, <3>1, <3>2, <3>3 DEF Advance
    <3>5. /\ IsEntry(free.entries[r.active]) /\ ~free.entries[r.active].url
          /\ ~free.entries[r.active].replaced
      BY <2>4, <3>2 DEF NeedsDisplay
    <3>6. /\ ResourceSound(s) /\ SameHeld(free, s) /\ s.running = r.active
          /\ ~NeedsDisplay(s.entries[r.active])
      <4>1. PICK yes \in BOOLEAN : yes = TRUE
        OBVIOUS
      <4>2. s = Start(free, r.active, yes)
        BY <3>4, <4>1
      <4>3. free.blocked => yes
        BY <4>1
      <4>4. /\ ResourceSound(s) /\ SameHeld(free, s) /\ s.running = r.active
            /\ yes => ~NeedsDisplay(s.entries[r.active])
        BY <1>2, <2>3, <3>2, <3>3, <3>5, <4>2, <4>3, StartSound
      <4> QED BY <4>1, <4>4
    <3>7. SameHeld(r, s)
      BY <2>2, <3>2, <3>6, HeldThrough
    <3>8. Tried(s)
      BY <3>6, <3>7 DEF Tried, SameHeld
    <3> QED BY <1>2, <2>2, <2>3, <2>4, <3>6, <3>7, <3>8
  <2>5. CASE ~NeedsDisplay(joined.entries[r.active])
    <3>1. CASE joined.running # NoKind
      <4>1. s = joined
        BY <1>2, <2>1, <2>3, <2>5, <3>1 DEF Advance
      <4> QED BY <2>2, <2>3, <2>5, <4>1 DEF Tried
    <3>2. CASE joined.running = NoKind
      <4>1. PICK next : next = FirstKind({k \in ImageKinds : NeedsPrefetch(joined.entries[k])})
        OBVIOUS
      <4>2. s = IF joined.blocked \/ next = NoKind THEN joined ELSE Start(joined, next, FALSE)
        BY <1>2, <2>1, <2>3, <2>5, <3>2, <4>1 DEF Advance
      <4>3. CASE joined.blocked \/ next = NoKind
        BY <2>2, <2>3, <2>5, <4>2, <4>3 DEF Tried
      <4>4. CASE ~joined.blocked /\ next # NoKind
        <5>1. next \in ImageKinds /\ NeedsPrefetch(joined.entries[next])
          BY <4>1, <4>4, FirstKindIs
        <5>2. IsEntry(joined.entries[next]) /\ EntrySound(joined.entries[next])
          BY <2>2, <5>1, SoundParts DEF NeedsPrefetch, IsEntry, EntriesSound
        <5>3. ~joined.entries[next].url /\ ~joined.entries[next].replaced
          BY <5>1, <5>2 DEF NeedsPrefetch, EntrySound
        <5>4. s = Start(joined, next, FALSE)
          BY <4>2, <4>4
        <5>5. /\ ResourceSound(s) /\ SameHeld(joined, s) /\ s.running = next
              /\ \A j \in ImageKinds : NeedsDisplay(s.entries[j]) => NeedsDisplay(joined.entries[j])
          <6>1. PICK yes \in BOOLEAN : yes = FALSE
            OBVIOUS
          <6>2. s = Start(joined, next, yes)
            BY <5>4, <6>1
          <6>3. joined.blocked => yes
            BY <4>4
          <6> QED BY <1>2, <2>2, <2>3, <3>2, <5>1, <5>2, <5>3, <6>2, <6>3, StartSound
        <5>6. SameHeld(r, s)
          BY <2>2, <5>5, HeldThrough
        <5>7. s.active = r.active
          BY <5>6 DEF SameHeld
        <5>8. Tried(s)
          BY <2>3, <2>5, <5>5, <5>7 DEF Tried
        <5>9. next # r.active \/ NeedsDisplay(joined.entries[next])
          BY <5>1, <5>2, <2>5 DEF NeedsPrefetch, NeedsDisplay, EntrySound
        <5> QED BY <1>2, <2>3, <2>5, <5>5, <5>6, <5>7, <5>8, <5>9
      <4> QED BY <4>3, <4>4
    <3> QED BY <3>1, <3>2
  <2> QED BY <2>4, <2>5
<1> QED BY <1>1, <1>2

-----------------------------------------------------------------------------
(* The steps.                                                                *)
HoldsTheList(r) ==
  \A k \in ImageKinds : IsEntry(r.entries[k]) => r.entries[k].image = siList.image[k]

LEMMA ResourceMoved ==
  ASSUME ImagesInv, NEW done, ResourceSound(done), HoldsTheList(done),
         siResource' = Advance(done, siList.loading), siUrls' = UrlsOf(done),
         siAsked' \in [ImageKinds -> Nat], UNCHANGED <<siList, siView, siArchive, siSaved>>
  PROVE  ImagesInv'
BY Advanced, SameUrls DEF ImagesInv, ListSound, HoldsTheList, SameHeld, ViewSound, ArchiveSound

LEMMA AskedKept ==
  ASSUME NEW r, NEW asked \in [ImageKinds -> Nat],
         \A k \in ImageKinds : r.running = k /\ siResource.running # k /\ r.active = k => asked[k] # 0
  PROVE  AskedAfter(r, asked) \in [ImageKinds -> Nat]
BY DEF AskedAfter

LEMMA AskedMore ==
  ASSUME NEW asked \in [ImageKinds -> Nat], NEW k \in ImageKinds,
         NEW more, more = [asked EXCEPT ![k] = @ + 1]
  PROVE  more \in [ImageKinds -> Nat] /\ more[k] # 0
OBVIOUS

LEMMA OthersKeep ==
  ASSUME ImagesInv, UNCHANGED <<siResource, siList, siUrls, siAsked>>, ViewSound', ArchiveSound'
  PROVE  ImagesInv'
BY DEF ImagesInv, ListSound

LEMMA ImageListArrivesInv == ImagesInv /\ ImageListArrives => ImagesInv'
<1> SUFFICES ASSUME ImagesInv, ImageListArrives PROVE ImagesInv'
  OBVIOUS
<1>1. ASSUME NEW k \in ImageKinds PROVE ~IsEntry(siResource.entries[k])
  <2>1. EntriesSound(siResource)
    BY SoundParts DEF ImagesInv
  <2>2. siList.image[k] = 0 /\ (IsEntry(siResource.entries[k]) => siResource.entries[k].image = 0)
    BY DEF ImagesInv, ListSound, ImageListArrives
  <2>3. IsEntry(siResource.entries[k]) => siResource.entries[k].image # 0
    BY <2>1 DEF EntriesSound, EntrySound, EntryShaped, IsEntry
  <2> QED BY <2>2, <2>3
<1>2. Tried(siResource)
  BY <1>1, SoundParts DEF Tried, NeedsDisplay, ImagesInv, ResourceShaped
<1>3. siList'.loading = FALSE
  BY DEF ImageListArrives
<1>4. ListSound'
  BY <1>1, <1>3 DEF ImageListArrives, ListSound
<1>5. ViewSound' /\ ArchiveSound'
  BY <1>3 DEF ImagesInv, ViewSound, ArchiveSound, ImageListArrives, ArchiveKept
<1> QED BY <1>2, <1>4, <1>5 DEF ImagesInv, ImageListArrives

LEMMA FreshSound ==
  ASSUME NEW image, image # 0
  PROVE  /\ EntrySound(Fresh(image)) /\ Fresh(image).image = image /\ ~Fresh(image).url
         /\ Fresh(image).read = "none"
BY DEF Fresh, EntrySound, EntryShaped

LEMMA ImagesSynced ==
  ASSUME ImagesInv, NEW k \in ImageKinds
  PROVE  /\ IsEntry(siResource.entries[k]) => SyncedEntry(k) = siResource.entries[k]
         /\ ~IsEntry(siResource.entries[k]) =>
              \/ SyncedEntry(k) = NoEntry
              \/ siList.image[k] # 0 /\ SyncedEntry(k) = Fresh(siList.image[k])
BY DEF ImagesInv, ListSound, SyncedEntry

LEMMA ActiveKindIs == ViewSound => ActiveKind \in ImageKinds
BY KindNames DEF ViewSound, ActiveKind

LEMMA GivenSound ==
  ASSUME ImagesInv, ~siResource.stopped
  PROVE  /\ ResourceSound(Given) /\ HoldsTheList(Given) /\ UrlsOf(Given) = UrlsOf(siResource)
         /\ Given.active = ActiveKind /\ Given.running = siResource.running
<1>1. PICK r : r = siResource
  OBVIOUS
<1>2. PICK E : E = [k \in ImageKinds |-> SyncedEntry(k)]
  OBVIOUS
<1>3. PICK mid : mid = [r EXCEPT !.active = ActiveKind]
  OBVIOUS
<1>4. PICK s : s = Given
  OBVIOUS
<1>5. ResourceSound(r) /\ ResourceShaped(r)
  BY <1>1, SoundParts DEF ImagesInv
<1>6. s = [mid EXCEPT !.entries = E]
  BY <1>1, <1>2, <1>3, <1>4, <1>5 DEF Given, ResourceShaped
<1>7. ActiveKind \in ImageKinds
  BY ActiveKindIs DEF ImagesInv
<1>8. /\ ResourceShaped(mid) /\ mid.active = ActiveKind
      /\ mid.running = r.running /\ mid.entries = r.entries
      /\ mid.stopped = r.stopped /\ mid.blocked = r.blocked
  BY <1>3, <1>5, <1>7, ActivePut
<1>9. /\ ResourceShaped(s) /\ s.entries = E
      /\ s.running = mid.running /\ s.active = mid.active
      /\ s.stopped = mid.stopped /\ s.blocked = mid.blocked
  <2>1. E = [k \in ImageKinds |-> E[k]]
    BY <1>2
  <2> QED BY <1>6, <1>8, <2>1, EntriesPut
<1>10. \A k \in ImageKinds :
         /\ IsEntry(r.entries[k]) => s.entries[k] = r.entries[k]
         /\ ~IsEntry(r.entries[k]) =>
              \/ s.entries[k] = NoEntry
              \/ siList.image[k] # 0 /\ s.entries[k] = Fresh(siList.image[k])
  BY <1>1, <1>2, <1>9, ImagesSynced
<1>11. ASSUME NEW k \in ImageKinds
       PROVE  /\ s.entries[k] = NoEntry \/ EntrySound(s.entries[k])
              /\ IsEntry(s.entries[k]) => s.entries[k].image = siList.image[k]
              /\ IsEntry(s.entries[k]) /\ s.entries[k].read = "fetching"
                   => s.entries[k] = r.entries[k]
              /\ IsEntry(s.entries[k]) /\ s.entries[k].url => s.entries[k] = r.entries[k]
  BY <1>1, <1>5, <1>10, SoundParts, FreshSound DEF EntriesSound, ImagesInv, ListSound, IsEntry
<1>12. UrlsOf(s) = UrlsOf(r)
  BY <1>10, <1>11 DEF UrlsOf
<1>13. RunningIs(s)
  BY <1>5, <1>8, <1>9, <1>10, <1>11, SoundParts DEF RunningIs
<1>14. EntriesSound(s)
  BY <1>11 DEF EntriesSound
<1>15. r.running # NoKind => s.entries[r.running] = r.entries[r.running]
  BY <1>5, <1>10, RunningEntry
<1>16. ResourceSound(s)
  BY <1>1, <1>5, <1>8, <1>9, <1>13, <1>14, <1>15, SoundParts
<1>17. HoldsTheList(s)
  BY <1>11 DEF HoldsTheList
<1> QED BY <1>1, <1>4, <1>8, <1>9, <1>12, <1>16, <1>17

LEMMA UpdateResourceInv == ImagesInv /\ UpdateResource => ImagesInv'
<1> SUFFICES ASSUME ImagesInv, UpdateResource PROVE ImagesInv'
  OBVIOUS
<1>1. PICK done : done = Given
  OBVIOUS
<1>2. /\ ResourceSound(done) /\ HoldsTheList(done) /\ UrlsOf(done) = UrlsOf(siResource)
      /\ done.active = ActiveKind /\ done.running = siResource.running
  BY <1>1, GivenSound DEF UpdateResource
<1>3. siResource' = Advance(done, siList.loading)
  BY <1>1 DEF UpdateResource
<1>4. siUrls' = UrlsOf(done)
  BY <1>1, <1>2 DEF UpdateResource, ImagesInv
<1>5. siAsked' \in [ImageKinds -> Nat]
  <2>1. PICK asked : asked = [siAsked EXCEPT ![ActiveKind] = @ + 1]
    OBVIOUS
  <2>2. asked \in [ImageKinds -> Nat] /\ asked[ActiveKind] # 0
    BY <2>1, AskedMore, ActiveKindIs DEF ImagesInv
  <2>3. PICK s : s = siResource'
    OBVIOUS
  <2>4. s.active = ActiveKind
    BY <1>2, <1>3, <2>3, Advanced DEF ImagesInv, ListSound, SameHeld
  <2>5. siAsked' = AskedAfter(s, asked)
    BY <2>1, <2>3 DEF UpdateResource
  <2> QED BY <2>2, <2>4, <2>5, AskedKept
<1> QED BY <1>2, <1>3, <1>4, <1>5, ResourceMoved DEF UpdateResource, ArchiveKept

LEMMA ViewedInv ==
  ASSUME ImagesInv, NEW view, Viewed(view),
         view = [choice |-> view.choice, preferred |-> view.preferred, preview |-> view.preview],
         view.choice \in ImageKinds \cup {AutoKind}, view.preferred \in ImageKinds
  PROVE  ImagesInv'
BY OthersKeep DEF Viewed, ArchiveKept, ViewSound, ImagesInv, ArchiveSound

LEMMA ViewInv ==
  ImagesInv /\ (SelectTab \/ ChangeFollowMode \/ PreferKind \/ OpenPreview \/ ClosePreview)
    => ImagesInv'
<1> SUFFICES ASSUME ImagesInv,
                    SelectTab \/ ChangeFollowMode \/ PreferKind \/ OpenPreview \/ ClosePreview
             PROVE  ImagesInv'
  OBVIOUS
<1> USE DEF ImagesInv, ViewSound
<1>1. CASE SelectTab
  <2>1. PICK k \in ImageKinds : Viewed([siView EXCEPT !.choice = k])
    BY <1>1 DEF SelectTab
  <2> QED BY <2>1, ViewedInv
<1>2. CASE ChangeFollowMode
  BY <1>2, ActiveKindIs, ViewedInv DEF ChangeFollowMode
<1>3. CASE PreferKind
  BY <1>3, ViewedInv DEF PreferKind
<1>4. CASE OpenPreview \/ ClosePreview
  <2>1. PICK k : Viewed([siView EXCEPT !.preview = k])
    BY <1>4 DEF OpenPreview, ClosePreview
  <2> QED BY <2>1, ViewedInv
<1> QED BY <1>1, <1>2, <1>3, <1>4

LEMMA EntriesHeld ==
  ASSUME NEW r, NEW s, SameHeld(r, s), HoldsTheList(r)
  PROVE  HoldsTheList(s)
BY DEF SameHeld, HoldsTheList

LEMMA RetryImageInv == ImagesInv /\ RetryImage => ImagesInv'
<1> SUFFICES ASSUME ImagesInv, RetryImage PROVE ImagesInv'
  OBVIOUS
<1>1. PICK r : r = siResource
  OBVIOUS
<1>2. PICK k : k = r.active
  OBVIOUS
<1>3. PICK done : done = [r EXCEPT !.entries[k] = InBackground(@)]
  OBVIOUS
<1>4. /\ ~r.stopped /\ IsEntry(r.entries[k])
      /\ r.running # k
      /\ siResource' = Advance(done, siList.loading)
      /\ siAsked' = AskedAfter(siResource', [siAsked EXCEPT ![k] = @ + 1])
      /\ UNCHANGED <<siServer, siList, siView, siUrls, siMounted, siFaulted>> /\ ArchiveKept
  BY <1>1, <1>2, <1>3, Zenon DEF RetryImage
<1>5. PICK entry : entry = r.entries[k]
  OBVIOUS
<1>6. PICK next : next = InBackground(entry)
  OBVIOUS
<1>7. ResourceSound(r) /\ ResourceShaped(r) /\ k \in ImageKinds /\ EntrySound(entry)
  BY <1>1, <1>2, <1>4, <1>5, SoundParts DEF ImagesInv, EntriesSound, IsEntry, ResourceShaped
<1>8. /\ EntryShaped(next) /\ next.read = entry.read
      /\ next.image = entry.image /\ ~next.foreground
      /\ next.url = entry.url
      /\ next.background = entry.background
      /\ next.replaced = entry.replaced
  BY <1>6, <1>7, SoundEntry, BackgroundFields
<1>9. EntrySound(next) /\ IsEntry(next)
  BY <1>7, <1>8, SoundEntry DEF EntrySound
<1>10. done = [r EXCEPT !.entries[k] = next]
  BY <1>3, <1>5, <1>6, <1>7 DEF ResourceShaped
<1>11. /\ ResourceShaped(done) /\ done.entries[k] = next
       /\ \A j \in ImageKinds : j # k => done.entries[j] = r.entries[j]
       /\ done.active = r.active /\ done.running = r.running
       /\ done.stopped = r.stopped /\ done.blocked = r.blocked
  BY <1>7, <1>10, EntryPut
<1>12. SameHeld(r, done)
  BY <1>4, <1>5, <1>8, <1>9, <1>11 DEF SameHeld
<1>13. EntriesSound(done)
  BY <1>7, <1>9, <1>11, SoundParts DEF EntriesSound
<1>14. RunningIs(done)
  BY <1>4, <1>5, <1>7, <1>8, <1>11, SoundParts DEF RunningIs
<1>15. ResourceSound(done)
  BY <1>4, <1>7, <1>11, <1>13, <1>14, SoundParts
<1>16. HoldsTheList(done)
  <2>1. HoldsTheList(r)
    BY <1>1 DEF ImagesInv, ListSound, HoldsTheList
  <2> QED BY <1>12, <2>1, EntriesHeld
<1>17. siUrls' = UrlsOf(done)
  BY <1>1, <1>4, <1>12, SameUrls DEF ImagesInv
<1>18. siAsked' \in [ImageKinds -> Nat]
  <2>1. PICK asked : asked = [siAsked EXCEPT ![k] = @ + 1]
    OBVIOUS
  <2>2. asked \in [ImageKinds -> Nat] /\ asked[k] # 0
    BY <1>7, <2>1, AskedMore DEF ImagesInv
  <2>3. PICK s : s = siResource'
    OBVIOUS
  <2>4. s.active = k
    BY <1>2, <1>4, <1>11, <1>15, <2>3, Advanced DEF ImagesInv, ListSound, SameHeld
  <2>5. siAsked' = AskedAfter(s, asked)
    BY <1>4, <2>1, <2>3
  <2> QED BY <2>2, <2>4, <2>5, AskedKept
<1> QED BY <1>4, <1>15, <1>16, <1>17, <1>18, ResourceMoved DEF ArchiveKept

\* The entry of a download that ended.
EndedEntry(entry, ending) ==
  [entry EXCEPT !.read = IF ending = "loaded" THEN "ready" ELSE "error",
                !.url = ending = "loaded", !.replaced = ending = "replaced"]
LEMMA EndedEntrySound ==
  ASSUME NEW entry, EntrySound(entry), entry.read = "fetching", NEW ending,
         NEW next, next = EndedEntry(entry, ending)
  PROVE  EntrySound(next) /\ next.image = entry.image /\ next.read # "fetching"
BY SoundEntry, EntryRead, EntryUrl, EntryReplaced DEF EndedEntry, EntrySound, EntryShaped

EndedResource(r, k, ending) ==
  [r EXCEPT !.running = NoKind, !.blocked = @ \/ ending = "paused",
            !.entries[k] = EndedEntry(@, ending)]
LEMMA EndedResourceSound ==
  ASSUME NEW r, ResourceSound(r), NEW k \in ImageKinds, r.running = k, NEW ending,
         NEW done, done = EndedResource(r, k, ending)
  PROVE  /\ ResourceSound(done) /\ done.running = NoKind
         /\ done.active = r.active /\ done.stopped = r.stopped
         /\ \A j \in ImageKinds : j # k => done.entries[j] = r.entries[j]
         /\ IsEntry(done.entries[k]) /\ done.entries[k].image = r.entries[k].image
<1>1. PICK entry : entry = r.entries[k]
  OBVIOUS
<1>2. PICK next : next = EndedEntry(entry, ending)
  OBVIOUS
<1>3. PICK blocked \in BOOLEAN : blocked = (r.blocked \/ ending = "paused")
  OBVIOUS
<1>4. PICK one : one = [r EXCEPT !.running = NoKind]
  OBVIOUS
<1>5. PICK two : two = [one EXCEPT !.blocked = blocked]
  OBVIOUS
<1>6. ResourceShaped(r) /\ EntrySound(entry) /\ entry.read = "fetching"
  BY <1>1, SoundParts, RunningEntry, KindNames
<1>7. done = [two EXCEPT !.entries[k] = next]
  BY <1>1, <1>2, <1>3, <1>4, <1>5, <1>6 DEF EndedResource, ResourceShaped
<1>8. /\ ResourceShaped(one) /\ one.running = NoKind
      /\ one.entries = r.entries /\ one.active = r.active
      /\ one.stopped = r.stopped /\ one.blocked = r.blocked
  BY <1>4, <1>6, RunningPut
<1>9. /\ ResourceShaped(two) /\ two.blocked = blocked
      /\ two.running = one.running /\ two.entries = one.entries
      /\ two.stopped = one.stopped /\ two.active = one.active
  BY <1>5, <1>8, BlockedPut
<1>10. /\ ResourceShaped(done) /\ done.entries[k] = next
       /\ \A j \in ImageKinds : j # k => done.entries[j] = two.entries[j]
       /\ done.active = two.active /\ done.running = two.running
       /\ done.stopped = two.stopped /\ done.blocked = two.blocked
  BY <1>7, <1>9 DEF ResourceShaped
<1>11. EntrySound(next) /\ next.image = entry.image /\ next.read # "fetching"
  BY <1>2, <1>6, EndedEntrySound
<1>12. EntriesSound(done)
  BY <1>8, <1>9, <1>10, <1>11, SoundParts DEF EntriesSound
<1>13. RunningIs(done)
  BY <1>8, <1>9, <1>10, <1>11, SoundParts, KindNames DEF RunningIs
<1>14. ResourceSound(done)
  BY <1>6, <1>8, <1>9, <1>10, <1>12, <1>13, SoundParts, RunningEntry, KindNames
<1> QED BY <1>1, <1>8, <1>9, <1>10, <1>11, <1>14, SoundEntry

LEMMA EndedInv ==
  ASSUME ImagesInv, NEW k \in Downloading, NEW ending, Ended(k, ending)
  PROVE  ImagesInv'
<1>1. PICK r : r = siResource
  OBVIOUS
<1>2. PICK done : done = EndedResource(r, k, ending)
  OBVIOUS
<1>3. k \in ImageKinds /\ ResourceSound(r) /\ r.running = k /\ ResourceShaped(r)
  BY <1>1, SoundParts DEF Downloading, ImagesInv, RunningIs
<1>4. /\ ResourceSound(done) /\ done.running = NoKind
      /\ done.active = r.active /\ done.stopped = r.stopped
      /\ \A j \in ImageKinds : j # k => done.entries[j] = r.entries[j]
      /\ IsEntry(done.entries[k]) /\ done.entries[k].image = r.entries[k].image
  BY <1>2, <1>3, EndedResourceSound
<1>5. done = [siResource EXCEPT
                 !.running = NoKind, !.blocked = @ \/ ending = "paused",
                 !.entries[k] = [siResource.entries[k] EXCEPT
                   !.read = IF ending = "loaded" THEN "ready" ELSE "error",
                   !.url = ending = "loaded", !.replaced = ending = "replaced"]]
  BY <1>1, <1>2, <1>3 DEF EndedResource, EndedEntry, ResourceShaped
<1>6. /\ siResource' = Advance(done, siList.loading)
      /\ siUrls' = siUrls \cup (UrlsOf(done) \ UrlsOf(siResource))
      /\ siAsked' = AskedAfter(siResource', siAsked)
      /\ UNCHANGED <<siServer, siList, siView, siMounted, siMoved>> /\ ArchiveKept
  BY <1>5, Zenon DEF Ended
<1>7. IsEntry(r.entries[k]) /\ EntrySound(r.entries[k]) /\ r.entries[k].read = "fetching"
  BY <1>3, RunningEntry, KindNames
<1>8. UrlsOf(siResource) \subseteq UrlsOf(done)
  BY <1>1, <1>4, <1>7 DEF UrlsOf, EntrySound
<1>9. siUrls' = UrlsOf(done)
  BY <1>6, <1>8 DEF ImagesInv
<1>10. HoldsTheList(done)
  BY <1>1, <1>4, <1>7 DEF HoldsTheList, ImagesInv, ListSound
<1>11. siAsked' \in [ImageKinds -> Nat]
  BY <1>4, <1>6, Advanced, <1>1, <1>3, KindNames, AskedKept
  DEF ImagesInv, ListSound, SameHeld, Tried
<1> QED BY <1>4, <1>6, <1>9, <1>10, <1>11, ResourceMoved DEF ArchiveKept

LEMMA DownloadsInv == ImagesInv /\ (ImageLoaded \/ ImageReplaced \/ ImageFails) => ImagesInv'
BY EndedInv DEF ImageLoaded, ImageReplaced, ImageFails

LEMMA ArchivedInv ==
  ASSUME ImagesInv, NEW archive, Archived(archive),
         (ArchiveSound)'
  PROVE  ImagesInv'
BY OthersKeep DEF Archived, ImagesInv, ViewSound

LEMMA SendArchiveSound ==
  ASSUME ImagesInv, NEW archive,
         archive = [request |-> archive.request, conflict |-> archive.conflict,
                    asking |-> archive.asking],
         archive.request = siArchive.request, archive.conflict = siArchive.conflict,
         Archived(archive) \/ SendArchive(archive), UNCHANGED siSaved
  PROVE  ImagesInv'
<1>1. CASE Archived(archive)
  <2>1. ArchiveSound'
    BY <1>1 DEF Archived, ArchiveSound, ImagesInv
  <2> QED BY <1>1, <2>1, ArchivedInv
<1>2. CASE SendArchive(archive) /\ CanSaveArchive
  BY <1>2, ArchivedInv
  DEF SendArchive, Archived, ArchiveSound, ImagesInv, CanSaveArchive, ImagesChanged
<1> QED BY <1>1, <1>2 DEF SendArchive

LEMMA ArchiveInv ==
  ImagesInv /\ (SaveArchive \/ AnswerQuestion \/ ArchiveArrives \/ ArchiveRefused \/ ArchiveFails)
    => ImagesInv'
<1> SUFFICES ASSUME ImagesInv, SaveArchive \/ AnswerQuestion \/ ArchiveArrives \/ ArchiveRefused
                               \/ ArchiveFails
             PROVE  ImagesInv'
  OBVIOUS
<1>1. siArchive = [request |-> siArchive.request, conflict |-> siArchive.conflict,
                   asking |-> siArchive.asking]
  BY DEF ImagesInv, ArchiveSound
<1>2. ASSUME NEW yes \in BOOLEAN, NEW archive, archive = [siArchive EXCEPT !.asking = yes]
      PROVE  /\ archive = [request |-> archive.request, conflict |-> archive.conflict,
                           asking |-> archive.asking]
             /\ archive.request = siArchive.request /\ archive.conflict = siArchive.conflict
  BY <1>1, <1>2
<1>3. CASE SaveArchive
  BY <1>3, <1>1, SendArchiveSound, <1>2 DEF SaveArchive
<1>4. CASE AnswerQuestion
  BY <1>4, <1>2, SendArchiveSound DEF AnswerQuestion
<1>5. CASE ArchiveArrives
  BY <1>5, <1>1, ArchivedInv DEF ArchiveArrives, Archived, ArchiveSound, ImagesInv
<1>6. CASE ArchiveRefused
  BY <1>6, <1>1, ArchivedInv DEF ArchiveRefused, Archived, ArchiveSound, ImagesInv
<1>7. CASE ArchiveFails
  BY <1>7, <1>1, ArchivedInv DEF ArchiveFails, Archived, ArchiveSound, ImagesInv
<1> QED BY <1>3, <1>4, <1>5, <1>6, <1>7

LEMMA StoppedSound ==
  ASSUME NEW r, ResourceShaped(r), NEW s, s = ResourceStopped(r)
  PROVE  ResourceSound(s) /\ s.stopped /\ UrlsOf(s) = {}
         /\ \A k \in ImageKinds : s.entries[k] = NoEntry
<1>1. PICK yes \in BOOLEAN : yes = TRUE
  OBVIOUS
<1>2. PICK E : E = [k \in ImageKinds |-> NoEntry]
  OBVIOUS
<1>3. PICK one : one = [r EXCEPT !.stopped = yes]
  OBVIOUS
<1>4. PICK two : two = [one EXCEPT !.running = NoKind]
  OBVIOUS
<1>5. s = [two EXCEPT !.entries = E]
  BY <1>1, <1>2, <1>3, <1>4 DEF ResourceStopped, ResourceShaped
<1>6. /\ ResourceShaped(one) /\ one.stopped = yes
      /\ one.running = r.running /\ one.entries = r.entries
      /\ one.blocked = r.blocked /\ one.active = r.active
  BY <1>3, StoppedPut
<1>7. /\ ResourceShaped(two) /\ two.running = NoKind
      /\ two.entries = one.entries /\ two.active = one.active
      /\ two.stopped = one.stopped /\ two.blocked = one.blocked
  BY <1>4, <1>6, RunningPut
<1>8. /\ ResourceShaped(s) /\ s.entries = E
      /\ s.running = two.running /\ s.active = two.active
      /\ s.stopped = two.stopped /\ s.blocked = two.blocked
  BY <1>2, <1>5, <1>7, EntriesPut
<1>9. \A k \in ImageKinds : s.entries[k] = NoEntry /\ ~IsEntry(s.entries[k])
  BY <1>2, <1>8 DEF IsEntry
<1>10. EntriesSound(s) /\ RunningIs(s) /\ UrlsOf(s) = {}
  BY <1>7, <1>8, <1>9, KindNames DEF EntriesSound, RunningIs, UrlsOf
<1> QED BY <1>1, <1>6, <1>7, <1>8, <1>9, <1>10, SoundParts

LEMMA DisposedInv ==
  ASSUME ImagesInv, Dispose, UNCHANGED <<siList, siView, siAsked>>, ArchiveSound'
  PROVE  ImagesInv'
BY StoppedSound, SoundParts DEF Dispose, ImagesInv, ListSound, IsEntry, ViewSound

LEMMA ScopeInv ==
  ImagesInv /\ (ScopeCleared \/ LeaveReview \/ DraftReadAgain \/ OthersReplace) => ImagesInv'
<1> SUFFICES ASSUME ImagesInv, ScopeCleared \/ LeaveReview \/ DraftReadAgain \/ OthersReplace
             PROVE  ImagesInv'
  OBVIOUS
<1>1. CASE UNCHANGED <<siArchive, siSaved, siList, siView>>
  BY <1>1, DisposedInv, OthersKeep
  DEF ImagesInv, ArchiveSound, ViewSound, ScopeCleared, LeaveReview, DraftReadAgain, OthersReplace
<1>2. CASE LeaveReview
  <2>1. ArchiveSound'
    BY <1>2 DEF LeaveReview, ImagesInv, ArchiveSound
  <2> QED BY <1>2, <2>1, DisposedInv DEF LeaveReview
<1>3. CASE DraftReadAgain
  BY <1>3 DEF DraftReadAgain, ArchiveKept, ImagesInv, ListSound, ViewSound, ArchiveSound
<1>4. CASE ScopeCleared \/ OthersReplace
  BY <1>1, <1>4 DEF ScopeCleared, OthersReplace, ArchiveKept
<1> QED BY <1>2, <1>3, <1>4

LEMMA ImagesInit == SiInit => ImagesInv
<1> SUFFICES ASSUME SiInit PROVE ImagesInv
  OBVIOUS
<1>1. PICK no \in BOOLEAN : no = FALSE
  OBVIOUS
<1>2. PICK r : r = siResource
  OBVIOUS
<1>3. r = [stopped |-> no, active |-> SiKinds[1], running |-> NoKind,
           blocked |-> no, entries |-> [k \in ImageKinds |-> NoEntry]]
  BY <1>1, <1>2 DEF SiInit
<1>4. /\ ResourceShaped(r) /\ r.running = NoKind /\ ~r.blocked /\ ~r.stopped
      /\ \A k \in ImageKinds : r.entries[k] = NoEntry /\ ~IsEntry(r.entries[k])
  BY <1>1, <1>3, KindNames DEF ResourceShaped, IsEntry
<1>5. ResourceSound(r) /\ UrlsOf(r) = {}
  BY <1>4, SoundParts, KindNames DEF EntriesSound, RunningIs, UrlsOf
<1>6. siList.loading = TRUE
  BY DEF SiInit
<1>7. ListSound
  BY <1>1, <1>2, <1>4 DEF SiInit, ListSound
<1>8. ViewSound
  BY KindNames DEF SiInit, ViewSound
<1>9. ArchiveSound
  BY <1>1 DEF SiInit, ArchiveSound
<1>10. siUrls = {} /\ siAsked \in [ImageKinds -> Nat]
  BY DEF SiInit
<1> QED BY <1>2, <1>5, <1>6, <1>7, <1>8, <1>9, <1>10 DEF ImagesInv

LEMMA ImagesNext == ImagesInv /\ [SiNext]_sivars => ImagesInv'
BY OthersKeep, ImageListArrivesInv, UpdateResourceInv, ViewInv, RetryImageInv, DownloadsInv,
   ArchiveInv, ScopeInv DEF sivars, ImagesInv, ViewSound, ArchiveSound, SiNext

LEMMA ImagesShow ==
  ImagesInv => DisplayedFirst /\ TriesAreAskedFor /\ UrlsAreReleased /\ ArchiveIsOfThePage
<1> SUFFICES ASSUME ImagesInv
             PROVE  DisplayedFirst /\ TriesAreAskedFor /\ UrlsAreReleased /\ ArchiveIsOfThePage
  OBVIOUS
<1>1. \A k \in Downloading : siResource.running = k
  BY SoundParts DEF Downloading, ImagesInv, RunningIs
<1>2. Cardinality(Downloading) <= 1
  <2>1. Downloading = {} \/ Downloading = {siResource.running}
    BY <1>1
  <2>2. CASE Downloading = {}
    BY <2>2, FS_EmptySet
  <2>3. CASE Downloading = {siResource.running}
    <3>1. Cardinality({siResource.running}) = 1
      BY FS_Singleton
    <3> QED BY <2>3, <3>1
  <2> QED BY <2>1, <2>2, <2>3
<1>3. DisplayedFirst
  BY <1>1, <1>2 DEF DisplayedFirst, ImagesInv, Tried
<1>4. TriesAreAskedFor
  BY SoundParts DEF TriesAreAskedFor, ImagesInv
<1>5. UrlsAreReleased
  BY SoundParts DEF UrlsAreReleased, ImagesInv, UrlsOf, Downloading, IsEntry
<1>6. ArchiveIsOfThePage
  BY DEF ArchiveIsOfThePage, ImagesInv, ArchiveSound
<1> QED BY <1>3, <1>4, <1>5, <1>6

-----------------------------------------------------------------------------
(***************************************************************************)
(* The capture setup: the season that is sent is one of the title sent,    *)
(* whatever is read, chosen, carried over or changed by others.            *)
(***************************************************************************)
(* The inductive invariant.                                                  *)
QueryShaped(q) ==
  q = [known |-> q.known, answer |-> q.answer, old |-> q.old, read |-> q.read, failed |-> q.failed]
ReadsShaped(reads) ==
  /\ reads = [titles |-> reads.titles, list |-> reads.list, seasons |-> reads.seasons,
              details |-> reads.details]
  /\ reads.seasons = [t \in OsTitles |-> reads.seasons[t]]
  /\ reads.details = [e \in OsEvents |-> reads.details[e]]

\* Whatever is read last, a season is listed under its own title, and a match that
\* was recorded has a season of its title.
ReadsSound(reads) ==
  /\ ReadsShaped(reads)
  /\ QueryShaped(reads.titles) /\ reads.titles.answer \subseteq OsTitles
  /\ \A t \in OsTitles :
       QueryShaped(reads.seasons[t]) /\ reads.seasons[t].answer \subseteq OsSeasons
  /\ \A e \in OsEvents :
       QueryShaped(reads.details[e]) /\ SeasonOfTitle(reads.details[e].answer.previous)

SetupSound(setup) ==
  /\ setup = [title |-> setup.title, season |-> setup.season]
  /\ setup.title \in OsTitles \cup {NoChoice}
  /\ SeasonOfTitle(setup)
ConditionsSound(v) ==
  /\ v = [event |-> v.event, number |-> v.number, setup |-> v.setup]
  /\ v.event \in OsEvents \cup {NoChoice}
  /\ v.number # NoNumber => v.event # NoChoice
  /\ SetupSound(v.setup)

SetupServerSound ==
  /\ osServer = [titles |-> osServer.titles, seasons |-> osServer.seasons,
                 events |-> osServer.events]
  /\ osServer.titles \subseteq OsTitles /\ osServer.seasons \subseteq OsSeasons
  /\ osServer.events = [e \in OsEvents |-> osServer.events[e]]
  /\ \A e \in OsEvents :
       /\ osServer.events[e] = [next |-> osServer.events[e].next,
                                previous |-> osServer.events[e].previous]
       /\ SeasonOfTitle(osServer.events[e].previous)
\* What is known of the event that is chosen is being read, or was read last, or its read
\* has failed.
Waits(q) == q.read \/ q.failed \/ (q.known /\ ~q.old)
SetupInv ==
  /\ osMoved \in Nat
  /\ osValue.event # NoChoice => Waits(osReads.details[osValue.event])
  /\ SetupServerSound /\ ReadsSound(osReads) /\ ConditionsSound(osValue)
  /\ osValue.number # NoNumber => osNumber.event = osValue.event
  /\ SeasonOfTitle(osPlan.setup)
  /\ osPlan.event # NoChoice => osPlan.number # NoNumber

-----------------------------------------------------------------------------
(* Answers and choices.                                                      *)
LEMMA OnlyOneIs ==
  ASSUME NEW candidates
  PROVE  OnlyOne(candidates) \in candidates \cup {NoChoice}
<1>1. CASE Cardinality(candidates) = 1
  <2>1. candidates # {}
    BY <1>1, FS_EmptySet
  <2> QED BY <1>1, <2>1 DEF OnlyOne
<1> QED BY <1>1 DEF OnlyOne

SameQuery(q, p) == QueryShaped(p) /\ p.answer = q.answer

LEMMA QueryMoves ==
  ASSUME NEW q, QueryShaped(q)
  PROVE  /\ SameQuery(q, Fetching(q)) /\ SameQuery(q, Failed(q))
         /\ SameQuery(q, [q EXCEPT !.read = FALSE])
         /\ \A fresh \in BOOLEAN : SameQuery(q, Observed(q, fresh))
<1>1. ASSUME NEW yes \in BOOLEAN, NEW p, p = [q EXCEPT !.read = yes]
      PROVE  SameQuery(q, p)
  BY <1>1 DEF QueryShaped, SameQuery
<1>2. ASSUME NEW yes \in BOOLEAN, NEW p, p = [q EXCEPT !.old = yes]
      PROVE  SameQuery(q, p)
  BY <1>2 DEF QueryShaped, SameQuery
<1>3. ASSUME NEW p, QueryShaped(p), NEW yes \in BOOLEAN, NEW n, n = [p EXCEPT !.failed = yes]
      PROVE  SameQuery(p, n)
  BY <1>3 DEF QueryShaped, SameQuery
<1>4. PICK yes \in BOOLEAN : yes = TRUE
  OBVIOUS
<1>5. PICK no \in BOOLEAN : no = FALSE
  OBVIOUS
<1>6. SameQuery(q, Fetching(q))
  BY <1>1, <1>4 DEF Fetching
<1>7. SameQuery(q, [q EXCEPT !.read = FALSE])
  BY <1>1, <1>5
<1>8. SameQuery(q, Failed(q))
  <2>1. PICK p : p = [q EXCEPT !.read = no]
    OBVIOUS
  <2>2. PICK n : n = [p EXCEPT !.failed = yes]
    OBVIOUS
  <2>3. Failed(q) = n
    BY <1>4, <1>5, <2>1, <2>2 DEF Failed, QueryShaped
  <2>4. SameQuery(q, p)
    BY <1>1, <2>1
  <2>5. SameQuery(p, n)
    BY <1>3, <2>2, <2>4 DEF SameQuery
  <2> QED BY <2>3, <2>4, <2>5 DEF SameQuery
<1>9. ASSUME NEW fresh \in BOOLEAN PROVE SameQuery(q, Observed(q, fresh))
  <2>1. CASE q.known /\ fresh
    BY <1>2, <1>5, <2>1 DEF Observed
  <2>2. CASE ~(q.known /\ fresh)
    <3>1. PICK p : p = [q EXCEPT !.old = yes]
      OBVIOUS
    <3>2. PICK n : n = [p EXCEPT !.read = yes]
      OBVIOUS
    <3>3. Observed(q, fresh) = n
      BY <1>4, <2>2, <3>1, <3>2 DEF Observed, QueryShaped
    <3>4. SameQuery(q, p)
      BY <1>2, <3>1
    <3>5. n.answer = p.answer /\ QueryShaped(n)
      BY <3>2, <3>4 DEF QueryShaped, SameQuery
    <3> QED BY <3>3, <3>4, <3>5 DEF SameQuery
  <2> QED BY <2>1, <2>2
<1> QED BY <1>6, <1>7, <1>8, <1>9

LEMMA ObservedOnlyIs ==
  ASSUME NEW D, NEW queries, queries = [k \in D |-> queries[k]],
         \A k \in D : QueryShaped(queries[k]),
         NEW from, NEW to, NEW fresh \in BOOLEAN,
         NEW next, next = ObservedOnly(queries, from, to, fresh)
  PROVE  /\ next = [k \in D |-> next[k]]
         /\ \A k \in D : SameQuery(queries[k], next[k])
<1>1. DOMAIN queries = D
  BY Zenon
<1>2. next = [k \in D |-> CASE k = to /\ k # from -> Observed(queries[k], fresh)
                            [] k # to -> [queries[k] EXCEPT !.read = FALSE]
                            [] OTHER -> queries[k]]
  BY <1>1 DEF ObservedOnly
<1>3. ASSUME NEW k \in D PROVE SameQuery(queries[k], next[k])
  <2>1. CASE k = to /\ k # from
    <3>1. next[k] = Observed(queries[k], fresh)
      BY <1>2, <2>1
    <3>2. \A now \in BOOLEAN : SameQuery(queries[k], Observed(queries[k], now))
      BY QueryMoves
    <3> QED BY <3>1, <3>2
  <2>2. CASE k # to
    BY <1>2, <2>2, QueryMoves
  <2>3. CASE k = to /\ k = from
    BY <1>2, <2>3 DEF SameQuery
  <2> QED BY <2>1, <2>2, <2>3
<1> QED BY <1>2, <1>3

LEMMA SeasonsAnswer ==
  ASSUME NEW reads, ReadsSound(reads), NEW seasons,
         seasons = [t \in OsTitles |-> seasons[t]],
         \A t \in OsTitles : QueryShaped(seasons[t]) /\ seasons[t].answer \subseteq OsSeasons,
         NEW next, next = [reads EXCEPT !.seasons = seasons]
  PROVE  /\ ReadsSound(next) /\ next.details = reads.details /\ next.seasons = seasons
         /\ next.titles = reads.titles
BY DEF ReadsSound, ReadsShaped

LEMMA DetailsAnswer ==
  ASSUME NEW reads, ReadsSound(reads), NEW details,
         details = [e \in OsEvents |-> details[e]],
         \A e \in OsEvents : QueryShaped(details[e]) /\ SeasonOfTitle(details[e].answer.previous),
         NEW next, next = [reads EXCEPT !.details = details]
  PROVE  /\ ReadsSound(next) /\ next.details = details /\ next.seasons = reads.seasons
         /\ next.titles = reads.titles
BY DEF ReadsSound, ReadsShaped

LEMMA TitlesAnswer ==
  ASSUME NEW reads, ReadsSound(reads), NEW titles, QueryShaped(titles),
         titles.answer \subseteq OsTitles, NEW next, next = [reads EXCEPT !.titles = titles]
  PROVE  ReadsSound(next) /\ next.details = reads.details
BY DEF ReadsSound, ReadsShaped

LEMMA ListAnswer ==
  ASSUME NEW reads, ReadsSound(reads), NEW list, NEW next, next = [reads EXCEPT !.list = list]
  PROVE  ReadsSound(next) /\ next.details = reads.details
BY DEF ReadsSound, ReadsShaped

\* Answers stay as they are when conditions change; the event that is chosen is read
\* again unless its answer is fresh.
LEMMA QueryObserved ==
  ASSUME NEW q, QueryShaped(q), NEW fresh \in BOOLEAN, NEW p, p = Observed(q, fresh)
  PROVE  p.known = q.known /\ Waits(p)
BY DEF Observed, QueryShaped, Waits

SameAnswers(reads, next) ==
  /\ next.titles = reads.titles
  /\ \A t \in OsTitles : next.seasons[t].answer = reads.seasons[t].answer
  /\ \A e \in OsEvents : next.details[e].known = reads.details[e].known

FollowsEvent(from, to, details, next) ==
  \A e \in OsEvents : e = to => IF e = from THEN next[e] = details[e] ELSE Waits(next[e])

LEMMA FollowSound ==
  ASSUME NEW from, NEW to, NEW reads, ReadsSound(reads), NEW fresh \in BOOLEAN,
         NEW next, next = Follow(from, to, reads, fresh)
  PROVE  /\ ReadsSound(next) /\ SameAnswers(reads, next)
         /\ FollowsEvent(from.event, to.event, reads.details, next.details)
<1>1. PICK seasons : seasons = ObservedOnly(reads.seasons, from.setup.title, to.setup.title, fresh)
  OBVIOUS
<1>2. PICK details : details = ObservedOnly(reads.details, from.event, to.event, fresh)
  OBVIOUS
<1>3. PICK mid : mid = [reads EXCEPT !.seasons = seasons]
  OBVIOUS
<1>4. Follow(from, to, reads, fresh) = [mid EXCEPT !.details = details]
  BY <1>1, <1>2, <1>3 DEF Follow, ReadsSound, ReadsShaped
<1>5. /\ seasons = [t \in OsTitles |-> seasons[t]]
      /\ \A t \in OsTitles : SameQuery(reads.seasons[t], seasons[t])
  BY <1>1, ObservedOnlyIs DEF ReadsSound, ReadsShaped
<1>6. /\ details = [e \in OsEvents |-> details[e]]
      /\ \A e \in OsEvents : SameQuery(reads.details[e], details[e])
  BY <1>2, ObservedOnlyIs DEF ReadsSound, ReadsShaped
<1>7. ReadsSound(mid) /\ mid.details = reads.details /\ mid.seasons = seasons /\ mid.titles = reads.titles
  BY <1>3, <1>5, SeasonsAnswer DEF SameQuery, ReadsSound
<1>8. \A e \in OsEvents : QueryShaped(details[e]) /\ SeasonOfTitle(details[e].answer.previous)
  BY <1>6 DEF SameQuery, ReadsSound
<1>10. ReadsSound(next) /\ next.details = details /\ next.seasons = seasons /\ next.titles = reads.titles
  BY <1>4, <1>6, <1>7, <1>8, DetailsAnswer
<1>11. ASSUME NEW e \in OsEvents
       PROVE  /\ details[e].known = reads.details[e].known
              /\ e = to.event /\ e = from.event => details[e] = reads.details[e]
              /\ e = to.event /\ e # from.event => Waits(details[e])
  <2>1. details[e] = CASE e = to.event /\ e # from.event -> Observed(reads.details[e], fresh)
                       [] e # to.event -> [reads.details[e] EXCEPT !.read = FALSE]
                       [] OTHER -> reads.details[e]
    BY <1>2 DEF ObservedOnly, ReadsSound, ReadsShaped
  <2>2. PICK q : q = reads.details[e]
    OBVIOUS
  <2>3. QueryShaped(q)
    BY <2>2 DEF ReadsSound
  <2>4. CASE e = to.event /\ e # from.event
    BY <2>1, <2>2, <2>3, <2>4, QueryObserved
  <2>5. CASE e # to.event
    BY <2>1, <2>2, <2>5, <2>3 DEF QueryShaped
  <2>6. CASE e = to.event /\ e = from.event
    BY <2>1, <2>6
  <2> QED BY <2>4, <2>5, <2>6
<1>12. SameAnswers(reads, next)
  BY <1>5, <1>10, <1>11 DEF SameAnswers, SameQuery
<1>13. FollowsEvent(from.event, to.event, reads.details, next.details)
  BY <1>10, <1>11 DEF FollowsEvent
<1> QED BY <1>10, <1>12, <1>13

-----------------------------------------------------------------------------
(* What is derived of the answers.                                           *)
LEMMA NoSetupSound == SetupSound(NoSetup) /\ NoSetup.season = NoChoice
BY DEF SetupSound, NoSetup, SeasonOfTitle

LEMMA DropGoneSound ==
  ASSUME NEW setup, SetupSound(setup), NEW titles, NEW ids
  PROVE  SetupSound(DropGone(setup, titles, ids))
BY NoSetupSound DEF DropGone, SetupSound, SeasonOfTitle

LEMMA SetupMade ==
  ASSUME NEW title \in OsTitles, NEW season,
         season = NoChoice \/ \E s \in OsSeasons : s.id = season /\ s.title = title,
         NEW setup, setup = [title |-> title, season |-> season]
  PROVE  SetupSound(setup)
BY DEF SetupSound, SeasonOfTitle

LEMMA FillSetupSound ==
  ASSUME NEW setup, SetupSound(setup), NEW previous, SeasonOfTitle(previous),
         NEW titles, titles \subseteq OsTitles,
         NEW ids, \A id \in ids : \E s \in OsSeasons : s.id = id /\ s.title = setup.title
  PROVE  SetupSound(FillSetup(setup, previous, titles, ids))
BY OnlyOneIs, OsAssumption, SetupMade
DEF FillTitle, SetupSound, FillSetup, FillSeason, SeasonOfTitle, NoChoice, CarriedSeason

LEMMA SeasonIdsAre ==
  ASSUME NEW reads, ReadsSound(reads), NEW title \in OsTitles \cup {NoChoice}
  PROVE  \A id \in SeasonIds(reads, title) : \E s \in OsSeasons : s.id = id /\ s.title = title
BY DEF SeasonIds, SeasonsOf, ReadsSound

LEMMA EventPut ==
  ASSUME NEW v, ConditionsSound(v), NEW next,
         next = [v EXCEPT !.event = NoChoice, !.number = NoNumber]
  PROVE  ConditionsSound(next) /\ next.event = NoChoice /\ next.number = NoNumber
BY DEF ConditionsSound

LEMMA NumberPut ==
  ASSUME NEW v, ConditionsSound(v), v.event # NoChoice, NEW number,
         NEW next, next = [v EXCEPT !.number = number]
  PROVE  ConditionsSound(next) /\ next.event = v.event
BY DEF ConditionsSound

LEMMA SetupPut ==
  ASSUME NEW v, ConditionsSound(v), NEW setup, SetupSound(setup),
         NEW next, next = [v EXCEPT !.setup = setup]
  PROVE  ConditionsSound(next) /\ next.event = v.event /\ next.number = v.number
BY DEF ConditionsSound

\* What answers may change: a choice that is gone, or that was not made; a number, when
\* there was none and the event's read is not waited for.
Kept(v, next, reads) ==
  /\ next.setup.title \in {v.setup.title, NoChoice} \cup reads.titles.answer
  /\ v.setup.title \in {NoChoice, next.setup.title} \/ v.setup.title \notin reads.titles.answer
  /\ \/ v.setup.season \in {NoChoice, next.setup.season}
     \/ v.setup.title # next.setup.title
     \/ v.setup.season \notin SeasonIds(reads, v.setup.title)
  /\ next.event \in {v.event, NoChoice}
  /\ v.event # next.event => reads.details[v.event].known
  /\ v.event = next.event => v.number \in {NoNumber, next.number}
SetupNumbered(v, next, reads) ==
  next.number \notin {v.number, NoNumber} =>
    ~ContextPending(reads.details[next.event]) /\ next.event = v.event

LEMMA KeptOn ==
  ASSUME NEW v, ConditionsSound(v), NEW u, NEW w, NEW reads, Kept(v, u, reads), Kept(u, w, reads)
  PROVE  Kept(v, w, reads)
BY OsAssumption DEF Kept, ConditionsSound, SetupSound, SeasonOfTitle, NoChoice

LEMMA SameIds ==
  ASSUME NEW reads, NEW next, SameAnswers(reads, next), NEW t \in OsTitles \cup {NoChoice}
  PROVE  SeasonIds(next, t) = SeasonIds(reads, t)
BY DEF SameAnswers, SeasonIds, SeasonsOf

LEMMA KeptWith ==
  ASSUME NEW v, ConditionsSound(v), NEW w, NEW reads, NEW next, SameAnswers(reads, next)
  PROVE  Kept(v, w, next) <=> Kept(v, w, reads)
BY SameIds DEF ConditionsSound, SetupSound, SameAnswers, Kept

LEMMA DropGoneKeeps ==
  ASSUME NEW setup, SetupSound(setup), NEW titles, NEW ids, NEW kept,
         kept = DropGone(setup, titles, ids)
  PROVE  /\ kept.title \in {setup.title, NoChoice}
         /\ setup.title \in {NoChoice, kept.title} \/ setup.title \notin titles
         /\ setup.season = kept.season \/ setup.title # kept.title \/ setup.season \notin ids
            \/ setup.season = NoChoice
BY OsAssumption DEF NoSetup, SetupSound, SeasonOfTitle, NoChoice, DropGone

LEMMA FillSetupKeeps ==
  ASSUME NEW setup, SetupSound(setup), NEW previous, NEW titles, NEW ids, NEW filled,
         filled = FillSetup(setup, previous, titles, ids)
  PROVE  /\ filled.title \in {setup.title, NoChoice} \cup titles
         /\ setup.title \in {NoChoice, filled.title}
         /\ setup.season \in {NoChoice, filled.season}
BY OnlyOneIs DEF FillTitle, FillSeason, FillSetup

\* Deriving drops an event that is gone and never puts another in its place.
LEMMA Derived ==
  ASSUME NEW v, ConditionsSound(v), NEW reads, ReadsSound(reads), NEW next, next = Derive(v, reads)
  PROVE  /\ ConditionsSound(next) /\ next.event \in {v.event, NoChoice}
         /\ Kept(v, next, reads) /\ SetupNumbered(v, next, reads)
<1>1. PICK one : one = DeriveEvent(v, reads)
  OBVIOUS
<1>2. ConditionsSound(one) /\ one.event \in {v.event, NoChoice}
  BY <1>1, EventPut DEF DeriveEvent
<1>3. PICK two : two = DeriveNumber(one, reads)
  OBVIOUS
<1>4. ConditionsSound(two) /\ two.event = one.event
  BY <1>2, <1>3, NumberPut DEF DeriveNumber
<1>5. PICK kept : kept = DropGone(two.setup, reads.titles.answer, SeasonIds(reads, two.setup.title))
  OBVIOUS
<1>6. SetupSound(kept)
  BY <1>4, <1>5, DropGoneSound DEF ConditionsSound
<1>7. PICK context : context = ContextOf(reads, two.event)
  OBVIOUS
<1>8. PICK previous : previous = IF context.known THEN context.answer.previous ELSE NoSetup
  OBVIOUS
<1>9. SeasonOfTitle(previous)
  <2>1. CASE two.event = NoChoice
    <3>1. context.known = FALSE
      BY <1>7, <2>1 DEF ContextOf, Query
    <3> QED BY <1>8, <3>1, NoSetupSound DEF SetupSound
  <2>2. CASE two.event # NoChoice
    BY <1>4, <1>7, <2>2, <1>8, NoSetupSound DEF ContextOf, ConditionsSound, SetupSound, ReadsSound
  <2> QED BY <2>1, <2>2
<1>10. PICK setup : setup = IF ContextPending(context) THEN kept
                            ELSE FillSetup(kept, previous, reads.titles.answer,
                                           SeasonIds(reads, kept.title))
  OBVIOUS
<1>11. SetupSound(setup)
  BY <1>6, <1>9, <1>10, FillSetupSound, SeasonIdsAre DEF SetupSound, ReadsSound
<1>12. next = [two EXCEPT !.setup = setup]
  BY <1>1, <1>3, <1>5, <1>7, <1>8, <1>10 DEF Derive, DeriveSetup
<1>13. ConditionsSound(next) /\ next.event = two.event /\ next.number = two.number /\ next.setup = setup
  BY <1>4, <1>11, <1>12, SetupPut
<1>14. /\ one.setup = v.setup /\ (one = v \/ (one.number = NoNumber /\ one.event = NoChoice))
       /\ v.event # one.event => reads.details[v.event].known
       /\ v.event = one.event => v.number \in {NoNumber, one.number}
  BY <1>1 DEF EventContext, DeriveEvent, ConditionsSound
<1>15. /\ two.setup = one.setup
       /\ two.number = one.number \/ (one.number = NoNumber /\ one.event # NoChoice
                                      /\ ~ContextPending(reads.details[one.event]))
  BY <1>3, <1>2 DEF DeriveNumber, ConditionsSound
<1>16. /\ setup.title \in {v.setup.title, NoChoice} \cup reads.titles.answer
       /\ v.setup.title \in {NoChoice, setup.title} \/ v.setup.title \notin reads.titles.answer
       /\ \/ v.setup.season \in {NoChoice, setup.season}
          \/ v.setup.title # setup.title
          \/ v.setup.season \notin SeasonIds(reads, v.setup.title)
  BY <1>14, <1>15, <1>5, DropGoneKeeps, <1>6, <1>10, FillSetupKeeps, OsAssumption
  DEF ConditionsSound, SetupSound, SeasonOfTitle, NoChoice
<1>17. Kept(v, next, reads)
  BY <1>2, <1>4, <1>13, <1>14, <1>15, <1>16 DEF Kept
<1>18. SetupNumbered(v, next, reads)
  BY <1>4, <1>13, <1>14, <1>15 DEF SetupNumbered
<1> QED BY <1>2, <1>4, <1>13, <1>17, <1>18

LEMMA Passed ==
  ASSUME NEW page, ConditionsSound(page.value), ReadsSound(page.reads), NEW fresh \in BOOLEAN,
         NEW next, next = Pass(page, fresh)
  PROVE  /\ ConditionsSound(next.value) /\ ReadsSound(next.reads)
         /\ Kept(page.value, next.value, page.reads) /\ SameAnswers(page.reads, next.reads)
         /\ SetupNumbered(page.value, next.value, page.reads)
         /\ next.value.event = page.value.event /\ next.value.event # NoChoice =>
              next.reads.details[next.value.event] = page.reads.details[next.value.event]
<1>1. PICK v : v = Derive(page.value, page.reads)
  OBVIOUS
<1>2. /\ ConditionsSound(v) /\ Kept(page.value, v, page.reads)
      /\ SetupNumbered(page.value, v, page.reads)
  BY <1>1, Derived
<1>3. PICK reads : reads = Follow(page.value, v, page.reads, fresh)
  OBVIOUS
<1>4. /\ ReadsSound(reads) /\ SameAnswers(page.reads, reads)
      /\ FollowsEvent(page.value.event, v.event, page.reads.details, reads.details)
  BY <1>3, FollowSound
<1>5. next = [value |-> v, reads |-> reads]
  BY <1>1, <1>3 DEF Pass
<1>6. next.value = v /\ next.reads = reads
  BY <1>5
<1>7. v.event \in OsEvents \cup {NoChoice}
  BY <1>2 DEF ConditionsSound
<1> QED BY <1>2, <1>4, <1>6, <1>7 DEF FollowsEvent

LEMMA SameAnswersOn ==
  ASSUME NEW a, NEW b, NEW c, SameAnswers(a, b), SameAnswers(b, c)
  PROVE  SameAnswers(a, c)
BY DEF SameAnswers

\* After every pass: what may have changed since the step, and what the number is.
PassedOn(v, first, page) ==
  /\ ConditionsSound(page.value) /\ ReadsSound(page.reads) /\ SameAnswers(first, page.reads)
  /\ Kept(v, page.value, first)
  /\ page.value.event # NoChoice =>
       page.value.event = v.event /\ page.reads.details[v.event] = first.details[v.event]
  /\ page.value.number \notin {v.number, NoNumber} => ~ContextPending(first.details[v.event])

LEMMA PassedAgain ==
  ASSUME NEW v, ConditionsSound(v), NEW first, NEW page, PassedOn(v, first, page),
         NEW fresh \in BOOLEAN, NEW next, next = Pass(page, fresh)
  PROVE  PassedOn(v, first, next)
<1>1. /\ ConditionsSound(next.value) /\ ReadsSound(next.reads)
      /\ Kept(page.value, next.value, page.reads) /\ SameAnswers(page.reads, next.reads)
      /\ SetupNumbered(page.value, next.value, page.reads)
      /\ next.value.event = page.value.event /\ next.value.event # NoChoice =>
           next.reads.details[next.value.event] = page.reads.details[next.value.event]
  BY Passed DEF PassedOn
<1>2. SameAnswers(first, next.reads)
  BY <1>1, SameAnswersOn DEF PassedOn
<1>3. Kept(v, next.value, first)
  <2>1. Kept(page.value, next.value, first)
    BY <1>1, KeptWith DEF PassedOn
  <2> QED BY <2>1, KeptOn DEF PassedOn
<1>4. next.value.event # NoChoice =>
        next.value.event = v.event /\ next.reads.details[v.event] = first.details[v.event]
  BY <1>1 DEF PassedOn, Kept
<1>5. ASSUME next.value.number \notin {v.number, NoNumber}
      PROVE  ~ContextPending(first.details[v.event])
  BY <1>5, <1>1 DEF PassedOn, ConditionsSound, SetupNumbered
<1> QED BY <1>1, <1>2, <1>3, <1>4, <1>5 DEF PassedOn

LEMMA RenderedSound ==
  ASSUME NEW v, ConditionsSound(v), NEW reads, ReadsSound(reads), NEW number,
         v.number # NoNumber => number.event = v.event,
         number = osNumber \/ number.from # "cached",
         v.event # NoChoice /\ v.event = osValue.event => Waits(reads.details[v.event]),
         Rendered(v, number, reads)
  PROVE  /\ ConditionsSound(osValue)' /\ ReadsSound(osReads)'
         /\ (osValue.number # NoNumber => osNumber.event = osValue.event)'
         /\ (osValue.event # NoChoice => Waits(osReads.details[osValue.event]))'
         /\ Kept(v, osValue', osReads') /\ NumberWaitsForRead
<1>1. PICK fresh \in BOOLEAN :
        LET begun == [value |-> v, reads |-> Follow(osValue, v, reads, fresh)]
            settled == Pass(Pass(Pass(begun, fresh), fresh), fresh)
        IN /\ osValue' = settled.value /\ osReads' = settled.reads
           /\ osNumber' = IF settled.value.number = v.number THEN number
                          ELSE [from |-> IF settled.value.number = NoNumber THEN "none"
                                         ELSE NumberSource(settled.reads, settled.value.event),
                                event |-> settled.value.event]
  BY Zenon DEF Rendered
<1>2. PICK first : first = Follow(osValue, v, reads, fresh)
  OBVIOUS
<1>3. PICK begun : begun = [value |-> v, reads |-> first]
  OBVIOUS
<1>4. PICK one : one = Pass(begun, fresh)
  OBVIOUS
<1>5. PICK two : two = Pass(one, fresh)
  OBVIOUS
<1>6. PICK settled : settled = Pass(two, fresh)
  OBVIOUS
<1>7. ReadsSound(first) /\ (v.event # NoChoice => Waits(first.details[v.event]))
  <2>1. /\ ReadsSound(first)
        /\ FollowsEvent(osValue.event, v.event, reads.details, first.details)
    BY <1>2, FollowSound
  <2>2. v.event \in OsEvents \cup {NoChoice}
    BY DEF ConditionsSound
  <2> QED BY <2>1, <2>2 DEF FollowsEvent
<1>8. PassedOn(v, first, begun)
  BY <1>3, <1>7 DEF SameAnswers, Kept, PassedOn
<1>9. PassedOn(v, first, settled)
  BY <1>4, <1>8, PassedAgain, <1>5, <1>6
<1>10. /\ osValue' = settled.value /\ osReads' = settled.reads
       /\ osNumber' = IF settled.value.number = v.number THEN number
                      ELSE [from |-> IF settled.value.number = NoNumber THEN "none"
                                     ELSE NumberSource(settled.reads, settled.value.event),
                            event |-> settled.value.event]
  BY <1>1, <1>2, <1>3, <1>4, <1>5, <1>6
<1>11. ConditionsSound(settled.value) /\ ReadsSound(settled.reads)
  BY <1>9 DEF PassedOn
<1>12. settled.value.number # NoNumber => osNumber'.event = settled.value.event
  BY <1>11, <1>9, <1>10 DEF ConditionsSound, PassedOn
<1>13. settled.value.event # NoChoice => Waits(settled.reads.details[settled.value.event])
  BY <1>7, <1>9 DEF PassedOn
<1>14. Kept(v, settled.value, settled.reads)
  BY <1>9, KeptWith DEF PassedOn
<1>15. NumberWaitsForRead
  BY <1>10, <1>11, <1>9, <1>13
  DEF NumberWaitsForRead, ConditionsSound, PassedOn, NumberSource, ContextPending, Waits
<1> QED BY <1>10, <1>11, <1>12, <1>13, <1>14, <1>15

-----------------------------------------------------------------------------
(* The steps.                                                                *)
SetupStays == SetupInv' /\ NumberWaitsForRead /\ ChoicesStay
LEMMA ValuesRendered ==
  ASSUME SetupInv, NEW v, ConditionsSound(v), NEW reads, ReadsSound(reads), NEW number,
         v.number # NoNumber => number.event = v.event,
         number = osNumber \/ number.from # "cached",
         v.event # NoChoice /\ v.event = osValue.event => Waits(reads.details[v.event]),
         Rendered(v, number, reads), ValuesKept, osMoved' \in Nat
  PROVE  SetupInv' /\ NumberWaitsForRead /\ Kept(v, osValue', osReads')
BY RenderedSound DEF SetupInv, SetupServerSound, ValuesKept

LEMMA ChoiceInv ==
  ASSUME SetupInv, NEW v, ConditionsSound(v), NEW number,
         v.number # NoNumber => number.event = v.event,
         number = osNumber \/ number.from # "cached", SetupChanged(v, number)
  PROVE  SetupStays
BY ValuesRendered DEF SetupInv, SetupChanged, OsMove, SetupStays, ChoicesStay

LEMMA ChooseInv ==
  SetupInv /\ (ChooseTitle \/ ChooseSeason \/ ChooseEvent \/ TypeNumber) => SetupStays
<1> SUFFICES ASSUME SetupInv, ChooseTitle \/ ChooseSeason \/ ChooseEvent \/ TypeNumber
             PROVE  SetupStays
  OBVIOUS
<1>1. ConditionsSound(osValue) /\ ReadsSound(osReads)
      /\ (osValue.number # NoNumber => osNumber.event = osValue.event)
  BY DEF SetupInv
<1>2. CASE ChooseTitle
  <2>1. PICK t \in osReads.titles.answer :
          SetupChanged([osValue EXCEPT !.setup = [title |-> t, season |-> NoChoice]], osNumber)
    BY <1>2 DEF ChooseTitle
  <2>2. PICK setup : setup = [title |-> t, season |-> NoChoice]
    OBVIOUS
  <2>3. PICK v : v = [osValue EXCEPT !.setup = setup]
    OBVIOUS
  <2>4. t \in OsTitles
    BY <1>1 DEF ReadsSound
  <2>5. SetupSound(setup)
    BY <2>2, <2>4, SetupMade
  <2>6. ConditionsSound(v) /\ v.event = osValue.event /\ v.number = osValue.number
    BY <1>1, <2>3, <2>5, SetupPut
  <2> QED BY <1>1, <2>1, <2>2, <2>3, <2>6, ChoiceInv
<1>3. CASE ChooseSeason
  BY <1>3, <1>1, SeasonIdsAre, SetupPut, ChoiceInv
  DEF ChooseSeason, ConditionsSound, SetupSound, SeasonOfTitle
<1>4. CASE ChooseEvent
  <2>1. PICK e \in Pickable \ {osValue.event} :
          SetupChanged(Picked(e), [from |-> IF e = NoChoice THEN "none" ELSE "picked", event |-> e])
    BY <1>4 DEF ChooseEvent
  <2>2. PICK number : number = [from |-> IF e = NoChoice THEN "none" ELSE "picked", event |-> e]
    OBVIOUS
  <2>3. PICK v : v = Picked(e)
    OBVIOUS
  <2>4. ConditionsSound(v) /\ v.event = e
    BY <1>1, <2>3 DEF Picked, ConditionsSound, Pickable, NextNumber
  <2> QED BY <2>1, <2>2, <2>3, <2>4, ChoiceInv
<1>5. CASE TypeNumber
  BY <1>5, <1>1, NumberPut, ChoiceInv DEF TypeNumber
<1> QED BY <1>2, <1>3, <1>4, <1>5

LEMMA ArrivesInv ==
  ASSUME SetupInv, NEW reads, ReadsSound(reads), Arrives(reads),
         osValue.event # NoChoice => Waits(reads.details[osValue.event])
  PROVE  SetupStays
BY ValuesRendered DEF Arrives, SetupInv, SetupStays, ChoicesStay, Kept

LEMMA AnsweredIs ==
  ASSUME NEW answer
  PROVE  QueryShaped(Answered(answer)) /\ Answered(answer).answer = answer
BY DEF Answered, QueryShaped

LEMMA SeasonAnswer ==
  ASSUME NEW reads, ReadsSound(reads), NEW t \in OsTitles, NEW q, QueryShaped(q),
         q.answer \subseteq OsSeasons, NEW next, next = [reads EXCEPT !.seasons[t] = q]
  PROVE  ReadsSound(next) /\ next.details = reads.details
BY SeasonsAnswer DEF ReadsSound, ReadsShaped

DetailPut(details, e, q, next) ==
  next[e] = q /\ \A x \in OsEvents \ {e} : next[x] = details[x]

LEMMA DetailAnswer ==
  ASSUME NEW reads, ReadsSound(reads), NEW e \in OsEvents, NEW q, QueryShaped(q),
         SeasonOfTitle(q.answer.previous), NEW next, next = [reads EXCEPT !.details[e] = q]
  PROVE  ReadsSound(next) /\ DetailPut(reads.details, e, q, next.details)
<1>1. PICK details : details = [reads.details EXCEPT ![e] = q]
  OBVIOUS
<1>2. next = [reads EXCEPT !.details = details]
  BY <1>1 DEF ReadsSound, ReadsShaped
<1>3. details = [x \in OsEvents |-> details[x]]
  BY <1>1 DEF ReadsSound, ReadsShaped
<1>4. ASSUME NEW x \in OsEvents
      PROVE  QueryShaped(details[x]) /\ SeasonOfTitle(details[x].answer.previous)
  BY <1>1 DEF ReadsSound, ReadsShaped
<1>5. /\ details[e] = q
      /\ \A x \in OsEvents \ {e} : details[x] = reads.details[x]
  BY <1>1 DEF ReadsSound, ReadsShaped
<1>6. ReadsSound(next) /\ next.details = details
  BY ONLY ReadsSound(reads), <1>2, <1>3, <1>4, DetailsAnswer
<1> QED BY <1>5, <1>6 DEF DetailPut

LEMMA SetupReadSucceedsInv == SetupInv /\ SetupReadSucceeds => SetupStays
<1> SUFFICES ASSUME SetupInv, SetupReadSucceeds PROVE SetupStays
  OBVIOUS
<1>0. /\ ReadsSound(osReads) /\ SetupServerSound /\ osValue.event \in OsEvents \cup {NoChoice}
      /\ osValue.event # NoChoice => Waits(osReads.details[osValue.event])
  BY DEF SetupInv, ConditionsSound
<1>1. CASE Arrives([osReads EXCEPT !.titles = Answered(osServer.titles)])
  <2>1. PICK q : q = Answered(osServer.titles)
    OBVIOUS
  <2>2. QueryShaped(q) /\ q.answer \subseteq OsTitles
    BY <1>0, <2>1, AnsweredIs DEF SetupServerSound
  <2>3. PICK reads : reads = [osReads EXCEPT !.titles = q]
    OBVIOUS
  <2>4. ReadsSound(reads) /\ reads.details = osReads.details
    BY <1>0, <2>2, TitlesAnswer, <2>3
  <2> QED BY <1>0, <2>4, <2>3, <1>1, <2>1, ArrivesInv
<1>2. CASE Arrives([osReads EXCEPT !.list =
                      Answered([e \in OsEvents |-> osServer.events[e].next])])
  <2>1. PICK q : q = Answered([e \in OsEvents |-> osServer.events[e].next])
    OBVIOUS
  <2>2. PICK reads : reads = [osReads EXCEPT !.list = q]
    OBVIOUS
  <2>3. ReadsSound(reads) /\ reads.details = osReads.details
    BY <1>0, ListAnswer, <2>2
  <2> QED BY <1>0, <2>3, <2>2, <1>2, <2>1, ArrivesInv
<1>3. ASSUME NEW t \in OsTitles,
             Arrives([osReads EXCEPT !.seasons[t] =
                        Answered({s \in osServer.seasons : s.title = t})])
      PROVE  SetupStays
  <2>1. PICK q : q = Answered({s \in osServer.seasons : s.title = t})
    OBVIOUS
  <2>2. QueryShaped(q) /\ q.answer \subseteq OsSeasons
    BY <1>0, <2>1, AnsweredIs DEF SetupServerSound
  <2>3. PICK reads : reads = [osReads EXCEPT !.seasons[t] = q]
    OBVIOUS
  <2>4. ReadsSound(reads) /\ reads.details = osReads.details
    BY <1>0, <2>2, SeasonAnswer, <2>3
  <2> QED BY <1>0, <2>4, <2>3, <1>3, <2>1, ArrivesInv
<1>4. ASSUME NEW e \in OsEvents,
             Arrives([osReads EXCEPT !.details[e] = Answered(osServer.events[e])])
      PROVE  SetupStays
  <2>1. PICK q : q = Answered(osServer.events[e])
    OBVIOUS
  <2>2. QueryShaped(q) /\ SeasonOfTitle(q.answer.previous)
    BY <1>0, <2>1, AnsweredIs DEF SetupServerSound
  <2>3. PICK reads : reads = [osReads EXCEPT !.details[e] = q]
    OBVIOUS
  <2>4. ReadsSound(reads) /\ DetailPut(osReads.details, e, q, reads.details)
    BY <1>0, <2>2, <2>3, DetailAnswer
  <2>5. Waits(q)
    BY <2>1 DEF Waits, Answered
  <2> QED BY <1>0, <1>4, <2>1, <2>3, <2>4, <2>5, ArrivesInv DEF DetailPut
<1> QED BY <1>1, <1>2, <1>3, <1>4 DEF SetupReadSucceeds

LEMMA SetupReadFailsInv == SetupInv /\ SetupReadFails => SetupStays
<1> SUFFICES ASSUME SetupInv, SetupReadFails PROVE SetupStays
  OBVIOUS
<1>0. /\ ReadsSound(osReads) /\ osValue.event \in OsEvents \cup {NoChoice}
      /\ osValue.event # NoChoice => Waits(osReads.details[osValue.event])
  BY DEF SetupInv, ConditionsSound
<1>1. CASE Arrives([osReads EXCEPT !.titles = Failed(@)])
  <2>1. PICK q : q = Failed(osReads.titles)
    OBVIOUS
  <2>2. QueryShaped(q) /\ q.answer \subseteq OsTitles
    BY <1>0, <2>1, QueryMoves DEF ReadsSound, SameQuery
  <2>3. PICK reads : reads = [osReads EXCEPT !.titles = q]
    OBVIOUS
  <2>4. ReadsSound(reads) /\ reads.details = osReads.details
    BY <1>0, <2>2, TitlesAnswer, <2>3
  <2> QED BY <1>0, <2>4, <2>3, <1>1, <2>1, ArrivesInv
<1>2. CASE Arrives([osReads EXCEPT !.list = Failed(@)])
  <2>1. PICK q : q = Failed(osReads.list)
    OBVIOUS
  <2>2. PICK reads : reads = [osReads EXCEPT !.list = q]
    OBVIOUS
  <2>3. ReadsSound(reads) /\ reads.details = osReads.details
    BY <1>0, ListAnswer, <2>2
  <2> QED BY <1>0, <2>3, <2>2, <1>2, <2>1, ArrivesInv
<1>3. ASSUME NEW t \in OsTitles, Arrives([osReads EXCEPT !.seasons[t] = Failed(@)])
      PROVE  SetupStays
  <2>1. PICK q : q = Failed(osReads.seasons[t])
    OBVIOUS
  <2>2. QueryShaped(q) /\ q.answer \subseteq OsSeasons
    BY <1>0, <2>1, QueryMoves DEF ReadsSound, SameQuery
  <2>3. PICK reads : reads = [osReads EXCEPT !.seasons[t] = q]
    OBVIOUS
  <2>4. ReadsSound(reads) /\ reads.details = osReads.details
    BY <1>0, <2>2, SeasonAnswer, <2>3
  <2> QED BY <1>0, <2>4, <2>3, <1>3, <2>1, ArrivesInv
<1>4. ASSUME NEW e \in OsEvents, Arrives([osReads EXCEPT !.details[e] = Failed(@)])
      PROVE  SetupStays
  <2>1. PICK q : q = Failed(osReads.details[e])
    OBVIOUS
  <2>2. QueryShaped(q) /\ SeasonOfTitle(q.answer.previous)
    BY <1>0, <2>1, QueryMoves DEF ReadsSound, SameQuery
  <2>3. PICK reads : reads = [osReads EXCEPT !.details[e] = q]
    OBVIOUS
  <2>4. ReadsSound(reads) /\ DetailPut(osReads.details, e, q, reads.details)
    BY <1>0, <2>2, <2>3, DetailAnswer
  <2>5. Waits(q)
    <3>1. PICK old : old = osReads.details[e]
      OBVIOUS
    <3>2. PICK yes \in BOOLEAN, no \in BOOLEAN : yes = TRUE /\ no = FALSE
      OBVIOUS
    <3>3. q = [old EXCEPT !.read = no, !.failed = yes] /\ QueryShaped(old)
      BY <1>0, <2>1, <3>1, <3>2 DEF Failed, ReadsSound
    <3>4. q.failed = yes
      BY <3>3 DEF QueryShaped
    <3> QED BY <3>2, <3>4 DEF Waits
  <2> QED BY <1>0, <1>4, <2>1, <2>3, <2>4, <2>5, ArrivesInv DEF DetailPut
<1> QED BY <1>1, <1>2, <1>3, <1>4 DEF SetupReadFails

LEMMA RetrySetupInv == SetupInv /\ RetrySetup => SetupStays
<1> SUFFICES ASSUME SetupInv, RetrySetup PROVE SetupStays
  OBVIOUS
<1>0. ReadsSound(osReads)
  BY DEF SetupInv
<1>1. PICK reads : reads = osReads'
  OBVIOUS
<1>2. reads = [titles |-> Fetching(osReads.titles), list |-> Fetching(osReads.list),
               seasons |-> [t \in OsTitles |-> IF t = osValue.setup.title
                                               THEN Fetching(osReads.seasons[t])
                                               ELSE osReads.seasons[t]],
               details |-> [e \in OsEvents |-> IF e = osValue.event
                                               THEN Fetching(osReads.details[e])
                                               ELSE osReads.details[e]]]
  BY <1>1 DEF RetrySetup
<1>3. ReadsShaped(reads)
  BY <1>2 DEF ReadsShaped
<1>4. QueryShaped(reads.titles) /\ reads.titles.answer \subseteq OsTitles
  BY <1>0, <1>2, QueryMoves DEF ReadsSound, SameQuery
<1>5. ASSUME NEW t \in OsTitles
      PROVE  QueryShaped(reads.seasons[t]) /\ reads.seasons[t].answer \subseteq OsSeasons
  BY <1>0, <1>2, QueryMoves DEF ReadsSound, SameQuery
<1>6. ASSUME NEW e \in OsEvents
      PROVE  QueryShaped(reads.details[e]) /\ SeasonOfTitle(reads.details[e].answer.previous)
  BY <1>0, <1>2, QueryMoves DEF ReadsSound, SameQuery
<1>7. ReadsSound(reads)
  BY <1>3, <1>4, <1>5, <1>6 DEF ReadsSound
<1>8. UNCHANGED <<osServer, osPlan, osValue, osNumber>> /\ osMoved' = osMoved + 1 /\ osMoved \in Nat
  BY DEF RetrySetup, ValuesKept, osform, OsMove, SetupInv
<1>9. osValue.event # NoChoice => Waits(reads.details[osValue.event])
  BY <1>0, <1>2 DEF SetupInv, ConditionsSound, ReadsSound, Fetching, QueryShaped, Waits
<1>10. SetupInv'
  BY <1>1, <1>7, <1>8, <1>9 DEF SetupInv, SetupServerSound
<1>11. osMoved' # osMoved
  BY <1>8
<1> QED BY <1>8, <1>10, <1>11 DEF SetupStays, NumberWaitsForRead, ChoicesStay

LEMMA SetupServerKeeps ==
  ASSUME SetupInv, UNCHANGED <<osReads, osValue, osNumber, osPlan, osMoved>>, SetupServerSound'
  PROVE  SetupStays
BY DEF SetupInv, SetupStays, NumberWaitsForRead, ChoicesStay

LEMMA OthersChangeSetupInv == SetupInv /\ OthersChangeSetup => SetupStays
<1> SUFFICES ASSUME SetupInv, OthersChangeSetup PROVE SetupStays
  OBVIOUS
<1> USE DEF SetupServerSound
<1>0. SetupServerSound /\ UNCHANGED <<osReads, osValue, osNumber, osPlan, osMoved>>
  BY DEF SetupInv, OthersChangeSetup, osform
<1>1. ASSUME NEW e \in OsEvents, NEW event, SeasonOfTitle(event.previous),
             event = [next |-> event.next, previous |-> event.previous],
             osServer' = [osServer EXCEPT !.events[e] = event]
      PROVE  SetupServerSound'
  BY <1>0, <1>1
<1>2. ASSUME NEW e \in OsEvents, NEW s \in osServer.seasons,
             osServer' = [osServer EXCEPT !.events[e] =
                            [next |-> @.next + 1,
                             previous |-> [title |-> s.title, season |-> s.id]]]
      PROVE  SetupServerSound'
  BY <1>0, <1>2, <1>1 DEF SeasonOfTitle
<1>3. ASSUME NEW e \in OsEvents, osServer' = [osServer EXCEPT !.events[e] = NoEvent]
      PROVE  SetupServerSound'
  BY <1>1, <1>3, NoSetupSound DEF NoEvent, SetupSound
<1>4. ASSUME NEW s \in OsSeasons,
             osServer' = [osServer EXCEPT !.seasons = (@ \cup {s}) \ (@ \cap {s})]
      PROVE  SetupServerSound'
  BY <1>0, <1>4
<1>5. ASSUME NEW t \in OsTitles,
             osServer' = [osServer EXCEPT !.titles = @ \ {t},
                                          !.seasons = {s \in @ : s.title # t}]
      PROVE  SetupServerSound'
  BY <1>0, <1>5
<1>6. SetupServerSound'
  BY <1>2, <1>3, <1>4, <1>5 DEF OthersChangeSetup
<1> QED BY <1>0, <1>6, SetupServerKeeps

LEMMA QueryIs ==
  ASSUME NEW answer
  PROVE  QueryShaped(Query(answer)) /\ Query(answer).answer = answer
BY DEF Query, QueryShaped

LEMMA SetupInit == OsInit => SetupInv
<1> SUFFICES ASSUME OsInit PROVE SetupInv
  OBVIOUS
<1>1. SetupServerSound
  BY NoSetupSound DEF OsInit, SetupSound, SeasonOfTitle, SetupServerSound, Beginning
<1>2. ReadsSound(osReads)
  <2>1. osReads = [titles |-> Fetching(Query({})),
                   list |-> Fetching(Query([e \in OsEvents |-> NoNumber])),
                   seasons |-> [t \in OsTitles |-> Query({})],
                   details |-> [e \in OsEvents |-> IF e = OsStart THEN Fetching(Query(NoEvent))
                                                   ELSE Query(NoEvent)]]
    BY DEF OsInit
  <2>2. ReadsShaped(osReads)
    BY <2>1 DEF ReadsShaped
  <2>3. QueryShaped(osReads.titles) /\ osReads.titles.answer \subseteq OsTitles
    <3>1. PICK q : q = Query({})
      OBVIOUS
    <3>2. QueryShaped(q) /\ q.answer = {}
      BY <3>1, QueryIs
    <3>3. PICK p : p = Fetching(q)
      OBVIOUS
    <3>4. QueryShaped(p) /\ p.answer = {}
      BY <3>2, <3>3, QueryMoves DEF SameQuery
    <3>5. osReads.titles = p
      BY <2>1, <3>1, <3>3
    <3> QED BY <3>4, <3>5
  <2>4. \A t \in OsTitles :
          QueryShaped(osReads.seasons[t]) /\ osReads.seasons[t].answer \subseteq OsSeasons
    BY <2>1, QueryIs
  <2>5. SeasonOfTitle(NoEvent.previous)
    BY NoSetupSound DEF NoEvent, SetupSound
  <2>6. \A e \in OsEvents :
          QueryShaped(osReads.details[e]) /\ osReads.details[e].answer = NoEvent
    BY QueryIs, QueryMoves, <2>1 DEF SameQuery
  <2> QED BY <2>2, <2>3, <2>4, <2>5, <2>6 DEF ReadsSound
<1>3. ConditionsSound(osValue) /\ osValue.number = NoNumber
  BY OsAssumption, NoSetupSound DEF OsInit, ConditionsSound, NoPlanMade, NoChoice
<1>4. SeasonOfTitle(osPlan.setup) /\ osPlan.event = NoChoice
  BY NoSetupSound DEF OsInit, NoPlanMade, SetupSound
<1>5. osMoved = 0 /\ (osValue.event # NoChoice => Waits(osReads.details[osValue.event]))
  <2>1. osValue.event = OsStart /\ osMoved = 0
    BY DEF OsInit, NoPlanMade
  <2>2. PICK yes \in BOOLEAN : yes = TRUE
    OBVIOUS
  <2>4. PICK q : q = Query(NoEvent)
    OBVIOUS
  <2>3. ASSUME OsStart # NoChoice PROVE osReads.details[OsStart].read = yes
    <3>1. OsStart \in OsEvents
      BY <2>3, OsAssumption DEF NoChoice
    <3>2. osReads.details[OsStart] = [q EXCEPT !.read = yes]
      BY <2>2, <2>4, <3>1 DEF OsInit, Fetching
    <3>3. QueryShaped(q)
      BY <2>4, QueryIs
    <3> QED BY <3>2, <3>3 DEF QueryShaped
  <2> QED BY <2>1, <2>2, <2>3 DEF Waits
<1> QED BY <1>1, <1>2, <1>3, <1>4, <1>5 DEF SetupInv

LEMMA SetupNext == SetupInv /\ [OsNext]_osvars => SetupStays
<1> SUFFICES ASSUME SetupInv, [OsNext]_osvars PROVE SetupStays
  OBVIOUS
<1>1. CASE UNCHANGED osvars
  BY <1>1 DEF osvars, osform, SetupInv, SetupServerSound, SetupStays, NumberWaitsForRead, ChoicesStay
<1>2. CASE TakeSetup
  BY <1>2
  DEF TakeSetup, osform, SetupInv, SetupServerSound, ConditionsSound, SetupSound, Valid, SetupStays,
      NumberWaitsForRead, ChoicesStay
<1> QED BY <1>1, <1>2, ChooseInv, SetupReadSucceedsInv, SetupReadFailsInv, RetrySetupInv,
        OthersChangeSetupInv DEF OsNext

LEMMA SetupShows == SetupInv => SetupFits
BY DEF SetupInv, ConditionsSound, SetupSound, SetupFits

-----------------------------------------------------------------------------
(***************************************************************************)
(* The capture page: no image is read twice, and a slot shows the job of   *)
(* its own image, for any kinds, images, plans, submissions and faults.    *)
(*                                                                         *)
(* Submissions of a plan follow each other only when the earlier one has   *)
(* refused, for good, every image the later one carries; until something   *)
(* was sent that may be accepted, and only then, another plan may be made. *)
(***************************************************************************)
(* The inductive invariant.                                                  *)
PutImages(pl, state) ==
  {<<k, pl.images[k]>> : k \in {x \in Kinds : pl.images[x] # NoImage /\ x \in state.only}}
IsAdmitted(sv, s) == sv.subs[s].status # "none"

\* The tray holds an image once, and shows the job it was given for that image.
SlotShaped(slot) == slot = [image |-> slot.image, status |-> slot.status, job |-> slot.job]
TraySound(tr, n, sv) ==
  /\ tr = [k \in Kinds |-> tr[k]] /\ n \in Nat
  /\ \A k \in Kinds : /\ SlotShaped(tr[k]) /\ tr[k].image \in 0..n
                      /\ tr[k].job # NoJob => /\ tr[k].job \in Subs
                                              /\ <<k, tr[k].image>> \in sv.subs[tr[k].job].images
  /\ \A k, j \in Kinds : tr[k].image = tr[j].image /\ tr[k].image # NoImage => k = j

PlanSound(pl) ==
  /\ pl = [n |-> pl.n, images |-> pl.images] /\ pl.images = [k \in Kinds |-> pl.images[k]]
  /\ \A k, j \in Kinds : pl.images[k] = pl.images[j] /\ pl.images[k] # NoImage => k = j

\* Only images the server has refused for good are sent again, in a new submission.
CheckpointsShaped(state) ==
  state = [sub |-> state.sub, draft |-> state.draft, requested |-> state.requested,
           only |-> state.only, retry |-> state.retry, tries |-> state.tries,
           uploaded |-> state.uploaded, jobs |-> state.jobs]
CheckpointsSound(state, pl, n, sv) ==
  /\ CheckpointsShaped(state)
  /\ n \in Nat /\ n <= MaxSubs /\ state.sub \in 0..n /\ state.only \subseteq Kinds
  /\ state.retry \subseteq state.only
  /\ \A k \in state.retry :
       /\ state.sub # 0 /\ IsAdmitted(sv, state.sub)
       /\ sv.subs[state.sub].members[k] = "failed"

RequestShaped(r) ==
  r = [op |-> r.op, plan |-> r.plan, at |-> r.at, images |-> r.images, try |-> r.try]
SentSound(r, state, pl, sv) ==
  /\ RequestShaped(r)
  /\ r.op \in {"draft", "put", "upload", "job", "getJob"}
  /\ r.op = "put" =>
       /\ r.at \in 1..state.sub
       /\ r.at = state.sub => r.images = PutImages(pl, state)
       /\ r.at # state.sub => IsAdmitted(sv, r.at)
  /\ r.op \in {"upload", "job", "getJob"} =>
       r.at \in Subs /\ \E k \in Kinds : \E image : r.images = {<<k, image>>}
RequestsSound(requests, state, pl, sv) == \A r \in requests : SentSound(r, state, pl, sv)

SubmissionShaped(sub) ==
  /\ sub = [status |-> sub.status, plan |-> sub.plan, images |-> sub.images,
            members |-> sub.members]
  /\ sub.members = [k \in Kinds |-> sub.members[k]]
\* What was admitted is of the plan, and later submissions carry only what the
\* earlier ones refused.
SubmissionsSound(sv, state, pl) ==
  /\ sv = [drafts |-> sv.drafts, subs |-> sv.subs]
  /\ sv.subs = [s \in Subs |-> sv.subs[s]]
  /\ \A s \in Subs :
       /\ SubmissionShaped(sv.subs[s])
       /\ ~IsAdmitted(sv, s) => sv.subs[s] = NoSubmission
       /\ IsAdmitted(sv, s) =>
            /\ s <= state.sub
            /\ s = state.sub => sv.subs[s].images = PutImages(pl, state)
            /\ sv.subs[s].images \subseteq {<<k, pl.images[k]>> : k \in {x \in Kinds : pl.images[x] # NoImage}}
            /\ s # state.sub =>
                 \A k \in Kinds : k \in state.only /\ pl.images[k] # NoImage =>
                                sv.subs[s].members[k] = "failed"
  /\ \A s, t \in Subs :
       s < t /\ IsAdmitted(sv, s) /\ IsAdmitted(sv, t) =>
         \A k \in Kinds : <<k, pl.images[k]>> \in sv.subs[t].images => sv.subs[s].members[k] = "failed"
JobsSound(jb, sv) ==
  /\ jb = [s \in Subs |-> [k \in Kinds |-> jb[s][k]]]
  /\ \A s \in Subs, k \in Kinds : jb[s][k] # "none" => sv.subs[s].members[k] = "registered"

FlowShaped(fl) ==
  fl = [pc |-> fl.pc, i |-> fl.i, clean |-> fl.clean, created |-> fl.created,
        failed |-> fl.failed, members |-> fl.members]
FlowSound(fl, state, pl, sv) ==
  /\ FlowShaped(fl)
  /\ fl.pc \in {"idle", "draft", "put", "slot", "upload", "job", "getJob"}
  /\ fl.pc # "idle" => state.sub # 0
  /\ fl.pc \in {"slot", "upload", "job", "getJob"} =>
       IsAdmitted(sv, state.sub) /\ fl.i \in Nat \ {0}
  /\ fl.pc \in {"upload", "job", "getJob"} =>
       /\ fl.i \in DOMAIN KindOrder
       /\ pl.images[KindOrder[fl.i]] # NoImage /\ KindOrder[fl.i] \in state.only

\* While another plan may be made, nothing was sent that could have been accepted.
MayPlanAnew(dl, on, away) ==
  \/ on /\ ~away /\ dl.status = "closed"
  \/ dl.status = "confirming"
  \/ dl.status = "recoverable_failure" /\ dl.canEdit
NothingSent(requests, sv) == requests = {} /\ \A s \in Subs : ~IsAdmitted(sv, s)
CleanSound(fl, state, pl, requests, sv) ==
  fl.clean /\ fl.pc = "draft" =>
    /\ \A s \in Subs : ~IsAdmitted(sv, s)
    /\ \A r \in requests : r = [op |-> "draft", plan |-> pl.n, at |-> 0, images |-> {},
                                try |-> state.tries]

CaptureInv ==
  /\ TraySound(slots, placed, srv) /\ PlanSound(plan)
  /\ CheckpointsSound(cp, plan, made, srv) /\ RequestsSound(net, cp, plan, srv)
  /\ SubmissionsSound(srv, cp, plan) /\ JobsSound(job, srv)
  /\ FlowSound(flow, cp, plan, srv)
  /\ MayPlanAnew(dialog, mounted, leaving) => NothingSent(net, srv)
  /\ CleanSound(flow, cp, plan, net, srv)

-----------------------------------------------------------------------------
(* The server goes on.                                                       *)

\* What is decided of an admitted submission stays.
ServerGrows(sv, next) ==
  \A s \in Subs : IsAdmitted(sv, s) =>
    /\ IsAdmitted(next, s) /\ next.subs[s].images = sv.subs[s].images
    /\ \A k \in Kinds : sv.subs[s].members[k] = "failed" => next.subs[s].members[k] = "failed"

LEMMA SubsFacts == MaxSubs \in Nat /\ Subs = 1..MaxSubs /\ 0 \notin Subs /\ NoJob = 0 /\ NoImage = 0
BY CaptureAssumption DEF Subs, NoJob, NoImage

LEMMA TrayGrows ==
  ASSUME NEW tr, NEW n, NEW sv, TraySound(tr, n, sv), NEW state, NEW pl,
         SubmissionsSound(sv, state, pl), NEW next, ServerGrows(sv, next)
  PROVE  TraySound(tr, n, next)
<1>1. ASSUME NEW s \in Subs, sv.subs[s].images # {}
      PROVE  next.subs[s].images = sv.subs[s].images
  <2>1. IsAdmitted(sv, s)
    BY <1>1 DEF SubmissionsSound, NoSubmission
  <2> QED BY <2>1 DEF ServerGrows
<1>2. ASSUME NEW k \in Kinds, tr[k].job # NoJob
      PROVE  tr[k].job \in Subs /\ <<k, tr[k].image>> \in next.subs[tr[k].job].images
  BY <1>2, <1>1 DEF TraySound
<1> QED BY <1>2 DEF TraySound

LEMMA CheckpointsGrow ==
  ASSUME NEW state, NEW pl, NEW n, NEW sv, CheckpointsSound(state, pl, n, sv),
         NEW next, ServerGrows(sv, next)
  PROVE  CheckpointsSound(state, pl, n, next)
<1>1. ASSUME NEW k \in state.retry
      PROVE  /\ state.sub # 0 /\ IsAdmitted(next, state.sub)
             /\ next.subs[state.sub].members[k] = "failed"
  <2>1. k \in Kinds /\ state.sub \in Subs
    BY SubsFacts DEF CheckpointsSound
  <2> QED BY <2>1 DEF CheckpointsSound, ServerGrows
<1> QED BY <1>1 DEF CheckpointsSound

LEMMA RequestsGrow ==
  ASSUME NEW requests, NEW state, NEW pl, NEW sv, RequestsSound(requests, state, pl, sv),
         NEW n, CheckpointsSound(state, pl, n, sv), NEW next, ServerGrows(sv, next)
  PROVE  RequestsSound(requests, state, pl, next)
<1>1. ASSUME NEW r \in requests, r.op = "put" PROVE r.at \in Subs
  BY <1>1, SubsFacts DEF RequestsSound, SentSound, CheckpointsSound
<1> QED BY <1>1 DEF RequestsSound, SentSound, ServerGrows

LEMMA FlowGrows ==
  ASSUME NEW fl, NEW state, NEW pl, NEW sv, FlowSound(fl, state, pl, sv),
         NEW n, CheckpointsSound(state, pl, n, sv), NEW next, ServerGrows(sv, next)
  PROVE  FlowSound(fl, state, pl, next)
<1>1. fl.pc # "idle" => state.sub \in Subs
  BY SubsFacts DEF FlowSound, CheckpointsSound
<1> QED BY <1>1 DEF FlowSound, ServerGrows

\* No submission is admitted and none loses what was decided.
LEMMA ServerStays ==
  ASSUME NEW sv, NEW state, NEW pl, SubmissionsSound(sv, state, pl), NEW next,
         ServerGrows(sv, next),
         next = [drafts |-> next.drafts, subs |-> next.subs],
         next.subs = [s \in Subs |-> next.subs[s]],
         \A s \in Subs : /\ SubmissionShaped(next.subs[s])
                         /\ ~IsAdmitted(sv, s) => next.subs[s] = sv.subs[s]
  PROVE  SubmissionsSound(next, state, pl)
BY DEF SubmissionsSound, ServerGrows, IsAdmitted

-----------------------------------------------------------------------------
(* What the page keeps.                                                      *)

LEMMA KindFacts ==
  Len(KindOrder) \in Nat /\ \A i \in DOMAIN KindOrder : KindOrder[i] \in Kinds
BY CaptureAssumption DEF Kinds

\* The checkpoints change in what does not say which images are sent.
LEMMA SameAim ==
  ASSUME NEW state, NEW next, CheckpointsShaped(next), next.sub = state.sub,
         next.only = state.only, next.retry = state.retry,
         NEW pl, NEW n, NEW sv, NEW requests, NEW fl
  PROVE  /\ PutImages(pl, next) = PutImages(pl, state)
         /\ CheckpointsSound(state, pl, n, sv) => CheckpointsSound(next, pl, n, sv)
         /\ RequestsSound(requests, state, pl, sv) => RequestsSound(requests, next, pl, sv)
         /\ SubmissionsSound(sv, state, pl) => SubmissionsSound(sv, next, pl)
         /\ FlowSound(fl, state, pl, sv) => FlowSound(fl, next, pl, sv)
BY DEF PutImages, CheckpointsSound, RequestsSound, SentSound, SubmissionsSound, FlowSound

LEMMA DraftMarked ==
  ASSUME NEW state, CheckpointsShaped(state), NEW a, NEW b, NEW next,
         next = [state EXCEPT !.draft = a, !.requested = b]
  PROVE  /\ CheckpointsShaped(next) /\ next.sub = state.sub /\ next.only = state.only
         /\ next.retry = state.retry
BY DEF CheckpointsShaped

LEMMA RetryPut ==
  ASSUME NEW state, CheckpointsShaped(state), NEW a, NEW next,
         next = [state EXCEPT !.retry = a]
  PROVE  /\ CheckpointsShaped(next) /\ next.sub = state.sub /\ next.only = state.only
         /\ next.retry = a
BY DEF CheckpointsShaped

LEMMA UploadMarked ==
  ASSUME NEW state, CheckpointsShaped(state), NEW a, NEW next,
         next = [state EXCEPT !.uploaded = a]
  PROVE  /\ CheckpointsShaped(next) /\ next.sub = state.sub /\ next.only = state.only
         /\ next.retry = state.retry
BY DEF CheckpointsShaped

LEMMA JobMarked ==
  ASSUME NEW state, CheckpointsShaped(state), NEW a, NEW next,
         next = [state EXCEPT !.jobs = a]
  PROVE  /\ CheckpointsShaped(next) /\ next.sub = state.sub /\ next.only = state.only
         /\ next.retry = state.retry
BY DEF CheckpointsShaped

\* Requests.
LEMMA PutRequestIs ==
  ASSUME NEW state
  PROVE  PutRequest(state) = [op |-> "put", plan |-> plan.n, at |-> state.sub,
                              images |-> PutImages(plan, state), try |-> state.tries]
BY DEF PutRequest, Request, PutImages

LEMMA PutRequestSound ==
  ASSUME NEW state, NEW n, NEW sv, CheckpointsSound(state, plan, n, sv), state.sub # 0
  PROVE  SentSound(PutRequest(state), state, plan, sv)
<1>1. state.sub \in 1..state.sub
  BY DEF CheckpointsSound
<1> QED BY <1>1, PutRequestIs DEF SentSound, RequestShaped

LEMMA ImageRequestSound ==
  ASSUME NEW n, NEW sv, CheckpointsSound(cp, plan, n, sv), cp.sub # 0,
         NEW op \in {"upload", "job", "getJob"}, NEW k \in Kinds, NEW state
  PROVE  SentSound(ImageRequest(op, k), state, plan, sv)
<1>1. cp.sub \in Subs
  BY SubsFacts DEF CheckpointsSound
<1>2. ImageRequest(op, k) = [op |-> op, plan |-> plan.n, at |-> cp.sub,
                             images |-> {<<k, plan.images[k]>>}, try |-> cp.tries]
  BY DEF ImageRequest, Request
<1>3. PICK r : r = ImageRequest(op, k)
  OBVIOUS
<1>4. /\ r.op = op /\ r.at = cp.sub /\ r.images = {<<k, plan.images[k]>>}
      /\ RequestShaped(r)
  BY <1>2, <1>3 DEF RequestShaped
<1>5. \E j \in Kinds : \E image : r.images = {<<j, image>>}
  BY <1>4
<1>6. r.op # "put" /\ r.op \in {"draft", "put", "upload", "job", "getJob"}
  BY <1>4
<1>7. SentSound(r, state, plan, sv)
  BY <1>1, <1>4, <1>5, <1>6 DEF SentSound
<1> QED BY <1>3, <1>7

LEMMA RequestAdded ==
  ASSUME NEW requests, NEW state, NEW pl, NEW sv, RequestsSound(requests, state, pl, sv),
         NEW r, SentSound(r, state, pl, sv), NEW next, next \subseteq requests \cup {r}
  PROVE  RequestsSound(next, state, pl, sv)
BY DEF RequestsSound

LEMMA RequestsFewer ==
  ASSUME NEW requests, NEW state, NEW pl, NEW sv, RequestsSound(requests, state, pl, sv),
         NEW next, next \subseteq requests
  PROVE  RequestsSound(next, state, pl, sv)
BY DEF RequestsSound

\* A receipt leaves the image and names a job of that image.
LEMMA TrayPut ==
  ASSUME NEW tr, NEW n, NEW sv, TraySound(tr, n, sv), NEW k \in Kinds, NEW image, NEW status,
         NEW s, s = NoJob \/ (s \in Subs /\ <<k, image>> \in sv.subs[s].images),
         NEW next, next = [tr EXCEPT ![k] = Receipt(tr[k], image, status, s)]
  PROVE  TraySound(next, n, sv)
<1>1. PICK slot : slot = Receipt(tr[k], image, status, s)
  OBVIOUS
<1>2. next = [tr EXCEPT ![k] = slot]
  BY <1>1
<1>3. /\ SlotShaped(slot) /\ slot.image = tr[k].image
      /\ slot.job # NoJob => slot.job \in Subs /\ <<k, slot.image>> \in sv.subs[slot.job].images
  <2>1. SlotShaped(tr[k]) /\ (tr[k].job # NoJob => /\ tr[k].job \in Subs
                                                   /\ <<k, tr[k].image>> \in sv.subs[tr[k].job].images)
    BY DEF TraySound
  <2>2. CASE tr[k].image # image
    BY <1>1, <2>1, <2>2 DEF Receipt
  <2>3. CASE tr[k].image = image
    BY <1>1, <2>3, <2>1 DEF Receipt, SlotShaped
  <2> QED BY <2>2, <2>3
<1>4. /\ next = [j \in Kinds |-> next[j]] /\ next[k] = slot
      /\ \A j \in Kinds : j # k => next[j] = tr[j]
  BY <1>2 DEF TraySound
<1>5. \A j \in Kinds : next[j].image = tr[j].image
  BY <1>3, <1>4
<1>6. ASSUME NEW j \in Kinds
      PROVE  /\ SlotShaped(next[j]) /\ next[j].image \in 0..n
             /\ next[j].job # NoJob => /\ next[j].job \in Subs
                                       /\ <<j, next[j].image>> \in sv.subs[next[j].job].images
  BY <1>3, <1>4 DEF TraySound
<1> QED BY <1>4, <1>5, <1>6 DEF TraySound

\* A slot with a new image, or none, has no job.
LEMMA TrayPlaced ==
  ASSUME NEW tr, NEW n, NEW sv, TraySound(tr, n, sv), NEW k \in Kinds, NEW slot, NEW m \in Nat,
         n <= m, SlotShaped(slot), slot.job = NoJob, slot.image \in 0..m,
         slot.image # NoImage => \A j \in Kinds : j # k => tr[j].image # slot.image
  PROVE  TraySound([tr EXCEPT ![k] = slot], m, sv)
<1>1. PICK next : next = [tr EXCEPT ![k] = slot]
  OBVIOUS
<1>2. /\ next = [j \in Kinds |-> next[j]] /\ next[k] = slot
      /\ \A j \in Kinds : j # k => next[j] = tr[j]
  BY <1>1 DEF TraySound
<1>3. ASSUME NEW j \in Kinds
      PROVE  /\ SlotShaped(next[j]) /\ next[j].image \in 0..m
             /\ next[j].job # NoJob => /\ next[j].job \in Subs
                                       /\ <<j, next[j].image>> \in sv.subs[next[j].job].images
  <2>1. CASE j = k
    BY <1>2, <2>1
  <2>2. CASE j # k
    <3>1. tr[j].image \in 0..n /\ n \in Nat
      BY DEF TraySound
    <3> QED BY <1>2, <2>2, <3>1 DEF TraySound
  <2> QED BY <2>1, <2>2
<1>4. ASSUME NEW i \in Kinds, NEW j \in Kinds, next[i].image = next[j].image,
             next[i].image # NoImage
      PROVE  i = j
  BY <1>2, <1>4 DEF TraySound
<1> QED BY <1>1, <1>2, <1>3, <1>4 DEF TraySound

-----------------------------------------------------------------------------
(* What an answer, or its loss, does to the page.                            *)

CaptureNow(sv) ==
  /\ TraySound(slots, placed, sv) /\ PlanSound(plan)
  /\ CheckpointsSound(cp, plan, made, sv) /\ RequestsSound(net, cp, plan, sv)
  /\ SubmissionsSound(sv, cp, plan) /\ FlowSound(flow, cp, plan, sv)
CaptureThen(sv) ==
  /\ TraySound(slots', placed', sv) /\ PlanSound(plan')
  /\ CheckpointsSound(cp', plan', made', sv) /\ RequestsSound(net', cp', plan', sv)
  /\ SubmissionsSound(sv, cp', plan') /\ FlowSound(flow', cp', plan', sv)
PageStays == plan' = plan /\ made' = made /\ mounted' = mounted /\ leaving' = leaving
\* The draft call is over, and no other plan may be made.
PastDraft == flow'.pc # "draft" /\ ~MayPlanAnew(dialog', mounted', leaving')

LEMMA IdleSound ==
  ASSUME NEW state, NEW pl, NEW sv
  PROVE  FlowSound(IdleFlow, state, pl, sv) /\ IdleFlow.pc = "idle"
BY DEF IdleFlow, FlowSound, FlowShaped

LEMMA NeverFresh ==
  ASSUME NEW on, NEW away, NEW d,
         \/ d = Failure(FALSE) \/ d = [status |-> "partial_result"] \/ d = [status |-> "submitting"]
         \/ \E yes : d = SubmissionClosed(yes)
  PROVE  ~MayPlanAnew(d, on, away)
<1>1. ~MayPlanAnew(Failure(FALSE), on, away)
  BY DEF Failure, MayPlanAnew
<1>2. CASE d.status \in {"partial_result", "submitting", "submission_closed"}
  BY <1>2 DEF MayPlanAnew
<1>3. d = Failure(FALSE) \/ d.status \in {"partial_result", "submitting", "submission_closed"}
  <2>1. ASSUME NEW yes, d = SubmissionClosed(yes) PROVE d.status = "submission_closed"
    BY <2>1 DEF SubmissionClosed
  <2>2. ASSUME d = [status |-> "partial_result"] PROVE d.status = "partial_result"
    BY <2>2
  <2>3. ASSUME d = [status |-> "submitting"] PROVE d.status = "submitting"
    BY <2>3
  <2> QED BY <2>1, <2>2, <2>3
<1> QED BY <1>1, <1>2, <1>3

LEMMA FlowMoves ==
  ASSUME NEW fl, NEW state, NEW pl, NEW sv, FlowSound(fl, state, pl, sv), NEW pc, NEW next,
         next = [fl EXCEPT !.pc = pc]
  PROVE  /\ FlowShaped(next) /\ next.pc = pc /\ next.i = fl.i /\ next.clean = fl.clean
         /\ next.created = fl.created /\ next.failed = fl.failed /\ next.members = fl.members
BY DEF FlowSound, FlowShaped

\* A workflow that ends.
LEMMA FlowEnds ==
  ASSUME NEW sv, CaptureNow(sv), PageStays, UNCHANGED <<tray, cp>>, flow' = IdleFlow,
         net' \subseteq net, ~MayPlanAnew(dialog', mounted', leaving')
  PROVE  CaptureThen(sv) /\ PastDraft
<1>1. FlowSound(flow', cp', plan', sv) /\ flow'.pc # "draft"
  BY IdleSound
<1>2. RequestsSound(net', cp', plan', sv)
  <2>1. cp' = cp /\ plan' = plan
    BY DEF PageStays
  <2> QED BY <2>1, RequestsFewer DEF CaptureNow
<1> QED BY <1>1, <1>2 DEF CaptureNow, CaptureThen, PageStays, PastDraft, tray

LEMMA EndsUnfresh ==
  ASSUME NEW d, EndIfMounted(d), PageStays, ~MayPlanAnew(dialog, mounted, leaving),
         ~MayPlanAnew(d, mounted, leaving)
  PROVE  flow' = IdleFlow /\ ~MayPlanAnew(dialog', mounted', leaving')
BY DEF EndIfMounted, End, Abort, PageStays

LEMMA DraftRefused ==
  ASSUME NEW sv, CaptureNow(sv), PageStays, UNCHANGED <<tray, cp>>, net' \subseteq net,
         ~MayPlanAnew(dialog, mounted, leaving), DraftFailed(FALSE)
  PROVE  CaptureThen(sv) /\ PastDraft
<1>1. EndIfMounted(Failure(FALSE))
  <2>1. (flow.clean /\ FALSE) = FALSE
    OBVIOUS
  <2> QED BY <2>1 DEF DraftFailed
<1> QED BY <1>1, EndsUnfresh, NeverFresh, FlowEnds

LEMMA PutRefused ==
  ASSUME NEW sv, CaptureNow(sv), PageStays, tray' = tray, net' \subseteq net,
         ~MayPlanAnew(dialog, mounted, leaving), NEW gone, PutFailed(gone)
  PROVE  CaptureThen(sv) /\ PastDraft
BY NeverFresh, EndsUnfresh, FlowEnds DEF PutFailed

\* The slot of an image: what is received, and the workflow goes to the next.
LEMMA Received ==
  ASSUME NEW sv, CaptureNow(sv), NEW k \in Kinds, NEW status, NEW s, Receive(k, status, s),
         s = NoJob \/ (s \in Subs /\ <<k, plan.images[k]>> \in sv.subs[s].images)
  PROVE  TraySound(slots', placed', sv)
BY TrayPut DEF Receive, CaptureNow

LEMMA NextSlot ==
  ASSUME NEW state, NEW pl, NEW sv, FlowSound(flow, state, pl, sv),
         flow.pc \in {"slot", "upload", "job", "getJob"},
         NEW next,
         \/ next = [flow EXCEPT !.pc = "slot", !.i = flow.i + 1]
         \/ next = [flow EXCEPT !.pc = "slot", !.i = flow.i + 1, !.created = flow.created + 1]
         \/ next = [flow EXCEPT !.pc = "slot", !.i = flow.i + 1, !.failed = flow.failed + 1]
  PROVE  FlowSound(next, state, pl, sv) /\ next.pc = "slot"
<1>1. FlowShaped(flow)
  BY DEF FlowSound
<1>2. FlowShaped(next) /\ next.pc = "slot" /\ next.i = flow.i + 1
  BY <1>1 DEF FlowShaped
<1>3. flow.i \in Nat \ {0} /\ IsAdmitted(sv, state.sub) /\ state.sub # 0
  BY DEF FlowSound
<1>4. next.i \in Nat \ {0}
  BY <1>2, <1>3
<1> QED BY <1>2, <1>3, <1>4 DEF FlowSound

LEMMA SlotRefused ==
  ASSUME NEW sv, CaptureNow(sv), PageStays, cp' = cp, net' \subseteq net,
         ~MayPlanAnew(dialog, mounted, leaving), SlotCallFailed,
         flow.pc \in {"upload", "job", "getJob"}
  PROVE  CaptureThen(sv) /\ PastDraft
<1>1. CASE mounted
  BY <1>1, KindFacts, Received, NextSlot, RequestsFewer
  DEF SlotCallFailed, CaptureNow, FlowSound, Kind, SlotFailed, CaptureThen, PageStays, PastDraft
<1>2. CASE ~mounted
  <2>1. flow' = IdleFlow /\ dialog' = dialog /\ UNCHANGED tray
    BY <1>2 DEF SlotCallFailed, Abort
  <2> QED BY <2>1, FlowEnds DEF PageStays
<1> QED BY <1>1, <1>2

\* The image of the slot in hand is one the submission carries.
LEMMA SlotImage ==
  ASSUME NEW sv, CaptureNow(sv), flow.pc # "idle", IsAdmitted(sv, cp.sub), Kind \in Kinds,
         plan.images[Kind] # NoImage, Kind \in cp.only
  PROVE  cp.sub \in Subs /\ <<Kind, plan.images[Kind]>> \in sv.subs[cp.sub].images
BY SubsFacts DEF CaptureNow, FlowSound, CheckpointsSound, SubmissionsSound, PutImages

\* The server has the job: the slot shows it.
LEMMA SlotTaken ==
  ASSUME NEW sv, CaptureNow(sv), flow.pc \in {"slot", "upload", "job", "getJob"},
         NEW status, SlotAccepted(status), Kind \in Kinds,
         plan.images[Kind] # NoImage, Kind \in cp.only
  PROVE  TraySound(slots', placed', sv) /\ FlowSound(flow', cp, plan, sv) /\ flow'.pc = "slot"
BY SlotImage, Received, NextSlot DEF CaptureNow, FlowSound, SlotAccepted

LEMMA JobTaken ==
  ASSUME NEW sv, CaptureNow(sv), PageStays, net' \subseteq net,
         ~MayPlanAnew(dialog, mounted, leaving), NEW status, JobAnswered(status),
         flow.pc \in {"upload", "job", "getJob"}
  PROVE  CaptureThen(sv) /\ PastDraft
<1>1. PICK jobs : cp' = [cp EXCEPT !.jobs = jobs]
  BY DEF JobAnswered
<1>2. /\ CheckpointsShaped(cp') /\ cp'.sub = cp.sub /\ cp'.only = cp.only /\ cp'.retry = cp.retry
  <2>1. CheckpointsShaped(cp)
    BY DEF CaptureNow, CheckpointsSound
  <2> QED BY <1>1, <2>1, JobMarked
<1>3. /\ CheckpointsSound(cp', plan, made, sv) /\ RequestsSound(net, cp', plan, sv)
      /\ SubmissionsSound(sv, cp', plan)
  BY <1>2, SameAim DEF CaptureNow
<1>4. RequestsSound(net', cp', plan, sv)
  BY <1>3, RequestsFewer
<1>5. TraySound(slots', placed', sv) /\ FlowSound(flow', cp, plan, sv) /\ flow'.pc # "draft"
      /\ dialog' = dialog
  BY KindFacts, SlotTaken, IdleSound DEF JobAnswered, CaptureNow, FlowSound, Kind, Abort, tray
<1>6. FlowSound(flow', cp', plan, sv)
  BY <1>2, <1>5, SameAim
<1> QED BY <1>3, <1>4, <1>5, <1>6 DEF CaptureNow, CaptureThen, PageStays, PastDraft

\* The next call is sent, or the page is gone.
LEMMA Continued ==
  ASSUME NEW sv, CaptureNow(sv), NEW rest, rest \subseteq net, NEW pc, NEW r,
         pc \in {"put", "upload", "job", "getJob"}, Continue(pc, r, rest),
         NEW state, RequestsSound(net, state, plan, sv), SentSound(r, state, plan, sv),
         state.sub = cp.sub, state.only = cp.only, cp.sub # 0,
         pc # "put" => /\ IsAdmitted(sv, cp.sub) /\ flow.i \in DOMAIN KindOrder
                       /\ flow.i \in Nat \ {0}
                       /\ plan.images[KindOrder[flow.i]] # NoImage /\ KindOrder[flow.i] \in cp.only
  PROVE  /\ RequestsSound(net', state, plan, sv) /\ FlowSound(flow', state, plan, sv)
         /\ flow'.pc # "draft" /\ dialog' = dialog
<1>1. CASE mounted
  <2>1. flow' = [flow EXCEPT !.pc = pc] /\ net' = rest \cup {r} /\ dialog' = dialog
    BY <1>1 DEF Continue
  <2>2. RequestsSound(net', state, plan, sv)
    <3>1. net' \subseteq net \cup {r}
      BY <2>1
    <3> QED BY <3>1, RequestAdded
  <2>3. FlowShaped(flow') /\ flow'.pc = pc /\ flow'.i = flow.i
    <3>1. FlowShaped(flow)
      BY DEF CaptureNow, FlowSound
    <3> QED BY <2>1, <3>1 DEF FlowShaped
  <2>4. FlowSound(flow', state, plan, sv)
    BY <2>3 DEF FlowSound
  <2> QED BY <2>1, <2>2, <2>3, <2>4
<1>2. CASE ~mounted
  BY <1>2, RequestsFewer, IdleSound DEF Continue, Abort
<1> QED BY <1>1, <1>2

LEMMA UploadTaken ==
  ASSUME NEW sv, CaptureNow(sv), PageStays, NEW rest, rest \subseteq net,
         ~MayPlanAnew(dialog, mounted, leaving), UploadAnswered(rest), flow.pc = "upload"
  PROVE  CaptureThen(sv) /\ PastDraft
<1>1. PICK uploaded : cp' = [cp EXCEPT !.uploaded = uploaded]
  BY DEF UploadAnswered
<1>2. /\ CheckpointsShaped(cp') /\ cp'.sub = cp.sub /\ cp'.only = cp.only /\ cp'.retry = cp.retry
  <2>1. CheckpointsShaped(cp)
    BY DEF CaptureNow, CheckpointsSound
  <2> QED BY <1>1, <2>1, UploadMarked
<1>3. /\ CheckpointsSound(cp', plan, made, sv) /\ RequestsSound(net, cp', plan, sv)
      /\ SubmissionsSound(sv, cp', plan)
  BY <1>2, SameAim DEF CaptureNow
<1>4. /\ Kind \in Kinds /\ plan.images[KindOrder[flow.i]] # NoImage /\ KindOrder[flow.i] \in cp.only
      /\ IsAdmitted(sv, cp.sub) /\ flow.i \in DOMAIN KindOrder /\ flow.i \in Nat \ {0} /\ cp.sub # 0
  BY KindFacts DEF CaptureNow, FlowSound, Kind
<1>5. SentSound(ImageRequest("job", Kind), cp', plan, sv)
  BY <1>4, ImageRequestSound DEF CaptureNow
<1>6. Continue("job", ImageRequest("job", Kind), rest) /\ UNCHANGED tray
  BY DEF UploadAnswered
<1>7. /\ RequestsSound(net', cp', plan, sv) /\ FlowSound(flow', cp', plan, sv)
      /\ flow'.pc # "draft" /\ dialog' = dialog
  BY <1>2, <1>3, <1>4, <1>5, <1>6, Continued
<1> QED BY <1>3, <1>6, <1>7 DEF CaptureNow, CaptureThen, PageStays, PastDraft, tray

LEMMA DraftTaken ==
  ASSUME NEW sv, CaptureNow(sv), PageStays, NEW rest, rest \subseteq net, UNCHANGED tray,
         ~MayPlanAnew(dialog, mounted, leaving), DraftAnswered(rest), flow.pc = "draft"
  PROVE  CaptureThen(sv) /\ PastDraft
<1>1. PICK a, b : cp' = [cp EXCEPT !.draft = a, !.requested = b]
  BY DEF DraftAnswered
<1>2. /\ CheckpointsShaped(cp') /\ cp'.sub = cp.sub /\ cp'.only = cp.only /\ cp'.retry = cp.retry
  <2>1. CheckpointsShaped(cp)
    BY DEF CaptureNow, CheckpointsSound
  <2> QED BY <1>1, <2>1 DEF CheckpointsShaped
<1>3. /\ CheckpointsSound(cp', plan, made, sv) /\ RequestsSound(net, cp', plan, sv)
      /\ SubmissionsSound(sv, cp', plan)
  BY <1>2, SameAim DEF CaptureNow
<1>4. cp.sub # 0
  BY DEF CaptureNow, FlowSound
<1>5. SentSound(PutRequest(cp), cp', plan, sv)
  <2>1. SentSound(PutRequest(cp), cp, plan, sv)
    BY <1>4, PutRequestSound DEF CaptureNow
  <2>2. RequestsSound({PutRequest(cp)}, cp, plan, sv)
    BY <2>1 DEF RequestsSound
  <2>3. RequestsSound({PutRequest(cp)}, cp', plan, sv)
    BY <1>2, <2>2, SameAim
  <2> QED BY <2>3 DEF RequestsSound
<1>6. Continue("put", PutRequest(cp), rest)
  BY DEF DraftAnswered
<1>7. /\ RequestsSound(net', cp', plan, sv) /\ FlowSound(flow', cp', plan, sv)
      /\ flow'.pc # "draft" /\ dialog' = dialog
  BY <1>2, <1>3, <1>4, <1>5, <1>6, Continued
<1> QED BY <1>3, <1>7 DEF CaptureNow, CaptureThen, PageStays, PastDraft, tray

LEMMA PutTaken ==
  ASSUME NEW sv, CaptureNow(sv), PageStays, net' \subseteq net, UNCHANGED tray,
         ~MayPlanAnew(dialog, mounted, leaving), IsAdmitted(sv, cp.sub), PutAnswered(sv.subs[cp.sub]),
         flow.pc = "put"
  PROVE  CaptureThen(sv) /\ PastDraft
<1> DEFINE sub == sv.subs[cp.sub]
           lost == Unregistered(cp, sub.members)
           over == sub.status = "aborted" \/ (sub.status = "settled" /\ lost # {})
<1>1. CASE ~mounted
  <2>1. flow' = IdleFlow /\ dialog' = dialog /\ cp' = cp
    BY <1>1 DEF PutAnswered, Abort
  <2> QED BY <2>1, FlowEnds DEF PageStays
<1>2. CASE mounted /\ over
  <2>1. PICK a : a = IF sub.status = "settled" THEN lost ELSE {}
    OBVIOUS
  <2>2. cp' = [cp EXCEPT !.retry = a] /\ End(SubmissionClosed(cp'.retry # {}))
    BY <1>2, <2>1 DEF PutAnswered
  <2>3. CheckpointsShaped(cp)
    BY DEF CaptureNow, CheckpointsSound
  <2>4. CheckpointsShaped(cp') /\ cp'.sub = cp.sub /\ cp'.only = cp.only /\ cp'.retry = a
    BY <2>2, <2>3, RetryPut
  <2>6. \A k \in a : k \in cp.only /\ sub.members[k] = "failed"
    BY <2>1 DEF Unregistered
  <2>7. cp.sub # 0
    BY DEF CaptureNow, FlowSound
  <2>8. CheckpointsSound(cp', plan, made, sv)
    BY <2>4, <2>6, <2>7 DEF CaptureNow, CheckpointsSound
  <2>9. PutImages(plan, cp') = PutImages(plan, cp)
    BY <2>4 DEF PutImages
  <2>10. RequestsSound(net, cp', plan, sv)
    BY <2>4, <2>9 DEF CaptureNow, RequestsSound, SentSound
  <2>11. RequestsSound(net', cp', plan, sv)
    BY <2>10, RequestsFewer
  <2>12. SubmissionsSound(sv, cp', plan)
    BY <2>4, <2>9 DEF CaptureNow, SubmissionsSound
  <2>13. flow' = IdleFlow /\ ~MayPlanAnew(dialog', mounted', leaving')
    BY <2>2, NeverFresh DEF End
  <2>14. FlowSound(flow', cp', plan, sv) /\ flow'.pc # "draft"
    BY <2>13, IdleSound
  <2> QED BY <2>8, <2>11, <2>12, <2>13, <2>14 DEF CaptureNow, CaptureThen, PageStays, PastDraft, tray
<1>3. CASE mounted /\ ~over
  <2>1. /\ cp' = cp /\ dialog' = dialog
        /\ flow' = [flow EXCEPT !.pc = "slot", !.i = 1, !.members = sub.members]
    BY <1>3 DEF PutAnswered
  <2>2. FlowShaped(flow) /\ cp.sub # 0
    BY DEF CaptureNow, FlowSound
  <2>3. FlowShaped(flow') /\ flow'.pc = "slot" /\ flow'.i = 1
    BY <2>1, <2>2 DEF FlowShaped
  <2>4. FlowSound(flow', cp, plan, sv)
    BY <2>2, <2>3 DEF FlowSound
  <2>5. RequestsSound(net', cp, plan, sv)
    BY RequestsFewer DEF CaptureNow
  <2> QED BY <2>1, <2>3, <2>4, <2>5 DEF CaptureNow, CaptureThen, PageStays, PastDraft, tray
<1> QED BY <1>1, <1>2, <1>3

LEMMA ReachesFacts ==
  ASSUME NEW sv, CaptureNow(sv), NEW r, Reaches(r)
  PROVE  /\ r.op = flow.pc /\ r.op \in {"draft", "put", "upload", "job", "getJob"}
         /\ r.op # "draft" => r.at = cp.sub
         /\ r.op = "put" => r.images = PutImages(plan, cp)
         /\ cp.sub # 0
<1>1. flow.pc \in {"draft", "put", "upload", "job", "getJob"} /\ cp.sub # 0
  BY DEF CaptureNow, FlowSound, Reaches
<1>2. r = Awaited
  BY DEF Reaches
<1>3. CASE flow.pc = "draft"
  <2>1. r = DraftRequest(cp)
    BY <1>2, <1>3 DEF Awaited
  <2> QED BY <1>1, <1>3, <2>1 DEF DraftRequest, Request
<1>4. CASE flow.pc = "put"
  BY <1>2, <1>4, PutRequestIs, <1>1 DEF Awaited
<1>5. CASE flow.pc \in {"upload", "job", "getJob"}
  <2>1. r = ImageRequest(flow.pc, Kind)
    BY <1>2, <1>5 DEF Awaited
  <2> QED BY <1>1, <1>5, <2>1 DEF ImageRequest, Request
<1> QED BY <1>1, <1>3, <1>4, <1>5

LEMMA CallLost ==
  ASSUME NEW sv, CaptureNow(sv), PageStays, net' \subseteq net,
         ~MayPlanAnew(dialog, mounted, leaving), NEW r, Reaches(r), CallFailed(r)
  PROVE  CaptureThen(sv) /\ PastDraft
<1>1. r.op = flow.pc /\ r.op \in {"draft", "put", "upload", "job", "getJob"}
  BY ReachesFacts
<1>2. CASE r.op = "draft"
  <2>1. DraftFailed(FALSE) /\ UNCHANGED <<tray, cp>>
    BY <1>2 DEF CallFailed
  <2> QED BY <2>1, DraftRefused
<1>3. CASE r.op = "put"
  <2>1. PutFailed(FALSE) /\ UNCHANGED tray
    BY <1>3 DEF CallFailed
  <2> QED BY <2>1, PutRefused
<1>4. CASE r.op \in {"upload", "job", "getJob"}
  <2>1. SlotCallFailed /\ UNCHANGED cp
    BY <1>4 DEF CallFailed
  <2> QED BY <1>1, <1>4, <2>1, SlotRefused
<1> QED BY <1>1, <1>2, <1>3, <1>4

LEMMA NotSeen ==
  ASSUME NEW sv, CaptureNow(sv), PageStays, net' \subseteq net, UNCHANGED <<tray, client>>
  PROVE  CaptureThen(sv)
<1>1. RequestsSound(net', cp, plan, sv)
  BY RequestsFewer DEF CaptureNow
<1> QED BY <1>1 DEF CaptureNow, CaptureThen, PageStays, tray, client

\* A submission that may be asked for anew has nothing else on its way.
LEMMA CleanReaches ==
  ASSUME CaptureInv, NEW r \in net, flow.clean, flow.pc = "draft"
  PROVE  Reaches(r)
BY DEF CaptureInv, CleanSound, DraftRequest, Request, Reaches, Awaited

-----------------------------------------------------------------------------
(* The server.                                                               *)

LEMMA NotFresh ==
  ASSUME CaptureInv, net # {} \/ \E s \in Subs : IsAdmitted(srv, s)
  PROVE  ~MayPlanAnew(dialog, mounted, leaving)
BY DEF CaptureInv, NothingSent

LEMMA ServerOn ==
  ASSUME CaptureInv, NEW sv, SubmissionsSound(sv, cp, plan), ServerGrows(srv, sv)
  PROVE  CaptureNow(sv)
BY TrayGrows, CheckpointsGrow, RequestsGrow, FlowGrows DEF CaptureInv, CaptureNow

LEMMA ServerSame ==
  ASSUME CaptureInv
  PROVE  CaptureNow(srv)
BY DEF CaptureInv, CaptureNow

\* The step of a request: an outcome the page takes in, or none.
LEMMA StepDone ==
  ASSUME CaptureInv, PageStays, CaptureThen(srv'), JobsSound(job', srv'), PastDraft
  PROVE  CaptureInv'
BY DEF CaptureInv, CaptureThen, PastDraft, CleanSound

LEMMA StepUnseen ==
  ASSUME CaptureInv, NEW r \in net, PageStays, CaptureNow(srv'), JobsSound(job', srv'),
         net' \subseteq net,
         \/ ~Reaches(r) /\ UNCHANGED <<tray, client>>
         \/ Reaches(r) /\ CallFailed(r)
  PROVE  CaptureInv'
BY NotFresh, NotSeen, CleanReaches, CallLost, StepDone
DEF client, PageStays, CaptureInv, CaptureThen, CleanSound

LEMMA DraftsOnly ==
  ASSUME NEW sv, NEW state, NEW pl, SubmissionsSound(sv, state, pl), NEW drafts, NEW next,
         next = [sv EXCEPT !.drafts = drafts], NEW jb, JobsSound(jb, sv)
  PROVE  ServerGrows(sv, next) /\ SubmissionsSound(next, state, pl) /\ JobsSound(jb, next)
BY DEF SubmissionsSound, ServerGrows, JobsSound, IsAdmitted

LEMMA StepServeDraft ==
  ASSUME CaptureInv, NEW r, ServeDraft(r)
  PROVE  CaptureInv'
<1>1. r \in net /\ PageStays /\ job' = job
  BY DEF ServeDraft, PageStays
<1>2. ~MayPlanAnew(dialog, mounted, leaving)
  BY <1>1, NotFresh
<1>3. CASE /\ srv' = [srv EXCEPT !.drafts[r.plan] = IF srv.drafts[r.plan] = "none" THEN "live" ELSE srv.drafts[r.plan]]
           /\ Answer(r, DraftAnswered(net \ {r}) /\ UNCHANGED tray)
  BY <1>3, <1>1, DraftsOnly, ServerOn, ReachesFacts, <1>2, DraftTaken, StepDone, StepUnseen
  DEF CaptureInv, ServeDraft, Unobserved, Answer
<1>4. CASE /\ IF Reaches(r) THEN DraftFailed(TRUE) /\ UNCHANGED <<tray, cp>> ELSE Unobserved
           /\ net' = net \ {r} /\ srv' = srv
  <2>1. CaptureNow(srv') /\ JobsSound(job', srv')
    BY <1>1, <1>4, ServerSame DEF CaptureInv
  <2>2. CASE ~Reaches(r)
    BY <1>1, <1>4, <2>1, <2>2, StepUnseen DEF Unobserved
  <2>3. CASE Reaches(r)
    <3>1. EndIfMounted(Failure(flow.clean /\ TRUE)) /\ UNCHANGED <<tray, cp>>
      BY <1>4, <2>3 DEF DraftFailed
    <3>2. flow' = IdleFlow
      BY <3>1 DEF EndIfMounted, End, Abort
    <3>3. RequestsSound(net', cp, plan, srv)
      BY <1>4, RequestsFewer DEF CaptureInv
    <3>4. FlowSound(flow', cp, plan, srv) /\ flow'.pc # "draft"
      BY <3>2, IdleSound
    <3>5. MayPlanAnew(dialog', mounted', leaving') => NothingSent(net', srv)
      <4>1. CASE flow.clean
        BY <2>1, <2>3, ReachesFacts, <4>1, CleanReaches, <1>4
        DEF ServeDraft, Reaches, CaptureInv, CleanSound, NothingSent
      <4>2. CASE ~flow.clean
        <5>1. dialog' = dialog \/ dialog' = Failure(FALSE)
          <6>1. (flow.clean /\ TRUE) = FALSE
            BY <4>2
          <6> QED BY <3>1, <6>1 DEF EndIfMounted, End, Abort
        <5> QED BY <1>1, <1>2, <5>1, NeverFresh DEF PageStays
      <4> QED BY <4>1, <4>2
    <3> QED BY <1>1, <1>4, <2>1, <3>1, <3>3, <3>4, <3>5 DEF CaptureInv, PageStays, tray, CleanSound
  <2> QED BY <2>2, <2>3
<1> QED BY <1>3, <1>4 DEF ServeDraft

LEMMA AdmittedIs ==
  ASSUME NEW r
  PROVE  /\ SubmissionShaped(Admitted(r)) /\ Admitted(r).status = "open"
         /\ Admitted(r).images = r.images
BY DEF Admitted, SubmissionShaped

\* The submission in hand is admitted: the earlier ones refused what it carries.
LEMMA AdmitSound ==
  ASSUME CaptureInv, NEW s, s = cp.sub, s \in Subs, ~IsAdmitted(srv, s), NEW sub,
         SubmissionShaped(sub), sub.status = "open", sub.images = PutImages(plan, cp),
         NEW next, next = [srv EXCEPT !.subs[s] = sub]
  PROVE  /\ ServerGrows(srv, next) /\ SubmissionsSound(next, cp, plan) /\ JobsSound(job, next)
         /\ IsAdmitted(next, s) /\ next.subs[s] = sub
<1> DEFINE sv == srv
<1>1. SubmissionsSound(sv, cp, plan) /\ JobsSound(job, sv)
  BY DEF CaptureInv
<1>2. /\ sv = [drafts |-> sv.drafts, subs |-> sv.subs] /\ sv.subs = [t \in Subs |-> sv.subs[t]]
      /\ sv.subs[s] = NoSubmission
  BY <1>1 DEF SubmissionsSound
<1>3. PICK subs : subs = [srv.subs EXCEPT ![s] = sub]
  OBVIOUS
<1>4. next = [srv EXCEPT !.subs = subs]
  BY <1>3
<1>5. next = [drafts |-> srv.drafts, subs |-> subs]
  BY <1>2, <1>4
<1>6. /\ subs = [t \in Subs |-> subs[t]] /\ subs[s] = sub
      /\ \A t \in Subs : t # s => subs[t] = srv.subs[t]
  BY <1>2, <1>3
<1>7. /\ next = [drafts |-> next.drafts, subs |-> next.subs] /\ next.subs = [t \in Subs |-> next.subs[t]]
      /\ next.subs[s] = sub /\ \A t \in Subs : t # s => next.subs[t] = srv.subs[t]
  <2>1. next.subs = subs /\ next.drafts = srv.drafts
    BY <1>5
  <2> HIDE DEF sv
  <2> QED BY ONLY <1>5, <1>6, <2>1
<1>8. IsAdmitted(next, s)
  BY <1>7 DEF IsAdmitted
<1>9. ServerGrows(srv, next)
  BY <1>7 DEF ServerGrows, IsAdmitted
<1>10. \A k \in Kinds : job[s][k] = "none"
  <2>1. NoSubmission.members = [k \in Kinds |-> "absent"]
    BY DEF NoSubmission
  <2>2. \A k \in Kinds : srv.subs[s].members[k] = "absent"
    BY <1>2, <2>1
  <2> QED BY <1>1, <2>2 DEF JobsSound
<1>11. JobsSound(job, next)
  BY <1>1, <1>7, <1>10 DEF JobsSound
<1>12. ASSUME NEW t \in Subs
       PROVE  /\ SubmissionShaped(next.subs[t])
              /\ ~IsAdmitted(next, t) => next.subs[t] = NoSubmission
              /\ IsAdmitted(next, t) =>
                   /\ t <= cp.sub
                   /\ t = cp.sub => next.subs[t].images = PutImages(plan, cp)
                   /\ next.subs[t].images \subseteq {<<k, plan.images[k]>> : k \in {x \in Kinds : plan.images[x] # NoImage}}
                   /\ t # cp.sub =>
                        \A k \in Kinds : k \in cp.only /\ plan.images[k] # NoImage =>
                                         next.subs[t].members[k] = "failed"
  <2>1. CASE t = s
    <3>1. t <= cp.sub
      BY <2>1, SubsFacts
    <3>2. PutImages(plan, cp) \subseteq {<<k, plan.images[k]>> : k \in {x \in Kinds : plan.images[x] # NoImage}}
      BY DEF PutImages
    <3> QED BY <1>7, <1>8, <2>1, <3>1, <3>2
  <2>2. CASE t # s
    BY <1>1, <1>7, <2>2 DEF SubmissionsSound, IsAdmitted
  <2> QED BY <2>1, <2>2
<1>13. ASSUME NEW t \in Subs, NEW u \in Subs, t < u, IsAdmitted(next, t), IsAdmitted(next, u),
              NEW k \in Kinds, <<k, plan.images[k]>> \in next.subs[u].images
       PROVE  next.subs[t].members[k] = "failed"
  <2>1. t \in Nat /\ u \in Nat /\ s \in Nat /\ u <= s
    BY <1>12, <1>13, SubsFacts
  <2>2. t # s
    BY <1>13, <2>1
  <2>3. CASE u = s
    <3>1. k \in cp.only /\ plan.images[k] # NoImage
      BY <1>7, <1>13, <2>3 DEF PutImages
    <3>2. IsAdmitted(next, t) /\ t # cp.sub
      BY <1>13, <2>2
    <3> QED BY <1>12, <3>1, <3>2
  <2>4. CASE u # s
    BY <1>1, <1>7, <1>13, <2>2, <2>4 DEF SubmissionsSound, IsAdmitted
  <2> QED BY <2>3, <2>4
<1>14. SubmissionsSound(next, cp, plan)
  <2>1. \A t, u \in Subs :
          t < u /\ IsAdmitted(next, t) /\ IsAdmitted(next, u) =>
            \A k \in Kinds : <<k, plan.images[k]>> \in next.subs[u].images => next.subs[t].members[k] = "failed"
    BY <1>13
  <2> QED BY <1>7, <1>12, <2>1 DEF SubmissionsSound
<1> QED BY <1>7, <1>8, <1>9, <1>11, <1>14

LEMMA StepServePut ==
  ASSUME CaptureInv, NEW r, ServePut(r)
  PROVE  CaptureInv'
<1>1. r \in net /\ r.op = "put" /\ PageStays /\ job' = job
  BY DEF ServePut, PageStays
<1>2. ~MayPlanAnew(dialog, mounted, leaving)
  BY <1>1, NotFresh
<1>3. SentSound(r, cp, plan, srv) /\ r.at \in Subs /\ CaptureNow(srv)
  <2>1. SentSound(r, cp, plan, srv)
    BY <1>1 DEF CaptureInv, RequestsSound
  <2> QED BY <1>1, <2>1, SubsFacts, ServerSame DEF SentSound, CaptureInv, CheckpointsSound
<1>4. PICK rest : rest = net \ {r}
  OBVIOUS
\* What the server admits or finds is told to the workflow.
<1>5. ASSUME CaptureNow(srv'), JobsSound(job', srv'), IsAdmitted(srv', r.at),
             Answer(r, /\ PutAnswered(srv'.subs[r.at]) /\ net' = net \ {r} /\ UNCHANGED tray)
      PROVE  CaptureInv'
  <2>1. CASE Reaches(r) /\ PutAnswered(srv'.subs[r.at]) /\ net' = net \ {r} /\ UNCHANGED tray
    <3>1. r.op = flow.pc /\ r.at = cp.sub
      BY <1>1, <1>5, <2>1, ReachesFacts
    <3>2. PICK sv : sv = srv'
      OBVIOUS
    <3>3. CaptureThen(sv) /\ PastDraft
      BY <1>1, <1>2, <1>5, <2>1, <3>1, <3>2, PutTaken
    <3> QED BY <1>1, <1>5, <3>2, <3>3, StepDone
  <2>2. CASE Reaches(r) /\ CallFailed(r) /\ net' = net \ {r}
    BY <1>1, <1>5, <2>2, StepUnseen
  <2>3. CASE ~Reaches(r) /\ Unobserved /\ net' = net \ {r}
    BY <1>1, <1>5, <2>3, StepUnseen DEF Unobserved
  <2> QED BY <1>5, <2>1, <2>2, <2>3 DEF Answer
<1>6. CASE IsAdmitted(srv, r.at)
  <2>1. srv' = srv /\ Answer(r, /\ PutAnswered(srv.subs[r.at]) /\ net' = net \ {r} /\ UNCHANGED tray)
    BY <1>6 DEF ServePut, IsAdmitted
  <2>2. CaptureNow(srv') /\ JobsSound(job', srv') /\ IsAdmitted(srv', r.at)
    BY <1>1, <1>3, <1>6, <2>1 DEF CaptureInv
  <2>3. Answer(r, /\ PutAnswered(srv'.subs[r.at]) /\ net' = net \ {r} /\ UNCHANGED tray)
    BY <2>1
  <2> QED BY <1>5, <2>2, <2>3
<1>7. CASE ~IsAdmitted(srv, r.at) /\ srv.drafts[r.plan] = "live"
  <2>1. /\ srv' = [srv EXCEPT !.subs[r.at] = Admitted(r)]
        /\ Answer(r, /\ PutAnswered(Admitted(r)) /\ net' = net \ {r} /\ UNCHANGED tray)
    BY <1>7 DEF ServePut, IsAdmitted
  <2>2. r.at = cp.sub /\ r.images = PutImages(plan, cp)
    BY <1>1, <1>3, <1>7 DEF SentSound
  <2>3. PICK sub : sub = Admitted(r)
    OBVIOUS
  <2>4. srv' = [srv EXCEPT !.subs[r.at] = sub]
    BY <2>1, <2>3
  <2>5. SubmissionShaped(sub) /\ sub.status = "open" /\ sub.images = PutImages(plan, cp)
    BY <2>2, <2>3, AdmittedIs
  <2>6. /\ ServerGrows(srv, srv') /\ SubmissionsSound(srv', cp, plan) /\ JobsSound(job, srv')
        /\ IsAdmitted(srv', r.at) /\ srv'.subs[r.at] = sub
    BY <1>3, <1>7, <2>2, <2>4, <2>5, AdmitSound
  <2>7. CaptureNow(srv')
    BY <2>6, ServerOn
  <2>8. Answer(r, /\ PutAnswered(srv'.subs[r.at]) /\ net' = net \ {r} /\ UNCHANGED tray)
    BY <2>1, <2>3, <2>6
  <2> QED BY <1>1, <1>5, <2>6, <2>7, <2>8
<1>8. CASE ~IsAdmitted(srv, r.at) /\ srv.drafts[r.plan] # "live"
  <2>1. srv' = srv /\ Answer(r, PutFailed(TRUE) /\ net' = net \ {r} /\ UNCHANGED tray)
    BY <1>8 DEF ServePut, IsAdmitted
  <2>2. CaptureNow(srv') /\ JobsSound(job', srv')
    BY <1>1, <1>3, <2>1 DEF CaptureInv
  <2>3. CASE Reaches(r) /\ PutFailed(TRUE) /\ net' = net \ {r} /\ UNCHANGED tray
    <3>1. PICK sv : sv = srv'
      OBVIOUS
    <3>2. PICK gone : gone = TRUE
      OBVIOUS
    <3>3. PutFailed(gone)
      BY <2>3, <3>2
    <3>4. CaptureThen(sv) /\ PastDraft
      BY <1>1, <1>2, <2>2, <2>3, <3>1, <3>3, PutRefused
    <3> QED BY <1>1, <2>2, <3>1, <3>4, StepDone
  <2>4. CASE Reaches(r) /\ CallFailed(r) /\ net' = net \ {r}
    BY <1>1, <2>2, <2>4, StepUnseen
  <2>5. CASE ~Reaches(r) /\ Unobserved /\ net' = net \ {r}
    BY <1>1, <2>2, <2>5, StepUnseen DEF Unobserved
  <2> QED BY <2>1, <2>3, <2>4, <2>5 DEF Answer
<1> QED BY <1>6, <1>7, <1>8

\* One field of a submission.
SubmissionsShaped(sv) ==
  /\ sv = [drafts |-> sv.drafts, subs |-> sv.subs] /\ sv.subs = [s \in Subs |-> sv.subs[s]]
  /\ \A s \in Subs : SubmissionShaped(sv.subs[s])

LEMMA SubmissionPut ==
  ASSUME SubmissionsShaped(srv), NEW s \in Subs, NEW sub, SubmissionShaped(sub),
         srv' = [srv EXCEPT !.subs[s] = sub]
  PROVE  /\ SubmissionsShaped(srv') /\ srv'.subs[s] = sub
         /\ \A t \in Subs : t # s => srv'.subs[t] = srv.subs[t]
<1>1. PICK subs : subs = [srv.subs EXCEPT ![s] = sub]
  OBVIOUS
<1>2. srv' = [drafts |-> srv.drafts, subs |-> subs]
  BY <1>1 DEF SubmissionsShaped
<1>3. /\ subs = [t \in Subs |-> subs[t]] /\ subs[s] = sub
      /\ \A t \in Subs : t # s => subs[t] = srv.subs[t]
  BY <1>1 DEF SubmissionsShaped
<1>4. PICK next : next = srv'
  OBVIOUS
<1>5. next = [drafts |-> next.drafts, subs |-> next.subs] /\ next.subs = subs
  BY ONLY <1>2, <1>4
<1>6. next.subs = [t \in Subs |-> next.subs[t]]
  BY ONLY <1>3, <1>5
<1>7. \A t \in Subs : SubmissionShaped(next.subs[t])
  BY <1>3, <1>5 DEF SubmissionsShaped
<1>8. SubmissionsShaped(next)
  BY <1>5, <1>6, <1>7 DEF SubmissionsShaped
<1> QED BY <1>3, <1>4, <1>5, <1>8

\* A submission goes on: its images stay, and a member that failed has failed.
LEMMA SubmissionGoesOn ==
  ASSUME NEW sv, NEW state, NEW pl, SubmissionsSound(sv, state, pl), NEW s \in Subs,
         IsAdmitted(sv, s), NEW next, SubmissionsShaped(next),
         \A t \in Subs : t # s => next.subs[t] = sv.subs[t],
         IsAdmitted(next, s), next.subs[s].images = sv.subs[s].images,
         \A k \in Kinds : sv.subs[s].members[k] = "failed" => next.subs[s].members[k] = "failed"
  PROVE  ServerGrows(sv, next) /\ SubmissionsSound(next, state, pl)
BY ServerStays DEF ServerGrows, IsAdmitted, SubmissionsShaped

LEMMA SubmissionsAreShaped ==
  ASSUME NEW sv, NEW state, NEW pl, SubmissionsSound(sv, state, pl)
  PROVE  SubmissionsShaped(sv)
BY DEF SubmissionsSound, SubmissionsShaped

LEMMA RequestKind ==
  ASSUME CaptureInv, NEW r \in net, r.op \in {"upload", "job", "getJob"}
  PROVE  r.at \in Subs /\ KindOf(r) \in Kinds
<1>1. r.at \in Subs /\ \E k \in Kinds : \E image : r.images = {<<k, image>>}
  BY DEF CaptureInv, RequestsSound, SentSound
<1>2. PICK k, image : k \in Kinds /\ r.images = {<<k, image>>}
  BY <1>1
<1>3. (CHOOSE p \in r.images : TRUE) = <<k, image>>
  BY <1>2
<1> QED BY <1>1, <1>2, <1>3 DEF KindOf

LEMMA RegisteredShape ==
  ASSUME SubmissionsShaped(srv), NEW s \in Subs, NEW k \in Kinds
  PROVE  srv' = [srv EXCEPT !.subs[s].members[k] = "registered"] =>
           /\ SubmissionsShaped(srv') /\ srv'.subs[s].status = srv.subs[s].status
           /\ srv'.subs[s].images = srv.subs[s].images
           /\ srv'.subs[s].members[k] = "registered"
           /\ \A j \in Kinds : j # k => srv'.subs[s].members[j] = srv.subs[s].members[j]
           /\ \A t \in Subs : t # s => srv'.subs[t] = srv.subs[t]
<1>1. SUFFICES ASSUME srv' = [srv EXCEPT !.subs[s].members[k] = "registered"]
               PROVE  /\ SubmissionsShaped(srv') /\ srv'.subs[s].status = srv.subs[s].status
                      /\ srv'.subs[s].images = srv.subs[s].images
                      /\ srv'.subs[s].members[k] = "registered"
                      /\ \A j \in Kinds : j # k => srv'.subs[s].members[j] = srv.subs[s].members[j]
                      /\ \A t \in Subs : t # s => srv'.subs[t] = srv.subs[t]
  OBVIOUS
<1>2. PICK members : members = [srv.subs[s].members EXCEPT ![k] = "registered"]
  OBVIOUS
<1>3. PICK sub : sub = [srv.subs[s] EXCEPT !.members = members]
  OBVIOUS
<1>4. srv' = [srv EXCEPT !.subs[s] = sub]
  BY <1>1, <1>2, <1>3
<1>5. /\ members = [j \in Kinds |-> members[j]] /\ members[k] = "registered"
      /\ \A j \in Kinds : j # k => members[j] = srv.subs[s].members[j]
  BY <1>2 DEF SubmissionsShaped, SubmissionShaped
<1>6. sub = [status |-> srv.subs[s].status, plan |-> srv.subs[s].plan,
             images |-> srv.subs[s].images, members |-> members]
  <2>1. PICK old : old = srv.subs[s]
    OBVIOUS
  <2>2. SubmissionShaped(old)
    BY <2>1 DEF SubmissionsShaped
  <2>3. sub = [old EXCEPT !.members = members]
    BY <1>3, <2>1
  <2>4. sub = [status |-> old.status, plan |-> old.plan, images |-> old.images, members |-> members]
    BY <2>2, <2>3 DEF SubmissionShaped
  <2> QED BY <2>1, <2>4
<1>7. SubmissionShaped(sub) /\ sub.members = members /\ sub.status = srv.subs[s].status
      /\ sub.images = srv.subs[s].images
  BY <1>5, <1>6 DEF SubmissionShaped
<1>8. /\ SubmissionsShaped(srv') /\ srv'.subs[s] = sub
      /\ \A t \in Subs : t # s => srv'.subs[t] = srv.subs[t]
  BY <1>4, <1>7, SubmissionPut
<1> QED BY <1>5, <1>7, <1>8

LEMMA JobChanged ==
  ASSUME NEW sv, JobsSound(job, sv), NEW s \in Subs, NEW k \in Kinds, NEW status
  PROVE  job' = [job EXCEPT ![s][k] = status] =>
           /\ job' = [t \in Subs |-> [j \in Kinds |-> job'[t][j]]]
           /\ \A t \in Subs, j \in Kinds : t # s \/ j # k => job'[t][j] = job[t][j]
<1>1. SUFFICES ASSUME job' = [job EXCEPT ![s][k] = status]
               PROVE  /\ job' = [t \in Subs |-> [j \in Kinds |-> job'[t][j]]]
                      /\ \A t \in Subs, j \in Kinds : t # s \/ j # k => job'[t][j] = job[t][j]
  OBVIOUS
<1>2. PICK row : row = [job[s] EXCEPT ![k] = status]
  OBVIOUS
<1>3. job' = [job EXCEPT ![s] = row]
  BY <1>1, <1>2
<1>4. job = [t \in Subs |-> job[t]] /\ \A t \in Subs : job[t] = [j \in Kinds |-> job[t][j]]
  BY DEF JobsSound
<1>5. row = [j \in Kinds |-> row[j]] /\ \A j \in Kinds : j # k => row[j] = job[s][j]
  BY <1>2, <1>4
<1>6. /\ job' = [t \in Subs |-> job'[t]] /\ job'[s] = row
      /\ \A t \in Subs : t # s => job'[t] = job[t]
  BY <1>3, <1>4
<1>7. \A t \in Subs : job'[t] = [j \in Kinds |-> job'[t][j]]
  BY <1>4, <1>5, <1>6
<1>8. job' = [t \in Subs |-> [j \in Kinds |-> job'[t][j]]]
  BY <1>6, <1>7
<1> QED BY <1>5, <1>6, <1>8

LEMMA JobRegistered ==
  ASSUME CaptureInv, NEW s \in Subs, NEW k \in Kinds, srv.subs[s].status = "open",
         srv.subs[s].members[k] = "pending",
         SubmissionsShaped(srv'), srv'.subs[s].status = srv.subs[s].status,
         srv'.subs[s].images = srv.subs[s].images, srv'.subs[s].members[k] = "registered",
         \A j \in Kinds : j # k => srv'.subs[s].members[j] = srv.subs[s].members[j],
         \A t \in Subs : t # s => srv'.subs[t] = srv.subs[t],
         job' = [t \in Subs |-> [j \in Kinds |-> job'[t][j]]],
         \A t \in Subs, j \in Kinds : t # s \/ j # k => job'[t][j] = job[t][j]
  PROVE  CaptureNow(srv') /\ JobsSound(job', srv')
<1>1. PICK sv, next : sv = srv /\ next = srv'
  OBVIOUS
<1>2. SubmissionsSound(sv, cp, plan) /\ JobsSound(job, sv)
  BY <1>1 DEF CaptureInv
<1>3. IsAdmitted(sv, s) /\ IsAdmitted(next, s)
  BY <1>1 DEF IsAdmitted
<1>4. \A j \in Kinds : sv.subs[s].members[j] = "failed" => next.subs[s].members[j] = "failed"
  BY <1>1
<1>5. ServerGrows(sv, next) /\ SubmissionsSound(next, cp, plan)
  BY <1>1, <1>2, <1>3, <1>4, SubmissionGoesOn
<1>6. CaptureNow(next)
  BY <1>1, <1>5, ServerOn
<1>7. ASSUME NEW t \in Subs, NEW j \in Kinds, job'[t][j] # "none"
      PROVE  next.subs[t].members[j] = "registered"
  BY <1>1, <1>7, <1>2 DEF JobsSound
<1>8. JobsSound(job', next)
  BY <1>7 DEF JobsSound
<1> QED BY <1>1, <1>6, <1>8

LEMMA StepServeUpload ==
  ASSUME CaptureInv, NEW r, ServeUpload(r)
  PROVE  CaptureInv'
BY NotFresh, ServerSame, ReachesFacts, UploadTaken, StepDone, StepUnseen
DEF ServeUpload, PageStays, CaptureInv, Unobserved, Answer

LEMMA JobAnswer ==
  ASSUME CaptureInv, NEW r \in net, r.op \in {"job", "getJob"}, PageStays,
         CaptureNow(srv'), JobsSound(job', srv'), NEW status,
         Answer(r, JobAnswered(status) /\ net' = net \ {r})
  PROVE  CaptureInv'
BY NotFresh, ReachesFacts, JobTaken, StepDone, StepUnseen DEF Unobserved, Answer

LEMMA StepServeGetJob ==
  ASSUME CaptureInv, NEW r, ServeGetJob(r)
  PROVE  CaptureInv'
BY ServerSame, JobAnswer DEF ServeGetJob, PageStays, CaptureInv

LEMMA StepServeJob ==
  ASSUME CaptureInv, NEW r, ServeJob(r)
  PROVE  CaptureInv'
<1>1. r \in net /\ r.op = "job" /\ PageStays
  BY DEF ServeJob, PageStays
<1>2. ~MayPlanAnew(dialog, mounted, leaving)
  BY <1>1, NotFresh
<1>3. PICK s, k : s = r.at /\ k = KindOf(r)
  OBVIOUS
<1>4. s \in Subs /\ k \in Kinds
  BY <1>1, <1>3, RequestKind
<1>5. CASE /\ UNCHANGED <<srv, job>>
           /\ Answer(r, JobAnswered("queued") /\ net' = net \ {r})
  <2>1. CaptureNow(srv') /\ JobsSound(job', srv')
    BY ServerSame, <1>5 DEF CaptureInv
  <2> QED BY <1>1, <1>5, <2>1, JobAnswer
<1>6. CASE /\ Attachable(s, k)
           /\ job' = [job EXCEPT ![s][k] = "queued"]
           /\ srv' = [srv EXCEPT !.subs[s].members[k] = "registered"]
           /\ Answer(r, JobAnswered("queued") /\ net' = net \ {r})
  <2>1. srv.subs[s].status = "open" /\ srv.subs[s].members[k] = "pending"
    BY <1>6 DEF Attachable
  <2>2. SubmissionsShaped(srv) /\ JobsSound(job, srv)
    <3>1. SubmissionsSound(srv, cp, plan) /\ JobsSound(job, srv)
      BY DEF CaptureInv
    <3> QED BY ONLY <3>1, SubmissionsAreShaped
  <2>3. /\ job' = [t \in Subs |-> [j \in Kinds |-> job'[t][j]]]
        /\ \A t \in Subs, j \in Kinds : t # s \/ j # k => job'[t][j] = job[t][j]
    <3>1. job' = [job EXCEPT ![s][k] = "queued"]
      BY <1>6
    <3> QED BY ONLY ZenonT(30), <1>4, <2>2, <3>1, JobChanged
  <2>4. /\ SubmissionsShaped(srv') /\ srv'.subs[s].status = srv.subs[s].status
        /\ srv'.subs[s].images = srv.subs[s].images
        /\ srv'.subs[s].members[k] = "registered"
        /\ \A j \in Kinds : j # k => srv'.subs[s].members[j] = srv.subs[s].members[j]
        /\ \A t \in Subs : t # s => srv'.subs[t] = srv.subs[t]
    BY <1>4, <1>6, <2>2, RegisteredShape
  <2>5. CaptureNow(srv') /\ JobsSound(job', srv')
    BY <1>4, <2>1, <2>3, <2>4, JobRegistered
  <2>6. Answer(r, JobAnswered("queued") /\ net' = net \ {r})
    BY <1>6
  <2> QED BY <1>1, <2>5, <2>6, JobAnswer
<1>7. CASE /\ UNCHANGED <<srv, job>>
           /\ Answer(r, SlotCallFailed /\ net' = net \ {r} /\ UNCHANGED cp)
  BY ServerSame, <1>7, ReachesFacts, <1>1, <1>2, SlotRefused, StepDone, StepUnseen
  DEF CaptureInv, Unobserved, Answer
<1> QED BY Zenon, <1>3, <1>5, <1>6, <1>7 DEF ServeJob

LEMMA StepBreak ==
  ASSUME CaptureInv, NEW r, Break(r)
  PROVE  CaptureInv'
BY ServerSame, StepUnseen DEF Break, PageStays, CaptureInv

-----------------------------------------------------------------------------
(* What happens at the server by itself.                                     *)

LEMMA ServerStep ==
  ASSUME CaptureInv, ServerKeeps, SubmissionsShaped(srv'), JobsSound(job', srv'),
         \A s \in Subs :
           /\ ~IsAdmitted(srv, s) => srv'.subs[s] = srv.subs[s]
           /\ IsAdmitted(srv, s) =>
                /\ IsAdmitted(srv', s) /\ srv'.subs[s].images = srv.subs[s].images
                /\ \A k \in Kinds : srv.subs[s].members[k] = "failed" =>
                                    srv'.subs[s].members[k] = "failed"
  PROVE  CaptureInv'
BY ServerStays, ServerOn
DEF CaptureInv, ServerGrows, SubmissionsShaped, IsAdmitted, CaptureNow, ServerKeeps, tray, client,
    NothingSent, CleanSound

LEMMA StepJobEnds ==
  ASSUME CaptureInv, NEW s \in Subs, NEW k \in Kinds, NEW status, JobEnds(s, k, status)
  PROVE  CaptureInv'
<1>1. ServerKeeps /\ srv' = srv /\ job[s][k] \in {"queued", "running"} /\ JobsSound(job, srv)
  BY DEF JobEnds, CaptureInv
<1>2. /\ job' = [t \in Subs |-> [j \in Kinds |-> job'[t][j]]]
      /\ \A t \in Subs, j \in Kinds : t # s \/ j # k => job'[t][j] = job[t][j]
  BY <1>1, JobChanged DEF JobEnds
<1>3. job[s][k] # "none"
  BY <1>1
<1>4. \A t \in Subs, j \in Kinds : job'[t][j] # "none" => job[t][j] # "none"
  BY <1>2, <1>3
<1>5. JobsSound(job', srv')
  BY <1>1, <1>2, <1>4 DEF JobsSound
<1>6. SubmissionsShaped(srv')
  BY <1>1, SubmissionsAreShaped DEF CaptureInv
<1> QED BY <1>1, <1>5, <1>6, ServerStep DEF IsAdmitted

LEMMA SettledShape ==
  ASSUME SubmissionsShaped(srv), NEW s \in Subs, NEW members, NEW status,
         members = [k \in Kinds |-> members[k]]
  PROVE  srv' = [srv EXCEPT !.subs[s] = [srv.subs[s] EXCEPT !.members = members, !.status = status]] =>
           /\ SubmissionsShaped(srv') /\ srv'.subs[s].status = status
           /\ srv'.subs[s].images = srv.subs[s].images /\ srv'.subs[s].members = members
           /\ \A t \in Subs : t # s => srv'.subs[t] = srv.subs[t]
<1>1. SUFFICES ASSUME srv' = [srv EXCEPT !.subs[s] = [srv.subs[s] EXCEPT !.members = members, !.status = status]]
               PROVE  /\ SubmissionsShaped(srv') /\ srv'.subs[s].status = status
                      /\ srv'.subs[s].images = srv.subs[s].images /\ srv'.subs[s].members = members
                      /\ \A t \in Subs : t # s => srv'.subs[t] = srv.subs[t]
  OBVIOUS
<1>2. PICK old : old = srv.subs[s]
  OBVIOUS
<1>3. SubmissionShaped(old)
  BY <1>2 DEF SubmissionsShaped
<1>4. PICK sub : sub = [old EXCEPT !.members = members, !.status = status]
  OBVIOUS
<1>5. srv' = [srv EXCEPT !.subs[s] = sub]
  BY <1>1, <1>2, <1>4
<1>6. sub = [status |-> status, plan |-> old.plan, images |-> old.images, members |-> members]
  BY <1>3, <1>4 DEF SubmissionShaped
<1>7. SubmissionShaped(sub) /\ sub.members = members /\ sub.status = status /\ sub.images = old.images
  BY <1>6 DEF SubmissionShaped
<1>8. /\ SubmissionsShaped(srv') /\ srv'.subs[s] = sub
      /\ \A t \in Subs : t # s => srv'.subs[t] = srv.subs[t]
  BY <1>5, <1>7, SubmissionPut
<1> QED BY <1>2, <1>7, <1>8

LEMMA StepSettle ==
  ASSUME CaptureInv, NEW s \in Subs, Settle(s)
  PROVE  CaptureInv'
<1>1. PICK members : members = [k \in Kinds |-> IF srv.subs[s].members[k] = "pending" THEN "failed"
                                                ELSE srv.subs[s].members[k]]
  OBVIOUS
<1>2. PICK status : status = IF \A k \in Kinds : job[s][k] \notin WorkingStatus
                             THEN "settled" ELSE "open"
  OBVIOUS
<1>3. /\ srv.subs[s].status = "open" /\ job' = job /\ ServerKeeps
      /\ srv' = [srv EXCEPT !.subs[s] = [srv.subs[s] EXCEPT !.members = members, !.status = status]]
  BY <1>1, <1>2 DEF Settle
<1>4. /\ members = [k \in Kinds |-> members[k]]
      /\ \A k \in Kinds : /\ srv.subs[s].members[k] = "failed" => members[k] = "failed"
                          /\ srv.subs[s].members[k] = "registered" => members[k] = "registered"
  BY <1>1
<1>5. SubmissionsShaped(srv) /\ JobsSound(job, srv)
  BY SubmissionsAreShaped DEF CaptureInv
<1>6. /\ SubmissionsShaped(srv') /\ srv'.subs[s].status = status
      /\ srv'.subs[s].images = srv.subs[s].images /\ srv'.subs[s].members = members
      /\ \A t \in Subs : t # s => srv'.subs[t] = srv.subs[t]
  BY <1>3, <1>4, <1>5, SettledShape
<1>7. IsAdmitted(srv, s) /\ IsAdmitted(srv', s)
  BY <1>2, <1>3, <1>6 DEF IsAdmitted
<1>8. JobsSound(job', srv')
  <2>1. ASSUME NEW t \in Subs, NEW k \in Kinds, job[t][k] # "none"
        PROVE  srv'.subs[t].members[k] = "registered"
    <3>1. srv.subs[t].members[k] = "registered"
      BY <1>5, <2>1 DEF JobsSound
    <3> QED BY <1>4, <1>6, <3>1
  <2> QED BY <1>3, <1>5, <2>1 DEF JobsSound
<1>9. ASSUME NEW t \in Subs
      PROVE  /\ ~IsAdmitted(srv, t) => srv'.subs[t] = srv.subs[t]
             /\ IsAdmitted(srv, t) =>
                  /\ IsAdmitted(srv', t) /\ srv'.subs[t].images = srv.subs[t].images
                  /\ \A k \in Kinds : srv.subs[t].members[k] = "failed" =>
                                      srv'.subs[t].members[k] = "failed"
  <2>1. CASE t = s
    BY <1>4, <1>6, <1>7, <2>1
  <2>2. CASE t # s
    BY <1>6, <2>2 DEF IsAdmitted
  <2> QED BY <2>1, <2>2
<1> QED BY <1>3, <1>6, <1>8, <1>9, ServerStep

LEMMA StepDeleteDraft ==
  ASSUME CaptureInv, NEW n, DeleteDraft(n)
  PROVE  CaptureInv'
<1>1. PICK drafts : drafts = [srv.drafts EXCEPT ![n] = "deleted"]
  OBVIOUS
<1>2. PICK subs : subs = [s \in Subs |-> IF srv.subs[s].plan = n /\ srv.subs[s].status = "open"
                                         THEN [srv.subs[s] EXCEPT !.status = "aborted"]
                                         ELSE srv.subs[s]]
  OBVIOUS
<1>3. /\ ServerKeeps /\ srv' = [drafts |-> drafts, subs |-> subs]
      /\ job' = [s \in Subs |-> [k \in Kinds |->
                   IF srv.subs[s].plan = n /\ job[s][k] = "queued" THEN "cancelled" ELSE job[s][k]]]
  BY Zenon, <1>1, <1>2 DEF DeleteDraft
<1>4. SubmissionsShaped(srv) /\ JobsSound(job, srv)
  BY SubmissionsAreShaped DEF CaptureInv
<1>5. srv'.subs = subs /\ srv' = [drafts |-> srv'.drafts, subs |-> srv'.subs]
  BY <1>3
<1>6. ASSUME NEW s \in Subs
      PROVE  /\ SubmissionShaped(subs[s]) /\ subs[s].images = srv.subs[s].images
             /\ subs[s].members = srv.subs[s].members
             /\ subs[s].status = "none" <=> srv.subs[s].status = "none"
             /\ srv.subs[s].status = "none" => subs[s] = srv.subs[s]
  <2>1. PICK old : old = srv.subs[s]
    OBVIOUS
  <2>2. SubmissionShaped(old)
    BY <1>4, <2>1 DEF SubmissionsShaped
  <2>3. CASE old.plan = n /\ old.status = "open"
    BY <1>2, <2>1, <2>3, <2>2 DEF SubmissionShaped
  <2>4. CASE ~(old.plan = n /\ old.status = "open")
    <3>1. subs[s] = old
      BY <1>2, <2>1, <2>4
    <3> QED BY <2>1, <2>2, <3>1
  <2> QED BY <2>3, <2>4
<1>7. subs = [s \in Subs |-> subs[s]]
  BY <1>2
<1>8. SubmissionsShaped(srv')
  BY <1>5, <1>6, <1>7 DEF SubmissionsShaped
<1>9. JobsSound(job', srv')
  <2>1. job' = [s \in Subs |-> [k \in Kinds |-> job'[s][k]]]
    BY <1>3
  <2>2. ASSUME NEW s \in Subs, NEW k \in Kinds, job'[s][k] # "none"
        PROVE  srv'.subs[s].members[k] = "registered"
    <3>1. job[s][k] # "none"
      BY <1>3, <2>2
    <3> QED BY <1>4, <1>5, <1>6, <3>1 DEF JobsSound
  <2> QED BY <2>1, <2>2 DEF JobsSound
<1> QED BY <1>3, <1>5, <1>6, <1>8, <1>9, ServerStep DEF IsAdmitted

-----------------------------------------------------------------------------
(* The page.                                                                 *)

LEMMA TrayStep ==
  ASSUME CaptureInv, UNCHANGED <<client, server>>, TraySound(slots', placed', srv),
         MayPlanAnew(dialog', mounted', leaving') => MayPlanAnew(dialog, mounted, leaving)
  PROVE  CaptureInv'
BY DEF CaptureInv, client, server, CleanSound

LEMMA InitialIs ==
  SlotShaped(InitialSlot) /\ InitialSlot.image = NoImage /\ InitialSlot.job = NoJob
BY DEF InitialSlot, SlotShaped

LEMMA EmptyTray ==
  ASSUME NEW n \in Nat, NEW sv, NEW tr, tr = [k \in Kinds |-> InitialSlot]
  PROVE  TraySound(tr, n, sv)
BY SubsFacts, InitialIs DEF TraySound

LEMMA TrayFacts ==
  ASSUME CaptureInv
  PROVE  TraySound(slots, placed, srv) /\ placed \in Nat
BY DEF CaptureInv, TraySound

LEMMA StepAddImage ==
  ASSUME CaptureInv, AddImage
  PROVE  CaptureInv'
<1>1. PICK slot : slot = [image |-> placed + 1, status |-> "selected", job |-> NoJob]
  OBVIOUS
<1>2. /\ placed' = placed + 1 /\ slots' = [slots EXCEPT ![target] = slot]
      /\ UNCHANGED <<client, server>> /\ UNCHANGED <<mounted, leaving, dialog>>
  BY <1>1 DEF AddImage, client
<1>3. SlotShaped(slot) /\ slot.image = placed + 1 /\ slot.job = NoJob
  BY <1>1 DEF SlotShaped
<1>4. TraySound(slots, placed, srv) /\ placed \in Nat /\ placed' \in Nat /\ placed <= placed'
  BY <1>2, TrayFacts
<1>5. \A j \in Kinds : slots[j].image # placed + 1
  <2>1. \A j \in Kinds : slots[j].image \in 0..placed
    BY <1>4 DEF TraySound
  <2> QED BY <1>4, <2>1
<1>6. CASE target \in Kinds
  <2>1. slot.image \in 0..placed'
    BY <1>2, <1>3, <1>4
  <2>2. TraySound([slots EXCEPT ![target] = slot], placed', srv)
    BY <1>2, <1>3, <1>4, <1>5, <1>6, <2>1, TrayPlaced
  <2> QED BY <1>2, <2>2, TrayStep
<1>7. CASE target \notin Kinds
  <2>1. slots = [k \in Kinds |-> slots[k]]
    BY <1>4 DEF TraySound
  <2>2. slots' = slots
    BY <1>2, <1>7, <2>1
  <2>3. TraySound(slots', placed', srv)
    <3>1. 0..placed \subseteq 0..placed'
      BY <1>4
    <3> QED BY <1>4, <2>2, <3>1 DEF TraySound
  <2> QED BY <1>2, <2>3, TrayStep
<1> QED BY <1>6, <1>7

LEMMA StepClearImage ==
  ASSUME CaptureInv, NEW k \in Kinds, ClearImage(k)
  PROVE  CaptureInv'
<1>1. /\ slots' = [slots EXCEPT ![k] = InitialSlot] /\ placed' = placed
      /\ UNCHANGED <<client, server>> /\ UNCHANGED <<mounted, leaving, dialog>>
  BY DEF ClearImage, UpdateSlots, client
<1>2. PICK slot : slot = InitialSlot
  OBVIOUS
<1>3. TraySound([slots EXCEPT ![k] = slot], placed, srv)
  <2>1. NoImage \in 0..placed
    BY TrayFacts, SubsFacts
  <2> QED BY <1>2, <2>1, TrayFacts, InitialIs, TrayPlaced
<1> QED BY <1>1, <1>2, <1>3, TrayStep

LEMMA StepClearAllImages ==
  ASSUME CaptureInv, ClearAllImages
  PROVE  CaptureInv'
BY TrayFacts, EmptyTray, TrayStep DEF ClearAllImages, UpdateSlots, client

LEMMA KeepImageIs ==
  ASSUME NEW slot
  PROVE  /\ SlotShaped(KeepImageOnly(slot)) /\ KeepImageOnly(slot).job = NoJob
         /\ KeepImageOnly(slot).image = slot.image
BY InitialIs DEF KeepImageOnly, InitialSlot, SlotShaped

LEMMA StepSwapImages ==
  ASSUME CaptureInv, NEW from \in Kinds, NEW to \in Kinds, SwapImages(from, to)
  PROVE  CaptureInv'
<1>1. PICK a, b : a = KeepImageOnly(slots[to]) /\ b = KeepImageOnly(slots[from])
  OBVIOUS
<1>2. /\ slots' = [slots EXCEPT ![from] = a, ![to] = b] /\ placed' = placed /\ from # to
      /\ UNCHANGED <<client, server>> /\ UNCHANGED <<mounted, leaving, dialog>>
  BY <1>1 DEF SwapImages, UpdateSlots, client
<1>3. /\ SlotShaped(a) /\ a.job = NoJob /\ a.image = slots[to].image
      /\ SlotShaped(b) /\ b.job = NoJob /\ b.image = slots[from].image
  BY <1>1, KeepImageIs
<1>4. /\ slots' = [k \in Kinds |-> slots'[k]] /\ slots'[from] = a /\ slots'[to] = b
      /\ \A k \in Kinds : k # from /\ k # to => slots'[k] = slots[k]
  BY <1>2, TrayFacts DEF TraySound
<1>5. PICK tr, was : tr = slots' /\ was = slots
  OBVIOUS
<1>6. TraySound(was, placed, srv)
  BY <1>5, TrayFacts
<1>7. ASSUME NEW k \in Kinds
      PROVE  /\ SlotShaped(tr[k]) /\ tr[k].image \in 0..placed
             /\ tr[k].job # NoJob => /\ tr[k].job \in Subs
                                     /\ <<k, tr[k].image>> \in srv.subs[tr[k].job].images
  BY <1>3, <1>4, <1>5, <1>6 DEF TraySound
<1>8. ASSUME NEW k \in Kinds, NEW j \in Kinds, tr[k].image = tr[j].image, tr[k].image # NoImage
      PROVE  k = j
  BY <1>2, <1>3, <1>4, <1>5, <1>6, <1>8 DEF TraySound
<1>9. TraySound(tr, placed, srv)
  BY <1>4, <1>5, <1>7, <1>8, TrayFacts DEF TraySound
<1> QED BY <1>2, <1>5, <1>9, TrayStep

LEMMA StepSelectTarget ==
  ASSUME CaptureInv, NEW k \in Kinds, SelectTarget(k)
  PROVE  CaptureInv'
BY TrayFacts, TrayStep DEF SelectTarget, client

LEMMA StepReadJob ==
  ASSUME CaptureInv, NEW k \in Kinds, ReadJob(k)
  PROVE  CaptureInv'
BY TrayFacts, TrayStep DEF ReadJob, client, tray

LEMMA NewIs ==
  ASSUME NEW s
  PROVE  /\ CheckpointsShaped(NewCheckpoints(s)) /\ NewCheckpoints(s).sub = s
         /\ NewCheckpoints(s).only = Kinds /\ NewCheckpoints(s).retry = {}
BY DEF NewCheckpoints, CheckpointsShaped

\* A submit works on new checkpoints, on what an ended submission refused, or goes on.
Aims(state) ==
  \/ /\ state.sub = made + 1 /\ state.retry = {} /\ state.only = cp.retry /\ cp.retry # {}
  \/ /\ state.sub = made + 1 /\ state.retry = {} /\ state.only = Kinds /\ cp.sub = 0
  \/ /\ state.sub = cp.sub /\ state.retry = cp.retry /\ state.only = cp.only /\ cp.sub # 0

LEMMA StateForAims ==
  ASSUME CaptureInv, NEW restart, NEW state, state = StateFor(restart)
  PROVE  CheckpointsShaped(state) /\ Aims(state)
<1>1. CheckpointsShaped(cp)
  BY DEF CaptureInv, CheckpointsSound
<1>2. CASE restart /\ cp.retry # {} /\ cp.draft
  <2>1. PICK yes \in BOOLEAN : yes = TRUE
    OBVIOUS
  <2>2. PICK new : new = NewCheckpoints(made + 1)
    OBVIOUS
  <2>3. state = [new EXCEPT !.draft = yes, !.only = cp.retry]
    BY Zenon, <1>2, <2>1, <2>2 DEF StateFor
  <2>4. /\ CheckpointsShaped(new) /\ new.sub = made + 1 /\ new.retry = {}
    BY <2>2, NewIs
  <2>5. /\ CheckpointsShaped(state) /\ state.sub = made + 1 /\ state.retry = {}
        /\ state.only = cp.retry
    BY <2>3, <2>4 DEF CheckpointsShaped
  <2> QED BY <1>2, <2>5 DEF Aims
<1>3. CASE ~(restart /\ cp.retry # {} /\ cp.draft) /\ cp.sub = 0
  <2>1. state = NewCheckpoints(made + 1)
    BY <1>3 DEF StateFor
  <2> QED BY <1>3, <2>1, NewIs DEF Aims
<1>4. CASE ~(restart /\ cp.retry # {} /\ cp.draft) /\ cp.sub # 0
  <2>1. state = cp
    BY <1>4 DEF StateFor
  <2> QED BY <1>1, <1>4, <2>1 DEF Aims
<1> QED BY <1>2, <1>3, <1>4

LEMMA AimSound ==
  ASSUME CaptureInv, NEW state, CheckpointsShaped(state), Aims(state), state.sub \in Subs,
         NEW n, n = IF state.sub > made THEN state.sub ELSE made
  PROVE  /\ CheckpointsSound(state, plan, n, srv) /\ RequestsSound(net, state, plan, srv)
         /\ SubmissionsSound(srv, state, plan) /\ state.sub # 0
<1>1. /\ CheckpointsSound(cp, plan, made, srv) /\ RequestsSound(net, cp, plan, srv)
      /\ SubmissionsSound(srv, cp, plan)
  BY DEF CaptureInv
<1>2. made \in Nat /\ made <= MaxSubs /\ cp.sub \in 0..made /\ MaxSubs \in Nat
      /\ state.sub \in Nat /\ state.sub # 0 /\ state.sub <= MaxSubs
  BY <1>1, SubsFacts DEF CheckpointsSound
<1>3. CASE state.sub = cp.sub /\ state.retry = cp.retry /\ state.only = cp.only /\ cp.sub # 0
  <2>1. n = made
    BY <1>2, <1>3
  <2> QED BY <1>1, <1>2, <1>3, <2>1, SameAim
<1>4. CASE /\ state.sub = made + 1 /\ state.retry = {}
           /\ \/ state.only = cp.retry /\ cp.retry # {}
              \/ state.only = Kinds /\ cp.sub = 0
  <2>1. n = made + 1 /\ n \in Nat /\ n <= MaxSubs /\ state.sub = n
    BY <1>2, <1>4
  <2>2. cp.retry \subseteq Kinds
    BY <1>1 DEF CheckpointsSound
  <2>3. CheckpointsSound(state, plan, n, srv)
    BY <1>4, <2>1, <2>2 DEF CheckpointsSound
  \* Everything sent so far was admitted, and refused what is to be sent.
  <2>4. ASSUME NEW s \in Subs, s <= cp.sub
        PROVE  cp.sub \in Subs /\ s < state.sub /\ s # state.sub /\ cp.sub # 0
    BY <1>2, <1>4, <2>4, SubsFacts
  <2>5. ASSUME NEW s \in Subs, IsAdmitted(srv, s)
        PROVE  /\ s <= cp.sub
               /\ \A k \in Kinds : k \in state.only /\ plan.images[k] # NoImage =>
                                   srv.subs[s].members[k] = "failed"
    BY <1>1, <2>5, <1>4, <2>4 DEF SubmissionsSound, CheckpointsSound
  <2>6. ASSUME NEW s \in Subs, IsAdmitted(srv, s)
        PROVE  s <= state.sub /\ s # state.sub
    BY <1>2, <2>4, <2>5, <2>6, SubsFacts
  <2>7. SubmissionsSound(srv, state, plan)
    BY <1>1, <2>5, <2>6 DEF SubmissionsSound
  <2>8. RequestsSound(net, state, plan, srv)
    <3>1. ASSUME NEW r \in net, r.op = "put"
          PROVE  /\ r.at \in 1..state.sub /\ r.at # state.sub /\ IsAdmitted(srv, r.at)
      BY <1>1, <3>1, <1>2, SubsFacts, <1>4, <2>4 DEF RequestsSound, SentSound, CheckpointsSound
    <3>2. ASSUME NEW r \in net PROVE SentSound(r, state, plan, srv)
      BY <1>1, <3>1 DEF RequestsSound, SentSound
    <3> QED BY <3>2 DEF RequestsSound
  <2> QED BY <1>2, <2>3, <2>7, <2>8
<1> QED BY <1>3, <1>4 DEF Aims

LEMMA StartIs ==
  ASSUME NEW c, NEW start, start = [IdleFlow EXCEPT !.clean = c]
  PROVE  FlowShaped(start) /\ start.clean = c
BY DEF IdleFlow, FlowShaped

LEMMA StepConfirm ==
  ASSUME CaptureInv, Confirm
  PROVE  CaptureInv'
<1>1. PICK restart : restart = (dialog.status = "submission_closed" /\ dialog.canRestart)
  OBVIOUS
<1>2. PICK base : base = StateFor(restart)
  OBVIOUS
<1>3. PICK state : state = [base EXCEPT !.tries = base.tries + 1]
  OBVIOUS
<1>4. PICK c : c = Clean
  OBVIOUS
<1>5. PICK mark : mark = (state.draft \/ state.requested)
  OBVIOUS
<1>0. PICK start : start = [IdleFlow EXCEPT !.clean = c]
  OBVIOUS
<1>6. /\ state.sub \in Subs /\ made' = (IF state.sub > made THEN state.sub ELSE made)
      /\ cp' = [state EXCEPT !.requested = mark] /\ dialog' = [status |-> "submitting"]
      /\ \/ /\ flow' = [start EXCEPT !.pc = "put"]
            /\ net' = net \cup {PutRequest(state)}
         \/ /\ flow' = [start EXCEPT !.pc = "draft"]
            /\ net' = net \cup {DraftRequest(state)}
      /\ UNCHANGED <<tray, plan, srv, job, mounted, leaving>>
  BY <1>1, <1>2, <1>3, <1>4, <1>0, <1>5 DEF Confirm
<1>7. CheckpointsShaped(base) /\ Aims(base)
  BY <1>2, StateForAims
<1>8. /\ CheckpointsShaped(state) /\ state.sub = base.sub /\ state.only = base.only
      /\ state.retry = base.retry
  BY <1>3, <1>7 DEF CheckpointsShaped
<1>9. PICK next : next = cp'
  OBVIOUS
<1>10. /\ CheckpointsShaped(next) /\ next.sub = state.sub /\ next.only = state.only
       /\ next.retry = state.retry /\ next.tries = state.tries
  BY <1>6, <1>8, <1>9 DEF CheckpointsShaped
<1>11. Aims(next)
  BY <1>7, <1>8, <1>10 DEF Aims
<1>12. /\ CheckpointsSound(next, plan, made', srv) /\ RequestsSound(net, next, plan, srv)
       /\ SubmissionsSound(srv, next, plan) /\ next.sub # 0
  BY <1>6, <1>10, <1>11, AimSound
<1>13. PutImages(plan, next) = PutImages(plan, state)
  BY <1>10 DEF PutImages
<1>14. SentSound(PutRequest(state), next, plan, srv)
  BY <1>10, <1>13, PutRequestIs, <1>12 DEF CheckpointsSound, SentSound, RequestShaped
<1>15. /\ DraftRequest(state) = [op |-> "draft", plan |-> plan.n, at |-> 0, images |-> {},
                                 try |-> next.tries]
       /\ SentSound(DraftRequest(state), next, plan, srv)
  BY <1>10 DEF DraftRequest, Request, SentSound, RequestShaped
<1>16. RequestsSound(net', next, plan, srv)
  BY <1>6, <1>12, <1>14, <1>15, RequestAdded
<1>17. /\ FlowShaped(flow') /\ flow'.pc \in {"put", "draft"} /\ flow'.clean = c
       /\ flow'.pc = "draft" => net' = net \cup {DraftRequest(state)}
  <2>1. FlowShaped(start) /\ start.clean = c
    BY <1>0, StartIs
  <2>2. CASE flow' = [start EXCEPT !.pc = "put"] /\ net' = net \cup {PutRequest(state)}
    BY <2>1, <2>2 DEF FlowShaped
  <2>3. CASE flow' = [start EXCEPT !.pc = "draft"] /\ net' = net \cup {DraftRequest(state)}
    BY <2>1, <2>3 DEF FlowShaped
  <2> QED BY <1>6, <2>2, <2>3
<1>18. FlowSound(flow', next, plan, srv)
  BY <1>12, <1>17 DEF FlowSound
<1>19. ~MayPlanAnew(dialog', mounted', leaving')
  BY <1>6, NeverFresh
<1>20. CleanSound(flow', next, plan, net', srv)
  BY <1>4, <1>17, <1>15 DEF CleanSound, Clean, CaptureInv, MayPlanAnew, TrayEditing, NothingSent
<1> QED BY <1>6, <1>9, <1>12, <1>16, <1>18, <1>19, <1>20 DEF CaptureInv, tray

LEMMA StepConfirmUnreadable ==
  ASSUME CaptureInv, ConfirmUnreadable
  PROVE  CaptureInv'
<1>1. PICK restart \in BOOLEAN :
        restart = (dialog.status = "submission_closed" /\ dialog.canRestart)
  OBVIOUS
<1>2. /\ cp' = StateFor(restart) /\ cp'.sub \in Subs
      /\ made' = (IF cp'.sub > made THEN cp'.sub ELSE made)
      /\ flow.pc = "idle" /\ dialog' = Failure(Clean)
      /\ UNCHANGED <<tray, plan, flow, server, mounted, leaving>>
  BY <1>1 DEF ConfirmUnreadable
<1>3. CheckpointsShaped(cp') /\ Aims(cp')
  BY <1>2, StateForAims
<1>4. /\ CheckpointsSound(cp', plan, made', srv) /\ RequestsSound(net, cp', plan, srv)
      /\ SubmissionsSound(srv, cp', plan)
  BY <1>2, <1>3, AimSound
<1>5. FlowSound(flow, cp', plan, srv)
  BY <1>2 DEF CaptureInv, FlowSound
<1>6. MayPlanAnew(dialog', mounted', leaving') => NothingSent(net, srv)
  <2>1. CASE TrayEditing
    BY <2>1 DEF CaptureInv, MayPlanAnew, TrayEditing
  <2>2. CASE ~TrayEditing
    <3>1. dialog' = Failure(FALSE)
      <4>1. Clean = FALSE
        BY <2>2 DEF Clean, TrayEditing
      <4> QED BY <1>2, <4>1
    <3> QED BY <3>1, NeverFresh
  <2> QED BY <2>1, <2>2
<1>7. CleanSound(flow, cp', plan, net, srv)
  BY <1>2 DEF CleanSound
<1> QED BY <1>2, <1>4, <1>5, <1>6, <1>7 DEF CaptureInv, tray, server

LEMMA StepReviewSubmission ==
  ASSUME CaptureInv, ReviewSubmission
  PROVE  CaptureInv'
<1>1. /\ TrayReachable /\ flow.pc = "idle"
      /\ plan' = [n |-> plan.n + 1,
                  images |-> [k \in Kinds |-> IF k \in OcrTargets THEN slots[k].image ELSE NoImage]]
      /\ cp' = NewCheckpoints(0) /\ dialog' = [status |-> "confirming"]
      /\ UNCHANGED <<tray, made, flow, server, mounted, leaving>>
  BY DEF ReviewSubmission
<1>2. NothingSent(net, srv)
  BY <1>1 DEF CaptureInv, MayPlanAnew, TrayReachable
<1>3. PICK images : images = [k \in Kinds |-> IF k \in OcrTargets THEN slots[k].image ELSE NoImage]
  OBVIOUS
<1>4. /\ plan' = [n |-> plan'.n, images |-> plan'.images] /\ plan'.images = images
  BY <1>1, <1>3
<1>5. PlanSound(plan')
  BY <1>3, TrayFacts, <1>4 DEF TraySound, PlanSound
<1>6. /\ CheckpointsShaped(cp') /\ cp'.sub = 0 /\ cp'.only = Kinds /\ cp'.retry = {}
  BY <1>1, NewIs
<1>7. CheckpointsSound(cp', plan', made', srv)
  <2>1. made \in Nat /\ made <= MaxSubs
    BY DEF CaptureInv, CheckpointsSound
  <2> QED BY <1>1, <1>6, <2>1 DEF CheckpointsSound
<1>8. RequestsSound(net, cp', plan', srv)
  BY <1>2 DEF NothingSent, RequestsSound
<1>9. SubmissionsSound(srv, cp', plan')
  <2>1. SubmissionsSound(srv, cp, plan)
    BY DEF CaptureInv
  <2> QED BY <1>2, <2>1 DEF NothingSent, SubmissionsSound
<1>10. FlowSound(flow, cp', plan', srv)
  BY <1>1 DEF CaptureInv, FlowSound
<1>11. CleanSound(flow, cp', plan', net, srv)
  BY <1>1 DEF CleanSound
<1> QED BY <1>1, <1>2, <1>5, <1>7, <1>8, <1>9, <1>10, <1>11 DEF CaptureInv, tray, server

LEMMA StepCloseDialog ==
  ASSUME CaptureInv, CloseDialog
  PROVE  CaptureInv'
BY DEF CloseDialog, CaptureInv, MayPlanAnew, TrayEditing, tray, server

LEMMA StepViewMatches ==
  ASSUME CaptureInv, ViewMatches
  PROVE  CaptureInv'
BY DEF ViewMatches, MayPlanAnew, CaptureInv, tray, client, server

LEMMA StepUnmount ==
  ASSUME CaptureInv, Unmount
  PROVE  CaptureInv'
BY TrayFacts, EmptyTray DEF Unmount, Closed, MayPlanAnew, CaptureInv, server

LEMMA StepStartSlot ==
  ASSUME CaptureInv, StartSlot
  PROVE  CaptureInv'
<1>1. /\ flow.pc = "slot" /\ flow.i <= Len(KindOrder) /\ PageStays /\ cp' = cp /\ UNCHANGED <<srv, job>>
  BY DEF StartSlot, PageStays
<1>2. PICK sv : sv = srv
  OBVIOUS
<1>3. CaptureNow(sv) /\ JobsSound(job', srv')
  BY <1>1, <1>2, ServerSame DEF CaptureInv
<1>4. /\ flow.i \in Nat \ {0} /\ IsAdmitted(sv, cp.sub) /\ cp.sub # 0
  BY <1>1, <1>3 DEF CaptureNow, FlowSound
<1>5. flow.i \in DOMAIN KindOrder /\ Kind \in Kinds
  BY <1>1, <1>4, KindFacts, CaptureAssumption DEF Kind
<1>6. ~MayPlanAnew(dialog, mounted, leaving)
  <2>1. cp.sub \in Subs
    BY <1>3, <1>4, SubsFacts DEF CaptureNow, CheckpointsSound
  <2> QED BY <1>2, <1>4, <2>1, NotFresh
<1>7. ASSUME CaptureThen(sv), PastDraft PROVE CaptureInv'
  BY <1>1, <1>2, <1>3, <1>7, StepDone
\* The workflow goes on to the next image.
<1>8. ASSUME TraySound(slots', placed', sv), FlowSound(flow', cp, plan, sv), flow'.pc = "slot",
             dialog' = dialog, net' = net
      PROVE  CaptureInv'
  <2>1. CaptureThen(sv) /\ PastDraft
    BY <1>1, <1>3, <1>6, <1>8 DEF CaptureNow, CaptureThen, PastDraft, PageStays
  <2> QED BY <1>7, <2>1
<1>9. CASE ~mounted
  <2>1. flow' = IdleFlow /\ dialog' = dialog /\ UNCHANGED <<tray, net>>
    BY <1>9 DEF StartSlot, Abort
  <2>2. CaptureThen(sv) /\ PastDraft
    BY <1>1, <1>3, <1>6, <2>1, FlowEnds DEF PageStays
  <2> QED BY <1>7, <2>2
<1>10. CASE mounted /\ ~IsTarget(Kind)
  <2>1. flow' = [flow EXCEPT !.pc = "slot", !.i = flow.i + 1] /\ UNCHANGED <<tray, dialog, net>>
    BY <1>10 DEF StartSlot, SkipSlot
  <2>2. FlowSound(flow', cp, plan, sv) /\ flow'.pc = "slot"
    BY <1>1, <1>3, <2>1, NextSlot DEF CaptureNow
  <2> QED BY <1>3, <1>8, <2>1, <2>2 DEF CaptureNow, tray
<1>11. CASE mounted /\ IsTarget(Kind) /\ cp.jobs[Kind] # "none"
  <2>1. SlotAccepted(cp.jobs[Kind]) /\ UNCHANGED <<dialog, net>>
    BY <1>11 DEF StartSlot
  <2>2. plan.images[Kind] # NoImage /\ Kind \in cp.only
    BY <1>11 DEF IsTarget
  <2>3. TraySound(slots', placed', sv) /\ FlowSound(flow', cp, plan, sv) /\ flow'.pc = "slot"
    BY <1>1, <1>3, <1>5, <2>1, <2>2, SlotTaken
  <2> QED BY <1>8, <2>1, <2>3
<1>12. CASE /\ mounted /\ IsTarget(Kind) /\ ~(cp.jobs[Kind] # "none")
            /\ flow.members[Kind] = "failed"
  <2>1. SlotFailed /\ UNCHANGED <<dialog, net>>
    BY <1>12 DEF StartSlot
  <2>2. Receive(Kind, "failed", NoJob)
    BY <2>1 DEF SlotFailed
  <2>3. TraySound(slots', placed', sv)
    BY <1>3, <1>5, <2>2, Received
  <2>4. flow' = [flow EXCEPT !.pc = "slot", !.i = flow.i + 1, !.failed = flow.failed + 1]
    BY <2>1 DEF SlotFailed
  <2>5. FlowSound(flow', cp, plan, sv) /\ flow'.pc = "slot"
    BY <1>1, <1>3, <2>4, NextSlot DEF CaptureNow
  <2> QED BY <1>8, <2>1, <2>3, <2>5
<1>13. CASE /\ mounted /\ IsTarget(Kind) /\ ~(cp.jobs[Kind] # "none")
            /\ flow.members[Kind] # "failed"
  <2>1. PICK op : /\ op \in {"upload", "job", "getJob"}
                  /\ Receive(Kind, "uploading", NoJob)
                  /\ Continue(op, ImageRequest(op, Kind), net)
    BY <1>13 DEF StartSlot
  <2>2. TraySound(slots', placed', sv)
    BY <1>3, <1>5, <2>1, Received
  <2>3. SentSound(ImageRequest(op, Kind), cp, plan, sv)
    BY <1>3, <1>4, <1>5, <2>1, ImageRequestSound DEF CaptureNow
  <2>4. plan.images[KindOrder[flow.i]] # NoImage /\ KindOrder[flow.i] \in cp.only
    BY <1>13 DEF IsTarget, Kind
  <2>5. /\ RequestsSound(net', cp, plan, sv) /\ FlowSound(flow', cp, plan, sv)
        /\ flow'.pc # "draft" /\ dialog' = dialog
    <3>1. RequestsSound(net, cp, plan, sv)
      BY <1>3 DEF CaptureNow
    <3> QED BY <1>3, <1>4, <1>5, <2>1, <2>3, <2>4, <3>1, Continued
  <2>6. CaptureThen(sv) /\ PastDraft
    BY <1>1, <1>3, <1>6, <2>2, <2>5 DEF CaptureNow, CaptureThen, PastDraft, PageStays
  <2> QED BY <1>7, <2>6
<1> QED BY <1>9, <1>10, <1>11, <1>12, <1>13

LEMMA StepFinishFlow ==
  ASSUME CaptureInv, FinishFlow
  PROVE  CaptureInv'
<1>1. /\ flow.pc = "slot" /\ UNCHANGED <<tray, plan, made, cp, server, mounted>>
  BY DEF FinishFlow
<1>2. ~MayPlanAnew(dialog, mounted, leaving)
  BY <1>1, SubsFacts, NotFresh DEF CaptureInv, FlowSound, CheckpointsSound
<1>3. flow' = IdleFlow /\ ~MayPlanAnew(dialog', mounted', leaving')
  <2>1. CASE ~mounted
    BY <1>1, <1>2, <2>1 DEF FinishFlow, Abort
  <2>2. CASE mounted /\ (dialog' = Failure(FALSE) \/ dialog' = [status |-> "partial_result"]) /\ flow' = IdleFlow
    BY <2>2, NeverFresh
  <2>3. CASE mounted /\ dialog' = Closed /\ flow' = IdleFlow /\ leaving' = TRUE
    <3>1. dialog'.status = "closed"
      BY <2>3 DEF Closed
    <3> QED BY <2>3, <3>1 DEF MayPlanAnew
  <2> QED BY <2>1, <2>2, <2>3 DEF FinishFlow, End
<1>4. FlowSound(flow', cp, plan, srv) /\ flow'.pc = "idle"
  BY <1>3, IdleSound
<1> QED BY <1>1, <1>3, <1>4 DEF CaptureInv, tray, server, CleanSound

-----------------------------------------------------------------------------
(* The invariant holds, and what it shows.                                   *)

LEMMA CaptureStarts == CaptureInit => CaptureInv
<1> SUFFICES ASSUME CaptureInit PROVE CaptureInv
  OBVIOUS
<1>1. /\ slots = [k \in Kinds |-> InitialSlot] /\ placed = 0 /\ plan = NoPlan /\ made = 0
      /\ cp = NewCheckpoints(0) /\ flow = IdleFlow /\ net = {}
      /\ srv = [drafts |-> [n \in Plans |-> "none"], subs |-> NoSubs] /\ job = NothingSeen
  BY DEF CaptureInit
<1>2. TraySound(slots, placed, srv)
  BY <1>1, EmptyTray
<1>3. PlanSound(plan)
  BY <1>1 DEF NoPlan, PlanSound
<1>4. /\ srv = [drafts |-> srv.drafts, subs |-> srv.subs] /\ srv.subs = NoSubs
  BY <1>1
<1>5. NoSubs = [s \in Subs |-> NoSubmission] /\ \A s \in Subs : NoSubs[s] = NoSubmission
  BY DEF NoSubs
<1>6. SubmissionShaped(NoSubmission) /\ NoSubmission.status = "none"
      /\ NoSubmission.members = [k \in Kinds |-> "absent"]
  BY DEF NoSubmission, SubmissionShaped
<1>7. \A s \in Subs : ~IsAdmitted(srv, s)
  BY <1>4, <1>5, <1>6 DEF IsAdmitted
<1>8. srv.subs = [s \in Subs |-> srv.subs[s]]
  BY <1>4, <1>5
<1>9. SubmissionsSound(srv, cp, plan)
  BY <1>4, <1>5, <1>6, <1>7, <1>8 DEF SubmissionsSound
<1>10. CheckpointsShaped(cp) /\ cp.sub = 0 /\ cp.only = Kinds /\ cp.retry = {}
  BY <1>1, NewIs
<1>11. CheckpointsSound(cp, plan, made, srv)
  BY <1>1, <1>10, SubsFacts DEF CheckpointsSound
<1>12. RequestsSound(net, cp, plan, srv)
  BY <1>1 DEF RequestsSound
<1>13. JobsSound(job, srv)
  BY <1>1 DEF JobsSound, NothingSeen
<1>14. FlowSound(flow, cp, plan, srv) /\ flow.pc = "idle"
  BY <1>1, IdleSound
<1>15. NothingSent(net, srv)
  BY <1>1, <1>7 DEF NothingSent
<1> QED BY <1>2, <1>3, <1>9, <1>11, <1>12, <1>13, <1>14, <1>15 DEF CaptureInv, CleanSound

LEMMA CaptureGoesOn == CaptureInv /\ [CaptureNext]_cvars => CaptureInv'
<1> SUFFICES ASSUME CaptureInv, [CaptureNext]_cvars PROVE CaptureInv'
  OBVIOUS
<1>1. CASE PageNext
  BY <1>1, StepAddImage, StepClearAllImages, StepClearImage, StepSelectTarget, StepReadJob,
     StepSwapImages, StepReviewSubmission, StepCloseDialog, StepConfirm, StepConfirmUnreadable,
     StepViewMatches, StepUnmount
  DEF PageNext
<1>2. CASE FlowNext
  BY <1>2, StepStartSlot, StepFinishFlow DEF FlowNext
<1>3. CASE NetworkNext
  BY <1>3, StepServeDraft, StepServePut, StepServeUpload, StepServeGetJob, StepServeJob, StepBreak
  DEF NetworkNext, Serve
<1>4. CASE ServerNext
  BY <1>4, StepSettle, StepJobEnds, StepDeleteDraft DEF ServerNext
<1>5. CASE UNCHANGED cvars
  BY <1>5 DEF cvars, tray, client, server, CaptureInv
<1> QED BY <1>1, <1>2, <1>3, <1>4, <1>5 DEF CaptureNext

LEMMA OneJobPerImage ==
  ASSUME CaptureInv, NEW image \in Images, NEW p \in JobsOf(image), NEW q \in JobsOf(image)
  PROVE  p = q
<1>1. SubmissionsSound(srv, cp, plan) /\ JobsSound(job, srv) /\ PlanSound(plan)
  BY DEF CaptureInv
<1>2. /\ p \in Subs \X Kinds /\ job[p[1]][p[2]] # "none" /\ <<p[2], image>> \in srv.subs[p[1]].images
      /\ q \in Subs \X Kinds /\ job[q[1]][q[2]] # "none" /\ <<q[2], image>> \in srv.subs[q[1]].images
  BY DEF JobsOf
<1>3. PICK s \in Subs, k \in Kinds : p = <<s, k>>
  BY <1>2
<1>4. PICK t \in Subs, j \in Kinds : q = <<t, j>>
  BY <1>2
<1>5. /\ job[s][k] # "none" /\ <<k, image>> \in srv.subs[s].images
      /\ job[t][j] # "none" /\ <<j, image>> \in srv.subs[t].images
  BY <1>2, <1>3, <1>4
<1>6. image # NoImage
  <2>1. image \in 1..MaxImages /\ MaxImages \in Nat
    BY CaptureAssumption DEF Images
  <2> QED BY <2>1, SubsFacts
<1>7. NoSubmission.images = {}
  BY DEF NoSubmission
<1>8. ASSUME NEW u \in Subs, NEW m \in Kinds, <<m, image>> \in srv.subs[u].images
      PROVE  IsAdmitted(srv, u) /\ plan.images[m] = image
  BY <1>1, <1>7, <1>8 DEF SubmissionsSound
<1>9. k = j
  BY <1>1, <1>5, <1>6, <1>8 DEF PlanSound
<1>10. srv.subs[s].members[k] = "registered" /\ srv.subs[t].members[k] = "registered"
  BY <1>1, <1>5, <1>9 DEF JobsSound
<1>11. ~(s < t) /\ ~(t < s)
  BY <1>5, <1>8, <1>1, <1>9, <1>10 DEF SubmissionsSound
<1>12. s = t
  BY <1>11, SubsFacts
<1> QED BY <1>3, <1>4, <1>9, <1>12

LEMMA CaptureShows == CaptureInv => NoImageReadTwice /\ SlotsShowTheirOwnJob
<1> SUFFICES ASSUME CaptureInv PROVE NoImageReadTwice /\ SlotsShowTheirOwnJob
  OBVIOUS
<1>1. ASSUME NEW image \in Images
      PROVE  Cardinality(JobsOf(image)) <= 1
  <2>1. CASE JobsOf(image) = {}
    BY <2>1, FS_EmptySet
  <2>2. CASE JobsOf(image) # {}
    BY <2>2, <1>1, OneJobPerImage, FS_Singleton
  <2> QED BY <2>1, <2>2
<1>2. SlotsShowTheirOwnJob
  BY TrayFacts DEF TraySound, SlotsShowTheirOwnJob
<1> QED BY <1>1, <1>2 DEF NoImageReadTwice

-----------------------------------------------------------------------------
(* The run's property: the three components of a reading together.           *)

ReadingInv == CaptureInv /\ SetupInv /\ ImagesInv

\* For any numbers of images, plans, submissions, faults and edits: no image is read
\* twice, whatever answers are lost and repeated; a slot shows the job of its own image;
\* the season sent fits the title sent; and a review downloads, retries, holds and
\* archives the images of its page only (captureUploadSlots, useOcrCapture,
\* useSourceImages).
THEOREM ReadingsFit == Spec => []ReadingsFitTheCapture
<1>1. Init => ReadingInv
  BY CaptureStarts, SetupInit, ImagesInit DEF Init, ReadingInv
<1>2. ReadingInv /\ [Next]_<<part, cvars, osvars, kvars, wsvars, rvvars, sivars, mnvars, acvars, dlvars>>
        => ReadingInv'
  BY CaptureGoesOn, SetupNext, ImagesNext DEF Next, ReadingInv, SetupStays
<1>3. ReadingInv => ReadingsFitTheCapture
  BY CaptureShows, SetupShows, ImagesShow DEF ReadingInv, ReadingsFitTheCapture
<1> QED BY <1>1, <1>2, <1>3, PTL DEF Spec
=============================================================================
