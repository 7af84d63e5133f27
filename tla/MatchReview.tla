---------------------------- MODULE MatchReview ----------------------------
(***************************************************************************)
(* Reviewing what OCR read (features/matches/workspace, review/ and        *)
(* scoreGrid/): how three readings become the rows of a form, how a cell   *)
(* is typed, committed, reverted and acknowledged, how the incident counts *)
(* follow the row's play order, what the confirmation shows and what is    *)
(* sent.  A row has as many play orders as there are rows (four in the     *)
(* code), and one incident count stands for the six.                       *)
(*                                                                         *)
(* A reading is [value, warned]; Unread is a value OCR left out.  A text   *)
(* being typed is a number, EmptyText for one that is no number, or NoText *)
(* when the cell shows its committed number.                               *)
(***************************************************************************)
EXTENDS Integers, FiniteSets, Sequences, TLC

CONSTANTS RvMembers,   \* the fixed members, one per row, in their fixed order
          RvNumbers,   \* numbers a user types
          RvPayloads,  \* the OCR results a review may start from
          RvEditable,  \* the fields a behaviour edits
          MaxRvEdits   \* how many edits a behaviour makes

ASSUME ReviewAssumption == RvNumbers \subseteq Nat /\ MaxRvEdits \in Nat

Rows == DOMAIN RvMembers
Numeric == {"rank", "totalAssets", "revenue", "incident"}
Cells == Rows \X (Numeric \cup {"memberId", "playOrder"})
NumericCells == Rows \X Numeric
Unread == -1
Unknown == "unknown"
NoText == -2
EmptyText == -1
NoCell == <<0, "none">>
NoDraft == << >>

VARIABLES rvPayload, \* the three OCR results of the draft
          rvForm,    \* [rows, typed, acked, synced, active]
          rvFocus,   \* [cell, before, own]: the input that has the focus, what it showed
                     \* then, and whether the user had entered that (history)
          rvConfirm, \* "closed" | "open" | "sent"
          rvEntered, \* cells that hold what the user entered (history)
          rvEdits

rvvars == <<rvPayload, rvForm, rvFocus, rvConfirm, rvEntered, rvEdits>>

-----------------------------------------------------------------------------
(* From the readings to the form.                                          *)

\* Each entry gets what it claims unless an earlier one claimed it, the others
\* what is left of the pool, in order.
ClaimWithoutDuplicates(claims, pool) ==
  LET Kept(i) == /\ \E k \in DOMAIN pool : pool[k] = claims[i]
                 /\ \A j \in 1..(i - 1) : claims[j] # claims[i]
      Free(v) == \A i \in DOMAIN claims : Kept(i) => claims[i] # v
      Remaining == SelectSeq(pool, Free)
  IN [i \in DOMAIN claims |->
        IF Kept(i) THEN claims[i]
        ELSE Remaining[Cardinality({j \in 1..i : ~Kept(j)})]]

ResolveMemberIds(entries) ==
  ClaimWithoutDuplicates([i \in Rows |-> entries[i].claim], RvMembers)

ResolvePlayOrders(entries) ==
  ClaimWithoutDuplicates([i \in Rows |-> entries[i].order], [i \in Rows |-> i])

NumberValue(reading, fallback) ==
  IF reading.value = Unread THEN fallback ELSE reading.value

NoReading == [value |-> Unread, warned |-> FALSE]

\* The incident column each play order was read from; the first entry wins.
ByPlayOrder(entries) ==
  LET Order(i) == IF entries[i].order = 0 THEN i ELSE entries[i].order
      First(o) == CHOOSE i \in Rows : /\ Order(i) = o
                                      /\ \A j \in Rows : Order(j) = o => i <= j
  IN [o \in {Order(i) : i \in Rows} |-> entries[First(o)].count]

IncidentLookup(payload) ==
  IF payload.incidents = NoDraft THEN <<>> ELSE ByPlayOrder(payload.incidents)

\* The revenue row of each member; an unnamed row stands for the member at its
\* position, and the first row of a member wins.
ByMemberId(entries) ==
  LET Owner(i) == IF entries[i].claim = Unknown THEN RvMembers[i] ELSE entries[i].claim
      First(m) == CHOOSE i \in Rows : /\ Owner(i) = m
                                      /\ \A j \in Rows : Owner(j) = m => i <= j
  IN [m \in {Owner(i) : i \in Rows} |-> entries[First(m)].revenue]

RevenueReadings(payload) ==
  IF payload.revenue = NoDraft THEN <<>> ELSE ByMemberId(payload.revenue)

EmptyEntry == [claim |-> Unknown, suspect |-> FALSE, order |-> 0,
               rank |-> NoReading, totalAssets |-> NoReading]

\* One row for each entry of the total assets, or for each member without them.
BuildReviewPlayers(payload) ==
  LET entries == IF payload.assets = NoDraft THEN [i \in Rows |-> EmptyEntry]
                 ELSE payload.assets
      members == ResolveMemberIds(entries)
      orders == ResolvePlayOrders(entries)
      revenues == RevenueReadings(payload)
      columns == IncidentLookup(payload)
      Revenue(i) == IF members[i] \in DOMAIN revenues THEN revenues[members[i]] ELSE NoReading
      Count(i) == IF orders[i] \in DOMAIN columns THEN columns[orders[i]] ELSE NoReading
  IN [i \in Rows |->
        [member |-> members[i], order |-> orders[i],
         num |-> [rank |-> NumberValue(entries[i].rank, i),
                  totalAssets |-> NumberValue(entries[i].totalAssets, 0),
                  revenue |-> NumberValue(Revenue(i), 0),
                  incident |-> NumberValue(Count(i), 0)],
         unread |-> {f \in {"rank", "totalAssets"} : entries[i][f].value = Unread}
                    \cup (IF Revenue(i).value = Unread THEN {"revenue"} ELSE {}),
         warned |-> {f \in {"rank", "totalAssets"} : entries[i][f].warned}
                    \cup (IF Revenue(i).warned THEN {"revenue"} ELSE {})
                    \cup (IF entries[i].suspect THEN {"memberId"} ELSE {})]]

\* Rows start with the largest assets, then the better rank, then the play order.
RowPrecedes(a, b) ==
  \/ a.num.totalAssets > b.num.totalAssets
  \/ /\ a.num.totalAssets = b.num.totalAssets
     /\ \/ a.num.rank < b.num.rank
        \/ a.num.rank = b.num.rank /\ a.order < b.order

\* The snapshot of the readings a workspace keeps for as long as it is open.
MergeDrafts(payload) ==
  [originals |-> SortSeq(BuildReviewPlayers(payload), RowPrecedes),
   columns |-> IncidentLookup(payload)]

Reviews == [payload \in RvPayloads |-> MergeDrafts(payload)]
Review == Reviews[rvPayload]

\* What OCR left out for a row whose play order is `order`.
UnreadFieldsOf(review, row, order) ==
  review.originals[row].unread
  \cup (IF order \notin DOMAIN review.columns \/ review.columns[order].value = Unread
        THEN {"incident"} ELSE {})

\* A counterpart that leaves every placeholder standing as a number.
WithEmptyUnreadInputsNone(typed, cells) == typed

\* Empty inputs for the given unread cells, keeping every other text.
WithEmptyUnreadInputs(typed, cells) ==
  [c \in NumericCells |-> IF c \in cells THEN EmptyText ELSE typed[c]]

\* The number cells of a row that hold no value OCR read.
UnreadCells(review, row, order) ==
  {c \in NumericCells : c[1] = row /\ c[2] \in UnreadFieldsOf(review, row, order)}

DraftToMatchForm(payload) ==
  LET review == Reviews[payload]
      Row(r) == [member |-> review.originals[r].member, order |-> review.originals[r].order,
                 num |-> review.originals[r].num]
      Unreadable == UNION {UnreadCells(review, r, review.originals[r].order) : r \in Rows}
  IN [rows |-> [r \in Rows |-> Row(r)],
      typed |-> WithEmptyUnreadInputs([c \in NumericCells |-> NoText], Unreadable),
      acked |-> {}, synced |-> 0, active |-> NoCell]

-----------------------------------------------------------------------------
(* What the form shows.                                                    *)

\* The cells that ask for a look at the source image: warned and not left out.
ReviewItems(rows) ==
  {c \in Cells :
     LET order == rows[c[1]].order
     IN /\ IF c[2] = "incident"
           THEN order \in DOMAIN Review.columns /\ Review.columns[order].warned
           ELSE c[2] \in Review.originals[c[1]].warned
        /\ c[2] \notin UnreadFieldsOf(Review, c[1], order)}

Unresolved(form) == ReviewItems(form.rows) \ form.acked

\* Items are listed row by row, each row in the order of the columns.
ColumnNo(field) == CASE field = "memberId" -> 1 [] field = "playOrder" -> 2
                     [] field = "rank" -> 3 [] field = "totalAssets" -> 4
                     [] field = "revenue" -> 5 [] field = "incident" -> 6

ItemPrecedes(c, d) == c[1] < d[1] \/ (c[1] = d[1] /\ ColumnNo(c[2]) < ColumnNo(d[2]))
FirstOf(cells) == CHOOSE c \in cells : \A d \in cells : c = d \/ ItemPrecedes(c, d)
LastOf(cells) == CHOOSE c \in cells : \A d \in cells : c = d \/ ItemPrecedes(d, c)

\* The item the toolbar talks about.
ActiveItem(form) ==
  IF form.active \in Unresolved(form) THEN form.active ELSE FirstOf(Unresolved(form))

\* The number a typed text stands for, else the committed one.
NumericInput(form, c) ==
  IF form.typed[c] = NoText THEN form.rows[c[1]].num[c[2]] ELSE form.typed[c]

\* What validation and the request read: the visible input of every cell.
MatchFormInput(form) == [c \in NumericCells |-> NumericInput(form, c)]

\* A rule that only looks at the committed numbers.
ValidateCommitted(form) ==
  {form.rows[r].order : r \in Rows} = Rows /\ {form.rows[r].num.rank : r \in Rows} = Rows

ValidateMatchForm(form) ==
  LET input == MatchFormInput(form)
  IN /\ \A c \in NumericCells : input[c] # EmptyText
     /\ {form.rows[r].order : r \in Rows} = Rows
     /\ {input[<<r, "rank">>] : r \in Rows} = Rows
     /\ Cardinality({form.rows[r].member : r \in Rows}) = Len(RvMembers)

\* The ledger of the confirmation dialog.
ConfirmationPlayers(form) == [c \in NumericCells |-> form.rows[c[1]].num[c[2]]]

\* What a cell holds, and what it held when the readings were taken; a count is
\* compared with the row that first had this play order.
Current(form, c) ==
  CASE c[2] = "memberId" -> form.rows[c[1]].member
    [] c[2] = "playOrder" -> form.rows[c[1]].order
    [] OTHER -> IF form.typed[c] = EmptyText THEN form.rows[c[1]].num[c[2]]
                ELSE NumericInput(form, c)

Original(form, c) ==
  CASE c[2] = "memberId" -> Review.originals[c[1]].member
    [] c[2] = "playOrder" -> Review.originals[c[1]].order
    [] c[2] = "incident" ->
         LET sameOrder == {r \in Rows : Review.originals[r].order = form.rows[c[1]].order}
         IN IF sameOrder = {} THEN Current(form, c)
            ELSE Review.originals[CHOOSE r \in sameOrder : TRUE].num.incident
    [] OTHER -> Review.originals[c[1]].num[c[2]]

\* Only the play order and the counts are marked as following the column.
Synced(form, c) == form.synced = c[1] /\ c[2] \in {"playOrder", "incident"}

\* The label of a cell; the first that applies is shown.
CellViewState(form, c) ==
  LET item == c \in ReviewItems(form.rows)
      unread == c[2] \in UnreadFieldsOf(Review, c[1], form.rows[c[1]].order)
  IN CASE unread -> IF NumericInput(form, c) = EmptyText THEN "unread" ELSE "entered"
       [] ~unread /\ item /\ c \notin form.acked -> "check"
       [] ~unread /\ ~(item /\ c \notin form.acked)
          -> IF Current(form, c) # Original(form, c) THEN "corrected"
             ELSE IF item THEN "confirmed" ELSE IF Synced(form, c) THEN "synced" ELSE "plain"

-----------------------------------------------------------------------------
(* Edits of the store.                                                     *)

SetNumericDraft(form, c, text) == [form EXCEPT !.typed[c] = text]

Acknowledge(form, c) == [form EXCEPT !.active = c, !.acked = @ \cup {c}]

ChangePlayer(form, c, number) ==
  Acknowledge(SetNumericDraft([form EXCEPT !.rows[c[1]].num[c[2]] = number], c, NoText), c)

ChangeIncident(form, c, number) ==
  [ChangePlayer(form, c, number) EXCEPT !.synced = IF @ = c[1] THEN 0 ELSE @]

ChangeNumber(form, c, number) ==
  IF c[2] = "incident" THEN ChangeIncident(form, c, number) ELSE ChangePlayer(form, c, number)

ChangeMember(form, row, member) ==
  Acknowledge([form EXCEPT !.rows[row].member = member], <<row, "memberId">>)

SyncIncidents == DOMAIN Review.columns # {}

\* The acknowledgements a new play order makes void.
Invalidated(row) == IF SyncIncidents THEN {<<row, "incident">>} ELSE {}

\* With an incident log the row's counts become those of its new column.
SyncedRow(form, row, order) ==
  IF ~SyncIncidents THEN [form EXCEPT !.rows[row].order = order]
  ELSE [form EXCEPT !.rows[row] =
                      [@ EXCEPT !.order = order,
                                !.num.incident = IF order \in DOMAIN Review.columns
                                                 THEN NumberValue(Review.columns[order], 0) ELSE 0],
                    !.typed = WithEmptyUnreadInputs([@ EXCEPT ![<<row, "incident">>] = NoText],
                                 UnreadCells(Review, row, order) \cap {<<row, "incident">>}),
                    !.synced = row]

ChangePlayOrder(form, row, order) ==
  LET changed == [SyncedRow(form, row, order) EXCEPT !.acked = @ \ Invalidated(row)]
  IN Acknowledge(changed, <<row, "playOrder">>)

\* Restored values keep only the acknowledgements of what is still asked.
Restored(form) ==
  [form EXCEPT !.synced = 0, !.active = rvForm.active,
               !.acked = @ \cap ReviewItems(form.rows)]

-----------------------------------------------------------------------------
(* The cell that has the focus.                                            *)

NoFocus == [cell |-> NoCell, before |-> NoText, own |-> FALSE]
FocusOn(form, c) == [cell |-> c, own |-> c \in rvEntered,
                     before |-> IF c \in NumericCells THEN NumericInput(form, c) ELSE NoText]
Shown(form, c) == NumericInput(form, c)

\* An emptied input commits its emptiness as well.
CommitEvenEmpty(form, c) ==
  IF c \in NumericCells THEN ChangeNumber(form, c, Shown(form, c)) ELSE form

\* Leaving an input commits its text when it is a number.
CommitInput(form, c) ==
  IF c \notin NumericCells \/ Shown(form, c) = EmptyText THEN form
  ELSE IF Shown(form, c) # form.rows[c[1]].num[c[2]]
       THEN ChangeNumber(form, c, Shown(form, c))
       ELSE SetNumericDraft(form, c, NoText)

AfterBlur == CommitInput(rvForm, rvFocus.cell)

\* Escape puts back what the cell showed when it got the focus.
RevertCell(form, c, before) ==
  LET fallback == form.rows[c[1]].num[c[2]]
  IN IF before = EmptyText THEN SetNumericDraft(form, c, EmptyText)
     ELSE IF before = fallback THEN SetNumericDraft(form, c, NoText)
     ELSE ChangeNumber(SetNumericDraft(form, c, before), c, before)

Editing == /\ rvConfirm = "closed" /\ rvEdits < MaxRvEdits
           /\ rvEdits' = rvEdits + 1
           /\ UNCHANGED <<rvPayload, rvConfirm>>

Edited(form) == rvForm' = form

\* Moving to a cell commits the one that was left.
FocusCell == \E c \in Rows \X RvEditable :
  /\ Editing /\ c # rvFocus.cell
  /\ LET left == AfterBlur
     IN /\ Edited([left EXCEPT !.active = c])
        /\ rvFocus' = FocusOn(left, c)
  /\ UNCHANGED rvEntered

TypeText == \E text \in RvNumbers \cup {EmptyText} :
  /\ Editing /\ rvFocus.cell \in NumericCells
  /\ Edited(SetNumericDraft(rvForm, rvFocus.cell, text))
  /\ rvEntered' = IF text = EmptyText THEN rvEntered \ {rvFocus.cell}
                  ELSE rvEntered \cup {rvFocus.cell}
  /\ UNCHANGED rvFocus

Escape ==
  /\ Editing /\ rvFocus.cell \in NumericCells
  /\ Edited(RevertCell(rvForm, rvFocus.cell, rvFocus.before))
  /\ rvEntered' = IF rvFocus.own THEN rvEntered \cup {rvFocus.cell}
                  ELSE rvEntered \ {rvFocus.cell}
  /\ UNCHANGED rvFocus

\* The two layouts of the grid replace each other; what was typed stays.
ResizeWindow ==
  /\ Editing /\ rvFocus.cell # NoCell
  /\ rvFocus' = NoFocus
  /\ UNCHANGED <<rvForm, rvEntered>>

\* The select offers every play order and none of them.
SelectPlayOrder == \E r \in Rows, order \in Rows \cup {0} :
  /\ Editing
  /\ Edited(ChangePlayOrder(AfterBlur, r, order))
  /\ rvFocus' = NoFocus
  /\ rvEntered' = IF SyncIncidents THEN rvEntered \ {<<r, "incident">>} ELSE rvEntered

SelectMember == \E r \in Rows, k \in Rows :
  /\ Editing /\ "memberId" \in RvEditable
  /\ Edited(ChangeMember(AfterBlur, r, RvMembers[k]))
  /\ rvFocus' = NoFocus
  /\ UNCHANGED rvEntered

\* The toolbar: this value is right.
AcknowledgeActiveItem ==
  /\ Editing /\ Unresolved(AfterBlur) # {}
  /\ Edited([AfterBlur EXCEPT !.acked = @ \cup {ActiveItem(AfterBlur)}])
  /\ rvFocus' = NoFocus
  /\ UNCHANGED rvEntered

\* The item before or after the active one, going round.
NextItem(form, forward) ==
  LET open == Unresolved(form)
      beyond == {d \in open : IF forward THEN ItemPrecedes(form.active, d)
                              ELSE ItemPrecedes(d, form.active)}
      among == IF form.active \in open /\ beyond # {} THEN beyond ELSE open
  IN IF forward THEN FirstOf(among) ELSE LastOf(among)

\* The toolbar: go to the previous or the next item.
NavigateReviewItems == \E forward \in BOOLEAN :
  /\ Editing /\ Unresolved(AfterBlur) # {}
  /\ LET next == NextItem(AfterBlur, forward)
     IN /\ Edited([AfterBlur EXCEPT !.active = next])
        /\ rvFocus' = FocusOn(AfterBlur, next)
  /\ UNCHANGED rvEntered

-----------------------------------------------------------------------------
(* Confirmation, and a reload with recovery.                               *)

\* The primary action opens the confirmation when the visible input is valid.
RequestConfirmation ==
  /\ rvConfirm = "closed"
  /\ Edited(AfterBlur)
  /\ rvFocus' = NoFocus
  /\ rvConfirm' = IF ValidateMatchForm(AfterBlur) THEN "open" ELSE "closed"
  /\ UNCHANGED <<rvPayload, rvEntered, rvEdits>>

CloseConfirmation ==
  /\ rvConfirm = "open" /\ rvConfirm' = "closed"
  /\ UNCHANGED <<rvPayload, rvForm, rvFocus, rvEntered, rvEdits>>

ConfirmReview ==
  /\ rvConfirm = "open" /\ rvConfirm' = "sent"
  /\ UNCHANGED <<rvPayload, rvForm, rvFocus, rvEntered, rvEdits>>

\* Input is kept as it is typed; a reload starts from the readings and offers it.
ReloadReview ==
  /\ Editing /\ rvForm # DraftToMatchForm(rvPayload)
  /\ \/ rvForm' = Restored(rvForm) /\ UNCHANGED rvEntered
     \/ rvForm' = DraftToMatchForm(rvPayload) /\ rvEntered' = {}
  /\ rvFocus' = NoFocus

ReviewInit ==
  /\ rvPayload \in RvPayloads
  /\ rvForm = DraftToMatchForm(rvPayload)
  /\ rvFocus = NoFocus /\ rvConfirm = "closed"
  /\ rvEntered = {} /\ rvEdits = 0

ReviewNext ==
  \/ FocusCell \/ TypeText \/ Escape \/ ResizeWindow \/ SelectPlayOrder \/ SelectMember
  \/ AcknowledgeActiveItem \/ NavigateReviewItems
  \/ RequestConfirmation \/ CloseConfirmation \/ ConfirmReview \/ ReloadReview

ReviewSpec == ReviewInit /\ [][ReviewNext]_rvvars
-----------------------------------------------------------------------------
(* Properties.                                                             *)

RvValues == {EmptyText} \cup RvNumbers \cup 0..9

\* Every variable has its type.
ReviewTypeOK ==
  /\ \A r \in Rows : rvForm.rows[r].order \in Rows \cup {0}
  /\ \A c \in NumericCells : /\ rvForm.rows[c[1]].num[c[2]] \in RvValues \ {EmptyText}
                              /\ rvForm.typed[c] \in RvValues \cup {NoText}
  /\ rvForm.acked \subseteq Cells /\ rvForm.synced \in Rows \cup {0}
  /\ rvForm.active \in Cells \cup {NoCell} /\ rvFocus.cell \in Cells \cup {NoCell}
  /\ rvConfirm \in {"closed", "open", "sent"} /\ rvEntered \subseteq NumericCells

\* A value OCR left out is confirmed only after the user entered it, whatever
\* the cells did in between: the placeholder behind an unread cell
\* (unreadFields.ts) is never taken for a number, also after the play order
\* moved the row to another column and after a reload restored the input.
UnreadIsNeverConfirmed ==
  rvConfirm # "closed" =>
    \A r \in Rows : UnreadCells(Review, r, rvForm.rows[r].order) \subseteq rvEntered

\* The four results the confirmation shows are the ones that are sent.
ConfirmationShowsWhatIsSent ==
  rvConfirm # "closed" => ConfirmationPlayers(rvForm) = MatchFormInput(rvForm)
=============================================================================
