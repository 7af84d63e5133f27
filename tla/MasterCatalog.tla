---------------------------- MODULE MasterCatalog ----------------------------
(***************************************************************************)
(* The tabs of the settings page that edit lists: the game titles with the *)
(* maps of the selected one, and the aliases of members.  Rows are shown   *)
(* before their creation is confirmed, confirmed changes are put into the  *)
(* cache while reads are under way, and permissions end or pause meanwhile *)
(* (AccountSession).  Seasons are edited as maps are.                      *)
(*                                                                         *)
(* Every creation types the same name, every edit of a row the same change.*)
(* The other tabs are NotificationSettings, AchievementCatalog and         *)
(* AccountSession; the fixed incidents, and notices, are left out.         *)
(***************************************************************************)
EXTENDS Naturals, FiniteSets, Sequences, SequencesExt

CONSTANTS McTitles,  \* the first titles, in their order
          McRows,    \* the first maps and aliases: [id, of], of a title or "aliases"
          McKeys,    \* idempotency keys, in the order they are generated
          McMoves, McFaults  \* bounds: choices; failures and others' changes

ASSUME McAssumption ==
  /\ McKeys \in Seq(STRING) /\ IsInjective(McKeys)
  /\ \A row, other \in McRows : row.id = other.id => row = other
  /\ ToSet(McTitles) \cap {row.id : row \in McRows} = {}
  /\ ToSet(McKeys) \cap (ToSet(McTitles) \cup {row.id : row \in McRows}) = {}

VARIABLES mcServer,    \* the rows that exist: [id, of, ver]
          mcStored,    \* requests done, with their answers: [key, kind, row]
          mcCache,     \* per list, the rows of its last answer
          mcReads,     \* per list, its read: "none", "sent" or "served" with rows
          mcAdmin, mcGen, mcReady,  \* the permission, its generation, not paused
          mcWrites,    \* submissions under way
          mcHeld,      \* keys the page holds for changes it cannot know done
          mcDrawn,     \* keys generated
          mcChosen,    \* the title chosen
          mcTab, mcVisited, mcLeft,
          mcDialog,    \* the open dialog, its submission and its error
          mcConfirmed, \* only for the properties: the last confirmed change of rows
          mcMoved, mcFaulted

mcvars == <<mcServer, mcStored, mcCache, mcReads, mcAdmin, mcGen, mcReady, mcWrites,
            mcHeld, mcDrawn, mcChosen, mcTab, mcVisited, mcLeft, mcDialog, mcConfirmed, mcMoved,
            mcFaulted>>
mcserver == <<mcServer, mcStored>>
mcpage == <<mcTab, mcVisited, mcLeft>>
mcright == <<mcAdmin, mcGen, mcReady>>

NoTitle == ""
MasterIds == ToSet(McTitles) \cup {row.id : row \in McRows} \cup ToSet(McKeys)
Lists == {"titles", "aliases"} \cup ToSet(McTitles) \cup ToSet(McKeys)
Order == McTitles \o McKeys
First(ids) == LET first == SelectInSeq(Order, LAMBDA id : id \in ids)
              IN IF first = 0 THEN NoTitle ELSE Order[first]
Ids(rows) == {row.id : row \in rows}
RowsOf(list) == {row \in mcServer : row.of = list}
AdminLists == {"titles", "aliases"}
Unread == [read |-> FALSE, rows |-> {}]
Resting == [at |-> "none", rows |-> {}]
McAsked == [at |-> "sent", rows |-> {}]
NoDialog == [kind |-> "none", id |-> NoTitle, of |-> NoTitle, write |-> 0, error |-> FALSE]
-----------------------------------------------------------------------------
(* What is shown.  A title that is being created cannot be chosen or edited, *)
(* a dialog goes with its row, with the permission and with the page.        *)
ResolveSelection(titles, fallback) == IF mcChosen \in titles THEN mcChosen ELSE fallback
Running(w) == w.at # "queued"
Listed(list) == Ids(mcCache[list].rows)
Optimistic(list) ==
  {w.key : w \in {u \in mcWrites : u.kind = "create" /\ u.of = list /\ Running(u)}} \ Listed(list)
ReadTitle == ResolveSelection(Listed("titles"), First(Listed("titles")))
SelectedTitle == ResolveSelection(Listed("titles") \cup Optimistic("titles"), ReadTitle)
AliasesAllowed == mcVisited /\ mcAdmin
Active == ~mcLeft /\ (mcTab = "catalog" \/ mcAdmin)
ActiveLists == IF ~Active THEN {} ELSE IF mcTab = "catalog" THEN {"titles", SelectedTitle} \ {NoTitle}
               ELSE {"aliases"}
PanelReady(list) == list \in ActiveLists /\ mcCache[list].read
                    /\ (list \in Lists \ AdminLists => mcCache["titles"].read /\ ReadTitle = list)
CanEdit(list) == list \in AdminLists => mcAdmin
Editable(list) == IF PanelReady(list) /\ CanEdit(list) THEN Listed(list) ELSE {}
DialogShown(dialog) ==
  CASE dialog.kind = "none"   -> FALSE
    [] dialog.kind = "create" -> ~mcLeft /\ mcAdmin /\ mcCache["titles"].read
    [] OTHER -> ~mcLeft /\ CanEdit(dialog.of) /\ dialog.id \in Listed(dialog.of)
                /\ dialog.of \in {"aliases", "titles", ReadTitle}
(* Only these are read; a list of maps that is no longer shown is aborted.   *)
Watched == IF mcLeft THEN {}
           ELSE ({"titles", ReadTitle} \ {NoTitle}) \cup (IF AliasesAllowed THEN {"aliases"} ELSE {})
McCommitted(dialog, reads) ==
  /\ mcVisited' = (mcAdmin' /\ (mcVisited \/ mcTab' = "aliases"))
  /\ mcReads' = [list \in Lists |->
                   IF list \in {"titles", "aliases", ReadTitle'} /\ ~mcLeft' THEN reads[list] ELSE Resting]
  /\ \E kept \in {dialog} : mcDialog' = IF DialogShown(kept)' THEN kept ELSE NoDialog
-----------------------------------------------------------------------------
(* Leases.  The permission for the maps lasts as long as the page.           *)
McIsCurrent(w) == w.of \in AdminLists => mcAdmin /\ w.gen = mcGen
McCanCommit(w) == McIsCurrent(w) /\ mcReady
McUnderway(kind, list) == {w \in mcWrites : w.kind = kind /\ w.of = list}
CreatePending(list) == \E w \in McUnderway("create", list) : McIsCurrent(w)
MapCreatePending == \E list \in Lists \ AdminLists : CreatePending(list)
MastersPending == \E w \in mcWrites : McIsCurrent(w)

(* A change whose answer was lost is repeated with its key.                  *)
What(w) == [kind |-> w.kind, of |-> w.of, id |-> w.id]
HeldKey(w) == {held \in mcHeld : held.what = What(w)}
Begun(w) ==
  IF HeldKey(w) # {} THEN [w EXCEPT !.at = "sent", !.key = (CHOOSE h \in HeldKey(w) : TRUE).key]
  ELSE [w EXCEPT !.at = "sent", !.key = McKeys[mcDrawn + 1]]
Begin(w) ==
  /\ HeldKey(w) # {} \/ mcDrawn < Len(McKeys)
  /\ mcHeld' = mcHeld \cup {[what |-> What(w), key |-> Begun(w).key]}
  /\ mcDrawn' = IF HeldKey(w) # {} THEN mcDrawn ELSE mcDrawn + 1

McCount == mcMoved < McMoves /\ mcMoved' = mcMoved + 1
McFault == mcFaulted < McFaults /\ mcFaulted' = mcFaulted + 1
Submission(kind, list, id) ==
  [no |-> mcMoved', kind |-> kind, of |-> list, id |-> id, gen |-> mcGen, at |-> "queued",
   key |-> NoTitle]

(* A creation is queued behind one whose permission ended; one at a time is  *)
(* accepted for each permission.                                             *)
SubmitCreate(list) ==
  /\ PanelReady(list) /\ CanEdit(list) /\ mcReady /\ McCount
  /\ mcDialog = NoDialog \/ mcDialog.kind = "create"
  /\ IF list \in AdminLists THEN ~CreatePending(list) ELSE ~MapCreatePending
  /\ list \notin AdminLists => mcDialog = NoDialog
  /\ mcWrites' = mcWrites \cup {Submission("create", list, NoTitle)}
  /\ UNCHANGED <<mcserver, mcCache, mcright, mcHeld, mcDrawn, mcChosen, mcTab, mcLeft,
                 mcConfirmed, mcFaulted>>
  /\ McCommitted(IF list = "titles" THEN [NoDialog EXCEPT !.kind = "create", !.of = list,
                                                          !.write = mcMoved'] ELSE mcDialog, mcReads)
Dropped(w) == IF mcDialog.write = w.no THEN [mcDialog EXCEPT !.write = 0] ELSE mcDialog
RunCreate ==
  /\ UNCHANGED <<mcserver, mcCache, mcright, mcChosen, mcTab, mcLeft, mcConfirmed, mcMoved, mcFaulted>>
  /\ \E w \in mcWrites :
       /\ w.at = "queued"
       /\ \A other \in McUnderway("create", w.of) : ~Running(other)
       /\ IF McCanCommit(w)
          THEN /\ Begin(w)
               /\ mcWrites' = (mcWrites \ {w}) \cup {Begun(w)}
               /\ McCommitted(mcDialog, mcReads)
          ELSE /\ mcWrites' = mcWrites \ {w}
               /\ UNCHANGED <<mcHeld, mcDrawn>>
               /\ McCommitted(Dropped(w), mcReads)

(* Saving or confirming a dialog; a paused permission is an error there.     *)
SubmitEdit(list) ==
  /\ McCount
  /\ UNCHANGED <<mcserver, mcCache, mcright, mcChosen, mcTab, mcLeft, mcConfirmed, mcFaulted>>
  /\ \E kind \in {"update", "delete"}, id \in Editable(list) :
       LET w == Submission(kind, list, id)
           dialog == [kind |-> kind, id |-> id, of |-> list, write |-> 0, error |-> FALSE]
       IN /\ mcDialog \in {NoDialog, dialog, [dialog EXCEPT !.error = TRUE]}
          /\ IF mcReady
             THEN /\ Begin(w)
                  /\ mcWrites' = mcWrites \cup {Begun(w)}
                  /\ McCommitted([dialog EXCEPT !.write = w.no], mcReads)
             ELSE /\ UNCHANGED <<mcWrites, mcHeld, mcDrawn>>
                  /\ McCommitted([dialog EXCEPT !.error = TRUE], mcReads)
CloseDialog ==
  /\ mcDialog # NoDialog /\ mcDialog.write = 0
  /\ UNCHANGED <<mcserver, mcCache, mcright, mcWrites, mcHeld, mcDrawn, mcChosen, mcTab,
                 mcLeft, mcConfirmed, mcMoved, mcFaulted>>
  /\ McCommitted(NoDialog, mcReads)
-----------------------------------------------------------------------------
(* The API: a key that was used is answered as it was the first time.        *)
Answered(w) == {done \in mcStored : done.key = w.key}
RowOf(w) == [id |-> IF w.kind = "create" THEN w.key ELSE w.id, of |-> w.of, ver |-> 1]
Existing(id) == {row \in mcServer : row.id = id}
Referenced(id) == RowsOf(id) # {}
Accepted(w) ==
  CASE w.kind = "create" -> w.of \in AdminLists \/ Existing(w.of) # {}
    [] w.kind = "update" -> Existing(w.id) # {}
    [] w.kind = "delete" -> Existing(w.id) # {} /\ (w.of = "titles" => ~Referenced(w.id))
Renamed(row) == [row EXCEPT !.ver = @ + 1]
ResultOf(w) ==
  IF w.kind = "update" THEN Renamed(CHOOSE row \in Existing(w.id) : TRUE) ELSE RowOf(w)
Serves(w, answer) ==
  /\ mcWrites' = (mcWrites \ {w}) \cup {[w EXCEPT !.at = answer]}
  /\ UNCHANGED <<mcCache, mcReads, mcright, mcHeld, mcDrawn, mcChosen, mcpage, mcDialog,
                 mcConfirmed, mcMoved>>
ServeWrite ==
  \E w \in mcWrites : \E lost \in BOOLEAN :
    /\ w.at = "sent"
    /\ IF lost THEN McFault ELSE UNCHANGED mcFaulted
    /\ IF Answered(w) # {} \/ ~Accepted(w) THEN UNCHANGED mcserver
       ELSE /\ mcStored' = mcStored \cup {[key |-> w.key, kind |-> w.kind, row |-> ResultOf(w)]}
            /\ mcServer' = {row \in mcServer : row.id # ResultOf(w).id}
                             \cup (IF w.kind = "delete" THEN {} ELSE {ResultOf(w)})
    /\ Serves(w, IF lost \/ (Answered(w) = {} /\ ~Accepted(w)) THEN "failed" ELSE "served")
WriteNeverArrives == \E w \in mcWrites : w.at = "sent" /\ McFault /\ Serves(w, "failed")
                                         /\ UNCHANGED mcserver

(* The change is put into the lists that are loaded, and reads under way,    *)
(* which may not know it, are cancelled; then what is shown is read again.   *)
Saved(w) == (CHOOSE done \in Answered(w) : TRUE).row
WithCreated(rows, row) == {r \in rows : r.id # row.id} \cup {row}
WithChanged(rows, w) ==
  IF Saved(w).id \notin Ids(rows) THEN rows
  ELSE {r \in rows : r.id # Saved(w).id} \cup (IF w.kind = "delete" THEN {} ELSE {Saved(w)})
Patched(w, list) ==
  CASE ~mcCache[list].read -> mcCache[list]
    [] mcCache[list].read /\ w.kind = "create" /\ list = w.of ->
         [mcCache[list] EXCEPT !.rows = WithCreated(@, Saved(w))]
    [] mcCache[list].read /\ w.kind = "create" /\ list # w.of -> mcCache[list]
    [] mcCache[list].read /\ w.kind # "create" ->
         [mcCache[list] EXCEPT !.rows = WithChanged(@, w)]
SameResource(w) == IF w.of \in AdminLists THEN {w.of} ELSE Lists \ AdminLists
RereadKeeping(w, list) ==
  IF list \notin SameResource(w) \/ mcReads[list].at # "none" THEN mcReads[list]
  ELSE IF list \in Watched /\ mcReady THEN McAsked ELSE Resting
Reread(w, list) ==
  IF list \notin SameResource(w) THEN mcReads[list]
  ELSE IF list \in Watched /\ mcReady THEN McAsked ELSE Resting
Chosen(w) ==
  CASE ~McCanCommit(w) \/ w.of # "titles" \/ w.kind = "update" -> mcChosen
    [] McCanCommit(w) /\ w.of = "titles" /\ w.kind = "create" -> w.key
    [] McCanCommit(w) /\ w.of = "titles" /\ w.kind = "delete" ->
         IF mcChosen = w.id THEN NoTitle ELSE mcChosen
ChangeConfirmed ==
  /\ \E w \in mcWrites :
       /\ w.at = "served"
       /\ mcWrites' = (mcWrites \ {w}) \cup {[w EXCEPT !.at = "settling"]}
       /\ mcHeld' = {held \in mcHeld : held.what # What(w)}
       /\ mcCache' = [list \in Lists |-> Patched(w, list)]
       /\ mcChosen' = Chosen(w)
       /\ mcConfirmed' = {c \in mcConfirmed : c.id # Saved(w).id}
            \cup {[Saved(w) EXCEPT !.ver = IF w.kind = "delete" THEN 0 ELSE @]}
       /\ UNCHANGED <<mcserver, mcright, mcDrawn, mcTab, mcLeft, mcMoved, mcFaulted>>
       /\ McCommitted(mcDialog, [list \in Lists |-> Reread(w, list)])

(* The submission ends when what it asked for was read, and closes its       *)
(* dialog; a failure is shown there.                                         *)
ChangeEnds ==
  /\ \E w \in mcWrites :
       /\ w.at = "settling" /\ \A list \in SameResource(w) : mcReads[list].at = "none"
       /\ mcWrites' = mcWrites \ {w}
       /\ UNCHANGED <<mcserver, mcCache, mcright, mcHeld, mcDrawn, mcChosen, mcTab, mcLeft,
                      mcConfirmed, mcMoved, mcFaulted>>
       /\ McCommitted(IF mcDialog.write = w.no THEN NoDialog ELSE mcDialog, mcReads)
ChangeFails ==
  /\ \E w \in mcWrites :
       /\ w.at = "failed"
       /\ mcWrites' = mcWrites \ {w}
       /\ UNCHANGED <<mcserver, mcCache, mcright, mcHeld, mcDrawn, mcChosen, mcTab, mcLeft,
                      mcConfirmed, mcMoved, mcFaulted>>
       /\ McCommitted([Dropped(w) EXCEPT !.error = @ \/ mcDialog.write = w.no], mcReads)
-----------------------------------------------------------------------------
(* Choices on the page, and leaving it: not while a result is awaited.       *)
mcdata == <<mcserver, mcCache, mcWrites, mcHeld, mcDrawn, mcConfirmed>>
SelectTitle ==
  /\ "titles" \in ActiveLists /\ mcDialog = NoDialog /\ McCount
  /\ mcChosen' \in Listed("titles") \ {SelectedTitle}
  /\ UNCHANGED <<mcdata, mcright, mcTab, mcLeft, mcFaulted>> /\ McCommitted(mcDialog, mcReads)
ChooseTab ==
  /\ ~mcLeft /\ mcDialog = NoDialog /\ McCount
  /\ mcTab' \in {"catalog", "aliases"} \ {mcTab}
  /\ mcTab' = "aliases" => mcAdmin /\ mcReady
  /\ UNCHANGED <<mcdata, mcright, mcChosen, mcLeft, mcFaulted>> /\ McCommitted(mcDialog, mcReads)
LeaveMasters ==
  /\ ~mcLeft /\ ~MastersPending /\ mcDialog = NoDialog /\ McCount
  /\ mcLeft' = TRUE
  /\ UNCHANGED <<mcdata, mcright, mcChosen, mcTab, mcFaulted>> /\ McCommitted(mcDialog, mcReads)
LoseAdmin ==
  /\ mcAdmin /\ McFault
  /\ mcAdmin' = FALSE /\ mcGen' = mcGen + 1
  /\ UNCHANGED <<mcdata, mcReady, mcChosen, mcTab, mcLeft, mcMoved>> /\ McCommitted(mcDialog, mcReads)
PausePermission ==
  /\ mcReady /\ McFault
  /\ mcReady' = FALSE
  /\ UNCHANGED <<mcdata, mcAdmin, mcGen, mcChosen, mcTab, mcLeft, mcMoved>>
  /\ McCommitted(mcDialog, mcReads)
PermissionReturns ==
  /\ ~(mcAdmin /\ mcReady)
  /\ mcAdmin' = TRUE /\ mcReady' = TRUE
  /\ UNCHANGED <<mcdata, mcGen, mcChosen, mcTab, mcLeft, mcMoved, mcFaulted>>
  /\ McCommitted(mcDialog, mcReads)
-----------------------------------------------------------------------------
(* Reads, and what other administrators change.                              *)
mcelse == <<mcserver, mcright, mcWrites, mcHeld, mcDrawn, mcChosen, mcTab, mcLeft, mcConfirmed>>
ReadLists ==
  /\ \E list \in Watched :
       /\ mcReady /\ mcReads[list].at = "none"
       /\ IF mcCache[list].read THEN McCount ELSE UNCHANGED mcMoved
       /\ UNCHANGED <<mcelse, mcCache, mcFaulted>>
       /\ McCommitted(mcDialog, [mcReads EXCEPT ![list] = McAsked])
McServe ==
  /\ \E list \in Lists :
       /\ mcReads[list].at = "sent"
       /\ mcReads' = [mcReads EXCEPT ![list] = [at |-> "served", rows |-> RowsOf(list)]]
  /\ UNCHANGED <<mcelse, mcCache, mcVisited, mcDialog, mcMoved, mcFaulted>>
McArrives ==
  /\ \E list \in Lists :
       /\ mcReads[list].at = "served"
       /\ mcCache' = [mcCache EXCEPT ![list] = [read |-> TRUE, rows |-> mcReads[list].rows]]
       /\ UNCHANGED <<mcelse, mcMoved, mcFaulted>>
       /\ McCommitted(mcDialog, [mcReads EXCEPT ![list] = Resting])
McReadFails ==
  /\ McFault
  /\ \E list \in Lists :
       /\ mcReads[list].at # "none"
       /\ UNCHANGED <<mcelse, mcCache, mcMoved>>
       /\ McCommitted(mcDialog, [mcReads EXCEPT ![list] = Resting])
OthersChangeMasters ==
  /\ McFault
  /\ \E row \in mcServer :
       \/ mcServer' = (mcServer \ {row}) \cup {Renamed(row)}
       \/ mcServer' = mcServer \ {row} /\ (row.of = "titles" => ~Referenced(row.id))
  /\ UNCHANGED <<mcStored, mcCache, mcReads, mcright, mcWrites, mcHeld, mcDrawn, mcChosen,
                 mcpage, mcDialog, mcConfirmed, mcMoved>>

McInit ==
  /\ mcServer = {[id |-> id, of |-> "titles", ver |-> 1] : id \in ToSet(McTitles)}
                  \cup {[id |-> row.id, of |-> row.of, ver |-> 1] : row \in McRows}
  /\ mcStored = {} /\ mcCache = [list \in Lists |-> Unread]
  /\ mcReads = [list \in Lists |-> Resting]
  /\ mcAdmin = TRUE /\ mcGen = 0 /\ mcReady = TRUE
  /\ mcWrites = {} /\ mcHeld = {} /\ mcDrawn = 0 /\ mcChosen = NoTitle
  /\ mcTab \in {"catalog", "aliases"} /\ mcVisited = (mcTab = "aliases") /\ mcLeft = FALSE
  /\ mcDialog = NoDialog /\ mcConfirmed = {} /\ mcMoved = 0 /\ mcFaulted = 0
McNext ==
  \/ \E list \in Lists : SubmitCreate(list) \/ SubmitEdit(list)
  \/ RunCreate \/ CloseDialog \/ ServeWrite \/ WriteNeverArrives \/ ChangeConfirmed \/ ChangeEnds
  \/ ChangeFails \/ SelectTitle \/ ChooseTab \/ LeaveMasters \/ LoseAdmin \/ PausePermission
  \/ PermissionReturns \/ ReadLists \/ McServe \/ McArrives \/ McReadFails \/ OthersChangeMasters
McSpec == McInit /\ [][McNext]_mcvars

McTypeOK ==
  /\ mcChosen \in MasterIds \cup {NoTitle}
  /\ mcDrawn \in 0..Len(McKeys) /\ mcMoved \in 0..McMoves /\ mcFaulted \in 0..McFaults
  /\ \A list \in Lists : mcCache[list].read \in BOOLEAN /\ Listed(list) \subseteq MasterIds
  /\ \A w \in mcWrites : w.at \in {"queued", "sent", "served", "failed", "settling"}

(* Code behaviour: a creation, an edit or a deletion that was confirmed is   *)
(* in every list that is loaded from then on: no read that began before it,  *)
(* and no failing refresh after it, shows the list without it.               *)
ConfirmedMastersStay ==
  \A c \in mcConfirmed :
    mcCache[c.of].read =>
      IF c.ver = 0 THEN c.id \notin Listed(c.of)
      ELSE Existing(c.id) # {} =>
             \E row \in mcCache[c.of].rows : row.id = c.id /\ row.ver >= c.ver

(* Code behaviour: however often a creation is repeated after lost answers   *)
(* and lost permissions, it registers one row.                               *)
RepeatsRegisterOnce ==
  \A list \in Lists :
    Cardinality({done \in mcStored : done.kind = "create" /\ done.row.of = list
                                     /\ done.key \notin Ids(mcConfirmed)}) <= 1

(* Code behaviour: no row is edited or deleted before its creation is        *)
(* registered, although it is already listed.                                *)
EditsRegisteredRows ==
  \A w \in mcWrites :
    w.kind # "create" =>
      w.id \in ToSet(McTitles) \cup Ids(McRows) \cup {done.key : done \in mcStored}

(* Code behaviour: a confirmed master or alias is not lost to an older read  *)
(* or to an undone guess, a repeated request registers one row, and only     *)
(* rows the server has registered can be edited.                             *)
ConfirmedRowsStay ==
  /\ ConfirmedMastersStay
  /\ RepeatsRegisterOnce
  /\ EditsRegisteredRows
=============================================================================
