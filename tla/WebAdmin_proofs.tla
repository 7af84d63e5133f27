---------------------------- MODULE WebAdmin_proofs ----------------------------
(* Proofs about the components of the administration pages.                   *)
EXTENDS WebAdminMC, FiniteSetTheorems, TLAPS

(***************************************************************************)
(* MasterCatalog: whatever reads, creations, edits and deletions are under *)
(* way, and whoever else changes the rows, a confirmed change stays in the *)
(* lists, a repeat registers nothing new and only registered rows are      *)
(* edited.                                                                 *)
(***************************************************************************)

(* The rows that were ever registered: those at first, and one for each      *)
(* creation done.  A row keeps its list for life.                            *)
FirstRows == {[id |-> id, of |-> "titles", ver |-> 1] : id \in ToSet(McTitles)}
               \cup {[id |-> row.id, of |-> row.of, ver |-> 1] : row \in McRows}
Creations == {done \in mcStored : done.kind = "create"}
Origins == FirstRows \cup {done.row : done \in Creations}
Born(id, list) == \E row \in Origins : row.id = id /\ row.of = list
OneHome == \A row, other \in Origins : row.id = other.id => row.of = other.of

Row(row) == /\ row = [id |-> row.id, of |-> row.of, ver |-> row.ver]
            /\ row.ver \in Nat /\ row.ver > 0
            /\ Born(row.id, row.of)
RowsIn(list, rows) == \A row \in rows : Row(row) /\ row.of = list
ServerSound == \A row \in mcServer : Row(row)

(* A key belongs to one change: the one that holds it, the one that is sent  *)
(* with it and the one that was done under it.                               *)
DrawnKeys == {McKeys[i] : i \in 1..mcDrawn}
KeyUses == mcHeld \cup {[what |-> What(w), key |-> w.key] : w \in {u \in mcWrites : Running(u)}}
KeysDrawn == /\ mcDrawn \in 0..Len(McKeys)
             /\ \A use \in KeyUses : use.key \in DrawnKeys
             /\ \A done \in mcStored : done.key \in DrawnKeys
OneChange == \A use, other \in KeyUses : use.key = other.key => use.what = other.what
OneKey == /\ \A held \in mcHeld : held = [what |-> held.what, key |-> held.key]
          /\ \A held, other \in mcHeld : held.what = other.what => held = other
Does(done, what) == /\ done.kind = what.kind /\ done.row.of = what.of
                    /\ done.row.id = IF what.kind = "create" THEN done.key ELSE what.id
DoneAsAsked == \A done \in mcStored, use \in KeyUses : done.key = use.key => Does(done, use.what)

(* What is done stays done: versions only rise, and what is gone is gone.    *)
Outlived(row, deleted) ==
  \A now \in mcServer : now.id = row.id => ~deleted /\ now.ver >= row.ver
Stored(done) == /\ done.kind \in {"create", "update", "delete"}
                /\ Row(done.row) /\ done.row.of \in Lists
                /\ done.kind = "create" => done.row.id = done.key
                /\ Outlived(done.row, done.kind = "delete")
StoredSound == /\ \A done \in mcStored : Stored(done)
               /\ \A done, other \in mcStored : done.key = other.key => done = other
Confirmation(c) == /\ c = [id |-> c.id, of |-> c.of, ver |-> c.ver]
                   /\ c.ver \in Nat /\ c.of \in Lists /\ Born(c.id, c.of)
                   /\ Outlived(c, c.ver = 0)
ConfirmedSound == \A c \in mcConfirmed : Confirmation(c)

(* A list knows a row when it has it unless it is gone for good; a read that *)
(* was served knows every row shown, every confirmed change and every row    *)
(* that is being edited.                                                     *)
Knows(rows, id) == \A now \in mcServer : now.id = id => id \in Ids(rows)
KnowsChange(rows, c) ==
  IF c.ver = 0 THEN c.id \notin Ids(rows)
  ELSE Existing(c.id) # {} => \E row \in rows : row.id = c.id /\ row.ver >= c.ver
Aware(list, rows) ==
  /\ RowsIn(list, rows)
  /\ \A c \in mcConfirmed : c.of = list => KnowsChange(rows, c)
  /\ \A w \in mcWrites : w.kind # "create" /\ w.of = list => Knows(rows, w.id)
CacheSound(list) ==
  /\ mcCache[list] = [read |-> mcCache[list].read, rows |-> mcCache[list].rows]
  /\ mcCache[list].read \in BOOLEAN
  /\ RowsIn(list, mcCache[list].rows)
  /\ mcCache[list].read => Aware(list, mcCache[list].rows)
ReadSound(list) ==
  mcReads[list].at = "served" =>
    /\ Aware(list, mcReads[list].rows)
    /\ \A id \in Listed(list) : Knows(mcReads[list].rows, id)
ListsSound == /\ mcCache = [list \in Lists |-> mcCache[list]]
              /\ mcReads = [list \in Lists |-> mcReads[list]]
              /\ \A list \in Lists : CacheSound(list) /\ ReadSound(list)

(* Submissions.                                                              *)
Write(w) ==
  /\ w = [no |-> w.no, kind |-> w.kind, of |-> w.of, id |-> w.id, gen |-> w.gen, at |-> w.at,
          key |-> w.key]
  /\ w.kind \in {"create", "update", "delete"} /\ w.of \in Lists
  /\ w.at \in {"queued", "sent", "served", "failed", "settling"}
  /\ w.kind = "create" => w.id = NoTitle
  /\ w.kind # "create" => Running(w) /\ Born(w.id, w.of)
  /\ w.at = "served" => Answered(w) # {}
  /\ w.kind = "create" /\ w.at \in {"sent", "served", "failed"} =>
       [what |-> What(w), key |-> w.key] \in mcHeld
OneCreation == \A w, other \in mcWrites :
  w.kind = "create" /\ other.kind = "create" /\ w.of = other.of /\ Running(w) /\ Running(other)
    => w = other
WritesSound == (\A w \in mcWrites : Write(w)) /\ OneCreation

CreationOf(done) == [what |-> [kind |-> "create", of |-> done.row.of, id |-> NoTitle], key |-> done.key]
RepeatsFound ==
  \A done \in Creations : done.key \in Ids(mcConfirmed) \/ CreationOf(done) \in mcHeld

CatalogInv == /\ OneHome /\ ServerSound
        /\ KeysDrawn /\ OneChange /\ OneKey /\ DoneAsAsked
        /\ StoredSound /\ ConfirmedSound
        /\ ListsSound /\ WritesSound /\ RepeatsFound
-----------------------------------------------------------------------------
LEMMA Committed ==
  ASSUME NEW dialog, NEW reads, McCommitted(dialog, reads)
  PROVE  /\ mcReads' = [list \in Lists |-> mcReads'[list]]
         /\ \A list \in Lists : mcReads'[list] \in {reads[list], Resting}
BY DEF McCommitted

(* A step that only removes submissions and reads under way.                 *)
LessUnderway ==
  /\ mcWrites' \subseteq mcWrites
  /\ mcReads' = [list \in Lists |-> mcReads'[list]]
  /\ \A list \in Lists : mcReads'[list] = mcReads[list] \/ mcReads'[list].at # "served"
  /\ UNCHANGED <<mcServer, mcStored, mcCache, mcHeld, mcDrawn, mcConfirmed>>

LEMMA BornStays ==
  ASSUME UNCHANGED mcStored
  PROVE  /\ Origins' = Origins /\ Creations' = Creations
         /\ \A id, list : Born(id, list)' <=> Born(id, list)
         /\ \A row : Row(row)' <=> Row(row)
         /\ \A list, rows : RowsIn(list, rows)' <=> RowsIn(list, rows)
         /\ \A w : Answered(w)' = Answered(w)
BY DEF Origins, Creations, Born, Row, RowsIn, FirstRows, Answered

LEMMA ServerStays ==
  ASSUME UNCHANGED <<mcServer, mcStored>>, OneHome, ServerSound, StoredSound
  PROVE  OneHome' /\ ServerSound' /\ StoredSound'
BY BornStays DEF OneHome, ServerSound, Outlived, StoredSound, Stored

LEMMA ConfirmedStays ==
  ASSUME UNCHANGED <<mcServer, mcStored, mcConfirmed>>, ConfirmedSound
  PROVE  ConfirmedSound'
BY BornStays DEF ConfirmedSound, Confirmation, Outlived

LEMMA AwareStays ==
  ASSUME UNCHANGED <<mcServer, mcStored, mcConfirmed>>, mcWrites' \subseteq mcWrites,
         NEW list, NEW rows, Aware(list, rows)
  PROVE  Aware(list, rows)'
<1>1. RowsIn(list, rows)'
  BY BornStays DEF Aware
<1>2. \A c : KnowsChange(rows, c)' <=> KnowsChange(rows, c)
  BY DEF KnowsChange, Existing
<1>3. \A id : Knows(rows, id)' <=> Knows(rows, id)
  BY DEF Knows
<1> QED BY <1>1, <1>2, <1>3 DEF Aware

LEMMA LessListsSound ==
  ASSUME ListsSound, LessUnderway
  PROVE  ListsSound'
BY BornStays, AwareStays DEF LessUnderway, ListsSound, CacheSound, ReadSound, Listed, Knows

LEMMA LessInv ==
  ASSUME CatalogInv, LessUnderway
  PROVE  CatalogInv'
<1>1. /\ UNCHANGED <<mcServer, mcStored, mcHeld, mcDrawn, mcConfirmed>>
      /\ mcWrites' \subseteq mcWrites
  BY DEF LessUnderway
<1>2. OneHome' /\ ServerSound' /\ StoredSound' /\ ConfirmedSound'
  BY <1>1, ServerStays, ConfirmedStays DEF CatalogInv
<1>3. ListsSound'
  BY LessListsSound DEF CatalogInv
<1>4. KeyUses' \subseteq KeyUses
  BY <1>1 DEF KeyUses
<1>5. KeysDrawn' /\ OneChange' /\ OneKey' /\ DoneAsAsked'
  BY <1>1, <1>4 DEF CatalogInv, KeysDrawn, OneChange, OneKey, DoneAsAsked, DrawnKeys
<1>6. \A w : Write(w)' <=> Write(w)
  BY <1>1, BornStays DEF Write
<1>7. WritesSound'
  BY <1>1, <1>6 DEF CatalogInv, WritesSound, OneCreation
<1>8. RepeatsFound'
  BY <1>1, BornStays DEF CatalogInv, RepeatsFound
<1> QED BY <1>2, <1>3, <1>5, <1>7, <1>8 DEF CatalogInv

LEMMA QuietReads ==
  ASSUME NEW dialog, NEW reads, McCommitted(dialog, reads), mcWrites' \subseteq mcWrites,
         UNCHANGED <<mcServer, mcStored, mcCache, mcHeld, mcDrawn, mcConfirmed>>,
         \A list \in Lists : reads[list] = mcReads[list] \/ reads[list].at # "served"
  PROVE  LessUnderway
BY Committed DEF LessUnderway, Resting

LEMMA QuietSteps ==
  ASSUME CatalogInv,
         \/ CloseDialog \/ ChangeEnds \/ ChangeFails \/ SelectTitle \/ ChooseTab \/ LeaveMasters
         \/ LoseAdmin \/ PausePermission \/ PermissionReturns \/ ReadLists \/ McReadFails
         \/ UNCHANGED mcvars
  PROVE  CatalogInv'
<1>1. mcReads = [list \in Lists |-> mcReads[list]]
  BY DEF CatalogInv, ListsSound
<1>2. CASE CloseDialog
  BY <1>2, QuietReads, LessInv DEF CloseDialog, mcserver
<1>3. CASE ChangeEnds
  BY <1>3, QuietReads, LessInv DEF ChangeEnds, mcserver
<1>4. CASE ChangeFails
  BY <1>4, QuietReads, LessInv DEF ChangeFails, mcserver
<1>5. CASE SelectTitle \/ ChooseTab \/ LeaveMasters
  BY <1>5, QuietReads, LessInv DEF SelectTitle, ChooseTab, LeaveMasters, mcserver, mcdata
<1>6. CASE LoseAdmin \/ PausePermission \/ PermissionReturns
  BY <1>6, QuietReads, LessInv DEF LoseAdmin, PausePermission, PermissionReturns, mcserver, mcdata
<1>7. CASE ReadLists
  BY <1>7, <1>1, QuietReads, LessInv DEF ReadLists, mcelse, mcserver, McAsked
<1>8. CASE McReadFails
  BY <1>8, <1>1, QuietReads, LessInv DEF McReadFails, mcelse, mcserver, Resting
<1>9. CASE UNCHANGED mcvars
  <2>1. LessUnderway
    BY <1>1, <1>9 DEF mcvars, LessUnderway
  <2> QED BY <2>1, LessInv
<1> QED BY <1>2, <1>3, <1>4, <1>5, <1>6, <1>7, <1>8, <1>9

-----------------------------------------------------------------------------
(* A submission that is queued, and one that begins: a new submission w      *)
(* takes the place of old ones, with the key it holds.                       *)
LEMMA AwareWithCreation ==
  ASSUME UNCHANGED <<mcServer, mcStored, mcConfirmed>>, NEW list, NEW rows, Aware(list, rows),
         \A w \in mcWrites' \ mcWrites : w.kind # "create" => w.of # list \/ Knows(rows, w.id)
  PROVE  Aware(list, rows)'
<1>1. RowsIn(list, rows)'
  BY BornStays DEF Aware
<1>2. \A c : KnowsChange(rows, c)' <=> KnowsChange(rows, c)
  BY DEF KnowsChange, Existing
<1>3. \A id : Knows(rows, id)' <=> Knows(rows, id)
  BY DEF Knows
<1> QED BY <1>1, <1>2, <1>3 DEF Aware

(* An edit of a row that is shown is known to every list and read.           *)
MoreWrites ==
  /\ UNCHANGED <<mcServer, mcStored, mcCache, mcConfirmed>>
  /\ mcReads' = [list \in Lists |-> mcReads'[list]]
  /\ \A list \in Lists : mcReads'[list] \in {mcReads[list], Resting}
  /\ \A w \in mcWrites' \ mcWrites : w.kind # "create" =>
       \A list \in Lists : w.of = list =>
         (mcCache[list].read => Knows(mcCache[list].rows, w.id))
         /\ (mcReads[list].at = "served" => Knows(mcReads[list].rows, w.id))

LEMMA MoreListsSound ==
  ASSUME ListsSound, MoreWrites
  PROVE  ListsSound'
<1>1. mcCache' = mcCache /\ UNCHANGED <<mcServer, mcStored, mcConfirmed>>
  BY DEF MoreWrites
<1>2. ASSUME NEW list \in Lists
      PROVE  CacheSound(list)'
  <2>1. CacheSound(list)
    BY <1>2 DEF ListsSound
  <2>2. RowsIn(list, mcCache[list].rows)'
    BY <1>1, <2>1, BornStays DEF CacheSound
  <2>3. ASSUME mcCache[list].read
        PROVE  Aware(list, mcCache[list].rows)'
    <3>1. \A w \in mcWrites' \ mcWrites : w.kind # "create" =>
             w.of # list \/ Knows(mcCache[list].rows, w.id)
      BY <1>2, <2>3 DEF MoreWrites
    <3> QED BY <1>1, <2>1, <2>3, <3>1, AwareWithCreation DEF CacheSound
  <2> QED BY <1>1, <2>1, <2>2, <2>3 DEF CacheSound
<1>3. ASSUME NEW list \in Lists
      PROVE  ReadSound(list)'
  <2> SUFFICES ASSUME mcReads'[list] = mcReads[list], mcReads[list].at = "served"
               PROVE  ReadSound(list)'
    BY <1>3 DEF MoreWrites, ReadSound, Resting
  <2>1. ReadSound(list)
    BY <1>3 DEF ListsSound
  <2>2. \A w \in mcWrites' \ mcWrites : w.kind # "create" =>
           w.of # list \/ Knows(mcReads[list].rows, w.id)
    BY <1>3 DEF MoreWrites
  <2>3. Aware(list, mcReads[list].rows)'
    BY <1>1, <2>1, <2>2, AwareWithCreation DEF ReadSound
  <2>4. Listed(list)' = Listed(list)
    BY <1>1 DEF Listed
  <2>5. \A id : Knows(mcReads[list].rows, id)' <=> Knows(mcReads[list].rows, id)
    BY <1>1 DEF Knows
  <2> QED BY <2>1, <2>3, <2>4, <2>5 DEF ReadSound
<1> QED BY <1>1, <1>2, <1>3 DEF ListsSound, MoreWrites

LEMMA SubmitCreateInv ==
  ASSUME CatalogInv, NEW list \in Lists, SubmitCreate(list)
  PROVE  CatalogInv'
<1>1. PICK w : w = Submission("create", list, NoTitle)
  OBVIOUS
<1>2. /\ w = [no |-> w.no, kind |-> w.kind, of |-> w.of, id |-> w.id, gen |-> w.gen, at |-> w.at,
              key |-> w.key]
      /\ w.kind = "create" /\ w.of = list /\ w.id = NoTitle /\ w.at = "queued"
  BY <1>1 DEF Submission
<1>3. mcWrites' = mcWrites \cup {w}
  BY <1>1 DEF SubmitCreate
<1>4. UNCHANGED <<mcServer, mcStored, mcCache, mcHeld, mcDrawn, mcConfirmed>>
  BY DEF SubmitCreate, mcserver
<1>5. PICK dialog : McCommitted(dialog, mcReads)
  BY DEF SubmitCreate
<1>6. OneHome' /\ ServerSound' /\ StoredSound' /\ ConfirmedSound'
  BY <1>4, ServerStays, ConfirmedStays DEF CatalogInv
<1>7. ListsSound'
  <2>1. MoreWrites
    BY <1>2, <1>3, <1>4, <1>5, Committed DEF MoreWrites
  <2> QED BY <2>1, MoreListsSound DEF CatalogInv
<1>8. KeyUses' = KeyUses
  BY <1>2, <1>3, <1>4 DEF KeyUses, Running
<1>9. KeysDrawn' /\ OneChange' /\ OneKey' /\ DoneAsAsked'
  BY <1>4, <1>8 DEF CatalogInv, KeysDrawn, OneChange, OneKey, DoneAsAsked, DrawnKeys
<1>10. \A u : Write(u)' <=> Write(u)
  BY <1>4, BornStays DEF Write
<1>11. Write(w)
  BY <1>2 DEF Write
<1>12. WritesSound'
  BY <1>2, <1>3, <1>10, <1>11 DEF CatalogInv, WritesSound, OneCreation, Running
<1>13. RepeatsFound'
  BY <1>4, BornStays DEF CatalogInv, RepeatsFound
<1> QED BY <1>6, <1>7, <1>9, <1>12, <1>13 DEF CatalogInv

(* The key a submission begins with is its own, new or held from before.     *)
UseOf(w) == [what |-> What(w), key |-> w.key]
Shaped(w) == w = [no |-> w.no, kind |-> w.kind, of |-> w.of, id |-> w.id, gen |-> w.gen,
                  at |-> w.at, key |-> w.key]

LEMMA BegunShape ==
  ASSUME NEW w, Shaped(w)
  PROVE  /\ Shaped(Begun(w)) /\ What(Begun(w)) = What(w) /\ Begun(w).at = "sent"
         /\ Begun(w).kind = w.kind /\ Begun(w).of = w.of /\ Begun(w).id = w.id
BY DEF Begun, Shaped, What

LEMMA BegunKey ==
  ASSUME NEW w, Shaped(w), Begin(w), KeysDrawn, OneKey
  PROVE  /\ mcHeld' = mcHeld \cup {UseOf(Begun(w))}
         /\ \/ UseOf(Begun(w)) \in mcHeld /\ mcDrawn' = mcDrawn
            \/ /\ Begun(w).key \notin DrawnKeys /\ mcDrawn' = mcDrawn + 1 /\ mcDrawn < Len(McKeys)
               /\ Begun(w).key = McKeys[mcDrawn + 1]
               /\ \A held \in mcHeld : held.what # What(w)
<1>1. What(Begun(w)) = What(w)
  BY BegunShape
<1>2. mcHeld' = mcHeld \cup {UseOf(Begun(w))}
  BY <1>1 DEF Begin, UseOf
<1>3. CASE HeldKey(w) # {}
  <2>1. PICK held \in HeldKey(w) : held = CHOOSE h \in HeldKey(w) : TRUE
    BY <1>3
  <2>2. held \in mcHeld /\ held.what = What(w) /\ held = [what |-> held.what, key |-> held.key]
    BY <2>1 DEF HeldKey, OneKey
  <2>3. Begun(w).key = held.key
    BY <1>3, <2>1 DEF Begun, Shaped
  <2>4. UseOf(Begun(w)) = held
    BY <1>1, <2>2, <2>3 DEF UseOf
  <2> QED BY <1>2, <1>3, <2>2, <2>4 DEF Begin
<1>4. CASE HeldKey(w) = {}
  <2>1. Begun(w).key = McKeys[mcDrawn + 1]
    BY <1>4 DEF Begun, Shaped
  <2>2. mcDrawn' = mcDrawn + 1 /\ mcDrawn < Len(McKeys)
    BY <1>4 DEF Begin
  <2>3. McKeys[mcDrawn + 1] \notin DrawnKeys
    BY <2>2, McAssumption DEF DrawnKeys, KeysDrawn, IsInjective
  <2>4. \A held \in mcHeld : held.what # What(w)
    BY <1>4 DEF HeldKey
  <2> QED BY <1>2, <2>1, <2>2, <2>3, <2>4
<1> QED BY <1>3, <1>4

LEMMA BegunKeys ==
  ASSUME NEW w, Shaped(w), Begin(w), KeysDrawn, OneChange, OneKey, DoneAsAsked,
         UNCHANGED mcStored, mcWrites' \subseteq mcWrites \cup {Begun(w)}
  PROVE  /\ KeysDrawn' /\ OneChange' /\ OneKey' /\ DoneAsAsked'
         /\ UseOf(Begun(w)) \in mcHeld' /\ mcHeld \subseteq mcHeld'
<1>1. PICK use : use = UseOf(Begun(w))
  OBVIOUS
<1>2. /\ use = [what |-> use.what, key |-> use.key]
      /\ use.what = What(w) /\ use.key = Begun(w).key
  BY <1>1, BegunShape DEF UseOf
<1>3. mcHeld' = mcHeld \cup {use}
  BY <1>1, BegunKey
<1>4. KeyUses' \subseteq KeyUses \cup {use}
  BY <1>1, <1>3 DEF KeyUses, UseOf
<1>5. CASE use \in mcHeld /\ mcDrawn' = mcDrawn
  <2>1. mcHeld' = mcHeld /\ KeyUses' \subseteq KeyUses
    BY <1>3, <1>4, <1>5 DEF KeyUses
  <2> QED BY <1>1, <1>3, <1>5, <2>1 DEF KeysDrawn, DrawnKeys, OneChange, OneKey, DoneAsAsked
<1>6. CASE /\ use.key \notin DrawnKeys /\ mcDrawn' = mcDrawn + 1 /\ mcDrawn < Len(McKeys)
           /\ use.key = McKeys[mcDrawn + 1]
           /\ \A held \in mcHeld : held.what # What(w)
  <2>1. mcDrawn' \in 0..Len(McKeys) /\ DrawnKeys' = DrawnKeys \cup {use.key}
    BY <1>6, McAssumption DEF KeysDrawn, DrawnKeys
  <2>2. KeysDrawn'
    BY <1>4, <2>1 DEF KeysDrawn
  <2>3. OneChange' /\ DoneAsAsked'
    BY <1>4, <1>6 DEF KeysDrawn, OneChange, DoneAsAsked
  <2>4. OneKey'
    BY <1>2, <1>3, <1>6 DEF OneKey
  <2> QED BY <1>1, <1>3, <2>2, <2>3, <2>4
<1> QED BY <1>1, <1>2, <1>5, <1>6, BegunKey

LEMMA BeginInv ==
  ASSUME CatalogInv, NEW w, Shaped(w), Begin(w),
         w.kind \in {"create", "update", "delete"}, w.of \in Lists,
         w.kind = "create" => /\ w.id = NoTitle
                              /\ \A other \in McUnderway("create", w.of) : ~Running(other),
         w.kind # "create" => Born(w.id, w.of),
         mcWrites' \subseteq mcWrites \cup {Begun(w)}, MoreWrites
  PROVE  CatalogInv'
<1>1. PICK b : b = Begun(w)
  OBVIOUS
<1>2. /\ Shaped(b) /\ b.at = "sent" /\ b.kind = w.kind /\ b.of = w.of /\ b.id = w.id
      /\ mcWrites' \subseteq mcWrites \cup {b}
  BY <1>1, BegunShape
<1>3. UNCHANGED <<mcServer, mcStored, mcCache, mcConfirmed>>
  BY DEF MoreWrites
<1>4. OneHome' /\ ServerSound' /\ StoredSound' /\ ConfirmedSound' /\ ListsSound'
  BY <1>3, ServerStays, ConfirmedStays, MoreListsSound DEF CatalogInv
<1>5. /\ KeysDrawn' /\ OneChange' /\ OneKey' /\ DoneAsAsked'
      /\ UseOf(b) \in mcHeld' /\ mcHeld \subseteq mcHeld'
  BY <1>1, <1>3, BegunKeys DEF CatalogInv
<1>6. \A u : Write(u) => Write(u)'
  BY <1>3, <1>5, BornStays DEF Write
<1>7. Write(b)'
  BY <1>2, <1>3, <1>5, BornStays DEF Write, Running, Shaped, UseOf
<1>8. OneCreation'
  BY <1>2 DEF CatalogInv, WritesSound, OneCreation, McUnderway
<1>9. WritesSound'
  BY <1>2, <1>6, <1>7, <1>8 DEF CatalogInv, WritesSound
<1>10. RepeatsFound'
  BY <1>3, <1>5, BornStays DEF CatalogInv, RepeatsFound
<1> QED BY <1>4, <1>5, <1>9, <1>10 DEF CatalogInv

LEMMA RunCreateInv ==
  ASSUME CatalogInv, RunCreate
  PROVE  CatalogInv'
<1>1. PICK w \in mcWrites :
        /\ w.at = "queued"
        /\ \A other \in McUnderway("create", w.of) : ~Running(other)
        /\ IF McCanCommit(w)
           THEN /\ Begin(w)
                /\ mcWrites' = (mcWrites \ {w}) \cup {Begun(w)}
                /\ McCommitted(mcDialog, mcReads)
           ELSE /\ mcWrites' = mcWrites \ {w}
                /\ UNCHANGED <<mcHeld, mcDrawn>>
                /\ McCommitted(Dropped(w), mcReads)
  BY Zenon DEF RunCreate
<1>2. UNCHANGED <<mcServer, mcStored, mcCache, mcConfirmed>>
  BY DEF RunCreate, mcserver
<1>3. Write(w)
  BY DEF CatalogInv, WritesSound
<1>4. Shaped(w) /\ w.kind = "create" /\ w.id = NoTitle /\ w.of \in Lists
  BY <1>1, <1>3 DEF Write, Shaped, Running
<1>5. CASE McCanCommit(w)
  BY <1>1, <1>5, <1>4, BegunShape, <1>2, Committed, BeginInv DEF MoreWrites
<1>6. CASE ~McCanCommit(w)
  <2>1. mcReads = [list \in Lists |-> mcReads[list]]
    BY DEF CatalogInv, ListsSound
  <2> QED BY <1>1, <1>2, <1>6, <2>1, QuietReads, LessInv
<1> QED BY <1>5, <1>6

LEMMA SubmitEditInv ==
  ASSUME CatalogInv, NEW list \in Lists, SubmitEdit(list)
  PROVE  CatalogInv'
<1>1. PICK kind \in {"update", "delete"}, id \in Editable(list) :
        LET w == Submission(kind, list, id)
            dialog == [kind |-> kind, id |-> id, of |-> list, write |-> 0, error |-> FALSE]
        IN IF mcReady
           THEN /\ Begin(w)
                /\ mcWrites' = mcWrites \cup {Begun(w)}
                /\ McCommitted([dialog EXCEPT !.write = w.no], mcReads)
           ELSE /\ UNCHANGED <<mcWrites, mcHeld, mcDrawn>>
                /\ McCommitted([dialog EXCEPT !.error = TRUE], mcReads)
  BY Zenon DEF SubmitEdit
<1>2. PICK w : w = Submission(kind, list, id)
  OBVIOUS
<1>3. Shaped(w) /\ w.kind = kind /\ w.of = list /\ w.id = id
  BY <1>2 DEF Submission, Shaped
<1>4. UNCHANGED <<mcServer, mcStored, mcCache, mcConfirmed>>
  BY DEF SubmitEdit, mcserver
<1>5. CASE mcReady
  <2>1. /\ Begin(w) /\ mcWrites' = mcWrites \cup {Begun(w)}
        /\ \E dialog : McCommitted(dialog, mcReads)
    BY <1>1, <1>2, <1>5
  <2>2. id \in Listed(list) /\ mcCache[list].read
    BY DEF Editable, PanelReady
  <2>3. CacheSound(list) /\ ReadSound(list)
    BY DEF CatalogInv, ListsSound
  <2>4. Born(id, list)
    BY <2>2, <2>3 DEF CacheSound, RowsIn, Row, Listed, Ids
  <2>5. mcReads[list].at = "served" => Knows(mcReads[list].rows, id)
    BY <2>2, <2>3 DEF ReadSound
  <2>6. Begun(w).of = list /\ Begun(w).id = id /\ Knows(mcCache[list].rows, id)
    BY <1>3, <2>2, BegunShape DEF Knows, Listed
  <2>7. MoreWrites
    BY <1>4, <2>1, <2>5, <2>6, Committed DEF MoreWrites
  <2> QED BY <1>3, <2>1, <2>4, <2>7, BeginInv
<1>6. CASE ~mcReady
  <2>1. mcReads = [l \in Lists |-> mcReads[l]]
    BY DEF CatalogInv, ListsSound
  <2>2. UNCHANGED <<mcWrites, mcHeld, mcDrawn>> /\ \E dialog : McCommitted(dialog, mcReads)
    BY <1>1, <1>6
  <2> QED BY <1>4, <2>1, <2>2, QuietReads, LessInv
<1> QED BY <1>5, <1>6

-----------------------------------------------------------------------------
(* The server moves on: every registered row it has it had before, in no     *)
(* newer version.  What is gone is not registered again.                     *)
Registered(id) == \E row \in Origins : row.id = id
LaterServer ==
  /\ mcStored \subseteq mcStored'
  /\ \A now \in mcServer' : Registered(now.id) =>
       \E old \in mcServer : old.id = now.id /\ old.ver <= now.ver
SameWrites ==
  \A u \in mcWrites' : \E w \in mcWrites : u.kind = w.kind /\ u.of = w.of /\ u.id = w.id

LEMMA BornLater ==
  ASSUME mcStored \subseteq mcStored'
  PROVE  /\ Origins \subseteq Origins'
         /\ \A id, list : Born(id, list) => Born(id, list)'
         /\ \A row : Row(row) => Row(row)'
         /\ \A list, rows : RowsIn(list, rows) => RowsIn(list, rows)'
         /\ \A w : Answered(w) \subseteq Answered(w)'
BY DEF Origins, Creations, FirstRows, Born, Row, RowsIn, Answered

LEMMA OutlivedLater ==
  ASSUME LaterServer, ServerSound, NEW row, NEW deleted,
         row.ver \in Nat, Registered(row.id), Outlived(row, deleted),
         \A now \in mcServer' : now.ver \in Nat
  PROVE  Outlived(row, deleted)'
BY DEF LaterServer, Outlived, ServerSound, Row

LEMMA KnowsLater ==
  ASSUME LaterServer, NEW id, NEW rows, Registered(id), Knows(rows, id)
  PROVE  Knows(rows, id)'
BY DEF LaterServer, Knows

LEMMA KnowsChangeLater ==
  ASSUME LaterServer, NEW c, NEW rows, Registered(c.id), KnowsChange(rows, c)
  PROVE  KnowsChange(rows, c)'
<1>1. Existing(c.id)' # {} => Existing(c.id) # {}
  BY DEF LaterServer, Existing
<1> QED BY <1>1 DEF KnowsChange

LEMMA BornRegistered == \A id, list : Born(id, list) => Registered(id)
BY DEF Born, Registered

LEMMA AwareLater ==
  ASSUME LaterServer, UNCHANGED mcConfirmed, ConfirmedSound, \A w \in mcWrites : Write(w),
         SameWrites, NEW list, NEW rows, Aware(list, rows)
  PROVE  Aware(list, rows)'
<1>1. RowsIn(list, rows)'
  BY BornLater DEF LaterServer, Aware
<1>2. ASSUME NEW c \in mcConfirmed, c.of = list
      PROVE  KnowsChange(rows, c)'
  <2>1. Registered(c.id)
    BY <1>2, BornRegistered DEF ConfirmedSound, Confirmation
  <2> QED BY <1>2, <2>1, KnowsChangeLater DEF Aware
<1>3. ASSUME NEW u \in mcWrites', u.kind # "create", u.of = list
      PROVE  Knows(rows, u.id)'
  <2>1. PICK w \in mcWrites : u.kind = w.kind /\ u.of = w.of /\ u.id = w.id
    BY <1>3 DEF SameWrites
  <2>2. Registered(w.id) /\ Knows(rows, w.id)
    BY <1>3, <2>1, BornRegistered DEF Write, Aware
  <2> QED BY <2>1, <2>2, KnowsLater
<1> QED BY <1>1, <1>2, <1>3 DEF Aware

LEMMA LaterListsSound ==
  ASSUME LaterServer, UNCHANGED <<mcConfirmed, mcCache, mcReads>>, ConfirmedSound,
         \A w \in mcWrites : Write(w), SameWrites, ListsSound
  PROVE  ListsSound'
<1>1. ASSUME NEW list \in Lists
      PROVE  CacheSound(list)'
  BY <1>1, BornLater, AwareLater DEF ListsSound, CacheSound, LaterServer
<1>2. ASSUME NEW list \in Lists, mcReads[list].at = "served"
      PROVE  ReadSound(list)'
  <2>1. ReadSound(list) /\ CacheSound(list)
    BY <1>2 DEF ListsSound
  <2>2. Aware(list, mcReads[list].rows)'
    BY <1>2, <2>1, AwareLater DEF ReadSound
  <2>3. ASSUME NEW id \in Listed(list)
        PROVE  Knows(mcReads[list].rows, id)'
    <3>1. Registered(id)
      BY <2>1, BornRegistered DEF CacheSound, RowsIn, Row, Listed, Ids
    <3> QED BY <1>2, <2>1, <3>1, KnowsLater DEF ReadSound
  <2>4. Listed(list)' = Listed(list)
    BY DEF Listed
  <2> QED BY <2>2, <2>3, <2>4 DEF ReadSound
<1>3. \A list \in Lists : ReadSound(list)'
  BY <1>2 DEF ReadSound
<1> QED BY <1>1, <1>3 DEF ListsSound

LEMMA LaterStored ==
  ASSUME LaterServer, ServerSound, ServerSound', StoredSound, NEW done \in mcStored
  PROVE  Stored(done)'
BY BornLater, BornRegistered, OutlivedLater DEF StoredSound, LaterServer, Stored, Row, ServerSound

LEMMA LaterConfirmed ==
  ASSUME LaterServer, ServerSound, ServerSound', ConfirmedSound, UNCHANGED mcConfirmed
  PROVE  ConfirmedSound'
BY BornLater, BornRegistered, OutlivedLater
DEF ConfirmedSound, LaterServer, Confirmation, ServerSound, Row

LEMMA OthersChangeMastersInv ==
  ASSUME CatalogInv, OthersChangeMasters
  PROVE  CatalogInv'
<1>1. /\ UNCHANGED <<mcStored, mcCache, mcReads, mcWrites, mcHeld, mcDrawn, mcConfirmed>>
  BY DEF OthersChangeMasters
<1>2. PICK row \in mcServer : \/ mcServer' = (mcServer \ {row}) \cup {Renamed(row)}
                              \/ mcServer' = mcServer \ {row}
  BY DEF OthersChangeMasters
<1>3. Row(row) /\ \A now \in mcServer : Row(now)
  BY DEF CatalogInv, ServerSound
<1>4. Row(Renamed(row)) /\ Renamed(row).id = row.id /\ Renamed(row).ver >= row.ver
  BY <1>3 DEF Row, Renamed
<1>5. ServerSound' /\ OneHome'
  BY <1>1, <1>2, <1>3, <1>4, BornStays DEF CatalogInv, ServerSound, OneHome
<1>6. LaterServer
  BY <1>1, <1>2, <1>3, <1>4 DEF LaterServer, Row
<1>7. StoredSound' /\ ConfirmedSound'
  BY <1>1, <1>5, <1>6, LaterStored, LaterConfirmed DEF CatalogInv, StoredSound
<1>8. ListsSound'
  BY <1>1, <1>6, LaterListsSound DEF CatalogInv, WritesSound, SameWrites
<1>9. KeyUses' = KeyUses
  BY <1>1 DEF KeyUses
<1>10. KeysDrawn' /\ OneChange' /\ OneKey' /\ DoneAsAsked'
  BY <1>1, <1>9 DEF CatalogInv, KeysDrawn, OneChange, OneKey, DoneAsAsked, DrawnKeys
<1>11. WritesSound'
  BY <1>1, BornStays DEF CatalogInv, WritesSound, Write, OneCreation
<1>12. RepeatsFound'
  BY <1>1, BornStays DEF CatalogInv, RepeatsFound
<1> QED BY <1>5, <1>7, <1>8, <1>10, <1>11, <1>12 DEF CatalogInv

(* A submission w that was sent is served, or fails.                         *)
WithAnswer(w, answer) == [w EXCEPT !.at = answer]

LEMMA AnswerShape ==
  ASSUME NEW w, Shaped(w), NEW answer
  PROVE  /\ Shaped(WithAnswer(w, answer)) /\ WithAnswer(w, answer).at = answer
         /\ WithAnswer(w, answer).kind = w.kind /\ WithAnswer(w, answer).of = w.of
         /\ WithAnswer(w, answer).id = w.id /\ WithAnswer(w, answer).key = w.key
         /\ What(WithAnswer(w, answer)) = What(w)
         /\ UseOf(WithAnswer(w, answer)) = UseOf(w)
BY DEF WithAnswer, Shaped, What, UseOf

LEMMA AnsweredUses ==
  ASSUME NEW w \in mcWrites, Write(w), w.at = "sent", NEW answer, answer # "queued",
         mcWrites' = (mcWrites \ {w}) \cup {WithAnswer(w, answer)}
  PROVE  SameWrites /\ {UseOf(u) : u \in {x \in mcWrites' : Running(x)}}
                         = {UseOf(u) : u \in {x \in mcWrites : Running(x)}}
BY AnswerShape DEF Running, Write, Shaped, SameWrites

LEMMA KeyUsesAre ==
  /\ KeyUses = mcHeld \cup {UseOf(u) : u \in {x \in mcWrites : Running(x)}}
  /\ KeyUses' = mcHeld' \cup {UseOf(u) : u \in {x \in mcWrites' : Running(x)}}
BY DEF KeyUses, UseOf

LEMMA AnsweredWrites ==
  ASSUME CatalogInv, NEW w \in mcWrites, w.at = "sent", NEW answer, answer \in {"served", "failed"},
         mcWrites' = (mcWrites \ {w}) \cup {WithAnswer(w, answer)},
         UNCHANGED mcHeld, mcStored \subseteq mcStored',
         answer = "served" => Answered(w)' # {}
  PROVE  WritesSound'
<1>1. PICK v : v = WithAnswer(w, answer)
  OBVIOUS
<1>2. Write(w)
  BY DEF CatalogInv, WritesSound
<1>3. /\ Shaped(v) /\ v.at = answer /\ UseOf(v) = UseOf(w) /\ Running(v) /\ Running(w)
      /\ v.kind = w.kind /\ v.of = w.of /\ v.id = w.id /\ v.key = w.key
  BY <1>1, <1>2, AnswerShape DEF Running, Write, Shaped
<1>4. \A u : Write(u) => Write(u)'
  BY BornLater DEF Write
<1>5. Answered(v)' = Answered(w)'
  BY <1>3 DEF Answered
<1>6. Write(v)'
  BY <1>2, <1>3, <1>5, BornLater DEF Write, Shaped, UseOf
<1>7. mcWrites' = (mcWrites \ {w}) \cup {v}
  BY <1>1
<1>8. \A u \in mcWrites' : Write(u)'
  BY <1>4, <1>6, <1>7 DEF CatalogInv, WritesSound
<1>9. OneCreation'
  BY <1>3, <1>7 DEF CatalogInv, WritesSound, OneCreation
<1> QED BY <1>8, <1>9 DEF WritesSound

LEMMA AnsweredInv ==
  ASSUME CatalogInv, NEW w \in mcWrites, w.at = "sent", NEW answer, answer \in {"served", "failed"},
         mcWrites' = (mcWrites \ {w}) \cup {WithAnswer(w, answer)},
         UNCHANGED <<mcServer, mcStored, mcCache, mcReads, mcHeld, mcDrawn, mcConfirmed>>,
         answer = "served" => Answered(w) # {}
  PROVE  CatalogInv'
<1>1. WritesSound'
  BY AnsweredWrites, BornStays
<1>2. OneHome' /\ ServerSound' /\ StoredSound' /\ ConfirmedSound'
  BY ServerStays, ConfirmedStays DEF CatalogInv
<1>3. Write(w)
  BY DEF CatalogInv, WritesSound
<1>4. SameWrites /\ KeyUses' = KeyUses
  BY <1>3, AnsweredUses, KeyUsesAre
<1>5. LaterServer
  BY DEF LaterServer, CatalogInv, ServerSound, Row
<1>6. ListsSound'
  BY <1>4, <1>5, LaterListsSound DEF CatalogInv, WritesSound
<1>7. KeysDrawn' /\ OneChange' /\ OneKey' /\ DoneAsAsked'
  BY <1>4 DEF CatalogInv, KeysDrawn, OneChange, OneKey, DoneAsAsked, DrawnKeys
<1>8. RepeatsFound'
  BY BornStays DEF CatalogInv, RepeatsFound
<1> QED BY <1>1, <1>2, <1>6, <1>7, <1>8 DEF CatalogInv

(* A change is done under its key for the first time.                        *)
LEMMA ResultShape ==
  ASSUME NEW w, Write(w), ServerSound, OneHome, Answered(w) = {}, Accepted(w), StoredSound,
         w.at = "sent", w.key \in ToSet(McKeys)
  PROVE  /\ ResultOf(w) = [id |-> ResultOf(w).id, of |-> w.of, ver |-> ResultOf(w).ver]
         /\ ResultOf(w).ver \in Nat /\ ResultOf(w).ver > 0
         /\ ResultOf(w).id = IF w.kind = "create" THEN w.key ELSE w.id
         /\ w.kind = "create" => ~Registered(w.key)
         /\ w.kind = "update" =>
              \E old \in mcServer : old.id = w.id /\ old.ver <= ResultOf(w).ver
<1>1. CASE w.kind = "update"
  <2>1. PICK old : old = CHOOSE row \in Existing(w.id) : TRUE
    OBVIOUS
  <2>2. Existing(w.id) # {}
    BY <1>1 DEF Accepted
  <2>3. old \in mcServer /\ old.id = w.id
    BY <2>1, <2>2 DEF Existing
  <2>4. Row(old)
    BY <2>3 DEF ServerSound
  <2>5. old.of = w.of
    BY <1>1, <2>3, <2>4 DEF Write, Row, Born, OneHome
  <2>6. PICK new : new = Renamed(old)
    OBVIOUS
  <2>7. new = [id |-> new.id, of |-> new.of, ver |-> new.ver]
        /\ new.id = old.id /\ new.of = old.of /\ new.ver = old.ver + 1
    BY <2>4, <2>6 DEF Row, Renamed
  <2>8. ResultOf(w) = new
    BY <1>1, <2>1, <2>6 DEF ResultOf
  <2>9. old.ver \in Nat
    BY <2>4 DEF Row
  <2> QED BY <1>1, <2>3, <2>5, <2>7, <2>8, <2>9
<1>2. CASE w.kind # "update"
  <2>1. ResultOf(w) = [id |-> IF w.kind = "create" THEN w.key ELSE w.id, of |-> w.of, ver |-> 1]
    BY <1>2 DEF ResultOf, RowOf
  <2>2. ASSUME w.kind = "create"
        PROVE  ~Registered(w.key)
    <3>1. \A row \in FirstRows : row.id # w.key
      BY McAssumption DEF FirstRows
    <3>2. \A done \in Creations : done.row.id # w.key
      BY DEF Creations, StoredSound, Stored, Answered
    <3> QED BY <3>1, <3>2 DEF Registered, Origins
  <2> QED BY <1>2, <2>1, <2>2
<1> QED BY <1>1, <1>2

LEMMA DoneInv ==
  ASSUME CatalogInv, NEW w \in mcWrites, w.at = "sent", NEW answer, answer \in {"served", "failed"},
         mcWrites' = (mcWrites \ {w}) \cup {WithAnswer(w, answer)},
         UNCHANGED <<mcCache, mcReads, mcHeld, mcDrawn, mcConfirmed>>,
         Answered(w) = {}, Accepted(w),
         mcStored' = mcStored \cup {[key |-> w.key, kind |-> w.kind, row |-> ResultOf(w)]},
         mcServer' = {row \in mcServer : row.id # ResultOf(w).id}
                       \cup (IF w.kind = "delete" THEN {} ELSE {ResultOf(w)})
  PROVE  CatalogInv'
<1>1. PICK new : new = ResultOf(w)
  OBVIOUS
<1>2. PICK d : d = [key |-> w.key, kind |-> w.kind, row |-> new]
  OBVIOUS
<1>3. d.key = w.key /\ d.kind = w.kind /\ d.row = new
  BY <1>2
<1>4. Write(w) /\ Shaped(w) /\ Running(w)
  BY DEF CatalogInv, WritesSound, Write, Shaped, Running
<1>5. UseOf(w) \in KeyUses /\ UseOf(w).what = What(w) /\ UseOf(w).key = w.key
  BY <1>4, KeyUsesAre DEF UseOf
<1>6. w.key \in DrawnKeys /\ w.key \in ToSet(McKeys)
  BY <1>5, McAssumption DEF CatalogInv, KeysDrawn, DrawnKeys, ToSet
<1>7. /\ new = [id |-> new.id, of |-> new.of, ver |-> new.ver] /\ new.of = w.of
      /\ new.ver \in Nat /\ new.ver > 0
      /\ new.id = IF w.kind = "create" THEN w.key ELSE w.id
      /\ w.kind = "create" => ~Registered(w.key)
      /\ w.kind = "update" => \E old \in mcServer : old.id = w.id /\ old.ver <= new.ver
  BY <1>1, <1>4, <1>6, ResultShape DEF CatalogInv
<1>8. mcStored' = mcStored \cup {d} /\ mcStored \subseteq mcStored'
  BY <1>1, <1>2
<1>9. mcServer' = {row \in mcServer : row.id # new.id} \cup (IF w.kind = "delete" THEN {} ELSE {new})
  BY <1>1
<1>10. LaterServer
  BY <1>4, <1>7, <1>8, <1>9 DEF LaterServer, CatalogInv, ServerSound, Row, Write
<1>11. Origins' = Origins \cup (IF w.kind = "create" THEN {new} ELSE {})
  BY <1>3, <1>8 DEF Origins, Creations, FirstRows
<1>12. OneHome'
  BY <1>7, <1>11 DEF CatalogInv, OneHome, Registered
<1>13. Born(new.id, new.of)'
  <2>1. CASE w.kind = "create"
    BY <1>11, <2>1 DEF Born
  <2>2. CASE w.kind # "create"
    BY <1>4, <1>7, <1>8, <2>2, BornLater DEF Write
  <2> QED BY <2>1, <2>2
<1>14. Row(new)'
  BY <1>7, <1>13 DEF Row
<1>15. ServerSound'
  BY <1>8, <1>9, <1>14, BornLater DEF CatalogInv, ServerSound
<1>16. ConfirmedSound'
  BY <1>10, <1>15, LaterConfirmed DEF CatalogInv
<1>17. Stored(d)'
  <2>1. Outlived(new, w.kind = "delete")'
    BY <1>7, <1>9 DEF Outlived
  <2>2. w.kind \in {"create", "update", "delete"} /\ w.of \in Lists
    BY <1>4 DEF Write
  <2> QED BY <1>3, <1>7, <1>14, <2>1, <2>2 DEF Stored
<1>18. StoredSound'
  <2>1. \A done \in mcStored' : Stored(done)'
    BY <1>8, <1>10, <1>15, <1>17, LaterStored DEF CatalogInv
  <2>2. \A done \in mcStored : done.key # w.key
    BY DEF Answered
  <2> QED BY <1>3, <1>8, <2>1, <2>2 DEF CatalogInv, StoredSound
<1>19. SameWrites /\ KeyUses' = KeyUses
  BY <1>4, AnsweredUses, KeyUsesAre
<1>20. ListsSound'
  BY <1>10, <1>19, LaterListsSound DEF CatalogInv, WritesSound
<1>21. KeysDrawn' /\ OneChange' /\ OneKey'
  BY <1>3, <1>6, <1>8, <1>19 DEF CatalogInv, KeysDrawn, OneChange, OneKey, DrawnKeys
<1>22. DoneAsAsked'
  <2>1. Does(d, What(w))
    BY <1>3, <1>7 DEF Does, What
  <2>2. ASSUME NEW use \in KeyUses, d.key = use.key
        PROVE  Does(d, use.what)
    BY <1>3, <1>5, <2>1, <2>2 DEF CatalogInv, OneChange
  <2> QED BY <1>8, <1>19, <2>2 DEF CatalogInv, DoneAsAsked
<1>23. WritesSound'
  BY <1>3, <1>8, AnsweredWrites DEF Answered
<1>24. RepeatsFound'
  BY <1>8, <1>3, <1>4, <1>7 DEF Creations, Write, CreationOf, What, CatalogInv, RepeatsFound
<1> QED BY <1>12, <1>15, <1>16, <1>18, <1>20, <1>21, <1>22, <1>23, <1>24 DEF CatalogInv

LEMMA ServeWriteInv ==
  ASSUME CatalogInv, ServeWrite \/ WriteNeverArrives
  PROVE  CatalogInv'
<1>1. CASE ServeWrite
  <2>1. PICK w \in mcWrites, lost \in BOOLEAN :
          /\ w.at = "sent"
          /\ IF Answered(w) # {} \/ ~Accepted(w) THEN UNCHANGED mcserver
             ELSE /\ mcStored' = mcStored \cup {[key |-> w.key, kind |-> w.kind, row |-> ResultOf(w)]}
                  /\ mcServer' = {row \in mcServer : row.id # ResultOf(w).id}
                                   \cup (IF w.kind = "delete" THEN {} ELSE {ResultOf(w)})
          /\ Serves(w, IF lost \/ (Answered(w) = {} /\ ~Accepted(w)) THEN "failed" ELSE "served")
    BY <1>1, Zenon DEF ServeWrite
  <2>2. PICK answer :
          answer = IF lost \/ (Answered(w) = {} /\ ~Accepted(w)) THEN "failed" ELSE "served"
    OBVIOUS
  <2>3. /\ mcWrites' = (mcWrites \ {w}) \cup {WithAnswer(w, answer)}
        /\ UNCHANGED <<mcCache, mcReads, mcHeld, mcDrawn, mcConfirmed>>
        /\ answer \in {"served", "failed"}
    BY <2>1, <2>2 DEF Serves, WithAnswer
  <2>4. CASE Answered(w) # {} \/ ~Accepted(w)
    <3>1. UNCHANGED <<mcServer, mcStored>>
      BY <2>1, <2>4 DEF mcserver
    <3>2. answer = "served" => Answered(w) # {}
      BY <2>2, <2>4
    <3> QED BY <2>1, <2>3, <3>1, <3>2, AnsweredInv
  <2>5. CASE Answered(w) = {} /\ Accepted(w)
    BY <2>1, <2>3, <2>5, DoneInv
  <2> QED BY <2>4, <2>5
<1>2. CASE WriteNeverArrives
  BY <1>2, AnsweredInv DEF WriteNeverArrives, Serves, WithAnswer, mcserver
<1> QED BY <1>1, <1>2

-----------------------------------------------------------------------------
(* A read that is served now knows everything there is to know.              *)
LEMMA RowsOfAware ==
  ASSUME CatalogInv, NEW list \in Lists
  PROVE  Aware(list, RowsOf(list)) /\ \A id \in Listed(list) : Knows(RowsOf(list), id)
<1>1. RowsIn(list, RowsOf(list))
  BY DEF CatalogInv, ServerSound, RowsIn, RowsOf
<1>2. ASSUME NEW now \in mcServer, Born(now.id, list)
      PROVE  now \in RowsOf(list)
  BY <1>2 DEF CatalogInv, ServerSound, Row, Born, OneHome, RowsOf
<1>3. \A id : Born(id, list) => Knows(RowsOf(list), id)
  BY <1>2 DEF Knows, Ids
<1>4. ASSUME NEW c \in mcConfirmed, c.of = list
      PROVE  KnowsChange(RowsOf(list), c)
  BY <1>4, <1>2
  DEF CatalogInv, ConfirmedSound, Confirmation, Outlived, KnowsChange, Ids, RowsOf, Existing
<1>5. \A w \in mcWrites : w.kind # "create" /\ w.of = list => Knows(RowsOf(list), w.id)
  BY <1>3 DEF CatalogInv, WritesSound, Write
<1>6. \A id \in Listed(list) : Born(id, list)
  BY DEF CatalogInv, ListsSound, CacheSound, RowsIn, Row, Listed, Ids
<1> QED BY <1>1, <1>3, <1>4, <1>5, <1>6 DEF Aware

(* Steps of the lists alone.                                                 *)
LEMMA ListsAlone ==
  ASSUME CatalogInv, UNCHANGED <<mcServer, mcStored, mcWrites, mcHeld, mcDrawn, mcConfirmed>>, ListsSound'
  PROVE  CatalogInv'
BY ServerStays, ConfirmedStays, BornStays
DEF CatalogInv, KeyUses, KeysDrawn, OneChange, OneKey, DoneAsAsked, DrawnKeys, WritesSound, Write,
    OneCreation, RepeatsFound

LEMMA McServeInv ==
  ASSUME CatalogInv, McServe
  PROVE  CatalogInv'
<1>1. UNCHANGED <<mcServer, mcStored, mcCache, mcWrites, mcHeld, mcDrawn, mcConfirmed>>
  BY DEF McServe, mcelse, mcserver
<1>2. PICK list \in Lists :
        mcReads' = [mcReads EXCEPT ![list] = [at |-> "served", rows |-> RowsOf(list)]]
  BY DEF McServe
<1>3. mcReads = [l \in Lists |-> mcReads[l]]
  BY DEF CatalogInv, ListsSound
<1>4. /\ mcReads' = [l \in Lists |-> mcReads'[l]]
      /\ mcReads'[list].rows = RowsOf(list)
      /\ \A l \in Lists : l # list => mcReads'[l] = mcReads[l]
  BY <1>2, <1>3
<1>5. \A l \in Lists : CacheSound(l)'
  <2> TAKE l \in Lists
  <2>1. CacheSound(l)
    BY DEF CatalogInv, ListsSound
  <2> QED BY <1>1, <2>1, BornStays, AwareStays DEF CacheSound
<1>6. ASSUME NEW l \in Lists
      PROVE  ReadSound(l)'
  <2>1. Listed(l)' = Listed(l) /\ \A rows, id : Knows(rows, id)' <=> Knows(rows, id)
    BY <1>1 DEF Listed, Knows
  <2>2. CASE l = list
    <3>1. PICK rows : rows = RowsOf(l)
      OBVIOUS
    <3>2. Aware(l, rows) /\ \A id \in Listed(l) : Knows(rows, id)
      BY <3>1, RowsOfAware
    <3>3. Aware(l, rows)'
      BY <1>1, <3>2, AwareStays
    <3> QED BY <1>4, <2>1, <2>2, <3>1, <3>2, <3>3 DEF ReadSound
  <2>3. CASE l # list
    <3>1. ReadSound(l)
      BY DEF CatalogInv, ListsSound
    <3> QED BY <1>1, <1>4, <2>1, <2>3, <3>1, AwareStays DEF ReadSound
  <2> QED BY <2>2, <2>3
<1>7. ListsSound'
  BY <1>1, <1>4, <1>5, <1>6 DEF CatalogInv, ListsSound
<1> QED BY <1>1, <1>7, ListsAlone

LEMMA McArrivesInv ==
  ASSUME CatalogInv, McArrives
  PROVE  CatalogInv'
<1>1. UNCHANGED <<mcServer, mcStored, mcWrites, mcHeld, mcDrawn, mcConfirmed>>
  BY DEF McArrives, mcelse, mcserver
<1>2. PICK list \in Lists :
        /\ mcReads[list].at = "served"
        /\ mcCache' = [mcCache EXCEPT ![list] = [read |-> TRUE, rows |-> mcReads[list].rows]]
        /\ McCommitted(mcDialog, [mcReads EXCEPT ![list] = Resting])
  BY DEF McArrives
<1>3. mcReads = [l \in Lists |-> mcReads[l]] /\ mcCache = [l \in Lists |-> mcCache[l]]
  BY DEF CatalogInv, ListsSound
<1>4. PICK rows : rows = mcReads[list].rows
  OBVIOUS
<1>5. /\ mcCache' = [l \in Lists |-> mcCache'[l]]
      /\ mcCache'[list] = [read |-> TRUE, rows |-> rows]
      /\ \A l \in Lists : l # list => mcCache'[l] = mcCache[l]
  BY <1>2, <1>3, <1>4
<1>6. /\ mcReads' = [l \in Lists |-> mcReads'[l]]
      /\ mcReads'[list] = Resting
      /\ \A l \in Lists : l # list => mcReads'[l] \in {mcReads[l], Resting}
  BY <1>2, <1>3, Committed
<1>7. ReadSound(list)
  BY DEF CatalogInv, ListsSound
<1>8. Aware(list, rows)'
  BY <1>1, <1>2, <1>4, <1>7, AwareStays DEF ReadSound
<1>9. CacheSound(list)'
  <2>1. RowsIn(list, rows)'
    BY <1>8 DEF Aware
  <2>2. mcCache'[list].read = TRUE /\ mcCache'[list].rows = rows
    BY <1>5
  <2> QED BY <1>5, <1>8, <2>1, <2>2 DEF CacheSound
<1>10. ASSUME NEW l \in Lists, l # list
       PROVE  CacheSound(l)' /\ ReadSound(l)'
  <2>1. CacheSound(l) /\ ReadSound(l)
    BY DEF CatalogInv, ListsSound
  <2>2. CacheSound(l)'
    BY <1>1, <1>5, <1>10, <2>1, BornStays, AwareStays DEF CacheSound
  <2>3. Listed(l)' = Listed(l) /\ \A x, id : Knows(x, id)' <=> Knows(x, id)
    BY <1>1, <1>5, <1>10 DEF Listed, Knows
  <2>4. CASE mcReads'[l] = mcReads[l]
    BY <1>1, <2>1, <2>2, <2>3, <2>4, AwareStays DEF ReadSound
  <2>5. CASE mcReads'[l] = Resting
    BY <2>2, <2>5 DEF ReadSound, Resting
  <2> QED BY <1>6, <1>10, <2>4, <2>5
<1>11. ReadSound(list)'
  BY <1>6 DEF ReadSound, Resting
<1>12. ListsSound'
  BY <1>5, <1>6, <1>9, <1>10, <1>11 DEF ListsSound
<1> QED BY <1>1, <1>12, ListsAlone

-----------------------------------------------------------------------------
(* A change w is confirmed: what was saved is what was asked for.            *)
Confirms(w) == [Saved(w) EXCEPT !.ver = IF w.kind = "delete" THEN 0 ELSE @]

LEMMA SavedIs ==
  ASSUME CatalogInv, NEW w \in mcWrites, w.at = "served"
  PROVE  /\ Row(Saved(w)) /\ Saved(w).of = w.of
         /\ Saved(w).id = IF w.kind = "create" THEN w.key ELSE w.id
         /\ Outlived(Saved(w), w.kind = "delete")
<1>1. Write(w) /\ Running(w)
  BY DEF CatalogInv, WritesSound, Write, Running
<1>2. PICK done : done = CHOOSE d \in Answered(w) : TRUE
  OBVIOUS
<1>3. done \in mcStored /\ done.key = w.key /\ Saved(w) = done.row
  BY <1>1, <1>2 DEF Write, Answered, Saved
<1>4. UseOf(w) \in KeyUses /\ UseOf(w).what = What(w) /\ UseOf(w).key = w.key
  BY <1>1, KeyUsesAre DEF UseOf
<1>5. Does(done, What(w))
  BY <1>3, <1>4 DEF CatalogInv, DoneAsAsked
<1>6. Stored(done)
  BY <1>3 DEF CatalogInv, StoredSound
<1> QED BY <1>3, <1>5, <1>6 DEF Stored, Does, What

LEMMA ConfirmsIs ==
  ASSUME NEW w, Row(Saved(w))
  PROVE  /\ Confirms(w) = [id |-> Saved(w).id, of |-> Saved(w).of, ver |-> Confirms(w).ver]
         /\ Confirms(w).id = Saved(w).id /\ Confirms(w).of = Saved(w).of
         /\ Confirms(w).ver = IF w.kind = "delete" THEN 0 ELSE Saved(w).ver
BY DEF Row, Confirms

(* The lists, with the saved row s of w and the confirmation c of it.        *)
ConfirmsWith(w, s, c) ==
  /\ UNCHANGED <<mcServer, mcStored>>
  /\ Row(s) /\ s.of = w.of /\ s = Saved(w)
  /\ s.id = IF w.kind = "create" THEN w.key ELSE w.id
  /\ Outlived(s, w.kind = "delete")
  /\ c = [id |-> c.id, of |-> c.of, ver |-> c.ver] /\ c.id = s.id /\ c.of = s.of
  /\ c.ver = IF w.kind = "delete" THEN 0 ELSE s.ver
  /\ mcConfirmed' = {x \in mcConfirmed : x.id # s.id} \cup {c}
  /\ w \in mcWrites /\ mcWrites' = (mcWrites \ {w}) \cup {WithAnswer(w, "settling")}
  /\ SameWrites

LEMMA AwareElsewhere ==
  ASSUME NEW w, NEW s, NEW c, ConfirmsWith(w, s, c), NEW list, list # w.of,
         NEW rows, Aware(list, rows)
  PROVE  Aware(list, rows)'
BY BornStays DEF Aware, ConfirmsWith, KnowsChange, Existing, Knows, SameWrites

(* The rows of the list that the change is put into.                         *)
With(w, s, rows) ==
  IF w.kind = "create" THEN WithCreated(rows, s)
  ELSE IF s.id \notin Ids(rows) THEN rows
  ELSE {r \in rows : r.id # s.id} \cup (IF w.kind = "delete" THEN {} ELSE {s})

LEMMA WithIs ==
  ASSUME NEW w, NEW s, NEW rows
  PROVE  /\ \A r \in rows : r.id # s.id => r \in With(w, s, rows)
         /\ \A r \in With(w, s, rows) : r.id # s.id => r \in rows
         /\ \A r \in With(w, s, rows) : r = s \/ r \in rows
         /\ w.kind # "delete" /\ (s.id \in Ids(rows) \/ w.kind = "create") => s \in With(w, s, rows)
         /\ w.kind = "delete" => s.id \notin Ids(With(w, s, rows))
BY DEF With, WithCreated, Ids

LEMMA AwareHere ==
  ASSUME NEW w, NEW s, NEW c, ConfirmsWith(w, s, c), NEW rows, Aware(w.of, rows)
  PROVE  Aware(w.of, With(w, s, rows))'
<1>1. PICK new : new = With(w, s, rows)
  OBVIOUS
<1>2. /\ \A r \in rows : r.id # s.id => r \in new
      /\ \A r \in new : r.id # s.id => r \in rows
      /\ \A r \in new : r = s \/ r \in rows
      /\ w.kind # "delete" /\ (s.id \in Ids(rows) \/ w.kind = "create") => s \in new
      /\ w.kind = "delete" => s.id \notin Ids(new)
  BY <1>1, WithIs
<1>3. RowsIn(w.of, new)'
  BY <1>2, BornStays DEF Aware, ConfirmsWith, RowsIn
<1>4. ASSUME w.kind # "create" PROVE Knows(rows, s.id)
  BY <1>4 DEF Aware, ConfirmsWith
<1>5. KnowsChange(new, c)'
  <2>1. CASE w.kind = "delete"
    BY <1>2, <2>1 DEF KnowsChange, ConfirmsWith
  <2>2. CASE w.kind # "delete"
    BY <1>2, <1>4, <2>2 DEF Existing, Knows, ConfirmsWith, Row, KnowsChange
  <2> QED BY <2>1, <2>2
<1>6. ASSUME NEW x \in mcConfirmed, x.of = w.of, x.id # s.id
      PROVE  KnowsChange(new, x)'
  <2>1. KnowsChange(rows, x)
    BY <1>6 DEF Aware
  <2>2. Existing(x.id)' = Existing(x.id)
    BY DEF Existing, ConfirmsWith
  <2> QED BY <1>2, <1>6, <2>1, <2>2 DEF KnowsChange, Ids
<1>7. ASSUME NEW u \in mcWrites, u.kind # "create", u.of = w.of
      PROVE  Knows(new, u.id)'
  BY <1>7, <1>2 DEF Aware, ConfirmsWith, Knows, Ids, Outlived
<1>8. \A u \in mcWrites' : u.kind # "create" /\ u.of = w.of => Knows(new, u.id)'
  BY <1>7 DEF ConfirmsWith, SameWrites
<1>9. \A x \in mcConfirmed' : x.of = w.of => KnowsChange(new, x)'
  BY <1>5, <1>6 DEF ConfirmsWith
<1>10. Aware(w.of, new)'
  BY <1>3, <1>8, <1>9 DEF Aware
<1>11. With(w, s, rows)' = new
  BY <1>1 DEF With, WithCreated, Ids
<1> QED BY <1>10, <1>11

(* What the lists are given: in those of the row, the change; in others,     *)
(* nothing, for a row keeps its list.                                        *)
LEMMA PatchedIs ==
  ASSUME CatalogInv, NEW w, NEW s, NEW c, ConfirmsWith(w, s, c), NEW list \in Lists,
         w.kind # "create" => Born(w.id, w.of)
  PROVE  /\ list # w.of => Patched(w, list) = mcCache[list]
         /\ list = w.of => /\ Patched(w, list).read = mcCache[list].read
                           /\ mcCache[list].read =>
                                Patched(w, list).rows = With(w, s, mcCache[list].rows)
                           /\ ~mcCache[list].read => Patched(w, list) = mcCache[list]
                           /\ Patched(w, list) =
                                [read |-> Patched(w, list).read, rows |-> Patched(w, list).rows]
<1>1. PICK cell : cell = mcCache[list]
  OBVIOUS
<1>2. cell = [read |-> cell.read, rows |-> cell.rows] /\ cell.read \in BOOLEAN
      /\ RowsIn(list, cell.rows)
  BY <1>1 DEF CatalogInv, ListsSound, CacheSound
<1>3. s = Saved(w)
  BY DEF ConfirmsWith
<1>4. CASE ~cell.read
  <2>1. Patched(w, list) = cell
    BY <1>1, <1>4 DEF Patched
  <2> QED BY <1>1, <1>2, <1>4, <2>1
<1>5. CASE cell.read /\ w.kind = "create"
  <2>1. CASE list # w.of
    BY <1>1, <1>5, <2>1 DEF Patched
  <2>2. CASE list = w.of
    BY <1>2, <1>1, <1>3, <1>5, <2>2 DEF Patched, With
  <2> QED BY <2>1, <2>2
<1>6. CASE cell.read /\ w.kind # "create"
  <2>1. PICK new : new = [cell EXCEPT !.rows = WithChanged(@, w)]
    OBVIOUS
  <2>2. /\ new = [read |-> new.read, rows |-> new.rows] /\ new.read = cell.read
        /\ new.rows = WithChanged(cell.rows, w)
    BY <1>2, <2>1
  <2>3. Patched(w, list) = new
    BY <1>1, <1>6, <2>1 DEF Patched
  <2>4. WithChanged(cell.rows, w) = With(w, s, cell.rows)
    BY <1>3, <1>6 DEF WithChanged, With
  <2>5. CASE list = w.of
    BY <1>1, <1>6, <2>2, <2>3, <2>4, <2>5
  <2>6. CASE list # w.of
    <3>1. s.id \notin Ids(cell.rows)
      BY <1>2, <1>6, <2>6 DEF ConfirmsWith, RowsIn, Row, Ids, Born, OneHome, CatalogInv
    <3>2. new.rows = cell.rows
      BY <1>3, <2>2, <3>1 DEF WithChanged
    <3> QED BY <1>1, <1>2, <2>2, <2>3, <2>6, <3>2
  <2> QED BY <2>5, <2>6
<1> QED BY <1>2, <1>4, <1>5, <1>6

LEMMA CellSound ==
  ASSUME NEW list, NEW cell, NEW read, NEW rows, mcCache'[list] = cell,
         cell = [read |-> read, rows |-> rows], read \in BOOLEAN, RowsIn(list, rows)',
         read => Aware(list, rows)'
  PROVE  CacheSound(list)'
<1>1. cell.read = read /\ cell.rows = rows
  OBVIOUS
<1> QED BY <1>1 DEF CacheSound

LEMMA ConfirmedLists ==
  ASSUME CatalogInv, NEW w, NEW s, NEW c, ConfirmsWith(w, s, c), w.of \in Lists,
         w.kind # "create" => Born(w.id, w.of),
         mcCache' = [list \in Lists |-> Patched(w, list)],
         NEW dialog, McCommitted(dialog, [list \in Lists |-> Reread(w, list)])
  PROVE  ListsSound'
<1>1. \A list \in Lists : mcCache'[list] = Patched(w, list)
  OBVIOUS
<1>2. /\ mcReads' = [list \in Lists |-> mcReads'[list]]
      /\ \A list \in Lists : mcReads'[list] \in {Reread(w, list), Resting}
  BY Committed
<1>3. \A list, rows : RowsIn(list, rows)' <=> RowsIn(list, rows)
  BY BornStays DEF ConfirmsWith
<1>4. ASSUME NEW list \in Lists, list # w.of
      PROVE  CacheSound(list)' /\ ReadSound(list)'
  <2>1. mcCache'[list] = mcCache[list]
    BY <1>1, <1>4, PatchedIs
  <2>2. CacheSound(list) /\ ReadSound(list)
    BY DEF CatalogInv, ListsSound
  <2>3. PICK cell, read : cell = mcCache[list] /\ read = mcReads[list]
    OBVIOUS
  <2>4. CacheSound(list)'
    BY <1>3, <1>4, <2>1, <2>2, <2>3, AwareElsewhere DEF CacheSound
  <2>5. mcReads'[list] = read \/ mcReads'[list].at # "served"
    BY <1>2, <2>3 DEF Reread, McAsked, Resting
  <2>6. Listed(list)' = Listed(list) /\ \A x, id : Knows(x, id)' <=> Knows(x, id)
    BY <2>1 DEF Listed, Knows, ConfirmsWith
  <2>7. CASE mcReads'[list] = read
    BY <1>4, <2>2, <2>3, <2>4, <2>6, <2>7, AwareElsewhere DEF ReadSound
  <2>8. CASE mcReads'[list].at # "served"
    BY <2>4, <2>8 DEF ReadSound
  <2> QED BY <2>5, <2>7, <2>8
<1>5. CacheSound(w.of)'
  <2>1. PICK cell : cell = mcCache[w.of]
    OBVIOUS
  <2>2. PICK new : new = mcCache'[w.of]
    OBVIOUS
  <2>3. /\ cell = [read |-> cell.read, rows |-> cell.rows] /\ cell.read \in BOOLEAN
        /\ RowsIn(w.of, cell.rows)
        /\ cell.read => Aware(w.of, cell.rows)
    BY <2>1 DEF CatalogInv, ListsSound, CacheSound
  <2>4. CASE ~cell.read
    <3>1. new = cell
      BY <1>1, <2>1, <2>2, <2>4, PatchedIs
    <3> QED BY <1>3, <2>2, <2>3, <2>4, <3>1, CellSound
  <2>5. CASE cell.read
    <3>1. PICK rows : rows = With(w, s, cell.rows)
      OBVIOUS
    <3>2. new = Patched(w, w.of)
      BY <1>1, <2>2
    <3>3. /\ Patched(w, w.of).read = mcCache[w.of].read
          /\ mcCache[w.of].read => Patched(w, w.of).rows = With(w, s, mcCache[w.of].rows)
          /\ Patched(w, w.of) =
               [read |-> Patched(w, w.of).read, rows |-> Patched(w, w.of).rows]
      BY PatchedIs
    <3>4. With(w, s, cell.rows)' = rows
      BY <3>1 DEF With, WithCreated, Ids
    <3>5. Aware(w.of, rows)'
      BY <2>3, <2>5, <3>4, AwareHere
    <3>6. RowsIn(w.of, rows)'
      BY <3>5 DEF Aware
    <3>7. new = [read |-> cell.read, rows |-> rows]
      BY <2>1, <2>5, <3>1, <3>2, <3>3
    <3> QED BY <2>2, <2>3, <3>5, <3>6, <3>7, CellSound
  <2> QED BY <2>4, <2>5
<1>6. ReadSound(w.of)'
  <2>1. w.of \in SameResource(w)
    BY DEF SameResource
  <2> QED BY <1>2, <2>1 DEF ReadSound, Reread, McAsked, Resting
<1> QED BY <1>2, <1>4, <1>5, <1>6 DEF ListsSound

LEMMA ChangeConfirmedInv ==
  ASSUME CatalogInv, ChangeConfirmed
  PROVE  CatalogInv'
<1>1. PICK w \in mcWrites :
        /\ w.at = "served"
        /\ mcWrites' = (mcWrites \ {w}) \cup {WithAnswer(w, "settling")}
        /\ mcHeld' = {held \in mcHeld : held.what # What(w)}
        /\ mcCache' = [list \in Lists |-> Patched(w, list)]
        /\ mcConfirmed' = {c \in mcConfirmed : c.id # Saved(w).id} \cup {Confirms(w)}
        /\ UNCHANGED <<mcServer, mcStored, mcDrawn>>
        /\ McCommitted(mcDialog, [list \in Lists |-> Reread(w, list)])
  BY Zenon DEF ChangeConfirmed, Confirms, WithAnswer, mcserver
<1>2. Write(w) /\ Shaped(w) /\ Running(w)
  BY <1>1 DEF CatalogInv, WritesSound, Write, Shaped, Running
<1>3. PICK v : v = WithAnswer(w, "settling")
  OBVIOUS
<1>4. /\ Shaped(v) /\ v.at = "settling" /\ v.kind = w.kind /\ v.of = w.of /\ v.id = w.id
      /\ UseOf(v) = UseOf(w) /\ Running(v)
  BY <1>2, <1>3, AnswerShape DEF Running
<1>5. mcWrites' = (mcWrites \ {w}) \cup {v}
  BY <1>1, <1>3
<1>6. SameWrites
  BY <1>4, <1>5 DEF SameWrites
<1>7. PICK s, c : s = Saved(w) /\ c = Confirms(w)
  OBVIOUS
<1>8. /\ Row(s) /\ s.of = w.of /\ Outlived(s, w.kind = "delete")
      /\ s.id = IF w.kind = "create" THEN w.key ELSE w.id
  BY <1>1, <1>7, SavedIs
<1>9. /\ c = [id |-> s.id, of |-> s.of, ver |-> c.ver] /\ c.id = s.id /\ c.of = s.of
      /\ c.ver = IF w.kind = "delete" THEN 0 ELSE s.ver
  BY <1>7, <1>8, ConfirmsIs
<1>10. mcConfirmed' = {x \in mcConfirmed : x.id # s.id} \cup {c}
  BY <1>1, <1>7
<1>11. ConfirmsWith(w, s, c)
  BY <1>1, <1>6, <1>7, <1>8, <1>9, <1>10 DEF ConfirmsWith
<1>12. ListsSound'
  BY <1>1, <1>2, <1>11, ConfirmedLists DEF Write
<1>13. OneHome' /\ ServerSound' /\ StoredSound'
  BY <1>1, ServerStays DEF CatalogInv
<1>14. ConfirmedSound'
  BY <1>1, BornStays, <1>2, <1>8, <1>9, <1>10
  DEF Confirmation, Outlived, Row, Write, CatalogInv, ConfirmedSound
<1>15. mcHeld' \subseteq mcHeld /\ KeyUses' \subseteq KeyUses
  BY <1>1, <1>2, <1>4, <1>5, KeyUsesAre
<1>16. KeysDrawn' /\ OneChange' /\ OneKey' /\ DoneAsAsked'
  BY <1>1, <1>15 DEF CatalogInv, KeysDrawn, OneChange, OneKey, DoneAsAsked, DrawnKeys
<1>17. OneCreation'
  BY <1>2, <1>4, <1>5 DEF CatalogInv, WritesSound, OneCreation
<1>18. ASSUME NEW u \in mcWrites, u # w
       PROVE  Write(u)'
  <2>1. Write(u)
    BY DEF CatalogInv, WritesSound
  <2>2. ASSUME u.kind = "create", u.at \in {"sent", "served", "failed"}
        PROVE  What(u) # What(w)
    <3>1. Running(u)
      BY <2>2 DEF Running
    <3>2. What(u).kind = u.kind /\ What(w).kind = w.kind /\ What(u).of = u.of /\ What(w).of = w.of
      BY DEF What
    <3> QED BY <1>2, <1>18, <2>2, <3>1, <3>2 DEF CatalogInv, WritesSound, OneCreation
  <2>3. UseOf(u).what = What(u)
    BY DEF UseOf
  <2>4. u.kind = "create" /\ u.at \in {"sent", "served", "failed"} =>
          [what |-> What(u), key |-> u.key] \in mcHeld'
    BY <1>1, <2>1, <2>2, <2>3 DEF Write, UseOf
  <2> QED BY <1>1, <2>1, <2>4, BornStays DEF Write, What, Running, Answered
<1>19. Write(v)'
  BY <1>1, <1>2, <1>4, BornStays DEF Write, Shaped
<1>20. WritesSound'
  BY <1>5, <1>17, <1>18, <1>19 DEF WritesSound
<1>21. RepeatsFound'
  BY <1>9, <1>10, <1>1, <1>2, <1>8, BornStays
  DEF Ids, CreationOf, What, Write, UseOf, CatalogInv, OneKey, RepeatsFound
<1> QED BY <1>12, <1>13, <1>14, <1>16, <1>20, <1>21 DEF CatalogInv

-----------------------------------------------------------------------------
LEMMA CatalogStarts ==
  ASSUME McInit
  PROVE  CatalogInv
<1>1. /\ mcStored = {} /\ mcWrites = {} /\ mcHeld = {} /\ mcDrawn = 0 /\ mcConfirmed = {}
      /\ mcServer = FirstRows
      /\ mcCache = [list \in Lists |-> Unread] /\ mcReads = [list \in Lists |-> Resting]
  BY DEF McInit, FirstRows
<1>2. Origins = FirstRows
  BY <1>1 DEF Origins, Creations
<1>3. OneHome
  BY <1>2, McAssumption DEF OneHome, FirstRows
<1>4. ASSUME NEW row \in FirstRows
      PROVE  Row(row)
  <2>1. row = [id |-> row.id, of |-> row.of, ver |-> row.ver] /\ row.ver = 1
    BY DEF FirstRows
  <2>2. Born(row.id, row.of)
    BY <1>2 DEF Born
  <2> QED BY <2>1, <2>2 DEF Row
<1>5. ServerSound
  BY <1>1, <1>4 DEF ServerSound
<1>6. KeyUses = {}
  BY <1>1 DEF KeyUses
<1>7. KeysDrawn /\ OneChange /\ OneKey /\ DoneAsAsked
  BY <1>1, <1>6, McAssumption DEF KeysDrawn, OneChange, OneKey, DoneAsAsked
<1>8. StoredSound /\ ConfirmedSound /\ WritesSound /\ RepeatsFound
  BY <1>1 DEF StoredSound, ConfirmedSound, WritesSound, OneCreation, RepeatsFound, Creations
<1>9. ListsSound
  <2>1. ASSUME NEW list \in Lists
        PROVE  CacheSound(list) /\ ReadSound(list)
    BY <1>1 DEF Unread, Resting, RowsIn, CacheSound, ReadSound
  <2> QED BY <1>1, <2>1 DEF ListsSound
<1> QED BY <1>3, <1>5, <1>7, <1>8, <1>9 DEF CatalogInv

LEMMA CatalogGoesOn ==
  ASSUME CatalogInv, [McNext]_mcvars
  PROVE  CatalogInv'
<1>1. CASE \E list \in Lists : SubmitCreate(list) \/ SubmitEdit(list)
  BY <1>1, SubmitCreateInv, SubmitEditInv
<1>2. CASE RunCreate \/ ServeWrite \/ WriteNeverArrives \/ ChangeConfirmed
  BY <1>2, RunCreateInv, ServeWriteInv, ChangeConfirmedInv
<1>3. CASE McServe \/ McArrives \/ OthersChangeMasters
  BY <1>3, McServeInv, McArrivesInv, OthersChangeMastersInv
<1>4. CASE \/ CloseDialog \/ ChangeEnds \/ ChangeFails \/ SelectTitle \/ ChooseTab \/ LeaveMasters
           \/ LoseAdmin \/ PausePermission \/ PermissionReturns \/ ReadLists \/ McReadFails
           \/ UNCHANGED mcvars
  BY <1>4, QuietSteps
<1> QED BY <1>1, <1>2, <1>3, <1>4 DEF McNext

(* Two creations of a list that are not confirmed are one: both their keys   *)
(* are held, for the same change.                                            *)
LEMMA UnconfirmedIsOne ==
  ASSUME CatalogInv, NEW done \in Creations, NEW other \in Creations, done.row.of = other.row.of,
         done.key \notin Ids(mcConfirmed), other.key \notin Ids(mcConfirmed)
  PROVE  done = other
BY DEF CatalogInv, RepeatsFound, CreationOf, OneKey, StoredSound, Creations

LEMMA IInvShows ==
  ASSUME CatalogInv
  PROVE  ConfirmedRowsStay
<1>1. ConfirmedMastersStay
  <2> SUFFICES ASSUME NEW c \in mcConfirmed, mcCache[c.of].read
               PROVE  KnowsChange(mcCache[c.of].rows, c)
    BY DEF ConfirmedMastersStay, KnowsChange, Listed
  <2>1. c.of \in Lists
    BY DEF CatalogInv, ConfirmedSound, Confirmation
  <2> QED BY <2>1 DEF CatalogInv, ListsSound, CacheSound, Aware
<1>2. RepeatsRegisterOnce
  <2> SUFFICES ASSUME NEW list \in Lists
               PROVE  Cardinality({done \in mcStored : done.kind = "create" /\ done.row.of = list
                                     /\ done.key \notin Ids(mcConfirmed)}) <= 1
    BY DEF RepeatsRegisterOnce
  <2> DEFINE Open == {done \in mcStored : done.kind = "create" /\ done.row.of = list
                        /\ done.key \notin Ids(mcConfirmed)}
  <2>1. \A done, other \in Open : done = other
    BY UnconfirmedIsOne DEF Creations
  <2>2. CASE Open = {}
    BY <2>2, FS_EmptySet
  <2>3. CASE Open # {}
    <3>1. PICK done : Open = {done}
      BY <2>1, <2>3
    <3>2. Cardinality(Open) = 1
      BY <3>1, FS_Singleton
    <3> QED BY <3>2
  <2> QED BY <2>2, <2>3
<1>3. EditsRegisteredRows
  <2> SUFFICES ASSUME NEW w \in mcWrites, w.kind # "create"
               PROVE  w.id \in ToSet(McTitles) \cup Ids(McRows) \cup {done.key : done \in mcStored}
    BY DEF EditsRegisteredRows
  <2>1. PICK row \in Origins : row.id = w.id
    BY DEF CatalogInv, WritesSound, Write, Born
  <2>2. CASE row \in FirstRows
    BY <2>1, <2>2 DEF FirstRows, Ids
  <2>3. CASE row \in {done.row : done \in Creations}
    BY <2>1, <2>3 DEF Creations, CatalogInv, StoredSound, Stored
  <2> QED BY <2>1, <2>2, <2>3 DEF Origins
<1> QED BY <1>1, <1>2, <1>3 DEF ConfirmedRowsStay

(* A confirmed creation, edit or deletion is in every list that is loaded    *)
(* from then on, a creation that is repeated after lost answers and lost     *)
(* permissions registers one row, and only registered rows are edited.       *)
THEOREM ConfirmedStay == McSpec => []ConfirmedRowsStay
<1>1. McInit => CatalogInv
  BY CatalogStarts
<1>2. CatalogInv /\ [McNext]_mcvars => CatalogInv'
  BY CatalogGoesOn
<1>3. CatalogInv => ConfirmedRowsStay
  BY IInvShows
<1> QED BY <1>1, <1>2, <1>3, PTL DEF McSpec

-----------------------------------------------------------------------------
(***************************************************************************)
(* RadarEditing: what is applied from the confirmation are the boundaries  *)
(* on the screen.                                                          *)
(***************************************************************************)

(* A candidate keeps its boundaries for life, so every state that was read   *)
(* agrees with the server on the candidates it knows.                        *)
Fields(state) ==
     state = [current |-> state.current, previous |-> state.previous, made |-> state.made,
              cand |-> state.cand, calculated |-> state.calculated, value |-> state.value,
              status |-> state.status, origin |-> state.origin, preview |-> state.preview,
              op |-> state.op, applications |-> state.applications]
RadarShaped(state) ==
  /\ Fields(state)
  /\ state.value = [i \in {0} \cup RadarIds |-> state.value[i]]
  /\ state.made \in 0..RdCandidates /\ state.cand \in 0..state.made
Holds(cand, value) == cand \in 1..rdServer.made /\ rdServer.value[cand] = value
WasRead(state) ==
  /\ state.made \in 0..rdServer.made /\ state.cand \in 0..state.made
  /\ \A i \in 1..state.made : state.value[i] = rdServer.value[i]

(* What was saved under a candidate are its boundaries, in the edit and in   *)
(* every acceptance of a save that is still to be adopted or replayed.       *)
SavedIsHeld == rdEdit.saved.cand # 0 => Holds(rdEdit.saved.cand, rdEdit.saved.value)
SaveIsHeld(request, cand) == request.kind = "manual" => Holds(cand, request.value)
AnswersHeld ==
  /\ rdCall.stage = "accepted" => SaveIsHeld(rdCall.request, rdCall.cand)
  /\ rdCommand.outcome = "accepted" => SaveIsHeld(rdCommand.request, rdCommand.cand)
  /\ \A a \in rdAnswered : SaveIsHeld(a.request, a.cand)

EditShaped(edit) ==
  edit = [on |-> edit.on, source |-> edit.source, draft |-> edit.draft, saved |-> edit.saved,
          prepared |-> edit.prepared, confirmed |-> edit.confirmed, preview |-> edit.preview,
          changed |-> edit.changed]

(* The command on its way, or of unknown outcome; while there is one the     *)
(* edit does not change, and an application is of what the edit shows.       *)
Kinds == {"manual", "candidate", "restore", "preview", "retry", "apply", "withdraw"}
Uncertain == CommandPending \/ CommunicationUnknown
ShowsRequest == rdCommand.request.kind = "apply" =>
  rdEdit.on /\ Holds(rdCommand.request.cand, rdEdit.draft)
CallShaped ==
  /\ rdCall = [stage |-> rdCall.stage, purpose |-> rdCall.purpose, request |-> rdCall.request,
               cand |-> rdCall.cand]
  /\ rdCommand = [request |-> rdCommand.request, outcome |-> rdCommand.outcome,
                  cand |-> rdCommand.cand]
CommandSound ==
  /\ CallShaped /\ rdCall.stage \in {"idle", "sent", "accepted", "refused"}
  /\ CommandPending => rdCommand.outcome = "none" /\ rdCommand.request = rdCall.request
  /\ Uncertain => rdCommand.request.kind \in Kinds /\ ShowsRequest

RadarInv == /\ RadarShaped(rdServer) /\ WasRead(rdView) /\ WasRead(rdRead.state)
        /\ EditShaped(rdEdit) /\ SavedIsHeld /\ AnswersHeld /\ CommandSound
-----------------------------------------------------------------------------
(* What no step does to a candidate: rewrite its boundaries.                 *)
Later == /\ rdServer'.made \in Nat /\ rdServer.made <= rdServer'.made
         /\ \A i \in 1..rdServer.made : rdServer'.value[i] = rdServer.value[i]

LEMMA HoldsLater ==
  ASSUME Later, rdServer.made \in Nat
  PROVE  /\ \A cand, value : Holds(cand, value) => Holds(cand, value)'
         /\ \A state : WasRead(state) => WasRead(state)'
<1>1. \A cand, value : Holds(cand, value) => Holds(cand, value)'
  BY DEF Later, Holds
<1>2. ASSUME NEW state, WasRead(state)
      PROVE  WasRead(state)'
  BY <1>2 DEF Later, WasRead
<1> QED BY <1>1, <1>2

LEMMA SameServer ==
  ASSUME UNCHANGED rdServer
  PROVE  /\ \A cand, value : Holds(cand, value)' <=> Holds(cand, value)
         /\ \A state : WasRead(state)' <=> WasRead(state)
         /\ \A request, cand : SaveIsHeld(request, cand)' <=> SaveIsHeld(request, cand)
BY DEF Holds, WasRead, SaveIsHeld

(* Drawing changes of an edit only what it is compared with.                 *)
LEMMA Rendered ==
  ASSUME NEW edit, NEW dialog, NEW view, NEW preview, NEW allowed, EditShaped(edit),
         RenderRadar(edit, dialog, view, preview, allowed)
  PROVE  /\ EditShaped(rdEdit)'
         /\ rdEdit'.on = edit.on /\ rdEdit'.draft = edit.draft /\ rdEdit'.saved = edit.saved
BY DEF RenderRadar, EditShaped, ReconcileComparison

-----------------------------------------------------------------------------
(* What the API does to a state.                                             *)
SameCandidates(old, new) == new.made = old.made /\ new.cand = old.cand /\ new.value = old.value
NewCandidate(old, new, value) ==
  /\ new.made = old.made + 1 /\ new.cand = new.made /\ new.value[new.made] = value
  /\ \A i \in 1..old.made : new.value[i] = old.value[i]

LEMMA WithdrawnKeeps ==
  ASSUME NEW state, RadarShaped(state), NEW cand
  PROVE  RadarShaped(RadarWithdrawn(state, cand)) /\ SameCandidates(state, RadarWithdrawn(state, cand))
<1>1. PICK status, op, preview : RadarWithdrawn(state, cand)
        = [state EXCEPT !.status = status, !.op = op, !.preview = preview]
  BY DEF RadarWithdrawn, RadarShaped, Fields
<1>2. PICK new : new = [state EXCEPT !.status = status, !.op = op, !.preview = preview]
  OBVIOUS
<1>3. RadarShaped(new) /\ SameCandidates(state, new)
  BY <1>2 DEF RadarShaped, Fields, SameCandidates
<1> QED BY <1>1, <1>2, <1>3

LEMMA PreparedKeeps ==
  ASSUME NEW state, RadarShaped(state), NEW kind, NEW cand
  PROVE  /\ RadarShaped(RadarPrepared(state, kind, cand))
         /\ SameCandidates(state, RadarPrepared(state, kind, cand))
BY DEF RadarPrepared, RadarShaped, Fields, SameCandidates

LEMMA CandidateAdded ==
  ASSUME NEW state, RadarShaped(state), state.made < RdCandidates, NEW kind, NEW value, NEW origin
  PROVE  /\ RadarShaped(WithCandidate(state, kind, value, origin))
         /\ NewCandidate(state, WithCandidate(state, kind, value, origin), value)
<1>1. PICK id : id = state.made + 1
  OBVIOUS
<1>2. PICK base : base = RadarPrepared(state, kind, id)
  OBVIOUS
<1>3. RadarShaped(base) /\ SameCandidates(state, base)
  BY <1>2, PreparedKeeps
<1>4. PICK values : values = [base.value EXCEPT ![id] = value]
  OBVIOUS
<1>5. PICK status, origins, preview : WithCandidate(state, kind, value, origin)
        = [base EXCEPT !.made = id, !.cand = id, !.value = values, !.status = status,
                       !.origin = origins, !.preview = preview]
  BY <1>1, <1>2, <1>3, <1>4 DEF WithCandidate, RadarShaped, Fields
<1>6. PICK new : new = [base EXCEPT !.made = id, !.cand = id, !.value = values, !.status = status,
                                    !.origin = origins, !.preview = preview]
  OBVIOUS
<1>7. id \in 1..RdCandidates /\ id \in RadarIds
  BY <1>1, RadarAssumption DEF RadarShaped, RadarIds
<1>8. /\ values = [i \in {0} \cup RadarIds |-> values[i]] /\ values[id] = value
      /\ \A i \in 1..state.made : values[i] = state.value[i]
  BY SMTT(20), <1>1, <1>3, <1>4, <1>7, RadarAssumption DEF RadarShaped, SameCandidates, RadarIds
<1>9. new.made = id /\ new.cand = id /\ new.value = values
  BY <1>3, <1>6 DEF RadarShaped, Fields
<1>10. Fields(new)
  BY <1>3, <1>6 DEF RadarShaped, Fields
<1>11. RadarShaped(new)
  BY <1>7, <1>8, <1>9, <1>10, RadarAssumption DEF RadarShaped
<1> QED BY <1>1, <1>5, <1>6, <1>8, <1>9, <1>11 DEF NewCandidate

LEMMA AfterIs ==
  ASSUME NEW state, RadarShaped(state), NEW request, request.kind \in Kinds, NEW by,
         state.made < RdCandidates \/ request.kind \notin {"manual", "candidate", "restore"}
  PROVE  /\ RadarShaped(RadarAfter(state, request, by))
         /\ request.kind = "manual" =>
              NewCandidate(state, RadarAfter(state, request, by), request.value)
         /\ \/ SameCandidates(state, RadarAfter(state, request, by))
            \/ \E value : NewCandidate(state, RadarAfter(state, request, by), value)
<1>1. CASE request.kind = "manual"
  BY WithdrawnKeeps, <1>1, CandidateAdded DEF SameCandidates, RadarAfter, NewCandidate
<1>2. CASE request.kind \in {"candidate", "restore"}
  <2>1. PICK value, origin :
          RadarAfter(state, request, by) = WithCandidate(state, request.kind, value, origin)
    BY <1>2 DEF RadarAfter
  <2> QED BY <1>2, <2>1, CandidateAdded
<1>3. CASE request.kind \in {"preview", "retry"}
  <2>1. PICK kind : RadarAfter(state, request, by) = RadarPrepared(state, kind, request.cand)
    BY <1>3 DEF RadarAfter
  <2> QED BY <1>3, <2>1, PreparedKeeps
<1>4. CASE request.kind = "apply"
  <2>1. PICK base, used : /\ base = RadarPrepared(state, "apply", request.cand)
                          /\ used = base.applications \cup {request.cand}
    OBVIOUS
  <2>2. RadarShaped(base) /\ SameCandidates(state, base)
    BY <2>1, PreparedKeeps
  <2>3. PICK new : new = [base EXCEPT !.applications = used]
    OBVIOUS
  <2>4. RadarShaped(new) /\ SameCandidates(state, new)
    BY <2>2, <2>3 DEF RadarShaped, Fields, SameCandidates
  <2>5. RadarAfter(state, request, by) = new
    BY <1>4, <2>1, <2>2, <2>3 DEF RadarAfter, RadarShaped, Fields
  <2> QED BY <1>4, <2>4, <2>5
<1>5. CASE request.kind = "withdraw"
  <2>1. RadarAfter(state, request, by) = RadarWithdrawn(state, request.cand)
    BY <1>5 DEF RadarAfter
  <2> QED BY <1>5, <2>1, WithdrawnKeeps
<1> QED BY <1>1, <1>2, <1>3, <1>4, <1>5 DEF Kinds

-----------------------------------------------------------------------------
(* The edits that are opened, confirmed and left.                            *)
LEMMA NoEdit == EditShaped(NoRadarEdit) /\ NoRadarEdit.saved.cand = 0
BY DEF EditShaped, NoRadarEdit, NoRadarSaved

LEMMA OpenedIs ==
  ASSUME NEW source
  PROVE  /\ EditShaped(RadarOpened(source))
         /\ RadarOpened(source).saved = IF source.saved = 0 THEN NoRadarSaved
                                        ELSE [cand |-> source.saved, value |-> source.value]
<1>1. PICK saved : saved = IF source.saved = 0 THEN NoRadarSaved
                           ELSE [cand |-> source.saved, value |-> source.value]
  OBVIOUS
<1>2. PICK edit : edit = [NoRadarEdit EXCEPT !.on = TRUE, !.source = source, !.draft = source.value,
                                             !.saved = saved]
  OBVIOUS
<1>3. EditShaped(edit) /\ edit.saved = saved
  BY <1>2, NoEdit DEF EditShaped
<1> QED BY <1>1, <1>2, <1>3 DEF RadarOpened

(* A source is the current boundaries, or a candidate that was read.         *)
LEMMA OpenedIsHeld ==
  ASSUME NEW source, RadarShaped(rdServer), WasRead(rdView),
         source.saved # 0 => /\ source.saved = rdView.cand
                             /\ source.value = rdView.value[rdView.cand],
         NEW saved, saved = RadarOpened(source).saved, saved.cand # 0
  PROVE  Holds(saved.cand, saved.value)
<1>1. saved = IF source.saved = 0 THEN NoRadarSaved
              ELSE [cand |-> source.saved, value |-> source.value]
  BY OpenedIs, Zenon
<1>2. saved.cand = rdView.cand /\ saved.value = rdView.value[rdView.cand]
  BY <1>1 DEF NoRadarSaved
<1>3. rdView.cand \in 1..rdView.made /\ rdView.made \in 0..rdServer.made /\ rdServer.made \in Nat
  BY <1>2, RadarAssumption DEF WasRead, RadarShaped
<1>4. rdView.cand \in 1..rdServer.made
  BY <1>3
<1> QED BY <1>2, <1>3, <1>4 DEF WasRead, Holds

(* What stays when parts of the state do.                                    *)
LEMMA SavedStays ==
  ASSUME UNCHANGED rdServer, SavedIsHeld, rdEdit'.saved = rdEdit.saved
  PROVE  SavedIsHeld'
BY SameServer DEF SavedIsHeld

LEMMA CommandStays ==
  ASSUME RadarInv, UNCHANGED <<rdServer, rdCall, rdCommand, rdAnswered>>,
         ~Uncertain \/ (rdEdit'.on = rdEdit.on /\ rdEdit'.draft = rdEdit.draft)
  PROVE  AnswersHeld' /\ CommandSound'
BY SameServer
DEF RadarInv, AnswersHeld, Uncertain, CommandPending, CommunicationUnknown, CommandSound,
    ShowsRequest, CallShaped

LEMMA ReadsStay ==
  ASSUME RadarInv, UNCHANGED <<rdServer, rdView, rdRead>>
  PROVE  RadarShaped(rdServer)' /\ WasRead(rdView)' /\ WasRead(rdRead.state)'
BY SameServer DEF RadarInv, RadarShaped, Fields, WasRead

LEMMA EditStep ==
  ASSUME RadarInv, UNCHANGED <<rdServer, rdView, rdRead, rdCall, rdCommand, rdAnswered>>,
         EditShaped(rdEdit)', SavedIsHeld',
         ~Uncertain \/ (rdEdit'.on = rdEdit.on /\ rdEdit'.draft = rdEdit.draft)
  PROVE  RadarInv'
BY ReadsStay, CommandStays DEF RadarInv

LEMMA EditingInv ==
  ASSUME RadarInv,
         \/ BeginRadarEdit \/ AutoEdit \/ ChangeThreshold \/ ResetThresholds \/ AdoptSource
         \/ CloseRadarConfirmation
  PROVE  RadarInv'
<1>1. UNCHANGED <<rdServer, rdView, rdRead, rdCall, rdCommand, rdAnswered>>
  BY DEF BeginRadarEdit, AutoEdit, ChangeThreshold, ResetThresholds, AdoptSource,
         CloseRadarConfirmation, RadarKept
<1>2. RadarShaped(rdServer) /\ WasRead(rdView) /\ EditShaped(rdEdit) /\ SavedIsHeld
  BY DEF RadarInv
<1>3. ASSUME ~SaveDisabled
      PROVE  ~Uncertain
  BY <1>3 DEF SaveDisabled, OperationReason, BusyReason, Uncertain
<1>4. ASSUME ~EditorDisabled
      PROVE  ~Uncertain
  BY <1>4 DEF EditorDisabled, Uncertain
<1>5. ASSUME NEW source,
             source.saved # 0 => /\ source.saved = rdView.cand
                                 /\ source.value = rdView.value[rdView.cand],
             RenderRadar(RadarOpened(source), RadarDialogClosed, rdView, rdPreview, rdAllowed),
             ~Uncertain
      PROVE  RadarInv'
  <2>1. EditShaped(rdEdit)' /\ rdEdit'.saved = RadarOpened(source).saved
    BY <1>5, OpenedIs, Rendered
  <2>2. SavedIsHeld'
    <3>1. PICK saved : saved = RadarOpened(source).saved
      OBVIOUS
    <3>2. saved.cand # 0 => Holds(saved.cand, saved.value)
      BY <1>2, <1>5, <3>1, OpenedIsHeld
    <3> QED BY <1>1, <2>1, <3>1, <3>2, SameServer DEF SavedIsHeld
  <2> QED BY <1>1, <1>5, <2>1, <2>2, EditStep
<1>6. CASE BeginRadarEdit
  BY <1>6, <1>3, <1>5 DEF BeginRadarEdit, CurrentSource, CandidateSource
<1>7. CASE AutoEdit
  BY <1>7, <1>3, <1>5 DEF CandidateSource, AutoEdit
<1>8. CASE ChangeThreshold
  BY <1>8, <1>2, <1>1, <1>4, SavedStays, EditStep DEF ChangeThreshold, EditShaped
<1>9. CASE ResetThresholds
  BY <1>9, <1>2, <1>1, <1>4, SavedStays, EditStep DEF ResetThresholds, EditShaped
<1>10. CASE AdoptSource
  BY <1>10, <1>2, <1>1, <1>4, EditStep DEF AdoptSource, EditShaped, SavedIsHeld, NoRadarSaved
<1>11. CASE CloseRadarConfirmation
  <2>1. rdEdit' = rdEdit
    BY <1>11 DEF CloseRadarConfirmation
  <2> QED BY <1>1, <1>2, <2>1, SavedStays, EditStep DEF EditShaped
<1> QED BY <1>6, <1>7, <1>8, <1>9, <1>10, <1>11

-----------------------------------------------------------------------------
(* The commands that are sent.                                               *)
LEMMA SendInv ==
  ASSUME RadarInv, NEW purpose, NEW request, SendRadar(purpose, request), UNCHANGED rdEdit,
         request.kind \in Kinds,
         request.kind = "apply" => rdEdit.on /\ Holds(request.cand, rdEdit.draft)
  PROVE  RadarInv'
<1>1. /\ rdCall' = [NoRadarCall EXCEPT !.stage = "sent", !.purpose = purpose, !.request = request]
      /\ rdCommand' = [NothingCommanded EXCEPT !.request = request]
      /\ UNCHANGED <<rdServer, rdView, rdRead, rdAnswered>>
  BY DEF SendRadar
<1>2. /\ rdCall'.stage = "sent" /\ rdCall'.request = request
      /\ rdCommand'.outcome = "none" /\ rdCommand'.request = request
  BY <1>1 DEF NoRadarCall, NothingCommanded
<1>3. AnswersHeld'
  BY <1>1, <1>2, SameServer DEF RadarInv, AnswersHeld
<1>4. ShowsRequest'
  BY <1>1, <1>2, SameServer DEF ShowsRequest
<1>5. CommandSound'
  <2>1. CallShaped'
    BY <1>1 DEF CallShaped, NoRadarCall, NothingCommanded
  <2> QED BY <1>2, <1>4, <2>1 DEF CommandSound, CommandPending
<1>6. SavedIsHeld' /\ EditShaped(rdEdit)'
  BY <1>1, SavedStays DEF RadarInv, EditShaped
<1> QED BY <1>1, <1>3, <1>5, <1>6, ReadsStay DEF RadarInv

LEMMA CommandKinds ==
  /\ NoRadarCommand.kind = "none"
  /\ \A edit : RadarSaveRequest(edit).kind = "manual"
  /\ \A target : /\ RadarApplyRequest(target).kind = "apply"
                 /\ RadarApplyRequest(target).cand = target.cand
  /\ \A edit : RadarDiscardRequest(edit).kind = "withdraw"
  /\ \A kind, cand, current :
       [NoRadarCommand EXCEPT !.kind = kind, !.cand = cand, !.current = current].kind = kind
  /\ \A kind, cand : [NoRadarCommand EXCEPT !.kind = kind, !.cand = cand].kind = kind
BY DEF NoRadarCommand, RadarSaveRequest, RadarApplyRequest, RadarDiscardRequest

(* The confirmation applies the saved candidate, which is what is entered.   *)
LEMMA ConfirmApplyInv ==
  ASSUME RadarInv, ConfirmApply
  PROVE  RadarInv'
<1>1. /\ rdEdit.on /\ rdDialog.target # NoRadarTarget /\ ~ApplyDisabled /\ ~ConfirmationChanged
      /\ CanApply(rdEdit, rdView, rdPreview, rdAllowed)
      /\ SendRadar("apply", RadarApplyRequest(rdDialog.target)) /\ UNCHANGED rdEdit
  BY DEF ConfirmApply, RadarDialogShown, ConfirmDisabled
<1>2. MatchesSaved(rdEdit, rdView)
  <2>1. FormalComparison(rdEdit, rdView, rdPreview) # 0
    BY <1>1 DEF CanApply
  <2> QED BY <2>1 DEF FormalComparison
<1>3. rdView.cand # 0 /\ rdView.status[rdView.cand] = "ready"
  BY <1>1 DEF ApplyDisabled
<1>4. LiveCandidate(rdView) = rdView.cand
  BY <1>3 DEF LiveCandidate, RadarLive
<1>5. rdDialog.target = CurrentTarget(rdView)
  BY <1>1 DEF ConfirmationChanged
<1>6. rdDialog.target.cand = rdView.cand
  BY <1>1, <1>5 DEF CurrentTarget
<1>7. rdEdit.saved.cand = rdView.cand /\ rdEdit.draft = rdEdit.saved.value
  BY <1>2, <1>4 DEF MatchesSaved
<1>8. Holds(rdDialog.target.cand, rdEdit.draft)
  BY <1>3, <1>6, <1>7 DEF RadarInv, SavedIsHeld
<1>9. PICK request : request = RadarApplyRequest(rdDialog.target)
  OBVIOUS
<1>10. request.kind = "apply" /\ request.cand = rdDialog.target.cand
  BY <1>9, CommandKinds
<1> QED BY <1>1, <1>8, <1>9, <1>10, SendInv DEF Kinds

(* An edit that only waits for a comparison.                                 *)
Compared(edit) == [edit EXCEPT !.source.expected = edit.saved.cand, !.confirmed = TRUE,
                               !.preview = 0, !.changed = FALSE]
LEMMA ComparedIs ==
  ASSUME NEW edit, EditShaped(edit)
  PROVE  /\ EditShaped(Compared(edit))
         /\ Compared(edit).on = edit.on /\ Compared(edit).draft = edit.draft
         /\ Compared(edit).saved = edit.saved
<1>1. PICK source : Compared(edit) = [edit EXCEPT !.source = source, !.confirmed = TRUE,
                                                  !.preview = 0, !.changed = FALSE]
  BY DEF Compared, EditShaped
<1>2. PICK new : new = [edit EXCEPT !.source = source, !.confirmed = TRUE,
                                    !.preview = 0, !.changed = FALSE]
  OBVIOUS
<1>3. EditShaped(new) /\ new.on = edit.on /\ new.draft = edit.draft /\ new.saved = edit.saved
  BY <1>2 DEF EditShaped
<1> QED BY <1>1, <1>2, <1>3

LEMMA RequestApplyInv ==
  ASSUME RadarInv, RequestApply
  PROVE  RadarInv'
<1>1. EditShaped(rdEdit) /\ SavedIsHeld
  BY DEF RadarInv
<1>2. CASE CanApply(rdEdit, rdView, rdPreview, rdAllowed)
  <2>1. UNCHANGED <<rdServer, rdView, rdRead, rdCall, rdCommand, rdAnswered, rdEdit>>
    BY <1>2 DEF RequestApply, RadarKept
  <2> QED BY <1>1, <2>1, SavedStays, EditStep DEF EditShaped
<1>3. CASE /\ ~CanApply(rdEdit, rdView, rdPreview, rdAllowed)
           /\ rdEdit.saved.cand # 0 /\ rdEdit.draft = rdEdit.saved.value
           /\ PreviewState(rdView, rdPreview) = "ready"
  <2>1. /\ RenderRadar(Compared(rdEdit), [open |-> TRUE, target |-> NoRadarTarget],
                       rdView, rdPreview, rdAllowed)
        /\ UNCHANGED <<rdServer, rdView, rdRead, rdCall, rdCommand, rdAnswered>>
    BY <1>3 DEF RequestApply, Compared, RadarKept
  <2>2. /\ EditShaped(rdEdit)'
        /\ rdEdit'.on = rdEdit.on /\ rdEdit'.draft = rdEdit.draft /\ rdEdit'.saved = rdEdit.saved
    BY <1>1, <2>1, ComparedIs, Rendered
  <2> QED BY <1>1, <2>1, <2>2, SavedStays, EditStep
<1>4. CASE /\ ~CanApply(rdEdit, rdView, rdPreview, rdAllowed)
           /\ rdEdit.saved.cand # 0 /\ rdEdit.draft = rdEdit.saved.value
           /\ PreviewState(rdView, rdPreview) # "ready"
  <2>1. PICK cand : SendRadar("prepare", [NoRadarCommand EXCEPT !.kind = "preview", !.cand = cand])
                    /\ UNCHANGED rdEdit
    BY <1>4, Zenon DEF RequestApply
  <2>2. PICK request : request = [NoRadarCommand EXCEPT !.kind = "preview", !.cand = cand]
    OBVIOUS
  <2>3. request.kind = "preview"
    BY <2>2, CommandKinds
  <2> QED BY <2>1, <2>2, <2>3, SendInv DEF Kinds
<1>5. CASE /\ ~CanApply(rdEdit, rdView, rdPreview, rdAllowed)
           /\ ~(rdEdit.saved.cand # 0 /\ rdEdit.draft = rdEdit.saved.value)
  BY <1>5, CommandKinds, SendInv DEF RequestApply, Kinds
<1> QED BY <1>2, <1>3, <1>4, <1>5

LEMMA OtherCommandsInv ==
  ASSUME RadarInv, DiscardRadarEdit \/ PanelCommand \/ CheckOperation
  PROVE  RadarInv'
<1>1. CASE DiscardRadarEdit /\ rdEdit.prepared = 0
  BY <1>1, NoEdit, EditStep DEF DiscardRadarEdit, RadarKept, Uncertain, EditShaped, SavedIsHeld
<1>2. CASE DiscardRadarEdit /\ rdEdit.prepared # 0
  BY <1>2, CommandKinds, SendInv DEF DiscardRadarEdit, Kinds
<1>3. CASE PanelCommand
  <2>1. PICK kind \in {"candidate", "restore", "withdraw", "retry"} :
          /\ SendRadar("panel", [NoRadarCommand EXCEPT !.kind = kind,
               !.cand = IF kind \in {"withdraw", "retry"} THEN rdView.cand ELSE 0,
               !.current = IF kind = "restore" THEN rdView.current ELSE 0])
          /\ UNCHANGED rdEdit
    BY <1>3, Zenon DEF PanelCommand
  <2>2. PICK request : request = [NoRadarCommand EXCEPT !.kind = kind,
               !.cand = IF kind \in {"withdraw", "retry"} THEN rdView.cand ELSE 0,
               !.current = IF kind = "restore" THEN rdView.current ELSE 0]
    OBVIOUS
  <2>3. request.kind = kind
    BY <2>2, CommandKinds
  <2> QED BY <2>1, <2>2, <2>3, SendInv DEF Kinds
<1>4. CASE CheckOperation
  <2>1. CommunicationUnknown /\ SendRadar("check", rdCommand.request) /\ UNCHANGED rdEdit
    BY <1>4 DEF CheckOperation
  <2>2. rdCommand.request.kind \in Kinds /\ ShowsRequest
    BY <2>1 DEF RadarInv, CommandSound, Uncertain
  <2> QED BY <2>1, <2>2, SendInv DEF ShowsRequest
<1> QED BY <1>1, <1>2, <1>3, <1>4

-----------------------------------------------------------------------------
(* Answers.  When one is adopted nothing is uncertain any more.              *)
LEMMA AdoptedIs ==
  ASSUME RadarInv, UNCHANGED rdServer, NEW request, NEW cand, NEW allowed, SaveIsHeld(request, cand),
         AdoptAcceptance(request, cand, allowed)
  PROVE  WasRead(rdRead.state)' /\ EditShaped(rdEdit)' /\ SavedIsHeld'
<1>1. EditShaped(rdEdit) /\ SavedIsHeld /\ WasRead(rdView) /\ WasRead(rdRead.state)
  BY DEF RadarInv
<1>2. CASE ~allowed
  BY <1>2, <1>1, Rendered, SavedStays DEF AdoptAcceptance, WasRead
<1>3. CASE allowed
  <2>1. PICK ends, saves, edit, dialog :
          /\ saves => request.kind = "manual"
          /\ edit = IF ends THEN NoRadarEdit
                    ELSE IF saves THEN AcceptSaveReceipt(rdEdit, request, cand) ELSE rdEdit
          /\ rdRead' = RadarReadAgain
          /\ RenderRadar(edit, dialog, rdView, rdPreview, allowed)
    BY <1>3 DEF AdoptAcceptance
  <2>2. WasRead(rdRead.state)'
    <3>1. rdRead'.state = rdView
      BY <2>1 DEF RadarReadAgain
    <3> QED BY <1>1, <3>1 DEF WasRead
  <2>3. EditShaped(edit) /\ (edit.saved.cand # 0 => Holds(edit.saved.cand, edit.saved.value))
    <3>1. CASE edit = NoRadarEdit
      BY <3>1, NoEdit
    <3>2. CASE edit = rdEdit
      BY <1>1, <3>2 DEF SavedIsHeld
    <3>3. CASE saves /\ edit = ConfirmSaved(rdEdit, request, cand, cand)
      <4>1. PICK source, saved : /\ saved = [cand |-> cand, value |-> request.value]
                                 /\ edit = [rdEdit EXCEPT !.source = source, !.saved = saved,
                                     !.prepared = cand, !.confirmed = TRUE, !.preview = 0,
                                     !.changed = FALSE]
        BY <1>1, <3>3 DEF ConfirmSaved, EditShaped
      <4>2. EditShaped(edit) /\ edit.saved = saved
        BY <1>1, <4>1 DEF EditShaped
      <4>3. Holds(cand, request.value)
        BY <2>1, <3>3 DEF SaveIsHeld
      <4> QED BY <4>1, <4>2, <4>3
    <3> QED BY <2>1, <3>1, <3>2, <3>3 DEF AcceptSaveReceipt
  <2>4. EditShaped(rdEdit)' /\ rdEdit'.saved = edit.saved
    BY <2>1, <2>3, Rendered
  <2>5. SavedIsHeld'
    BY <2>3, <2>4, SameServer DEF SavedIsHeld
  <2> QED BY <2>2, <2>4, <2>5
<1> QED BY <1>2, <1>3

LEMMA RadarAcceptedInv ==
  ASSUME RadarInv, RadarAccepted
  PROVE  RadarInv'
<1>1. /\ rdCall.stage = "accepted" /\ UNCHANGED <<rdServer, rdView>>
      /\ rdCommand' = IF rdAllowed THEN NothingCommanded
                      ELSE [rdCommand EXCEPT !.outcome = "accepted", !.cand = rdCall.cand]
      /\ rdAnswered' = {} /\ rdCall' = NoRadarCall
  BY DEF RadarAccepted
<1>2. EditShaped(rdEdit) /\ SavedIsHeld /\ WasRead(rdView) /\ SaveIsHeld(rdCall.request, rdCall.cand)
      /\ rdCommand.request = rdCall.request
  BY <1>1 DEF RadarInv, AnswersHeld, CommandSound, CommandPending
<1>3. WasRead(rdRead.state)' /\ EditShaped(rdEdit)' /\ SavedIsHeld'
  <2>1. CASE rdAllowed /\ rdCall.purpose = "discard"
    <3>1. rdRead' = RadarReadAgain /\ rdEdit' = NoRadarEdit
      BY <2>1 DEF RadarAccepted
    <3>2. rdRead'.state = rdView
      BY <3>1 DEF RadarReadAgain
    <3> QED BY <1>1, <1>2, <3>1, <3>2, NoEdit DEF WasRead, EditShaped, SavedIsHeld
  <2>2. CASE ~(rdAllowed /\ rdCall.purpose = "discard")
             /\ rdAllowed /\ rdCall.purpose = "prepare" /\ rdCall.request.kind = "preview"
    <3>1. /\ rdRead' = RadarReadAgain
          /\ RenderRadar([rdEdit EXCEPT !.source.expected = rdEdit.saved.cand,
                            !.confirmed = TRUE, !.preview = 0, !.changed = FALSE],
                         rdDialog, rdView, rdPreview, rdAllowed)
      BY <2>2, Zenon DEF RadarAccepted
    <3>2. RenderRadar(Compared(rdEdit), rdDialog, rdView, rdPreview, rdAllowed)
      BY <3>1 DEF Compared
    <3>3. EditShaped(rdEdit)' /\ rdEdit'.saved = rdEdit.saved
      BY <1>2, <3>2, ComparedIs, Rendered
    <3>4. rdRead'.state = rdView
      BY <3>1 DEF RadarReadAgain
    <3> QED BY <1>1, <1>2, <3>3, <3>4, SavedStays DEF WasRead
  <2>3. CASE ~(rdAllowed /\ rdCall.purpose = "discard")
             /\ ~(rdAllowed /\ rdCall.purpose = "prepare" /\ rdCall.request.kind = "preview")
    <3>1. AdoptAcceptance(rdCall.request, rdCall.cand, rdAllowed)
      BY <2>3, Zenon DEF RadarAccepted
    <3> QED BY <1>1, <1>2, <3>1, AdoptedIs
  <2> QED BY <2>1, <2>2, <2>3
<1>4. WasRead(rdView)' /\ RadarShaped(rdServer)'
  BY <1>1 DEF RadarInv, WasRead, RadarShaped, Fields
<1>5. rdCall'.stage = "idle"
  BY <1>1 DEF NoRadarCall
<1>6. PICK command : command = rdCommand'
  OBVIOUS
<1>7. /\ command = [request |-> command.request, outcome |-> command.outcome, cand |-> command.cand]
      /\ command.outcome # "unknown"
      /\ command.outcome = "accepted" => SaveIsHeld(command.request, command.cand)
  <2>1. CASE rdAllowed
    BY <1>1, <1>6, <2>1 DEF NothingCommanded
  <2>2. CASE ~rdAllowed /\ rdCommand' = [rdCommand EXCEPT !.outcome = "accepted", !.cand = rdCall.cand]
    BY <1>6, <2>2, <1>2 DEF RadarInv, CommandSound, CallShaped
  <2> QED BY <1>1, <2>1, <2>2
<1>8. AnswersHeld'
  BY <1>1, <1>5, <1>6, <1>7, SameServer DEF AnswersHeld
<1>9. CallShaped'
  BY <1>1, <1>6, <1>7 DEF CallShaped, NoRadarCall
<1>10. CommandSound'
  BY <1>5, <1>6, <1>7, <1>9
     DEF CommandSound, Uncertain, CommandPending, CommunicationUnknown
<1> QED BY <1>3, <1>4, <1>8, <1>10 DEF RadarInv

LEMMA RadarRefusedInv ==
  ASSUME RadarInv, RadarRefused
  PROVE  RadarInv'
<1>1. /\ rdCall' = NoRadarCall /\ rdAnswered' = {} /\ rdServer' = rdServer
      /\ \/ /\ rdView' = rdServer /\ rdRead' = NothingReadYet(rdServer)
            /\ rdCommand' = NothingCommanded /\ rdEdit' = NoRadarEdit
         \/ /\ rdCommand' = [NothingCommanded EXCEPT !.outcome = "refused"]
            /\ UNCHANGED <<rdView, rdRead, rdEdit>>
  BY DEF RadarRefused
<1>2. /\ rdCall'.stage = "idle" /\ CallShaped' /\ rdCommand'.outcome \in {"none", "refused"}
  BY <1>1 DEF NoRadarCall, NothingCommanded, CallShaped
<1>3. AnswersHeld' /\ CommandSound'
  BY <1>1, <1>2 DEF AnswersHeld, CommandSound, Uncertain, CommandPending, CommunicationUnknown
<1>4. WasRead(rdServer) /\ WasRead(rdView) /\ WasRead(rdRead.state)
  BY SMTT(20), RadarAssumption DEF RadarInv, RadarShaped, WasRead
<1>5. NothingReadYet(rdServer).state = rdServer
  BY DEF NothingReadYet
<1>6. WasRead(rdView)' /\ WasRead(rdRead.state)' /\ RadarShaped(rdServer)'
  BY <1>1, <1>4, <1>5 DEF RadarInv, WasRead, RadarShaped, Fields
<1>7. EditShaped(rdEdit)' /\ SavedIsHeld'
  BY <1>1, NoEdit, SavedStays DEF RadarInv, EditShaped, SavedIsHeld
<1> QED BY <1>3, <1>6, <1>7 DEF RadarInv

LEMMA CommandLostInv ==
  ASSUME RadarInv, CommandLost
  PROVE  RadarInv'
BY SameServer, SavedStays, ReadsStay
DEF CommandLost, CommandPending, NoRadarCall, CallShaped, RadarInv, CommandSound, Uncertain,
    ShowsRequest, AnswersHeld, EditShaped

LEMMA PermissionInv ==
  ASSUME RadarInv, RecheckPermission \/ PermissionConfirmed
  PROVE  RadarInv'
<1>1. EditShaped(rdEdit) /\ SavedIsHeld
  BY DEF RadarInv
<1>2. CASE RecheckPermission
  <2>1. UNCHANGED <<rdServer, rdView, rdRead, rdCall, rdCommand, rdAnswered, rdEdit>>
    BY <1>2 DEF RecheckPermission
  <2> QED BY <1>1, <2>1, SavedStays, EditStep DEF EditShaped
<1>3. CASE PermissionConfirmed /\ rdCommand.outcome # "accepted"
  BY <1>3, <1>1, Rendered, SavedStays, EditStep DEF PermissionConfirmed
<1>4. CASE PermissionConfirmed /\ rdCommand.outcome = "accepted"
  <2>1. /\ rdCommand' = NothingCommanded /\ AdoptAcceptance(rdCommand.request, rdCommand.cand, TRUE)
        /\ UNCHANGED <<rdServer, rdView, rdCall, rdAnswered>>
    BY <1>4, Zenon DEF PermissionConfirmed
  <2>2. rdCall.stage = "idle" /\ CallShaped /\ SaveIsHeld(rdCommand.request, rdCommand.cand)
    BY <1>4 DEF RadarInv, CommandSound, CommandPending, AnswersHeld
  <2>3. WasRead(rdRead.state)' /\ EditShaped(rdEdit)' /\ SavedIsHeld'
    BY <2>1, <2>2, AdoptedIs
  <2>4. rdCommand'.outcome = "none" /\ CallShaped'
    BY <2>1, <2>2 DEF NothingCommanded, CallShaped
  <2>5. AnswersHeld' /\ CommandSound'
    BY <2>1, <2>2, <2>4, SameServer
       DEF RadarInv, AnswersHeld, CommandSound, Uncertain, CommandPending, CommunicationUnknown
  <2>6. WasRead(rdView)' /\ RadarShaped(rdServer)'
    BY <2>1 DEF RadarInv, WasRead, RadarShaped, Fields
  <2> QED BY <2>3, <2>5, <2>6 DEF RadarInv
<1> QED BY <1>2, <1>3, <1>4

-----------------------------------------------------------------------------
(* Reads: every state they bring was the server's.                           *)
LEMMA ReadsInv ==
  ASSUME RadarInv, RefreshRadar \/ ServeState \/ StateArrives \/ PreviewArrives
  PROVE  RadarInv'
<1>1. /\ EditShaped(rdEdit) /\ SavedIsHeld /\ WasRead(rdView) /\ WasRead(rdRead.state)
      /\ RadarShaped(rdServer)
  BY DEF RadarInv
<1>2. WasRead(rdServer)
  BY <1>1, RadarAssumption DEF RadarShaped, WasRead
<1>3. UNCHANGED rdServer => RadarShaped(rdServer)'
  BY <1>1 DEF RadarShaped, Fields
<1>4. CASE RefreshRadar \/ ServeState
  BY <1>4, <1>1, <1>2, SavedStays, <1>3, CommandStays
  DEF RefreshRadar, ServeState, RadarReadAgain, WasRead, EditShaped, RadarInv
<1>5. CASE PreviewArrives
  BY <1>5, <1>1, Rendered, SavedStays, EditStep DEF PreviewArrives
<1>6. CASE StateArrives
  <2>1. /\ rdView' = rdRead.state /\ rdRead' = NothingReadYet(rdRead.state)
        /\ rdCommand' = IF ConflictNeedsRefresh /\ ~CommandPending THEN NothingCommanded ELSE rdCommand
        /\ RenderRadar(rdEdit, rdDialog, rdRead.state, rdPreview, rdAllowed)
        /\ UNCHANGED <<rdServer, rdCall, rdAnswered>>
    BY <1>6, Zenon DEF StateArrives
  <2>2. rdRead'.state = rdRead.state
    BY <2>1 DEF NothingReadYet
  <2>3. WasRead(rdView)' /\ WasRead(rdRead.state)'
    BY <1>1, <2>1, <2>2 DEF WasRead
  <2>4. /\ EditShaped(rdEdit)'
        /\ rdEdit'.on = rdEdit.on /\ rdEdit'.draft = rdEdit.draft /\ rdEdit'.saved = rdEdit.saved
    BY <1>1, <2>1, Rendered
  <2>5. AnswersHeld' /\ CommandSound'
    <3>1. CASE rdCommand' = rdCommand
      BY <2>1, <2>4, <3>1, CommandStays
    <3>2. CASE rdCommand' = NothingCommanded /\ ~CommandPending
      <4>1. rdCommand'.outcome = "none" /\ rdCall.stage = "idle" /\ CallShaped'
        BY <2>1, <3>2 DEF NothingCommanded, CommandPending, CallShaped, RadarInv, CommandSound
      <4> QED BY <2>1, <4>1, SameServer
           DEF RadarInv, AnswersHeld, CommandSound, Uncertain, CommandPending, CommunicationUnknown
    <3> QED BY <2>1, <3>1, <3>2
  <2> QED BY <1>1, <1>3, <2>1, <2>3, <2>4, <2>5, SavedStays DEF RadarInv
<1> QED BY <1>4, <1>5, <1>6

(* The server: candidates are added and keep their boundaries.               *)
LEMMA LaterIs ==
  ASSUME RadarShaped(rdServer), RadarShaped(rdServer)',
         \/ SameCandidates(rdServer, rdServer')
         \/ \E value : NewCandidate(rdServer, rdServer', value)
  PROVE  Later /\ rdServer.made \in Nat
<1>1. rdServer.made \in Nat /\ rdServer'.made \in Nat
  BY RadarAssumption DEF RadarShaped
<1>2. CASE SameCandidates(rdServer, rdServer')
  BY <1>1, <1>2 DEF SameCandidates, Later
<1>3. ASSUME NEW value, NewCandidate(rdServer, rdServer', value)
      PROVE  Later
  BY <1>1, <1>3 DEF NewCandidate, Later
<1> QED BY <1>1, <1>2, <1>3

LEMMA HeldLater ==
  ASSUME RadarInv, Later, UNCHANGED <<rdView, rdRead, rdEdit, rdCommand>>
  PROVE  /\ WasRead(rdView)' /\ WasRead(rdRead.state)' /\ EditShaped(rdEdit)' /\ SavedIsHeld'
         /\ (ShowsRequest => ShowsRequest')
         /\ \A request, cand : SaveIsHeld(request, cand) => SaveIsHeld(request, cand)'
<1>1. rdServer.made \in Nat
  BY RadarAssumption DEF RadarInv, RadarShaped
<1>2. WasRead(rdView)' /\ WasRead(rdRead.state)'
  <2>1. PICK view, read : view = rdView /\ read = rdRead.state
    OBVIOUS
  <2>2. WasRead(view)' /\ WasRead(read)'
    BY <1>1, <2>1, HoldsLater DEF RadarInv
  <2> QED BY <2>1, <2>2 DEF WasRead
<1>3. EditShaped(rdEdit)' /\ SavedIsHeld'
  BY <1>1, HoldsLater DEF RadarInv, EditShaped, SavedIsHeld
<1> QED BY <1>1, <1>2, <1>3, HoldsLater DEF ShowsRequest, SaveIsHeld

LEMMA ServerStep ==
  ASSUME RadarInv, RadarShaped(rdServer)',
         \/ SameCandidates(rdServer, rdServer')
         \/ \E value : NewCandidate(rdServer, rdServer', value),
         UNCHANGED <<rdView, rdRead, rdEdit, rdCall, rdCommand, rdAnswered>>
  PROVE  RadarInv'
<1>1. Later
  BY LaterIs DEF RadarInv
<1>2. AnswersHeld'
  BY <1>1, HeldLater DEF RadarInv, AnswersHeld
<1>3. CommandSound'
  BY <1>1, HeldLater
     DEF RadarInv, CommandSound, CallShaped, Uncertain, CommandPending, CommunicationUnknown
<1> QED BY <1>1, <1>2, <1>3, HeldLater DEF RadarInv

LEMMA WorkerFinishesInv ==
  ASSUME RadarInv, WorkerFinishes
  PROVE  RadarInv'
<1>1. UNCHANGED <<rdView, rdRead, rdEdit, rdCall, rdCommand, rdAnswered>>
  BY DEF WorkerFinishes
<1>2. RadarShaped(rdServer)
  BY DEF RadarInv
<1>3. PICK previous, current, status, preview, calculated, op :
        rdServer' = [rdServer EXCEPT !.op = op, !.previous = previous, !.current = current,
                       !.status = status, !.preview = preview, !.calculated = calculated]
  <2>1. CASE rdServer.op.kind = "apply"
    <3>1. rdServer' =
            [rdServer EXCEPT !.op.status = "succeeded", !.previous = rdServer.current,
               !.current = rdServer.op.cand, !.status = [@ EXCEPT ![rdServer.op.cand] = "applied"],
               !.preview.status = "stale"]
      BY <2>1 DEF WorkerFinishes, RadarPublished
    <3>2. rdServer' =
            [rdServer EXCEPT !.op = [rdServer.op EXCEPT !.status = "succeeded"],
               !.previous = rdServer.current, !.current = rdServer.op.cand,
               !.status = [rdServer.status EXCEPT ![rdServer.op.cand] = "applied"],
               !.preview = [rdServer.preview EXCEPT !.status = "stale"],
               !.calculated = rdServer.calculated]
      BY <1>2, <3>1 DEF RadarShaped, Fields
    <3> QED BY <3>2
  <2>2. CASE rdServer.op.kind # "apply"
    <3>1. PICK calculated :
            rdServer' =
              [rdServer EXCEPT !.op.status = "succeeded",
                 !.status = [@ EXCEPT ![rdServer.op.cand] = "ready"],
                 !.preview = calculated, !.calculated = @ + 1]
      BY <2>2 DEF WorkerFinishes, RadarCompleted
    <3>2. rdServer' =
            [rdServer EXCEPT !.op = [rdServer.op EXCEPT !.status = "succeeded"],
               !.previous = rdServer.previous, !.current = rdServer.current,
               !.status = [rdServer.status EXCEPT ![rdServer.op.cand] = "ready"],
               !.preview = calculated, !.calculated = rdServer.calculated + 1]
      BY <1>2, <3>1 DEF RadarShaped, Fields
    <3> QED BY <3>2
  <2> QED BY <2>1, <2>2
<1>4. RadarShaped(rdServer)' /\ SameCandidates(rdServer, rdServer')
  BY <1>2, <1>3 DEF RadarShaped, Fields, SameCandidates
<1> QED BY <1>1, <1>4, ServerStep

LEMMA ElsewhereKeeps ==
  ASSUME RadarInv, RadarElsewhere
  PROVE  /\ RadarShaped(rdServer)'
         /\ \/ SameCandidates(rdServer, rdServer')
            \/ \E value : NewCandidate(rdServer, rdServer', value)
<1>1. RadarShaped(rdServer)
  BY DEF RadarInv
<1>2. ASSUME NEW op, NEW status, NEW preview,
             rdServer' = [rdServer EXCEPT !.op = op, !.status = status, !.preview = preview]
      PROVE  RadarShaped(rdServer)' /\ SameCandidates(rdServer, rdServer')
  BY <1>1, <1>2 DEF RadarShaped, Fields, SameCandidates
<1>3. CASE rdServer' = [rdServer EXCEPT !.op.status = "failed",
                          !.status = [@ EXCEPT ![rdServer.op.cand] = IF @ = "pending" THEN "failed" ELSE @]]
  <2>1. PICK op, status :
          rdServer' = [rdServer EXCEPT !.op = op, !.status = status]
    BY <1>3, Zenon
  <2>2. rdServer' = [rdServer EXCEPT !.op = op, !.status = status, !.preview = rdServer.preview]
    BY <1>1, <2>1 DEF RadarShaped, Fields
  <2> QED BY <1>2, <2>2
<1>4. CASE rdServer' = [rdServer EXCEPT !.preview.status = "stale"]
  <2>1. rdServer' = [rdServer EXCEPT !.op = rdServer.op, !.status = rdServer.status,
                       !.preview = [rdServer.preview EXCEPT !.status = "stale"]]
    BY <1>1, <1>4 DEF RadarShaped, Fields
  <2> QED BY <1>2, <2>1
<1>5. ASSUME NEW request, request.kind \in {"manual", "apply", "preview"},
             rdServer.made < RdCandidates \/ request.kind # "manual",
             rdServer' = RadarAfter(rdServer, request, "others")
      PROVE  /\ RadarShaped(rdServer)'
             /\ \/ SameCandidates(rdServer, rdServer')
                \/ \E value : NewCandidate(rdServer, rdServer', value)
  BY <1>1, <1>5, AfterIs DEF Kinds, RadarShaped, Fields
<1>6. CASE \E request \in
          {[RadarSaveRequest(RadarOpened(CurrentSource(rdServer))) EXCEPT !.value = v] : v \in RdValues}
          \cup {RadarApplyRequest(CurrentTarget(rdServer)),
                [NoRadarCommand EXCEPT !.kind = "preview", !.cand = rdServer.cand]} :
          /\ rdServer.made < RdCandidates \/ request.kind # "manual"
          /\ rdServer' = RadarAfter(rdServer, request, "others")
  <2>1. PICK request \in
          {[RadarSaveRequest(RadarOpened(CurrentSource(rdServer))) EXCEPT !.value = v] : v \in RdValues}
          \cup {RadarApplyRequest(CurrentTarget(rdServer)),
                [NoRadarCommand EXCEPT !.kind = "preview", !.cand = rdServer.cand]} :
          /\ rdServer.made < RdCandidates \/ request.kind # "manual"
          /\ rdServer' = RadarAfter(rdServer, request, "others")
    BY <1>6
  <2>2. request.kind \in {"manual", "apply", "preview"}
    <3>1. PICK save : save = RadarSaveRequest(RadarOpened(CurrentSource(rdServer)))
      OBVIOUS
    <3>2. save.kind = "manual" /\ \A v : [save EXCEPT !.value = v].kind = save.kind
      BY <3>1, CommandKinds
    <3>3. RadarApplyRequest(CurrentTarget(rdServer)).kind = "apply"
      BY CommandKinds
    <3>4. [NoRadarCommand EXCEPT !.kind = "preview", !.cand = rdServer.cand].kind = "preview"
      BY CommandKinds
    <3> QED BY <2>1, <3>1, <3>2, <3>3, <3>4
  <2> QED BY <1>5, <2>1, <2>2
<1>7. CASE rdServer' = RadarWithdrawn(rdServer, rdServer.cand)
  <2>1. PICK new : new = RadarWithdrawn(rdServer, rdServer.cand)
    OBVIOUS
  <2>2. RadarShaped(new) /\ SameCandidates(rdServer, new)
    BY <1>1, <2>1, WithdrawnKeeps
  <2> QED BY <1>7, <2>1, <2>2 DEF RadarShaped, Fields
<1> QED BY <1>3, <1>4, <1>5, <1>6, <1>7, Zenon DEF RadarElsewhere, RadarFailed

AcceptedHeld == rdCall.stage = "accepted" => SaveIsHeld(rdCall.request, rdCall.cand)
AnsweredHeld == \A a \in rdAnswered : SaveIsHeld(a.request, a.cand)

(* The command is answered, as before under its key or for the first time.   *)
LEMMA ServeRadarInv ==
  ASSUME RadarInv, ServeRadar
  PROVE  /\ RadarInv' /\ RadarShaped(rdServer)'
         /\ \/ SameCandidates(rdServer, rdServer')
            \/ \E value : NewCandidate(rdServer, rdServer', value)
<1>1. /\ rdCall.stage = "sent" /\ UNCHANGED <<rdView, rdRead, rdEdit, rdCommand>>
  BY DEF ServeRadar
<1>2. PICK request : request = rdCall.request
  OBVIOUS
<1>3. /\ RadarShaped(rdServer) /\ CallShaped /\ CommandPending /\ rdCommand.request = request
      /\ request.kind \in Kinds /\ ShowsRequest /\ rdCommand.outcome = "none"
  BY <1>1, <1>2 DEF RadarInv, CommandSound, CommandPending, Uncertain
<1>4. ASSUME CallShaped', rdCall'.request = request, rdCall'.stage \in {"accepted", "refused"},
             AcceptedHeld', AnsweredHeld', RadarShaped(rdServer)', Later
      PROVE  RadarInv'
  <2>1. ShowsRequest'
    BY <1>1, <1>3, <1>4, HeldLater
  <2>2. CommandSound'
    BY <1>1, <1>3, <1>4, <2>1 DEF CommandSound, CommandPending
  <2>3. AnswersHeld'
    BY <1>1, <1>3, <1>4 DEF AnswersHeld, AcceptedHeld, AnsweredHeld
  <2> QED BY <1>1, <1>4, <2>2, <2>3, HeldLater DEF RadarInv
<1>5. UNCHANGED rdServer => RadarShaped(rdServer)' /\ SameCandidates(rdServer, rdServer')
  BY <1>3 DEF RadarShaped, Fields, SameCandidates
<1>6. CASE {a \in rdAnswered : a.request = request} # {}
  BY <1>2, <1>6, SameServer, <1>5, <1>1, <1>3, LaterIs, <1>4
  DEF ServeRadar, RadarInv, AnswersHeld, AnsweredHeld, CallShaped, AcceptedHeld
<1>7. CASE {a \in rdAnswered : a.request = request} = {} /\ ~RadarAccepts(rdServer, request)
  BY <1>2, <1>7, <1>1, <1>3, SameServer, <1>5, LaterIs, <1>4
  DEF ServeRadar, CallShaped, RadarInv, AnswersHeld, AnsweredHeld, AcceptedHeld
<1>8. CASE {a \in rdAnswered : a.request = request} = {} /\ RadarAccepts(rdServer, request)
  <2>1. PICK new : new = RadarAfter(rdServer, request, "me")
    OBVIOUS
  <2>2. /\ rdServer.made < RdCandidates \/ request.kind \notin {"manual", "candidate", "restore"}
        /\ rdServer' = new
        /\ rdCall' = [rdCall EXCEPT !.stage = "accepted", !.cand = new.cand]
        /\ rdAnswered' = {[request |-> request, cand |-> new.cand]}
    BY <1>2, <1>8, <2>1 DEF ServeRadar
  <2>3. /\ RadarShaped(new) /\ (request.kind = "manual" => NewCandidate(rdServer, new, request.value))
        /\ SameCandidates(rdServer, new) \/ \E value : NewCandidate(rdServer, new, value)
    BY <1>3, <2>1, <2>2, AfterIs
  <2>4. RadarShaped(rdServer)'
    BY <2>2, <2>3 DEF RadarShaped, Fields
  <2>5. SaveIsHeld(request, new.cand)'
    BY <1>3, <2>2, <2>3, RadarAssumption DEF SaveIsHeld, Holds, NewCandidate, RadarShaped
  <2>6. AnsweredHeld'
    BY <2>2, <2>5 DEF AnsweredHeld
  <2>7. PICK cand : cand = new.cand
    OBVIOUS
  <2>8. SaveIsHeld(request, cand)'
    BY <2>5, <2>7
  <2>9. /\ CallShaped' /\ rdCall'.stage = "accepted" /\ rdCall'.request = request
        /\ rdCall'.cand = cand
    BY <1>1, <1>2, <1>3, <2>2, <2>7 DEF CallShaped
  <2>10. AcceptedHeld'
    BY <2>8, <2>9 DEF AcceptedHeld
  <2>11. SameCandidates(rdServer, rdServer') \/ \E value : NewCandidate(rdServer, rdServer', value)
    BY <2>2, <2>3
  <2>12. Later
    BY <1>3, <2>4, <2>11, LaterIs
  <2>13. RadarInv'
    BY <1>4, <2>4, <2>6, <2>9, <2>10, <2>12
  <2> QED BY <2>4, <2>11, <2>13
<1> QED BY <1>6, <1>7, <1>8

LEMMA RadarElsewhereInv ==
  ASSUME RadarInv, RadarElsewhere
  PROVE  RadarInv'
<1>1. UNCHANGED <<rdView, rdRead, rdEdit, rdCall, rdCommand, rdAnswered>>
  BY DEF RadarElsewhere
<1> QED BY <1>1, ElsewhereKeeps, ServerStep

LEMMA RadarStarts ==
  ASSUME RadarInit
  PROVE  RadarInv
<1>1. /\ rdServer = RadarStart /\ rdView = RadarStart /\ rdRead.state = RadarStart
      /\ rdEdit = NoRadarEdit /\ rdCall = NoRadarCall /\ rdCommand = NothingCommanded
      /\ rdAnswered = {}
  BY DEF RadarInit, NothingReadYet
<1>2. /\ RadarShaped(rdServer) /\ rdServer.made = 0 /\ rdServer.cand = 0
  BY <1>1, RadarAssumption DEF RadarStart, RadarShaped, Fields
<1>3. WasRead(rdView) /\ WasRead(rdRead.state)
  BY <1>1, <1>2 DEF WasRead
<1>4. EditShaped(rdEdit) /\ SavedIsHeld
  BY <1>1, NoEdit DEF SavedIsHeld
<1>5. /\ rdCall.stage = "idle" /\ rdCommand.outcome = "none" /\ CallShaped
  <2>1. PICK none : none = NoRadarCommand
    OBVIOUS
  <2> QED BY <1>1, <2>1 DEF NoRadarCall, NothingCommanded, CallShaped
<1>6. AnswersHeld
  BY <1>1, <1>5 DEF AnswersHeld
<1>7. CommandSound
  BY <1>5 DEF CommandSound, CommandPending, Uncertain, CommunicationUnknown
<1> QED BY <1>2, <1>3, <1>4, <1>6, <1>7 DEF RadarInv

LEMMA RadarGoesOn ==
  ASSUME RadarInv, [RadarNext]_rdvars
  PROVE  RadarInv'
<1>1. CASE UNCHANGED rdvars
  BY <1>1 DEF rdvars, RadarInv, RadarShaped, Fields, WasRead, EditShaped, SavedIsHeld, AnswersHeld,
     CommandSound, CallShaped, CommandPending, Uncertain, CommunicationUnknown, ShowsRequest,
     Holds, SaveIsHeld
<1>2. CASE \/ BeginRadarEdit \/ AutoEdit \/ ChangeThreshold \/ ResetThresholds \/ AdoptSource
           \/ CloseRadarConfirmation
  BY <1>2, EditingInv
<1>3. CASE RequestApply
  BY <1>3, RequestApplyInv
<1>4. CASE ConfirmApply
  BY <1>4, ConfirmApplyInv
<1>5. CASE DiscardRadarEdit \/ PanelCommand \/ CheckOperation
  BY <1>5, OtherCommandsInv
<1>6. CASE ServeRadar
  BY <1>6, ServeRadarInv
<1>7. CASE WorkerFinishes
  BY <1>7, WorkerFinishesInv
<1>8. CASE RadarElsewhere
  BY <1>8, RadarElsewhereInv
<1>9. CASE RadarAccepted
  BY <1>9, RadarAcceptedInv
<1>10. CASE RadarRefused
  BY <1>10, RadarRefusedInv
<1>11. CASE CommandLost
  BY <1>11, CommandLostInv
<1>12. CASE RecheckPermission \/ PermissionConfirmed
  BY <1>12, PermissionInv
<1>13. CASE RefreshRadar \/ ServeState \/ StateArrives \/ PreviewArrives
  BY <1>13, ReadsInv
<1> QED BY <1>1, <1>2, <1>3, <1>4, <1>5, <1>6, <1>7, <1>8, <1>9, <1>10, <1>11, <1>12, <1>13,
           Zenon DEF RadarNext

-----------------------------------------------------------------------------
(* Outside the API's answer no step but that of another administrator adds an *)
(* application.                                                              *)
Applied == rdServer'.applications # rdServer.applications /\ rdFaultsSoFar' = rdFaultsSoFar

LEMMA WorkerAppliesNothing ==
  ASSUME RadarInv, WorkerFinishes
  PROVE  ~Applied
<1>1. rdServer'.applications = rdServer.applications
  BY DEF WorkerFinishes, RadarPublished, RadarCompleted, RadarInv, RadarShaped, Fields
<1> QED BY <1>1 DEF Applied

Counted == rdFaultsSoFar \in Nat

LEMMA CountedStays ==
  ASSUME Counted, [RadarNext]_rdvars
  PROVE  Counted'
<1>1. CASE rdFaultsSoFar' = rdFaultsSoFar
  BY <1>1 DEF Counted
<1>2. CASE rdFaultsSoFar' = rdFaultsSoFar + 1
  BY <1>2 DEF Counted
<1>3. CASE UNCHANGED rdvars
  BY <1>1, <1>3 DEF rdvars
<1>4. CASE \/ BeginRadarEdit \/ AutoEdit \/ ChangeThreshold \/ ResetThresholds \/ AdoptSource
           \/ CloseRadarConfirmation
  BY <1>1, <1>4 DEF BeginRadarEdit, AutoEdit, ChangeThreshold, ResetThresholds, AdoptSource,
     CloseRadarConfirmation, RadarKept
<1>5. CASE RequestApply
  BY <1>1, <1>5 DEF RequestApply, RadarKept, SendRadar
<1>6. CASE ConfirmApply \/ DiscardRadarEdit \/ PanelCommand \/ CheckOperation
  BY <1>1, <1>6 DEF ConfirmApply, DiscardRadarEdit, PanelCommand, CheckOperation, RadarKept, SendRadar
<1>7. CASE ServeRadar \/ WorkerFinishes \/ RadarAccepted \/ RadarRefused \/ PermissionConfirmed
  BY <1>1, <1>7 DEF ServeRadar, WorkerFinishes, RadarAccepted, RadarRefused, PermissionConfirmed
<1>8. CASE RadarElsewhere \/ CommandLost \/ RecheckPermission
  BY <1>2, <1>8 DEF RadarElsewhere, CommandLost, RecheckPermission
<1>9. CASE RefreshRadar \/ ServeState \/ StateArrives \/ PreviewArrives
  BY <1>1, <1>9 DEF RefreshRadar, ServeState, StateArrives, PreviewArrives
<1> QED BY <1>3, <1>4, <1>5, <1>6, <1>7, <1>8, <1>9, Zenon DEF RadarNext

LEMMA OnlyServed ==
  ASSUME RadarInv, Counted, [RadarNext]_rdvars, Applied
  PROVE  ServeRadar
<1>1. ~UNCHANGED rdServer /\ rdFaultsSoFar' = rdFaultsSoFar
  BY DEF Applied
<1>2. ~UNCHANGED rdvars
  BY <1>1 DEF rdvars
<1>3. ~BeginRadarEdit /\ ~AutoEdit /\ ~ChangeThreshold /\ ~ResetThresholds /\ ~AdoptSource
      /\ ~CloseRadarConfirmation
  BY <1>1 DEF BeginRadarEdit, AutoEdit, ChangeThreshold, ResetThresholds, AdoptSource,
     CloseRadarConfirmation, RadarKept
<1>4. ~RequestApply
  BY <1>1 DEF RequestApply, RadarKept, SendRadar
<1>5. ~ConfirmApply /\ ~DiscardRadarEdit /\ ~PanelCommand /\ ~CheckOperation
  BY <1>1 DEF ConfirmApply, DiscardRadarEdit, PanelCommand, CheckOperation, RadarKept, SendRadar
<1>6. ~WorkerFinishes
  BY WorkerAppliesNothing
<1>7. ~RadarElsewhere
  <2>1. SUFFICES ASSUME RadarElsewhere PROVE FALSE
    OBVIOUS
  <2>2. rdFaultsSoFar' = rdFaultsSoFar + 1
    BY <2>1 DEF RadarElsewhere
  <2> QED BY <1>1, <2>2 DEF Counted
<1>8. ~RadarAccepted /\ ~RadarRefused /\ ~CommandLost /\ ~RecheckPermission /\ ~PermissionConfirmed
  BY <1>1 DEF RadarAccepted, RadarRefused, CommandLost, RecheckPermission, PermissionConfirmed
<1>9. ~RefreshRadar /\ ~ServeState /\ ~StateArrives /\ ~PreviewArrives
  BY <1>1 DEF RefreshRadar, ServeState, StateArrives, PreviewArrives
<1> QED BY <1>2, <1>3, <1>4, <1>5, <1>6, <1>7, <1>8, <1>9, Zenon DEF RadarNext

(* What the step that AppliesWhatIsShown speaks about does.                  *)
LEMMA AppliesStep ==
  ASSUME RadarInv, Counted, [RadarNext]_rdvars, rdCall.request.kind = "apply", Applied
  PROVE  rdEdit.on /\ rdServer'.value[rdCall.request.cand] = rdEdit.draft
BY OnlyServed, ServeRadarInv, LaterIs
DEF ServeRadar, RadarInv, CommandSound, CommandPending, Uncertain, ShowsRequest, Later, Holds

(* For any boundaries, any number of candidates and comparisons and any      *)
(* interruptions: an application that is accepted from the confirmation, or  *)
(* found accepted when its lost answer is looked up, is of the boundaries on *)
(* the screen.                                                               *)
THEOREM AppliedIsShown == RadarSpec => AppliesWhatIsShown
<1>1. RadarInit => RadarInv /\ Counted
  BY RadarStarts DEF RadarInit, Counted
<1>2. RadarInv /\ Counted /\ [RadarNext]_rdvars => RadarInv' /\ Counted'
  BY RadarGoesOn, CountedStays
<1>3. RadarInv /\ Counted /\ [RadarNext]_rdvars =>
        [rdCall.purpose \in {"apply", "check"} /\ rdCall.request.kind = "apply"
           /\ rdServer'.applications # rdServer.applications /\ rdFaultsSoFar' = rdFaultsSoFar
         => rdEdit.on /\ rdServer'.value[rdCall.request.cand] = rdEdit.draft]_rdvars
  BY AppliesStep DEF Applied
<1> QED BY <1>1, <1>2, <1>3, PTL DEF RadarSpec, AppliesWhatIsShown

-----------------------------------------------------------------------------
(***************************************************************************)
(* NotificationSettings: a save changes only the switches that were chosen, *)
(* and never one that others changed since it was shown.                   *)
(***************************************************************************)

(* The inductive invariant: settings that are held anywhere were once those *)
(* of the server, a draft differs from its base in the kinds that were      *)
(* switched, and a request names a generation it has seen for the others.   *)
SettingsShaped(settings) ==
  /\ settings = [kind \in NotificationKinds |-> settings[kind]]
  /\ \A kind \in NotificationKinds :
       /\ settings[kind] = [enabled |-> settings[kind].enabled,
                            generation |-> settings[kind].generation]
       /\ settings[kind].enabled \in BOOLEAN /\ settings[kind].generation \in Int
WasSetting(settings, stored, kind) ==
  /\ settings[kind].generation <= stored[kind].generation
  /\ settings[kind].generation = stored[kind].generation =>
       settings[kind].enabled = stored[kind].enabled
WereSettings(settings, stored) ==
  SettingsShaped(settings) /\ \A kind \in NotificationKinds : WasSetting(settings, stored, kind)
SettingsStored(stored) ==
  /\ SettingsShaped(stored)
  /\ \A kind \in NotificationKinds : stored[kind].generation >= 0
SettingsLater(stored, later) ==
  \A kind \in NotificationKinds : \/ later[kind] = stored[kind]
                                  \/ later[kind].generation > stored[kind].generation
SwitchedSound(draft, chosen, stored) ==
  /\ draft = [on |-> draft.on, base |-> draft.base, values |-> draft.values]
  /\ chosen \subseteq NotificationKinds
  /\ ~draft.on => chosen = {}
  /\ draft.on => /\ WereSettings(draft.base, stored)
                 /\ draft.values = [kind \in NotificationKinds |-> draft.values[kind]]
                 /\ \A kind \in NotificationKinds :
                      /\ draft.values[kind] \in BOOLEAN
                      /\ kind \in chosen <=> draft.values[kind] # draft.base[kind].enabled
RequestKnows(request, chosen, stored) ==
  /\ SettingsShaped(request)
  /\ \A kind \in NotificationKinds \ chosen : WasSetting(request, stored, kind)
SaveSound(save, stored) ==
  /\ save = [stage |-> save.stage, request |-> save.request, chosen |-> save.chosen,
             settings |-> save.settings]
  /\ save.stage = "sent" => RequestKnows(save.request, save.chosen, stored)
  /\ WereSettings(save.settings, stored)
SettingsReadSound(read, stored) ==
  /\ read = [stage |-> read.stage, settings |-> read.settings, reload |-> read.reload]
  /\ WereSettings(read.settings, stored)
StraySound(stray, stored) ==
  \A save \in stray : save.stage = "sent" /\ SaveSound(save, stored)
RepliesSound(answers, stored) == \A a \in answers : WereSettings(a.settings, stored)
SwitchesInv ==
  /\ SettingsStored(nsServer) /\ RepliesSound(nsAnswers, nsServer)
  /\ WereSettings(nsCache, nsServer) /\ SettingsReadSound(nsRead, nsServer)
  /\ SwitchedSound(nsDraft, nsChosen, nsServer)
  /\ SaveSound(nsSave, nsServer) /\ StraySound(nsStray, nsServer)

LEMMA NoSettingsIs ==
  /\ SettingsShaped(NoSettings)
  /\ \A kind \in NotificationKinds : NoSettings[kind].generation = -1
<1>1. PICK no \in BOOLEAN : no = FALSE
  OBVIOUS
<1>2. NoSettings = [kind \in NotificationKinds |-> [enabled |-> no, generation |-> -1]]
  BY <1>1 DEF NoSettings
<1> QED BY <1>2 DEF SettingsShaped

\* What was never read is older than anything stored.
LEMMA NoSettingsWere ==
  ASSUME NEW stored, SettingsStored(stored)
  PROVE  WereSettings(NoSettings, stored)
BY NoSettingsIs DEF WereSettings, WasSetting, SettingsStored, SettingsShaped

LEMMA NoSaveSound ==
  ASSUME NEW stored, SettingsStored(stored)
  PROVE  SaveSound(NoSave, stored)
BY NoSettingsWere DEF SaveSound, NoSave

LEMMA UnreadSound ==
  ASSUME NEW stored, SettingsStored(stored)
  PROVE  SettingsReadSound(SettingsUnread, stored)
BY NoSettingsWere DEF SettingsReadSound, SettingsUnread

LEMMA AskedSound ==
  ASSUME NEW stored, SettingsStored(stored), NEW reload
  PROVE  SettingsReadSound(Asked(reload), stored)
<1>1. PICK no \in BOOLEAN : no = FALSE
  OBVIOUS
<1>2. SettingsUnread = [stage |-> "idle", settings |-> NoSettings, reload |-> no]
  BY <1>1 DEF SettingsUnread
<1>4. PICK unread : unread = SettingsUnread
  OBVIOUS
<1>5. Asked(reload) = [unread EXCEPT !.stage = "asked", !.reload = reload]
  BY <1>4 DEF Asked
<1>3. Asked(reload) = [stage |-> "asked", settings |-> NoSettings, reload |-> reload]
  BY <1>2, <1>4, <1>5
<1> QED BY <1>3, NoSettingsWere DEF SettingsReadSound

LEMMA DroppedSound ==
  ASSUME NEW stored
  PROVE  SwitchedSound(NoSettingsDraft, {}, stored)
<1>1. PICK no \in BOOLEAN : no = FALSE
  OBVIOUS
<1>2. NoSettingsDraft = [on |-> no, base |-> NoSettings, values |-> ValuesOf(NoSettings)]
  BY <1>1 DEF NoSettingsDraft
<1> QED BY <1>1, <1>2 DEF SwitchedSound

LEMMA SwitchesStart == NotificationInit => SwitchesInv
<1> SUFFICES ASSUME NotificationInit PROVE SwitchesInv
  OBVIOUS
<1>1. PICK yes \in BOOLEAN : yes = TRUE
  OBVIOUS
<1>2. nsServer = [kind \in NotificationKinds |-> [enabled |-> yes, generation |-> 0]]
  BY <1>1 DEF NotificationInit
<1>3. SettingsStored(nsServer)
  BY <1>2 DEF SettingsStored, SettingsShaped
<1>4. nsAnswers = {} /\ nsCache = NoSettings /\ nsRead = SettingsUnread /\ nsStray = {}
      /\ nsDraft = NoSettingsDraft /\ nsSave = NoSave /\ nsChosen = {}
  BY DEF NotificationInit
<1> QED BY <1>3, <1>4, NoSettingsWere, UnreadSound, DroppedSound, NoSaveSound
           DEF SwitchesInv, RepliesSound, StraySound

(* When the server moves on, what was read stays something it once held.    *)
LEMMA SettingsStayPast ==
  ASSUME NEW settings, NEW stored, NEW later, WereSettings(settings, stored),
         SettingsStored(stored), SettingsStored(later), SettingsLater(stored, later)
  PROVE  WereSettings(settings, later)
BY DEF WereSettings, WasSetting, SettingsStored, SettingsShaped, SettingsLater

LEMMA RequestStaysPast ==
  ASSUME NEW request, NEW chosen, NEW stored, NEW later, RequestKnows(request, chosen, stored),
         SettingsStored(stored), SettingsStored(later), SettingsLater(stored, later)
  PROVE  RequestKnows(request, chosen, later)
BY DEF RequestKnows, WasSetting, SettingsStored, SettingsShaped, SettingsLater

LEMMA SaveStaysPast ==
  ASSUME NEW save, NEW stored, NEW later, SaveSound(save, stored),
         SettingsStored(stored), SettingsStored(later), SettingsLater(stored, later)
  PROVE  SaveSound(save, later)
BY SettingsStayPast, RequestStaysPast DEF SaveSound

LEMMA DraftStaysPast ==
  ASSUME NEW draft, NEW chosen, NEW stored, NEW later, SwitchedSound(draft, chosen, stored),
         SettingsStored(stored), SettingsStored(later), SettingsLater(stored, later)
  PROVE  SwitchedSound(draft, chosen, later)
BY SettingsStayPast DEF SwitchedSound

LEMMA ServerMovesOn ==
  ASSUME SwitchesInv, SettingsStored(nsServer'), SettingsLater(nsServer, nsServer'),
         UNCHANGED <<nsCache, nsRead, nsDraft, nsChosen>>, nsStray' \subseteq nsStray,
         RepliesSound(nsAnswers', nsServer'), SaveSound(nsSave', nsServer')
  PROVE  SwitchesInv'
BY SettingsStayPast, DraftStaysPast, SaveStaysPast DEF SwitchesInv, SettingsReadSound, StraySound

(* A save that is served moves only what its request differs in, and only   *)
(* when it names the newest generation of every kind.                       *)
LEMMA ChangedMoves ==
  ASSUME NEW request, SettingsShaped(request), SettingsStored(nsServer), ~Conflicts(request)
  PROVE  /\ SettingsStored(Changed(request)) /\ SettingsLater(nsServer, Changed(request))
         /\ \A kind \in NotificationKinds :
              Changed(request)[kind].enabled # nsServer[kind].enabled =>
                /\ request[kind].generation = nsServer[kind].generation
                /\ request[kind].enabled # nsServer[kind].enabled
<1> DEFINE next == Changed(request)
<1>1. \A kind \in NotificationKinds :
        next[kind] = IF nsServer[kind].enabled # request[kind].enabled
                     THEN [enabled |-> request[kind].enabled,
                           generation |-> nsServer[kind].generation + 1]
                     ELSE nsServer[kind]
  BY DEF Changed, ChangedKinds
<1>2. next = [kind \in NotificationKinds |-> next[kind]]
  BY DEF Changed
<1> HIDE DEF next
<1>3. SettingsStored(next)
  BY <1>1, <1>2 DEF SettingsStored, SettingsShaped
<1>4. SettingsLater(nsServer, next)
  <2>1. ASSUME NEW kind \in NotificationKinds, next[kind] # nsServer[kind]
        PROVE  next[kind].generation > nsServer[kind].generation
    <3>2. next[kind] = [enabled |-> request[kind].enabled,
                        generation |-> nsServer[kind].generation + 1]
      BY <1>1, <2>1
    <3>1. next[kind].generation = nsServer[kind].generation + 1
      BY <3>2
    <3> QED BY <3>1 DEF SettingsStored, SettingsShaped
  <2> QED BY <2>1 DEF SettingsLater
<1>5. \A kind \in NotificationKinds : next[kind].enabled # nsServer[kind].enabled =>
                /\ request[kind].generation = nsServer[kind].generation
                /\ request[kind].enabled # nsServer[kind].enabled
  BY <1>1 DEF Conflicts
<1> QED BY <1>3, <1>4, <1>5 DEF next

LEMMA StoredWere ==
  ASSUME NEW stored, SettingsStored(stored)
  PROVE  WereSettings(stored, stored) /\ SettingsLater(stored, stored)
BY DEF SettingsStored, WereSettings, WasSetting, SettingsShaped, SettingsLater

ServedWell(request) ==
  /\ SettingsStored(nsServer') /\ SettingsLater(nsServer, nsServer')
  /\ RepliesSound(nsAnswers', nsServer')
  /\ WereSettings(NotificationAnswer(request).settings, nsServer')
  /\ NotificationAnswer(request).outcome # "sent"
  /\ \A kind \in NotificationKinds : nsServer'[kind].enabled # nsServer[kind].enabled =>
       /\ request[kind].generation = nsServer[kind].generation
       /\ request[kind].enabled # nsServer[kind].enabled
LEMMA ServedIsWell ==
  ASSUME SwitchesInv, NEW request, SettingsShaped(request), Served(request)
  PROVE  ServedWell(request)
<1> DEFINE replayed == {a \in nsAnswers : a.request = request}
           answer == NotificationAnswer(request)
<1>1. SettingsStored(nsServer) /\ RepliesSound(nsAnswers, nsServer)
  BY DEF SwitchesInv
<1>2. CASE replayed # {}
  BY <1>2, <1>1, StoredWere DEF NotificationAnswer, Served, RepliesSound, ServedWell
<1>3. CASE replayed = {} /\ Conflicts(request)
  <2>1. answer = [outcome |-> "conflict", server |-> nsServer, settings |-> NoSettings]
    BY <1>3 DEF NotificationAnswer
  <2>2. nsServer' = nsServer /\ nsAnswers' = nsAnswers
    BY <2>1 DEF Served
  <2> QED BY <1>1, <2>1, <2>2, StoredWere, NoSettingsWere DEF ServedWell
<1>4. CASE replayed = {} /\ ~Conflicts(request)
  <2>1. answer = [outcome |-> "saved", server |-> Changed(request), settings |-> Changed(request)]
    BY <1>4 DEF NotificationAnswer
  <2>2. /\ nsServer' = Changed(request)
        /\ nsAnswers' = nsAnswers \cup {[request |-> request, settings |-> Changed(request)]}
    BY <2>1 DEF Served
  <2>3. SettingsStored(nsServer') /\ SettingsLater(nsServer, nsServer')
    BY <1>1, <1>4, <2>2, ChangedMoves
  <2>4. WereSettings(Changed(request), nsServer')
    BY <2>2, <2>3, StoredWere
  <2>5. RepliesSound(nsAnswers', nsServer')
    <3>1. \A a \in nsAnswers : WereSettings(a.settings, nsServer')
      BY <1>1, <2>3, SettingsStayPast DEF RepliesSound
    <3> QED BY <2>2, <2>4, <3>1 DEF RepliesSound
  <2> QED BY <1>1, <1>4, <2>1, <2>2, <2>3, <2>4, <2>5, ChangedMoves DEF ServedWell
<1> QED BY <1>2, <1>3, <1>4

(* The steps that leave the server alone.                                   *)
LEMMA ServerRests ==
  ASSUME UNCHANGED nsServer
  PROVE  SaveChangesOnlyWhatWasChosen
BY DEF SaveChangesOnlyWhatWasChosen

SwitchesHold == SwitchesInv' /\ SaveChangesOnlyWhatWasChosen

LEMMA ToggleHolds ==
  ASSUME SwitchesInv, ToggleSetting
  PROVE  SwitchesHold
<1>1. PICK kind \in NotificationKinds :
        /\ nsDraft' = ChangeNotificationDraft(nsDraft, nsCache, kind, ~SettingsShown[kind])
        /\ nsChosen' = IF kind \in nsChosen THEN nsChosen \ {kind} ELSE nsChosen \cup {kind}
  BY DEF ToggleSetting
<1>2. UNCHANGED <<nsServer, nsAnswers, nsQuery, nsDialog, nsSave, nsStray>>
  BY DEF ToggleSetting
<1>3. PICK base, old : /\ base = IF nsDraft.on THEN nsDraft.base ELSE nsCache
                       /\ old = IF nsDraft.on THEN nsDraft.values ELSE ValuesOf(nsCache)
  OBVIOUS
<1>4. WereSettings(base, nsServer)
  BY <1>3 DEF SwitchesInv, SwitchedSound
<1>5. /\ old = [k \in NotificationKinds |-> old[k]]
      /\ \A k \in NotificationKinds : old[k] \in BOOLEAN
      /\ \A k \in NotificationKinds : k \in nsChosen <=> old[k] # base[k].enabled
      /\ nsChosen \subseteq NotificationKinds
  <2>1. CASE nsDraft.on
    BY <1>3, <2>1 DEF SwitchesInv, SwitchedSound
  <2>2. CASE ~nsDraft.on
    <3>1. old = ValuesOf(nsCache) /\ base = nsCache /\ nsChosen = {}
      BY <1>3, <2>2 DEF SwitchesInv, SwitchedSound
    <3>2. SettingsShaped(nsCache)
      BY DEF SwitchesInv, WereSettings
    <3> QED BY <3>1, <3>2 DEF ValuesOf, SettingsShaped
  <2> QED BY <2>1, <2>2
<1>6. PICK flip : flip = ~old[kind]
  OBVIOUS
<1>7. SettingsShown = old
  BY <1>3 DEF SettingsShown
<1>8. PICK yes \in BOOLEAN : yes = TRUE
  OBVIOUS
<1>9. nsDraft' = [on |-> yes, base |-> base, values |-> [old EXCEPT ![kind] = flip]]
  BY <1>1, <1>3, <1>6, <1>7, <1>8 DEF ChangeNotificationDraft
<1>10. PICK values : values = [old EXCEPT ![kind] = flip]
  OBVIOUS
<1>11. /\ values = [k \in NotificationKinds |-> values[k]]
       /\ \A k \in NotificationKinds : values[k] = IF k = kind THEN flip ELSE old[k]
  BY <1>5, <1>10
<1>12. /\ base = [k \in NotificationKinds |-> base[k]]
       /\ \A k \in NotificationKinds : base[k].enabled \in BOOLEAN
  BY <1>4 DEF WereSettings, SettingsShaped
<1>13. \A k \in NotificationKinds : values[k] \in BOOLEAN
                                    /\ (k \in nsChosen' <=> values[k] # base[k].enabled)
  BY <1>1, <1>11, <1>5, <1>6, <1>12
<1>14. nsChosen' \subseteq NotificationKinds
  BY <1>1, <1>5
<1>15. nsDraft' = [on |-> yes, base |-> base, values |-> values]
  BY <1>9, <1>10
<1>16. SwitchedSound(nsDraft', nsChosen', nsServer)
  BY <1>4, <1>8, <1>11, <1>13, <1>14, <1>15 DEF SwitchedSound
<1> QED BY <1>2, <1>16, ServerRests DEF SwitchesInv, SwitchesHold, nsQuery

\* The draft is dropped, or left as it is; whatever else is held comes from the server.
LEMMA RestHolds ==
  ASSUME SwitchesInv, UNCHANGED nsServer, nsAnswers' \subseteq nsAnswers,
         \/ DropDraft
         \/ UNCHANGED <<nsDraft, nsChosen>>,
         WereSettings(nsCache', nsServer), SettingsReadSound(nsRead', nsServer),
         SaveSound(nsSave', nsServer), StraySound(nsStray', nsServer)
  PROVE  SwitchesHold
<1>1. SwitchedSound(nsDraft', nsChosen', nsServer)
  BY DroppedSound DEF SwitchesInv, DropDraft
<1>2. RepliesSound(nsAnswers', nsServer)
  BY DEF SwitchesInv, RepliesSound
<1> QED BY <1>1, <1>2, ServerRests DEF SwitchesInv, SwitchesHold

LEMMA BeginHolds ==
  ASSUME SwitchesInv, SavePlanReady, BeginSave
  PROVE  SwitchesHold
<1>1. nsDraft.on /\ WereSettings(nsDraft.base, nsServer) /\ SettingsStored(nsServer)
  BY DEF SavePlanReady, DraftDirty, SwitchesInv, SwitchedSound
<1>2. PICK request : request = PlannedRequest
  OBVIOUS
<1>3. /\ request = [kind \in NotificationKinds |-> request[kind]]
      /\ \A kind \in NotificationKinds :
           request[kind] = [enabled |-> nsDraft.values[kind],
                            generation |-> nsDraft.base[kind].generation]
  BY <1>2 DEF PlannedRequest
<1>4. \A kind \in NotificationKinds :
        /\ nsDraft.values[kind] \in BOOLEAN
        /\ kind \in nsChosen <=> nsDraft.values[kind] # nsDraft.base[kind].enabled
  BY <1>1 DEF SwitchesInv, SwitchedSound
<1>5. SettingsShaped(request)
  <2>1. \A kind \in NotificationKinds :
          /\ request[kind].enabled = nsDraft.values[kind]
          /\ request[kind].generation = nsDraft.base[kind].generation
    BY <1>3
  <2>2. \A kind \in NotificationKinds : nsDraft.base[kind].generation \in Int
    BY <1>1 DEF SettingsShaped, WereSettings
  <2> QED BY <1>3, <1>4, <2>1, <2>2 DEF SettingsShaped
<1>6. \A kind \in NotificationKinds \ nsChosen : WasSetting(request, nsServer, kind)
  BY <1>1, <1>3, <1>4 DEF WasSetting, WereSettings
<1>7. nsSave' = [stage |-> "sent", request |-> request, chosen |-> nsChosen,
                 settings |-> NoSettings]
  BY <1>2 DEF BeginSave, NoSave
<1>8. SaveSound(nsSave', nsServer)
  BY <1>1, <1>5, <1>6, <1>7, NoSettingsWere DEF SaveSound, RequestKnows
<1>9. nsRead' = SettingsUnread
      /\ UNCHANGED <<nsServer, nsAnswers, nsCache, nsDraft, nsStray, nsChosen>>
  BY DEF BeginSave
<1> QED BY <1>1, <1>8, <1>9, RestHolds, UnreadSound DEF SwitchesInv

\* What is held as it is, is sound as it was.
LEMMA HeldIsSound ==
  ASSUME SwitchesInv
  PROVE  /\ SettingsStored(nsServer) /\ WereSettings(nsCache, nsServer)
         /\ SettingsReadSound(nsRead, nsServer) /\ SaveSound(nsSave, nsServer)
         /\ StraySound(nsStray, nsServer)
         /\ WereSettings(nsServer, nsServer) /\ WereSettings(NoSettings, nsServer)
         /\ WereSettings(nsRead.settings, nsServer) /\ WereSettings(nsSave.settings, nsServer)
         /\ SaveSound(NoSave, nsServer) /\ SettingsReadSound(SettingsUnread, nsServer)
         /\ SettingsReadSound(Asked(TRUE), nsServer) /\ SettingsReadSound(Asked(FALSE), nsServer)
BY NoSaveSound, UnreadSound, StoredWere, NoSettingsWere, AskedSound
DEF SwitchesInv, SettingsReadSound, SaveSound

\* A save at another stage than its sending, with settings that were the server's.
LEMMA EndedSaveSound ==
  ASSUME SwitchesInv, NEW stage, stage # "sent", NEW settings, NEW stored,
         WereSettings(settings, stored)
  PROVE  SaveSound([nsSave EXCEPT !.stage = stage, !.settings = settings], stored)
<1>1. PICK save : save = [nsSave EXCEPT !.stage = stage, !.settings = settings]
  OBVIOUS
<1>2. nsSave = [stage |-> nsSave.stage, request |-> nsSave.request, chosen |-> nsSave.chosen,
                settings |-> nsSave.settings]
  BY DEF SwitchesInv, SaveSound
<1>3. save = [stage |-> stage, request |-> nsSave.request, chosen |-> nsSave.chosen,
              settings |-> settings]
  BY <1>1, <1>2
<1>4. SaveSound(save, stored)
  BY <1>3 DEF SaveSound
<1> QED BY <1>1, <1>4

LEMMA ReadingHolds ==
  ASSUME SwitchesInv,
         \/ ReadSettings \/ ReloadSettings \/ ServeSettings \/ SettingsArrive \/ SettingsReadFails
  PROVE  SwitchesHold
<1>1. CASE ReadSettings
  BY <1>1, RestHolds, HeldIsSound DEF ReadSettings, nsEditor
<1>2. CASE ReloadSettings
  BY <1>2, RestHolds, HeldIsSound DEF ReloadSettings, nsEditor
<1>3. CASE ServeSettings
  BY <1>3, HeldIsSound, RestHolds DEF SwitchesInv, SettingsReadSound, ServeSettings, nsEditor
<1>4. CASE SettingsArrive
  BY <1>4, RestHolds, HeldIsSound DEF SettingsArrive
<1>5. CASE SettingsReadFails
  BY <1>5, RestHolds, HeldIsSound DEF SettingsReadFails, nsEditor
<1> QED BY <1>1, <1>2, <1>3, <1>4, <1>5

LEMMA EditingHolds ==
  ASSUME SwitchesInv,
         \/ DiscardChanges \/ AskConfirmation \/ CancelConfirmation \/ LeaveSettings
  PROVE  SwitchesHold
<1>1. CASE DiscardChanges
  BY <1>1, RestHolds, HeldIsSound DEF DiscardChanges, nsQuery
<1>2. CASE AskConfirmation
  BY <1>2, RestHolds, HeldIsSound DEF AskConfirmation, nsQuery
<1>3. CASE CancelConfirmation
  BY <1>3, RestHolds, HeldIsSound DEF CancelConfirmation, nsQuery
<1>4. CASE LeaveSettings
  BY <1>4, RestHolds, HeldIsSound DEF LeaveSettings, nsQuery
<1> QED BY <1>1, <1>2, <1>3, <1>4

LEMMA AcceptedHolds ==
  ASSUME SwitchesInv, AcceptSaved, UNCHANGED <<nsServer, nsStray>>, nsAnswers' \subseteq nsAnswers
  PROVE  SwitchesHold
BY RestHolds, HeldIsSound DEF AcceptSaved

LEMMA EndingHolds ==
  ASSUME SwitchesInv, SaveBreaks \/ NotificationSaveError \/ SaveSucceeds
  PROVE  SwitchesHold
<1>1. CASE SaveBreaks
  <2>1. PICK outcome \in {"unknown", "refused"} :
          nsSave' = [nsSave EXCEPT !.stage = outcome, !.settings = NoSettings]
    BY <1>1 DEF SaveBreaks
  <2>2. SaveSound(nsSave', nsServer)
    BY <2>1, EndedSaveSound, HeldIsSound
  <2> QED BY <1>1, <2>2, RestHolds, HeldIsSound DEF SaveBreaks, nsQuery, nsEditor
<1>2. CASE NotificationSaveError
  BY <1>2, RestHolds, HeldIsSound DEF NotificationSaveError, nsQuery
<1>3. CASE SaveSucceeds
  BY <1>3, AcceptedHolds, HeldIsSound, RestHolds
  DEF SaveSucceeds, Completed, SwitchesInv, SaveSound, nsQuery
<1> QED BY <1>1, <1>2, <1>3

LEMMA PermissionHolds ==
  ASSUME SwitchesInv, AccessRechecked \/ AccessConfirmed \/ AccessLost \/ AccessGranted
  PROVE  SwitchesHold
<1>1. CASE AccessRechecked
  BY <1>1, RestHolds, HeldIsSound DEF AccessRechecked, nsQuery, nsEditor
<1>2. CASE AccessConfirmed
  BY <1>2, AcceptedHolds, RestHolds, HeldIsSound DEF AccessConfirmed, nsQuery
<1>3. CASE AccessLost
  <2>1. nsStray' = IF nsSave.stage = "sent" THEN nsStray \cup {nsSave} ELSE nsStray
    BY <1>3 DEF AccessLost
  <2>2. StraySound(nsStray', nsServer)
    BY <2>1, HeldIsSound DEF StraySound
  <2> QED BY <1>3, <2>2, RestHolds, HeldIsSound DEF AccessLost
<1>4. CASE AccessGranted
  BY <1>4, RestHolds, HeldIsSound DEF AccessGranted, nsQuery, nsEditor
<1> QED BY <1>1, <1>2, <1>3, <1>4

\* What a request does not know of was chosen by its user.
LEMMA OnlyChosenMove ==
  ASSUME NEW request, NEW chosen, RequestKnows(request, chosen, nsServer), ServedWell(request),
         NEW kind \in NotificationKinds, nsServer'[kind].enabled # nsServer[kind].enabled
  PROVE  kind \in chosen
BY DEF ServedWell, RequestKnows, WasSetting

LEMMA ServingHolds ==
  ASSUME SwitchesInv, ServeSave \/ ServeStray
  PROVE  SwitchesHold
<1>1. CASE ServeSave
  <2>1. PICK request : request = nsSave.request
    OBVIOUS
  <2>2. RequestKnows(request, nsSave.chosen, nsServer) /\ Served(request) /\ nsSave.stage = "sent"
    BY <1>1, <2>1 DEF ServeSave, SwitchesInv, SaveSound
  <2>3. ServedWell(request)
    BY <2>2, ServedIsWell DEF RequestKnows
  <2>4. nsSave' = [nsSave EXCEPT !.stage = NotificationAnswer(request).outcome,
                                 !.settings = NotificationAnswer(request).settings]
    BY <1>1, <2>1 DEF ServeSave
  <2>5. SaveSound(nsSave', nsServer')
    BY <2>3, <2>4, EndedSaveSound DEF ServedWell
  <2>6. SwitchesInv'
    BY <1>1, <2>3, <2>5, ServerMovesOn DEF ServeSave, nsQuery, nsEditor, ServedWell
  <2>7. SaveChangesOnlyWhatWasChosen
    BY <2>2, <2>3, OnlyChosenMove DEF SaveChangesOnlyWhatWasChosen
  <2> QED BY <2>6, <2>7 DEF SwitchesHold
<1>2. CASE ServeStray
  <2>1. PICK save \in nsStray : Served(save.request) /\ nsStray' = nsStray \ {save}
    BY <1>2 DEF ServeStray
  <2>2. RequestKnows(save.request, save.chosen, nsServer)
    BY <2>1 DEF SwitchesInv, StraySound, SaveSound
  <2>3. ServedWell(save.request)
    BY <2>1, <2>2, ServedIsWell DEF RequestKnows
  <2>4. UNCHANGED <<nsQuery, nsEditor, nsSave>>
    BY <1>2 DEF ServeStray
  <2>5. SaveSound(nsSave', nsServer')
    BY <2>3, <2>4, SaveStaysPast DEF ServedWell, SwitchesInv
  <2>6. SwitchesInv'
    BY <2>1, <2>3, <2>4, <2>5, ServerMovesOn DEF nsQuery, nsEditor, ServedWell
  <2>7. SaveChangesOnlyWhatWasChosen
    BY <2>1, <2>2, <2>3, OnlyChosenMove DEF SaveChangesOnlyWhatWasChosen
  <2> QED BY <2>6, <2>7 DEF SwitchesHold
<1> QED BY <1>1, <1>2

LEMMA OthersHold ==
  ASSUME SwitchesInv, OthersSwitch
  PROVE  SwitchesHold
<1>1. PICK kind \in NotificationKinds :
        nsServer' = [nsServer EXCEPT ![kind] = [enabled |-> ~@.enabled,
                                                generation |-> @.generation + 1]]
  BY DEF OthersSwitch
<1>2. SettingsStored(nsServer)
  BY DEF SwitchesInv
<1>3. PICK flip \in BOOLEAN : flip = ~nsServer[kind].enabled
  OBVIOUS
<1>4. nsServer' = [nsServer EXCEPT ![kind] = [enabled |-> flip,
                                              generation |-> nsServer[kind].generation + 1]]
  BY <1>1, <1>3
<1>5. PICK now : now = [enabled |-> flip, generation |-> nsServer[kind].generation + 1]
  OBVIOUS
<1>6. /\ nsServer' = [k \in NotificationKinds |-> nsServer'[k]]
      /\ nsServer'[kind] = now
      /\ \A k \in NotificationKinds \ {kind} : nsServer'[k] = nsServer[k]
  BY <1>2, <1>4, <1>5 DEF SettingsStored, SettingsShaped
<1>7. /\ now = [enabled |-> now.enabled, generation |-> now.generation]
      /\ now.enabled \in BOOLEAN /\ now.generation = nsServer[kind].generation + 1
  BY <1>5
<1>8. nsServer[kind].generation \in Int /\ nsServer[kind].generation >= 0
  BY <1>2 DEF SettingsStored, SettingsShaped
<1>9. SettingsStored(nsServer')
  BY <1>2, <1>6, <1>7, <1>8 DEF SettingsStored, SettingsShaped
<1>10. SettingsLater(nsServer, nsServer')
  BY <1>6, <1>7, <1>8 DEF SettingsLater
<1>11. UNCHANGED <<nsAnswers, nsQuery, nsEditor, nsSave, nsStray>>
  BY DEF OthersSwitch
<1>12. RepliesSound(nsAnswers', nsServer')
  BY <1>2, <1>9, <1>10, <1>11, SettingsStayPast DEF SwitchesInv, RepliesSound
<1>13. SaveSound(nsSave', nsServer')
  BY <1>2, <1>9, <1>10, <1>11, SaveStaysPast DEF SwitchesInv
<1>14. SwitchesInv'
  BY <1>9, <1>10, <1>11, <1>12, <1>13, ServerMovesOn DEF nsQuery, nsEditor
<1> QED BY <1>14 DEF SwitchesHold, SaveChangesOnlyWhatWasChosen

LEMMA SwitchesGoOn ==
  ASSUME SwitchesInv, [NotificationNext]_nsvars
  PROVE  SwitchesHold
<1>1. CASE ToggleSetting
  BY <1>1, ToggleHolds
<1>2. CASE DiscardChanges \/ AskConfirmation \/ CancelConfirmation \/ LeaveSettings
  BY <1>2, EditingHolds
<1>3. CASE SubmitSettings \/ ConfirmOff
  BY <1>3, BeginHolds DEF SubmitSettings, ConfirmOff
<1>4. CASE \/ ReadSettings \/ ReloadSettings \/ ServeSettings \/ SettingsArrive
           \/ SettingsReadFails
  BY <1>4, ReadingHolds
<1>5. CASE ServeSave \/ ServeStray
  BY <1>5, ServingHolds
<1>6. CASE SaveBreaks \/ NotificationSaveError \/ SaveSucceeds
  BY <1>6, EndingHolds
<1>7. CASE AccessRechecked \/ AccessConfirmed \/ AccessLost \/ AccessGranted
  BY <1>7, PermissionHolds
<1>8. CASE OthersSwitch
  BY <1>8, OthersHold
<1>9. CASE UNCHANGED nsvars
  BY <1>9, RestHolds, HeldIsSound DEF nsvars
<1> QED BY <1>1, <1>2, <1>3, <1>4, <1>5, <1>6, <1>7, <1>8, <1>9 DEF NotificationNext

-----------------------------------------------------------------------------
(***************************************************************************)
(* AchievementCatalog: a write replaces only what its dialog was opened    *)
(* with.                                                                   *)
(***************************************************************************)

(* The inductive invariant: an item that is held anywhere and still has the *)
(* version of the stored one is the stored one, and a request of an order   *)
(* names the revision of the catalog its dialog was opened with.            *)
ItemShaped(item) ==
  item = [version |-> item.version, retired |-> item.retired, text |-> item.text]
CatalogShaped(catalog) ==
  /\ catalog = [items |-> catalog.items, order |-> catalog.order]
  /\ catalog.items = [i \in AvItems |-> catalog.items[i]]
WasItem(item, stored, i) ==
  /\ item.version \in Nat
  /\ item.version <= stored.items[i].version
  /\ item.version = stored.items[i].version => item = stored.items[i]
WasOfCatalog(catalog, stored) ==
  CatalogShaped(catalog) /\ \A i \in AvItems : WasItem(catalog.items[i], stored, i)
StoredItems(stored) ==
  /\ CatalogShaped(stored)
  /\ \A i \in AvItems :
       /\ ItemShaped(stored.items[i]) /\ stored.items[i].version \in Nat
       /\ stored.items[i].version = 0 => stored.items[i] = AbsentItem
ItemsLater(stored, later) ==
  \A i \in AvItems : \/ later.items[i] = stored.items[i]
                     \/ later.items[i].version > stored.items[i].version
FormSound(editor, stored) ==
  /\ editor = [item |-> editor.item, base |-> editor.base, text |-> editor.text]
  /\ editor # NoEditor /\ editor.item # NewItem /\ editor.item \in AvItems =>
       WasItem(editor.base, stored, editor.item)
RetiringSound(retiring, stored) ==
  /\ retiring = [item |-> retiring.item, base |-> retiring.base]
  /\ retiring # NoRetiring /\ retiring.item \in AvItems =>
       WasItem(retiring.base, stored, retiring.item)
RequestShaped(request) ==
  request = [kind |-> request.kind, item |-> request.item, version |-> request.version,
             text |-> request.text, ids |-> request.ids, revision |-> request.revision]
RequestKnown(request, shown, stored) ==
  /\ RequestShaped(request)
  /\ request.kind = "create" => shown = NoCatalog
  /\ request.kind \in {"update", "retire"} /\ request.item \in AvItems =>
       /\ WasItem(shown.items[request.item], stored, request.item)
       /\ shown.items[request.item].version = request.version
  /\ request.kind = "order" => request.revision = Revision(shown)
  /\ request.kind \in {"create", "update", "retire", "order"}
AvCallSound(call, stored) ==
  /\ call = [stage |-> call.stage, request |-> call.request, shown |-> call.shown,
             catalog |-> call.catalog]
  /\ call.stage = "sent" => RequestKnown(call.request, call.shown, stored)
  /\ WasOfCatalog(call.catalog, stored)
CatalogReadKnown(read, stored) ==
  read = [stage |-> read.stage, catalog |-> read.catalog] /\ WasOfCatalog(read.catalog, stored)
AvAnswersSound(answers, stored) == \A a \in answers : WasOfCatalog(a.catalog, stored)
ItemsInv ==
  /\ StoredItems(avServer) /\ AvAnswersSound(avAnswers, avServer)
  /\ WasOfCatalog(avCache, avServer) /\ CatalogReadKnown(avRead, avServer)
  /\ FormSound(avEditor, avServer) /\ RetiringSound(avRetiring, avServer)
  /\ AvCallSound(avCall, avServer)

LEMMA AbsentItemIs == ItemShaped(AbsentItem) /\ AbsentItem.version = 0
<1>1. PICK no \in BOOLEAN : no = FALSE
  OBVIOUS
<1>2. AbsentItem = [version |-> 0, retired |-> no, text |-> NoItemText]
  BY <1>1 DEF AbsentItem
<1> QED BY <1>2 DEF ItemShaped

\* What was never there is older than anything stored.
LEMMA NoCatalogWas ==
  ASSUME NEW stored, StoredItems(stored)
  PROVE  WasOfCatalog(NoCatalog, stored)
<1>1. NoCatalog.items = [i \in AvItems |-> AbsentItem] /\ CatalogShaped(NoCatalog)
  BY DEF NoCatalog, CatalogShaped
<1> QED BY <1>1, AbsentItemIs DEF WasOfCatalog, WasItem, StoredItems

LEMMA StoredWas ==
  ASSUME NEW stored, StoredItems(stored)
  PROVE  WasOfCatalog(stored, stored) /\ ItemsLater(stored, stored)
BY DEF StoredItems, WasOfCatalog, WasItem, ItemsLater

LEMMA ItemStaysPast ==
  ASSUME NEW item, NEW stored, NEW later, NEW i \in AvItems, WasItem(item, stored, i),
         StoredItems(stored), StoredItems(later), ItemsLater(stored, later)
  PROVE  WasItem(item, later, i)
BY DEF WasItem, StoredItems, ItemsLater

LEMMA CatalogStaysPast ==
  ASSUME NEW catalog, NEW stored, NEW later, WasOfCatalog(catalog, stored),
         StoredItems(stored), StoredItems(later), ItemsLater(stored, later)
  PROVE  WasOfCatalog(catalog, later)
BY ItemStaysPast DEF WasOfCatalog

LEMMA RequestStaysKnown ==
  ASSUME NEW request, NEW shown, NEW stored, NEW later, RequestKnown(request, shown, stored),
         StoredItems(stored), StoredItems(later), ItemsLater(stored, later)
  PROVE  RequestKnown(request, shown, later)
BY ItemStaysPast DEF RequestKnown

WritesHold == ItemsInv' /\ WritesReplaceWhatWasShown

\* The server moves on while the dialogs and the pages stay as they are.
LEMMA CatalogMovesOn ==
  ASSUME ItemsInv, StoredItems(avServer'), ItemsLater(avServer, avServer'),
         UNCHANGED <<avCache, avRead, avDialogs>>,
         AvAnswersSound(avAnswers', avServer'), AvCallSound(avCall', avServer')
  PROVE  ItemsInv'
BY CatalogStaysPast, ItemStaysPast
DEF ItemsInv, CatalogReadKnown, FormSound, RetiringSound, avDialogs

\* The server rests: what is held anew is sound.
LEMMA CatalogRests ==
  ASSUME ItemsInv, UNCHANGED avServer, avAnswers' \subseteq avAnswers,
         WasOfCatalog(avCache', avServer), CatalogReadKnown(avRead', avServer),
         FormSound(avEditor', avServer), RetiringSound(avRetiring', avServer),
         AvCallSound(avCall', avServer)
  PROVE  WritesHold
<1>1. AvAnswersSound(avAnswers', avServer)
  BY DEF ItemsInv, AvAnswersSound
<1> QED BY <1>1 DEF ItemsInv, WritesHold, WritesReplaceWhatWasShown

LEMMA NoCallSound ==
  ASSUME NEW stored, StoredItems(stored)
  PROVE  AvCallSound(NoCallYet, stored)
BY NoCatalogWas DEF AvCallSound, NoCallYet

\* What is held as it is, and what stands for nothing, is sound.
LEMMA CatalogHeld ==
  ASSUME ItemsInv
  PROVE  /\ StoredItems(avServer) /\ WasOfCatalog(avCache, avServer)
         /\ CatalogReadKnown(avRead, avServer) /\ FormSound(avEditor, avServer)
         /\ RetiringSound(avRetiring, avServer) /\ AvCallSound(avCall, avServer)
         /\ WasOfCatalog(avRead.catalog, avServer) /\ WasOfCatalog(avCall.catalog, avServer)
         /\ AvCallSound(NoCallYet, avServer)
         /\ CatalogReadKnown(CatalogUnread, avServer) /\ CatalogReadKnown(CatalogAsked, avServer)
         /\ FormSound(NoEditor, avServer) /\ RetiringSound(NoRetiring, avServer)
BY NoCallSound, NoCatalogWas
DEF ItemsInv, CatalogReadKnown, CatalogUnread, CatalogAsked, FormSound, RetiringSound, NoEditor,
    NoRetiring, AvCallSound

LEMMA ItemsStart == CatalogInit => ItemsInv
<1> SUFFICES ASSUME CatalogInit PROVE ItemsInv
  OBVIOUS
<1>1. PICK no \in BOOLEAN : no = FALSE
  OBVIOUS
<1>2. PICK text : text = CHOOSE t \in AvTexts : TRUE
  OBVIOUS
<1>3. avServer = [items |-> [i \in AvItems |-> IF i \in ItemsIn(AvFirst)
                                                THEN [version |-> 1, retired |-> no, text |-> text]
                                                ELSE AbsentItem],
                  order |-> AvFirst]
  BY <1>1, <1>2 DEF CatalogInit
<1>4. StoredItems(avServer)
  BY <1>3, AbsentItemIs DEF StoredItems, CatalogShaped, ItemShaped
<1>5. avAnswers = {} /\ avCache = NoCatalog /\ avRead = CatalogAsked /\ avEditor = NoEditor
      /\ avRetiring = NoRetiring /\ avCall = NoCallYet
  BY DEF CatalogInit
<1>6. CatalogAsked = [stage |-> "asked", catalog |-> NoCatalog]
  BY DEF CatalogAsked, CatalogUnread
<1>7. CatalogReadKnown(avRead, avServer)
  BY <1>4, <1>5, <1>6, NoCatalogWas DEF CatalogReadKnown
<1>8. FormSound(avEditor, avServer) /\ RetiringSound(avRetiring, avServer)
  BY <1>5 DEF FormSound, RetiringSound, NoEditor, NoRetiring
<1> QED BY <1>4, <1>5, <1>7, <1>8, NoCatalogWas, NoCallSound DEF ItemsInv, AvAnswersSound

(* The dialogs.                                                             *)
LEMMA StartEditorHolds ==
  ASSUME ItemsInv, StartEditor
  PROVE  WritesHold
BY CatalogHeld, CatalogRests DEF StartEditor, FormSound, WasOfCatalog, avNetwork

LEMMA UpdateFormHolds ==
  ASSUME ItemsInv, UpdateForm
  PROVE  WritesHold
BY CatalogHeld, CatalogRests DEF UpdateForm, ItemsInv, FormSound, EditorOpen, avNetwork

LEMMA ClosingHolds ==
  ASSUME ItemsInv, CloseEditor \/ CloseRetirement \/ CloseOrdering \/ AnswerPrompt
  PROVE  WritesHold
<1>1. CASE CloseEditor
  <2>1. avEditor' \in {avEditor, NoEditor} /\ UNCHANGED <<avNetwork, avRetiring>>
    BY <1>1 DEF CloseEditor
  <2> QED BY <2>1, CatalogRests, CatalogHeld DEF avNetwork
<1>2. CASE CloseRetirement
  BY <1>2, CatalogRests, CatalogHeld DEF CloseRetirement, avNetwork
<1>3. CASE CloseOrdering
  BY <1>3, CatalogRests, CatalogHeld DEF CloseOrdering, avNetwork
<1>4. CASE AnswerPrompt
  <2>1. avEditor' \in {avEditor, NoEditor} /\ UNCHANGED <<avNetwork, avRetiring>>
    BY <1>4 DEF AnswerPrompt
  <2> QED BY <2>1, CatalogRests, CatalogHeld DEF avNetwork
<1> QED BY <1>1, <1>2, <1>3, <1>4

LEMMA OpeningHolds ==
  ASSUME ItemsInv, StartRetirement \/ StartOrdering \/ MoveItem
  PROVE  WritesHold
<1>1. CASE StartRetirement
  <2>1. PICK item : avRetiring' = [item |-> item, base |-> avCache.items[item]]
    BY <1>1 DEF StartRetirement
  <2>2. RetiringSound(avRetiring', avServer)
    BY <2>1, CatalogHeld DEF RetiringSound, WasOfCatalog
  <2> QED BY <1>1, <2>2, CatalogRests, CatalogHeld DEF StartRetirement, avNetwork
<1>2. CASE StartOrdering
  BY <1>2, CatalogRests, CatalogHeld DEF StartOrdering, avNetwork
<1>3. CASE MoveItem
  BY <1>3, CatalogRests, CatalogHeld DEF MoveItem, avNetwork
<1> QED BY <1>1, <1>2, <1>3

(* What is sent.                                                            *)
LEMMA ShownItemIs ==
  ASSUME NEW item \in AvItems, NEW base
  PROVE  ShownItem(item, base).items[item] = base
BY DEF NoCatalog, ShownItem

LEMMA SendingHolds ==
  ASSUME ItemsInv, NEW request, NEW shown, SendCatalogCall(request, shown),
         RequestKnown(request, shown, avServer)
  PROVE  WritesHold
<1>1. avCall' = [stage |-> "sent", request |-> request, shown |-> shown, catalog |-> NoCatalog]
  BY DEF SendCatalogCall, NoCallYet
<1>2. AvCallSound(avCall', avServer)
  BY <1>1, CatalogHeld, NoCatalogWas DEF AvCallSound
<1> QED BY <1>2, CatalogRests, CatalogHeld DEF SendCatalogCall, avDialogs

LEMMA NoRequestIs ==
  NoRequestYet = [kind |-> "none", item |-> NoItem, version |-> 0, text |-> NoItemText,
                  ids |-> <<>>, revision |-> <<>>]
BY DEF NoRequestYet

LEMMA SaveItemHolds ==
  ASSUME ItemsInv, SaveItem
  PROVE  WritesHold
<1>1. PICK shown : shown = IF avEditor.item = NewItem THEN NoCatalog
                           ELSE ShownItem(avEditor.item, avEditor.base)
  OBVIOUS
<1>2. SendCatalogCall(ItemRequest, shown) /\ avEditor # NoEditor
  BY <1>1 DEF SaveItem, MaySaveItem, EditorOpen
<1>3. PICK kind : kind = IF avEditor.item = NewItem THEN "create" ELSE "update"
  OBVIOUS
<1>7. PICK none : none = NoRequestYet
  OBVIOUS
<1>8. none = [kind |-> "none", item |-> NoItem, version |-> 0, text |-> NoItemText,
              ids |-> <<>>, revision |-> <<>>]
  BY <1>7, NoRequestIs
<1>9. ItemRequest = [none EXCEPT !.kind = kind, !.item = avEditor.item, !.text = avEditor.text,
                                 !.version = avEditor.base.version]
  BY <1>3, <1>7 DEF ItemRequest
<1>4. ItemRequest = [kind |-> kind, item |-> avEditor.item, version |-> avEditor.base.version,
                     text |-> avEditor.text, ids |-> <<>>, revision |-> <<>>]
  BY <1>8, <1>9
<1>5. kind = "update" /\ avEditor.item \in AvItems =>
        /\ WasItem(avEditor.base, avServer, avEditor.item)
        /\ shown.items[avEditor.item] = avEditor.base
  BY <1>1, <1>2, <1>3, ShownItemIs, CatalogHeld DEF FormSound
<1>6. RequestKnown(ItemRequest, shown, avServer)
  BY <1>1, <1>3, <1>4, <1>5 DEF RequestKnown, RequestShaped
<1> QED BY <1>2, <1>6, SendingHolds

LEMMA RetireItemHolds ==
  ASSUME ItemsInv, RetireItem
  PROVE  WritesHold
<1>1. PICK shown : shown = ShownItem(avRetiring.item, avRetiring.base)
  OBVIOUS
<1>2. SendCatalogCall(RetireRequest, shown) /\ avRetiring # NoRetiring
  BY <1>1 DEF RetireItem
<1>6. PICK none : none = NoRequestYet
  OBVIOUS
<1>7. none = [kind |-> "none", item |-> NoItem, version |-> 0, text |-> NoItemText,
              ids |-> <<>>, revision |-> <<>>]
  BY <1>6, NoRequestIs
<1>8. RetireRequest = [none EXCEPT !.kind = "retire", !.item = avRetiring.item,
                                   !.version = avRetiring.base.version]
  BY <1>6 DEF RetireRequest
<1>3. RetireRequest = [kind |-> "retire", item |-> avRetiring.item,
                       version |-> avRetiring.base.version, text |-> NoItemText,
                       ids |-> <<>>, revision |-> <<>>]
  BY <1>7, <1>8
<1>4. avRetiring.item \in AvItems =>
        /\ WasItem(avRetiring.base, avServer, avRetiring.item)
        /\ shown.items[avRetiring.item] = avRetiring.base
  BY <1>1, <1>2, ShownItemIs, CatalogHeld DEF RetiringSound
<1>5. RequestKnown(RetireRequest, shown, avServer)
  BY <1>3, <1>4 DEF RequestKnown, RequestShaped
<1> QED BY <1>2, <1>5, SendingHolds

LEMMA SaveOrderHolds ==
  ASSUME ItemsInv, SaveOrder
  PROVE  WritesHold
<1>1. PICK ids : ids = avOrdering.ids \o RetiredItems(avOrdering.original)
  OBVIOUS
<1>2. PICK revision : revision = Revision(avOrdering.original)
  OBVIOUS
<1>5. PICK none : none = NoRequestYet
  OBVIOUS
<1>6. none = [kind |-> "none", item |-> NoItem, version |-> 0, text |-> NoItemText,
              ids |-> <<>>, revision |-> <<>>]
  BY <1>5, NoRequestIs
<1>7. OrderRequest = [none EXCEPT !.kind = "order", !.revision = revision, !.ids = ids]
  BY <1>1, <1>2, <1>5 DEF OrderRequest
<1>3. OrderRequest = [kind |-> "order", item |-> NoItem, version |-> 0, text |-> NoItemText,
                      ids |-> ids, revision |-> revision]
  BY <1>6, <1>7
<1>4. RequestKnown(OrderRequest, avOrdering.original, avServer)
  BY <1>2, <1>3 DEF RequestKnown, RequestShaped
<1> QED BY <1>4, SendingHolds DEF SaveOrder

(* The stored catalog moves on.                                             *)
CatalogMoves(stored, later) == StoredItems(later) /\ ItemsLater(stored, later)
OnlyItemMoves(stored, later, i) ==
  \A j \in AvItems : later.items[j] # stored.items[j] => j = i

LEMMA ItemReplaced ==
  ASSUME NEW stored, StoredItems(stored), NEW i, NEW item, NEW order, NEW later,
         i \in AvItems => ItemShaped(item) /\ item.version \in Nat
                          /\ item.version > stored.items[i].version,
         later = [items |-> [stored.items EXCEPT ![i] = item], order |-> order]
  PROVE  CatalogMoves(stored, later) /\ OnlyItemMoves(stored, later, i)
BY DEF StoredItems, CatalogShaped, OnlyItemMoves, ItemsLater, CatalogMoves

SayingNow(stored, i, text) ==
  [stored EXCEPT !.items[i].text = text, !.items[i].version = @ + 1]

LEMMA TextReplaced ==
  ASSUME NEW stored, StoredItems(stored), NEW i, NEW text
  PROVE  /\ CatalogMoves(stored, SayingNow(stored, i, text))
         /\ OnlyItemMoves(stored, SayingNow(stored, i, text), i)
<1>1. PICK items : items = stored.items /\ items = [j \in AvItems |-> items[j]]
  BY DEF StoredItems, CatalogShaped
<1>2. PICK order : order = stored.order
  OBVIOUS
<1>3. stored = [items |-> items, order |-> order]
  BY <1>1, <1>2 DEF StoredItems, CatalogShaped
<1>4. PICK later : later = [stored EXCEPT !.items[i].text = text, !.items[i].version = @ + 1]
  OBVIOUS
<1>5. PICK item : item = [version |-> items[i].version + 1, retired |-> items[i].retired,
                          text |-> text]
  OBVIOUS
<1>6. later = [items |-> [items EXCEPT ![i] = item], order |-> order]
  <2>1. CASE i \in AvItems
    <3>1. PICK old : old = items[i]
      OBVIOUS
    <3>2. old = [version |-> old.version, retired |-> old.retired, text |-> old.text]
      BY <2>1, <3>1, <1>1 DEF StoredItems, ItemShaped
    <3>3. PICK said : said = [old EXCEPT !.text = text]
      OBVIOUS
    <3>4. said = [version |-> old.version, retired |-> old.retired, text |-> text]
      BY <3>2, <3>3
    <3>5. item = [said EXCEPT !.version = said.version + 1]
      BY <3>1, <3>4, <1>5
    <3>6. PICK mid : mid = [stored EXCEPT !.items[i].text = text]
      OBVIOUS
    <3>7. mid = [items |-> [items EXCEPT ![i] = said], order |-> order]
      BY <2>1, <3>1, <3>3, <3>6, <1>1, <1>3
    <3>8. PICK middle : middle = [items EXCEPT ![i] = said]
      OBVIOUS
    <3>9. mid = [items |-> middle, order |-> order] /\ middle[i] = said
          /\ DOMAIN middle = AvItems
      BY <2>1, <3>7, <3>8, <1>1
    <3>10. later = [mid EXCEPT !.items[i].version = @ + 1]
      BY <3>6, <1>4
    <3>11. later = [items |-> [middle EXCEPT ![i] = item], order |-> order]
      BY <2>1, <3>5, <3>9, <3>10
    <3>12. [middle EXCEPT ![i] = item] = [items EXCEPT ![i] = item]
      BY <2>1, <3>8, <1>1
    <3> QED BY <3>11, <3>12
  <2>2. CASE i \notin AvItems
    BY <2>2, <1>1, <1>3, <1>4
  <2> QED BY <2>1, <2>2
<1>7. i \in AvItems => ItemShaped(item) /\ item.version \in Nat
                       /\ item.version > stored.items[i].version
  <2> SUFFICES ASSUME i \in AvItems
               PROVE  ItemShaped(item) /\ item.version \in Nat
                      /\ item.version > stored.items[i].version
    OBVIOUS
  <2>1. PICK version : version = items[i].version
    OBVIOUS
  <2>2. version \in Nat /\ version = stored.items[i].version
    BY <2>1, <1>1 DEF StoredItems
  <2>3. item.version = version + 1 /\ ItemShaped(item)
    BY <2>1, <1>5 DEF ItemShaped
  <2> QED BY <2>2, <2>3
<1>8. later = [items |-> [stored.items EXCEPT ![i] = item], order |-> order]
  BY <1>1, <1>6
<1>9. CatalogMoves(stored, later) /\ OnlyItemMoves(stored, later, i)
  BY <1>7, <1>8, ItemReplaced
<1> QED BY <1>4, <1>9 DEF SayingNow

RetiredNow(stored, i, retired) ==
  [stored EXCEPT !.items[i].retired = retired, !.items[i].version = @ + 1]

LEMMA RetiredReplaced ==
  ASSUME NEW stored, StoredItems(stored), NEW i, NEW retired
  PROVE  /\ CatalogMoves(stored, RetiredNow(stored, i, retired))
         /\ OnlyItemMoves(stored, RetiredNow(stored, i, retired), i)
<1>1. PICK items : items = stored.items /\ items = [j \in AvItems |-> items[j]]
  BY DEF StoredItems, CatalogShaped
<1>2. PICK order : order = stored.order
  OBVIOUS
<1>3. stored = [items |-> items, order |-> order]
  BY <1>1, <1>2 DEF StoredItems, CatalogShaped
<1>4. PICK later : later = [stored EXCEPT !.items[i].retired = retired, !.items[i].version = @ + 1]
  OBVIOUS
<1>5. PICK item : item = [version |-> items[i].version + 1, retired |-> retired,
                          text |-> items[i].text]
  OBVIOUS
<1>6. later = [items |-> [items EXCEPT ![i] = item], order |-> order]
  <2>1. CASE i \in AvItems
    <3>1. PICK old : old = items[i]
      OBVIOUS
    <3>2. old = [version |-> old.version, retired |-> old.retired, text |-> old.text]
      BY <2>1, <3>1, <1>1 DEF StoredItems, ItemShaped
    <3>3. PICK gone : gone = [old EXCEPT !.retired = retired]
      OBVIOUS
    <3>4. gone = [version |-> old.version, retired |-> retired, text |-> old.text]
      BY <3>2, <3>3
    <3>5. item = [gone EXCEPT !.version = gone.version + 1]
      BY <3>1, <3>4, <1>5
    <3>6. PICK mid : mid = [stored EXCEPT !.items[i].retired = retired]
      OBVIOUS
    <3>7. mid = [items |-> [items EXCEPT ![i] = gone], order |-> order]
      BY <2>1, <3>1, <3>3, <3>6, <1>1, <1>3
    <3>8. PICK middle : middle = [items EXCEPT ![i] = gone]
      OBVIOUS
    <3>9. mid = [items |-> middle, order |-> order] /\ middle[i] = gone
          /\ DOMAIN middle = AvItems
      BY <2>1, <3>7, <3>8, <1>1
    <3>10. later = [mid EXCEPT !.items[i].version = @ + 1]
      BY <3>6, <1>4
    <3>11. later = [items |-> [middle EXCEPT ![i] = item], order |-> order]
      BY <2>1, <3>5, <3>9, <3>10
    <3>12. [middle EXCEPT ![i] = item] = [items EXCEPT ![i] = item]
      BY <2>1, <3>8, <1>1
    <3> QED BY <3>11, <3>12
  <2>2. CASE i \notin AvItems
    BY <2>2, <1>1, <1>3, <1>4
  <2> QED BY <2>1, <2>2
<1>7. i \in AvItems => ItemShaped(item) /\ item.version \in Nat
                       /\ item.version > stored.items[i].version
  <2> SUFFICES ASSUME i \in AvItems
               PROVE  ItemShaped(item) /\ item.version \in Nat
                      /\ item.version > stored.items[i].version
    OBVIOUS
  <2>1. PICK version : version = items[i].version
    OBVIOUS
  <2>2. version \in Nat /\ version = stored.items[i].version
    BY <2>1, <1>1 DEF StoredItems
  <2>3. item.version = version + 1 /\ ItemShaped(item)
    BY <2>1, <1>5 DEF ItemShaped
  <2> QED BY <2>2, <2>3
<1>8. later = [items |-> [stored.items EXCEPT ![i] = item], order |-> order]
  BY <1>1, <1>6
<1>9. CatalogMoves(stored, later) /\ OnlyItemMoves(stored, later, i)
  BY <1>7, <1>8, ItemReplaced
<1> QED BY <1>4, <1>9 DEF RetiredNow

LEMMA OrderReplaced ==
  ASSUME NEW stored, StoredItems(stored), NEW ids, NEW later,
         later = [stored EXCEPT !.order = ids]
  PROVE  CatalogMoves(stored, later) /\ later.items = stored.items
<1>1. later = [items |-> stored.items, order |-> ids]
  BY DEF StoredItems, CatalogShaped
<1> QED BY <1>1 DEF StoredItems, CatalogShaped, CatalogMoves, ItemsLater

\* An accepted write changes what its dialog showed, and nothing else.
LEMMA AppliedMoves ==
  ASSUME ItemsInv, RequestKnown(avCall.request, avCall.shown, avServer),
         CatalogAccepts(avCall.request), avServer' = AppliedTo(avCall.request)
  PROVE  CatalogMoves(avServer, avServer') /\ WritesReplaceWhatWasShown
<1> DEFINE request == avCall.request
           shown == avCall.shown
<1>1. StoredItems(avServer)
  BY DEF ItemsInv
<1>2. CASE request.kind = "create"
  <2>1. PICK i : i = CHOOSE j \in UnusedItems : TRUE
    OBVIOUS
  <2>2. i \in UnusedItems
    BY <1>2, <2>1 DEF CatalogAccepts
  <2>3. PICK no \in BOOLEAN : no = FALSE
    OBVIOUS
  <2>4. PICK item : item = [version |-> 1, retired |-> no, text |-> request.text]
    OBVIOUS
  <2>5. PICK order : order = Append(avServer.order, i)
    OBVIOUS
  <2>6. AppliedTo(request) = WithNew(avServer, i, request.text)
    BY <1>2, <2>1 DEF AppliedTo
  <2>7. avServer' = [items |-> [avServer.items EXCEPT ![i] = item], order |-> order]
    BY <2>3, <2>4, <2>5, <2>6 DEF WithNew
  <2>8. i \in AvItems /\ avServer.items[i] = AbsentItem
    BY <2>2 DEF UnusedItems
  <2>9. ItemShaped(item) /\ item.version = 1
    BY <2>4 DEF ItemShaped
  <2>10. CatalogMoves(avServer, avServer') /\ OnlyItemMoves(avServer, avServer', i)
    BY <1>1, <2>7, <2>8, <2>9, AbsentItemIs, ItemReplaced
  <2>11. shown.items[i] = AbsentItem
    BY <1>2, <2>8 DEF RequestKnown, NoCatalog
  <2> QED BY <1>2, <2>8, <2>10, <2>11 DEF WritesReplaceWhatWasShown, OnlyItemMoves
<1>3. ASSUME request.kind \in {"update", "retire"}
      PROVE  request.item \in AvItems => avServer.items[request.item] = shown.items[request.item]
  BY <1>3 DEF CatalogAccepts, RequestKnown, WasItem
<1>4. ASSUME request.kind \in {"update", "retire"}, CatalogMoves(avServer, avServer'),
             OnlyItemMoves(avServer, avServer', request.item)
      PROVE  WritesReplaceWhatWasShown
  <2>1. request.kind # "order"
    BY <1>4
  <2> QED BY <1>3, <1>4, <2>1 DEF WritesReplaceWhatWasShown, OnlyItemMoves
<1>5. CASE request.kind = "update"
  <2>1. CASE avServer.items[request.item].text = request.text
    <3>1. avServer' = avServer
      BY <1>5, <2>1 DEF AppliedTo
    <3> QED BY <1>1, <3>1, StoredWas DEF CatalogMoves, WritesReplaceWhatWasShown
  <2>2. CASE avServer.items[request.item].text # request.text
    BY <1>5, <2>2, <1>1, TextReplaced, <1>4 DEF AppliedTo, SayingNow
  <2> QED BY <2>1, <2>2
<1>6. CASE request.kind = "retire"
  BY <1>6, <1>1, RetiredReplaced, <1>4 DEF AppliedTo, RetiredNow
<1>7. CASE request.kind = "order"
  BY <1>7, <1>1, OrderReplaced
  DEF AppliedTo, CatalogAccepts, RequestKnown, WritesReplaceWhatWasShown
<1> QED BY <1>2, <1>5, <1>6, <1>7 DEF RequestKnown

LEMMA ServeCallHolds ==
  ASSUME ItemsInv, ServeCall
  PROVE  WritesHold
<1> DEFINE request == avCall.request
           replayed == {a \in avAnswers : a.request = request}
<1>1. /\ avCall.stage = "sent"
      /\ UNCHANGED <<avCache, avRead, avDialogs, avProblem, avAllowed, avLost>>
  BY DEF ServeCall
<1>2. avCall = [stage |-> avCall.stage, request |-> avCall.request, shown |-> avCall.shown,
                catalog |-> avCall.catalog]
  BY DEF ItemsInv, AvCallSound
<1>3. RequestKnown(request, avCall.shown, avServer)
  BY <1>1 DEF ItemsInv, AvCallSound
<1>4. CASE replayed # {}
  BY <1>4, <1>2, <1>1, CatalogRests, CatalogHeld
  DEF ServeCall, AvCallSound, ItemsInv, AvAnswersSound, avDialogs
<1>5. CASE replayed = {} /\ ~CatalogAccepts(request)
  BY <1>5, <1>2, <1>1, CatalogRests, CatalogHeld DEF ServeCall, AvCallSound, ItemsInv, avDialogs
<1>6. CASE replayed = {} /\ CatalogAccepts(request)
  <2>1. /\ avServer' = AppliedTo(request)
        /\ avCall' = [avCall EXCEPT !.stage = "saved", !.catalog = avServer']
        /\ avAnswers' = avAnswers \cup {[request |-> request, catalog |-> avServer']}
    BY <1>6 DEF ServeCall
  <2>2. CatalogMoves(avServer, avServer') /\ WritesReplaceWhatWasShown
    BY <1>3, <1>6, <2>1, AppliedMoves
  <2>3. StoredItems(avServer) /\ StoredItems(avServer') /\ ItemsLater(avServer, avServer')
    BY <2>2 DEF CatalogMoves, ItemsInv
  <2>4. WasOfCatalog(avServer', avServer')
    BY <2>3, StoredWas
  <2>5. avCall' = [stage |-> "saved", request |-> request, shown |-> avCall.shown,
                   catalog |-> avServer']
    BY <1>2, <2>1
  <2>6. AvCallSound(avCall', avServer')
    BY <2>4, <2>5 DEF AvCallSound
  <2>7. AvAnswersSound(avAnswers', avServer')
    BY <2>1, <2>3, <2>4, CatalogStaysPast DEF AvAnswersSound, ItemsInv
  <2>8. ItemsInv'
    BY <1>1, <2>3, <2>6, <2>7, CatalogMovesOn DEF avDialogs
  <2> QED BY <2>2, <2>8 DEF WritesHold
<1> QED BY <1>4, <1>5, <1>6

(* The calls end, and the catalog is read.                                  *)
LEMMA CallEndsHolds ==
  ASSUME ItemsInv, CallBreaks \/ CallFails
  PROVE  WritesHold
<1>1. avCall = [stage |-> avCall.stage, request |-> avCall.request, shown |-> avCall.shown,
                catalog |-> avCall.catalog]
  BY DEF ItemsInv, AvCallSound
<1>2. CASE CallBreaks
  BY <1>2, <1>1, CatalogRests, CatalogHeld DEF CallBreaks, AvCallSound, ItemsInv, avDialogs
<1>3. CASE CallFails
  <2>1. avRead' \in {avRead, CatalogAsked} /\ avCall' = NoCallYet
        /\ UNCHANGED <<avServer, avAnswers, avCache, avDialogs>>
    BY <1>3 DEF CallFails
  <2> QED BY <2>1, CatalogRests, CatalogHeld DEF avDialogs
<1> QED BY <1>2, <1>3

LEMMA CallSucceedsHolds ==
  ASSUME ItemsInv, CallSucceeds
  PROVE  WritesHold
<1>1. WasOfCatalog(CatalogCached, avServer)
  <2>1. PICK i : i = SavedItem
    OBVIOUS
  <2>2. PICK item : item = avCall.catalog.items[i]
    OBVIOUS
  <2>3. PICK order : order = IF i \in ItemsIn(avCache.order) THEN avCache.order
                             ELSE Append(avCache.order, i)
    OBVIOUS
  <2>4. PICK merged : merged = [items |-> [avCache.items EXCEPT ![i] = item], order |-> order]
    OBVIOUS
  <2>5. CatalogCached \in {avCache, avCall.catalog, merged}
    BY <2>1, <2>2, <2>3, <2>4 DEF CatalogCached
  <2>6. PICK items : items = avCache.items /\ items = [j \in AvItems |-> items[j]]
    BY CatalogHeld DEF WasOfCatalog, CatalogShaped
  <2>7. PICK next : next = [items EXCEPT ![i] = item]
    OBVIOUS
  <2>8. merged = [items |-> next, order |-> order]
    BY <2>4, <2>6, <2>7
  <2>9. next = [j \in AvItems |-> IF j = i THEN item ELSE items[j]]
    BY <2>6, <2>7
  <2>10. CatalogShaped(merged)
    BY <2>8, <2>9 DEF CatalogShaped
  <2>11. ASSUME NEW j \in AvItems
         PROVE  WasItem(merged.items[j], avServer, j)
    <3>1. merged.items[j] = IF j = i THEN avCall.catalog.items[j] ELSE avCache.items[j]
      BY <2>2, <2>6, <2>8, <2>9
    <3> QED BY <3>1, CatalogHeld DEF WasOfCatalog
  <2>12. WasOfCatalog(merged, avServer)
    BY <2>10, <2>11 DEF WasOfCatalog
  <2> QED BY <2>5, <2>12, CatalogHeld
<1>2. /\ avAnswers' \subseteq avAnswers /\ avCache' = CatalogCached /\ avRead' = CatalogAsked
      /\ avCall' = NoCallYet /\ avEditor' \in {avEditor, NoEditor}
      /\ avRetiring' \in {avRetiring, NoRetiring} /\ UNCHANGED avServer
  BY DEF CallSucceeds
<1> QED BY <1>1, <1>2, CatalogRests, CatalogHeld

LEMMA CatalogReadingHolds ==
  ASSUME ItemsInv,
         RefreshCatalog \/ ServeCatalog \/ CatalogArrives \/ CatalogReadFails
           \/ PermissionChecked
  PROVE  WritesHold
<1>1. CASE RefreshCatalog
  BY <1>1, CatalogRests, CatalogHeld DEF RefreshCatalog, avDialogs
<1>2. CASE ServeCatalog
  <2>1. CatalogReadKnown(avRead', avServer)
    BY <1>2, CatalogHeld, StoredWas DEF ServeCatalog, CatalogReadKnown
  <2> QED BY <1>2, <2>1, CatalogRests, CatalogHeld DEF ServeCatalog, avDialogs
<1>3. CASE CatalogArrives
  BY <1>3, CatalogRests, CatalogHeld DEF CatalogArrives, avDialogs
<1>4. CASE CatalogReadFails
  BY <1>4, CatalogRests, CatalogHeld DEF CatalogReadFails, avDialogs
<1>5. CASE PermissionChecked
  BY <1>5, CatalogRests, CatalogHeld DEF PermissionChecked, avDialogs
<1> QED BY <1>1, <1>2, <1>3, <1>4, <1>5

LEMMA OthersEditItemHolds ==
  ASSUME ItemsInv, OthersEditItem
  PROVE  WritesHold
<1>1. UNCHANGED <<avAnswers, avCache, avRead, avDialogs, avCall>>
  BY DEF OthersEditItem
<1>2. StoredItems(avServer)
  BY DEF ItemsInv
<1>3. PICK yes \in BOOLEAN : yes = TRUE
  OBVIOUS
<1>4. PICK i \in ItemsIn(ActiveItems(avServer)) :
        \/ \E text \in AvTexts \ {avServer.items[i].text} :
             avServer' = SayingNow(avServer, i, text)
        \/ avServer' = RetiredNow(avServer, i, yes)
        \/ \E k \in DOMAIN avServer.order \ {1} :
             avServer' = [avServer EXCEPT !.order = MovedItem(@, k, k - 1)]
  BY <1>3 DEF OthersEditItem, SayingNow, RetiredNow
<1>5. CatalogMoves(avServer, avServer')
  BY <1>2, TextReplaced, RetiredReplaced, OrderReplaced, <1>4
<1>6. StoredItems(avServer') /\ ItemsLater(avServer, avServer')
  BY <1>5 DEF CatalogMoves
<1>7. AvAnswersSound(avAnswers', avServer')
  BY <1>1, <1>2, <1>6, CatalogStaysPast DEF AvAnswersSound, ItemsInv
<1>8. AvCallSound(avCall', avServer')
  BY <1>1, <1>2, <1>6, CatalogStaysPast, RequestStaysKnown DEF AvCallSound, ItemsInv
<1>9. ItemsInv'
  BY <1>1, <1>6, <1>7, <1>8, CatalogMovesOn
<1> QED BY <1>1, <1>9 DEF WritesHold, WritesReplaceWhatWasShown

LEMMA ItemsGoOn ==
  ASSUME ItemsInv, [CatalogNext]_avvars
  PROVE  WritesHold
<1>1. CASE CatalogNext
  BY <1>1, StartEditorHolds, UpdateFormHolds, ClosingHolds, OpeningHolds, SaveItemHolds,
     RetireItemHolds, SaveOrderHolds, ServeCallHolds, CallEndsHolds, CallSucceedsHolds,
     CatalogReadingHolds, OthersEditItemHolds DEF CatalogNext
<1>2. CASE UNCHANGED avvars
  BY <1>2, CatalogRests, CatalogHeld DEF avvars
<1> QED BY <1>1, <1>2

-----------------------------------------------------------------------------
(* The run's action property: the two components together.                  *)

EditsInv == SwitchesInv /\ ItemsInv

\* For any notification kinds, items, texts, faults and acts of others: a save changes
\* only the switches that were chosen, and a write replaces an item, its retirement or
\* the order only from the state its dialog showed (useNotificationSettingsController,
\* useAchievementCatalogPanel, useAchievementOrderEditor).
THEOREM OthersChangesKept == Spec => OthersChangesSurvive
<1> DEFINE Rest == /\ SaveChangesOnlyWhatWasChosen
                   /\ WritesReplaceWhatWasShown
<1>1. Init => EditsInv
  <2> SUFFICES ASSUME Init PROVE EditsInv
    OBVIOUS
  <2>1. NotificationInit /\ CatalogInit
    BY DEF Init
  <2> QED BY <2>1, SwitchesStart, ItemsStart DEF EditsInv
<1>2. EditsInv /\ [Next]_<<part, acvars, nsvars, avvars, rdvars, mcvars, exvars>>
        => EditsInv' /\ [Rest]_<<acvars, nsvars, avvars, rdvars, mcvars, exvars>>
  BY SwitchesGoOn, ItemsGoOn DEF Next, EditsInv, SwitchesHold, WritesHold
<1> HIDE DEF Rest
<1>3. Spec => [][Rest]_<<acvars, nsvars, avvars, rdvars, mcvars, exvars>>
  BY <1>1, <1>2, PTL DEF Spec
<1> QED BY <1>3 DEF Rest, OthersChangesSurvive
=============================================================================
