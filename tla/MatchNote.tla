----------------------------- MODULE MatchNote -----------------------------
(***************************************************************************)
(* The shared note of a match on its detail page (features/matches/note and *)
(* features/matches/detail): one write at a time against a versioned note, *)
(* the re-read after a version conflict, the refresh after a write, the    *)
(* text that stays when the match turns out to be gone, and the deletion   *)
(* of the match next to it.  Other users change the note and delete the    *)
(* match, answers are lost after they were served, and a read brings what  *)
(* the server held when it was served.                                     *)
(***************************************************************************)
EXTENDS Integers, FiniteSets

CONSTANTS MnTexts,    \* bodies a note may have
          MnVersions, \* how often the note changes
          MnFaults    \* how many calls fail

Nobody == "no note"
Bodies == MnTexts \cup {Nobody}
NoNote == [version |-> 0, body |-> Nobody]
Gone == [version |-> -1, body |-> Nobody]
NoSnapshot == [version |-> -2, body |-> Nobody]
NoIntent == [body |-> Nobody, expected |-> -2]

VARIABLES mnServer, \* [note, answers]: the note, and the answer each key replays
          mnCache,  \* what the page shows: a note, or Gone
          mnRead,   \* [stage, note]: a read, and the note it brings once served
          mnEdit,   \* MatchNoteEditingState: baseline, draft, conflict, deletion
          mnWrite,  \* [stage, intent, version]: the write in flight
          mnAfter,  \* [kind, intent, gen]: what waits for the re-read
          mnGen,    \* editingGenerationRef, modulo two: one re-read sees one change
          mnErase,  \* the deletion of the match: "closed", "open", "sent"
          mnShown,  \* versions the current editing or deletion has shown (history)
          mnWrites, \* [expected, shown] of every write the server took (history)
          mnLost    \* faults so far

mnvars == <<mnServer, mnCache, mnRead, mnEdit, mnWrite, mnAfter, mnGen, mnErase,
            mnShown, mnWrites, mnLost>>

EmptyEditing == [baseline |-> NoSnapshot, draft |-> Nobody, conflict |-> NoSnapshot,
                 deletion |-> NoSnapshot]
NoWrite == [stage |-> "idle", intent |-> NoIntent, version |-> -2]
NoRead == [stage |-> "idle", note |-> NoSnapshot]
AskedRead == [NoRead EXCEPT !.stage = "asked"]
NoAfter == [kind |-> "none", intent |-> NoIntent, gen |-> 0]

-----------------------------------------------------------------------------
(* The editing state.                                                      *)

Found == mnCache # Gone
Writing == mnWrite.stage # "idle"
Refreshing == mnAfter.kind # "none"

EditingNote(e) == e.baseline # NoSnapshot
NoteDirty(e) == EditingNote(e) /\ e.draft # e.baseline.body
CanSave(e) == EditingNote(e) /\ e.draft # Nobody
              /\ (NoteDirty(e) \/ e.conflict # NoSnapshot)

\* A save that names whatever version the page shows by now.
IntentOfCache(e) == [body |-> e.draft, expected |-> mnCache.version]

PrepareMatchNoteSave(e) ==
  [body |-> e.draft,
   expected |-> IF e.conflict # NoSnapshot THEN e.conflict.version ELSE e.baseline.version]

BeginEditing(e, note) == [e EXCEPT !.baseline = note, !.draft = note.body,
                                   !.conflict = NoSnapshot]
RetryConflict(e) == IF e.conflict # NoSnapshot THEN [e EXCEPT !.baseline = e.conflict] ELSE e
CancelEditing(e) == [e EXCEPT !.baseline = NoSnapshot, !.draft = Nobody, !.conflict = NoSnapshot]

\* Leaving the deletion dialog alone while a note is pending or dirty.
MatchDeletionDisabled == Writing \/ NoteDirty(mnEdit)

-----------------------------------------------------------------------------
(* The user.                                                               *)

\* A modal dialog covers the page.
PageReachable == mnErase = "closed" /\ mnEdit.deletion = NoSnapshot

StartEditing ==
  /\ PageReachable /\ Found /\ ~EditingNote(mnEdit) /\ ~Writing /\ ~Refreshing
  /\ mnGen' = 1 - mnGen
  /\ mnEdit' = BeginEditing(mnEdit, mnCache)
  /\ mnShown' = {mnCache.version}
  /\ UNCHANGED <<mnServer, mnCache, mnRead, mnWrite, mnAfter, mnErase, mnWrites, mnLost>>

MayType == EditingNote(mnEdit) /\ ~Writing

ChangeDraft == \E text \in Bodies :
  /\ PageReachable /\ Found /\ MayType
  /\ mnEdit.draft # text
  /\ mnEdit' = [mnEdit EXCEPT !.draft = text]
  /\ UNCHANGED <<mnServer, mnCache, mnRead, mnWrite, mnAfter, mnGen, mnErase, mnShown,
                 mnWrites, mnLost>>

\* Also how the text of a match that is gone is thrown away.
CancelNote ==
  /\ PageReachable /\ EditingNote(mnEdit) /\ ~Writing
  /\ mnGen' = 1 - mnGen
  /\ mnEdit' = CancelEditing(mnEdit)
  /\ UNCHANGED <<mnServer, mnCache, mnRead, mnWrite, mnAfter, mnErase, mnShown, mnWrites, mnLost>>

SubmitNote(intent, edit) ==
  /\ ~Writing /\ ~Refreshing /\ Found
  /\ mnWrite' = [stage |-> "sent", intent |-> intent, version |-> -2]
  /\ mnEdit' = edit
  /\ UNCHANGED <<mnServer, mnCache, mnRead, mnAfter, mnGen, mnErase, mnShown, mnWrites, mnLost>>

SaveNote ==
  /\ PageReachable /\ CanSave(mnEdit)
  /\ SubmitNote(PrepareMatchNoteSave(mnEdit), RetryConflict(mnEdit))

\* The deletion names the version it was asked for.
RequestDelete ==
  /\ PageReachable /\ Found /\ ~EditingNote(mnEdit) /\ mnCache.body # Nobody
  /\ ~Writing /\ ~Refreshing
  /\ mnEdit' = [mnEdit EXCEPT !.deletion = mnCache]
  /\ mnShown' = {mnCache.version}
  /\ UNCHANGED <<mnServer, mnCache, mnRead, mnWrite, mnAfter, mnGen, mnErase, mnWrites, mnLost>>

RemoveNote ==
  /\ mnEdit.deletion # NoSnapshot
  /\ SubmitNote([body |-> Nobody, expected |-> mnEdit.deletion.version], mnEdit)

CancelDelete ==
  /\ mnEdit.deletion # NoSnapshot /\ ~Writing
  /\ mnEdit' = [mnEdit EXCEPT !.deletion = NoSnapshot]
  /\ UNCHANGED <<mnServer, mnCache, mnRead, mnWrite, mnAfter, mnGen, mnErase, mnShown,
                 mnWrites, mnLost>>

\* Showing the page again, or asking for it after a failed refresh.
RetryDisplayRefresh ==
  /\ mnRead = NoRead
  /\ mnRead' = AskedRead
  /\ UNCHANGED <<mnServer, mnCache, mnEdit, mnWrite, mnAfter, mnGen, mnErase, mnShown,
                 mnWrites, mnLost>>

-----------------------------------------------------------------------------
(* The write and what follows it.                                          *)

\* Writing the body the note already has keeps its version.
TakenVersion(intent) ==
  IF intent.body = mnServer.note.body THEN intent.expected ELSE intent.expected + 1

\* A key that has been answered replays its answer.
ServeNote ==
  LET intent == mnWrite.intent
      replayed == {a \in mnServer.answers : a.intent = intent}
      taken == TakenVersion(intent)
      Answered(stage, version) == mnWrite' = [mnWrite EXCEPT !.stage = stage,
                                                             !.version = version]
  IN /\ mnWrite.stage = "sent"
     /\ CASE replayed # {} ->
               /\ Answered("saved", (CHOOSE a \in replayed : TRUE).version)
               /\ UNCHANGED <<mnServer, mnWrites>>
          [] replayed = {} /\ mnServer.note.version # intent.expected ->
               /\ Answered(IF mnServer.note = Gone THEN "failed" ELSE "conflict", -2)
               /\ UNCHANGED <<mnServer, mnWrites>>
          [] replayed = {} /\ mnServer.note.version = intent.expected ->
               /\ taken \in 0..MnVersions
               /\ Answered("saved", taken)
               /\ mnServer' = [note |-> [version |-> taken, body |-> intent.body],
                               answers |-> mnServer.answers
                                           \cup {[intent |-> intent, version |-> taken]}]
               /\ mnWrites' = mnWrites \cup {[expected |-> intent.expected, shown |-> mnShown]}
     /\ UNCHANGED <<mnCache, mnRead, mnEdit, mnAfter, mnGen, mnErase, mnShown, mnLost>>

\* The connection breaks before or after the server took the write.
NoteAnswerLost ==
  /\ mnWrite.stage \in {"sent", "saved"} /\ mnLost < MnFaults
  /\ mnWrite' = [mnWrite EXCEPT !.stage = "failed"]
  /\ mnLost' = mnLost + 1
  /\ UNCHANGED <<mnServer, mnCache, mnRead, mnEdit, mnAfter, mnGen, mnErase, mnShown, mnWrites>>

WriteFailedNote ==
  /\ mnWrite.stage = "failed"
  /\ mnWrite' = NoWrite
  /\ UNCHANGED <<mnServer, mnCache, mnRead, mnEdit, mnAfter, mnGen, mnErase, mnShown,
                 mnWrites, mnLost>>

\* refetch drops the read in flight and asks again.
Refetch(kind) ==
  /\ mnRead' = AskedRead
  /\ mnAfter' = [kind |-> kind, intent |-> mnWrite.intent, gen |-> mnGen]

WriteConflicted ==
  /\ mnWrite.stage = "conflict"
  /\ Refetch("conflict")
  /\ mnWrite' = NoWrite
  /\ UNCHANGED <<mnServer, mnCache, mnEdit, mnGen, mnErase, mnShown, mnWrites, mnLost>>

\* Only a cache that still holds what the write replaced takes the new note.
CommitMatchNoteCache(intent, version) ==
  IF mnCache.version = intent.expected THEN [version |-> version, body |-> intent.body]
  ELSE mnCache

WriteSavedNote ==
  /\ mnWrite.stage = "saved"
  /\ mnEdit' = EmptyEditing
  /\ mnCache' = CommitMatchNoteCache(mnWrite.intent, mnWrite.version)
  /\ Refetch("saved")
  /\ mnWrite' = NoWrite
  /\ UNCHANGED <<mnServer, mnGen, mnErase, mnShown, mnWrites, mnLost>>

ServeRead ==
  /\ mnRead = AskedRead
  /\ mnRead' = [stage |-> "served", note |-> mnServer.note]
  /\ UNCHANGED <<mnServer, mnCache, mnEdit, mnWrite, mnAfter, mnGen, mnErase, mnShown,
                 mnWrites, mnLost>>

\* What the re-read after a conflict does to the editing it belongs to.
AfterConflict(read) ==
  IF mnAfter.kind # "conflict" \/ mnAfter.gen # mnGen \/ read = Gone
    THEN UNCHANGED <<mnEdit, mnShown>>
    ELSE IF mnAfter.intent.body = Nobody
    THEN mnEdit' = [mnEdit EXCEPT !.deletion = NoSnapshot] /\ UNCHANGED mnShown
    ELSE mnEdit' = [mnEdit EXCEPT !.conflict = read] /\ mnShown' = mnShown \cup {read.version}

ReadArrives ==
  /\ mnRead.stage = "served"
  /\ mnCache' = mnRead.note
  /\ AfterConflict(mnRead.note)
  /\ mnRead' = NoRead /\ mnAfter' = NoAfter
  /\ UNCHANGED <<mnServer, mnWrite, mnGen, mnErase, mnWrites, mnLost>>

\* A failed read leaves the page as it is, and the conflict without a latest note.
ReadFails ==
  /\ mnRead # NoRead /\ mnLost < MnFaults
  /\ mnRead' = NoRead /\ mnAfter' = NoAfter
  /\ mnLost' = mnLost + 1
  /\ UNCHANGED <<mnServer, mnCache, mnEdit, mnWrite, mnGen, mnErase, mnShown, mnWrites>>

-----------------------------------------------------------------------------
(* Others, and the deletion of the match.                                  *)

OthersWriteNote == \E body \in Bodies :
  /\ mnServer.note # Gone /\ mnServer.note.version < MnVersions
  /\ mnServer' = [mnServer EXCEPT !.note = [version |-> @.version + 1, body |-> body]]
  /\ UNCHANGED <<mnCache, mnRead, mnEdit, mnWrite, mnAfter, mnGen, mnErase, mnShown,
                 mnWrites, mnLost>>

MatchIsDeleted ==
  /\ mnServer.note # Gone
  /\ mnServer' = [mnServer EXCEPT !.note = Gone]
  /\ mnErase' = IF mnErase = "sent" THEN "done" ELSE mnErase
  /\ UNCHANGED <<mnCache, mnRead, mnEdit, mnWrite, mnAfter, mnGen, mnShown, mnWrites, mnLost>>

OpenMatchDeletion ==
  /\ PageReachable /\ Found /\ ~MatchDeletionDisabled
  /\ mnErase' = "open"
  /\ UNCHANGED <<mnServer, mnCache, mnRead, mnEdit, mnWrite, mnAfter, mnGen, mnShown,
                 mnWrites, mnLost>>

ConfirmMatchDeletion == \E to \in {"closed", "sent"} :
  /\ mnErase = "open"
  /\ to = "sent" => ~MatchDeletionDisabled
  /\ mnErase' = to
  /\ UNCHANGED <<mnServer, mnCache, mnRead, mnEdit, mnWrite, mnAfter, mnGen, mnShown,
                 mnWrites, mnLost>>

MatchDeletionFails ==
  /\ mnErase = "sent" /\ mnLost < MnFaults
  /\ mnErase' = "open" /\ mnLost' = mnLost + 1
  /\ UNCHANGED <<mnServer, mnCache, mnRead, mnEdit, mnWrite, mnAfter, mnGen, mnShown, mnWrites>>

NoteInit == \E body \in Bodies :
  /\ mnServer = [note |-> [version |-> 0, body |-> body], answers |-> {}]
  /\ mnCache = [version |-> 0, body |-> body] /\ mnRead = NoRead
  /\ mnEdit = EmptyEditing /\ mnWrite = NoWrite /\ mnAfter = NoAfter
  /\ mnGen = 0 /\ mnErase = "closed" /\ mnShown = {} /\ mnWrites = {} /\ mnLost = 0

NoteNext ==
  \/ StartEditing \/ ChangeDraft \/ CancelNote \/ SaveNote
  \/ RequestDelete \/ RemoveNote \/ CancelDelete \/ RetryDisplayRefresh
  \/ ServeNote \/ NoteAnswerLost \/ WriteFailedNote \/ WriteConflicted \/ WriteSavedNote
  \/ ServeRead \/ ReadArrives \/ ReadFails
  \/ OthersWriteNote \/ MatchIsDeleted
  \/ OpenMatchDeletion \/ ConfirmMatchDeletion \/ MatchDeletionFails

NoteSpec == NoteInit /\ [][NoteNext]_mnvars
-----------------------------------------------------------------------------
(* Properties.                                                             *)

Notes == [version : -2..MnVersions, body : Bodies]

\* Every variable has its type.
NoteTypeOK ==
  /\ mnServer.note \in Notes /\ mnCache \in Notes
  /\ mnRead \in [stage : {"idle", "asked", "served"}, note : Notes]
  /\ \A f \in {"baseline", "conflict", "deletion"} : mnEdit[f] \in Notes
  /\ mnEdit.draft \in Bodies
  /\ mnWrite.stage \in {"idle", "sent", "saved", "conflict", "failed"}
  /\ mnAfter.kind \in {"none", "conflict", "saved"}
  /\ mnGen \in 0..1 /\ mnErase \in {"closed", "open", "sent", "done"}

\* A write replaces only a note this editing has shown its user: the one it
\* started from, or the latest one shown beside the input after a conflict -
\* never one that came with a refresh behind the open input
\* (matchNoteEditing.ts, baselines and conflict versions move together).
OverwritesOnlyWhatWasShown == \A w \in mnWrites : w.expected \in w.shown
=============================================================================
