------------------------ MODULE WebMatchesActs_proofs -----------------------
(* Proofs about WebMatchesMC: what an answer that comes late may do, and     *)
(* what a save may replace.  Both are about steps of several components;     *)
(* the components' invariants do not depend on each other.                   *)
EXTENDS WebMatches_proofs

-----------------------------------------------------------------------------
(***************************************************************************)
(* The capture page: nothing it still handles after it was left sends      *)
(* anything.                                                               *)
(***************************************************************************)

(* What a page that is gone still sends.                                    *)
LEMMA AnswersSendNothing ==
  ASSUME ~mounted, NEW r, Serve(r) \/ Break(r)
  PROVE  net' \subseteq net
<1>1. ASSUME NEW pc, NEW request, Continue(pc, request, net \ {r})
      PROVE  net' = net \ {r}
  BY <1>1 DEF Continue
<1>2. CASE ServeDraft(r)
  BY <1>1, <1>2 DEF ServeDraft, Answer, DraftAnswered
<1>3. CASE ServePut(r)
  BY <1>3 DEF ServePut, Answer
<1>4. CASE ServeUpload(r)
  BY <1>1, <1>4 DEF ServeUpload, Answer, UploadAnswered
<1>5. CASE ServeGetJob(r)
  BY <1>5 DEF ServeGetJob, Answer
<1>6. CASE ServeJob(r)
  BY <1>6 DEF ServeJob, Answer
<1>7. CASE Break(r)
  BY <1>7 DEF Break
<1> QED BY <1>2, <1>3, <1>4, <1>5, <1>6, <1>7 DEF Serve

LEMMA CaptureSendsNothing ==
  ASSUME [CaptureNext]_cvars
  PROVE  SendsNothingAfterLeaving
<1> SUFFICES ASSUME ~mounted PROVE net' \subseteq net
  BY DEF SendsNothingAfterLeaving
<1>1. CASE PageNext
  <2>1. CASE AddImage \/ ClearAllImages \/ ReviewSubmission \/ CloseDialog \/ ViewMatches \/ Unmount
    BY <2>1 DEF AddImage, ClearAllImages, ReviewSubmission, CloseDialog, ViewMatches, Unmount, server
  <2>2. ASSUME NEW k \in Kinds, ClearImage(k) \/ SelectTarget(k) \/ ReadJob(k)
        PROVE  net' = net
    BY <2>2 DEF ClearImage, SelectTarget, ReadJob, server
  <2>3. ASSUME NEW from \in Kinds, NEW to \in Kinds, SwapImages(from, to)
        PROVE  net' = net
    BY <2>3 DEF SwapImages, server
  <2>4. CASE ConfirmUnreadable
    BY <2>4 DEF ConfirmUnreadable
  <2>5. ~Confirm
    BY DEF Confirm
  <2> QED BY <1>1, <2>1, <2>2, <2>3, <2>4, <2>5 DEF PageNext
<1>2. CASE FlowNext
  BY <1>2 DEF FlowNext, StartSlot, FinishFlow, server
<1>3. CASE NetworkNext
  BY <1>3, AnswersSendNothing DEF NetworkNext
<1>4. CASE ServerNext
  BY <1>4 DEF ServerNext, Settle, JobEnds, DeleteDraft, ServerKeeps
<1>5. CASE UNCHANGED cvars
  BY <1>5 DEF cvars, server
<1> QED BY <1>1, <1>2, <1>3, <1>4, <1>5 DEF CaptureNext

-----------------------------------------------------------------------------
(***************************************************************************)
(* The camera: a start that is no longer the newest gives its stream back, *)
(* and closing releases every stream.                                      *)
(***************************************************************************)

(* The inductive invariant: a request whose generation is still the newest  *)
(* is the only one of it, and while it is asked for no stream is shown.     *)
StartShaped(a) ==
  /\ a = [stream |-> a.stream, generation |-> a.generation, stage |-> a.stage]
  /\ a.stream \in Streams /\ a.generation \in Nat
CameraInv ==
  /\ stream = [s \in Streams |-> stream[s]]
  /\ generation \in Nat
  /\ \A a \in starts :
       /\ StartShaped(a) /\ a.generation <= generation
       /\ a.generation = generation => shown /\ ~disabled
       /\ a.generation = generation /\ a.stage = "asking" => current = NoStream
  /\ \A a, b \in starts : a.generation = b.generation => a = b
  /\ CameraIsReleased

LEMMA CameraStarts == CameraInit => CameraInv
BY DEF CameraInit, CameraInv, CameraIsReleased

LEMMA NoStreamIsNone == NoStream \notin Streams
BY CameraAssumption DEF NoStream, Streams

LEMMA StoppedStreams ==
  ASSUME NEW ss
  PROVE  /\ Stopped(ss) = [s \in Streams |-> Stopped(ss)[s]]
         /\ \A s \in Streams : Stopped(ss)[s] = "live" => stream[s] = "live" /\ s \notin ss
BY DEF Stopped

\* Whatever is stopped, asked for or released: nothing becomes live by it.
LEMMA NothingShown ==
  ASSUME CameraInv, stream' = Stopped({current, preview} \ {NoStream})
  PROVE  /\ stream' = [s \in Streams |-> stream'[s]]
         /\ \A s \in Streams : stream'[s] # "live"
<1>1. stream' = [s \in Streams |-> stream'[s]]
  BY StoppedStreams
<1>2. ASSUME NEW s \in Streams, stream'[s] = "live" PROVE FALSE
  <2>1. stream[s] = "live" /\ s \notin {current, preview} \ {NoStream}
    BY <1>2, StoppedStreams
  <2>2. s = current
    BY <2>1 DEF CameraInv, CameraIsReleased
  <2> QED BY <2>1, <2>2, NoStreamIsNone
<1> QED BY <1>1, <1>2

LEMMA Stops ==
  ASSUME CameraInv, Stopping, UNCHANGED starts
  PROVE  CameraInv'
<1>1. generation' = generation + 1 /\ stream' = Stopped({current, preview} \ {NoStream})
  BY DEF Stopping, ReleaseCurrent
<1>2. generation' \in Nat
  BY <1>1 DEF CameraInv
<1>3. ASSUME NEW a \in starts'
      PROVE  StartShaped(a) /\ a.generation <= generation' /\ a.generation # generation'
  BY <1>1, <1>3 DEF CameraInv, StartShaped
<1>4. \A a, b \in starts' : a.generation = b.generation => a = b
  BY DEF CameraInv
<1>5. CameraIsReleased'
  BY <1>1, NothingShown DEF CameraIsReleased
<1> QED BY <1>1, <1>2, <1>3, <1>4, <1>5, NothingShown DEF CameraInv

LEMMA StartsCamera ==
  ASSUME CameraInv, StartCamera
  PROVE  CameraInv'
<1>1. PICK s \in Streams :
        /\ generation' = generation + 1
        /\ starts' = starts \cup {[stream |-> s, generation |-> generation + 1, stage |-> "asking"]}
        /\ stream' = [Stopped({current, preview} \ {NoStream}) EXCEPT ![s] = "asked"]
        /\ current' = NoStream
  BY DEF StartCamera
<1>2. shown /\ ~disabled /\ shown' = shown /\ disabled' = disabled
  BY DEF StartCamera
<1>3. PICK new : new = [stream |-> s, generation |-> generation + 1, stage |-> "asking"]
  OBVIOUS
<1>4. starts' = starts \cup {new}
  BY <1>1, <1>3
<1>5. StartShaped(new) /\ new.generation = generation'
  BY <1>1, <1>3 DEF CameraInv, StartShaped
<1>6. ASSUME NEW a \in starts
      PROVE  StartShaped(a) /\ a.generation <= generation' /\ a.generation # generation'
  BY <1>1, <1>6 DEF CameraInv, StartShaped
<1>7. PICK rest : rest = Stopped({current, preview} \ {NoStream})
  OBVIOUS
<1>8. rest = [x \in Streams |-> rest[x]] /\ \A x \in Streams : rest[x] # "live"
  <2>1. ASSUME NEW x \in Streams, rest[x] = "live" PROVE FALSE
    <3>1. stream[x] = "live" /\ x \notin {current, preview} \ {NoStream}
      BY <1>7, <2>1, StoppedStreams
    <3> QED BY <3>1, NoStreamIsNone DEF CameraInv, CameraIsReleased
  <2> QED BY <1>7, <2>1, StoppedStreams
<1>9. stream' = [rest EXCEPT ![s] = "asked"]
  BY <1>1, <1>7
<1>10. stream' = [x \in Streams |-> stream'[x]] /\ \A x \in Streams : stream'[x] # "live"
  BY <1>8, <1>9
<1>11. generation' \in Nat
  BY <1>1 DEF CameraInv
<1>12. \A a, b \in starts' : a.generation = b.generation => a = b
  BY <1>4, <1>5, <1>6 DEF CameraInv
<1>13. CameraIsReleased'
  BY <1>10 DEF CameraIsReleased
<1> QED BY <1>1, <1>2, <1>4, <1>5, <1>6, <1>10, <1>11, <1>12, <1>13 DEF CameraInv

LEMMA GrantsStream ==
  ASSUME CameraInv, NEW a, StreamGranted(a)
  PROVE  CameraInv'
<1>1. /\ a \in starts /\ a.stage = "asking" /\ StartShaped(a)
      /\ generation' = generation /\ shown' = shown /\ disabled' = disabled
  BY DEF StreamGranted, CameraInv
<1>2. CASE IsCurrentStart(a.generation)
  <2>1. PICK on : on = [a EXCEPT !.stage = "playing"]
    OBVIOUS
  <2>2. /\ stream' = [stream EXCEPT ![a.stream] = "live"] /\ current' = a.stream
        /\ starts' = (starts \ {a}) \cup {on}
    BY <1>2, <2>1 DEF StreamGranted
  <2>3. /\ on = [stream |-> on.stream, generation |-> on.generation, stage |-> on.stage]
        /\ on.stream = a.stream /\ on.generation = a.generation /\ on.stage = "playing"
    BY <1>1, <2>1 DEF StartShaped
  <2>4. a.generation = generation /\ shown /\ ~disabled /\ current = NoStream
    BY <1>1, <1>2 DEF IsCurrentStart, CameraInv
  <2>5. \A b \in starts' : b = on \/ (b \in starts /\ b # a)
    BY <2>2
  <2>6. \A b \in starts : b # a => b.generation # generation
    BY <1>1, <2>4 DEF CameraInv
  <2>7. ASSUME NEW s \in Streams, stream'[s] = "live" PROVE s = current'
    <3>1. CASE s = a.stream
      BY <2>2, <3>1
    <3>2. CASE s # a.stream
      <4>1. stream[s] = "live"
        BY <2>2, <2>7, <3>2 DEF CameraInv
      <4> QED BY <2>4, <4>1, NoStreamIsNone DEF CameraInv, CameraIsReleased
    <3> QED BY <3>1, <3>2
  <2>8. CameraIsReleased'
    BY <1>1, <2>4, <2>7 DEF CameraIsReleased
  <2>9. stream' = [s \in Streams |-> stream'[s]]
    BY <2>2 DEF CameraInv
  <2>10. ASSUME NEW b \in starts'
         PROVE  /\ StartShaped(b) /\ b.generation <= generation'
                /\ b.generation = generation' => shown' /\ ~disabled'
                /\ b.generation = generation' /\ b.stage = "asking" => current' = NoStream
    <3>1. CASE b = on
      BY <1>1, <2>3, <2>4, <3>1 DEF StartShaped, CameraInv
    <3>2. CASE b \in starts /\ b # a
      BY <1>1, <2>6, <3>2 DEF CameraInv
    <3> QED BY <2>5, <3>1, <3>2
  <2>11. \A b, c \in starts' : b.generation = c.generation => b = c
    BY <2>3, <2>4, <2>5, <2>6 DEF CameraInv
  <2> QED BY <1>1, <2>8, <2>9, <2>10, <2>11 DEF CameraInv
<1>3. CASE ~IsCurrentStart(a.generation)
  <2>1. Release(a.stream) /\ EndStart(a)
    BY <1>3 DEF StreamGranted
  <2>2. /\ starts' = starts \ {a} /\ stream' = Stopped({a.stream})
        /\ current' = IF current = a.stream THEN NoStream ELSE current
    BY <2>1 DEF Release, EndStart
  <2>3. /\ stream' = [s \in Streams |-> stream'[s]]
        /\ \A s \in Streams : stream'[s] = "live" => stream[s] = "live" /\ s # a.stream
    BY <2>2, StoppedStreams
  <2>4. CameraIsReleased'
    BY <1>1, <2>2, <2>3 DEF CameraInv, CameraIsReleased
  <2> QED BY <1>1, <2>2, <2>3, <2>4 DEF CameraInv
<1> QED BY <1>2, <1>3

LEMMA DeniesStream ==
  ASSUME CameraInv, NEW a, StreamDenied(a)
  PROVE  CameraInv'
<1>1. /\ a \in starts /\ StartShaped(a) /\ starts' = starts \ {a}
      /\ generation' = generation /\ shown' = shown /\ disabled' = disabled
  BY DEF StreamDenied, EndStart, CameraInv
<1>2. PICK left : left = IF IsCurrentStart(a.generation)
                           THEN Stopped({current, preview} \ {NoStream}) ELSE stream
  OBVIOUS
<1>3. /\ left = [s \in Streams |-> left[s]]
      /\ \A s \in Streams : left[s] = "live" => stream[s] = "live"
      /\ IsCurrentStart(a.generation) => \A s \in Streams : left[s] # "live"
  <2>1. CASE IsCurrentStart(a.generation)
    <3>1. left = Stopped({current, preview} \ {NoStream})
      BY <1>2, <2>1
    <3>2. ASSUME NEW s \in Streams, left[s] = "live" PROVE FALSE
      <4>1. stream[s] = "live" /\ s \notin {current, preview} \ {NoStream}
        BY <3>1, <3>2, StoppedStreams
      <4> QED BY <4>1, NoStreamIsNone DEF CameraInv, CameraIsReleased
    <3> QED BY <3>1, <3>2, StoppedStreams
  <2>2. CASE ~IsCurrentStart(a.generation)
    BY <1>2, <2>2 DEF CameraInv
  <2> QED BY <2>1, <2>2
<1>4. stream' = [left EXCEPT ![a.stream] = "stopped"]
  BY <1>2 DEF StreamDenied
<1>5. /\ stream' = [s \in Streams |-> stream'[s]]
      /\ \A s \in Streams : stream'[s] = "live" => left[s] = "live"
  BY <1>1, <1>3, <1>4 DEF StartShaped
<1>6. current' = IF IsCurrentStart(a.generation) THEN NoStream ELSE current
  BY DEF StreamDenied
<1>7. CameraIsReleased'
  BY <1>1, <1>3, <1>5, <1>6 DEF CameraInv, CameraIsReleased
<1> QED BY <1>1, <1>5, <1>6, <1>7 DEF CameraInv

LEMMA EndsPlaying ==
  ASSUME CameraInv, NEW a, Played(a) \/ PlayFailed(a)
  PROVE  CameraInv'
<1>1. /\ starts' = starts \ {a} /\ generation' = generation /\ shown' = shown /\ disabled' = disabled
      /\ Release(a.stream) \/ UNCHANGED <<stream, current, preview>>
  BY DEF Played, PlayFailed, EndStart
<1>2. CASE Release(a.stream)
  BY <1>1, <1>2, StoppedStreams DEF Release, CameraInv, CameraIsReleased
<1>3. CASE UNCHANGED <<stream, current, preview>>
  BY <1>1, <1>3 DEF CameraInv, CameraIsReleased
<1> QED BY <1>1, <1>2, <1>3

LEMMA CameraGoesOn ==
  ASSUME CameraInv, [CameraNext]_kvars
  PROVE  CameraInv'
<1>1. CASE UNCHANGED <<shown, disabled, generation, stream, current, starts>>
  BY <1>1 DEF CameraInv, CameraIsReleased
<1>2. CASE Stop \/ Disable \/ Leave
  BY <1>2, Stops DEF Stop, Disable, Leave
<1>3. CASE Enable
  BY <1>3 DEF Enable, CameraInv, CameraIsReleased
<1>4. ASSUME NEW a \in starts, StreamGranted(a) \/ StreamDenied(a) \/ Played(a) \/ PlayFailed(a)
      PROVE  CameraInv'
  BY <1>4, GrantsStream, DeniesStream, EndsPlaying
<1>5. CASE Capture
  BY <1>1, <1>5 DEF Capture
<1>6. ASSUME NEW c \in shots, NEW valid \in BOOLEAN, Encoded(c, valid)
      PROVE  CameraInv'
  BY <1>1, <1>6 DEF Encoded
<1>7. ASSUME NEW e \in lists, Listed(e)
      PROVE  CameraInv'
  BY <1>1, <1>7 DEF Listed
<1>8. CASE UNCHANGED kvars
  BY <1>1, <1>8 DEF kvars
<1> QED BY <1>2, <1>3, <1>4, <1>5, <1>6, <1>7, <1>8, StartsCamera DEF CameraNext

-----------------------------------------------------------------------------
(***************************************************************************)
(* The drafts page: who waits for what, and what is known of rows that     *)
(* were removed.                                                           *)
(***************************************************************************)

(* The inductive invariant: who waits for what, and what is known of rows   *)
(* that were removed.                                                       *)
RunSound(run) ==
  /\ run = [draft |-> run.draft, visit |-> run.visit, href |-> run.href]
  /\ run.href # "list"
AwayHasTo == dlHere = "list" => dlTo = NoRow
ListShaped(list) == /\ list = [read |-> list.read, failed |-> list.failed, rows |-> list.rows]
                    /\ list.rows = [d \in DlDrafts |-> list.rows[d]]
ListReadSound(read, gone) ==
  /\ read = [at |-> read.at, by |-> read.by, rows |-> read.rows]
  /\ read.rows = [d \in DlDrafts |-> read.rows[d]]
  /\ read.at = "served" => \A d \in gone : read.rows[d] = "absent"
GoneAtServer(remote, calls, gone) ==
  /\ remote = [d \in DlDrafts |-> remote[d]] /\ calls = [d \in DlDrafts |-> calls[d]]
  /\ \A d \in gone : remote[d] = "gone"
  /\ \A d \in DlDrafts : calls[d] = "done" => remote[d] = "gone"
OwnerShaped(owner) == owner = [checking |-> owner.checking, latest |-> owner.latest]
RowsInv ==
  /\ dlGone \subseteq DlDrafts /\ GoneAtServer(dlServer, dlCalls, dlGone)
  /\ ListShaped(dlList) /\ ListReadSound(dlListRead, dlGone)
  /\ RemovedStaysGone
VisitInv ==
  /\ \A run \in dlRuns : RunSound(run)
  /\ OwnerShaped(dlOwner)
  /\ dlOwner.latest # NoRow => dlOwner.latest = dlAsked
  /\ AwayHasTo
  /\ GoesWhereAskedLast /\ NoCheckIsForgotten
DraftsInv == RowsInv /\ VisitInv

LEMMA DraftsStart == DlInit => DraftsInv
<1> SUFFICES ASSUME DlInit PROVE DraftsInv
  OBVIOUS
<1>1. /\ Unlisted = [d \in DlDrafts |-> Unlisted[d]]
      /\ NoListRead = [at |-> "none", by |-> "check", rows |-> Unlisted]
  BY DEF Unlisted, NoListRead
<1>2. dlList.rows = Unlisted /\ ListShaped(dlList)
  <2>1. PICK no \in BOOLEAN : no = FALSE
    OBVIOUS
  <2>2. dlList = [read |-> no, failed |-> no, rows |-> Unlisted]
    BY <2>1 DEF DlInit
  <2> QED BY <1>1, <2>2 DEF ListShaped
<1>3. ListReadSound(dlListRead, dlGone)
  BY <1>1 DEF DlInit, ListReadSound
<1>4. GoneAtServer(dlServer, dlCalls, dlGone)
  BY DEF DlInit, GoneAtServer
<1>5. RowsInv
  BY <1>2, <1>3, <1>4 DEF DlInit, RowsInv, RemovedStaysGone
<1>6. VisitInv
  BY DEF DlInit, VisitInv, OwnerShaped, NewOwner, AwayHasTo, GoesWhereAskedLast, NoCheckIsForgotten
<1> QED BY <1>5, <1>6 DEF DraftsInv

-----------------------------------------------------------------------------
(* The rows.                                                                 *)
LEMMA NewReads ==
  ASSUME NEW gone
  PROVE  /\ ListReadSound(NoListRead, gone) /\ ListReadSound(NewList, gone)
         /\ ListReadSound([NewList EXCEPT !.by = "user"], gone)
<1>1. /\ NoListRead = [at |-> "none", by |-> "check", rows |-> Unlisted]
      /\ NewList = [at |-> "sent", by |-> "check", rows |-> Unlisted]
  BY DEF NoListRead, NewList
<1>2. [NewList EXCEPT !.by = "user"] = [at |-> "sent", by |-> "user", rows |-> Unlisted]
  BY <1>1
<1>3. Unlisted = [d \in DlDrafts |-> Unlisted[d]]
  BY DEF Unlisted
<1> QED BY <1>1, <1>2, <1>3 DEF ListReadSound

LEMMA RowsRead ==
  ASSUME RowsInv, FetchList \/ UserRefresh \/ ServeList \/ ListArrives \/ ListFails
  PROVE  RowsInv'
<1>1. UNCHANGED <<dlServer, dlCalls, dlGone>>
  BY DEF FetchList, UserRefresh, ServeList, ListArrives, ListFails
<1>2. dlGone \subseteq DlDrafts /\ \A d \in dlGone : dlServer[d] = "gone"
  BY DEF RowsInv, GoneAtServer
<1>3. ListReadSound(dlListRead', dlGone)
  <2>1. CASE FetchList \/ UserRefresh \/ ListArrives \/ ListFails
    BY <2>1, NewReads DEF FetchList, UserRefresh, ListArrives, ListFails
  <2>2. CASE ServeList
    <3>1. dlListRead' = [at |-> "served", by |-> dlListRead.by, rows |-> DraftRows(dlServer)]
      BY <2>2 DEF ServeList, RowsInv, ListReadSound
    <3>2. /\ DraftRows(dlServer) = [d \in DlDrafts |-> DraftRows(dlServer)[d]]
          /\ \A d \in DlDrafts : dlServer[d] = "gone" => DraftRows(dlServer)[d] = "absent"
      BY DEF DraftRows, groupOf
    <3> QED BY <1>2, <3>1, <3>2 DEF ListReadSound
  <2> QED BY <2>1, <2>2
<1>4. ListShaped(dlList') /\ \A d \in dlGone : dlList'.rows[d] = "absent"
  <2>1. CASE FetchList \/ UserRefresh \/ ServeList
    BY <2>1 DEF FetchList, UserRefresh, ServeList, RowsInv, RemovedStaysGone
  <2>2. CASE ListArrives
    <3>1. PICK yes \in BOOLEAN : yes = TRUE
      OBVIOUS
    <3>2. PICK no \in BOOLEAN : no = FALSE
      OBVIOUS
    <3>3. dlListRead.at = "served" /\ dlList' = [read |-> yes, failed |-> no, rows |-> dlListRead.rows]
      BY <2>2, <3>1, <3>2 DEF ListArrives, DlShown
    <3> QED BY <3>3 DEF RowsInv, ListShaped, ListReadSound
  <2>3. CASE ListFails
    <3>1. PICK yes \in BOOLEAN : yes = TRUE
      OBVIOUS
    <3>2. dlList' = [dlList EXCEPT !.failed = yes]
      BY <2>3, <3>1 DEF ListFails
    <3>3. dlList' = [read |-> dlList.read, failed |-> yes, rows |-> dlList.rows]
      BY <3>2 DEF RowsInv, ListShaped
    <3> QED BY <3>3 DEF RowsInv, ListShaped, RemovedStaysGone
  <2> QED BY <2>1, <2>2, <2>3
<1> QED BY <1>1, <1>3, <1>4 DEF RowsInv, RemovedStaysGone

LEMMA RowsLoseRemoved ==
  ASSUME RowsInv, RemovalDone
  PROVE  RowsInv'
<1>1. PICK d \in DlDrafts :
        /\ dlCalls[d] = "done" /\ dlCalls' = [dlCalls EXCEPT ![d] = "none"]
        /\ dlGone' = dlGone \cup {d} /\ dlList' = WithoutRow(d)
  BY DEF RemovalDone, DlShown
<1>2. dlServer' = dlServer /\ dlListRead' \in {NewList, NoListRead}
  BY DEF RemovalDone, Renewed
<1>3. GoneAtServer(dlServer, dlCalls', dlGone')
  BY <1>1 DEF RowsInv, GoneAtServer
<1>4. PICK rows : rows = [dlList.rows EXCEPT ![d] = "absent"]
  OBVIOUS
<1>5. dlList' = [dlList EXCEPT !.rows = rows]
  BY <1>1, <1>4 DEF WithoutRow
<1>6. dlList' = [read |-> dlList.read, failed |-> dlList.failed, rows |-> rows]
  BY <1>5 DEF RowsInv, ListShaped
<1>7. /\ rows = [x \in DlDrafts |-> rows[x]] /\ rows[d] = "absent"
      /\ \A x \in dlGone : rows[x] = "absent"
  BY <1>1, <1>4 DEF RowsInv, ListShaped, RemovedStaysGone
<1>8. ListShaped(dlList') /\ \A x \in dlGone' : dlList'.rows[x] = "absent"
  BY <1>1, <1>6, <1>7 DEF ListShaped
<1>9. ListReadSound(dlListRead', dlGone')
  BY <1>2, NewReads
<1> QED BY <1>1, <1>2, <1>3, <1>8, <1>9 DEF RowsInv, RemovedStaysGone

LEMMA RowsAtServer ==
  ASSUME RowsInv, ConfirmRemoval \/ ServeRemoval \/ RemovalFails \/ DraftMoves
  PROVE  RowsInv'
<1>1. UNCHANGED <<dlList, dlListRead, dlGone>>
  BY DEF ConfirmRemoval, ServeRemoval, RemovalFails, DraftMoves, dlreads
<1>2. GoneAtServer(dlServer, dlCalls, dlGone) /\ dlGone \subseteq DlDrafts
  BY DEF RowsInv
<1>3. GoneAtServer(dlServer', dlCalls', dlGone)
  <2>1. CASE ConfirmRemoval
    BY <1>2, <2>1 DEF ConfirmRemoval, GoneAtServer
  <2>2. CASE RemovalFails
    BY <1>2, <2>2 DEF RemovalFails, GoneAtServer
  <2>3. CASE DraftMoves
    BY <1>2, <2>3 DEF DraftMoves, GoneAtServer
  <2>4. CASE ServeRemoval
    <3>1. PICK d \in DlDrafts, lost \in BOOLEAN, done \in BOOLEAN :
            /\ dlServer' = IF done THEN [dlServer EXCEPT ![d] = "gone"] ELSE dlServer
            /\ dlCalls' = [dlCalls EXCEPT ![d] = IF done /\ ~lost THEN "done" ELSE "failed"]
      BY <2>4 DEF ServeRemoval
    <3>2. CASE done
      BY <1>2, <3>1, <3>2 DEF GoneAtServer
    <3>3. CASE ~done
      BY <1>2, <3>1, <3>3 DEF GoneAtServer
    <3> QED BY <3>2, <3>3
  <2> QED BY <2>1, <2>2, <2>3, <2>4
<1> QED BY <1>1, <1>2, <1>3 DEF RowsInv, RemovedStaysGone

LEMMA RowsWhileChecking ==
  ASSUME RowsInv, NEW d, NEW failed, CheckEnds(d, failed)
  PROVE  RowsInv'
<1>1. UNCHANGED <<dlServer, dlCalls, dlGone>>
  BY DEF CheckEnds
<1>2. dlListRead' \in {dlListRead, NoListRead}
  BY DEF CheckEnds
<1>3. dlList' = dlList \/ dlList' = OutOfDate(dlList)
  BY DEF CheckEnds
<1>4. PICK no \in BOOLEAN : no = FALSE
  OBVIOUS
<1>5. OutOfDate(dlList) = [dlList EXCEPT !.read = no]
  BY <1>4 DEF OutOfDate
<1>6. OutOfDate(dlList) = [read |-> no, failed |-> dlList.failed, rows |-> dlList.rows]
  BY <1>5 DEF RowsInv, ListShaped
<1>7. ListShaped(dlList') /\ dlList'.rows = dlList.rows
  BY <1>3, <1>6 DEF RowsInv, ListShaped
<1>8. ListReadSound(dlListRead', dlGone)
  BY <1>2, NewReads DEF RowsInv
<1> QED BY <1>1, <1>7, <1>8 DEF RowsInv, RemovedStaysGone

LEMMA RowsGoOn ==
  ASSUME RowsInv, [DlNext]_dlvars
  PROVE  RowsInv'
<1>1. CASE UNCHANGED <<dlServer, dlCalls, dlGone, dlList, dlListRead>>
  BY <1>1 DEF RowsInv, RemovedStaysGone
<1>2. CASE ContinueDraft \/ ServeDraftStatus \/ AskRemoval \/ DismissRemoval \/ UNCHANGED dlvars
  BY <1>1, <1>2 DEF ContinueDraft, ServeDraftStatus, AskRemoval, DismissRemoval, dlvars, dlreads
<1>3. CASE LeaveDrafts \/ VisitDrafts
  <2>1. UNCHANGED <<dlServer, dlCalls, dlGone, dlList>> /\ dlListRead' \in {dlListRead, NewList, NoListRead}
    BY <1>3 DEF LeaveDrafts, VisitDrafts
  <2>2. ListReadSound(dlListRead', dlGone)
    BY <2>1, NewReads DEF RowsInv
  <2> QED BY <2>1, <2>2 DEF RowsInv, RemovedStaysGone
<1>4. CASE DraftArrives \/ DraftFails
  BY <1>4, RowsWhileChecking DEF DraftArrives, DraftFails
<1> QED BY <1>2, <1>3, <1>4, RowsRead, RowsLoseRemoved, RowsAtServer DEF DlNext

-----------------------------------------------------------------------------
(* Where the user is, and what he waits for.                                 *)
LEMMA AsksForADraft ==
  ASSUME VisitInv, ContinueDraft
  PROVE  VisitInv'
<1>1. PICK d \in DlDrafts :
        /\ primaryAction(dlList.rows[d]) # "none"
        /\ dlOwner' = [checking |-> dlOwner.checking \cup {d}, latest |-> d]
        /\ dlRuns' = dlRuns \cup {[draft |-> d, visit |-> dlVisit, href |-> primaryAction(dlList.rows[d])]}
        /\ dlAsked' = d
  BY DEF ContinueDraft
<1>2. dlHere = "list" /\ UNCHANGED <<dlHere, dlTo, dlVisit>>
  BY DEF ContinueDraft
<1>3. PICK new : new = [draft |-> d, visit |-> dlVisit, href |-> primaryAction(dlList.rows[d])]
  OBVIOUS
<1>4. RunSound(new) /\ new.draft = d /\ new.visit = dlVisit
  BY <1>3 DEF RunSound, primaryAction
<1>5. dlRuns' = dlRuns \cup {new}
  BY <1>1, <1>3
<1>6. \A x \in dlOwner'.checking : \E run \in dlRuns' : run.draft = x /\ run.visit = dlVisit
  BY <1>1, <1>4, <1>5 DEF VisitInv, NoCheckIsForgotten, ownsRun
<1>7. NoCheckIsForgotten'
  BY <1>2, <1>6 DEF NoCheckIsForgotten, ownsRun
<1>8. OwnerShaped(dlOwner') /\ dlOwner'.latest = dlAsked'
  BY <1>1 DEF OwnerShaped
<1>9. AwayHasTo' /\ GoesWhereAskedLast'
  BY <1>2 DEF VisitInv, AwayHasTo, GoesWhereAskedLast
<1> QED BY <1>4, <1>5, <1>7, <1>8, <1>9 DEF VisitInv

LEMMA CheckTakesThere ==
  ASSUME VisitInv, NEW d \in DlDrafts, NEW failed \in BOOLEAN, CheckEnds(d, failed)
  PROVE  VisitInv'
<1> DEFINE runs == {run \in dlRuns : run.draft = d}
           going == {run \in runs : ownsNavigation(run)}
<1>1. dlRuns' = dlRuns \ runs /\ UNCHANGED <<dlAsked, dlVisit>>
  BY DEF CheckEnds
<1>2. CASE going # {} /\ ~(failed \/ dlReading[d].status = "gone")
  <2>1. /\ dlHere' = IF confirmedDraftDestination(dlReading[d].status) THEN "match"
                     ELSE (CHOOSE run \in going : TRUE).href
        /\ dlTo' = d /\ dlOwner' = NewOwner
    BY <1>2 DEF CheckEnds
  <2>2. (CHOOSE run \in going : TRUE) \in going
    BY <1>2
  <2>3. (CHOOSE run \in going : TRUE).href # "list"
    BY <2>2 DEF VisitInv, RunSound
  <2>4. dlHere' # "list"
    BY <2>1, <2>3
  <2>5. dlOwner.latest = d
    BY <1>2 DEF ownsNavigation
  <2>6. GoesWhereAskedLast'
    BY <1>1, <2>1, <2>5 DEF VisitInv, GoesWhereAskedLast
  <2>7. OwnerShaped(dlOwner') /\ dlOwner'.latest = NoRow /\ dlOwner'.checking = {}
    BY <2>1 DEF NewOwner, OwnerShaped
  <2> QED BY <1>1, <2>4, <2>6, <2>7 DEF VisitInv, AwayHasTo, NoCheckIsForgotten
<1>3. CASE ~(going # {} /\ ~(failed \/ dlReading[d].status = "gone"))
  <2>1. /\ UNCHANGED <<dlHere, dlTo>>
        /\ dlOwner' = IF \E run \in runs : ownsRun(run)
                      THEN [dlOwner EXCEPT !.checking = dlOwner.checking \ {d}] ELSE dlOwner
    BY <1>3 DEF CheckEnds
  <2>2. OwnerShaped(dlOwner') /\ dlOwner'.latest = dlOwner.latest /\ dlOwner'.checking \subseteq dlOwner.checking
    BY <2>1 DEF VisitInv, OwnerShaped
  <2>3. d \notin dlOwner'.checking
    <3>1. CASE \E run \in runs : ownsRun(run)
      BY <2>1, <3>1 DEF VisitInv, OwnerShaped
    <3>2. CASE ~(\E run \in runs : ownsRun(run))
      BY <2>1, <3>2 DEF VisitInv, NoCheckIsForgotten
    <3> QED BY <3>1, <3>2
  <2>4. NoCheckIsForgotten'
    <3> SUFFICES ASSUME NEW x \in dlOwner'.checking
                 PROVE  \E run \in dlRuns' : run.draft = x /\ ownsRun(run)'
      BY DEF NoCheckIsForgotten
    <3>1. PICK run \in dlRuns : run.draft = x /\ ownsRun(run)
      BY <2>2 DEF VisitInv, NoCheckIsForgotten
    <3>2. run \in dlRuns'
      BY <1>1, <2>3, <3>1
    <3>3. ownsRun(run)'
      BY <1>1, <2>1, <3>1 DEF ownsRun
    <3> QED BY <3>1, <3>2, <3>3
  <2> QED BY <1>1, <2>1, <2>2, <2>4 DEF VisitInv, AwayHasTo, GoesWhereAskedLast
<1> QED BY <1>2, <1>3

LEMMA ComesAndGoes ==
  ASSUME VisitInv, LeaveDrafts \/ VisitDrafts
  PROVE  VisitInv'
<1>1. dlOwner' = NewOwner /\ dlTo' = NoRow /\ dlRuns' = dlRuns
  BY DEF LeaveDrafts, VisitDrafts
<1>2. OwnerShaped(NewOwner) /\ NewOwner.latest = NoRow /\ NewOwner.checking = {}
  BY DEF NewOwner, OwnerShaped
<1> QED BY <1>1, <1>2 DEF VisitInv, AwayHasTo, GoesWhereAskedLast, NoCheckIsForgotten

LEMMA VisitsGoOn ==
  ASSUME VisitInv, [DlNext]_dlvars
  PROVE  VisitInv'
<1>1. CASE UNCHANGED <<dlRuns, dlpage>>
  BY <1>1 DEF dlpage, VisitInv, AwayHasTo, GoesWhereAskedLast, NoCheckIsForgotten, ownsRun
<1>2. CASE \/ FetchList \/ UserRefresh \/ ServeList \/ ListArrives \/ ListFails
           \/ ServeDraftStatus \/ AskRemoval \/ DismissRemoval \/ ConfirmRemoval \/ ServeRemoval
           \/ RemovalDone \/ RemovalFails \/ DraftMoves \/ UNCHANGED dlvars
  BY <1>1, <1>2 DEF FetchList, UserRefresh, ServeList, ListArrives, ListFails, ServeDraftStatus,
     AskRemoval, DismissRemoval, ConfirmRemoval, ServeRemoval, RemovalDone, RemovalFails, DraftMoves,
     dlvars
<1>3. CASE DraftArrives \/ DraftFails
  BY <1>3, CheckTakesThere DEF DraftArrives, DraftFails
<1> QED BY <1>2, <1>3, AsksForADraft, ComesAndGoes DEF DlNext

-----------------------------------------------------------------------------
(***************************************************************************)
(* The note of a match: whatever a save or a removal names was shown.      *)
(***************************************************************************)

(* The inductive invariant: whatever version a save or a removal would name *)
(* was shown, from the moment it could be named until it is served.         *)
EditShaped(e) == e = [baseline |-> e.baseline, draft |-> e.draft, conflict |-> e.conflict,
                      deletion |-> e.deletion]
NamesShown(e, known) ==
  /\ EditingNote(e) => /\ e.baseline.version \in known
                       /\ e.conflict # NoSnapshot => e.conflict.version \in known
  /\ e.deletion # NoSnapshot => e.deletion.version \in known
NoteInv ==
  /\ EditShaped(mnEdit) /\ NamesShown(mnEdit, mnShown)
  /\ mnWrite = [stage |-> mnWrite.stage, intent |-> mnWrite.intent, version |-> mnWrite.version]
  /\ mnWrite.stage = "sent" => mnWrite.intent.expected \in mnShown
  /\ OverwritesOnlyWhatWasShown

LEMMA EmptyEditingIs == EditShaped(EmptyEditing) /\ NamesShown(EmptyEditing, {})
BY DEF EmptyEditing, EditShaped, NamesShown, EditingNote

LEMMA NoteStarts == NoteInit => NoteInv
<1> SUFFICES ASSUME NoteInit PROVE NoteInv
  OBVIOUS
<1>1. mnEdit = EmptyEditing /\ mnShown = {} /\ mnWrites = {} /\ mnWrite = NoWrite
  BY DEF NoteInit
<1>2. mnWrite = [stage |-> mnWrite.stage, intent |-> mnWrite.intent, version |-> mnWrite.version]
      /\ mnWrite.stage = "idle"
  BY <1>1 DEF NoWrite
<1> QED BY <1>1, <1>2, EmptyEditingIs DEF NoteInv, OverwritesOnlyWhatWasShown

LEMMA EditsNote ==
  ASSUME NoteInv, StartEditing \/ ChangeDraft \/ CancelNote \/ RequestDelete \/ CancelDelete
  PROVE  NoteInv'
<1>1. UNCHANGED <<mnWrite, mnWrites>>
  BY DEF StartEditing, ChangeDraft, CancelNote, RequestDelete, CancelDelete
<1>2. mnShown' = mnShown \/ ~Writing
  BY DEF StartEditing, ChangeDraft, CancelNote, RequestDelete, CancelDelete
<1>3. mnWrite.stage = "sent" => mnWrite.intent.expected \in mnShown'
  BY <1>2 DEF NoteInv, Writing
<1>4. PICK e, edit : e = mnEdit /\ edit = mnEdit'
  OBVIOUS
<1>5. EditShaped(e) /\ NamesShown(e, mnShown)
  BY <1>4 DEF NoteInv
<1>6. EditShaped(edit) /\ NamesShown(edit, mnShown')
  <2>1. CASE StartEditing
    <3>1. /\ edit = [e EXCEPT !.baseline = mnCache, !.draft = mnCache.body, !.conflict = NoSnapshot]
          /\ mnShown' = {mnCache.version} /\ e.deletion = NoSnapshot
      BY <1>4, <2>1 DEF StartEditing, BeginEditing, PageReachable
    <3>2. edit = [baseline |-> mnCache, draft |-> mnCache.body, conflict |-> NoSnapshot,
                  deletion |-> e.deletion]
      BY <1>5, <3>1 DEF EditShaped
    <3> QED BY <3>1, <3>2 DEF EditShaped, NamesShown
  <2>2. CASE ChangeDraft
    <3>1. PICK text : edit = [e EXCEPT !.draft = text]
      BY <1>4, <2>2 DEF ChangeDraft
    <3>2. edit = [baseline |-> e.baseline, draft |-> text, conflict |-> e.conflict, deletion |-> e.deletion]
      BY <1>5, <3>1 DEF EditShaped
    <3>3. mnShown' = mnShown
      BY <2>2 DEF ChangeDraft
    <3> QED BY <1>5, <3>2, <3>3 DEF EditShaped, NamesShown, EditingNote
  <2>3. CASE CancelNote
    <3>1. edit = [e EXCEPT !.baseline = NoSnapshot, !.draft = Nobody, !.conflict = NoSnapshot]
      BY <1>4, <2>3 DEF CancelNote, CancelEditing
    <3>2. edit = [baseline |-> NoSnapshot, draft |-> Nobody, conflict |-> NoSnapshot,
                  deletion |-> e.deletion]
      BY <1>5, <3>1 DEF EditShaped
    <3>3. mnShown' = mnShown
      BY <2>3 DEF CancelNote
    <3> QED BY <1>5, <3>2, <3>3 DEF EditShaped, NamesShown, EditingNote
  <2>4. CASE RequestDelete
    <3>1. edit = [e EXCEPT !.deletion = mnCache] /\ ~EditingNote(e) /\ mnShown' = {mnCache.version}
      BY <1>4, <2>4 DEF RequestDelete
    <3>2. edit = [baseline |-> e.baseline, draft |-> e.draft, conflict |-> e.conflict,
                  deletion |-> mnCache]
      BY <1>5, <3>1 DEF EditShaped
    <3> QED BY <3>1, <3>2 DEF EditShaped, NamesShown, EditingNote
  <2>5. CASE CancelDelete
    <3>1. edit = [e EXCEPT !.deletion = NoSnapshot] /\ mnShown' = mnShown
      BY <1>4, <2>5 DEF CancelDelete
    <3>2. edit = [baseline |-> e.baseline, draft |-> e.draft, conflict |-> e.conflict,
                  deletion |-> NoSnapshot]
      BY <1>5, <3>1 DEF EditShaped
    <3> QED BY <1>5, <3>1, <3>2 DEF EditShaped, NamesShown, EditingNote
  <2> QED BY <2>1, <2>2, <2>3, <2>4, <2>5
<1> QED BY <1>1, <1>3, <1>4, <1>6 DEF NoteInv, OverwritesOnlyWhatWasShown

LEMMA SubmitsNote ==
  ASSUME NoteInv, SaveNote \/ RemoveNote
  PROVE  NoteInv'
<1>1. UNCHANGED <<mnShown, mnWrites>>
  BY DEF SaveNote, RemoveNote, SubmitNote
<1>2. PICK intent, e, edit :
        /\ SubmitNote(intent, edit) /\ e = mnEdit /\ edit = mnEdit'
        /\ \/ CanSave(e) /\ intent = PrepareMatchNoteSave(e) /\ edit = RetryConflict(e)
           \/ e.deletion # NoSnapshot /\ intent.expected = e.deletion.version /\ edit = e
  <2>1. CASE SaveNote
    <3>1. SubmitNote(PrepareMatchNoteSave(mnEdit), RetryConflict(mnEdit)) /\ CanSave(mnEdit)
      BY <2>1 DEF SaveNote
    <3>2. mnEdit' = RetryConflict(mnEdit)
      BY <3>1 DEF SubmitNote
    <3> QED BY <3>1, <3>2
  <2>2. CASE RemoveNote
    <3>1. /\ SubmitNote([body |-> Nobody, expected |-> mnEdit.deletion.version], mnEdit)
          /\ mnEdit.deletion # NoSnapshot
      BY <2>2 DEF RemoveNote
    <3>2. mnEdit' = mnEdit
      BY <3>1 DEF SubmitNote
    <3>3. [body |-> Nobody, expected |-> mnEdit.deletion.version].expected = mnEdit.deletion.version
      OBVIOUS
    <3> QED BY <3>1, <3>2, <3>3
  <2> QED BY <2>1, <2>2
<1>3. EditShaped(e) /\ NamesShown(e, mnShown)
  BY <1>2 DEF NoteInv
<1>4. intent.expected \in mnShown
  BY <1>2, <1>3 DEF PrepareMatchNoteSave, NamesShown, CanSave
<1>5. EditShaped(edit) /\ NamesShown(edit, mnShown)
  <2>1. CASE e.conflict = NoSnapshot \/ edit = e
    BY <1>2, <1>3, <2>1 DEF RetryConflict
  <2>2. CASE e.conflict # NoSnapshot /\ edit # e
    <3>1. edit = [e EXCEPT !.baseline = e.conflict] /\ EditingNote(e)
      BY <1>2, <2>2 DEF RetryConflict, CanSave
    <3>2. edit = [baseline |-> e.conflict, draft |-> e.draft, conflict |-> e.conflict,
                  deletion |-> e.deletion]
      BY <1>3, <3>1 DEF EditShaped
    <3> QED BY <1>3, <3>1, <3>2 DEF EditShaped, NamesShown, EditingNote
  <2> QED BY <2>1, <2>2
<1>6. mnWrite' = [stage |-> "sent", intent |-> intent, version |-> -2]
  BY <1>2 DEF SubmitNote
<1>7. /\ mnWrite' = [stage |-> mnWrite'.stage, intent |-> mnWrite'.intent, version |-> mnWrite'.version]
      /\ mnWrite'.intent = intent
  BY <1>6
<1> QED BY <1>1, <1>2, <1>4, <1>5, <1>7 DEF NoteInv, OverwritesOnlyWhatWasShown

WriteShaped == mnWrite = [stage |-> mnWrite.stage, intent |-> mnWrite.intent, version |-> mnWrite.version]
LEMMA WriteStamped ==
  ASSUME WriteShaped, NEW stage, stage # "sent", NEW version
  PROVE  mnWrite' = [mnWrite EXCEPT !.stage = stage, !.version = version]
           => WriteShaped' /\ mnWrite'.stage # "sent"
<1>1. SUFFICES ASSUME mnWrite' = [mnWrite EXCEPT !.stage = stage, !.version = version]
               PROVE  WriteShaped' /\ mnWrite'.stage # "sent"
  OBVIOUS
<1>2. mnWrite' = [stage |-> stage, intent |-> mnWrite.intent, version |-> version]
  BY <1>1 DEF WriteShaped
<1> QED BY <1>2 DEF WriteShaped

LEMMA ServesNote ==
  ASSUME NoteInv, ServeNote
  PROVE  NoteInv'
<1> DEFINE replayed == {a \in mnServer.answers : a.intent = mnWrite.intent}
           present == mnServer.note.version = mnWrite.intent.expected
<1>1. UNCHANGED <<mnEdit, mnShown>> /\ mnWrite.stage = "sent"
  BY DEF ServeNote
<1>2. WriteShaped
  BY DEF NoteInv, WriteShaped
<1>3. WriteShaped' /\ mnWrite'.stage # "sent"
  <2>1. CASE replayed # {}
    <3>1. mnWrite' = [mnWrite EXCEPT !.stage = "saved", !.version = (CHOOSE a \in replayed : TRUE).version]
      BY <2>1 DEF ServeNote
    <3> QED BY <1>2, <3>1, WriteStamped
  <2>2. CASE replayed = {} /\ ~present
    <3>1. mnWrite' = [mnWrite EXCEPT !.stage = IF mnServer.note = Gone THEN "failed" ELSE "conflict",
                                     !.version = -2]
      BY <2>2 DEF ServeNote
    <3>2. (IF mnServer.note = Gone THEN "failed" ELSE "conflict") # "sent"
      OBVIOUS
    <3> QED BY <1>2, <3>1, <3>2, WriteStamped
  <2>3. CASE replayed = {} /\ present
    <3>1. mnWrite' = [mnWrite EXCEPT !.stage = "saved", !.version = TakenVersion(mnWrite.intent)]
      BY <2>3 DEF ServeNote
    <3> QED BY <1>2, <3>1, WriteStamped
  <2> QED BY <2>1, <2>2, <2>3
<1>4. \/ mnWrites' = mnWrites
      \/ mnWrites' = mnWrites \cup {[expected |-> mnWrite.intent.expected, shown |-> mnShown]}
  BY DEF ServeNote
<1>5. OverwritesOnlyWhatWasShown'
  BY <1>1, <1>4 DEF NoteInv, OverwritesOnlyWhatWasShown
<1> QED BY <1>1, <1>3, <1>5 DEF NoteInv, WriteShaped

LEMMA EndsNoteWrite ==
  ASSUME NoteInv, NoteAnswerLost \/ WriteFailedNote \/ WriteConflicted \/ WriteSavedNote
  PROVE  NoteInv'
<1>1. UNCHANGED <<mnShown, mnWrites>> /\ mnEdit' \in {mnEdit, EmptyEditing}
  BY DEF NoteAnswerLost, WriteFailedNote, WriteConflicted, WriteSavedNote
<1>2. EditShaped(mnEdit') /\ NamesShown(mnEdit', mnShown)
  BY <1>1, EmptyEditingIs DEF NoteInv, NamesShown
<1>3. mnWrite' = NoWrite \/ mnWrite' = [mnWrite EXCEPT !.stage = "failed"]
  BY DEF NoteAnswerLost, WriteFailedNote, WriteConflicted, WriteSavedNote
<1>4. /\ mnWrite' = [stage |-> mnWrite'.stage, intent |-> mnWrite'.intent, version |-> mnWrite'.version]
      /\ mnWrite'.stage # "sent"
  <2>1. PICK write : write = mnWrite'
    OBVIOUS
  <2>2. CASE write = NoWrite
    BY <2>1, <2>2 DEF NoWrite
  <2>3. CASE write = [mnWrite EXCEPT !.stage = "failed"]
    <3>1. write = [stage |-> "failed", intent |-> mnWrite.intent, version |-> mnWrite.version]
      BY <2>3 DEF NoteInv
    <3> QED BY <2>1, <3>1
  <2> QED BY <1>3, <2>1, <2>2, <2>3
<1> QED BY <1>1, <1>2, <1>4 DEF NoteInv, OverwritesOnlyWhatWasShown

LEMMA ReadsNote ==
  ASSUME NoteInv, ReadArrives
  PROVE  NoteInv'
<1>1. UNCHANGED <<mnWrite, mnWrites>> /\ AfterConflict(mnRead.note)
  BY DEF ReadArrives
<1>2. PICK e, edit : e = mnEdit /\ edit = mnEdit'
  OBVIOUS
<1>3. EditShaped(e) /\ NamesShown(e, mnShown)
  BY <1>2 DEF NoteInv
<1>4. \/ edit = e /\ mnShown' = mnShown
      \/ edit = [e EXCEPT !.deletion = NoSnapshot] /\ mnShown' = mnShown
      \/ edit = [e EXCEPT !.conflict = mnRead.note] /\ mnShown' = mnShown \cup {mnRead.note.version}
  BY <1>1, <1>2 DEF AfterConflict
<1>5. mnShown \subseteq mnShown'
  BY <1>4
<1>6. EditShaped(edit) /\ NamesShown(edit, mnShown')
  <2>1. CASE edit = e /\ mnShown' = mnShown
    BY <1>3, <2>1
  <2>2. CASE edit = [e EXCEPT !.deletion = NoSnapshot] /\ mnShown' = mnShown
    <3>1. edit = [baseline |-> e.baseline, draft |-> e.draft, conflict |-> e.conflict,
                  deletion |-> NoSnapshot]
      BY <1>3, <2>2 DEF EditShaped
    <3> QED BY <1>3, <2>2, <3>1 DEF EditShaped, NamesShown, EditingNote
  <2>3. CASE edit = [e EXCEPT !.conflict = mnRead.note] /\ mnShown' = mnShown \cup {mnRead.note.version}
    <3>1. edit = [baseline |-> e.baseline, draft |-> e.draft, conflict |-> mnRead.note,
                  deletion |-> e.deletion]
      BY <1>3, <2>3 DEF EditShaped
    <3>2. mnRead.note.version \in mnShown'
      BY <2>3
    <3> QED BY <1>3, <1>5, <3>1, <3>2 DEF EditShaped, NamesShown, EditingNote
  <2> QED BY <1>4, <2>1, <2>2, <2>3
<1> QED BY <1>1, <1>2, <1>5, <1>6 DEF NoteInv, OverwritesOnlyWhatWasShown

LEMMA NoteGoesOn ==
  ASSUME NoteInv, [NoteNext]_mnvars
  PROVE  NoteInv'
<1>1. CASE UNCHANGED <<mnEdit, mnShown, mnWrite, mnWrites>>
  BY <1>1 DEF NoteInv, OverwritesOnlyWhatWasShown
<1>2. CASE \/ RetryDisplayRefresh \/ ServeRead \/ ReadFails \/ OthersWriteNote \/ MatchIsDeleted
           \/ OpenMatchDeletion \/ ConfirmMatchDeletion \/ MatchDeletionFails \/ UNCHANGED mnvars
  BY <1>1, <1>2 DEF RetryDisplayRefresh, ServeRead, ReadFails, OthersWriteNote, MatchIsDeleted,
     OpenMatchDeletion, ConfirmMatchDeletion, MatchDeletionFails, mnvars
<1> QED BY <1>2, EditsNote, SubmitsNote, ServesNote, EndsNoteWrite, ReadsNote DEF NoteNext

-----------------------------------------------------------------------------
(***************************************************************************)
(* The achievement records: a correction names the copies it was made      *)
(* from, and a key is answered as it was the first time.                   *)
(***************************************************************************)

(* The inductive invariant: a copy of a record or of a match that still has *)
(* the version of what is stored is what is stored.                         *)
AcCopy(copy, claims, c) ==
  copy.ver \in Nat /\ copy.ver <= claims[c].ver /\ (copy.ver = claims[c].ver => copy = claims[c])
AcImage(ver, time, matches, m) ==
  ver \in Nat /\ ver <= matches[m].ver /\ (ver = matches[m].ver => time = matches[m].time)
AcRecords == {"old", "new"}
StoredShaped(claims, matches) ==
  /\ claims = [c \in AcRecords |-> claims[c]]
  /\ \A c \in AcRecords :
       /\ claims[c] = [there |-> claims[c].there, ver |-> claims[c].ver, state |-> claims[c].state,
                       match |-> claims[c].match, time |-> claims[c].time]
       /\ claims[c].ver \in Nat
       /\ ~claims[c].there => claims[c].ver = 0
  /\ matches = [m \in AcMatches |-> matches[m]]
  /\ \A m \in AcMatches :
       /\ matches[m] = [there |-> matches[m].there, ver |-> matches[m].ver, time |-> matches[m].time]
       /\ matches[m].ver \in Nat
CatalogSound(catalog, claims) ==
  /\ catalog = [read |-> catalog.read, item |-> catalog.item, claims |-> catalog.claims]
  /\ catalog.claims = [c \in AcRecords |-> catalog.claims[c]]
  /\ \A c \in AcRecords : AcCopy(catalog.claims[c], claims, c)
CatalogReadSound(read, claims) ==
  /\ read = [at |-> read.at, catalog |-> read.catalog]
  /\ read.at = "served" => CatalogSound(read.catalog, claims)
IdentityShaped(known) == known = [kind |-> known.kind, ver |-> known.ver, time |-> known.time,
                                failed |-> known.failed]
IdentitySound(known, matches, m) ==
  IdentityShaped(known) /\ (known.kind = "found" => AcImage(known.ver, known.time, matches, m))
SeenSound(known, matches) ==
  /\ known = [m \in AcMatches |-> known[m]]
  /\ \A m \in AcMatches : IdentitySound(known[m], matches, m)
SeeingSound(seeing, matches) ==
  /\ seeing = [match |-> seeing.match, at |-> seeing.at, seen |-> seeing.seen]
  /\ seeing.at = "served" /\ seeing.match \in AcMatches =>
       IdentitySound(seeing.seen, matches, seeing.match)
EditorShaped(editor) == editor = [on |-> editor.on, base |-> editor.base, itemVer |-> editor.itemVer,
                                  form |-> editor.form, ask |-> editor.ask]
AcAsks == {"none", "cancel", "reload", "close"}
EditorSound(editor, editing, claims) ==
  /\ EditorShaped(editor) /\ editor.ask \in AcAsks
  /\ editor.on => editing \in AcRecords /\ AcCopy(editor.base, claims, editing) /\ editor.base.there
CallShaped(call) == call = [at |-> call.at, request |-> call.request, base |-> call.base,
                            typed |-> call.typed, shown |-> call.shown]
CallSound(call, claims, matches) ==
  /\ CallShaped(call)
  /\ call.at # "none" => /\ call.request.claim \in AcRecords
                         /\ call.request.at # "correct" => call.request.claim = "new"
  /\ call.at # "none" /\ call.request.at = "correct" =>
       /\ AcCopy(call.base, claims, call.request.claim) /\ call.base.there
       /\ call.request.claimVer = call.base.ver
       /\ call.request.match # NoMatch => call.request.state # "cancelled"
       /\ call.request.match = NoMatch /\ call.request.state # "cancelled" /\ ~call.typed =>
            call.request.time = call.base.time
  /\ call.at # "none" /\ call.request.match # NoMatch =>
       /\ call.request.match \in AcMatches
       /\ AcImage(call.request.matchVer, call.shown, matches, call.request.match)
ClaimsInv ==
  /\ acEditing \in AcRecords \cup {NoRecord}
  /\ StoredShaped(acClaims, acMatch)
  /\ CatalogSound(acCache, acClaims) /\ CatalogReadSound(acRead, acClaims)
  /\ SeenSound(acSeen, acMatch) /\ SeeingSound(acSeeing, acMatch)
  /\ EditorSound(acEditor, acEditing, acClaims)
  /\ CallSound(acCall, acClaims, acMatch)
  /\ RepeatsAreAnswered

LEMMA ClaimsStart == AcInit => ClaimsInv
<1> SUFFICES ASSUME AcInit PROVE ClaimsInv
  OBVIOUS
<1>1. acMatch = [m \in AcMatches |-> [there |-> TRUE, ver |-> 1, time |-> [min |-> 2, sec |-> 5]]]
  BY DEF AcInit
<1>2. PICK match \in AcMatches \cup {NoMatch}, state \in {"achieved", "unconfirmed"} :
        acClaims = [c \in {"old", "new"} |-> IF c = "new" THEN Unrecorded ELSE
            [there |-> TRUE, ver |-> 1, state |-> state, match |-> match,
             time |-> IF match = NoMatch THEN [min |-> 1, sec |-> 5] ELSE acMatch[match].time]]
  BY DEF AcInit
<1>3. acClaims["new"] = Unrecorded
  BY <1>2
<1>4. acClaims["old"].ver = 1 /\ acClaims["old"].there = TRUE
  BY <1>2
<1>5. StoredShaped(acClaims, acMatch)
  <2>1. PICK yes \in BOOLEAN : yes = TRUE
    OBVIOUS
  <2>2. acMatch = [m \in AcMatches |-> [there |-> yes, ver |-> 1, time |-> [min |-> 2, sec |-> 5]]]
    BY <1>1, <2>1
  <2>3. \A m \in AcMatches :
       /\ acMatch[m] = [there |-> acMatch[m].there, ver |-> acMatch[m].ver, time |-> acMatch[m].time]
       /\ acMatch[m].ver \in Nat
    BY <2>2
  <2>4. PICK no \in BOOLEAN : no = FALSE
    OBVIOUS
  <2>5. PICK time : time = IF match = NoMatch THEN [min |-> 1, sec |-> 5] ELSE acMatch[match].time
    OBVIOUS
  <2>6. /\ acClaims["old"] = [there |-> yes, ver |-> 1, state |-> state, match |-> match, time |-> time]
        /\ acClaims["new"] = [there |-> no, ver |-> 0, state |-> "unconfirmed", match |-> NoMatch,
                              time |-> NoTime]
    BY <1>2, <2>1, <2>4, <2>5 DEF Unrecorded
  <2>7. acClaims = [c \in AcRecords |-> acClaims[c]]
    BY <1>2 DEF AcRecords
  <2>8. \A c \in AcRecords :
       /\ acClaims[c] = [there |-> acClaims[c].there, ver |-> acClaims[c].ver,
                         state |-> acClaims[c].state, match |-> acClaims[c].match,
                         time |-> acClaims[c].time]
       /\ acClaims[c].ver \in Nat
       /\ ~acClaims[c].there => acClaims[c].ver = 0
    BY <2>6, <2>1, <2>4 DEF AcRecords
  <2> QED BY <2>2, <2>3, <2>7, <2>8 DEF StoredShaped
<1>6. \A c \in AcRecords : AcCopy(Unrecorded, acClaims, c)
  BY <1>3, <1>4 DEF AcRecords, AcCopy, Unrecorded
<1>7. CatalogSound(acCache, acClaims) /\ CatalogReadSound(acRead, acClaims)
  <2>1. acCache = NoCatalog /\ acRead = NoCatalogRead
    BY DEF AcInit
  <2>2. NoCatalog = [read |-> NoCatalog.read, item |-> NoCatalog.item, claims |-> NoCatalog.claims]
    BY DEF NoCatalog
  <2>3. NoCatalog.claims = [c \in AcRecords |-> Unrecorded]
    BY DEF NoCatalog, AcRecords
  <2>4. CatalogSound(acCache, acClaims)
    BY <1>6, <2>1, <2>2, <2>3 DEF CatalogSound
  <2> QED BY <2>1, <2>4 DEF CatalogReadSound, NoCatalogRead
<1>8. SeenSound(acSeen, acMatch) /\ SeeingSound(acSeeing, acMatch)
  BY DEF AcInit, SeenSound, SeeingSound, IdentitySound, IdentityShaped, Unseen, NotSeeing
<1>9. EditorSound(acEditor, acEditing, acClaims)
  BY DEF AcInit, EditorSound, EditorShaped, NoClaimEditor, AcAsks
<1>10. CallSound(acCall, acClaims, acMatch) /\ RepeatsAreAnswered /\ acEditing = NoRecord
  BY DEF AcInit, CallSound, CallShaped, NoAcCall, RepeatsAreAnswered
<1> QED BY <1>5, <1>7, <1>8, <1>9, <1>10 DEF ClaimsInv

(* What is stored only gets newer, and copies of it stay copies.            *)
AcNewer(claims, next) ==
  \A c \in AcRecords : next[c] = claims[c] \/ (next[c].ver \in Nat /\ next[c].ver > claims[c].ver)
AcNewerMatches(matches, next) ==
  \A m \in AcMatches : next[m] = matches[m] \/ (next[m].ver \in Nat /\ next[m].ver > matches[m].ver)

LEMMA CopiesAge ==
  ASSUME NEW claims, NEW next, AcNewer(claims, next), NEW c \in AcRecords, claims[c].ver \in Nat,
         NEW copy, AcCopy(copy, claims, c)
  PROVE  AcCopy(copy, next, c)
<1>1. CASE next[c] = claims[c]
  BY <1>1 DEF AcCopy
<1>2. CASE next[c].ver \in Nat /\ next[c].ver > claims[c].ver
  <2>1. copy.ver \in Nat /\ copy.ver <= claims[c].ver
    BY DEF AcCopy
  <2>2. copy.ver < next[c].ver
    BY <1>2, <2>1
  <2> QED BY <1>2, <2>1, <2>2 DEF AcCopy
<1> QED BY <1>1, <1>2 DEF AcNewer

LEMMA ImagesAge ==
  ASSUME NEW matches, NEW next, AcNewerMatches(matches, next), NEW m \in AcMatches,
         matches[m].ver \in Nat, NEW ver, NEW time, AcImage(ver, time, matches, m)
  PROVE  AcImage(ver, time, next, m)
<1>1. CASE next[m] = matches[m]
  BY <1>1 DEF AcImage
<1>2. CASE next[m].ver \in Nat /\ next[m].ver > matches[m].ver
  <2>1. ver \in Nat /\ ver <= matches[m].ver
    BY DEF AcImage
  <2>2. ver < next[m].ver
    BY <1>2, <2>1
  <2> QED BY <1>2, <2>1, <2>2 DEF AcImage
<1> QED BY <1>1, <1>2 DEF AcNewerMatches

\* A step of the API or of others: the page and its reads stay as they are.
LEMMA ClaimsAge ==
  ASSUME ClaimsInv, StoredShaped(acClaims', acMatch'),
         AcNewer(acClaims, acClaims'), AcNewerMatches(acMatch, acMatch'),
         acreads' = acreads, acdialogs' = acdialogs
  PROVE  /\ acEditing' \in AcRecords \cup {NoRecord}
         /\ CatalogSound(acCache', acClaims') /\ CatalogReadSound(acRead', acClaims')
         /\ SeenSound(acSeen', acMatch') /\ SeeingSound(acSeeing', acMatch')
         /\ EditorSound(acEditor', acEditing', acClaims')
         /\ CallSound(acCall, acClaims', acMatch')
<1>1. /\ UNCHANGED <<acCache, acRead, acSeen, acSeeing, acEditing, acEditor>>
  BY DEF acreads, acdialogs
<1>2. \A c \in AcRecords : acClaims[c].ver \in Nat
  BY DEF ClaimsInv, StoredShaped
<1>3. \A m \in AcMatches : acMatch[m].ver \in Nat
  BY DEF ClaimsInv, StoredShaped
<1>4. ASSUME NEW catalog, CatalogSound(catalog, acClaims) PROVE CatalogSound(catalog, acClaims')
  <2>1. ASSUME NEW c \in AcRecords PROVE AcCopy(catalog.claims[c], acClaims', c)
    <3>1. AcCopy(catalog.claims[c], acClaims, c)
      BY <1>4 DEF CatalogSound
    <3> QED BY ONLY <3>1, <1>2, <2>1, AcNewer(acClaims, acClaims'), CopiesAge
  <2> QED BY <1>4, <2>1 DEF CatalogSound
<1>5. ASSUME NEW known, NEW m \in AcMatches, IdentitySound(known, acMatch, m)
      PROVE  IdentitySound(known, acMatch', m)
  BY <1>3, <1>5, ImagesAge DEF IdentitySound
<1>6. CatalogSound(acCache', acClaims') /\ CatalogReadSound(acRead', acClaims')
  <2>1. CatalogSound(acCache, acClaims) /\ CatalogReadSound(acRead, acClaims)
    BY DEF ClaimsInv
  <2> QED BY <1>1, <1>4, <2>1 DEF CatalogReadSound
<1>7. SeenSound(acSeen', acMatch') /\ SeeingSound(acSeeing', acMatch')
  <2>1. SeenSound(acSeen, acMatch) /\ SeeingSound(acSeeing, acMatch)
    BY DEF ClaimsInv
  <2> QED BY <1>1, <1>5, <2>1 DEF SeenSound, SeeingSound
<1>8. EditorSound(acEditor', acEditing', acClaims')
  <2>1. EditorSound(acEditor, acEditing, acClaims)
    BY DEF ClaimsInv
  <2> QED BY <1>1, <1>2, <2>1, CopiesAge DEF EditorSound
<1>9. CallSound(acCall, acClaims', acMatch')
  <2>1. CallSound(acCall, acClaims, acMatch)
    BY DEF ClaimsInv
  <2>2. acCall.at # "none" /\ acCall.request.at = "correct" =>
          AcCopy(acCall.base, acClaims', acCall.request.claim)
    BY <1>2, <2>1, CopiesAge DEF CallSound
  <2>3. acCall.at # "none" /\ acCall.request.match # NoMatch =>
       /\ acCall.request.match \in AcMatches
       /\ AcImage(acCall.request.matchVer, acCall.shown, acMatch', acCall.request.match)
    BY <1>3, <2>1, ImagesAge DEF CallSound
  <2> QED BY <2>1, <2>2, <2>3 DEF CallSound
<1>10. acEditing' \in AcRecords \cup {NoRecord}
  BY <1>1 DEF ClaimsInv
<1> QED BY <1>6, <1>7, <1>8, <1>9, <1>10

(* What a step of the page shows: its dialogs, and the reads still wanted.   *)
LEMMA AcCommitSound ==
  ASSUME ClaimsInv, NEW editor, NEW read, NEW seeing, AcCommitted(editor, read, seeing),
         acEditing' \in AcRecords \cup {NoRecord}, CatalogSound(acCache', acClaims),
         CorrectionShown' => EditorSound(editor, acEditing', acClaims),
         CatalogReadSound(read, acClaims), SeeingSound(seeing, acMatch)
  PROVE  /\ EditorSound(acEditor', acEditing', acClaims)
         /\ CatalogReadSound(acRead', acClaims)
         /\ SeeingSound(acSeeing', acMatch)
<1>1. EditorSound(acEditor', acEditing', acClaims)
  <2>1. CASE ~CorrectionShown'
    <3>1. acEditor' = NoClaimEditor
      BY <2>1 DEF AcCommitted
    <3> QED BY <3>1 DEF EditorSound, EditorShaped, NoClaimEditor, AcAsks
  <2>2. CASE CorrectionShown' /\ editor.on
    <3>1. acEditor' = editor
      BY <2>2 DEF AcCommitted
    <3> QED BY <2>2, <3>1
  <2>3. CASE CorrectionShown' /\ ~editor.on
    <3>1. acEditing' \in AcRecords
      BY <2>3 DEF CorrectionShown
    <3>2. PICK claim : claim = acCache'.claims[acEditing']
      OBVIOUS
    <3>3. AcCopy(claim, acClaims, acEditing') /\ claim.there
      BY <2>3, <3>1, <3>2 DEF CatalogSound, CorrectionShown
    <3>4. acEditor' = EditorOf(claim, acCache'.item)
      BY <2>3, <3>2 DEF AcCommitted
    <3>5. EditorShaped(acEditor') /\ acEditor'.base = claim /\ acEditor'.ask \in AcAsks
      BY <3>4 DEF EditorOf, EditorShaped, AcAsks
    <3> QED BY <3>1, <3>3, <3>5 DEF EditorSound
  <2> QED BY <2>1, <2>2, <2>3
<1>2. CatalogReadSound(acRead', acClaims)
  <2>1. CatalogReadSound(NoCatalogRead, acClaims)
    BY DEF CatalogReadSound, NoCatalogRead
  <2> QED BY <2>1 DEF AcCommitted
<1>3. SeeingSound(acSeeing', acMatch)
  <2>1. SeeingSound(NotSeeing, acMatch)
    BY DEF SeeingSound, NotSeeing
  <2> QED BY <2>1 DEF AcCommitted
<1> QED BY <1>1, <1>2, <1>3

\* A step of the page that keeps what was read and sends nothing.
AcQuiet == /\ acserver' = acserver /\ acStored' \subseteq acStored
           /\ acSeen' = acSeen /\ acCall' = acCall
LEMMA AcQuietSteps ==
  ASSUME ClaimsInv, NEW editor, NEW read, NEW seeing, AcCommitted(editor, read, seeing), AcQuiet,
         acEditing' \in AcRecords \cup {NoRecord}, CatalogSound(acCache', acClaims),
         CorrectionShown' => EditorSound(editor, acEditing', acClaims),
         CatalogReadSound(read, acClaims), SeeingSound(seeing, acMatch)
  PROVE  ClaimsInv'
<1>1. /\ EditorSound(acEditor', acEditing', acClaims)
      /\ CatalogReadSound(acRead', acClaims)
      /\ SeeingSound(acSeeing', acMatch)
  BY AcCommitSound
<1>2. /\ acClaims' = acClaims /\ acMatch' = acMatch /\ acSeen' = acSeen /\ acCall' = acCall
      /\ acStored' \subseteq acStored
  BY DEF AcQuiet, acserver
<1>3. RepeatsAreAnswered'
  BY <1>2 DEF ClaimsInv, RepeatsAreAnswered
<1> QED BY <1>1, <1>2, <1>3 DEF ClaimsInv

\* The reads a step of the page may begin.
LEMMA AcReadsBegin ==
  /\ CatalogReadSound([NoCatalogRead EXCEPT !.at = "sent"], acClaims)
  /\ CatalogReadSound(NoCatalogRead, acClaims)
  /\ \A m : SeeingSound([NotSeeing EXCEPT !.match = m, !.at = "sent"], acMatch)
  /\ SeeingSound(NotSeeing, acMatch)
  /\ \A editing : EditorSound(NoClaimEditor, editing, acClaims)
<1>1. /\ CatalogReadSound([NoCatalogRead EXCEPT !.at = "sent"], acClaims)
      /\ CatalogReadSound(NoCatalogRead, acClaims)
  BY DEF CatalogReadSound, NoCatalogRead
<1>2. SeeingSound(NotSeeing, acMatch)
  BY DEF SeeingSound, NotSeeing
<1>3. ASSUME NEW m PROVE SeeingSound([NotSeeing EXCEPT !.match = m, !.at = "sent"], acMatch)
  <2>1. PICK none : none = NotSeeing
    OBVIOUS
  <2>2. none = [match |-> none.match, at |-> none.at, seen |-> none.seen]
    BY <2>1 DEF NotSeeing
  <2>3. PICK seeing : seeing = [none EXCEPT !.match = m, !.at = "sent"]
    OBVIOUS
  <2>4. seeing = [match |-> m, at |-> "sent", seen |-> none.seen]
    BY <2>2, <2>3
  <2>5. SeeingSound(seeing, acMatch)
    BY <2>4 DEF SeeingSound
  <2> QED BY <2>1, <2>3, <2>5
<1>4. \A editing : EditorSound(NoClaimEditor, editing, acClaims)
  <2>1. ~NoClaimEditor.on /\ NoClaimEditor.ask \in AcAsks
    BY DEF NoClaimEditor, AcAsks
  <2>2. EditorShaped(NoClaimEditor)
    BY DEF NoClaimEditor, EditorShaped
  <2> QED BY <2>1, <2>2 DEF EditorSound
<1> QED BY <1>1, <1>2, <1>3, <1>4

\* Whatever is asked in a dialog or typed into it, it is about the same record.
LEMMA EditorChanges ==
  ASSUME NEW editing, NEW field
  PROVE  EditorSound(acEditor, editing, acClaims) =>
           /\ EditorSound([acEditor EXCEPT !.form = field], editing, acClaims)
           /\ field \in AcAsks => EditorSound([acEditor EXCEPT !.ask = field], editing, acClaims)
<1> SUFFICES ASSUME EditorSound(acEditor, editing, acClaims)
             PROVE  /\ EditorSound([acEditor EXCEPT !.form = field], editing, acClaims)
                    /\ field \in AcAsks => EditorSound([acEditor EXCEPT !.ask = field], editing, acClaims)
  OBVIOUS
<1>1. acEditor = [on |-> acEditor.on, base |-> acEditor.base, itemVer |-> acEditor.itemVer,
                  form |-> acEditor.form, ask |-> acEditor.ask]
  BY DEF EditorSound, EditorShaped
<1>2. PICK e1 : e1 = [acEditor EXCEPT !.form = field]
  OBVIOUS
<1>3. PICK e2 : e2 = [acEditor EXCEPT !.ask = field]
  OBVIOUS
<1>4. e1 = [on |-> acEditor.on, base |-> acEditor.base, itemVer |-> acEditor.itemVer,
            form |-> field, ask |-> acEditor.ask]
  BY <1>1, <1>2
<1>5. e2 = [on |-> acEditor.on, base |-> acEditor.base, itemVer |-> acEditor.itemVer,
            form |-> acEditor.form, ask |-> field]
  BY <1>1, <1>3
<1>6. EditorSound(e1, editing, acClaims)
  <2>1. e1.on = acEditor.on /\ e1.base = acEditor.base /\ EditorShaped(e1) /\ e1.ask = acEditor.ask
    BY <1>4 DEF EditorShaped
  <2> QED BY <2>1 DEF EditorSound
<1>7. ASSUME field \in AcAsks PROVE EditorSound(e2, editing, acClaims)
  <2>1. /\ e2.on = acEditor.on /\ e2.base = acEditor.base /\ EditorShaped(e2)
        /\ e2.ask \in AcAsks
    BY <1>5, <1>7 DEF EditorShaped
  <2> QED BY <2>1 DEF EditorSound
<1> QED BY <1>2, <1>3, <1>6, <1>7

(* The steps of the page that send nothing.                                  *)
LEMMA AcKept ==
  ASSUME ClaimsInv
  PROVE  /\ CatalogSound(acCache, acClaims) /\ CatalogReadSound(acRead, acClaims)
         /\ SeeingSound(acSeeing, acMatch) /\ EditorSound(acEditor, acEditing, acClaims)
         /\ acEditing \in AcRecords \cup {NoRecord}
BY DEF ClaimsInv

LEMMA AcDialogSteps ==
  ASSUME ClaimsInv,
         \/ ToggleDetails \/ RefreshPage \/ ChangeTitle \/ CloseClaim \/ RecordAchievement
         \/ SelectMatch \/ ReloadRecord \/ ReloadEnds \/ CloseRecord \/ KeepRecord
         \/ PublicationArrives \/ ReadCatalog \/ CatalogFails \/ ReadMatch
  PROVE  ClaimsInv'
<1>1. /\ AcQuiet /\ acCache' = acCache /\ acEditing' \in {acEditing, NoRecord}
      /\ \E read, seeing :
           /\ CatalogReadSound(read, acClaims) /\ SeeingSound(seeing, acMatch)
           /\ AcCommitted(acEditor, read, seeing)
  <2>1. CASE ToggleDetails
    BY <2>1, AcKept DEF ToggleDetails, AcStays, AcQuiet, acserver
  <2>2. CASE RefreshPage
    BY <2>2, AcKept, AcReadsBegin DEF RefreshPage, AcQuiet, acserver, acpage
  <2>3. CASE ChangeTitle
    BY <2>3, AcKept DEF ChangeTitle, AcStays, AcQuiet, acserver
  <2>4. CASE CloseClaim
    BY <2>4, AcKept DEF CloseClaim, AcStays, AcQuiet, acserver
  <2>5. CASE RecordAchievement
    BY <2>5, AcKept DEF RecordAchievement, AcStays, AcQuiet, acserver
  <2>6. CASE SelectMatch
    BY <2>6, AcKept DEF SelectMatch, AcStays, AcQuiet, acserver
  <2>7. CASE ReloadRecord
    BY <2>7, AcKept, AcReadsBegin DEF ReloadRecord, AcQuiet, acserver
  <2>8. CASE ReloadEnds
    BY <2>8, AcKept DEF ReloadEnds, AcStays, AcQuiet, acserver
  <2>9. CASE CloseRecord
    BY <2>9, AcKept DEF CloseRecord, AcStays, AcQuiet, acserver
  <2>10. CASE KeepRecord
    BY <2>10, AcKept DEF KeepRecord, AcStays, AcQuiet, acserver
  <2>11. CASE PublicationArrives
    BY <2>11, AcKept DEF PublicationArrives, AcStays, AcQuiet, acserver
  <2>12. CASE ReadCatalog
    BY <2>12, AcKept, AcReadsBegin DEF ReadCatalog, AcQuiet, acserver, acother
  <2>13. CASE CatalogFails
    BY <2>13, AcKept, AcReadsBegin DEF CatalogFails, AcQuiet, acserver, acother
  <2>14. CASE ReadMatch
    BY <2>14, AcKept, AcReadsBegin DEF ReadMatch, AcQuiet, acserver, acother
  <2> QED BY <2>1, <2>2, <2>3, <2>4, <2>5, <2>6, <2>7, <2>8, <2>9, <2>10, <2>11, <2>12, <2>13,
             <2>14
<1>2. PICK read, seeing :
        /\ CatalogReadSound(read, acClaims) /\ SeeingSound(seeing, acMatch)
        /\ AcCommitted(acEditor, read, seeing)
  BY <1>1
<1>3. /\ acEditing' \in AcRecords \cup {NoRecord} /\ CatalogSound(acCache', acClaims)
      /\ CorrectionShown' => EditorSound(acEditor, acEditing', acClaims)
  BY <1>1, AcKept DEF CorrectionShown
<1> QED BY ONLY ClaimsInv, <1>1, <1>2, <1>3, AcQuietSteps

LEMMA AcEditorSteps ==
  ASSUME ClaimsInv,
         EditClaim \/ ChangeClaimForm \/ AskClaim \/ DismissAsked \/ CatalogArrives
  PROVE  ClaimsInv'
<1>1. /\ AcQuiet /\ acEditing' \in AcRecords \cup {NoRecord}
      /\ CatalogSound(acCache', acClaims)
      /\ \E editor, read : /\ CatalogReadSound(read, acClaims)
                          /\ EditorSound(editor, acEditing', acClaims)
                          /\ AcCommitted(editor, read, acSeeing)
  <2>1. CASE EditClaim
    <3>1. acEditing = NoRecord /\ NoRecord \notin AcRecords
      BY <2>1 DEF EditClaim, DetailsShown, NoRecord, AcRecords
    <3>2. \A editing : EditorSound(acEditor, editing, acClaims)
      BY <3>1, AcKept DEF EditorSound
    <3>3. AcCommitted(acEditor, acRead, acSeeing) /\ acEditing' \in AcRecords
      BY <2>1 DEF EditClaim, AcStays, AcRecords
    <3>4. AcQuiet /\ acCache' = acCache
      BY <2>1 DEF EditClaim, AcQuiet, acserver
    <3> QED BY <3>2, <3>3, <3>4, AcKept
  <2>2. CASE ChangeClaimForm
    <3>1. AcQuiet /\ acCache' = acCache /\ acEditing' = acEditing
      BY <2>2 DEF ChangeClaimForm, AcQuiet, acserver
    <3>2. PICK form : AcCommitted([acEditor EXCEPT !.form = form], acRead, acSeeing)
      BY <2>2 DEF ChangeClaimForm
    <3>3. EditorSound([acEditor EXCEPT !.form = form], acEditing, acClaims)
      BY AcKept, EditorChanges
    <3> QED BY <3>1, <3>2, <3>3, AcKept
  <2>3. CASE AskClaim
    <3>1. AcQuiet /\ acCache' = acCache /\ acEditing' = acEditing
      BY <2>3 DEF AskClaim, AcQuiet, acserver
    <3>2. PICK ask \in {"close", "reload"} : AcCommitted([acEditor EXCEPT !.ask = ask], acRead, acSeeing)
      BY <2>3 DEF AskClaim
    <3>3. EditorSound([acEditor EXCEPT !.ask = ask], acEditing, acClaims)
      BY AcKept, EditorChanges DEF AcAsks
    <3> QED BY <3>1, <3>2, <3>3, AcKept
  <2>4. CASE DismissAsked
    <3>1. AcQuiet /\ acCache' = acCache /\ acEditing' = acEditing
      BY <2>4 DEF DismissAsked, AcQuiet, acserver
    <3>2. AcCommitted([acEditor EXCEPT !.ask = "none"], acRead, acSeeing)
      BY <2>4 DEF DismissAsked
    <3>3. EditorSound([acEditor EXCEPT !.ask = "none"], acEditing, acClaims)
      BY AcKept, EditorChanges DEF AcAsks
    <3> QED BY <3>1, <3>2, <3>3, AcKept
  <2>5. CASE CatalogArrives
    <3>1. /\ AcQuiet /\ acEditing' = acEditing /\ acCache' = acRead.catalog /\ acRead.at = "served"
          /\ AcCommitted(acEditor, NoCatalogRead, acSeeing)
      BY <2>5 DEF CatalogArrives, AcQuiet, acserver, acother
    <3>2. CatalogSound(acCache', acClaims)
      BY <3>1, AcKept DEF CatalogReadSound
    <3> QED BY <3>1, <3>2, AcKept, AcReadsBegin
  <2> QED BY <2>1, <2>2, <2>3, <2>4, <2>5
<1>2. PICK editor, read : /\ CatalogReadSound(read, acClaims)
                          /\ EditorSound(editor, acEditing', acClaims)
                          /\ AcCommitted(editor, read, acSeeing)
  BY <1>1
<1> QED BY <1>1, <1>2, AcKept, AcQuietSteps

(* The steps of the page that send, and those that end a request.            *)
LEMMA AcSubmits ==
  ASSUME ClaimsInv, acEditor.on, CanSaveClaim, SubmitCorrection, acStored' \subseteq acStored
  PROVE  CallSound(acCall', acClaims, acMatch) /\ RepeatsAreAnswered'
<1>1. PICK typed \in BOOLEAN : typed = (acEditor.form.min # DateTimeInput(acEditor.base.time))
  OBVIOUS
<1>2. PICK drawn : drawn = IF Linked THEN acSeen[acEditor.form.match].time ELSE NoTime
  OBVIOUS
<1>3. PICK request : request = CorrectionRequest
  OBVIOUS
<1>4. PICK ver : ver = IF Linked THEN acSeen[acEditor.form.match].ver ELSE 0
  OBVIOUS
<1>5. PICK time : time = IF Cancelling THEN acEditor.base.time
            ELSE IF Linked THEN acSeen[acEditor.form.match].time ELSE TypedTime
  OBVIOUS
<1>6. PICK match : match = IF Cancelling THEN NoMatch ELSE acEditor.form.match
  OBVIOUS
<1>7. acCall' = [at |-> "sent", request |-> request, base |-> acEditor.base, typed |-> typed,
                 shown |-> drawn]
  BY <1>1, <1>2, <1>3 DEF SubmitCorrection
<1>8. request = [at |-> "correct", claim |-> acEditing, match |-> match, matchVer |-> ver,
                 itemVer |-> acEditor.itemVer, claimVer |-> acEditor.base.ver,
                 state |-> acEditor.form.state, time |-> time]
  BY <1>3, <1>4, <1>5, <1>6 DEF CorrectionRequest
<1>9. acEditing \in AcRecords /\ AcCopy(acEditor.base, acClaims, acEditing) /\ acEditor.base.there
  BY DEF ClaimsInv, EditorSound
<1>10. match # NoMatch => acEditor.form.state # "cancelled" /\ Linked
  BY <1>6 DEF Cancelling, Linked
<1>11. match = NoMatch /\ acEditor.form.state # "cancelled" /\ ~typed => time = acEditor.base.time
  BY <1>1, <1>5, <1>6 DEF Cancelling, Linked, TypedTime
<1>12. match # NoMatch =>
         match \in AcMatches /\ AcImage(ver, drawn, acMatch, match)
  <2> SUFFICES ASSUME match # NoMatch PROVE match \in AcMatches /\ AcImage(ver, drawn, acMatch, match)
    OBVIOUS
  <2>1. Linked /\ match = acEditor.form.match
    BY <1>6, <1>10
  <2>2. match \in AcMatches /\ acSeen[match].kind = "found"
    BY <2>1, AcBounds DEF CanSaveClaim, EligibleIdentity, MatchFound
  <2>3. IdentitySound(acSeen[match], acMatch, match)
    BY <2>2 DEF ClaimsInv, SeenSound
  <2>4. ver = acSeen[match].ver /\ drawn = acSeen[match].time
    BY <2>1, <1>2, <1>4
  <2> QED BY <2>2, <2>3, <2>4 DEF IdentitySound
<1>13. CallSound(acCall', acClaims, acMatch)
  <2>1. CallShaped(acCall')
    BY <1>7 DEF CallShaped
  <2>2. /\ acCall'.request = request /\ acCall'.base = acEditor.base /\ acCall'.shown = drawn
        /\ acCall'.typed = typed
    BY <1>7
  <2>3. /\ request.at = "correct" /\ request.claim = acEditing /\ request.match = match
        /\ request.matchVer = ver /\ request.claimVer = acEditor.base.ver
        /\ request.state = acEditor.form.state /\ request.time = time
    BY <1>8
  <2> QED BY <1>9, <1>10, <1>11, <1>12, <2>1, <2>2, <2>3 DEF CallSound
<1>14. RepeatsAreAnswered'
  BY <1>7 DEF RepeatsAreAnswered
<1> QED BY <1>13, <1>14

LEMMA AcSends ==
  ASSUME ClaimsInv, SaveClaim
  PROVE  ClaimsInv'
<1>1. /\ acClaims' = acClaims /\ acMatch' = acMatch /\ acStored' = acStored /\ acCache' = acCache
      /\ acSeen' = acSeen /\ acEditing' = acEditing
  BY DEF SaveClaim, acserver
<1>2. CASE Cancelling /\ acEditor.base.state # "cancelled"
  <2>1. AcQuiet /\ AcCommitted([acEditor EXCEPT !.ask = "cancel"], acRead, acSeeing)
    BY <1>2 DEF SaveClaim, AcQuiet, acserver
  <2>2. EditorSound([acEditor EXCEPT !.ask = "cancel"], acEditing, acClaims)
    BY AcKept, EditorChanges DEF AcAsks
  <2> QED BY <1>1, <2>1, <2>2, AcKept, AcQuietSteps
<1>3. CASE ~(Cancelling /\ acEditor.base.state # "cancelled")
  <2>1. SubmitCorrection /\ AcCommitted(acEditor, acRead, acSeeing)
    BY <1>3 DEF SaveClaim, AcStays
  <2>2. acEditor.on /\ CanSaveClaim
    BY DEF SaveClaim, CanSaveClaim
  <2>3. CallSound(acCall', acClaims, acMatch) /\ RepeatsAreAnswered'
    BY <1>1, <2>1, <2>2, AcSubmits
  <2>4. /\ EditorSound(acEditor', acEditing', acClaims)
        /\ CatalogReadSound(acRead', acClaims) /\ SeeingSound(acSeeing', acMatch)
    BY <1>1, <2>1, AcKept, AcCommitSound
  <2> QED BY <1>1, <2>3, <2>4 DEF ClaimsInv
<1> QED BY <1>2, <1>3

LEMMA AcConfirms ==
  ASSUME ClaimsInv, ConfirmAsked
  PROVE  ClaimsInv'
<1>1. /\ acClaims' = acClaims /\ acMatch' = acMatch /\ acCache' = acCache /\ acSeen' = acSeen
      /\ acserver' = acserver
  BY DEF ConfirmAsked, acserver
<1>2. CASE acEditor.ask = "cancel"
  <2>1. /\ IF CanSaveClaim THEN SubmitCorrection ELSE acCall' = acCall
        /\ acStored' = acStored /\ acEditing' = acEditing
        /\ AcCommitted([acEditor EXCEPT !.ask = "none"], acRead, acSeeing)
    BY <1>2 DEF ConfirmAsked
  <2>2. EditorSound([acEditor EXCEPT !.ask = "none"], acEditing, acClaims)
    BY AcKept, EditorChanges DEF AcAsks
  <2>3. /\ EditorSound(acEditor', acEditing', acClaims)
        /\ CatalogReadSound(acRead', acClaims) /\ SeeingSound(acSeeing', acMatch)
    BY <1>1, <2>1, <2>2, AcKept, AcCommitSound
  <2>4. CallSound(acCall', acClaims, acMatch) /\ RepeatsAreAnswered'
    <3>1. CASE CanSaveClaim
      <4>1. acEditor.on
        BY <3>1 DEF CanSaveClaim
      <4> QED BY <2>1, <3>1, <4>1, AcSubmits
    <3>2. CASE ~CanSaveClaim
      BY <2>1, <3>2 DEF ClaimsInv, RepeatsAreAnswered
    <3> QED BY <3>1, <3>2
  <2> QED BY <1>1, <2>1, <2>3, <2>4 DEF ClaimsInv
<1>3. CASE acEditor.ask = "reload"
  <2>1. /\ acCall' = acCall /\ acStored' = acStored /\ acEditing' = acEditing
        /\ AcCommitted(EditorOf(acCache.claims[acEditing], acCache.item), acRead, acSeeing)
    BY <1>3 DEF ConfirmAsked
  <2>2. CorrectionShown' =>
          EditorSound(EditorOf(acCache.claims[acEditing], acCache.item), acEditing, acClaims)
    <3> SUFFICES ASSUME CorrectionShown'
                 PROVE EditorSound(EditorOf(acCache.claims[acEditing], acCache.item), acEditing, acClaims)
      OBVIOUS
    <3>1. acEditing \in AcRecords /\ acCache.claims[acEditing].there
      BY <1>1, <2>1, AcKept DEF CorrectionShown
    <3>2. PICK claim : claim = acCache.claims[acEditing]
      OBVIOUS
    <3>3. AcCopy(claim, acClaims, acEditing) /\ claim.there
      BY <3>1, <3>2, AcKept DEF CatalogSound
    <3>4. PICK editor : editor = EditorOf(claim, acCache.item)
      OBVIOUS
    <3>5. EditorShaped(editor) /\ editor.base = claim /\ editor.ask \in AcAsks
      BY <3>4 DEF EditorOf, EditorShaped, AcAsks
    <3> QED BY <3>1, <3>2, <3>3, <3>4, <3>5 DEF EditorSound
  <2>3. AcQuiet
    BY <1>1, <2>1 DEF AcQuiet
  <2>4. CorrectionShown' =>
          EditorSound(EditorOf(acCache.claims[acEditing], acCache.item), acEditing', acClaims)
    BY <2>1, <2>2
  <2> QED BY ONLY ClaimsInv, <1>1, <2>1, <2>3, <2>4, AcKept, AcQuietSteps
<1>4. CASE acEditor.ask = "close"
  <2>1. /\ acCall' = acCall /\ acStored' = {} /\ acEditing' = NoRecord
        /\ AcCommitted(NoClaimEditor, acRead, acSeeing)
    BY <1>4 DEF ConfirmAsked
  <2>2. AcQuiet
    BY <1>1, <2>1 DEF AcQuiet
  <2> QED BY <1>1, <2>1, <2>2, AcKept, AcReadsBegin, AcQuietSteps
<1>5. acEditor.ask \in {"cancel", "reload", "close"}
  BY AcKept DEF EditorSound, AcAsks, ConfirmAsked
<1> QED BY <1>2, <1>3, <1>4, <1>5

LEMMA AcRecordSent ==
  ASSUME ClaimsInv, SaveRecord
  PROVE  ClaimsInv'
<1>1. /\ acClaims' = acClaims /\ acMatch' = acMatch /\ acStored' = acStored /\ acCache' = acCache
      /\ acSeen' = acSeen /\ acEditing' = acEditing /\ AcCommitted(acEditor, acRead, acSeeing)
  BY DEF SaveRecord, acserver, AcStays
<1>2. PICK m : m = acRecorder.match
  OBVIOUS
<1>3. m \in AcMatches /\ acSeen[m].kind = "found"
  BY <1>2, AcBounds DEF SaveRecord, CanSaveRecord, MatchFound
<1>4. AcImage(acSeen[m].ver, acSeen[m].time, acMatch, m)
  BY <1>3 DEF ClaimsInv, SeenSound, IdentitySound
<1>5. PICK request : request = [NothingAsked EXCEPT !.at = "record", !.claim = "new",
                      !.match = m, !.matchVer = acSeen[m].ver, !.itemVer = acRecorder.itemVer]
  OBVIOUS
<1>6. acCall' = [NoAcCall EXCEPT !.at = "sent", !.shown = acSeen[m].time, !.request = request]
  BY <1>2, <1>5 DEF SaveRecord
<1>7. request.at = "record" /\ request.claim = "new" /\ request.match = m
      /\ request.matchVer = acSeen[m].ver
  BY <1>5 DEF NothingAsked
<1>8. PICK none : none = NoAcCall
  OBVIOUS
<1>9. CallShaped(none)
  <2>1. PICK no \in BOOLEAN : no = FALSE
    OBVIOUS
  <2>2. none = [at |-> "none", request |-> NothingAsked, base |-> Unrecorded, typed |-> no,
                shown |-> NoTime]
    BY <1>8, <2>1 DEF NoAcCall
  <2> QED BY <2>2 DEF CallShaped
<1>10. acCall' = [at |-> "sent", request |-> request, base |-> none.base, typed |-> none.typed,
                  shown |-> acSeen[m].time]
  BY <1>6, <1>8, <1>9 DEF CallShaped
<1>11. CallSound(acCall', acClaims, acMatch) /\ RepeatsAreAnswered'
  <2>1. CallShaped(acCall') /\ acCall'.request = request /\ acCall'.shown = acSeen[m].time
        /\ acCall'.at = "sent"
    BY <1>10 DEF CallShaped
  <2> QED BY <1>3, <1>4, <1>7, <2>1 DEF CallSound, RepeatsAreAnswered, AcRecords
<1>12. /\ EditorSound(acEditor', acEditing', acClaims)
       /\ CatalogReadSound(acRead', acClaims) /\ SeeingSound(acSeeing', acMatch)
  BY <1>1, AcKept, AcCommitSound
<1> QED BY <1>1, <1>11, <1>12 DEF ClaimsInv

LEMMA AcReadSteps ==
  ASSUME ClaimsInv, ServeCatalog \/ ServeMatch \/ MatchArrives \/ MatchFails
  PROVE  ClaimsInv'
<1>1. CASE ServeCatalog
  <2>1. PICK catalog : catalog = Catalog
    OBVIOUS
  <2>2. CatalogSound(catalog, acClaims)
    <3>1. PICK yes \in BOOLEAN : yes = TRUE
      OBVIOUS
    <3>2. catalog = [read |-> yes, item |-> acItem, claims |-> acClaims]
      BY <2>1, <3>1 DEF Catalog
    <3>3. \A c \in AcRecords : AcCopy(acClaims[c], acClaims, c)
      BY DEF ClaimsInv, StoredShaped, AcCopy
    <3>4. acClaims = [c \in AcRecords |-> acClaims[c]]
      BY DEF ClaimsInv, StoredShaped
    <3> QED BY <3>2, <3>3, <3>4 DEF CatalogSound
  <2>3. /\ acRead' = [at |-> "served", catalog |-> catalog]
        /\ UNCHANGED <<acClaims, acMatch, acStored, acEditing, acCall, acCache, acSeen, acSeeing,
                       acEditor>>
    BY <1>1, <2>1 DEF ServeCatalog, acother, acserver
  <2>4. CatalogReadSound(acRead', acClaims)
    BY <2>2, <2>3 DEF CatalogReadSound
  <2> QED BY <2>3, <2>4 DEF ClaimsInv, RepeatsAreAnswered
<1>2. CASE ServeMatch
  <2>1. PICK known : known = Identity(acSeeing.match)
    OBVIOUS
  <2>2. /\ acSeeing' = [acSeeing EXCEPT !.at = "served", !.seen = known]
        /\ UNCHANGED <<acClaims, acMatch, acStored, acEditing, acCall, acCache, acRead, acSeen,
                       acEditor>>
    BY <1>2, <2>1 DEF ServeMatch, acother, acserver
  <2>3. acSeeing' = [match |-> acSeeing.match, at |-> "served", seen |-> known]
    <3>1. acSeeing = [match |-> acSeeing.match, at |-> acSeeing.at, seen |-> acSeeing.seen]
      BY DEF ClaimsInv, SeeingSound
    <3> QED BY <2>2, <3>1
  <2>4. ASSUME acSeeing.match \in AcMatches PROVE IdentitySound(known, acMatch, acSeeing.match)
    <3>1. PICK ver, time : /\ ver = acMatch[acSeeing.match].ver /\ time = acMatch[acSeeing.match].time
      OBVIOUS
    <3>2. PICK none \in BOOLEAN : none = FALSE
      OBVIOUS
    <3>6. PICK unseen : unseen = [kind |-> "none", ver |-> 0, time |-> NoTime, failed |-> none]
      OBVIOUS
    <3>3. unseen = Unseen
      BY <3>2, <3>6 DEF Unseen
    <3>4. CASE acMatch[acSeeing.match].there
      <4>1. known = [unseen EXCEPT !.kind = "found", !.ver = ver, !.time = time]
        BY <2>1, <3>1, <3>3, <3>4 DEF Identity
      <4>2. known = [kind |-> "found", ver |-> ver, time |-> time, failed |-> none]
        BY <3>6, <4>1
      <4>3. ver \in Nat
        BY <3>1, <2>4 DEF ClaimsInv, StoredShaped
      <4>4. IdentityShaped(known) /\ known.ver = ver /\ known.time = time
        BY <4>2 DEF IdentityShaped
      <4>5. AcImage(ver, time, acMatch, acSeeing.match)
        BY <3>1, <4>3 DEF AcImage
      <4> QED BY <4>4, <4>5 DEF IdentitySound
    <3>5. CASE ~acMatch[acSeeing.match].there
      <4>1. known = [unseen EXCEPT !.kind = "missing"]
        BY <2>1, <3>3, <3>5 DEF Identity
      <4>2. known = [kind |-> "missing", ver |-> 0, time |-> NoTime, failed |-> none]
        BY <3>6, <4>1
      <4>3. IdentityShaped(known) /\ known.kind = "missing"
        BY <4>2 DEF IdentityShaped
      <4> QED BY <4>3 DEF IdentitySound
    <3> QED BY <3>4, <3>5
  <2>5. SeeingSound(acSeeing', acMatch)
    BY <2>3, <2>4 DEF SeeingSound
  <2> QED BY <2>2, <2>5 DEF ClaimsInv, RepeatsAreAnswered
<1>3. CASE MatchArrives
  <2>1. /\ acSeen' = [acSeen EXCEPT ![acSeeing.match] = acSeeing.seen]
        /\ UNCHANGED <<acClaims, acMatch, acStored, acEditing, acCall, acCache>>
        /\ AcCommitted(acEditor, acRead, NotSeeing) /\ acSeeing.at = "served"
    BY <1>3 DEF MatchArrives, acother, acserver
  <2>2. SeenSound(acSeen', acMatch)
    BY <2>1 DEF ClaimsInv, SeenSound, SeeingSound
  <2>3. /\ EditorSound(acEditor', acEditing', acClaims)
        /\ CatalogReadSound(acRead', acClaims) /\ SeeingSound(acSeeing', acMatch)
    BY <2>1, AcKept, AcReadsBegin, AcCommitSound
  <2> QED BY <2>1, <2>2, <2>3 DEF ClaimsInv, RepeatsAreAnswered
<1>4. CASE MatchFails
  <2>1. /\ acSeen' = [acSeen EXCEPT ![acSeeing.match].failed = TRUE]
        /\ UNCHANGED <<acClaims, acMatch, acStored, acEditing, acCall, acCache>>
        /\ AcCommitted(acEditor, acRead, NotSeeing)
    BY <1>4 DEF MatchFails, acother, acserver
  <2>2. SeenSound(acSeen', acMatch)
    <3>1. PICK yes \in BOOLEAN : yes = TRUE
      OBVIOUS
    <3>2. PICK known : known = [acSeen[acSeeing.match] EXCEPT !.failed = yes]
      OBVIOUS
    <3>3. acSeen' = [acSeen EXCEPT ![acSeeing.match] = known]
      BY <2>1, <3>1, <3>2
    <3>4. ASSUME acSeeing.match \in AcMatches PROVE IdentitySound(known, acMatch, acSeeing.match)
      <4>1. PICK old : old = acSeen[acSeeing.match]
        OBVIOUS
      <4>2. IdentitySound(old, acMatch, acSeeing.match)
        BY <3>4, <4>1 DEF ClaimsInv, SeenSound
      <4>3. old = [kind |-> old.kind, ver |-> old.ver, time |-> old.time, failed |-> old.failed]
        BY <4>2 DEF IdentitySound, IdentityShaped
      <4>4. known = [kind |-> old.kind, ver |-> old.ver, time |-> old.time, failed |-> yes]
        BY <3>2, <4>1, <4>3
      <4>5. IdentityShaped(known) /\ known.kind = old.kind /\ known.ver = old.ver /\ known.time = old.time
        BY <4>4 DEF IdentityShaped
      <4> QED BY <4>2, <4>5 DEF IdentitySound
    <3>5. acSeen = [m \in AcMatches |-> acSeen[m]] /\ \A m \in AcMatches : IdentitySound(acSeen[m], acMatch, m)
      BY DEF ClaimsInv, SeenSound
    <3> QED BY <3>3, <3>4, <3>5 DEF SeenSound
  <2>3. /\ EditorSound(acEditor', acEditing', acClaims)
        /\ CatalogReadSound(acRead', acClaims) /\ SeeingSound(acSeeing', acMatch)
    BY <2>1, AcKept, AcReadsBegin, AcCommitSound
  <2> QED BY <2>1, <2>2, <2>3 DEF ClaimsInv, RepeatsAreAnswered
<1> QED BY <1>1, <1>2, <1>3, <1>4

\* The end of a request, where it was answered and where its dialog learns of it.
LEMMA CallMoves ==
  ASSUME NEW at, NEW claims, NEW matches
  PROVE  acCall.at # "none" /\ CallSound(acCall, claims, matches) =>
           /\ CallSound([acCall EXCEPT !.at = at], claims, matches)
           /\ [acCall EXCEPT !.at = at].at = at
           /\ [acCall EXCEPT !.at = at].request = acCall.request
<1> SUFFICES ASSUME acCall.at # "none", CallSound(acCall, claims, matches)
             PROVE  /\ CallSound([acCall EXCEPT !.at = at], claims, matches)
                    /\ [acCall EXCEPT !.at = at].at = at
                    /\ [acCall EXCEPT !.at = at].request = acCall.request
  OBVIOUS
<1>1. acCall = [at |-> acCall.at, request |-> acCall.request, base |-> acCall.base,
                typed |-> acCall.typed, shown |-> acCall.shown]
  BY DEF CallSound, CallShaped
<1>2. PICK call : call = [acCall EXCEPT !.at = at]
  OBVIOUS
<1>3. call = [at |-> at, request |-> acCall.request, base |-> acCall.base, typed |-> acCall.typed,
              shown |-> acCall.shown]
  BY <1>1, <1>2
<1>4. /\ CallShaped(call) /\ call.at = at /\ call.request = acCall.request /\ call.base = acCall.base
      /\ call.shown = acCall.shown
  BY <1>3 DEF CallShaped
<1>5. call.typed = acCall.typed
  BY <1>3
<1>6. CallSound(call, claims, matches)
  BY <1>4, <1>5 DEF CallSound
<1> QED BY <1>2, <1>4, <1>6

LEMMA AcCallEnds ==
  ASSUME ClaimsInv, ClaimSaved \/ ClaimNotSaved \/ CallIsLost
  PROVE  ClaimsInv'
<1>1. CallSound(NoAcCall, acClaims, acMatch) /\ NoAcCall.at = "none"
  <2>1. PICK none : none = NoAcCall
    OBVIOUS
  <2>4. PICK no \in BOOLEAN : no = FALSE
    OBVIOUS
  <2>2. none = [at |-> "none", request |-> NothingAsked, base |-> Unrecorded, typed |-> no,
                shown |-> NoTime]
    BY <2>1, <2>4 DEF NoAcCall
  <2>3. CallShaped(none) /\ none.at = "none"
    BY <2>2 DEF CallShaped
  <2> QED BY <2>1, <2>3 DEF CallSound
<1>2. CASE ClaimSaved
  <2>1. PICK claim : claim = acCall.request.claim
    OBVIOUS
  <2>2. /\ UNCHANGED <<acClaims, acMatch, acSeen>> /\ acCall' = NoAcCall /\ acEditing' = NoRecord
        /\ acCall.at = "done"
        /\ AcCommitted(NoClaimEditor, [NoCatalogRead EXCEPT !.at = "sent"], acSeeing)
    BY <1>2 DEF ClaimSaved, acserver
  <2>3. acCache' = acCache \/ acCache' = [acCache EXCEPT !.claims[claim] = acClaims[claim]]
    BY <1>2, <2>1 DEF ClaimSaved
  <2>4. CatalogSound(acCache', acClaims)
    <3>1. CASE acCache' = [acCache EXCEPT !.claims[claim] = acClaims[claim]]
      <4>1. claim \in AcRecords
        BY <2>1, <2>2 DEF ClaimsInv, CallSound
      <4>2. PICK copies : copies = [acCache.claims EXCEPT ![claim] = acClaims[claim]]
        OBVIOUS
      <4>3. acCache = [read |-> acCache.read, item |-> acCache.item, claims |-> acCache.claims]
        BY AcKept DEF CatalogSound
      <4>4. acCache' = [acCache EXCEPT !.claims = copies]
        BY <3>1, <4>2
      <4>5. acCache' = [read |-> acCache.read, item |-> acCache.item, claims |-> copies]
        BY <4>3, <4>4
      <4>6. /\ acCache.claims = [c \in AcRecords |-> acCache.claims[c]]
            /\ \A c \in AcRecords : AcCopy(acCache.claims[c], acClaims, c)
        BY AcKept DEF CatalogSound
      <4>7. AcCopy(acClaims[claim], acClaims, claim)
        BY <4>1 DEF ClaimsInv, StoredShaped, AcCopy
      <4>8. \A c \in AcRecords : copies[c] = IF c = claim THEN acClaims[claim] ELSE acCache.claims[c]
        BY <4>2, <4>6
      <4>9. copies = [c \in AcRecords |-> copies[c]]
        BY <4>2, <4>6
      <4>10. \A c \in AcRecords : AcCopy(copies[c], acClaims, c)
        BY <4>6, <4>7, <4>8
      <4> QED BY <4>5, <4>9, <4>10 DEF CatalogSound
    <3> QED BY <2>3, <3>1, AcKept
  <2>5. /\ EditorSound(acEditor', acEditing', acClaims)
        /\ CatalogReadSound(acRead', acClaims) /\ SeeingSound(acSeeing', acMatch)
    BY <2>2, <2>4, AcKept, AcReadsBegin, AcCommitSound
  <2> QED BY <1>1, <2>2, <2>4, <2>5 DEF ClaimsInv, RepeatsAreAnswered
<1>3. CASE ClaimNotSaved
  <2>1. /\ UNCHANGED <<acClaims, acMatch, acSeen, acCache, acEditing>> /\ acCall' = NoAcCall
        /\ \E read \in {[NoCatalogRead EXCEPT !.at = "sent"], acRead} :
             AcCommitted(acEditor, read, acSeeing)
    BY <1>3 DEF ClaimNotSaved, acserver
  <2>2. PICK read \in {[NoCatalogRead EXCEPT !.at = "sent"], acRead} :
             AcCommitted(acEditor, read, acSeeing)
    BY <2>1
  <2>3. CatalogReadSound(read, acClaims)
    BY AcKept, AcReadsBegin
  <2>4. /\ EditorSound(acEditor', acEditing', acClaims)
        /\ CatalogReadSound(acRead', acClaims) /\ SeeingSound(acSeeing', acMatch)
    BY <2>1, <2>2, <2>3, AcKept, AcCommitSound
  <2> QED BY <1>1, <2>1, <2>4 DEF ClaimsInv, RepeatsAreAnswered
<1>4. CASE CallIsLost
  <2>1. /\ acCall.at # "none" /\ acCall' = [acCall EXCEPT !.at = "failed"]
        /\ UNCHANGED <<acClaims, acMatch, acStored, acCache, acRead, acSeen, acSeeing, acEditing,
                       acEditor>>
    BY <1>4 DEF CallIsLost, acserver, acreads, acdialogs
  <2>2. CallSound(acCall', acClaims, acMatch) /\ acCall'.at = "failed"
    BY <2>1, CallMoves DEF ClaimsInv
  <2> QED BY <2>1, <2>2 DEF ClaimsInv, RepeatsAreAnswered
<1> QED BY <1>2, <1>3, <1>4

(* What the API stores, for a request and for others.                        *)
\* A record that is changed, with its version.
LEMMA RecordIsNewer ==
  ASSUME ClaimsInv, NEW c \in AcRecords, NEW record, acClaims' = [acClaims EXCEPT ![c] = record],
         acMatch' = acMatch,
         \/ record = acClaims[c]
         \/ /\ record = [there |-> record.there, ver |-> acClaims[c].ver + 1, state |-> record.state,
                         match |-> record.match, time |-> record.time]
            /\ record.there
  PROVE  /\ StoredShaped(acClaims', acMatch') /\ AcNewer(acClaims, acClaims')
         /\ AcNewerMatches(acMatch, acMatch')
<1>1. StoredShaped(acClaims, acMatch)
  BY DEF ClaimsInv
<1>2. acClaims'[c] = record /\ \A d \in AcRecords \ {c} : acClaims'[d] = acClaims[d]
  BY <1>1 DEF StoredShaped
<1>3. acClaims' = [d \in AcRecords |-> acClaims'[d]]
  BY <1>1 DEF StoredShaped
<1>4. record = acClaims[c] \/ (record.ver \in Nat /\ record.ver > acClaims[c].ver)
  <2>1. acClaims[c].ver \in Nat
    BY <1>1 DEF StoredShaped
  <2>2. record = acClaims[c] \/ record.ver = acClaims[c].ver + 1
    OBVIOUS
  <2> QED BY <2>1, <2>2
<1>5. /\ record = [there |-> record.there, ver |-> record.ver, state |-> record.state,
                   match |-> record.match, time |-> record.time]
      /\ record.ver \in Nat
      /\ ~record.there => record.ver = 0
  <2>1. CASE record = acClaims[c]
    BY <1>1, <2>1 DEF StoredShaped
  <2>2. CASE record # acClaims[c]
    <3>1. acClaims[c].ver \in Nat
      BY <1>1 DEF StoredShaped
    <3>2. record.ver = acClaims[c].ver + 1 /\ record.there
      BY <2>2
    <3> QED BY <2>2, <3>1, <3>2
  <2> QED BY <2>1, <2>2
<1>6. AcNewer(acClaims, acClaims')
  BY <1>2, <1>4 DEF AcNewer
<1> QED BY <1>1, <1>2, <1>3, <1>5, <1>6 DEF StoredShaped, AcNewerMatches

\* What a correction and a new record write.
LEMMA WhatIsWritten ==
  ASSUME ClaimsInv, NEW request, request.claim \in AcRecords
  PROVE  /\ \/ Corrected(request) = acClaims[request.claim]
            \/ /\ Corrected(request).ver = acClaims[request.claim].ver + 1
               /\ Corrected(request).there = acClaims[request.claim].there
               /\ Corrected(request) = [there |-> Corrected(request).there,
                     ver |-> acClaims[request.claim].ver + 1, state |-> Corrected(request).state,
                     match |-> Corrected(request).match, time |-> Corrected(request).time]
         /\ Corrected(request).match = request.match
         /\ Corrected(request).time =
               IF request.state = "cancelled"
                  \/ (request.match = NoMatch /\ acClaims[request.claim].match # NoMatch)
               THEN acClaims[request.claim].time
               ELSE IF request.match # NoMatch THEN acMatch[request.match].time ELSE request.time
<1>1. PICK previous : previous = acClaims[request.claim]
  OBVIOUS
<1>2. PICK time : time =
               IF request.state = "cancelled"
                  \/ (request.match = NoMatch /\ previous.match # NoMatch)
               THEN previous.time
               ELSE IF request.match # NoMatch THEN acMatch[request.match].time ELSE request.time
  OBVIOUS
<1>3. previous = [there |-> previous.there, ver |-> previous.ver, state |-> previous.state,
                  match |-> previous.match, time |-> previous.time]
  BY <1>1 DEF ClaimsInv, StoredShaped
<1>4. PICK next : next = [previous EXCEPT !.state = request.state, !.match = request.match,
                                          !.time = time]
  OBVIOUS
<1>5. next = [there |-> previous.there, ver |-> previous.ver, state |-> request.state,
              match |-> request.match, time |-> time]
  BY <1>3, <1>4
<1>6. PICK newer : newer = [next EXCEPT !.ver = @ + 1]
  OBVIOUS
<1>7. newer = [there |-> previous.there, ver |-> previous.ver + 1, state |-> request.state,
               match |-> request.match, time |-> time]
  BY <1>5, <1>6
<1>8. Corrected(request) = IF next = previous THEN previous ELSE newer
  BY <1>1, <1>2, <1>4, <1>6 DEF Corrected
<1>9. CASE next = previous
  <2>1. Corrected(request) = previous
    BY <1>8, <1>9
  <2>2. previous.match = request.match /\ previous.time = time
    BY <1>5, <1>9
  <2> QED BY <1>1, <1>2, <2>1, <2>2
<1>10. CASE next # previous
  <2>1. Corrected(request) = newer
    BY <1>8, <1>10
  <2>2. /\ newer.there = previous.there /\ newer.ver = previous.ver + 1
        /\ newer.match = request.match /\ newer.time = time /\ newer.state = request.state
    BY <1>7
  <2>3. newer = [there |-> newer.there, ver |-> previous.ver + 1, state |-> newer.state,
                 match |-> newer.match, time |-> newer.time]
    BY <1>7, <2>2
  <2> QED BY <1>1, <1>2, <2>1, <2>2, <2>3
<1> QED BY <1>9, <1>10

LEMMA AcServes ==
  ASSUME ClaimsInv, ServeClaim
  PROVE  ClaimsInv' /\ CorrectsWhatWasShown /\ UntouchedTimesAreKept
<1>1. PICK request : request = acCall.request
  OBVIOUS
<1>2. PICK allowed \in BOOLEAN :
        allowed = IF request.at = "correct" THEN Correctable(request) ELSE Recordable(request)
  <2>1. Correctable(request) \in BOOLEAN /\ Recordable(request) \in BOOLEAN
    BY Zenon DEF Correctable, Recordable
  <2> QED BY <2>1
<1>3. /\ acCall.at = "sent" /\ acMatch' = acMatch /\ acreads' = acreads /\ acdialogs' = acdialogs
      /\ IF Replayed(request) \/ ~allowed THEN acClaims' = acClaims /\ acStored' = acStored
         ELSE /\ acStored' = acStored \cup {request}
              /\ acClaims' = [acClaims EXCEPT ![request.claim] =
                   IF request.at = "correct" THEN Corrected(request) ELSE Recorded(request)]
      /\ \E at \in {"failed", "done", "conflict"} :
           /\ acCall' = [acCall EXCEPT !.at = at]
           /\ at = "conflict" => ~Replayed(request) /\ ~allowed
  BY <1>1, <1>2 DEF ServeClaim, acserver
<1>4. request.claim \in AcRecords /\ CallSound(acCall, acClaims, acMatch)
  BY <1>1, <1>3 DEF ClaimsInv, CallSound
<1>6. PICK at \in {"failed", "done", "conflict"} :
           /\ acCall' = [acCall EXCEPT !.at = at]
           /\ at = "conflict" => ~Replayed(request) /\ ~allowed
  BY <1>3
<1>7. CASE Replayed(request) \/ ~allowed
  <2>1. acClaims' = acClaims /\ acStored' = acStored
    BY <1>3, <1>7
  <2>2. StoredShaped(acClaims', acMatch') /\ AcNewer(acClaims, acClaims')
        /\ AcNewerMatches(acMatch, acMatch')
    BY <1>3, <2>1 DEF ClaimsInv, AcNewer, AcNewerMatches
  <2>3. /\ acEditing' \in AcRecords \cup {NoRecord}
        /\ CatalogSound(acCache', acClaims') /\ CatalogReadSound(acRead', acClaims')
        /\ SeenSound(acSeen', acMatch') /\ SeeingSound(acSeeing', acMatch')
        /\ EditorSound(acEditor', acEditing', acClaims')
        /\ CallSound(acCall, acClaims', acMatch')
    BY <1>3, <2>2, ClaimsAge
  <2>4. CallSound(acCall', acClaims', acMatch') /\ acCall'.at = at /\ acCall'.request = request
    BY <1>1, <1>3, <1>6, <2>3, CallMoves
  <2>5. RepeatsAreAnswered'
    BY <1>6, <2>1, <2>4 DEF RepeatsAreAnswered, Replayed
  <2> QED BY <2>1, <2>2, <2>3, <2>4, <2>5 DEF ClaimsInv, CorrectsWhatWasShown, UntouchedTimesAreKept
<1>8. CASE ~Replayed(request) /\ allowed /\ request.at = "correct"
  <2>1. PICK record : record = Corrected(request)
    OBVIOUS
  <2>2. acStored' = acStored \cup {request} /\ acClaims' = [acClaims EXCEPT ![request.claim] = record]
    BY <1>3, <1>8, <2>1
  <2>3. Correctable(request)
    BY <1>2, <1>8
  <2>4. acCall.base = acClaims[request.claim] /\ acCall.base.there
    <3>1. AcCopy(acCall.base, acClaims, request.claim) /\ request.claimVer = acCall.base.ver
          /\ acCall.base.there
      BY <1>1, <1>3, <1>4, <1>8 DEF CallSound
    <3>2. acClaims[request.claim].ver = request.claimVer
      BY <2>3 DEF Correctable
    <3> QED BY <3>1, <3>2 DEF AcCopy
  <2>5. /\ \/ record = acClaims[request.claim]
           \/ /\ record = [there |-> record.there, ver |-> acClaims[request.claim].ver + 1,
                            state |-> record.state, match |-> record.match, time |-> record.time]
              /\ record.there
        /\ record.match = request.match
        /\ record.time =
               IF request.state = "cancelled"
                  \/ (request.match = NoMatch /\ acClaims[request.claim].match # NoMatch)
               THEN acClaims[request.claim].time
               ELSE IF request.match # NoMatch THEN acMatch[request.match].time ELSE request.time
    BY <1>4, <2>1, <2>4, WhatIsWritten
  <2>6. /\ StoredShaped(acClaims', acMatch') /\ AcNewer(acClaims, acClaims')
        /\ AcNewerMatches(acMatch, acMatch')
    BY ONLY ClaimsInv, <1>3, <1>4, <2>2, <2>5, RecordIsNewer
  <2>7. /\ acEditing' \in AcRecords \cup {NoRecord}
        /\ CatalogSound(acCache', acClaims') /\ CatalogReadSound(acRead', acClaims')
        /\ SeenSound(acSeen', acMatch') /\ SeeingSound(acSeeing', acMatch')
        /\ EditorSound(acEditor', acEditing', acClaims')
        /\ CallSound(acCall, acClaims', acMatch')
    BY <1>3, <2>6, ClaimsAge
  <2>8. CallSound(acCall', acClaims', acMatch') /\ acCall'.at = at
    BY <1>1, <1>3, <1>6, <2>7, CallMoves
  <2>9. RepeatsAreAnswered'
    BY <1>6, <1>8, <2>8 DEF RepeatsAreAnswered
  <2>10. ClaimsInv'
    BY <2>6, <2>7, <2>8, <2>9 DEF ClaimsInv
  <2>11. acClaims'[request.claim] = record
    BY <1>4, <2>2 DEF ClaimsInv, StoredShaped
  <2>12. request.match # NoMatch => record.time = acCall.shown
    <3> SUFFICES ASSUME request.match # NoMatch PROVE record.time = acCall.shown
      OBVIOUS
    <3>1. request.state # "cancelled" /\ AcImage(request.matchVer, acCall.shown, acMatch, request.match)
      BY <1>1, <1>3, <1>4, <1>8 DEF CallSound
    <3>2. acMatch[request.match].ver = request.matchVer
      BY <2>3 DEF Correctable, MatchAccepted
    <3> QED BY <2>5, <3>1, <3>2 DEF AcImage
  <2>13. ~acCall.typed /\ record.match = NoMatch => record.time = acClaims[request.claim].time
    <3> SUFFICES ASSUME ~acCall.typed, request.match = NoMatch
                 PROVE  record.time = acClaims[request.claim].time
      BY <2>5
    <3>1. request.state # "cancelled" => request.time = acCall.base.time
      BY <1>1, <1>3, <1>4, <1>8 DEF CallSound
    <3> QED BY <2>4, <2>5, <3>1
  <2> QED BY <1>1, <2>4, <2>10, <2>11, <2>12, <2>13 DEF CorrectsWhatWasShown, UntouchedTimesAreKept
<1>9. CASE ~Replayed(request) /\ allowed /\ request.at # "correct"
  <2>1. PICK record : record = Recorded(request)
    OBVIOUS
  <2>2. acStored' = acStored \cup {request} /\ acClaims' = [acClaims EXCEPT ![request.claim] = record]
    BY <1>3, <1>9, <2>1
  <2>3. Recordable(request)
    BY <1>2, <1>9
  <2>4. request.claim = "new"
    BY <1>1, <1>3, <1>4, <1>9 DEF CallSound
  <2>5. acClaims[request.claim].ver = 0
    BY <1>4, <2>3, <2>4 DEF Recordable, ClaimsInv, StoredShaped
  <2>6. PICK yes \in BOOLEAN : yes = TRUE
    OBVIOUS
  <2>7. record = [there |-> yes, ver |-> 1, state |-> "achieved", match |-> request.match,
                  time |-> acMatch[request.match].time]
    BY <2>1, <2>6 DEF Recorded
  <2>8. /\ record = [there |-> record.there, ver |-> acClaims[request.claim].ver + 1,
                     state |-> record.state, match |-> record.match, time |-> record.time]
        /\ record.there
    BY <2>5, <2>6, <2>7
  <2>9. /\ StoredShaped(acClaims', acMatch') /\ AcNewer(acClaims, acClaims')
        /\ AcNewerMatches(acMatch, acMatch')
    BY ONLY ClaimsInv, <1>3, <1>4, <2>2, <2>8, RecordIsNewer
  <2>10. /\ acEditing' \in AcRecords \cup {NoRecord}
        /\ CatalogSound(acCache', acClaims') /\ CatalogReadSound(acRead', acClaims')
        /\ SeenSound(acSeen', acMatch') /\ SeeingSound(acSeeing', acMatch')
        /\ EditorSound(acEditor', acEditing', acClaims')
        /\ CallSound(acCall, acClaims', acMatch')
    BY <1>3, <2>9, ClaimsAge
  <2>11. CallSound(acCall', acClaims', acMatch') /\ acCall'.at = at
    BY <1>1, <1>3, <1>6, <2>10, CallMoves
  <2>12. RepeatsAreAnswered'
    BY <1>6, <1>9, <2>11 DEF RepeatsAreAnswered
  <2>13. ClaimsInv'
    BY <2>9, <2>10, <2>11, <2>12 DEF ClaimsInv
  <2>14. acClaims'[request.claim] = record
    BY <1>4, <2>2 DEF ClaimsInv, StoredShaped
  <2>15. request.match # NoMatch => record.time = acCall.shown
    <3> SUFFICES ASSUME request.match # NoMatch PROVE record.time = acCall.shown
      OBVIOUS
    <3>1. AcImage(request.matchVer, acCall.shown, acMatch, request.match)
      BY <1>1, <1>3, <1>4 DEF CallSound
    <3>2. acMatch[request.match].ver = request.matchVer
      BY <2>3 DEF Recordable, MatchAccepted
    <3>3. record.time = acMatch[request.match].time
      BY <2>7
    <3> QED BY <3>1, <3>2, <3>3 DEF AcImage
  <2> QED BY <1>1, <1>9, <2>13, <2>14, <2>15 DEF CorrectsWhatWasShown, UntouchedTimesAreKept
<1> QED BY <1>7, <1>8, <1>9

\* A record follows the match it is linked to, with a version of its own.
LEMMA RecordsFollow ==
  ASSUME ClaimsInv, NEW next, Follows(next), acMatch' = next,
         next = [m \in AcMatches |-> next[m]],
         \A m \in AcMatches :
           /\ next[m] = [there |-> next[m].there, ver |-> next[m].ver, time |-> next[m].time]
           /\ next[m] = acMatch[m] \/ next[m].ver = acMatch[m].ver + 1
  PROVE  /\ StoredShaped(acClaims', acMatch') /\ AcNewer(acClaims, acClaims')
         /\ AcNewerMatches(acMatch, acMatch')
<1>1. StoredShaped(acClaims, acMatch)
  BY DEF ClaimsInv
<1>2. \A m \in AcMatches : acMatch[m].ver \in Nat
  BY <1>1 DEF StoredShaped
<1>3. AcNewerMatches(acMatch, next)
  BY <1>2 DEF AcNewerMatches
<1>4. ASSUME NEW c \in AcRecords
      PROVE  /\ acClaims'[c] = acClaims[c] \/ (acClaims'[c].ver \in Nat /\ acClaims'[c].ver > acClaims[c].ver)
             /\ acClaims'[c] = [there |-> acClaims'[c].there, ver |-> acClaims'[c].ver,
                               state |-> acClaims'[c].state, match |-> acClaims'[c].match,
                               time |-> acClaims'[c].time]
             /\ acClaims'[c].ver \in Nat
             /\ ~acClaims'[c].there => acClaims'[c].ver = 0
  <2>1. PICK old : old = acClaims[c]
    OBVIOUS
  <2>2. /\ old = [there |-> old.there, ver |-> old.ver, state |-> old.state, match |-> old.match,
                 time |-> old.time]
        /\ old.ver \in Nat /\ (~old.there => old.ver = 0)
    BY <1>1, <1>4, <2>1 DEF StoredShaped
  <2>3. PICK match, time : /\ match = (IF next[old.match].there THEN old.match ELSE NoMatch)
                           /\ time = (IF next[old.match].there THEN next[old.match].time ELSE old.time)
    OBVIOUS
  <2>4. PICK new : new = [old EXCEPT !.ver = @ + 1, !.match = match, !.time = time]
    OBVIOUS
  <2>5. new = [there |-> old.there, ver |-> old.ver + 1, state |-> old.state, match |-> match,
               time |-> time]
    BY <2>2, <2>4
  <2>6. acClaims'[c] = IF ~old.there \/ old.match = NoMatch \/ acMatch[old.match] = next[old.match]
                       THEN old ELSE new
    BY <1>4, <2>1, <2>3, <2>4 DEF Follows, AcRecords
  <2>7. CASE acClaims'[c] = old
    BY <2>1, <2>2, <2>7
  <2>8. CASE acClaims'[c] = new /\ old.there
    <3>1. /\ new.ver = old.ver + 1 /\ new.there = old.there /\ new.state = old.state
          /\ new.match = match /\ new.time = time
      BY <2>5
    <3>2. new = [there |-> new.there, ver |-> new.ver, state |-> new.state, match |-> new.match,
                 time |-> new.time]
      BY <2>5, <3>1
    <3>3. new.ver \in Nat /\ new.ver > old.ver
      BY <2>2, <3>1
    <3> QED BY <2>1, <2>8, <3>1, <3>2, <3>3
  <2> QED BY <2>6, <2>7, <2>8
<1>5. acClaims' = [c \in AcRecords |-> acClaims'[c]]
  BY DEF Follows, AcRecords
<1>6. AcNewer(acClaims, acClaims')
  BY <1>4 DEF AcNewer
<1>7. \A m \in AcMatches : next[m].ver \in Nat
  BY <1>2
<1> QED BY <1>3, <1>4, <1>5, <1>6, <1>7 DEF StoredShaped

LEMMA AcOthers ==
  ASSUME ClaimsInv, OthersEditItem \/ OthersEditMatch \/ OthersCorrect
  PROVE  ClaimsInv'
<1>1. /\ acStored' = acStored /\ acCall' = acCall /\ acreads' = acreads /\ acdialogs' = acdialogs
  BY DEF OthersEditItem, OthersEditMatch, OthersCorrect
<1>2. /\ StoredShaped(acClaims', acMatch') /\ AcNewer(acClaims, acClaims')
      /\ AcNewerMatches(acMatch, acMatch')
  <2>1. CASE OthersEditItem
    BY <2>1 DEF OthersEditItem, ClaimsInv, AcNewer, AcNewerMatches
  <2>2. CASE OthersEditMatch
    <3>1. PICK m \in AcMatches, there \in BOOLEAN :
            \E next \in {[acMatch EXCEPT ![m] = MatchEdited(@, there)]} : acMatch' = next /\ Follows(next)
      BY <2>2 DEF OthersEditMatch
    <3>2. PICK next \in {[acMatch EXCEPT ![m] = MatchEdited(@, there)]} : acMatch' = next /\ Follows(next)
      BY <3>1
    <3>3. PICK image : image = next[m]
      OBVIOUS
    <3>4. acMatch = [k \in AcMatches |-> acMatch[k]]
      BY DEF ClaimsInv, StoredShaped
    <3>5. acMatch' = next /\ Follows(next)
      BY <3>2
    <3>6. next = [k \in AcMatches |-> next[k]] /\ next[m] = image
          /\ \A k \in AcMatches \ {m} : next[k] = acMatch[k]
      BY <3>2, <3>3, <3>4
    <3>9. image = MatchEdited(acMatch[m], there)
      BY <3>2, <3>3, <3>4
    <3>7. image = [there |-> image.there, ver |-> image.ver, time |-> image.time]
          /\ image.ver = acMatch[m].ver + 1
      BY <3>9 DEF MatchEdited
    <3>8. \A k \in AcMatches :
           /\ next[k] = [there |-> next[k].there, ver |-> next[k].ver, time |-> next[k].time]
           /\ next[k] = acMatch[k] \/ next[k].ver = acMatch[k].ver + 1
      BY <3>6, <3>7 DEF ClaimsInv, StoredShaped
    <3> QED BY ONLY ClaimsInv, <3>5, <3>6, <3>8, RecordsFollow
  <2>3. CASE OthersCorrect
    <3>1. PICK c \in {"old", "new"}, state \in {"achieved", "cancelled"} :
            acClaims' = [acClaims EXCEPT ![c].there = TRUE, ![c].ver = @ + 1, ![c].state = state]
      BY <2>3 DEF OthersCorrect
    <3>11. c \in AcRecords
      BY DEF AcRecords
    <3>2. PICK yes \in BOOLEAN : yes = TRUE
      OBVIOUS
    <3>3. PICK old : old = acClaims[c]
      OBVIOUS
    <3>4. acClaims' = [acClaims EXCEPT ![c].there = yes, ![c].ver = @ + 1, ![c].state = state]
      BY <3>1, <3>2
    <3>5. old = [there |-> old.there, ver |-> old.ver, state |-> old.state, match |-> old.match,
                 time |-> old.time]
      BY <3>3, <3>11 DEF ClaimsInv, StoredShaped
    <3>6. PICK record : record = acClaims'[c]
      OBVIOUS
    <3>7. acClaims = [d \in AcRecords |-> acClaims[d]]
      BY DEF ClaimsInv, StoredShaped
    <3>8. record = [there |-> yes, ver |-> old.ver + 1, state |-> state, match |-> old.match,
                    time |-> old.time]
      BY <3>3, <3>4, <3>5, <3>6, <3>7, <3>11
    <3>9. acClaims' = [acClaims EXCEPT ![c] = record] /\ acMatch' = acMatch
      BY <2>3, <3>4, <3>6, <3>7, <3>11 DEF OthersCorrect
    <3>10. /\ record = [there |-> record.there, ver |-> acClaims[c].ver + 1, state |-> record.state,
                       match |-> record.match, time |-> record.time]
           /\ record.there
      BY <3>2, <3>3, <3>8
    <3> QED BY ONLY ClaimsInv, <3>11, <3>9, <3>10, RecordIsNewer
  <2> QED BY <2>1, <2>2, <2>3
<1>3. /\ acEditing' \in AcRecords \cup {NoRecord}
      /\ CatalogSound(acCache', acClaims') /\ CatalogReadSound(acRead', acClaims')
      /\ SeenSound(acSeen', acMatch') /\ SeeingSound(acSeeing', acMatch')
      /\ EditorSound(acEditor', acEditing', acClaims')
      /\ CallSound(acCall, acClaims', acMatch')
  BY <1>1, <1>2, ClaimsAge
<1> QED BY <1>1, <1>2, <1>3 DEF ClaimsInv, RepeatsAreAnswered

LEMMA ClaimsGoOn ==
  ASSUME ClaimsInv, [AcNext]_acvars
  PROVE  ClaimsInv' /\ CorrectsWhatWasShown /\ UntouchedTimesAreKept
<1>1. CASE ServeClaim
  BY <1>1, AcServes
<1>2. ASSUME acStored' \subseteq acStored
      PROVE  CorrectsWhatWasShown /\ UntouchedTimesAreKept
  BY <1>2 DEF CorrectsWhatWasShown, UntouchedTimesAreKept
<1>3. CASE \/ ToggleDetails \/ RefreshPage \/ ChangeTitle \/ CloseClaim \/ RecordAchievement
           \/ SelectMatch \/ ReloadRecord \/ ReloadEnds \/ CloseRecord \/ KeepRecord
           \/ PublicationArrives \/ ReadCatalog \/ CatalogFails \/ ReadMatch
  <2>1. acStored' \subseteq acStored
    BY <1>3 DEF ToggleDetails, RefreshPage, ChangeTitle, CloseClaim, RecordAchievement, SelectMatch,
         ReloadRecord, ReloadEnds, CloseRecord, KeepRecord, PublicationArrives, ReadCatalog,
         CatalogFails, ReadMatch, acother
  <2> QED BY <1>2, <1>3, <2>1, AcDialogSteps
<1>4. CASE EditClaim \/ ChangeClaimForm \/ AskClaim \/ DismissAsked \/ CatalogArrives
  <2>1. acStored' \subseteq acStored
    BY <1>4 DEF EditClaim, ChangeClaimForm, AskClaim, DismissAsked, CatalogArrives, acother
  <2> QED BY <1>2, <1>4, <2>1, AcEditorSteps
<1>5. CASE SaveClaim \/ SaveRecord
  <2>1. acStored' \subseteq acStored
    BY <1>5 DEF SaveClaim, SaveRecord
  <2> QED BY <1>2, <1>5, <2>1, AcSends, AcRecordSent
<1>6. CASE ConfirmAsked
  <2>1. acEditor.ask \in {"cancel", "reload", "close"}
    BY <1>6, AcKept DEF EditorSound, AcAsks, ConfirmAsked
  <2>2. acStored' \subseteq acStored
    BY <1>6, <2>1 DEF ConfirmAsked
  <2> QED BY <1>2, <1>6, <2>2, AcConfirms
<1>7. CASE ServeCatalog \/ ServeMatch \/ MatchArrives \/ MatchFails
  <2>1. acStored' \subseteq acStored
    BY <1>7 DEF ServeCatalog, ServeMatch, MatchArrives, MatchFails, acother
  <2> QED BY <1>2, <1>7, <2>1, AcReadSteps
<1>8. CASE ClaimSaved \/ ClaimNotSaved \/ CallIsLost
  <2>1. acStored' \subseteq acStored
    BY <1>8 DEF ClaimSaved, ClaimNotSaved, CallIsLost
  <2> QED BY <1>2, <1>8, <2>1, AcCallEnds
<1>9. CASE OthersEditItem \/ OthersEditMatch \/ OthersCorrect
  <2>1. acStored' \subseteq acStored
    BY <1>9 DEF OthersEditItem, OthersEditMatch, OthersCorrect
  <2> QED BY <1>2, <1>9, <2>1, AcOthers
<1>10. CASE UNCHANGED acvars
  <2>1. /\ acStored' = acStored /\ acCall' = acCall /\ acClaims' = acClaims /\ acMatch' = acMatch
        /\ UNCHANGED <<acCache, acRead, acSeen, acSeeing, acEditing, acEditor>>
    BY <1>10 DEF acvars, acserver, acreads, acdialogs
  <2>2. ClaimsInv'
    BY <2>1 DEF ClaimsInv, RepeatsAreAnswered
  <2> QED BY <1>2, <2>1, <2>2
<1> QED BY <1>1, <1>3, <1>4, <1>5, <1>6, <1>7, <1>8, <1>9, <1>10 DEF AcNext

-----------------------------------------------------------------------------
(* The run's action properties: the components together.                    *)

ActsInv == CameraInv /\ DraftsInv
SavesInv == SetupInv /\ NoteInv /\ ClaimsInv

\* For any images, streams, drafts and faults: what answers after a page was left sends
\* nothing, no camera is held after it was closed, a check of a draft is not forgotten, the
\* page goes where it was asked last and a removed draft does not come back
\* (useOcrCapture, useCameraController, useDraftsListController).
THEOREM LateAnswersRest == Spec => LateAnswersActNowhere
<1> DEFINE Rest == /\ SendsNothingAfterLeaving
                   /\ CameraIsReleased'
                   /\ GoesWhereAskedLast'
                   /\ NoCheckIsForgotten'
                   /\ RemovedStaysGone'
<1>1. Init => ActsInv
  <2> SUFFICES ASSUME Init PROVE ActsInv
    OBVIOUS
  <2>1. CameraInit /\ DlInit
    BY DEF Init
  <2> QED BY <2>1, CameraStarts, DraftsStart DEF ActsInv
<1>2. ActsInv /\ [Next]_<<part, cvars, osvars, kvars, wsvars, rvvars, sivars, mnvars, acvars, dlvars>>
        => ActsInv' /\ [Rest]_<<cvars, osvars, kvars, wsvars, rvvars, sivars, mnvars, acvars, dlvars>>
  <2> SUFFICES ASSUME ActsInv,
                      [Next]_<<part, cvars, osvars, kvars, wsvars, rvvars, sivars, mnvars, acvars, dlvars>>
               PROVE  ActsInv' /\ Rest
    OBVIOUS
  <2>1. /\ CaptureNext \/ UNCHANGED cvars
        /\ CameraNext \/ UNCHANGED kvars
        /\ DlNext \/ UNCHANGED dlvars
    BY Zenon DEF Next
  <2>2. SendsNothingAfterLeaving
    BY <2>1, CaptureSendsNothing
  <2>3. CameraInv'
    BY <2>1, CameraGoesOn DEF ActsInv
  <2>4. RowsInv' /\ VisitInv'
    BY <2>1, RowsGoOn, VisitsGoOn DEF ActsInv, DraftsInv
  <2>5. CameraIsReleased'
    BY <2>3 DEF CameraInv
  <2>6. GoesWhereAskedLast' /\ NoCheckIsForgotten'
    BY <2>4 DEF VisitInv
  <2>7. RemovedStaysGone'
    BY <2>4 DEF RowsInv
  <2> QED BY <2>2, <2>3, <2>4, <2>5, <2>6, <2>7 DEF ActsInv, DraftsInv
<1> HIDE DEF Rest
<1>3. Spec => [][Rest]_<<cvars, osvars, kvars, wsvars, rvvars, sivars, mnvars, acvars, dlvars>>
  BY <1>1, <1>2, PTL DEF Spec
<1> QED BY <1>3 DEF Rest, LateAnswersActNowhere

\* For any seasons, notes, records, matches and acts of others: a save replaces only what
\* its dialog was shown, a time that was not edited is kept to the second, a repeat is
\* answered as the first time, and a number or season that was chosen is not replaced by
\* what is read later (useMatchNoteController, AchievementClaimEditor, useOcrSetup).
THEOREM SavesRest == Spec => SavesOverWhatWasShown
<1> DEFINE Rest == /\ NumberWaitsForRead
                   /\ ChoicesStay
                   /\ CorrectsWhatWasShown
                   /\ UntouchedTimesAreKept
                   /\ OverwritesOnlyWhatWasShown'
                   /\ RepeatsAreAnswered'
<1>1. Init => SavesInv
  <2> SUFFICES ASSUME Init PROVE SavesInv
    OBVIOUS
  <2>1. OsInit /\ NoteInit /\ AcInit
    BY DEF Init
  <2> QED BY <2>1, SetupInit, NoteStarts, ClaimsStart DEF SavesInv
<1>2. SavesInv /\ [Next]_<<part, cvars, osvars, kvars, wsvars, rvvars, sivars, mnvars, acvars, dlvars>>
        => SavesInv' /\ [Rest]_<<cvars, osvars, kvars, wsvars, rvvars, sivars, mnvars, acvars, dlvars>>
  <2> SUFFICES ASSUME SavesInv,
                      [Next]_<<part, cvars, osvars, kvars, wsvars, rvvars, sivars, mnvars, acvars, dlvars>>
               PROVE  SavesInv' /\ Rest
    OBVIOUS
  <2>1. /\ OsNext \/ UNCHANGED osvars
        /\ NoteNext \/ UNCHANGED mnvars
        /\ AcNext \/ UNCHANGED acvars
    BY Zenon DEF Next
  <2>2. SetupInv' /\ NumberWaitsForRead /\ ChoicesStay
    BY <2>1, SetupNext DEF SavesInv, SetupStays
  <2>3. NoteInv'
    BY <2>1, NoteGoesOn DEF SavesInv
  <2>4. ClaimsInv' /\ CorrectsWhatWasShown /\ UntouchedTimesAreKept
    BY <2>1, ClaimsGoOn DEF SavesInv
  <2>5. OverwritesOnlyWhatWasShown'
    BY <2>3 DEF NoteInv
  <2>6. RepeatsAreAnswered'
    BY <2>4 DEF ClaimsInv
  <2> QED BY <2>2, <2>3, <2>4, <2>5, <2>6 DEF SavesInv
<1> HIDE DEF Rest
<1>3. Spec => [][Rest]_<<cvars, osvars, kvars, wsvars, rvvars, sivars, mnvars, acvars, dlvars>>
  BY <1>1, <1>2, PTL DEF Spec
<1> QED BY <1>3 DEF Rest, SavesOverWhatWasShown
=============================================================================
