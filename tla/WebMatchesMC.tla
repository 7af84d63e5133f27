---------------------------- MODULE WebMatchesMC -----------------------------
(* The screens from an image to a recorded match, one at a time.             *)
EXTENDS CaptureFlow, OcrSetup, CameraSession, MatchWorkspace, MatchReviewMC,
        SourceImages, MatchNote, AchievementClaims, DraftList, TLC

VARIABLE part  \* the component that runs; the others rest in an initial state

MCKindOrder == <<"total_assets", "revenue">>

MCSetupSeasons == {[id |-> "s1", title |-> "t1"], [id |-> "s2", title |-> "t2"]}

WsSymmetry == Permutations(WsMaps)

MCImageKinds == <<"total_assets", "revenue", "incident_log">>

Init ==
  /\ part \in {"capture", "setup", "camera", "workspace", "review", "images",
              "note", "claims", "drafts"}
  /\ CaptureInit
  /\ OsInit
  /\ part # "setup" => osServer = Beginning({}, NoSetup)
  /\ CameraInit
  /\ WorkspaceInit
  /\ part # "workspace" => wsMode = "create" /\ wsServer.maps = {} /\ wsStorage
  /\ ReviewInit
  /\ part # "review" => rvPayload = CHOOSE payload \in MCPayloads : TRUE
  /\ SiInit
  /\ part # "images" => siServer.image = [k \in ImageKinds |-> 1]
  /\ NoteInit
  /\ part # "note" => mnCache.body = Nobody
  /\ AcInit
  /\ part # "claims" => acClaims["old"].match = NoMatch /\ acClaims["old"].state = "achieved"
  /\ DlInit
  /\ part # "drafts" => dlServer = [d \in DlDrafts |-> "ready"]

Next ==
  \/ part = "capture" /\ CaptureNext
     /\ UNCHANGED <<part, osvars, kvars, wsvars, rvvars, sivars, mnvars,
                   acvars, dlvars>>
  \/ part = "setup" /\ OsNext
     /\ UNCHANGED <<part, cvars, kvars, wsvars, rvvars, sivars, mnvars,
                   acvars, dlvars>>
  \/ part = "camera" /\ CameraNext
     /\ UNCHANGED <<part, cvars, osvars, wsvars, rvvars, sivars, mnvars,
                   acvars, dlvars>>
  \/ part = "workspace" /\ WorkspaceNext
     /\ UNCHANGED <<part, cvars, osvars, kvars, rvvars, sivars, mnvars,
                   acvars, dlvars>>
  \/ part = "review" /\ ReviewNext
     /\ UNCHANGED <<part, cvars, osvars, kvars, wsvars, sivars, mnvars,
                   acvars, dlvars>>
  \/ part = "images" /\ SiNext
     /\ UNCHANGED <<part, cvars, osvars, kvars, wsvars, rvvars, mnvars,
                   acvars, dlvars>>
  \/ part = "note" /\ NoteNext
     /\ UNCHANGED <<part, cvars, osvars, kvars, wsvars, rvvars, sivars,
                   acvars, dlvars>>
  \/ part = "claims" /\ AcNext
     /\ UNCHANGED <<part, cvars, osvars, kvars, wsvars, rvvars, sivars,
                   mnvars, dlvars>>
  \/ part = "drafts" /\ DlNext
     /\ UNCHANGED <<part, cvars, osvars, kvars, wsvars, rvvars, sivars,
                   mnvars, acvars>>

Spec == Init /\ [][Next]_<<part, cvars, osvars, kvars, wsvars, rvvars,
                            sivars, mnvars, acvars, dlvars>>

(* Every component keeps the types of its state, from the editing state of   *)
(* a screen to the requests it has under way.                                *)
WebMatchesTypeOK ==
  /\ CaptureTypeOK
  /\ OsTypeOK
  /\ CameraTypeOK
  /\ WorkspaceTypeOK
  /\ ReviewTypeOK
  /\ SiTypeOK
  /\ NoteTypeOK
  /\ AcTypeOK
  /\ DlTypeOK

(* Code behaviour: no image is read by two jobs, whatever answers are lost   *)
(* and repeated, a slot shows the job of the image it holds now, and the     *)
(* number and season sent with it were set for the event and the title sent. *)
(* A review downloads the displayed image first, repeats failed downloads    *)
(* only where asked, and holds and saves the images on the page, and none    *)
(* after its end.                                                            *)
ReadingsFitTheCapture ==
  /\ NoImageReadTwice
  /\ SlotsShowTheirOwnJob
  /\ SetupFits
  /\ DisplayedFirst
  /\ TriesAreAskedFor
  /\ UrlsAreReleased
  /\ ArchiveIsOfThePage

(* Code behaviour: an answer that comes after its page moved on does nothing *)
(* there.  No workflow sends more, no camera stays live, a checked draft     *)
(* takes the user only where he asked last, and no list brings a removed row *)
(* back.                                                                     *)
LateAnswersActNowhere ==
  [][/\ SendsNothingAfterLeaving
     /\ CameraIsReleased'
     /\ GoesWhereAskedLast'
     /\ NoCheckIsForgotten'
     /\ RemovedStaysGone']_<<cvars, osvars, kvars, wsvars, rvvars, sivars, mnvars, acvars, dlvars>>

(* Code behaviour: notes and records that others change behind an open       *)
(* dialog are only replaced by a save that was shown them; a time, number or *)
(* season that was chosen is not replaced by one that is read later.         *)
SavesOverWhatWasShown ==
  [][/\ NumberWaitsForRead
     /\ ChoicesStay
     /\ CorrectsWhatWasShown
     /\ UntouchedTimesAreKept
     /\ OverwritesOnlyWhatWasShown'
     /\ RepeatsAreAnswered']_<<cvars, osvars, kvars, wsvars, rvvars, sivars, mnvars, acvars, dlvars>>
==============================================================================
