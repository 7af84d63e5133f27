-------------------------- MODULE AchievementClaims --------------------------
(***************************************************************************)
(* The achievements page (features/achievements): the record of one manual *)
(* item, its correction in one dialog and a new record in another.  Each   *)
(* starts from what was read, names the versions it was shown, and is      *)
(* saved while others edit the item, its records and the matches.          *)
(*                                                                         *)
(* One item with a record of one player ("old") and none yet of another    *)
(* ("new").  Automatic items cannot be changed here; invalid dates and the *)
(* pages of the match picker are left out.                                 *)
(***************************************************************************)
EXTENDS Naturals, FiniteSets

CONSTANTS AcMatches, AcFitting,  \* matches, and those the item accepts
          AcMinutes,             \* minutes that can be typed
          AcMoves, AcFaults      \* bounds: inputs; failures and others' changes

ASSUME AcBounds == AcFitting \subseteq AcMatches /\ AcMinutes \subseteq Nat \ {0}

VARIABLES acItem, acMatch, acClaims,  \* what the API stores
          acStored,   \* requests done whose keys the open dialog still holds
          acCache, acRead,    \* the catalog and its read
          acSeen, acSeeing,   \* the selected matches' identities and the read of one
          acPublished,        \* the item as published: "none", "live" or "retired"
          acHere, acAsked,    \* the title and the details the URL asks for
          acEditing, acEditor,  \* the record being corrected; its dialog
          acRecorder,           \* the dialog of a new record
          acCall,     \* the request under way, with what its dialog showed
          acFailure,  \* of the last request: "none", "conflict" or "failed"
          acMoved, acFaulted

acserver == <<acItem, acMatch, acClaims>>
acreads == <<acCache, acRead, acSeen, acSeeing>>
acpage == <<acPublished, acHere, acAsked>>
acdialogs == <<acEditing, acEditor, acRecorder>>
acvars == <<acserver, acStored, acreads, acpage, acdialogs, acCall, acFailure, acMoved, acFaulted>>

NoMatch == "no match"
NoRecord == "none"
NoTime == [min |-> 0, sec |-> 0]
DateTimeInput(time) == time.min
DateTimeFromInput(min) == [min |-> min, sec |-> 0]
Unrecorded == [there |-> FALSE, ver |-> 0, state |-> "unconfirmed", match |-> NoMatch,
               time |-> NoTime]
NoCatalog == [read |-> FALSE, item |-> [ver |-> 0, retired |-> FALSE],
            claims |-> [c \in {"old", "new"} |-> Unrecorded]]
Catalog == [read |-> TRUE, item |-> acItem, claims |-> acClaims]
NoCatalogRead == [at |-> "none", catalog |-> NoCatalog]
Unseen == [kind |-> "none", ver |-> 0, time |-> NoTime, failed |-> FALSE]
NotSeeing == [match |-> NoMatch, at |-> "none", seen |-> Unseen]
NoClaimEditor == [on |-> FALSE, base |-> Unrecorded, itemVer |-> 0,
                  form |-> [state |-> "unconfirmed", match |-> NoMatch, min |-> 0], ask |-> "none"]
NoRecorder == [on |-> FALSE, match |-> NoMatch, itemVer |-> 0, snap |-> NoCatalog.item,
               ask |-> FALSE, reload |-> "no"]
NothingAsked == [at |-> "none", claim |-> NoRecord, match |-> NoMatch, matchVer |-> 0,
                 itemVer |-> 0, claimVer |-> 0, state |-> "unconfirmed", time |-> NoTime]
NoAcCall == [at |-> "none", request |-> NothingAsked, base |-> Unrecorded, typed |-> FALSE,
             shown |-> NoTime]
-----------------------------------------------------------------------------
(* What the page shows.  A dialog of corrections goes with its record.       *)
PublishedRetired == IF acPublished = "none" THEN acCache.item.retired ELSE acPublished = "retired"
DetailsShown == /\ acHere /\ acAsked /\ (acPublished # "none" \/ acCache.read)
                /\ acEditing = NoRecord /\ ~acRecorder.on
ClaimForm(claim) == [state |-> claim.state, match |-> claim.match, min |-> DateTimeInput(claim.time)]
EditorOf(claim, item) ==
  [on |-> TRUE, base |-> claim, itemVer |-> item.ver, form |-> ClaimForm(claim), ask |-> "none"]
CorrectionShown == acEditing # NoRecord /\ acHere /\ acCache.read /\ acCache.claims[acEditing].there
RecorderItem == IF acHere /\ acCache.read THEN acCache.item ELSE acRecorder.snap
ExistingClaim == acHere /\ acCache.read /\ acCache.claims["new"].there
CanRecord == /\ DetailsShown /\ acCache.read /\ ~PublishedRetired /\ ~ExistingClaim
             /\ ~acCache.item.retired
SelectedMatch == IF acEditor.on THEN acEditor.form.match ELSE acRecorder.match

\* What React shows after a step: the dialogs, and only the reads still wanted.
AcCommitted(editor, read, seeing) ==
  /\ acEditor' = IF ~CorrectionShown' THEN NoClaimEditor
                 ELSE IF editor.on THEN editor
                 ELSE EditorOf(acCache'.claims[acEditing'], acCache'.item)
  /\ acRead' = IF acHere' \/ acRecorder'.reload = "on" THEN read ELSE NoCatalogRead
  /\ acSeeing' = IF seeing.match = SelectedMatch' THEN seeing ELSE NotSeeing
AcStays == AcCommitted(acEditor, acRead, acSeeing)
AcCount == acMoved < AcMoves /\ acMoved' = acMoved + 1
AcFault == acFaulted < AcFaults /\ acFaulted' = acFaulted + 1
AcPending == acCall.at # "none"
-----------------------------------------------------------------------------
(* The page: details of the item, and the title, which Back can change.      *)
ToggleDetails ==
  /\ acHere /\ acEditing = NoRecord /\ ~acRecorder.on
  /\ acAsked' = ~acAsked
  /\ UNCHANGED <<acserver, acStored, acCache, acSeen, acPublished, acHere, acEditing, acRecorder,
                 acCall, acFailure, acMoved, acFaulted>> /\ AcStays
RefreshPage ==
  /\ acHere /\ acEditing = NoRecord /\ ~acRecorder.on /\ AcCount
  /\ UNCHANGED <<acserver, acStored, acCache, acSeen, acpage, acEditing, acRecorder, acCall,
                 acFailure, acFaulted>>
  /\ AcCommitted(acEditor, [NoCatalogRead EXCEPT !.at = "sent"], acSeeing)
EditorDirtied == acEditor.on /\ acEditor.form # ClaimForm(acEditor.base)
RecorderBusy == acRecorder.on /\ (AcPending \/ acRecorder.reload = "on")
ChangeTitle ==
  /\ ~AcPending /\ ~RecorderBusy /\ AcCount
  /\ acHere' = ~acHere /\ acAsked' = FALSE
  /\ acEditing' = IF EditorDirtied THEN NoRecord ELSE acEditing  \* dropped when the guard asks
  /\ acRecorder' = IF acRecorder.match # NoMatch THEN NoRecorder ELSE acRecorder
  /\ UNCHANGED <<acserver, acCache, acSeen, acPublished, acCall, acFailure, acFaulted>> /\ AcStays
  /\ acStored' = IF acEditor'.on \/ acRecorder'.on THEN acStored ELSE {}
-----------------------------------------------------------------------------
(* Correcting a record.                                                      *)
EditClaim ==
  /\ DetailsShown
  /\ acEditing' \in {c \in {"old", "new"} : acCache.claims[c].there}
  /\ acFailure' = "none" /\ acStored' = {}
  /\ UNCHANGED <<acserver, acCache, acSeen, acpage, acRecorder, acCall, acMoved, acFaulted>>
  /\ AcStays
ChangeClaimForm ==
  /\ acEditor.on /\ acEditor.ask = "none" /\ ~AcPending /\ AcCount
  /\ UNCHANGED <<acserver, acStored, acCache, acSeen, acpage, acEditing, acRecorder, acCall,
                 acFailure, acFaulted>>
  /\ \E form \in
       {[acEditor.form EXCEPT !.state = s] :
          s \in {"achieved", "cancelled"}
                  \cup (IF acEditor.base.state = "unconfirmed" THEN {"unconfirmed"} ELSE {})}
       \cup {[acEditor.form EXCEPT !.match = m] : m \in AcFitting \cup {NoMatch}}
       \cup {[acEditor.form EXCEPT !.min = t] :
               t \in IF acEditor.form.match = NoMatch /\ acEditor.base.match = NoMatch
                     THEN AcMinutes \cup {0} ELSE {}} :
       /\ form # acEditor.form
       /\ AcCommitted([acEditor EXCEPT !.form = form], acRead, acSeeing)

MatchFound(m) == acSeen[m].kind = "found"
Seeing(m) == acSeeing.match = m /\ acSeeing.at # "none"
Cancelling == acEditor.form.state = "cancelled"
Linked == ~Cancelling /\ acEditor.form.match # NoMatch
EligibleIdentity == Linked => MatchFound(acEditor.form.match) /\ acEditor.form.match \in AcFitting
ClaimConflict == acCache.claims[acEditing].ver # acEditor.base.ver
                 \/ acCache.item.ver # acEditor.itemVer
CanSaveClaim ==
  /\ acEditor.on /\ EditorDirtied /\ ~ClaimConflict /\ acEditor.form.state # "unconfirmed"
  /\ ~AcPending /\ EligibleIdentity
  /\ Linked => ~acSeen[acEditor.form.match].failed /\ ~Seeing(acEditor.form.match)
TypedTimeOnly == DateTimeFromInput(acEditor.form.min)
TypedTime == IF acEditor.form.min = DateTimeInput(acEditor.base.time) THEN acEditor.base.time
             ELSE DateTimeFromInput(acEditor.form.min)
CorrectionRequest ==
  [at |-> "correct", claim |-> acEditing,
   match |-> IF Cancelling THEN NoMatch ELSE acEditor.form.match,
   matchVer |-> IF Linked THEN acSeen[acEditor.form.match].ver ELSE 0,
   itemVer |-> acEditor.itemVer, claimVer |-> acEditor.base.ver, state |-> acEditor.form.state,
   time |-> IF Cancelling THEN acEditor.base.time
            ELSE IF Linked THEN acSeen[acEditor.form.match].time ELSE TypedTime]
SubmitCorrection ==
  acCall' = [at |-> "sent", request |-> CorrectionRequest, base |-> acEditor.base,
             typed |-> acEditor.form.min # DateTimeInput(acEditor.base.time),
             shown |-> IF Linked THEN acSeen[acEditor.form.match].time ELSE NoTime]
SaveClaim ==
  /\ CanSaveClaim /\ acEditor.ask = "none" /\ AcCount
  /\ UNCHANGED <<acserver, acStored, acCache, acSeen, acpage, acEditing, acRecorder, acFaulted>>
  /\ IF Cancelling /\ acEditor.base.state # "cancelled"
     THEN /\ UNCHANGED <<acCall, acFailure>>
          /\ AcCommitted([acEditor EXCEPT !.ask = "cancel"], acRead, acSeeing)
     ELSE SubmitCorrection /\ acFailure' = "none" /\ AcStays
\* Cancelling the record, reloading it or closing the dialog is asked first when
\* input would be lost; the answer acts on what is true when it is given.
AskClaim ==
  /\ acEditor.on /\ acEditor.ask = "none" /\ ~AcPending
  /\ UNCHANGED <<acserver, acStored, acCache, acSeen, acpage, acEditing, acRecorder, acCall,
                 acFailure, acMoved, acFaulted>>
  /\ \E ask \in {"close", "reload"} :
       /\ IF ask = "close" THEN EditorDirtied ELSE ClaimConflict
       /\ AcCommitted([acEditor EXCEPT !.ask = ask], acRead, acSeeing)
DismissAsked ==
  /\ acEditor.ask # "none" /\ ~AcPending
  /\ UNCHANGED <<acserver, acStored, acCache, acSeen, acpage, acEditing, acRecorder, acCall,
                 acFailure, acMoved, acFaulted>>
  /\ AcCommitted([acEditor EXCEPT !.ask = "none"], acRead, acSeeing)
ConfirmAsked ==
  /\ acEditor.ask # "none" /\ ~AcPending
  /\ UNCHANGED <<acserver, acCache, acSeen, acpage, acRecorder, acMoved, acFaulted>>
  /\ CASE acEditor.ask = "cancel" ->
            /\ IF CanSaveClaim THEN SubmitCorrection /\ acFailure' = "none"
               ELSE UNCHANGED <<acCall, acFailure>>
            /\ UNCHANGED <<acStored, acEditing>>
            /\ AcCommitted([acEditor EXCEPT !.ask = "none"], acRead, acSeeing)
       [] acEditor.ask = "reload" ->
            /\ acFailure' = "none" /\ UNCHANGED <<acCall, acStored, acEditing>>
            /\ AcCommitted(EditorOf(acCache.claims[acEditing], acCache.item), acRead, acSeeing)
       [] acEditor.ask = "close" ->
            /\ acEditing' = NoRecord /\ acStored' = {} /\ UNCHANGED <<acCall, acFailure>>
            /\ AcCommitted(NoClaimEditor, acRead, acSeeing)
CloseClaim ==
  /\ acEditor.on /\ acEditor.ask = "none" /\ ~AcPending /\ ~EditorDirtied
  /\ acEditing' = NoRecord /\ acStored' = {}
  /\ UNCHANGED <<acserver, acCache, acSeen, acpage, acRecorder, acCall, acFailure, acMoved,
                 acFaulted>> /\ AcStays
-----------------------------------------------------------------------------
(* A new record: a match is chosen, and after a conflict both it and the     *)
(* item must be read again before it can be saved.                           *)
RecordAchievement ==
  /\ CanRecord
  /\ acRecorder' = [NoRecorder EXCEPT !.on = TRUE, !.itemVer = acCache.item.ver,
                                      !.snap = acCache.item]
  /\ acFailure' = "none" /\ acStored' = {}
  /\ UNCHANGED <<acserver, acCache, acSeen, acpage, acEditing, acCall, acMoved, acFaulted>>
  /\ AcStays
Unavailable == RecorderItem.retired \/ ExistingClaim
SelectMatch ==
  /\ acRecorder.on /\ ~RecorderBusy /\ ~acRecorder.ask /\ ~Unavailable /\ AcCount
  /\ \E m \in AcFitting \ {acRecorder.match} : acRecorder' = [acRecorder EXCEPT !.match = m]
  /\ UNCHANGED <<acserver, acStored, acCache, acSeen, acpage, acEditing, acCall, acFailure,
                 acFaulted>> /\ AcStays
RecordConflict == RecorderItem.ver # acRecorder.itemVer \/ acFailure = "conflict"
CanSaveRecord ==
  /\ acRecorder.on /\ acRecorder.match \in AcFitting /\ MatchFound(acRecorder.match)
  /\ ~acSeen[acRecorder.match].failed /\ ~Seeing(acRecorder.match)
  /\ ~Unavailable /\ ~RecordConflict /\ ~RecorderBusy
SaveRecord ==
  /\ CanSaveRecord /\ ~acRecorder.ask /\ AcCount
  /\ acCall' = [NoAcCall EXCEPT !.at = "sent", !.shown = acSeen[acRecorder.match].time,
       !.request = [NothingAsked EXCEPT !.at = "record", !.claim = "new",
                      !.match = acRecorder.match, !.matchVer = acSeen[acRecorder.match].ver,
                      !.itemVer = acRecorder.itemVer]]
  /\ acFailure' = "none"
  /\ UNCHANGED <<acserver, acStored, acCache, acSeen, acpage, acEditing, acRecorder, acFaulted>>
  /\ AcStays
ReloadRecord ==
  /\ acRecorder.on /\ ~RecorderBusy /\ ~acRecorder.ask /\ ~Unavailable /\ RecordConflict
  /\ acRecorder.match # NoMatch /\ AcCount
  /\ acRecorder' = [acRecorder EXCEPT !.reload = "on"]
  /\ UNCHANGED <<acserver, acStored, acCache, acSeen, acpage, acEditing, acCall, acFailure,
                 acFaulted>>
  /\ AcCommitted(acEditor, IF acRead.at = "none" THEN [NoCatalogRead EXCEPT !.at = "sent"] ELSE acRead,
                 [NotSeeing EXCEPT !.match = acRecorder.match, !.at = "sent"])
ReloadEnds ==
  /\ acRecorder.reload = "on" /\ acRead.at = "none" /\ acSeeing.at = "none"
  /\ acRecorder' = [acRecorder EXCEPT !.reload = "no", !.itemVer = acCache.item.ver]
  /\ acFailure' = "none"
  /\ UNCHANGED <<acserver, acStored, acCache, acSeen, acpage, acEditing, acCall, acMoved,
                 acFaulted>> /\ AcStays
CloseRecord ==
  /\ acRecorder.on /\ ~RecorderBusy
  /\ IF acRecorder.match # NoMatch /\ ~acRecorder.ask
     THEN acRecorder' = [acRecorder EXCEPT !.ask = TRUE] /\ UNCHANGED acStored
     ELSE acRecorder' = NoRecorder /\ acStored' = {}
  /\ UNCHANGED <<acserver, acCache, acSeen, acpage, acEditing, acCall, acFailure, acMoved,
                 acFaulted>> /\ AcStays
KeepRecord ==
  /\ acRecorder.ask
  /\ acRecorder' = [acRecorder EXCEPT !.ask = FALSE]
  /\ UNCHANGED <<acserver, acStored, acCache, acSeen, acpage, acEditing, acCall, acFailure,
                 acMoved, acFaulted>> /\ AcStays
-----------------------------------------------------------------------------
(* The API's transactions; a key that was used is answered as it was.        *)
Replayed(request) == request \in acStored
MatchAccepted(request) ==
  /\ acMatch[request.match].there /\ acMatch[request.match].ver = request.matchVer
  /\ request.match \in AcFitting
Corrected(request) ==
  LET previous == acClaims[request.claim]
      unlinked == request.match = NoMatch /\ previous.match # NoMatch
      time == CASE request.state = "cancelled" \/ unlinked -> previous.time
                [] request.state # "cancelled" /\ request.match # NoMatch ->
                     acMatch[request.match].time
                [] OTHER -> request.time
      next == [previous EXCEPT !.state = request.state, !.match = request.match, !.time = time]
  IN IF next = previous THEN previous ELSE [next EXCEPT !.ver = @ + 1]
Correctable(request) ==
  LET previous == acClaims[request.claim]
  IN /\ acItem.ver = request.itemVer /\ previous.ver = request.claimVer
     /\ request.match # NoMatch => /\ MatchAccepted(request)
                                   /\ request.time \in {NoTime, acMatch[request.match].time}
     /\ previous.match # NoMatch /\ request.match = NoMatch
          => request.time \in {NoTime, previous.time}
Recordable(request) ==
  /\ MatchAccepted(request) /\ acItem.ver = request.itemVer /\ ~acItem.retired
  /\ ~acClaims["new"].there
Recorded(request) == [there |-> TRUE, ver |-> 1, state |-> "achieved", match |-> request.match,
                      time |-> acMatch[request.match].time]
ServeClaim ==
  /\ acCall.at = "sent"
  /\ LET request == acCall.request
         allowed == IF request.at = "correct" THEN Correctable(request) ELSE Recordable(request)
     IN \E lost \in BOOLEAN :
          /\ IF lost THEN AcFault ELSE UNCHANGED acFaulted
          /\ IF Replayed(request) \/ ~allowed THEN UNCHANGED <<acClaims, acStored>>
             ELSE /\ acStored' = acStored \cup {request}
                  /\ acClaims' = [acClaims EXCEPT ![request.claim] =
                       IF request.at = "correct" THEN Corrected(request) ELSE Recorded(request)]
          /\ acCall' = [acCall EXCEPT !.at = IF lost THEN "failed"
                                            ELSE IF Replayed(request) \/ allowed THEN "done"
                                            ELSE "conflict"]
  /\ UNCHANGED <<acItem, acMatch, acreads, acpage, acdialogs, acFailure, acMoved>>
CallIsLost ==
  /\ acCall.at = "sent" /\ AcFault
  /\ acCall' = [acCall EXCEPT !.at = "failed"]
  /\ UNCHANGED <<acserver, acStored, acreads, acpage, acdialogs, acFailure, acMoved>>

\* Success puts a correction into the catalog, reads everything again and closes.
ClaimSaved ==
  /\ acCall.at = "done"
  /\ acCall' = NoAcCall /\ acStored' = {}
  /\ LET claim == acCall.request.claim
     IN acCache' = IF acCall.request.at = "correct" /\ acCache.read
                   THEN [acCache EXCEPT !.claims[claim] = acClaims[claim]] ELSE acCache
  /\ acEditing' = NoRecord /\ acRecorder' = NoRecorder
  /\ UNCHANGED <<acserver, acSeen, acpage, acFailure, acMoved, acFaulted>>
  /\ AcCommitted(NoClaimEditor, [NoCatalogRead EXCEPT !.at = "sent"], acSeeing)
ClaimNotSaved ==
  /\ acCall.at \in {"conflict", "failed"}
  /\ acCall' = NoAcCall /\ acFailure' = acCall.at
  /\ UNCHANGED <<acserver, acStored, acCache, acSeen, acpage, acEditing, acRecorder, acMoved,
                 acFaulted>>
  /\ AcCommitted(acEditor, IF acCall.at = "conflict" /\ acEditor.on
                           THEN [NoCatalogRead EXCEPT !.at = "sent"] ELSE acRead, acSeeing)
-----------------------------------------------------------------------------
(* Reads of the catalog and of the selected match.                           *)
acother == <<acserver, acStored, acpage, acEditing, acCall, acFailure, acMoved>>
ReadCatalog ==
  /\ acHere /\ ~acCache.read /\ acRead.at = "none"
  /\ UNCHANGED <<acother, acCache, acSeen, acRecorder, acFaulted>>
  /\ AcCommitted(acEditor, [NoCatalogRead EXCEPT !.at = "sent"], acSeeing)
ServeCatalog ==
  /\ acRead.at = "sent" /\ acRead' = [at |-> "served", catalog |-> Catalog]
  /\ UNCHANGED <<acother, acCache, acSeen, acSeeing, acEditor, acRecorder, acFaulted>>
CatalogArrives ==
  /\ acRead.at = "served" /\ acCache' = acRead.catalog
  /\ UNCHANGED <<acother, acSeen, acRecorder, acFaulted>>
  /\ AcCommitted(acEditor, NoCatalogRead, acSeeing)
ReloadBroken == [acRecorder EXCEPT !.reload = "no"]
CatalogFails ==
  /\ acRead.at # "none" /\ AcFault
  /\ acRecorder' = ReloadBroken
  /\ UNCHANGED <<acother, acCache, acSeen>> /\ AcCommitted(acEditor, NoCatalogRead, acSeeing)
\* A match is read when it is selected, when it is old, or to retry.
ReadMatch ==
  /\ SelectedMatch # NoMatch /\ acSeeing.at = "none"
  /\ UNCHANGED <<acother, acCache, acSeen, acRecorder, acFaulted>>
  /\ AcCommitted(acEditor, acRead, [NotSeeing EXCEPT !.match = SelectedMatch, !.at = "sent"])
Identity(m) ==
  IF acMatch[m].there
  THEN [Unseen EXCEPT !.kind = "found", !.ver = acMatch[m].ver, !.time = acMatch[m].time]
  ELSE [Unseen EXCEPT !.kind = "missing"]
ServeMatch ==
  /\ acSeeing.at = "sent"
  /\ acSeeing' = [acSeeing EXCEPT !.at = "served", !.seen = Identity(acSeeing.match)]
  /\ UNCHANGED <<acother, acCache, acRead, acSeen, acEditor, acRecorder, acFaulted>>
MatchArrives ==
  /\ acSeeing.at = "served"
  /\ acSeen' = [acSeen EXCEPT ![acSeeing.match] = acSeeing.seen]
  /\ UNCHANGED <<acother, acCache, acRecorder, acFaulted>>
  /\ AcCommitted(acEditor, acRead, NotSeeing)
MatchFails ==
  /\ acSeeing.at # "none" /\ AcFault
  /\ acSeen' = [acSeen EXCEPT ![acSeeing.match].failed = TRUE]
  /\ acRecorder' = ReloadBroken
  /\ UNCHANGED <<acother, acCache>> /\ AcCommitted(acEditor, acRead, NotSeeing)
PublicationArrives ==
  /\ acHere
  /\ acPublished' = IF acItem.retired THEN "retired" ELSE "live"
  /\ acPublished' # acPublished
  /\ UNCHANGED <<acserver, acStored, acCache, acSeen, acHere, acAsked, acEditing, acRecorder,
                 acCall, acFailure, acMoved, acFaulted>> /\ AcStays
-----------------------------------------------------------------------------
(* Others edit the item, the matches (their records follow) and the records. *)
Follows(next) ==
  acClaims' = [c \in {"old", "new"} |->
    LET match == acClaims[c].match IN
    IF ~acClaims[c].there \/ match = NoMatch \/ acMatch[match] = next[match] THEN acClaims[c]
    ELSE [acClaims[c] EXCEPT !.ver = @ + 1,
            !.match = IF next[match].there THEN @ ELSE NoMatch,
            !.time = IF next[match].there THEN next[match].time ELSE @]]
OthersEditItem ==
  /\ ~acItem.retired /\ AcFault
  /\ acItem' \in {[acItem EXCEPT !.ver = @ + 1], [ver |-> acItem.ver + 1, retired |-> TRUE]}
  /\ UNCHANGED <<acMatch, acClaims, acStored, acreads, acpage, acdialogs, acCall, acFailure, acMoved>>
MatchEdited(match, there) ==
  [there |-> there, ver |-> match.ver + 1, time |-> [match.time EXCEPT !.min = @ + 1]]
OthersEditMatch ==
  /\ AcFault
  /\ \E m \in AcMatches : acMatch[m].there /\ \E there \in BOOLEAN :
       \E next \in {[acMatch EXCEPT ![m] = MatchEdited(@, there)]} : acMatch' = next /\ Follows(next)
  /\ UNCHANGED <<acItem, acStored, acreads, acpage, acdialogs, acCall, acFailure, acMoved>>
OthersCorrect ==
  /\ AcFault
  /\ \E c \in {"old", "new"} : \E state \in {"achieved", "cancelled"} :
       /\ acClaims[c].there => acClaims[c].state # state
       /\ ~acClaims[c].there => state = "achieved"
       /\ acClaims' = [acClaims EXCEPT ![c].there = TRUE, ![c].ver = @ + 1, ![c].state = state]
  /\ UNCHANGED <<acItem, acMatch, acStored, acreads, acpage, acdialogs, acCall, acFailure, acMoved>>

AcInit ==
  /\ acItem = [ver |-> 1, retired |-> FALSE]
  /\ acMatch = [m \in AcMatches |-> [there |-> TRUE, ver |-> 1, time |-> [min |-> 2, sec |-> 5]]]
  /\ \E match \in AcMatches \cup {NoMatch}, state \in {"achieved", "unconfirmed"} :
       /\ match # NoMatch => state = "achieved" /\ match \in AcFitting
       /\ acClaims = [c \in {"old", "new"} |-> IF c = "new" THEN Unrecorded ELSE
            [there |-> TRUE, ver |-> 1, state |-> state, match |-> match,
             time |-> IF match = NoMatch THEN [min |-> 1, sec |-> 5] ELSE acMatch[match].time]]
  /\ acStored = {} /\ acCache = NoCatalog /\ acRead = NoCatalogRead
  /\ acSeen = [m \in AcMatches |-> Unseen] /\ acSeeing = NotSeeing
  /\ acPublished = "none" /\ acHere = TRUE /\ acAsked = TRUE
  /\ acEditing = NoRecord /\ acEditor = NoClaimEditor /\ acRecorder = NoRecorder
  /\ acCall = NoAcCall /\ acFailure = "none" /\ acMoved = 0 /\ acFaulted = 0
AcNext ==
  \/ ToggleDetails \/ RefreshPage \/ ChangeTitle \/ EditClaim \/ ChangeClaimForm \/ SaveClaim
  \/ AskClaim \/ DismissAsked \/ ConfirmAsked \/ CloseClaim \/ RecordAchievement \/ SelectMatch
  \/ SaveRecord \/ ReloadRecord \/ ReloadEnds \/ CloseRecord \/ KeepRecord \/ ServeClaim
  \/ CallIsLost \/ ClaimSaved \/ ClaimNotSaved \/ ReadCatalog \/ ServeCatalog \/ CatalogArrives
  \/ CatalogFails \/ ReadMatch \/ ServeMatch \/ MatchArrives \/ MatchFails \/ PublicationArrives
  \/ OthersEditItem \/ OthersEditMatch \/ OthersCorrect

AcTypeOK ==
  /\ acEditing \in {NoRecord, "old", "new"} /\ acFailure \in {"none", "conflict", "failed"}
  /\ acCall.at \in {"none", "sent", "done", "conflict", "failed"}
  /\ acEditor.form.match \in AcMatches \cup {NoMatch} /\ acRecorder.match \in AcMatches \cup {NoMatch}
  /\ acMoved \in 0..AcMoves /\ acFaulted \in 0..AcFaults

(* Code behaviour: a correction is saved only over the record its form was   *)
(* filled from, and its time is that of the match as the dialog showed it;   *)
(* whatever others saved meanwhile is not replaced unseen.                   *)
CorrectsWhatWasShown ==
  acStored' \ acStored # {} =>
    /\ acCall.request.at = "correct" => acCall.base = acClaims[acCall.request.claim]
    /\ acCall.request.match # NoMatch =>
         acClaims'[acCall.request.claim].time = acCall.shown

(* Code behaviour: correcting the state of a record, or taking its match     *)
(* away, keeps the exact time it had unless another time was typed.          *)
UntouchedTimesAreKept ==
  (acStored' \ acStored # {} /\ acCall.request.at = "correct" /\ ~acCall.typed) =>
    LET record == acClaims'[acCall.request.claim]
    IN record.match = NoMatch => record.time = acClaims[acCall.request.claim].time

(* Code behaviour: what was saved is not refused when a lost answer makes    *)
(* the user save it again in the same dialog.                                *)
RepeatsAreAnswered == acCall.at = "conflict" => acCall.request \notin acStored
==============================================================================
