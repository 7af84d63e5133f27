------------------------ MODULE NotificationSettings ------------------------
(***************************************************************************)
(* The two notification switches shared by all users, on the settings page *)
(* (features/masters/notifications, features/masters/MastersTabs.tsx): a    *)
(* draft tied to the generations it began from, one save at a time under   *)
(* the permission it began with, reads that bring what the server held     *)
(* when it served them, answers that are lost and replayed, other           *)
(* administrators, and a permission that is rechecked or lost meanwhile.    *)
(***************************************************************************)
EXTENDS Integers, FiniteSets

CONSTANTS NsGenerations, \* how often each switch changes
          NsFaults       \* how many calls fail and permissions go

NotificationKinds == {"ocrCompleted", "analysisCompleted"}
Setting == [enabled : BOOLEAN, generation : 0..NsGenerations]
Settings == [NotificationKinds -> Setting]
NoSettings == [kind \in NotificationKinds |-> [enabled |-> FALSE, generation |-> -1]]
Values == [NotificationKinds -> BOOLEAN]

VARIABLES nsServer,  \* the stored settings
          nsAnswers, \* [request, settings]: answers the keys still held replay
          nsCache,   \* confirmed settings, or NoSettings
          nsFailed,  \* the last read failed
          nsRead,    \* [stage, settings, reload]: a read, and whether the user waits for it
          nsDraft,   \* [on, base, values]
          nsFeedback,
          nsDialog,  \* the confirmation is open
          nsSave,    \* [stage, request, chosen, settings]
          nsStray,   \* saves in flight whose permission is gone
          nsAccess,  \* "allowed", "checking" (retained), "lost"
          nsChosen,  \* kinds switched since the draft began (history)
          nsLost     \* faults so far

nsvars == <<nsServer, nsAnswers, nsCache, nsFailed, nsRead, nsDraft, nsFeedback, nsDialog,
            nsSave, nsStray, nsAccess, nsChosen, nsLost>>
nsEditor == <<nsDraft, nsFeedback, nsDialog, nsChosen>>
nsQuery == <<nsCache, nsFailed, nsRead>>

ValuesOf(settings) == [kind \in NotificationKinds |-> settings[kind].enabled]
NoSettingsDraft == [on |-> FALSE, base |-> NoSettings, values |-> ValuesOf(NoSettings)]
NoRequest == NoSettings
NoSave == [stage |-> "idle", request |-> NoRequest, chosen |-> {}, settings |-> NoSettings]
SettingsUnread == [stage |-> "idle", settings |-> NoSettings, reload |-> FALSE]
Asked(reload) == [SettingsUnread EXCEPT !.stage = "asked", !.reload = reload]

-----------------------------------------------------------------------------
(* What the screen offers.                                                 *)

SettingsReady == nsCache # NoSettings /\ nsAccess # "lost"
IsSaving == nsSave.stage \in {"sent", "saved", "conflict", "unknown", "refused"}
Fetching == nsRead # SettingsUnread
NeedsReload == nsFeedback \in {"conflict", "unknown"} \/ nsFailed
Disabled == nsAccess # "allowed" \/ IsSaving \/ Fetching \/ NeedsReload
DraftDirty == nsDraft.on /\ nsDraft.values # ValuesOf(nsDraft.base)
TurnsOff == nsDraft.on /\ \E kind \in NotificationKinds :
                            nsDraft.base[kind].enabled /\ ~nsDraft.values[kind]
SavePlanReady == DraftDirty /\ ~Disabled
PlannedRequest == [kind \in NotificationKinds |->
                     [enabled |-> nsDraft.values[kind],
                      generation |-> nsDraft.base[kind].generation]]

-----------------------------------------------------------------------------
(* Editing.                                                                *)

\* A draft that follows later reads.
ChangeRebased(draft, confirmed, kind, enabled) ==
  [on |-> TRUE, base |-> confirmed,
   values |-> [(IF draft.on THEN draft.values ELSE ValuesOf(confirmed)) EXCEPT ![kind] = enabled]]

ChangeNotificationDraft(draft, confirmed, kind, enabled) ==
  [on |-> TRUE, base |-> IF draft.on THEN draft.base ELSE confirmed,
   values |-> [(IF draft.on THEN draft.values ELSE ValuesOf(confirmed)) EXCEPT ![kind] = enabled]]

SettingsShown == IF nsDraft.on THEN nsDraft.values ELSE ValuesOf(nsCache)

ToggleSetting == \E kind \in NotificationKinds :
  /\ SettingsReady /\ ~Disabled /\ ~nsDialog
  /\ nsDraft' = ChangeNotificationDraft(nsDraft, nsCache, kind, ~SettingsShown[kind])
  /\ nsChosen' = IF kind \in nsChosen THEN nsChosen \ {kind} ELSE nsChosen \cup {kind}
  /\ nsFeedback' = "none"
  /\ UNCHANGED <<nsServer, nsAnswers, nsQuery, nsDialog, nsSave, nsStray, nsAccess, nsLost>>

DropDraft == nsDraft' = NoSettingsDraft /\ nsChosen' = {}

DiscardChanges ==
  /\ DraftDirty /\ ~Disabled /\ ~nsDialog
  /\ DropDraft /\ nsFeedback' = "none"
  /\ UNCHANGED <<nsServer, nsAnswers, nsQuery, nsDialog, nsSave, nsStray, nsAccess, nsLost>>

\* The save drops the read in flight: its answer is newer.
BeginSave ==
  /\ nsSave' = [NoSave EXCEPT !.stage = "sent", !.request = PlannedRequest,
                              !.chosen = nsChosen]
  /\ nsFeedback' = "none"
  /\ nsRead' = SettingsUnread
  /\ UNCHANGED <<nsServer, nsAnswers, nsCache, nsFailed, nsDraft, nsStray, nsAccess,
                 nsChosen, nsLost>>

SubmitSettings ==
  /\ SettingsReady /\ SavePlanReady /\ ~nsDialog /\ ~TurnsOff
  /\ BeginSave /\ UNCHANGED nsDialog

AskConfirmation ==
  /\ SettingsReady /\ SavePlanReady /\ ~nsDialog /\ TurnsOff
  /\ nsDialog' = TRUE
  /\ UNCHANGED <<nsServer, nsAnswers, nsQuery, nsDraft, nsFeedback, nsSave, nsStray,
                 nsAccess, nsChosen, nsLost>>

\* The dialog stays until the save has ended.
ConfirmOff ==
  /\ nsDialog /\ nsAccess = "allowed" /\ SavePlanReady
  /\ BeginSave /\ UNCHANGED nsDialog

CancelConfirmation ==
  /\ nsDialog /\ ~IsSaving /\ nsAccess # "lost"
  /\ nsDialog' = FALSE
  /\ UNCHANGED <<nsServer, nsAnswers, nsQuery, nsDraft, nsFeedback, nsSave, nsStray,
                 nsAccess, nsChosen, nsLost>>

\* Leaving the page waits for a save, and asks about a draft.
LeaveSettings ==
  /\ ~IsSaving /\ ~nsDialog
  /\ DropDraft /\ nsFeedback' = "none" /\ nsAnswers' = {}
  /\ nsSave' = NoSave
  /\ UNCHANGED <<nsServer, nsQuery, nsDialog, nsStray, nsAccess, nsLost>>

-----------------------------------------------------------------------------
(* Reads.                                                                  *)

\* The screen reads when it opens and when the window comes back.
ReadSettings ==
  /\ nsAccess = "allowed" /\ ~Fetching
  /\ nsRead' = Asked(FALSE)
  /\ UNCHANGED <<nsServer, nsAnswers, nsCache, nsFailed, nsEditor, nsSave, nsStray,
                 nsAccess, nsLost>>

\* Offered beside a problem, and where the first read failed.
ReloadSettings ==
  /\ nsAccess = "allowed" /\ ~IsSaving /\ ~Fetching /\ ~nsDialog
  /\ NeedsReload
  /\ nsRead' = Asked(TRUE)
  /\ UNCHANGED <<nsServer, nsAnswers, nsCache, nsFailed, nsEditor, nsSave, nsStray,
                 nsAccess, nsLost>>

ServeSettings ==
  /\ nsRead.stage = "asked"
  /\ nsRead' = [nsRead EXCEPT !.stage = "served", !.settings = nsServer]
  /\ UNCHANGED <<nsServer, nsAnswers, nsCache, nsFailed, nsEditor, nsSave, nsStray,
                 nsAccess, nsLost>>

SettingsArrive ==
  /\ nsRead.stage = "served"
  /\ nsCache' = nsRead.settings /\ nsFailed' = FALSE /\ nsRead' = SettingsUnread
  /\ IF nsRead.reload /\ nsAccess = "allowed"
       THEN DropDraft /\ nsFeedback' = "none" /\ nsAnswers' = {}
       ELSE UNCHANGED <<nsDraft, nsChosen, nsFeedback, nsAnswers>>
  /\ UNCHANGED <<nsServer, nsDialog, nsSave, nsStray, nsAccess, nsLost>>

SettingsReadFails ==
  /\ Fetching /\ nsLost < NsFaults
  /\ nsRead' = SettingsUnread /\ nsFailed' = TRUE /\ nsLost' = nsLost + 1
  /\ UNCHANGED <<nsServer, nsAnswers, nsCache, nsEditor, nsSave, nsStray, nsAccess>>

-----------------------------------------------------------------------------
(* The save.                                                               *)

Conflicts(request) == \E kind \in NotificationKinds :
                        nsServer[kind].generation # request[kind].generation
ChangedKinds(request) == {kind \in NotificationKinds :
                            nsServer[kind].enabled # request[kind].enabled}
Changed(request) == [kind \in NotificationKinds |->
                       IF kind \in ChangedKinds(request)
                         THEN [enabled |-> request[kind].enabled,
                               generation |-> nsServer[kind].generation + 1]
                         ELSE nsServer[kind]]

\* What the server does with a request: [outcome, settings, answers].
NotificationAnswer(request) ==
  LET replayed == {a \in nsAnswers : a.request = request}
  IN CASE replayed # {} -> [outcome |-> "saved", server |-> nsServer,
                            settings |-> (CHOOSE a \in replayed : TRUE).settings]
       [] replayed = {} /\ Conflicts(request) ->
            [outcome |-> "conflict", server |-> nsServer, settings |-> NoSettings]
       [] OTHER -> [outcome |-> "saved", server |-> Changed(request),
                    settings |-> Changed(request)]

Served(request) ==
  /\ nsServer' = NotificationAnswer(request).server
  /\ nsServer' \in Settings
  /\ nsAnswers' = IF NotificationAnswer(request).outcome = "saved"
                    THEN nsAnswers \cup {[request |-> request,
                                          settings |-> NotificationAnswer(request).settings]}
                    ELSE nsAnswers

ServeSave ==
  /\ nsSave.stage = "sent"
  /\ Served(nsSave.request)
  /\ nsSave' = [nsSave EXCEPT !.stage = NotificationAnswer(nsSave.request).outcome,
                              !.settings = NotificationAnswer(nsSave.request).settings]
  /\ UNCHANGED <<nsQuery, nsEditor, nsStray, nsAccess, nsLost>>

ServeStray == \E save \in nsStray :
  /\ Served(save.request)
  /\ nsStray' = nsStray \ {save}
  /\ UNCHANGED <<nsQuery, nsEditor, nsSave, nsAccess, nsLost>>

\* The connection breaks before or after the server took it, or the server refuses.
SaveBreaks == \E outcome \in {"unknown", "refused"} :
  /\ nsSave.stage \in (IF outcome = "unknown" THEN {"sent", "saved"} ELSE {"sent"})
  /\ nsLost < NsFaults /\ nsLost' = nsLost + 1
  /\ nsSave' = [nsSave EXCEPT !.stage = outcome, !.settings = NoSettings]
  /\ UNCHANGED <<nsServer, nsAnswers, nsQuery, nsEditor, nsStray, nsAccess>>

\* What the failure means for the user, and the end of the save.
NotificationSaveError ==
  /\ nsSave.stage \in {"conflict", "unknown", "refused"}
  /\ nsFeedback' = nsSave.stage
  /\ nsDialog' = FALSE /\ nsSave' = NoSave
  /\ UNCHANGED <<nsServer, nsAnswers, nsQuery, nsDraft, nsStray, nsAccess, nsChosen, nsLost>>

\* The confirmed settings replace the cache and the draft, and are read again.
AcceptSaved ==
  /\ nsCache' = nsSave.settings /\ nsFailed' = FALSE
  /\ nsRead' = Asked(FALSE)
  /\ DropDraft /\ nsFeedback' = "success"
  /\ nsSave' = NoSave

Completed == {a \in nsAnswers : a.request # nsSave.request}

SaveSucceeds ==
  /\ nsSave.stage = "saved"
  /\ nsAnswers' = Completed /\ nsDialog' = FALSE
  /\ IF nsAccess = "allowed" THEN AcceptSaved
     ELSE /\ nsSave' = [nsSave EXCEPT !.stage = "waiting"]
          /\ UNCHANGED <<nsQuery, nsDraft, nsFeedback, nsChosen>>
  /\ UNCHANGED <<nsServer, nsStray, nsAccess, nsLost>>

-----------------------------------------------------------------------------
(* The permission, and other administrators.                               *)

AccessRechecked ==
  /\ nsAccess = "allowed" /\ nsAccess' = "checking"
  /\ UNCHANGED <<nsServer, nsAnswers, nsQuery, nsEditor, nsSave, nsStray, nsLost>>

\* A save that ended meanwhile is applied before the user can act again.
AccessConfirmed ==
  /\ nsAccess = "checking" /\ nsAccess' = "allowed"
  /\ IF nsSave.stage = "waiting" THEN AcceptSaved
     ELSE UNCHANGED <<nsQuery, nsDraft, nsFeedback, nsChosen, nsSave>>
  /\ UNCHANGED <<nsServer, nsAnswers, nsDialog, nsStray, nsLost>>

\* Everything of the lost permission goes; a call under way is only forgotten.
AccessLost ==
  /\ nsAccess # "lost" /\ nsAccess' = "lost"
  /\ nsLost < NsFaults /\ nsLost' = nsLost + 1
  /\ nsCache' = NoSettings /\ nsFailed' = FALSE /\ nsRead' = SettingsUnread
  /\ DropDraft /\ nsFeedback' = "none" /\ nsDialog' = FALSE
  /\ nsSave' = NoSave
  /\ nsStray' = IF nsSave.stage = "sent" THEN nsStray \cup {nsSave} ELSE nsStray
  /\ UNCHANGED <<nsServer, nsAnswers>>

AccessGranted ==
  /\ nsAccess = "lost" /\ nsAccess' = "allowed"
  /\ UNCHANGED <<nsServer, nsAnswers, nsQuery, nsEditor, nsSave, nsStray, nsLost>>

OthersSwitch == \E kind \in NotificationKinds :
  /\ nsServer[kind].generation < NsGenerations
  /\ nsServer' = [nsServer EXCEPT ![kind] = [enabled |-> ~@.enabled,
                                             generation |-> @.generation + 1]]
  /\ UNCHANGED <<nsAnswers, nsQuery, nsEditor, nsSave, nsStray, nsAccess, nsLost>>

NotificationInit ==
  /\ nsServer = [kind \in NotificationKinds |-> [enabled |-> TRUE, generation |-> 0]]
  /\ nsAnswers = {} /\ nsCache = NoSettings /\ nsFailed = FALSE /\ nsRead = SettingsUnread
  /\ nsDraft = NoSettingsDraft /\ nsFeedback = "none" /\ nsDialog = FALSE /\ nsSave = NoSave
  /\ nsStray = {} /\ nsAccess = "allowed" /\ nsChosen = {} /\ nsLost = 0

NotificationNext ==
  \/ ToggleSetting \/ DiscardChanges \/ SubmitSettings \/ AskConfirmation \/ ConfirmOff
  \/ CancelConfirmation \/ LeaveSettings
  \/ ReadSettings \/ ReloadSettings \/ ServeSettings \/ SettingsArrive \/ SettingsReadFails
  \/ ServeSave \/ ServeStray \/ SaveBreaks \/ NotificationSaveError \/ SaveSucceeds
  \/ AccessRechecked \/ AccessConfirmed \/ AccessLost \/ AccessGranted \/ OthersSwitch

NotificationSpec == NotificationInit /\ [][NotificationNext]_nsvars
-----------------------------------------------------------------------------
(* Properties.                                                             *)

\* Every variable has its type.
NotificationTypeOK ==
  /\ nsServer \in Settings /\ nsCache \in Settings \cup {NoSettings}
  /\ nsRead.stage \in {"idle", "asked", "served"} /\ nsFailed \in BOOLEAN
  /\ nsDraft.on \in BOOLEAN /\ nsDraft.values \in Values
  /\ nsFeedback \in {"none", "success", "conflict", "unknown", "refused"}
  /\ nsSave.stage \in {"idle", "sent", "saved", "conflict", "unknown", "refused", "waiting"}
  /\ nsDialog \in BOOLEAN /\ nsAccess \in {"allowed", "checking", "lost"}
  /\ nsChosen \subseteq NotificationKinds /\ nsLost \in 0..NsFaults

\* A save changes for everyone only the switches its user moved: never one that
\* another administrator moved behind the open form, however reads, lost answers
\* and replays arrive (notificationSettingsEditing.ts, changeNotificationDraft).
SaveChangesOnlyWhatWasChosen ==
  \A kind \in NotificationKinds :
    nsServer'[kind].enabled # nsServer[kind].enabled =>
      \/ OthersSwitch
      \/ nsSave.stage = "sent" /\ kind \in nsSave.chosen
      \/ \E save \in nsStray : kind \in save.chosen
=============================================================================
