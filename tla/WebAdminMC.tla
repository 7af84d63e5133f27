----------------------------- MODULE WebAdminMC ------------------------------
(* The screens of settings, administration and exports, one at a time.       *)
EXTENDS AccountSession, NotificationSettings, AchievementCatalog,
        RadarEditing, MasterCatalog, Exports, TLC

VARIABLE part  \* the component that runs; the others rest in an initial state

MCFirst == <<"a">>

MCMasterTitles == <<"t1">>
MCMasterRows == {[id |-> "m1", of |-> "t1"], [id |-> "a1", of |-> "aliases"]}
MCMasterKeys == <<"k1", "k2">>

MCExportSeasons == <<"s1", "s2">>
MCExportEvents == <<"e2", "e1">>
MCExportTrails ==
  {<<Conditions("csv", "all", NoId), Conditions("csv", "season", NoId)>>,
   <<Conditions("csv", "heldEvent", "e1"), Conditions("csv", "heldEvent", "no")>>,
   <<[Conditions("csv", "season", "s1") EXCEPT !.odd = TRUE]>>}

Init ==
  /\ part \in {"account", "notifications", "catalog", "radar", "masters",
              "exports"}
  /\ AccountInit
  /\ NotificationInit
  /\ CatalogInit
  /\ RadarInit
  /\ McInit
  /\ part # "masters" => mcTab = "catalog"
  /\ ExInit
  /\ part # "exports" => Len(exTrail) = 1

Next ==
  \/ part = "account" /\ AccountNext
     /\ UNCHANGED <<part, nsvars, avvars, rdvars, mcvars, exvars>>
  \/ part = "notifications" /\ NotificationNext
     /\ UNCHANGED <<part, acvars, avvars, rdvars, mcvars, exvars>>
  \/ part = "catalog" /\ CatalogNext
     /\ UNCHANGED <<part, acvars, nsvars, rdvars, mcvars, exvars>>
  \/ part = "radar" /\ RadarNext
     /\ UNCHANGED <<part, acvars, nsvars, avvars, mcvars, exvars>>
  \/ part = "masters" /\ McNext
     /\ UNCHANGED <<part, acvars, nsvars, avvars, rdvars, exvars>>
  \/ part = "exports" /\ ExNext
     /\ UNCHANGED <<part, acvars, nsvars, avvars, rdvars, mcvars>>

Spec == Init /\ [][Next]_<<part, acvars, nsvars, avvars, rdvars, mcvars,
                            exvars>>

(* Every component keeps the types of its state, from the editing state of   *)
(* a screen to the requests it has under way.                                *)
WebAdminTypeOK ==
  /\ AccountTypeOK
  /\ NotificationTypeOK
  /\ CatalogTypeOK
  /\ RadarTypeOK
  /\ McTypeOK
  /\ ExTypeOK

(* Code behaviour: what an administrator saves changes only what he chose,   *)
(* and only from what he was shown: notification switches and achievement    *)
(* items that others change behind an open form keep their changes.          *)
OthersChangesSurvive ==
  [][/\ SaveChangesOnlyWhatWasChosen
     /\ WritesReplaceWhatWasShown]_<<acvars, nsvars, avvars, rdvars, mcvars, exvars>>

(* Code behaviour: a download belongs to the conditions on the page.  Its    *)
(* file is saved under them or not at all, it starts only for a target that  *)
(* is there, and adopting a default into the URL does not cut it short.      *)
DownloadsFollowConditions ==
  [][/\ SavesWhatIsShown'
     /\ DownloadsOnlyWhatIsThere
     /\ DownloadSurvivesAdoption']_<<acvars, nsvars, avvars, rdvars, mcvars, exvars>>
==============================================================================
