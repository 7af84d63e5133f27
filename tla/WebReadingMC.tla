---------------------------- MODULE WebReadingMC -----------------------------
(* The screens that read, list and compare, one at a time.                   *)
EXTENDS OutlookCalculation, OutlookWorkspace, SeriesSelection, SeriesDisplay,
        HeldEventList, HeldEventHub, MatchList, TLC

VARIABLE part  \* the component that runs; the others rest in an initial state

MCRecent ==
  {<<1, 1, 0, 0>>, <<0, 1, 1, 0>>, <<0, 0, 1, 1>>, <<0, 2, 0, 0>>, <<1, 0, 0, 1>>, <<2, 0, 0, 0>>}
MCTotals ==
  {[games |-> 1, focus |-> 2, rival |-> 2], [games |-> 1, focus |-> 1, rival |-> 4],
   [games |-> 2, focus |-> 5, rival |-> 4]}
TwoGames(a, b) ==
  [cell \in Cells |-> (IF cell = a THEN 1 ELSE 0) + (IF cell = b THEN 1 ELSE 0)]
MCTables == {TwoGames(a, b) : a, b \in Cells}
RestingPlan ==
  JointPlan(<<2, 0, 0, 0>>, <<0, 2, 0, 0>>, TwoGames(<<1, 2>>, <<1, 2>>))

Fact(first, second, totals) == [recent |-> <<first, second>>, totals |-> totals]
MCFacts ==
  [pq |-> <<Fact(<<1, 1, 1, 0>>, <<1, 0, 0, 2>>, [games |-> 3, focus |-> 7, rival |-> 6]),
            Fact(<<1, 1, 2, 0>>, <<2, 0, 0, 2>>, [games |-> 4, focus |-> 9, rival |-> 9])>>,
   pr |-> <<Fact(<<1, 1, 1, 0>>, <<2, 0, 1, 0>>, [games |-> 3, focus |-> 7, rival |-> 4]),
            Fact(<<2, 1, 1, 0>>, <<2, 0, 1, 1>>, [games |-> 4, focus |-> 9, rival |-> 6])>>]
MCTyped == {NotDecimal, AsDisplayed, <<3, 2>>}
MCExamples == {<<1, 0, 1, 0>>, <<0, 2, 0, 0>>}

MCTitles == <<"t1", "t2">>
MCPair == <<"p", "q">>
MCDirectories ==
  {[read |-> TRUE, titles |-> {"t1", "t2"}, seasons |-> [t1 |-> {"s1"}, t2 |-> {}]],
   [read |-> TRUE, titles |-> {"t1", "t2"}, seasons |-> [t1 |-> {}, t2 |-> {}]]}
MCUrls ==
  {Url(Bare("review", "rank"), ""),
   [Url(Selection("t1", "s1", "m1", "outlook", "rank", <<"q", None>>), "") EXCEPT !.odd = TRUE]}

MCTitleOf == [s1 |-> "t1", s2 |-> "t2"]
MCEventTraits ==
  <<{"t1", "s1", "june", "word", "best"}, {"t1", "s1"}, {"t2", "s2", "june", "word"}>>
DefaultSearchSecond == [DefaultSearch EXCEPT !.page = 2]
MCEventSearches == {DefaultSearchSecond, [DefaultSearch EXCEPT !.title = "t1", !.season = "s1"]}

MCMatchTraits ==
  <<{"t1", "s1", "e1", "june", "word", "best"}, {"t1", "s1", "e2"},
    {"t2", "s2", "e1", "june", "word"}>>
MCMatchSearches ==
  {AllMatches, [AllMatches EXCEPT !.cursor = 3],
   [AllMatches EXCEPT !.title = "t1", !.season = "s1"]}

Init ==
  /\ part \in {"calculation", "outlook", "selection", "display", "heldEvents",
              "hub", "matches"}
  /\ OutlookInit
  /\ part # "calculation" => jnPlan = RestingPlan
  /\ OwInit
  /\ SelectionInit
  /\ part # "selection" => ssShown.url.odd
  /\ DisplayInit
  /\ part # "display" => sdServer = 1
  /\ HeInit
  /\ part # "heldEvents" => heShown = DefaultSearchSecond
  /\ HbInit
  /\ part # "hub" => hbServer.recorded = {}
  /\ MlInit
  /\ part # "matches" => mlShown = AllMatches

Next ==
  \/ part = "calculation" /\ OutlookNext
     /\ UNCHANGED <<part, owvars, ssvars, sdvars, hevars, hbvars, mlvars>>
  \/ part = "outlook" /\ OwNext
     /\ UNCHANGED <<part, ocvars, ssvars, sdvars, hevars, hbvars, mlvars>>
  \/ part = "selection" /\ SelectionNext
     /\ UNCHANGED <<part, ocvars, owvars, sdvars, hevars, hbvars, mlvars>>
  \/ part = "display" /\ DisplayNext
     /\ UNCHANGED <<part, ocvars, owvars, ssvars, hevars, hbvars, mlvars>>
  \/ part = "heldEvents" /\ HeNext
     /\ UNCHANGED <<part, ocvars, owvars, ssvars, sdvars, hbvars, mlvars>>
  \/ part = "hub" /\ HbNext
     /\ UNCHANGED <<part, ocvars, owvars, ssvars, sdvars, hevars, mlvars>>
  \/ part = "matches" /\ MlNext
     /\ UNCHANGED <<part, ocvars, owvars, ssvars, sdvars, hevars, hbvars>>

Spec == Init /\ [][Next]_<<part, ocvars, owvars, ssvars, sdvars, hevars,
                            hbvars, mlvars>>

(* Every component keeps the types of its state, from the editing state of   *)
(* a screen to the requests it has under way.                                *)
WebReadingTypeOK ==
  /\ OutlookTypeOK
  /\ OwTypeOK
  /\ SelectionTypeOK
  /\ DisplayTypeOK
  /\ HeTypeOK
  /\ HbTypeOK
  /\ MlTypeOK

(* Code behaviour: no order of choices, corrections, refreshes and steps of  *)
(* React leaves a list with a search nobody chose, nor with a link that      *)
(* exports something else than what the list searches for; and no creation   *)
(* takes the user from a page he has opened since.                           *)
ListsFollowChoices ==
  [][/\ SearchIsSound'
     /\ CorrectsItsOwnSearch
     /\ RefreshKeepsChoices
     /\ ExportsWhatIsListed'
     /\ MovedWhereMeant']_<<ocvars, owvars, ssvars, sdvars, hevars, hbvars, mlvars>>

(* Code behaviour: a deletion begins at a row of the search wanted and, once *)
(* its refresh failed, only while it is read again; a reported deletion is   *)
(* listed no more where the list says nothing of its rows, except after a    *)
(* first read that the deletion overtook; rows of matches that can be acted  *)
(* on are the chosen search's; a hub's notice of a failed refresh is its     *)
(* own.                                                                      *)
ListedIsCurrent ==
  [][/\ DeletesWhatIsListed
     /\ ReportedIsGone'
     /\ RowsAreChosen'
     /\ NoticeIsOwn']_<<ocvars, owvars, ssvars, sdvars, hevars, hbvars, mlvars>>
==============================================================================
