------------------------------ MODULE ListSearch ------------------------------
(***************************************************************************)
(* What the lists of held events and of matches share: the conditions that *)
(* narrow a search, the drafts that follow them, and the notice of a       *)
(* problem that stays while its search is tried again.                     *)
(***************************************************************************)
EXTENDS Naturals, FiniteSets

CONSTANT TitleOf  \* the title of each season

Unset == ""
Titles == {TitleOf[s] : s \in DOMAIN TitleOf}
SeasonsOffered(title) ==
  {Unset} \cup {s \in DOMAIN TitleOf : title = Unset \/ TitleOf[s] = title}

(* A season belongs to its title, if both are given.                         *)
TitleFits(search) ==
  search.title # Unset /\ search.season # Unset => TitleOf[search.season] = search.title

(* A title keeps its season only when it is chosen again.                    *)
WithTitle(search, title) ==
  LET same == title # Unset /\ title = search.title
  IN [search EXCEPT !.title = title, !.season = IF same THEN @ ELSE Unset]
SheetTitle(draft, title) ==
  [draft EXCEPT !.title = title, !.season = IF title = draft.title THEN @ ELSE Unset]

(* A period is inverted or not; a record or metric is half or wholly given.  *)
Inverted(period) == period = "inverted"
EmptyMetric == Unset
IsComplete(metric) == metric = "best"
CompleteOnly(metric) == IF IsComplete(metric) THEN metric ELSE EmptyMetric

(* The draft of a field follows a newly committed value of that field.       *)
CommittedDraft(bar, from, to) ==
  [field \in DOMAIN bar |-> IF to[field] # from[field] THEN to[field] ELSE bar[field]]

(* useRetryNotice: the problem shown, and the one kept for the next time.    *)
NoticeShown(kept, search, problem, pending) ==
  IF pending /\ kept.search = search THEN kept.problem ELSE problem
NoticeKept(kept, search, problem, pending) ==
  IF kept.search # search \/ (~pending /\ kept.problem # problem)
  THEN [search |-> search, problem |-> problem] ELSE kept
=============================================================================
