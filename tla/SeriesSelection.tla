--------------------------- MODULE SeriesSelection ---------------------------
(***************************************************************************)
(* What the comparison page compares.  The selection lives in the URL; the *)
(* page normalizes it against the directory of titles, replaces an URL     *)
(* that is not canonical, and applies the user's choices on top of those   *)
(* the router has taken but React does not show yet.                       *)
(*                                                                         *)
(* A map is chosen, verified and dropped exactly as a season is; one value *)
(* stands for both.  The router commits a navigation within the call that  *)
(* asks for it, since the route has no loader; React shows the newest      *)
(* location some time later.                                               *)
(***************************************************************************)
EXTENDS Naturals, Sequences, FiniteSets

CONSTANTS SsTitles,      \* titles, in the order of the directory
          SsSeasons,     \* season masters
          SsMatches,     \* matches a user may focus
          SsMembers,     \* canonicalResultMemberIds
          SsDirectories, \* per title, the seasons the directory lists
          SsUrls,        \* the URLs a visit starts from
          SsDepth,       \* bound: entries of the browser's history
          SsMoves,       \* bound: choices and steps in the history
          SsAnswers      \* bound: answers of the API

ASSUME SelectionAssumption ==
  /\ {SsDepth, SsMoves, SsAnswers} \subseteq Nat /\ Len(SsTitles) > 0
  /\ \A directory \in SsDirectories : directory.read

VARIABLES ssHistory,    \* the browser's history: [url, key]
          ssAt,         \* where the router is in it
          ssShown,      \* the entry React shows
          ssPending,    \* pendingNavigation
          ssDirectory,  \* the options read, if any
          ssVerdict,    \* what scope-status said of a title and a season
          ssNotice,     \* normalization: the visit a notice came from
          ssWanted,     \* only for the properties: all choices so far
          ssCrossed,    \* only for the properties: left before it was shown
          ssMoved, ssAnswered

ssvars == <<ssHistory, ssAt, ssShown, ssPending, ssDirectory, ssVerdict, ssNotice,
            ssWanted, ssCrossed, ssMoved, ssAnswered>>

None == "-"
NoDirectory == [titles |-> {}, seasons |-> <<>>, read |-> FALSE]
NoPending == [source |-> 0]
AnalysisViews == {"overview", "flow"}
Metrics == {"rank", "assets"}
NoPair == <<None, None>>
-----------------------------------------------------------------------------
(* Selections and URLs.  An URL may also hold words the parser drops.       *)

Selection(title, season, match, view, metric, pair) ==
  [title |-> title, season |-> season, match |-> match, view |-> view, metric |-> metric,
   pair |-> pair]
Bare(view, metric) == Selection(None, None, None, view, metric, NoPair)
Url(selection, hash) == [selection |-> selection, hash |-> hash, odd |-> FALSE]

Other(member) == IF SsMembers[1] = member THEN SsMembers[2] ELSE SsMembers[1]
IsMember(member) == \E i \in DOMAIN SsMembers : SsMembers[i] = member

\* Faulty: the second member may be the first one again.
PairUnchecked(pair) ==
  LET focus == IF IsMember(pair[1]) THEN pair[1] ELSE Other(pair[2])
  IN <<focus, IF IsMember(pair[2]) THEN pair[2] ELSE Other(focus)>>
\* Two different members, the focused one first; each choice is kept if it can be.
NormalizeOutlookPair(pair) ==
  LET focus == IF IsMember(pair[1]) THEN pair[1] ELSE Other(pair[2])
      rival == IF IsMember(pair[2]) /\ pair[2] # focus THEN pair[2] ELSE Other(focus)
  IN <<focus, rival>>

\* The title of a selection: its own, the default one, or the first.
TitleIn(directory, title) ==
  IF title \in directory.titles THEN title
  ELSE CHOOSE t \in directory.titles :
         \E i \in DOMAIN SsTitles : /\ SsTitles[i] = t
                                   /\ \A k \in 1..(i - 1) : SsTitles[k] \notin directory.titles

\* A scope that had to be changed keeps no focused match.
Normalize(directory, seasons, sel) ==
  IF ~directory.read \/ directory.titles = {} THEN Bare(sel.view, sel.metric)
  ELSE LET title  == TitleIn(directory, sel.title)
           season == IF sel.season \in seasons[title] THEN sel.season ELSE None
           forced == (sel.title # None /\ sel.title # title) \/ sel.season # season
       IN [sel EXCEPT !.title = title, !.season = season,
                      !.match = IF forced THEN None ELSE @,
                      !.pair = IF sel.view = "outlook" \/ sel.pair # NoPair
                               THEN NormalizeOutlookPair(@) ELSE @]

\* What one choice makes of a selection.
Change(sel, change) ==
  CASE change.kind = "title"  -> [Bare(sel.view, sel.metric) EXCEPT !.title = change.value]
    [] change.kind = "season" -> [sel EXCEPT !.match = None, !.season = change.value]
    [] change.kind = "view"   -> [sel EXCEPT !.view = change.value]
    [] change.kind = "metric" -> [sel EXCEPT !.metric = change.value]
    [] change.kind = "focus"  -> [sel EXCEPT !.match = change.value]
    [] change.kind = "clear"  -> [sel EXCEPT !.match = None, !.season = None]
    [] change.kind = "first"  -> [sel EXCEPT !.pair[1] = change.value]
    [] change.kind = "second" -> [sel EXCEPT !.pair[2] = change.value]

-----------------------------------------------------------------------------
(* The directory and the identity of what it does not list.                 *)

RequestedTitle(directory, sel) == IF sel.title = None THEN SsTitles[1] ELSE sel.title

\* seriesAnalysisScopeIdentityQuery: asked for whenever a season is requested.
Asks(directory, sel) ==
  directory.read /\ RequestedTitle(directory, sel) \in directory.titles /\ sel.season # None

VerdictOn(verdict, directory, sel) == verdict[<<RequestedTitle(directory, sel), sel.season>>]

\* A season the directory does not list stays until the API rejects it.
Seasons(directory, verdict, sel) ==
  [t \in directory.titles |->
     IF ~Asks(directory, sel) \/ t # RequestedTitle(directory, sel) THEN directory.seasons[t]
     ELSE IF VerdictOn(verdict, directory, sel) = "invalid"
          THEN directory.seasons[t] \ {sel.season}
          ELSE directory.seasons[t] \cup {sel.season}]

\* useSeriesComparisonSelection: the shown URL decides what is verified.
NormalizedUnder(directory, verdict, url, sel) ==
  Normalize(directory, Seasons(directory, verdict, url.selection), sel)
Shown(sel) == NormalizedUnder(ssDirectory, ssVerdict, ssShown.url, sel)
\* A selection as far as the directory and the API still allow it.
Still(sel) == NormalizedUnder(ssDirectory, ssVerdict, Url(sel, ""), sel)
NormalizedSelection == Shown(ssShown.url.selection)

\* The optimistic selection, while the router is ahead of what React shows.
Here == ssHistory[ssAt]
Lagging == Here # ssShown
InFlight == ssPending # NoPending /\ (ssPending.source = ssShown.key \/ ssPending.url = ssShown.url)
SelectionShown == IF Lagging /\ InFlight THEN ssPending.url.selection ELSE NormalizedSelection

-----------------------------------------------------------------------------
(* Navigation.                                                              *)

Entry(url, history) ==
  [url |-> url, key |-> 1 + CHOOSE k \in {history[i].key : i \in DOMAIN history} :
                               \A i \in DOMAIN history : history[i].key <= k]
Pushed(history, at, url) == Append(SubSeq(history, 1, at), Entry(url, history))
Replaced(history, at, url) == [history EXCEPT ![at] = Entry(url, history)]

Notices(directory, verdict, entry) ==
  LET asked == entry.url.selection
      kept  == NormalizedUnder(directory, verdict, entry.url, asked)
  IN \/ entry.url.odd
     \/ asked.title # None /\ asked.title # kept.title
     \/ asked.season # None /\ asked.season # kept.season
     \/ asked.match # None /\ kept.match = None
     \/ \E i \in {1, 2} : asked.pair[i] # None /\ asked.pair[i] # kept.pair[i]

\* A canonicalization of the old visit must not overwrite a choice on its way.
Waits(shown) ==
  ssPending # NoPending /\ ssPending.source = shown.key /\ ssPending.url # shown.url

\* The render and the effect that follows it: an URL that is not canonical is
\* replaced, and it is said why.
Settle(shown, directory, verdict) ==
  LET canonical == Url(NormalizedUnder(directory, verdict, shown.url, shown.url.selection),
                       shown.url.hash)
  IN /\ ssShown' = shown /\ ssDirectory' = directory /\ ssVerdict' = verdict
     /\ ssNotice' = IF /\ directory.read /\ ssNotice.source # shown.key
                       /\ Notices(directory, verdict, shown)
                    THEN [source |-> shown.key, message |-> TRUE] ELSE ssNotice
     /\ IF ~directory.read \/ Waits(shown) THEN UNCHANGED <<ssHistory, ssPending, ssWanted>>
        ELSE /\ ssPending' = NoPending
             /\ IF canonical = shown.url THEN UNCHANGED <<ssHistory, ssWanted>>
                ELSE /\ ssHistory' = Replaced(ssHistory, ssAt, canonical)
                     /\ ssWanted' = NormalizedUnder(directory, verdict, Url(ssWanted, ""), ssWanted)

\* React shows the newest location.
Render ==
  /\ Lagging
  /\ Settle(Here, ssDirectory, ssVerdict)
  /\ UNCHANGED <<ssAt, ssCrossed, ssMoved, ssAnswered>>

\* The directory is read, for the first time or again.
OptionsRead(directory) ==
  /\ ssAnswered < SsAnswers /\ directory # ssDirectory
  /\ Settle(ssShown, directory, ssVerdict)
  /\ ssAnswered' = ssAnswered + 1
  /\ ssCrossed' = (ssCrossed \/ (Lagging /\ ~InFlight /\ ssHistory' # ssHistory))
  /\ UNCHANGED <<ssAt, ssMoved>>

\* scope-status answers for the season of the shown URL.
IdentityRead(verdict) ==
  /\ ssAnswered < SsAnswers
  /\ Asks(ssDirectory, ssShown.url.selection)
  /\ VerdictOn(ssVerdict, ssDirectory, ssShown.url.selection) = "unread"
  /\ Settle(ssShown, ssDirectory,
            [ssVerdict EXCEPT ![<<RequestedTitle(ssDirectory, ssShown.url.selection),
                                  ssShown.url.selection.season>>] = verdict])
  /\ ssAnswered' = ssAnswered + 1
  /\ ssCrossed' = (ssCrossed \/ (Lagging /\ ~InFlight /\ ssHistory' # ssHistory))
  /\ UNCHANGED <<ssAt, ssMoved>>

\* Faulty: every choice starts from what is shown.
BaseShown == NormalizedSelection
\* A choice is made on top of the one still on its way.
Base == IF InFlight THEN ssPending.url.selection ELSE NormalizedSelection

\* Scopes, focuses and members are visits of their own; the rest replaces.
Replaces(change) == \/ change.kind \in {"view", "metric"}
                    \/ change.kind = "focus" /\ change.value = None

CommitSelectionChange(change) ==
  LET hash == IF change.kind = "metric" THEN "metric-owner"
              ELSE IF InFlight THEN ssPending.url.hash ELSE ssShown.url.hash
      url  == Url(Shown(Change(Base, change)), hash)
  IN /\ ssDirectory.read /\ ssMoved < SsMoves
     /\ Replaces(change) \/ ssAt < SsDepth
     /\ ssPending' = [source |-> ssShown.key, url |-> url]
     /\ ssNotice' = [source |-> ssShown.key, message |-> FALSE]
     /\ ssHistory' = IF Replaces(change) THEN Replaced(ssHistory, ssAt, url)
                     ELSE Pushed(ssHistory, ssAt, url)
     /\ ssAt' = IF Replaces(change) THEN ssAt ELSE ssAt + 1
     /\ ssWanted' = Shown(Change(ssWanted, change))
     /\ ssMoved' = ssMoved + 1
     /\ ssCrossed' = (ssCrossed \/ (Lagging /\ ~InFlight))
     /\ UNCHANGED <<ssShown, ssDirectory, ssVerdict, ssAnswered>>

\* The user goes through the browser's history.
Travel(at) ==
  /\ at \in DOMAIN ssHistory /\ at \in {ssAt - 1, ssAt + 1} /\ ssMoved < SsMoves
  /\ ssAt' = at
  /\ ssWanted' = ssHistory[at].url.selection
  /\ ssCrossed' = (ssCrossed \/ Lagging)
  /\ ssMoved' = ssMoved + 1
  /\ UNCHANGED <<ssHistory, ssShown, ssPending, ssDirectory, ssVerdict, ssNotice, ssAnswered>>

\* A link of the table of contents keeps the search of the shown location.
FollowContents ==
  /\ ssMoved < SsMoves /\ ssAt < SsDepth
  /\ ssShown.url.selection.view \in AnalysisViews /\ ssShown.url.hash = ""
  /\ ssHistory' = Pushed(ssHistory, ssAt, [ssShown.url EXCEPT !.hash = "section"])
  /\ ssAt' = ssAt + 1
  /\ ssCrossed' = (ssCrossed \/ Lagging)
  /\ ssMoved' = ssMoved + 1
  /\ UNCHANGED <<ssShown, ssPending, ssDirectory, ssVerdict, ssNotice, ssWanted, ssAnswered>>

\* buildSeriesAnalysisFilterOptions: the seasons offered for the chosen title
Filters == LET seasons == Seasons(ssDirectory, ssVerdict, ssShown.url.selection)
           IN IF SelectionShown.title \in ssDirectory.titles
              THEN {None} \cup seasons[SelectionShown.title] ELSE {None}

ScopeChoices ==
  [kind : {"title"}, value : ssDirectory.titles] \cup [kind : {"season"}, value : Filters]
PurposeChoices == [kind : {"view"}, value : {"review", "overview", "outlook"}]
AnalysisChoices ==
  IF SelectionShown.view \notin AnalysisViews THEN {}
  ELSE [kind : {"view"}, value : AnalysisViews] \cup [kind : {"metric"}, value : Metrics]
MemberChoices ==
  IF SelectionShown.view # "outlook" THEN {}
  ELSE [kind : {"first", "second"}, value : {SsMembers[i] : i \in DOMAIN SsMembers}]
\* A focus is also given up without its user when the analysis turns out not
\* to contain the match.
FocusChoices ==
  IF SelectionShown.view = "outlook" THEN {}
  ELSE [kind : {"focus"}, value : {None} \cup SsMatches]
ClearScope == [kind : {"clear"}, value : {None}]
OpenChoices == ScopeChoices \cup PurposeChoices \cup AnalysisChoices \cup MemberChoices
           \cup FocusChoices \cup ClearScope

SelectionInit ==
  /\ \E url \in SsUrls :
       /\ ssHistory = <<[url |-> url, key |-> 1]>>
       /\ ssShown = [url |-> url, key |-> 1]
       /\ ssWanted = url.selection
  /\ ssAt = 1 /\ ssPending = NoPending
  /\ ssDirectory = NoDirectory
  /\ ssVerdict = [q \in {SsTitles[i] : i \in DOMAIN SsTitles} \X SsSeasons |-> "unread"]
  /\ ssNotice = [source |-> 0, message |-> FALSE]
  /\ ssCrossed = FALSE /\ ssMoved = 0 /\ ssAnswered = 0

SelectionNext ==
  \/ Render
  \/ \E directory \in SsDirectories : OptionsRead(directory)
  \/ \E verdict \in {"valid", "invalid"} : IdentityRead(verdict)
  \/ \E change \in (IF ssDirectory.read THEN OpenChoices ELSE {}) : CommitSelectionChange(change)
  \/ FollowContents
  \/ \E at \in {ssAt - 1, ssAt + 1} : Travel(at)

SelectionSpec == SelectionInit /\ [][SelectionNext]_ssvars
-----------------------------------------------------------------------------
AtRest == ssDirectory.read /\ ~Lagging /\ ~ssCrossed

SelectionTypeOK ==
  /\ ssAt \in DOMAIN ssHistory /\ Len(ssHistory) <= SsDepth
  /\ \A i, k \in DOMAIN ssHistory : i < k => ssHistory[i].key # ssHistory[k].key
  /\ ssDirectory.read => SelectionShown.title \in ssDirectory.titles
  /\ SelectionShown.pair # NoPair => SelectionShown.pair[1] # SelectionShown.pair[2]

\* Whatever the router, React and the API do in between, the page comes to
\* rest on the sum of the user's choices: no choice is undone by the
\* normalization of an older visit or by another choice made before React
\* showed it.  Only what the directory or the API does not allow is given up.
\* A page where Back left a visit before React showed it (ssCrossed) is excepted:
\* it never counts as at rest, because it keeps that visit pending.
ChoicesSurvive == AtRest => ssShown.url.selection = Still(ssWanted)
=============================================================================
