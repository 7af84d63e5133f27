---------------------------- MODULE SeriesDisplay ----------------------------
(***************************************************************************)
(* What the comparison page shows.  A publication (an artifact), the state *)
(* of the selected scope, the results of the selected purpose and the      *)
(* context of the focused match are four reads that end in any order, fail *)
(* and expire; the page keeps showing an accepted bundle until the next is *)
(* complete, and shields it while it belongs to another selection.         *)
(*                                                                         *)
(* One title.  Every event is followed by React's render; what React       *)
(* defers is brought up to date by a Background step.  A read nobody       *)
(* observes any longer is cancelled, since its request takes the signal.   *)
(***************************************************************************)
EXTENDS Naturals, FiniteSets

CONSTANTS SdScopes,    \* scopes of the title: a season, a map, both or none
          SdMapped,    \* the scopes of one map
          SdWhole,     \* the scope without a season
          SdMatches,   \* matches a user may focus
          SdArtifacts, \* bound: publications
          SdMoves,     \* bound: choices of the user
          SdTwists     \* bound: answers other than the plain one

ASSUME DisplayAssumption ==
  /\ SdMapped \subseteq SdScopes /\ SdWhole \in SdScopes
  /\ SdArtifacts \in Nat \ {0} /\ SdMoves \in Nat /\ SdTwists \in Nat

VARIABLES sdSel,       \* the selection: scope, view and focused match
          sdDeferred,  \* deferredSelection
          sdServer,    \* the artifact the API publishes
          sdStatus,    \* the status read: the artifact it knows, being read
          sdCache,     \* per read: its value and its error
          sdFetching,  \* reads under way
          sdLast,      \* per kind of results: the last read with data
          sdAccepted,  \* acceptedBundle
          sdShown,     \* deferredBundle
          sdInvalid,   \* contextInvalidationPending
          sdGesture,   \* the outlook is being dragged
          sdHandled,   \* expired reads the page has already rechecked
          sdRechecks,  \* rechecks that wait for the status
          sdRefresh,   \* a refresh under way, with the reads it captured
          sdDead,      \* only for the properties: contexts found invalid
          sdMoved, sdTwisted

sdvars == <<sdSel, sdDeferred, sdServer, sdStatus, sdCache, sdFetching, sdLast, sdAccepted,
            sdShown, sdInvalid, sdGesture, sdHandled, sdRechecks, sdRefresh, sdDead, sdMoved,
            sdTwisted>>

NoMatch == "-"
NoRead == <<"-">>
DisplayViews == {"review", "overview", "flow", "outlook"}
Purpose(view) == IF view \in {"review", "outlook"} THEN view ELSE "analysis"
ResultKinds == {"review", "analysis", "outlook"}
Published == 1..SdArtifacts

ScopeReads   == {"scope"} \X (0..SdArtifacts) \X SdScopes
ResultReads  == ResultKinds \X Published \X SdScopes
ContextReads == {"context"} \X Published \X SdScopes \X SdMatches
Reads == ScopeReads \cup ResultReads \cup ContextReads

\* The context of a match in a bundle; serial tells two reads of it apart.
NoContext == [read |-> NoRead, match |-> NoMatch, serial |-> 0]
NoBundle == [results |-> NoRead, view |-> "-", context |-> NoContext]
Bundle(results, view, context) == [results |-> results, view |-> view, context |-> context]
NoRefresh == [stage |-> "off"]
-----------------------------------------------------------------------------
(* The reads a selection asks for.                                          *)

ScopeRead == IF sdStatus.read THEN <<"scope", sdStatus.artifact, sdSel.scope>> ELSE NoRead
ScopeState == IF ScopeRead = NoRead THEN "none" ELSE sdCache[ScopeRead].value

\* planSeriesAnalysisRead
Plan(sel, artifact, scopestate) ==
  IF sel.view = "outlook" /\ sel.scope \in SdMapped THEN "unavailable"
  ELSE IF scopestate = "none" THEN "waiting"
  ELSE IF /\ scopestate # "available"
          /\ ~(sel.view = "outlook" /\ scopestate = "empty" /\ sel.scope = SdWhole)
       THEN "unavailable"
  ELSE IF artifact = 0 THEN "waiting" ELSE "query"
Planned == Plan(sdSel, sdStatus.artifact, ScopeState)

ActiveRead ==
  IF Planned # "query" THEN NoRead
  ELSE LET purpose == Purpose(sdSel.view)
       IN <<purpose, sdStatus.artifact,
            IF purpose = "analysis" THEN sdDeferred.scope ELSE sdSel.scope>>
ContextRead ==
  IF Planned # "query" \/ sdSel.view = "outlook" \/ sdSel.focus = NoMatch THEN NoRead
  ELSE <<"context", sdStatus.artifact, sdSel.scope, sdSel.focus>>
Observed == {ScopeRead, ActiveRead, ContextRead} \ {NoRead}

HasData(read) == sdCache[read].value # "none"
\* A read without data that starts again is pending, whatever ended it before.
Errored(read) == sdCache[read].error # "no" /\ ~(read \in sdFetching /\ ~HasData(read))
Failed(read) == read # NoRead /\ Errored(read) /\ read \notin sdFetching
Fetching(read) == read \in sdFetching

\* keepPreviousData: the last results fill in while there are none, not after a failure.
Received(kind) ==
  LET own == IF kind = Purpose(sdSel.view) THEN ActiveRead ELSE NoRead
  IN IF own # NoRead /\ HasData(own) THEN own
     ELSE IF own # NoRead /\ Errored(own) THEN NoRead ELSE sdLast[kind]

-----------------------------------------------------------------------------
(* From reads to the bundle on the screen.                                  *)

OfScope(bundle) == bundle # NoBundle /\ bundle.results[3] = sdSel.scope
OfSelection(bundle) == OfScope(bundle) /\ bundle.results[2] = sdStatus.artifact

ContextUnavailable == ContextRead # NoRead /\ sdCache[ContextRead].value = "unavailable"
ContextFailed == ContextRead # NoRead /\ ContextRead \notin sdFetching
                 /\ (Errored(ContextRead) \/ ContextUnavailable)

\* A candidate is verified against the selection and the publication.
Candidate ==
  LET bundle == Bundle(Received(Purpose(sdSel.view)), sdSel.view, NoContext)
  IN IF bundle.results # NoRead /\ OfSelection(bundle) THEN bundle ELSE NoBundle

Resolution ==
  IF Candidate = NoBundle THEN "waiting"
  ELSE IF sdSel.view = "outlook" \/ sdSel.focus = NoMatch THEN "ready"
  ELSE IF ContextRead = NoRead \/ sdCache[ContextRead].value \notin {"included", "excluded"}
       THEN "waiting"
  ELSE IF sdCache[ContextRead].value = "excluded" THEN "excluded" ELSE "ready"
Resolved ==
  IF sdSel.view = "outlook" \/ sdSel.focus = NoMatch THEN Candidate
  ELSE [Candidate EXCEPT !.context = [read |-> ContextRead, match |-> sdSel.focus,
                                      serial |-> sdCache[ContextRead].serial]]

GestureHolds(previous) ==
  sdSel.view = "outlook" /\ sdGesture /\ previous.view = "outlook" /\ OfScope(previous)

\* What a failed read leaves of the bundle before it.
Retained(previous) ==
  IF /\ Failed(ActiveRead) /\ OfScope(previous)
     /\ Purpose(previous.view) = Purpose(sdSel.view)
  THEN Bundle(previous.results, sdSel.view,
              IF ~ContextUnavailable /\ sdSel.focus # NoMatch
                 /\ previous.context.match = sdSel.focus
              THEN previous.context ELSE NoContext)
  ELSE previous

\* retainSeriesAnalysisDisplayBundle
Adopted(previous) ==
  IF GestureHolds(previous) THEN previous
  ELSE IF Resolution = "ready" THEN Resolved
  ELSE IF /\ Resolution = "waiting" /\ ContextRead # NoRead /\ Candidate # NoBundle
          /\ ContextFailed \/ ContextUnavailable
       THEN Candidate
  ELSE IF ContextUnavailable /\ previous.context # NoContext
       THEN [previous EXCEPT !.context = NoContext]
  ELSE Retained(previous)

Displayed ==
  IF ContextUnavailable \/ sdInvalid THEN [sdShown EXCEPT !.context = NoContext] ELSE sdShown

BundleFetching == Fetching(ActiveRead) \/ Fetching(ContextRead)
ScopePending == Fetching(ScopeRead) /\ ~HasData(ScopeRead)
Changing ==
  BundleFetching \/ sdSel.scope # sdDeferred.scope \/ sdShown # sdAccepted

Visible ==
  IF /\ GestureHolds(sdAccepted) \/ Planned = "query" \/ ScopePending
     /\ \/ Displayed # NoBundle /\ Purpose(Displayed.view) = Purpose(sdSel.view)
           /\ OfScope(Displayed)
        \/ ScopePending \/ Changing
  THEN Displayed ELSE NoBundle

\* Faulty: whatever is displayed is taken for the selected match's.
MarksSelection(bundle) == bundle.view = sdSel.view
Marks(bundle) ==
  bundle.view = sdSel.view /\ bundle.context.match \in {NoMatch, sdSel.focus}

Shielded ==
  /\ Visible # NoBundle
  /\ ~(sdSel.view = "outlook" /\ Visible.view = "outlook" /\ OfScope(Displayed))
  /\ \/ ScopePending
     \/ Changing /\ ~(OfSelection(Displayed) /\ Marks(Visible))
     \/ Resolution = "waiting" /\ BundleFetching

\* The page: what the user can read as the answer to the selection and act on.
Interactive ==
  /\ Visible # NoBundle /\ Purpose(Visible.view) = Purpose(sdSel.view)
  /\ ~Shielded
  /\ ~(Resolution = "waiting" /\ Fetching(ContextRead))
  /\ GestureHolds(sdAccepted)
     \/ ~(ScopePending \/ (Candidate = NoBundle /\ Fetching(ActiveRead)))

-----------------------------------------------------------------------------
(* Steps.                                                                   *)

Live(read) == read \in ScopeReads \cup ContextReads
Expired(read) == read[2] # 0 /\ sdCache[read].error = "expired" /\ Errored(read)

\* The reads a render starts, keeps and cancels: one that becomes observed is
\* started without data, or when it is live and no longer fresh.
ReadsGoOn(ended, again, stale) ==
  sdFetching' = {read \in Observed' :
                   \/ read \in sdFetching \ ended
                   \/ read \in again
                   \/ /\ read \notin Observed
                      /\ sdCache'[read].value = "none" \/ (stale /\ Live(read))}

\* What the render makes of the reads, and the effects that follow it: every
\* expired read has the publication rechecked once.
Rendered ==
  LET expired == {read \in Observed' : Expired(read)'} \ sdHandled
  IN /\ sdLast' = [kind \in ResultKinds |->
                     IF /\ kind = Purpose(sdSel'.view) /\ ActiveRead' # NoRead
                        /\ HasData(ActiveRead)'
                     THEN ActiveRead' ELSE sdLast[kind]]
     /\ \E previous \in {sdAccepted} : sdAccepted' = Adopted(previous)'
     /\ sdHandled' = sdHandled \cup expired

\* The contexts an unavailable match leaves on the page, of the scope it is
\* unavailable in: in another one the same match may be there.
Reported(context) == /\ ContextUnavailable' /\ context.match = sdSel'.focus
                     /\ context.read[3] = sdSel'.scope
DeadAfter == {context \in {sdAccepted.context, sdShown.context} : Reported(context)}

\* Faulty: the invalidation ends with the read that reported it.
InvalidationForgotten == sdInvalid' = ContextUnavailable' /\ sdDead' = sdDead \cup DeadAfter
\* A definitive invalidation lasts until React has caught up.
Invalidation ==
  /\ sdInvalid' = (ContextUnavailable' \/ (sdInvalid /\ sdShown' # sdAccepted'))
  /\ sdDead' = sdDead \cup DeadAfter

Rechecked(kept) == sdRechecks' = kept \cup (sdHandled' \ sdHandled)

\* The user chooses another scope, purpose or match.
Select(sel, stale) ==
  /\ sdMoved < SdMoves /\ sel # sdSel
  /\ sel.scope # sdSel.scope => sel = [sdSel EXCEPT !.scope = sel.scope, !.focus = NoMatch]
  /\ sel.scope = sdSel.scope => sel.view = sdSel.view \/ sel.focus = sdSel.focus
  /\ sel.focus \notin {sdSel.focus, NoMatch} => sel.view # "outlook"
  /\ sdSel' = sel
  /\ sdGesture' = (sdGesture /\ sel.scope = sdSel.scope)
  /\ UNCHANGED <<sdDeferred, sdServer, sdStatus, sdCache, sdShown>>
  /\ ReadsGoOn({}, {}, stale) /\ Rendered /\ Invalidation /\ Rechecked(sdRechecks)
  \* the scope a refresh waits for is cancelled with its last observer
  /\ sdRefresh' = IF sdRefresh.stage = "scope" /\ sel.scope # sdSel.scope THEN NoRefresh
                  ELSE sdRefresh
  /\ sdMoved' = sdMoved + 1
  /\ UNCHANGED sdTwisted

\* The page gives up a focus the results exclude.
ClearExcluded ==
  /\ Resolution = "excluded"
  /\ sdSel' = [sdSel EXCEPT !.focus = NoMatch]
  /\ UNCHANGED <<sdDeferred, sdServer, sdStatus, sdCache, sdShown, sdGesture>>
  /\ ReadsGoOn({}, {}, FALSE) /\ Rendered /\ Invalidation /\ Rechecked(sdRechecks)
  /\ UNCHANGED <<sdRefresh, sdMoved, sdTwisted>>

\* React renders what it had deferred.
Background ==
  /\ sdDeferred # sdSel \/ sdShown # sdAccepted
  /\ sdDeferred' = sdSel
  /\ UNCHANGED <<sdSel, sdServer, sdStatus, sdCache, sdGesture>>
  /\ ReadsGoOn({}, {}, FALSE) /\ Rendered
  /\ sdShown' = sdAccepted'
  /\ Invalidation /\ Rechecked(sdRechecks)
  /\ UNCHANGED <<sdRefresh, sdMoved, sdTwisted>>

Drag(on) ==
  /\ sdGesture # on /\ (on => sdSel.view = "outlook" /\ Interactive)
  /\ sdGesture' = on
  /\ UNCHANGED <<sdSel, sdDeferred, sdServer, sdStatus, sdCache, sdShown>>
  /\ ReadsGoOn({}, {}, FALSE) /\ Rendered /\ Invalidation /\ Rechecked(sdRechecks)
  /\ UNCHANGED <<sdRefresh, sdMoved, sdTwisted>>

Publish ==
  /\ sdServer < SdArtifacts
  /\ sdServer' = sdServer + 1
  /\ UNCHANGED <<sdSel, sdDeferred, sdStatus, sdCache, sdFetching, sdLast, sdAccepted, sdShown,
                 sdInvalid, sdGesture, sdHandled, sdRechecks, sdRefresh, sdDead, sdMoved,
                 sdTwisted>>

\* refreshSeriesAnalysis, after the status: the same publication has its scope
\* read again, unless nobody observes it any longer.
RefreshOn == IF sdRefresh.stage = "status" /\ sdRefresh.artifact = sdServer
                /\ sdRefresh.scope \in Observed
             THEN [sdRefresh EXCEPT !.stage = "scope"] ELSE NoRefresh

\* retryCurrentResource: only what is still observed, of the same publication
Retried == {read \in sdRechecks : read \in Observed /\ read[2] = sdServer}

StatusIsRead == sdRechecks # {} \/ sdRefresh.stage = "status" \/ ~sdStatus.read
StatusRead(stale) ==
  /\ StatusIsRead
  /\ sdStatus' = [read |-> TRUE, artifact |-> sdServer]
  /\ sdRefresh' = RefreshOn
  /\ UNCHANGED <<sdSel, sdDeferred, sdServer, sdCache, sdShown, sdGesture>>
  /\ ReadsGoOn({}, Retried \cup (IF RefreshOn.stage = "scope" THEN {RefreshOn.scope} ELSE {}),
               stale)
  /\ Rendered /\ Invalidation /\ Rechecked({})
  /\ UNCHANGED <<sdMoved, sdTwisted>>

StatusFails ==
  /\ StatusIsRead /\ sdTwisted < SdTwists /\ sdStatus.read
  /\ sdRefresh' = IF sdRefresh.stage = "status" THEN NoRefresh ELSE sdRefresh
  \* the data of a failed read is the one it had: the recheck compares with it
  /\ UNCHANGED <<sdSel, sdDeferred, sdServer, sdStatus, sdCache, sdShown, sdGesture>>
  /\ ReadsGoOn({}, {read \in sdRechecks : read \in Observed /\ read[2] = sdStatus.artifact},
               FALSE)
  /\ Rendered /\ Invalidation /\ Rechecked({})
  /\ sdTwisted' = sdTwisted + 1
  /\ UNCHANGED sdMoved

\* After its scope, a refresh has the captured reads done again that are still observed.
Again(read, value) ==
  IF sdRefresh.stage = "scope" /\ read = sdRefresh.scope /\
     Plan(sdRefresh.sel, sdRefresh.artifact, value) = "query"
  THEN sdRefresh.reads \cap Observed ELSE {}
RefreshAfter(read) ==
  IF sdRefresh.stage = "scope" /\ read = sdRefresh.scope THEN NoRefresh ELSE sdRefresh

PlainAnswer(read) ==
  IF read \in ScopeReads THEN "available" ELSE IF read \in ResultReads THEN "read" ELSE "included"
Answers(read) ==
  IF read \in ScopeReads THEN {"available", "empty", "invalid"}
  ELSE IF read \in ResultReads THEN {"read"} ELSE {"included", "excluded", "unavailable"}
Cost(read, value) == IF value = PlainAnswer(read) THEN 0 ELSE 1

\* A read succeeds.  An unavailable match is a value, with the error it came
\* from: not found, or of an expired artifact.
ReadSucceeds(read, value, error, stale) ==
  /\ read \in sdFetching /\ value \in Answers(read)
  /\ error # "no" <=> value = "unavailable"
  /\ sdTwisted + Cost(read, value) <= SdTwists
  /\ sdCache' = [sdCache EXCEPT
       ![read] = [value |-> value, error |-> error,
                  serial |-> IF @.value # value /\ value = "included" THEN @.serial + 1
                             ELSE @.serial]]
  /\ sdRefresh' = RefreshAfter(read)
  /\ UNCHANGED <<sdSel, sdDeferred, sdServer, sdStatus, sdShown, sdGesture>>
  /\ ReadsGoOn({read}, Again(read, value), stale) /\ Rendered /\ Invalidation
  /\ Rechecked(sdRechecks)
  /\ sdTwisted' = sdTwisted + Cost(read, value)
  /\ UNCHANGED sdMoved

ReadFails(read, error) ==
  /\ read \in sdFetching /\ sdTwisted < SdTwists
  /\ error = "expired" => read \notin ContextReads
  /\ sdCache' = [sdCache EXCEPT ![read].error = IF @ # "no" /\ sdCache[read].value = "unavailable"
                                                THEN @ ELSE error]
  /\ sdRefresh' = RefreshAfter(read)
  /\ UNCHANGED <<sdSel, sdDeferred, sdServer, sdStatus, sdShown, sdGesture>>
  /\ ReadsGoOn({read}, {}, FALSE) /\ Rendered /\ Invalidation /\ Rechecked(sdRechecks)
  /\ sdTwisted' = sdTwisted + 1
  /\ UNCHANGED sdMoved

\* The user refreshes: the publication, then the scope, then what was visible.
StartRefresh ==
  /\ sdMoved < SdMoves /\ sdRefresh.stage = "off" /\ sdStatus.read
  /\ sdRefresh' = [stage |-> "status", artifact |-> sdStatus.artifact, sel |-> sdSel,
                   scope |-> ScopeRead, reads |-> {ActiveRead, ContextRead} \ {NoRead}]
  /\ sdMoved' = sdMoved + 1
  /\ UNCHANGED <<sdSel, sdDeferred, sdServer, sdStatus, sdCache, sdFetching, sdLast, sdAccepted,
                 sdShown, sdInvalid, sdGesture, sdHandled, sdRechecks, sdDead, sdTwisted>>

DisplayInit ==
  /\ sdSel = [scope |-> SdWhole, view |-> "review", focus |-> NoMatch]
  /\ sdDeferred = sdSel
  /\ sdServer \in {0, 1} /\ sdStatus = [read |-> FALSE, artifact |-> 0]
  /\ sdCache = [read \in Reads |-> [value |-> "none", error |-> "no", serial |-> 0]]
  /\ sdFetching = {} /\ sdLast = [kind \in ResultKinds |-> NoRead]
  /\ sdAccepted = NoBundle /\ sdShown = NoBundle /\ sdInvalid = FALSE /\ sdGesture = FALSE
  /\ sdHandled = {} /\ sdRechecks = {} /\ sdRefresh = NoRefresh /\ sdDead = {}
  /\ sdMoved = 0 /\ sdTwisted = 0

Selections == [scope : SdScopes, view : DisplayViews, focus : SdMatches \cup {NoMatch}]

DisplayNext ==
  \/ \E sel \in Selections, stale \in BOOLEAN : Select(sel, stale)
  \/ ClearExcluded
  \/ Background
  \/ \E on \in BOOLEAN : Drag(on)
  \/ Publish
  \/ \E stale \in BOOLEAN : StatusRead(stale)
  \/ StatusFails
  \/ \E read \in sdFetching, stale \in BOOLEAN :
       \E value \in Answers(read), error \in {"no", "failed", "expired"} :
         ReadSucceeds(read, value, error, stale)
  \/ \E read \in sdFetching, error \in {"failed", "expired"} : ReadFails(read, error)
  \/ StartRefresh

DisplaySpec == DisplayInit /\ [][DisplayNext]_sdvars
-----------------------------------------------------------------------------
DisplayTypeOK ==
  /\ sdSel \in Selections /\ sdDeferred \in Selections
  /\ sdFetching \subseteq Observed
  /\ \A bundle \in {sdAccepted, sdShown} :
       bundle = NoBundle \/ (bundle.results \in ResultReads /\ HasData(bundle.results))
  /\ sdRechecks \subseteq sdHandled /\ sdHandled \subseteq Reads

\* What the user can act on is the answer to the selection of this moment: its
\* scope and purpose, never a placeholder or a bundle React still defers, and
\* if matches are marked, those of the focused match in the same publication.
ShownAsSelected ==
  Interactive /\ Resolution # "excluded" =>
    /\ OfScope(Visible) /\ Visible.view = sdSel.view
    /\ Visible.context # NoContext =>
         /\ Visible.context.match = sdSel.focus
         /\ <<Visible.context.read[2], Visible.context.read[3]>>
              = <<Visible.results[2], Visible.results[3]>>

\* A match the API has declared unavailable is not marked again, not even under
\* a shield and not by what React still defers: only a new successful read of
\* its context brings its markers back.
InvalidMarkersStayGone == Visible.context \notin sdDead

\* Code behaviour: what of an old scope, purpose or publication is still shown
\* while another one loads cannot be acted on, and a marker found not to be
\* available stays gone.
ShownMatchesSelection == ShownAsSelected /\ InvalidMarkersStayGone
=============================================================================
