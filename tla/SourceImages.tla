----------------------------- MODULE SourceImages -----------------------------
(***************************************************************************)
(* The images beside a review (workspace/sourceImages): which of them is   *)
(* displayed, their downloads one after the other with the displayed one   *)
(* first, the object URLs that show them, the end of their scope, and the  *)
(* archive of all of them.                                                 *)
(*                                                                         *)
(* The workspace takes the list of images once, with the readings; images  *)
(* can be replaced behind it.                                              *)
(***************************************************************************)
EXTENDS Integers, Sequences, FiniteSets

CONSTANTS SiKinds,            \* the kinds of images, in their order
          SiMoves, SiFaults   \* bounds: inputs; failures and replacements
ASSUME SiAssumption ==
  /\ SiKinds \in Seq(STRING \ {"none", "auto"}) /\ SiKinds # << >>
  /\ {SiMoves, SiFaults} \subseteq Nat

VARIABLES siServer,    \* the draft's revision and the image of each kind, 0 without one
          siList,      \* the list the workspace took, and whether it is newer by now
          siView,      \* what is displayed: choice, preferred kind, preview
          siResource,  \* the resource that downloads the images
          siUrls,      \* object URLs that are not revoked
          siArchive,   \* the archive: request, conflict, question
          siSaved,     \* revisions of the archives saved
          siAsked,     \* downloads asked for by displaying a kind, not used yet
          siMounted, siMoved, siFaulted

sivars == <<siServer, siList, siView, siResource, siUrls, siArchive, siSaved, siAsked,
            siMounted, siMoved, siFaulted>>

ImageKinds == {SiKinds[i] : i \in DOMAIN SiKinds}
NoKind == "none"
AutoKind == "auto"
NoEntry == [image |-> 0]
NoArchive == 0
SiMove == siMounted /\ siMoved < SiMoves /\ siMoved' = siMoved + 1
SiFault == siFaulted < SiFaults /\ siFaulted' = siFaulted + 1
ArchiveKept == UNCHANGED <<siArchive, siSaved>>
-----------------------------------------------------------------------------
(* The resource: one entry per image, one download at a time.                *)
Fresh(image) == [image |-> image, read |-> "none", foreground |-> FALSE, background |-> FALSE,
                 replaced |-> FALSE, url |-> FALSE]
IsEntry(entry) == entry # NoEntry
NeedsDisplay(entry) ==
  IsEntry(entry) /\ ~entry.replaced /\ ~entry.url /\ ~entry.foreground
NeedsPrefetch(entry) == IsEntry(entry) /\ ~entry.url /\ ~entry.background
FirstKind(kinds) ==
  LET places == {i \in DOMAIN SiKinds : SiKinds[i] \in kinds}
  IN IF places = {} THEN NoKind
     ELSE SiKinds[CHOOSE i \in places : \A j \in places : i <= j]

Begun(entry, foreground) ==
  [entry EXCEPT !.read = "fetching", !.background = TRUE,
                !.foreground = entry.foreground \/ foreground]
Start(r, k, foreground) == [r EXCEPT !.running = k, !.entries[k] = Begun(@, foreground)]
Joined(r) ==
  IF r.running # NoKind /\ r.running = r.active
    THEN [r EXCEPT !.entries[r.active].foreground = TRUE] ELSE r
InBackground(entry) == [entry EXCEPT !.foreground = FALSE]
Halted(entry) == [InBackground(entry) EXCEPT !.read = "idle"]
Preempted(r) == [r EXCEPT !.running = NoKind, !.entries[r.running] = Halted(@)]
Advance(r, loading) ==
  LET joined == Joined(r)
      needsActive == NeedsDisplay(joined.entries[r.active])
      free == IF joined.running # NoKind /\ needsActive THEN Preempted(joined) ELSE joined
      next == FirstKind({k \in ImageKinds : NeedsPrefetch(free.entries[k])})
  IN CASE r.stopped \/ loading -> r
       [] ~r.stopped /\ ~loading /\ free.running = NoKind /\ needsActive ->
            Start(free, free.active, TRUE)
       [] ~r.stopped /\ ~loading /\ free.running = NoKind /\ ~needsActive ->
            IF free.blocked \/ next = NoKind THEN free ELSE Start(free, next, FALSE)
       [] OTHER -> free

UrlsOf(r) == {<<k, r.entries[k].image>> : k \in {x \in ImageKinds : IsEntry(r.entries[x])
                                                                  /\ r.entries[x].url}}
ResourceStopped(r) ==
  [r EXCEPT !.stopped = TRUE, !.running = NoKind, !.entries = [k \in ImageKinds |-> NoEntry]]
Dispose == siResource' = ResourceStopped(siResource) /\ siUrls' = siUrls \ UrlsOf(siResource)
Downloading == {k \in ImageKinds : IsEntry(siResource.entries[k])
                                   /\ siResource.entries[k].read = "fetching"}
-----------------------------------------------------------------------------
(* What the panel displays.                                                  *)
ActiveKind == IF siView.choice = AutoKind THEN siView.preferred ELSE siView.choice
Available(k) == siList.image[k] # 0
IsCurrent(k) == IsEntry(siResource.entries[k]) /\ siResource.entries[k].image = siList.image[k]
EntryStatus(entry) ==
  CASE entry.replaced -> "replaced"
    [] ~entry.replaced /\ entry.url -> "ready"
    [] OTHER -> IF entry.read = "error" /\ entry.foreground THEN "error" ELSE "loading"
Display ==
  CASE siList.loading -> "list"
    [] ~siList.loading /\ ~Available(ActiveKind) -> "missing"
    [] OTHER -> IF IsCurrent(ActiveKind) THEN EntryStatus(siResource.entries[ActiveKind])
                ELSE "loading"
HasReplaced == \E k \in ImageKinds : IsEntry(siResource.entries[k])
                                     /\ siResource.entries[k].replaced
ImagesChanged == siList.newer \/ HasReplaced \/ siArchive.conflict = siList.rev

ImageListArrives ==
  /\ siMounted /\ siList.loading
  /\ siList' = [loading |-> FALSE, rev |-> siServer.rev, image |-> siServer.image,
                newer |-> FALSE]
  /\ UNCHANGED <<siServer, siView, siResource, siUrls, siAsked, siMounted, siMoved, siFaulted>>
  /\ ArchiveKept

\* The effect that gives the resource what the panel shows.
SyncedEntry(k) ==
  LET entry == siResource.entries[k]
      image == siList.image[k]
  IN IF IsEntry(entry) /\ entry.image = image THEN entry
     ELSE IF image = 0 THEN NoEntry ELSE Fresh(image)
Given == [siResource EXCEPT !.active = ActiveKind,
                            !.entries = [k \in ImageKinds |-> SyncedEntry(k)]]
AskedAfter(r, asked) ==
  [k \in ImageKinds |->
     asked[k] - (IF r.running = k /\ siResource.running # k /\ r.active = k THEN 1 ELSE 0)]
UpdateResource ==
  /\ siMounted /\ ~siResource.stopped
  /\ Given # siResource
  /\ siResource' = Advance(Given, siList.loading)
  /\ siUrls' = siUrls \ (UrlsOf(siResource) \ UrlsOf(Given))
  /\ siAsked' = AskedAfter(siResource', [siAsked EXCEPT ![ActiveKind] = @ + 1])
  /\ UNCHANGED <<siServer, siList, siView, siMounted, siMoved, siFaulted>> /\ ArchiveKept

Viewed(view) ==
  /\ SiMove /\ siView' = view
  /\ UNCHANGED <<siServer, siList, siResource, siUrls, siAsked, siMounted, siFaulted>>
  /\ ArchiveKept
SelectTab == \E k \in ImageKinds : k # siView.choice /\ Viewed([siView EXCEPT !.choice = k])
ChangeFollowMode ==
  Viewed([siView EXCEPT !.choice = IF siView.choice = AutoKind THEN ActiveKind ELSE AutoKind])
PreferKind ==
  \E k \in ImageKinds \ {siView.preferred} : Viewed([siView EXCEPT !.preferred = k])
OpenPreview ==
  Display = "ready" /\ siView.preview = NoKind /\ Viewed([siView EXCEPT !.preview = ActiveKind])
ClosePreview == siView.preview # NoKind /\ Viewed([siView EXCEPT !.preview = NoKind])
Previewed == siView.preview # NoKind /\ siView.preview = ActiveKind /\ Display = "ready"

\* Offered where the displayed image could not be read.
RetryImage ==
  /\ SiMove /\ Display = "error"
  /\ LET k == siResource.active IN
       /\ ~siResource.stopped /\ IsEntry(siResource.entries[k])
       /\ ~siResource.entries[k].replaced /\ siResource.running # k
       /\ siResource' = Advance([siResource EXCEPT !.entries[k] = InBackground(@)], siList.loading)
       /\ siAsked' = AskedAfter(siResource', [siAsked EXCEPT ![k] = @ + 1])
  /\ UNCHANGED <<siServer, siList, siView, siUrls, siMounted, siFaulted>> /\ ArchiveKept
-----------------------------------------------------------------------------
(* Downloads that end.  An image replaced meanwhile is refused.              *)
Ended(k, ending) ==
  LET entry == siResource.entries[k]
      done == [siResource EXCEPT
                 !.running = NoKind, !.blocked = @ \/ ending = "paused",
                 !.entries[k] = [entry EXCEPT
                   !.read = IF ending = "loaded" THEN "ready" ELSE "error",
                   !.url = ending = "loaded", !.replaced = ending = "replaced"]]
  IN /\ siResource' = Advance(done, siList.loading)
     /\ siUrls' = siUrls \cup (UrlsOf(done) \ UrlsOf(siResource))
     /\ siAsked' = AskedAfter(siResource', siAsked)
     /\ UNCHANGED <<siServer, siList, siView, siMounted, siMoved>> /\ ArchiveKept
ImageLoaded ==
  \E k \in Downloading :
    /\ siServer.image[k] = siResource.entries[k].image
    /\ Ended(k, "loaded") /\ UNCHANGED siFaulted
ImageReplaced ==
  \E k \in Downloading :
    /\ siServer.image[k] # siResource.entries[k].image
    /\ Ended(k, IF siServer.image[k] = 0 THEN "failed" ELSE "replaced") /\ UNCHANGED siFaulted
ImageFails == SiFault /\ \E k \in Downloading : \E ending \in {"failed", "paused"} : Ended(k, ending)
-----------------------------------------------------------------------------
(* The archive of all images, of the revision that is displayed.             *)
ImagesThere == {k \in ImageKinds : Available(k)}
CanSaveArchive == ~siList.loading /\ siArchive.request = NoArchive /\ ImagesThere # {} /\ ~ImagesChanged
Archived(archive) ==
  /\ siArchive' = archive
  /\ UNCHANGED <<siServer, siList, siView, siResource, siUrls, siAsked, siMounted>>
SendArchive(archive) ==
  Archived(IF CanSaveArchive THEN [archive EXCEPT !.request = siList.rev] ELSE archive)
SaveArchive ==
  /\ SiMove /\ CanSaveArchive /\ ~siArchive.asking
  /\ IF ImagesThere = ImageKinds THEN SendArchive(siArchive)
     ELSE Archived([siArchive EXCEPT !.asking = TRUE])
  /\ UNCHANGED <<siSaved, siFaulted>>
AnswerQuestion ==
  /\ SiMove /\ siArchive.asking
  /\ \/ SendArchive([siArchive EXCEPT !.asking = FALSE])
     \/ Archived([siArchive EXCEPT !.asking = FALSE])
  /\ UNCHANGED <<siSaved, siFaulted>>
ArchiveArrives ==
  /\ siMounted /\ siArchive.request # NoArchive /\ siArchive.request = siServer.rev
  /\ Archived([siArchive EXCEPT !.request = NoArchive])
  /\ siSaved' = siSaved \cup {siArchive.request}
  /\ UNCHANGED <<siMoved, siFaulted>>
ArchiveRefused ==
  /\ siMounted /\ siArchive.request # NoArchive /\ siArchive.request # siServer.rev
  /\ Archived([siArchive EXCEPT !.request = NoArchive, !.conflict = siArchive.request])
  /\ UNCHANGED <<siSaved, siMoved, siFaulted>>
ArchiveFails ==
  /\ SiFault /\ siMounted /\ siArchive.request # NoArchive
  /\ Archived([siArchive EXCEPT !.request = NoArchive])
  /\ UNCHANGED <<siSaved, siMoved>>
-----------------------------------------------------------------------------
(* The end of the scope, and changes behind the panel.                       *)

\* A confirmed or deleted draft and a sign-out clear the reads of the images; the
\* resource learns of it by the removal of a read of its own.
ScopeCleared ==
  /\ SiMove /\ ~siResource.stopped
  /\ IF \E k \in ImageKinds : IsEntry(siResource.entries[k])
                              /\ siResource.entries[k].read # "none"
     THEN Dispose ELSE UNCHANGED <<siResource, siUrls>>
  /\ UNCHANGED <<siServer, siList, siView, siAsked, siMounted, siFaulted>> /\ ArchiveKept
LeaveReview ==
  /\ siMounted /\ siMounted' = FALSE
  /\ Dispose /\ siArchive' = [siArchive EXCEPT !.request = NoArchive]
  /\ UNCHANGED <<siServer, siList, siView, siSaved, siAsked, siMoved, siFaulted>>
DraftReadAgain ==
  /\ siMounted /\ ~siList.loading
  /\ siList.newer # (siServer.rev # siList.rev)
  /\ siList' = [siList EXCEPT !.newer = siServer.rev # siList.rev]
  /\ UNCHANGED <<siServer, siView, siResource, siUrls, siAsked, siMounted, siMoved, siFaulted>>
  /\ ArchiveKept
OthersReplace ==
  /\ SiFault
  /\ \E k \in ImageKinds : \E image \in {0, siServer.image[k] + 1} \ {siServer.image[k]} :
       siServer' = [rev |-> siServer.rev + 1, image |-> [siServer.image EXCEPT ![k] = image]]
  /\ UNCHANGED <<siList, siView, siResource, siUrls, siAsked, siMounted, siMoved>> /\ ArchiveKept

SiInit ==
  /\ \E image \in [ImageKinds -> {0, 1}] : siServer = [rev |-> 1, image |-> image]
  /\ siList = [loading |-> TRUE, rev |-> 0, image |-> [k \in ImageKinds |-> 0], newer |-> FALSE]
  /\ siView = [choice |-> AutoKind, preferred |-> SiKinds[1], preview |-> NoKind]
  /\ siResource = [stopped |-> FALSE, active |-> SiKinds[1], running |-> NoKind,
                   blocked |-> FALSE, entries |-> [k \in ImageKinds |-> NoEntry]]
  /\ siUrls = {} /\ siArchive = [request |-> NoArchive, conflict |-> -1, asking |-> FALSE]
  /\ siSaved = {} /\ siAsked = [k \in ImageKinds |-> 0]
  /\ siMounted = TRUE /\ siMoved = 0 /\ siFaulted = 0
SiNext ==
  \/ ImageListArrives \/ UpdateResource \/ SelectTab \/ ChangeFollowMode \/ PreferKind
  \/ OpenPreview \/ ClosePreview \/ RetryImage
  \/ ImageLoaded \/ ImageReplaced \/ ImageFails
  \/ SaveArchive \/ AnswerQuestion \/ ArchiveArrives \/ ArchiveRefused \/ ArchiveFails
  \/ ScopeCleared \/ LeaveReview \/ DraftReadAgain \/ OthersReplace

SiTypeOK ==
  /\ siView.choice \in ImageKinds \cup {AutoKind} /\ siView.preferred \in ImageKinds
  /\ siResource.running \in ImageKinds \cup {NoKind}
  /\ siArchive.request \in 0..(1 + SiFaults) /\ siSaved \subseteq 1..(1 + SiFaults)
  /\ siMoved \in 0..SiMoves /\ siFaulted \in 0..SiFaults

(* Documented behaviour: one image is downloaded at a time, and it is the    *)
(* displayed one while that has not been tried.                              *)
DisplayedFirst ==
  /\ Cardinality(Downloading) <= 1
  /\ \A k \in Downloading : siResource.running = k
  /\ ~siResource.stopped /\ ~siList.loading
     => ~NeedsDisplay(siResource.entries[siResource.active])

(* Documented behaviour (requirements/base.md:285): a failed read is tried   *)
(* again only when its image is displayed or a retry asked for, and a        *)
(* refused pace ends the reads nobody asked for.                             *)
TriesAreAskedFor ==
  /\ \A k \in ImageKinds : siAsked[k] >= 0
  /\ siResource.blocked /\ siResource.running # NoKind
     => siResource.entries[siResource.running].foreground

(* Documented behaviour: URLs live as long as their images are held, and     *)
(* nothing is held or read after the end of the scope.                       *)
UrlsAreReleased ==
  /\ siUrls = UrlsOf(siResource)
  /\ siResource.stopped => siUrls = {} /\ Downloading = {}

(* Documented behaviour: an archive that is saved is the one of the images   *)
(* on the page, and one that was refused is not asked for again.             *)
ArchiveIsOfThePage ==
  /\ siSaved \subseteq {siList.rev}
  /\ siArchive.request # NoArchive => siArchive.request # siArchive.conflict
==============================================================================
