------------------------- MODULE AchievementCatalog -------------------------
(***************************************************************************)
(* The achievement items of one game title on the settings page            *)
(* (features/masters/achievements): the item editor, the retirement and the *)
(* order dialog, each holding on to what it was opened with while reads     *)
(* bring newer items, with one call at a time, lost answers and their       *)
(* replays, a permission that is rechecked, and other editors.              *)
(***************************************************************************)
EXTENDS Integers, Sequences, FiniteSets, FiniteSetsExt

CONSTANTS AvItems,    \* items that can exist
          AvFirst,    \* the active items at first, in their order
          AvTexts,    \* what an item may say
          AvVersions, \* versions written, over all items
          AvFaults    \* how many calls fail

NoItemText == "no text"
NoItem == "no item"
NewItem == "new item"
AbsentItem == [version |-> 0, retired |-> FALSE, text |-> NoItemText]
NoCatalog == [items |-> [i \in AvItems |-> AbsentItem], order |-> <<>>]

VARIABLES avServer,   \* [items, order]: the stored catalog, retired items included
          avAnswers,  \* [request, catalog]: answers the keys still held replay
          avCache,    \* the catalog on the page, or NoCatalog
          avRead,     \* [stage, catalog]
          avEditor,   \* [item, base, text]: the form and the item it was opened with
          avRetiring, \* [item, base]
          avOrdering, \* [on, original, ids]
          avPrompt,   \* "none", "item", "order": asking whether to drop unsaved input
          avCall,     \* [stage, request, shown, catalog]
          avProblem,  \* "none", "conflict", "failed": the last call's error
          avAllowed,  \* the permission is confirmed
          avLost      \* faults so far

avvars == <<avServer, avAnswers, avCache, avRead, avEditor, avRetiring, avOrdering,
            avPrompt, avCall, avProblem, avAllowed, avLost>>
avDialogs == <<avEditor, avRetiring, avOrdering, avPrompt>>
avNetwork == <<avServer, avAnswers, avCache, avRead, avCall, avAllowed, avLost>>

NoEditor == [item |-> NoItem, base |-> AbsentItem, text |-> NoItemText]
NoRetiring == [item |-> NoItem, base |-> AbsentItem]
NoOrdering == [on |-> FALSE, original |-> NoCatalog, ids |-> <<>>]
NoRequestYet == [kind |-> "none", item |-> NoItem, version |-> 0, text |-> NoItemText,
                 ids |-> <<>>, revision |-> <<>>]
NoCallYet == [stage |-> "idle", request |-> NoRequestYet, shown |-> NoCatalog,
              catalog |-> NoCatalog]
CatalogUnread == [stage |-> "idle", catalog |-> NoCatalog]
CatalogAsked == [CatalogUnread EXCEPT !.stage = "asked"]

-----------------------------------------------------------------------------
(* The catalog.                                                            *)

ActiveItems(catalog) == SelectSeq(catalog.order, LAMBDA i : ~catalog.items[i].retired)
RetiredItems(catalog) == SelectSeq(catalog.order, LAMBDA i : catalog.items[i].retired)
ItemsIn(s) == {s[k] : k \in DOMAIN s}

\* The order's own token: which items there are, in which order, and which are retired.
Revision(catalog) == <<catalog.order, ItemsIn(RetiredItems(catalog))>>

MovedItem(ids, from, to) ==
  LET others == [k \in 1..(Len(ids) - 1) |-> IF k < from THEN ids[k] ELSE ids[k + 1]]
  IN [k \in 1..Len(ids) |-> IF k < to THEN others[k]
                            ELSE IF k = to THEN ids[from] ELSE others[k - 1]]

-----------------------------------------------------------------------------
(* What the panel offers.                                                  *)

AvSaving == avCall.stage # "idle"
AvFetching == avRead # CatalogUnread
PanelReachable == /\ avCache # NoCatalog /\ avEditor = NoEditor /\ avRetiring = NoRetiring
                  /\ ~avOrdering.on
CanReorder == avAllowed /\ ~AvFetching /\ Len(ActiveItems(avCache)) > 1
EditorOpen == avEditor # NoEditor
EditorDirty == EditorOpen /\ avEditor.text # avEditor.base.text
\* The item changed behind the form.
EditorConflict == avEditor.item \in AvItems
                  /\ avCache.items[avEditor.item].version # avEditor.base.version
OrderDirty == avOrdering.on /\ avOrdering.ids # ActiveItems(avOrdering.original)
CanSaveOrder == avAllowed /\ OrderDirty /\ ~AvSaving /\ avProblem # "conflict"

StartEditor == \E item \in AvItems \cup {NewItem} :
  /\ PanelReachable /\ avAllowed /\ ~AvSaving
  /\ item \in AvItems => item \in ItemsIn(ActiveItems(avCache))
  /\ avEditor' = [item |-> item,
                  base |-> IF item = NewItem THEN AbsentItem ELSE avCache.items[item],
                  text |-> IF item = NewItem THEN NoItemText ELSE avCache.items[item].text]
  /\ avProblem' = "none"
  /\ UNCHANGED <<avNetwork, avRetiring, avOrdering, avPrompt>>

UpdateForm == \E text \in AvTexts \cup {NoItemText} :
  /\ EditorOpen /\ avPrompt = "none" /\ avAllowed /\ ~AvSaving
  /\ avEditor.text # text
  /\ avEditor' = [avEditor EXCEPT !.text = text]
  /\ UNCHANGED <<avNetwork, avRetiring, avOrdering, avPrompt, avProblem>>

CloseEditor ==
  /\ EditorOpen /\ avPrompt = "none" /\ ~AvSaving
  /\ IF EditorDirty THEN avPrompt' = "item" /\ UNCHANGED avEditor
     ELSE avEditor' = NoEditor /\ UNCHANGED avPrompt
  /\ UNCHANGED <<avNetwork, avRetiring, avOrdering, avProblem>>

StartRetirement == \E item \in ItemsIn(ActiveItems(avCache)) :
  /\ PanelReachable /\ avAllowed /\ ~AvSaving
  /\ avRetiring' = [item |-> item, base |-> avCache.items[item]]
  /\ avProblem' = "none"
  /\ UNCHANGED <<avNetwork, avEditor, avOrdering, avPrompt>>

CloseRetirement ==
  /\ avRetiring # NoRetiring /\ ~AvSaving
  /\ avRetiring' = NoRetiring
  /\ UNCHANGED <<avNetwork, avEditor, avOrdering, avPrompt, avProblem>>

StartOrdering ==
  /\ PanelReachable /\ CanReorder /\ ~AvSaving
  /\ avOrdering' = [on |-> TRUE, original |-> avCache, ids |-> ActiveItems(avCache)]
  /\ avProblem' = "none"
  /\ UNCHANGED <<avNetwork, avEditor, avRetiring, avPrompt>>

\* Moving drops a failed save, but not a refused one.
MoveItem == \E index \in DOMAIN avOrdering.ids, delta \in {-1, 1} :
  /\ avOrdering.on /\ avPrompt = "none" /\ avAllowed /\ ~AvSaving
  /\ index + delta \in DOMAIN avOrdering.ids
  /\ avOrdering' = [avOrdering EXCEPT !.ids = MovedItem(@, index, index + delta)]
  /\ avProblem' = IF avProblem = "conflict" THEN avProblem ELSE "none"
  /\ UNCHANGED <<avNetwork, avEditor, avRetiring, avPrompt>>

CloseOrdering ==
  /\ avOrdering.on /\ avPrompt = "none" /\ ~AvSaving
  /\ IF OrderDirty THEN avPrompt' = "order" /\ UNCHANGED avOrdering
     ELSE avOrdering' = NoOrdering /\ UNCHANGED avPrompt
  /\ UNCHANGED <<avNetwork, avEditor, avRetiring, avProblem>>

AnswerPrompt == \E discard \in BOOLEAN :
  /\ avPrompt # "none" /\ ~AvSaving
  /\ avPrompt' = "none"
  /\ avEditor' = IF discard /\ avPrompt = "item" THEN NoEditor ELSE avEditor
  /\ avOrdering' = IF discard /\ avPrompt = "order" THEN NoOrdering ELSE avOrdering
  /\ UNCHANGED <<avNetwork, avRetiring, avProblem>>

-----------------------------------------------------------------------------
(* The calls.                                                              *)

SendCatalogCall(request, shown) ==
  /\ avCall' = [NoCallYet EXCEPT !.stage = "sent", !.request = request, !.shown = shown]
  /\ avProblem' = "none"
  /\ UNCHANGED <<avServer, avAnswers, avCache, avRead, avDialogs, avAllowed, avLost>>

ShownItem(item, base) == [NoCatalog EXCEPT !.items = [@ EXCEPT ![item] = base]]

ItemRequest ==
  [NoRequestYet EXCEPT !.kind = IF avEditor.item = NewItem THEN "create" ELSE "update",
                       !.item = avEditor.item, !.text = avEditor.text,
                       !.version = avEditor.base.version]

MaySaveItem == EditorOpen /\ avAllowed /\ ~AvSaving /\ ~EditorConflict

SaveItem ==
  /\ avPrompt = "none" /\ MaySaveItem /\ EditorDirty
  /\ avEditor.text # NoItemText
  /\ SendCatalogCall(ItemRequest, IF avEditor.item = NewItem THEN NoCatalog
                       ELSE ShownItem(avEditor.item, avEditor.base))

\* A retirement of whatever version the page holds by now.
RetireRequestLatest ==
  [NoRequestYet EXCEPT !.kind = "retire", !.item = avRetiring.item,
                       !.version = avCache.items[avRetiring.item].version]
RetireRequest == [NoRequestYet EXCEPT !.kind = "retire", !.item = avRetiring.item,
                                      !.version = avRetiring.base.version]

RetireItem ==
  /\ avRetiring # NoRetiring /\ avAllowed /\ ~AvSaving
  /\ SendCatalogCall(RetireRequest, ShownItem(avRetiring.item, avRetiring.base))

OrderRequest ==
  [NoRequestYet EXCEPT !.kind = "order", !.revision = Revision(avOrdering.original),
                       !.ids = avOrdering.ids \o RetiredItems(avOrdering.original)]

SaveOrder ==
  /\ avPrompt = "none" /\ CanSaveOrder
  /\ SendCatalogCall(OrderRequest, avOrdering.original)

-----------------------------------------------------------------------------
(* The server: every write names what it expects to replace.               *)

UnusedItems == {i \in AvItems : avServer.items[i] = AbsentItem}
CatalogAccepts(request) ==
  CASE request.kind = "create" -> UnusedItems # {}
    [] request.kind \in {"update", "retire"} ->
         /\ avServer.items[request.item].version = request.version
         /\ ~avServer.items[request.item].retired
    [] request.kind = "order" ->
         /\ request.revision = Revision(avServer)
         /\ Len(request.ids) = Len(avServer.order)
         /\ ItemsIn(request.ids) = ItemsIn(avServer.order)

WithNew(catalog, item, text) ==
  [items |-> [catalog.items EXCEPT ![item] = [version |-> 1, retired |-> FALSE, text |-> text]],
   order |-> Append(catalog.order, item)]

\* An update that says what the item says already changes nothing.
AppliedTo(request) ==
  CASE request.kind = "create" -> WithNew(avServer, CHOOSE i \in UnusedItems : TRUE, request.text)
    [] request.kind = "update" ->
         IF avServer.items[request.item].text = request.text THEN avServer
         ELSE [avServer EXCEPT !.items[request.item].text = request.text,
                               !.items[request.item].version = @ + 1]
    [] request.kind = "retire" -> [avServer EXCEPT !.items[request.item].retired = TRUE,
                                                   !.items[request.item].version = @ + 1]
    [] request.kind = "order" -> [avServer EXCEPT !.order = request.ids]

VersionsBounded(catalog) ==
  MapThenSumSet(LAMBDA i : catalog.items[i].version, AvItems) <= AvVersions

ServeCall ==
  LET request == avCall.request
      replayed == {a \in avAnswers : a.request = request}
  IN /\ avCall.stage = "sent"
     /\ CASE replayed # {} ->
               /\ avCall' = [avCall EXCEPT !.stage = "saved",
                                           !.catalog = (CHOOSE a \in replayed : TRUE).catalog]
               /\ UNCHANGED <<avServer, avAnswers>>
          [] replayed = {} /\ ~CatalogAccepts(request) ->
               /\ avCall' = [avCall EXCEPT !.stage = "conflict"]
               /\ UNCHANGED <<avServer, avAnswers>>
          [] OTHER ->
               /\ avServer' = AppliedTo(request) /\ VersionsBounded(avServer')
               /\ avCall' = [avCall EXCEPT !.stage = "saved", !.catalog = avServer']
               /\ avAnswers' = avAnswers \cup {[request |-> request, catalog |-> avServer']}
     /\ UNCHANGED <<avCache, avRead, avDialogs, avProblem, avAllowed, avLost>>

\* The connection breaks; or a retirement has to wait for a calculation.
CallBreaks == \E outcome \in {"failed", "conflict"} :
  /\ avLost < AvFaults /\ avLost' = avLost + 1
  /\ IF outcome = "failed" THEN avCall.stage \in {"sent", "saved"}
     ELSE avCall.stage = "sent" /\ avCall.request.kind = "retire"
  /\ avCall' = [avCall EXCEPT !.stage = outcome]
  /\ UNCHANGED <<avServer, avAnswers, avCache, avRead, avDialogs, avProblem, avAllowed>>

\* A refusal brings the catalog up to date behind the open form.
CallFails ==
  /\ avCall.stage \in {"failed", "conflict"}
  /\ avProblem' = avCall.stage /\ avCall' = NoCallYet
  /\ avRead' = IF avCall.stage = "conflict" /\ avCall.request.kind # "order"
                 THEN CatalogAsked ELSE avRead
  /\ UNCHANGED <<avServer, avAnswers, avCache, avDialogs, avAllowed, avLost>>

\* The saved item takes its place in the cache; a saved order replaces it.
SavedItem == IF avCall.request.item # NewItem THEN avCall.request.item
             ELSE CHOOSE i \in AvItems : i \in ItemsIn(avCall.catalog.order)
                                         /\ avCall.catalog.order[Len(avCall.catalog.order)] = i
CatalogCached ==
  IF avCache = NoCatalog THEN avCache
  ELSE IF avCall.request.kind = "order" THEN avCall.catalog
  ELSE [items |-> [avCache.items EXCEPT ![SavedItem] = avCall.catalog.items[SavedItem]],
        order |-> IF SavedItem \in ItemsIn(avCache.order) THEN avCache.order
                  ELSE Append(avCache.order, SavedItem)]

\* Without a confirmed permission the form, or the dialog, stays as it is.
CallSucceeds ==
  /\ avCall.stage = "saved"
  /\ avAnswers' = {a \in avAnswers : a.request # avCall.request}
  /\ avCache' = CatalogCached /\ avRead' = CatalogAsked
  /\ avCall' = NoCallYet
  /\ avEditor' = IF avAllowed THEN NoEditor ELSE avEditor
  /\ avOrdering' = IF avAllowed THEN NoOrdering ELSE avOrdering
  /\ avRetiring' = IF avAllowed THEN NoRetiring ELSE avRetiring
  /\ avPrompt' = IF avAllowed THEN "none" ELSE avPrompt
  /\ UNCHANGED <<avServer, avProblem, avAllowed, avLost>>

-----------------------------------------------------------------------------
(* Reads, the permission and other editors.                                *)

RefreshCatalog ==
  /\ avAllowed /\ ~AvFetching
  /\ avRead' = CatalogAsked
  /\ UNCHANGED <<avServer, avAnswers, avCache, avDialogs, avCall, avProblem, avAllowed, avLost>>

ServeCatalog ==
  /\ avRead = CatalogAsked
  /\ avRead' = [stage |-> "served", catalog |-> avServer]
  /\ UNCHANGED <<avServer, avAnswers, avCache, avDialogs, avCall, avProblem, avAllowed, avLost>>

CatalogArrives ==
  /\ avRead.stage = "served"
  /\ avCache' = avRead.catalog /\ avRead' = CatalogUnread
  /\ UNCHANGED <<avServer, avAnswers, avDialogs, avCall, avProblem, avAllowed, avLost>>

CatalogReadFails ==
  /\ AvFetching /\ avLost < AvFaults
  /\ avRead' = CatalogUnread /\ avLost' = avLost + 1
  /\ UNCHANGED <<avServer, avAnswers, avCache, avDialogs, avCall, avProblem, avAllowed>>

PermissionChecked ==
  /\ avAllowed' = ~avAllowed
  /\ UNCHANGED <<avServer, avAnswers, avCache, avRead, avDialogs, avCall, avProblem, avLost>>

OthersEditItem ==
  /\ \E i \in ItemsIn(ActiveItems(avServer)) :
       \/ \E text \in AvTexts \ {avServer.items[i].text} :
            avServer' = [avServer EXCEPT !.items[i].text = text, !.items[i].version = @ + 1]
       \/ avServer' = [avServer EXCEPT !.items[i].retired = TRUE, !.items[i].version = @ + 1]
       \/ \E k \in DOMAIN avServer.order \ {1} :
            avServer' = [avServer EXCEPT !.order = MovedItem(@, k, k - 1)]
  /\ VersionsBounded(avServer') /\ avLost < AvFaults /\ avLost' = avLost + 1
  /\ UNCHANGED <<avAnswers, avCache, avRead, avDialogs, avCall, avProblem, avAllowed>>

CatalogInit ==
  /\ avServer = [items |-> [i \in AvItems |-> IF i \in ItemsIn(AvFirst)
                                                THEN [version |-> 1, retired |-> FALSE,
                                                      text |-> CHOOSE t \in AvTexts : TRUE]
                                                ELSE AbsentItem],
                 order |-> AvFirst]
  /\ avAnswers = {} /\ avCache = NoCatalog /\ avRead = CatalogAsked
  /\ avEditor = NoEditor /\ avRetiring = NoRetiring /\ avOrdering = NoOrdering
  /\ avPrompt = "none" /\ avCall = NoCallYet /\ avProblem = "none"
  /\ avAllowed = TRUE /\ avLost = 0

CatalogNext ==
  \/ StartEditor \/ UpdateForm \/ CloseEditor \/ SaveItem
  \/ StartRetirement \/ CloseRetirement \/ RetireItem
  \/ StartOrdering \/ MoveItem \/ CloseOrdering \/ SaveOrder \/ AnswerPrompt
  \/ ServeCall \/ CallBreaks \/ CallFails \/ CallSucceeds
  \/ RefreshCatalog \/ ServeCatalog \/ CatalogArrives \/ CatalogReadFails
  \/ PermissionChecked \/ OthersEditItem

CatalogSpec == CatalogInit /\ [][CatalogNext]_avvars
-----------------------------------------------------------------------------
(* Properties.                                                             *)

ItemStates == [version : 0..AvVersions, retired : BOOLEAN, text : AvTexts \cup {NoItemText}]

\* Every variable has its type.
CatalogTypeOK ==
  /\ avServer.items \in [AvItems -> ItemStates] /\ avCache.items \in [AvItems -> ItemStates]
  /\ avRead.stage \in {"idle", "asked", "served"}
  /\ avEditor.item \in AvItems \cup {NoItem, NewItem}
  /\ avPrompt \in {"none", "item", "order"}
  /\ avCall.stage \in {"idle", "sent", "saved", "failed", "conflict"}
  /\ avProblem \in {"none", "failed", "conflict"}
  /\ avAllowed \in BOOLEAN /\ avLost \in 0..AvFaults

\* A write changes an item, its retirement or the order only from the state its
\* dialog showed when it was opened, whatever refreshes brought the page meanwhile
\* (useAchievementCatalogPanel.ts, editor.item and retiring; useAchievementOrderEditor.ts,
\* original).
WritesReplaceWhatWasShown ==
  avCall.stage = "sent" /\ avCall'.stage = "saved" /\ avServer' # avServer =>
    /\ avCall.request.kind = "order" => Revision(avServer) = Revision(avCall.shown)
    /\ \A i \in AvItems : avServer'.items[i] # avServer.items[i] =>
         avServer.items[i] = avCall.shown.items[i]
=============================================================================
