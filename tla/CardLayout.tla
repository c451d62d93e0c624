------------------------------ MODULE CardLayout ------------------------------
(***************************************************************************)
(* The arrangement of the dashboard's cards: dashboard/src/store.js,       *)
(* layout_template.js, the drag and resize gestures of grid.js and         *)
(* cards.jsx, and what app.jsx and devices-table.jsx do to it.             *)
(*                                                                         *)
(* Every handler of the page is one step.  A card's size, value order and  *)
(* value modes are one `look`, told apart by where they come from; a grid  *)
(* size likewise.  A template names slots (model/id, or a feed's topic).   *)
(* A handler that saves several times in a row is given its last save: the *)
(* earlier ones prune no less and write nothing the last one leaves out.   *)
(***************************************************************************)
EXTENDS Naturals, FiniteSets, SequencesExt, Subsequences

CONSTANTS
  Card,         \* keys: a source and a topic
  SelfCard,     \* those of a receiver's own telemetry (isSelf)
  FeedCard,     \* those of the page's own feeds (isFeed)
  Base,         \* the sources that may be configured
  LocalBase,    \* FEED_BASE
  Origin,       \* the one this page was served by
  SourceOf,     \* [Card -> Base \cup {LocalBase}]
  Slot, SlotOf, \* cardSlots(): [Card -> Slot]
  Renamed,      \* the cards that have an alias
  SiteTemplate, \* what a source may publish as its $layout
  Finger,       \* pointer ids
  Nothing,      \* null
  DeviceMax,    \* devices kept for each configured source
  StorageMayFail,
  MaxEdits      \* bound: what the visitor does; a page load may still follow

VARIABLES
  layout,   \* cardState: grid, order, hidden, and cards as `look`
  stored,   \* localStorage, or Nothing
  broken,   \* storageBroken
  devices,  \* the keys of devices.value, in the order they were inserted
  sources,  \* sources.value
  auto,     \* the latch of layout_template.js: on, template, matched
  layouts,  \* base -> template, or Nothing
  posting,  \* the template of a POST $layout that is out, or Nothing
  drag,     \* dragging.value
  resize,   \* resizing.value
  edits,    \* history: operations of the visitor and page loads so far
  mine,     \* history: the arrangement is the visitor's, not a site default's
  dismissed \* history: cards the visitor hid and has not asked for since

pageParts == <<sources, layouts, posting>>
gestures == <<drag, resize>>
cardVars == <<layout, stored, broken, devices, auto, edits, mine, dismissed, pageParts, gestures>>

Look == {"first", "mine", "site"}
EndOfGrid == "end"

Layout == [grid : Look, order : Seq(Card), hidden : SUBSET Card, look : UNION {[S -> Look] : S \in SUBSET Card}]
Template == [grid : Look, order : Seq(Slot), look : UNION {[S -> Look] : S \in SUBSET Slot}, hides : SUBSET Slot]

BlankLayout == [grid |-> "first", order |-> <<>>, hidden |-> {}, look |-> [k \in {} |-> "first"]]
CardsOf(l) == DOMAIN l.look

\* A source's $layout that is not of this shape is read as one that is.
ASSUME CardsAssumption ==
  /\ SourceOf \in [Card -> Base \cup {LocalBase}] /\ SlotOf \in [Card -> Slot] /\ Nothing \notin Card
  /\ IsFiniteSet(Base) /\ Origin \in Base /\ SiteTemplate \subseteq Template
  /\ StorageMayFail \in BOOLEAN /\ MaxEdits \in Nat

-----------------------------------------------------------------------------
(* store.js *)

\* pruneCardState: what a save keeps, given the devices then known.
Kept(l, devs) ==
  LET spoken == {SourceOf[k] : k \in ToSet(devs)}
  IN {k \in ToSet(l.order) : \/ k \in ToSet(devs) \/ k \in FeedCard \/ k \notin l.hidden
                             \/ k \in Renamed \/ SourceOf[k] \notin spoken}

\* Mutant of Pruned: a dropped card's look is left behind.
PrunedButLook(l, devs) ==
  LET keep == Kept(l, devs)
  IN [l EXCEPT !.order = Within(@, keep), !.hidden = @ \cap keep]

Pruned(l, devs) ==
  LET keep == Kept(l, devs)
  IN [grid |-> l.grid, order |-> Within(l.order, keep), hidden |-> l.hidden \cap keep,
      look |-> [k \in CardsOf(l) \cap keep |-> l.look[k]]]

\* Mutant of Save: what is stored is not what the prune has left on the page.
SaveUnpruned(l, devs) ==
  /\ layout' = Pruned(l, devs)
  /\ \/ ~broken /\ stored' = l /\ UNCHANGED broken
     \/ (broken \/ StorageMayFail) /\ broken' = TRUE /\ UNCHANGED stored

\* saveCardState: localStorage may refuse, once and for the rest of the page.
Save(l, devs) ==
  LET pruned == Pruned(l, devs)
  IN /\ layout' = pruned
     /\ \/ ~broken /\ stored' = pruned /\ UNCHANGED broken
        \/ (broken \/ StorageMayFail) /\ broken' = TRUE /\ UNCHANGED stored

\* ensureCard: a new card starts hidden, unless it is a feed's or the
\* receiver's own, or made by forgetLayouts.
EnsureCard(k, hideNew, l) ==
  IF k \in CardsOf(l) THEN l
  ELSE [l EXCEPT !.order = Append(@, k), !.look = [c \in CardsOf(l) \cup {k} |-> IF c = k THEN "first" ELSE @[c]],
                 !.hidden = IF hideNew /\ k \notin SelfCard THEN @ \cup {k} ELSE @]

\* moveCard: taken out, then put before another, or last if that one is gone.
MoveCard(l, k, before) ==
  LET rest == Within(l.order, Card \ {k})
      at == SelectInSeq(rest, LAMBDA c : c = before)
  IN [l EXCEPT !.order = InsertAt(rest, IF at = 0 THEN Len(rest) + 1 ELSE at, k)]

MoveValue(l, k) == [l EXCEPT !.look[k] = "mine"]

\* setCardSize makes a card that has gone, which the save drops again.
SetCardSize(l, k) == [l EXCEPT !.look = [c \in CardsOf(l) \cup {k} |-> IF c = k THEN "mine" ELSE @[c]]]

-----------------------------------------------------------------------------
(* layout_template.js *)

\* Where the last of some cards with a slot is, or 0.
LastOf(slot, keys) == SelectLastInSeq(keys, LAMBDA k : SlotOf[k] = slot)

\* keyForSlot: of two devices with one slot, the one inserted last.
KeyFor(slot, devs) == IF LastOf(slot, devs) = 0 THEN Nothing ELSE devs[LastOf(slot, devs)]

\* matched of applyTemplate: the cards a template names, in its order, each once.
Matched(t, devs) ==
  LET keys == [i \in DOMAIN t.order |-> IF t.order[i] \in DOMAIN t.look THEN KeyFor(t.order[i], devs) ELSE Nothing]
      first == {i \in DOMAIN keys : keys[i] # Nothing /\ \A j \in 1..(i - 1) : keys[j] # keys[i]}
      at == Within([i \in DOMAIN keys |-> i], first)
  IN [n \in DOMAIN at |-> keys[at[n]]]

\* Mutant of Dealt: the cards a template does not name go to the end.
DealtFirst(order, matched) == matched \o Within(order, Card \ ToSet(matched))

\* The named cards are dealt, in the template's order, into the positions they hold.
Dealt(order, matched) ==
  LET named == ToSet(matched)
  IN [i \in DOMAIN order |-> IF order[i] \in named THEN matched[CountUpTo(order, named, i)] ELSE order[i]]
     \o SubSeq(matched, CountUpTo(order, named, Len(order)) + 1, Len(matched))

ApplyTemplate(t, l, devs) ==
  LET matched == Matched(t, devs)
      named == ToSet(matched)
  IN [grid |-> t.grid, order |-> Dealt(l.order, matched),
      hidden |-> (l.hidden \ named) \cup {k \in named : SlotOf[k] \in t.hides},
      look |-> [k \in CardsOf(l) \cup named |-> IF k \in named THEN t.look[SlotOf[k]] ELSE l.look[k]]]

\* deriveTemplate: of two cards with one slot, the later one's look.
DeriveTemplate(l, devs) ==
  LET drawn == Within(l.order, ToSet(devs))
      last(slot) == drawn[LastOf(slot, drawn)]
      slots == {SlotOf[k] : k \in ToSet(drawn)}
  IN [grid |-> l.grid, order |-> [i \in DOMAIN drawn |-> SlotOf[drawn[i]]],
      look |-> [slot \in slots |-> l.look[last(slot)]], hides |-> {slot \in slots : last(slot) \in l.hidden}]

NamedSlotsPresent(t, devs) == Cardinality({i \in DOMAIN devs : SlotOf[devs[i]] \in ToSet(t.order)})

\* runAutoApply, which watchCards runs again for every device that comes.
AutoFires(a, devs) == a.on /\ a.template # Nothing /\ NamedSlotsPresent(a.template, devs) > a.matched
RunAutoApply(a, l, devs) == IF AutoFires(a, devs) THEN ApplyTemplate(a.template, l, devs) ELSE l
AutoAfter(a, devs) == IF AutoFires(a, devs) THEN [a EXCEPT !.matched = NamedSlotsPresent(a.template, devs)] ELSE a

DisableAutoApply == auto' = [auto EXCEPT !.on = FALSE]
KeepCards == UNCHANGED <<layout, stored, broken>>

\* layoutForSources: the first configured source that has one.
LayoutForSources ==
  LET at == SelectInSeq(sources, LAMBDA b : layouts[b] # Nothing)
  IN IF at = 0 THEN Nothing ELSE layouts[sources[at]]

-----------------------------------------------------------------------------
CardsInit ==
  /\ layout = BlankLayout /\ stored = Nothing /\ broken = FALSE
  /\ devices = <<>> /\ sources \in {<<Origin>>, SetToSeq(Base)}
  /\ auto = [on |-> TRUE, template |-> Nothing, matched |-> 0]
  /\ layouts = [b \in Base |-> Nothing] /\ posting = Nothing
  /\ drag = Nothing /\ resize = Nothing
  /\ edits = 0 /\ mine = FALSE /\ dismissed = {}

\* What a template shows again is no longer dismissed.
ShownBy(t, devs) == IF t = Nothing THEN {} ELSE {k \in ToSet(Matched(t, devs)) : SlotOf[k] \notin t.hides}

\* A device has been upserted: the auto-apply effect, trim, then ensureCard.
\* A field the card does not list yet makes it save as well.
Arrives(k, stale, hideNew, newField) ==
  LET known == k \in ToSet(devices)
      now == IF known THEN devices ELSE Append(devices, k)
      fired == ~known /\ AutoFires(auto, now)
      arranged == IF fired THEN Pruned(ApplyTemplate(auto.template, layout, now), now) ELSE layout
      carded == EnsureCard(k, hideNew, arranged)
  IN /\ devices' = Within(now, Card \ stale)
     /\ IF carded # arranged \/ newField THEN Save(carded, devices')
        ELSE IF fired THEN Save(arranged, now) ELSE KeepCards
     /\ auto' = IF fired THEN AutoAfter(auto, now) ELSE auto
     /\ dismissed' = IF fired THEN dismissed \ ShownBy(auto.template, now) ELSE dismissed
     /\ UNCHANGED <<edits, mine, pageParts, gestures>>

\* trim: of the radio devices over the cap, those heard longest ago by their own clocks.
Stale(k) ==
  LET radio == (ToSet(devices) \cup {k}) \ FeedCard
      over == Cardinality(radio) - DeviceMax * Len(sources)
  IN kSubset(IF k \in ToSet(devices) \/ over < 0 THEN 0 ELSE over, radio)

\* onMessage of a reading.
Hear(k, newField) ==
  /\ k \notin FeedCard /\ SourceOf[k] \in ToSet(sources)
  /\ \E stale \in Stale(k) : Arrives(k, stale, TRUE, newField)

\* publish of feed.js: its card is shown as it is made.
FeedPublishes(k) == k \in FeedCard /\ Arrives(k, {}, FALSE, FALSE)

\* onLayout: the frame is remembered and, before the visitor's first edit, applied.
LayoutFrame(b, t) ==
  LET claimed == IF t # Nothing /\ auto.on THEN [auto EXCEPT !.template = t] ELSE auto
      fires == t # Nothing /\ AutoFires(claimed, devices)
  IN /\ b \in ToSet(sources)
     /\ layouts' = [layouts EXCEPT ![b] = t]
     /\ IF fires THEN Save(ApplyTemplate(t, layout, devices), devices) ELSE KeepCards
     /\ auto' = IF fires THEN AutoAfter(claimed, devices) ELSE claimed
     /\ dismissed' = IF fires THEN dismissed \ ShownBy(t, devices) ELSE dismissed
     /\ UNCHANGED <<devices, edits, mine, sources, posting, gestures>>

-----------------------------------------------------------------------------
(* What the visitor does *)

VisitorMay == edits < MaxEdits /\ edits' = edits + 1

\* Mutant of Edit: the site default keeps its claim.
EditUnhooked(l) == Save(l, devices) /\ UNCHANGED auto /\ mine' = TRUE

\* A setter of store.js: onEdit, then save.
Edit(l) == Save(l, devices) /\ DisableAutoApply /\ mine' = TRUE
GestureInFlight == drag # Nothing \/ resize # Nothing

SetCardHidden(k, hide) ==
  /\ VisitorMay /\ ~GestureInFlight
  /\ Edit([layout EXCEPT !.hidden = IF hide THEN @ \cup {k} ELSE @ \ {k}])
  /\ dismissed' = IF hide THEN dismissed \cup {k} ELSE dismissed \ {k}
  /\ UNCHANGED <<devices, pageParts, gestures>>

\* The card's close button, and the box of the devices table.
Shown(k) == k \in ToSet(devices) \cap CardsOf(layout) /\ k \notin layout.hidden
CloseCard(k) == Shown(k) /\ SetCardHidden(k, TRUE)
TickDevice(k) == k \in ToSet(devices) /\ SetCardHidden(k, k \notin layout.hidden)

SetValueMode(k) ==
  /\ VisitorMay /\ ~GestureInFlight /\ k \in ToSet(devices) \cap CardsOf(layout)
  /\ Edit([layout EXCEPT !.look[k] = "mine"])
  /\ UNCHANGED <<devices, dismissed, pageParts, gestures>>

SetGrid ==
  /\ VisitorMay /\ ~GestureInFlight
  /\ Edit([layout EXCEPT !.grid = "mine"])
  /\ UNCHANGED <<devices, dismissed, pageParts, gestures>>

\* Forget layouts: the store is emptied, the cards dealt anew and not saved.
ForgetLayouts ==
  /\ VisitorMay
  /\ layout' = [BlankLayout EXCEPT !.order = devices, !.look = [k \in ToSet(devices) |-> "first"]]
  /\ \/ stored' = Nothing /\ UNCHANGED broken
     \/ StorageMayFail /\ broken' = TRUE /\ UNCHANGED stored
  /\ DisableAutoApply /\ mine' = TRUE /\ dismissed' = {}
  /\ UNCHANGED <<devices, pageParts, gestures>>

\* Load default layout: not an edit, so a site default may still arrive over it.
LoadLayout ==
  /\ VisitorMay /\ LayoutForSources # Nothing
  /\ Save(ApplyTemplate(LayoutForSources, layout, devices), devices)
  /\ dismissed' = dismissed \ ShownBy(LayoutForSources, devices)
  /\ UNCHANGED <<devices, auto, mine, pageParts, gestures>>

\* Save as default layout, and its answer, which may find the source removed.
PostLayout ==
  /\ VisitorMay /\ posting = Nothing /\ Origin \in ToSet(sources)
  /\ posting' = DeriveTemplate(layout, devices)
  /\ KeepCards /\ UNCHANGED <<devices, auto, mine, dismissed, sources, layouts, gestures>>

PostAnswered(ok) ==
  /\ posting # Nothing
  /\ posting' = Nothing
  /\ layouts' = IF ok THEN [layouts EXCEPT ![Origin] = posting] ELSE layouts
  /\ KeepCards /\ UNCHANGED <<devices, auto, edits, mine, dismissed, sources, gestures>>

\* removeSource and dropSource: devices and templates go, cards stay as they were.
SourceRemoved(b) ==
  /\ VisitorMay /\ b \in ToSet(sources)
  /\ sources' = Within(sources, Base \ {b})
  /\ devices' = Within(devices, {k \in Card : SourceOf[k] # b})
  /\ layouts' = [layouts EXCEPT ![b] = Nothing]
  /\ dismissed' = {k \in dismissed : SourceOf[k] # b}
  /\ KeepCards /\ UNCHANGED <<auto, mine, posting, gestures>>

SourceAdded(b) ==
  /\ VisitorMay /\ b \notin ToSet(sources)
  /\ sources' = Append(sources, b)
  /\ KeepCards /\ UNCHANGED <<devices, auto, mine, dismissed, layouts, posting, gestures>>

\* The page is loaded again; a stored arrangement keeps the site default off.
Reload ==
  /\ edits <= MaxEdits /\ edits' = edits + 1
  /\ \/ layout' = (IF stored = Nothing THEN BlankLayout ELSE stored) /\ broken' = FALSE
     \/ StorageMayFail /\ layout' = BlankLayout /\ broken' = TRUE
  /\ devices' = <<>>
  /\ auto' = [on |-> layout'.order = <<>>, template |-> Nothing, matched |-> 0]
  /\ mine' = (layout'.order # <<>>) /\ dismissed' = dismissed \cap layout'.hidden
  /\ layouts' = [b \in Base |-> Nothing] /\ posting' = Nothing
  /\ drag' = Nothing /\ resize' = Nothing
  /\ UNCHANGED <<stored, sources>>

-----------------------------------------------------------------------------
(* Gestures: grid.js, and the pointer handlers of cards.jsx *)

KeepPage == UNCHANGED <<devices, edits, dismissed, pageParts>>

BeginDrag(k, field, finger) ==
  /\ VisitorMay /\ Shown(k)
  /\ drag' = [key |-> k, field |-> field, finger |-> finger, before |-> Nothing]
  /\ KeepCards /\ UNCHANGED <<devices, auto, mine, dismissed, pageParts, resize>>

\* A press on a card gives way to a resize; a press on one of its values does
\* not, and either replaces a drag of another finger.
PressCard(k, finger) == resize = Nothing /\ BeginDrag(k, FALSE, finger)
PressValue(k, finger) == BeginDrag(k, TRUE, finger)

\* cardDropZones: before each of the cards shown, and after the last.
DropZone(before) == before = EndOfGrid \/ Shown(before)

\* dragMove: the drop zones are those there as the finger first moves.
DragMove(finger, before) ==
  /\ drag # Nothing /\ drag.finger = finger /\ drag.before = Nothing
  /\ DropZone(before)
  /\ drag' = [drag EXCEPT !.before = before]
  /\ KeepCards /\ KeepPage /\ UNCHANGED <<auto, mine, resize>>

\* endDrag, on pointerup and on pointercancel alike.
EndDrag(finger) ==
  LET k == drag.key
      lands == /\ drag.before # Nothing
               /\ IF drag.field THEN k \in CardsOf(layout) ELSE k \in ToSet(layout.order) /\ drag.before # k
  IN /\ drag # Nothing /\ drag.finger = finger
     /\ drag' = Nothing
     /\ IF ~lands THEN KeepCards /\ UNCHANGED <<auto, mine>>
        ELSE Edit(IF drag.field THEN MoveValue(layout, k) ELSE MoveCard(layout, k, drag.before))
     /\ KeepPage /\ UNCHANGED resize

BeginResize(k, finger) ==
  /\ VisitorMay /\ Shown(k)
  /\ resize' = [key |-> k, finger |-> finger]
  /\ KeepCards /\ UNCHANGED <<devices, auto, mine, dismissed, pageParts, drag>>
PressHandle(k, finger) == drag = Nothing /\ BeginResize(k, finger)

\* endResize
EndResize(finger, changed) ==
  LET k == resize.key
  IN /\ resize # Nothing /\ resize.finger = finger
     /\ resize' = Nothing
     /\ IF ~changed THEN KeepCards /\ UNCHANGED <<auto, mine>>
        ELSE Edit(SetCardSize(layout, k))
     /\ KeepPage /\ UNCHANGED drag

-----------------------------------------------------------------------------
CardsNext ==
  \/ \E k \in Card, newField \in BOOLEAN : Hear(k, newField)
  \/ \E k \in Card : FeedPublishes(k) \/ CloseCard(k) \/ TickDevice(k) \/ SetValueMode(k)
  \/ \E b \in Base, t \in SiteTemplate \cup {Nothing} : LayoutFrame(b, t)
  \/ SetGrid \/ ForgetLayouts \/ LoadLayout \/ PostLayout \/ Reload
  \/ \E ok \in BOOLEAN : PostAnswered(ok)
  \/ \E b \in Base : SourceRemoved(b) \/ SourceAdded(b)
  \/ \E k \in Card, finger \in Finger : PressCard(k, finger) \/ PressValue(k, finger) \/ PressHandle(k, finger)
  \/ \E finger \in Finger, before \in Card \cup {EndOfGrid} : DragMove(finger, before)
  \/ \E finger \in Finger, changed \in BOOLEAN : EndDrag(finger) \/ EndResize(finger, changed)

CardsSpec == CardsInit /\ [][CardsNext]_cardVars

-----------------------------------------------------------------------------
CardsTypeOK ==
  /\ layout \in Layout /\ stored \in Layout \cup {Nothing} /\ broken \in BOOLEAN
  /\ devices \in Seq(Card) /\ sources \in Seq(Base)
  /\ auto \in [on : BOOLEAN, template : Template \cup {Nothing}, matched : Nat]
  /\ layouts \in [Base -> Template \cup {Nothing}] /\ posting \in Template \cup {Nothing}
  /\ drag \in [key : Card, field : BOOLEAN, finger : Finger, before : Card \cup {EndOfGrid, Nothing}] \cup {Nothing}
  /\ resize \in [key : Card, finger : Finger] \cup {Nothing}
  /\ edits \in 0..MaxEdits + 1 /\ mine \in BOOLEAN /\ dismissed \subseteq Card

\* store.js keeps order, hidden and cards as three collections it writes in turn;
\* a reading, a prune, a template, a lost card's resize must leave them agreed,
\* and every device with one card to draw.
CardsAgree ==
  /\ IsInjective(layout.order)
  /\ ToSet(layout.order) = CardsOf(layout) /\ layout.hidden \subseteq CardsOf(layout)
  /\ ToSet(devices) \subseteq CardsOf(layout)

\* What is on the page is what a reload restores, unless localStorage has
\* refused or the layouts have been forgotten (saveCardState, loadCardState).
ReloadRestores == ~broken => stored \in {layout, Nothing}

\* Once an arrangement is the visitor's, only the visitor changes it: readings,
\* feeds, late $layout frames and answers add cards and drop hidden ones, and
\* leave every other card its place, look and visibility (setEditHook).
EditsStand ==
  [][mine /\ edits' = edits /\ drag' = drag /\ resize' = resize =>
       LET both == CardsOf(layout) \cap CardsOf(layout')
       IN /\ Within(layout.order, both) = Within(layout'.order, both)
          /\ \A k \in both : layout'.look[k] = layout.look[k] /\ (k \in layout'.hidden <=> k \in layout.hidden)
          /\ layout'.grid = layout.grid]_cardVars

\* Loading a site's arrangement moves only the cards it names: every other
\* keeps the position it holds in the order.  And an arrangement saved as the
\* site default loads as itself, when no two of its devices share a slot
\* (deriveTemplate, applyTemplate).
SiteLayoutsLoad ==
  /\ \A t \in SiteTemplate : \A i \in DOMAIN layout.order :
       layout.order[i] \notin ToSet(Matched(t, devices)) => ApplyTemplate(t, layout, devices).order[i] = layout.order[i]
  /\ IsInjective([i \in DOMAIN devices |-> SlotOf[devices[i]]]) =>
       ApplyTemplate(DeriveTemplate(layout, devices), layout, devices) = layout

\* architecture.md and store.js: a card the visitor hid stays hidden.
HiddenStaysHidden == dismissed \cap ToSet(devices) \subseteq layout.hidden
=============================================================================
