------------------------------ MODULE StudioProof ------------------------------
(***************************************************************************)
(* The proofs about the capture panel and the hook on navigations: the      *)
(* invariant of StudioInvariant is inductive, and what follows from it.      *)
(*                                                                         *)
(* The hook is used by the panel and by other callers of onNavigate; what a  *)
(* step does to it is a step of SpaNavigate, so its part of the invariant is  *)
(* proved once for those steps.                                             *)
(***************************************************************************)
EXTENDS StudioInvariant, TLAPS

\* What a step of the page, of its scripts or of a subscriber does to the hook.
Navigates ==
  \/ \E u \in Page : Push(u) \/ Slip(u)
  \/ \E s \in Subscriber : Check(s) \/ Subscribe(s) \/ Dispose(s)
  \/ Wrap
  \/ Unwrap
  \/ UNCHANGED navigation

\* The part of TypeOK that is about the hook.
HookTypes ==
  /\ push \in Seq(Layer)
  /\ patched \in BOOLEAN /\ cut \in BOOLEAN
  /\ callbacks \subseteq Subscriber
  /\ lastHref \in [Subscriber -> Page \cup {None}]
  /\ href \in Page

HookInv == HookTypes /\ PatchInv /\ SubscribersAreHooked

-------------------------------------------------------------------------------
(* Wrappers.                                                                  *)

\* A wrapper is installed where it stands in the sequence.
LEMMA HookedPlace == Hooked <=> \E i \in DOMAIN push : push[i] = "ours"
  BY DEF Hooked, Range

LEMMA HookedPlaceNext == Hooked' <=> \E i \in DOMAIN push' : push'[i] = "ours"
  BY DEF Hooked, Range

\* One more wrapper changes nothing below it (Wrap, and a new patch).
LEMMA Outermost ==
  ASSUME push \in Seq(Layer), NEW layer \in Layer
  PROVE  /\ Append(push, layer) \in Seq(Layer)
         /\ DOMAIN Append(push, layer) = 1 .. Len(push) + 1
         /\ \A i \in DOMAIN push : Append(push, layer)[i] = push[i]
         /\ Append(push, layer)[Len(push) + 1] = layer
         /\ DOMAIN push = 1 .. Len(push)
         /\ Len(push) \in Nat
  OBVIOUS

\* What was installed before a wrapper.
LEMMA BelowIs ==
  ASSUME push \in Seq(Layer), NEW i \in DOMAIN push
  PROVE  /\ Below(i) \in Seq(Layer)
         /\ DOMAIN Below(i) = 1 .. (i - 1)
         /\ \A k \in 1 .. (i - 1) : k \in DOMAIN push /\ Below(i)[k] = push[k]
  BY DEF Below

\* A function put back holds our wrapper if the wrapper is below the place.
LEMMA HookedBelow ==
  ASSUME push \in Seq(Layer), NEW i \in DOMAIN push
  PROVE  "ours" \in Range(Below(i)) <=> \E k \in 1 .. (i - 1) : push[k] = "ours"
  BY BelowIs DEF Range

\* When our wrapper is the outermost, what dispose puts back is all that is below.
LEMMA OriginalIsBelow ==
  ASSUME HookTypes, PatchInv, OursIsOutermost
  PROVE  Len(push) \in DOMAIN push /\ Original = Below(Len(push))
<1>1. Len(push) \in DOMAIN push /\ push[Len(push)] = "ours"
  <2>1. push \in Seq(Layer) /\ push # <<>> /\ Last(push) = "ours"
    BY DEF HookTypes, OursIsOutermost
  <2>2. Len(push) \in Nat /\ Len(push) # 0 /\ DOMAIN push = 1 .. Len(push)
    BY <2>1
  <2> QED  BY <2>1, <2>2 DEF Last
<1>2. \A k \in DOMAIN push : push[k] = "ours" => k = Len(push)
  BY <1>1 DEF PatchInv
<1>3. (CHOOSE i \in DOMAIN push : push[i] = "ours") = Len(push)
  BY <1>1, <1>2
<1> QED  BY <1>1, <1>3 DEF Original

\* A wrapper that stays behind is no longer ours, and the others are where they were.
LEMMA ForgottenIs ==
  ASSUME push \in Seq(Layer)
  PROVE  /\ Forgotten \in Seq(Layer)
         /\ DOMAIN Forgotten = DOMAIN push
         /\ \A i \in DOMAIN push :
              Forgotten[i] # "ours" /\ (push[i] = "theirs" => Forgotten[i] = "theirs")
<1>1. DOMAIN push = 1 .. Len(push) /\ Len(push) \in Nat
  OBVIOUS
<1>2. Forgotten \in [1 .. Len(push) -> Layer]
  BY <1>1 DEF Forgotten, Layer
<1>3. Forgotten \in Seq(Layer)
  BY <1>1, <1>2
<1> QED  BY <1>3 DEF Forgotten

-------------------------------------------------------------------------------
(* The steps of the hook.                                                     *)

LEMMA MoveKeepsHook ==
  ASSUME HookInv, NEW u \in Page, Push(u) \/ Slip(u)
  PROVE  HookInv'
<1>1. /\ UNCHANGED <<push, patched, callbacks, cut>>
      /\ href' = u
      /\ \E subs : lastHref' = [s \in Subscriber |->
                      IF s \in Told(subs, u) THEN u ELSE lastHref[s]]
  BY DEF Push, Slip, MoveTo, Emit
<1>2. lastHref' \in [Subscriber -> Page \cup {None}]
  BY <1>1 DEF HookInv, HookTypes
<1>3. HookTypes'
  BY <1>1, <1>2 DEF HookInv, HookTypes
<1> QED  BY <1>1, <1>3 DEF HookInv, PatchInv, SubscribersAreHooked, Hooked

LEMMA CheckKeepsHook ==
  ASSUME HookInv, NEW s \in Subscriber, Check(s)
  PROVE  HookInv'
<1>1. /\ UNCHANGED <<href, push, patched, callbacks, cut>>
      /\ lastHref' = [r \in Subscriber |->
           IF r \in Told({s}, href) THEN href ELSE lastHref[r]]
  BY DEF Check, Emit
<1>2. lastHref' \in [Subscriber -> Page \cup {None}]
  BY <1>1 DEF HookInv, HookTypes
<1>3. HookTypes'
  BY <1>1, <1>2 DEF HookInv, HookTypes
<1> QED  BY <1>1, <1>3 DEF HookInv, PatchInv, SubscribersAreHooked, Hooked

LEMMA WrapKeepsHook ==
  ASSUME HookInv, Wrap
  PROVE  HookInv'
<1>1. /\ push' = Append(push, "theirs")
      /\ UNCHANGED <<href, patched, callbacks, lastHref, cut>>
  BY DEF Wrap
<1>2. push \in Seq(Layer) /\ "theirs" \in Layer
  BY DEF HookInv, HookTypes, Layer
<1>3. /\ push' \in Seq(Layer)
      /\ DOMAIN push' = 1 .. Len(push) + 1
      /\ \A i \in DOMAIN push : push'[i] = push[i]
      /\ push'[Len(push) + 1] = "theirs"
      /\ DOMAIN push = 1 .. Len(push) /\ Len(push) \in Nat
  BY <1>1, <1>2, Outermost
<1>4. \A i \in DOMAIN push' : push'[i] = "ours" => i \in DOMAIN push /\ push[i] = "ours"
  BY <1>3
<1>5. Hooked' <=> Hooked
  BY <1>3, <1>4, HookedPlace, HookedPlaceNext
<1>6. HookTypes'
  BY <1>1, <1>3 DEF HookInv, HookTypes
<1>7. PatchInv'
  BY <1>1, <1>4, <1>5 DEF HookInv, PatchInv
<1>8. SubscribersAreHooked'
  BY <1>1, <1>5 DEF HookInv, SubscribersAreHooked
<1> QED  BY <1>6, <1>7, <1>8 DEF HookInv

LEMMA UnwrapKeepsHook ==
  ASSUME HookInv, Unwrap
  PROVE  HookInv'
<1>1. PICK i \in DOMAIN push :
        /\ push' = Below(i)
        /\ cut' = (cut \/ (Hooked /\ "ours" \notin Range(Below(i))))
        /\ UNCHANGED <<href, patched, callbacks, lastHref>>
  BY DEF Unwrap
<1>2. push \in Seq(Layer)
  BY DEF HookInv, HookTypes
<1>3. /\ push' \in Seq(Layer)
      /\ DOMAIN push' = 1 .. (i - 1)
      /\ \A k \in DOMAIN push' : k \in DOMAIN push /\ push'[k] = push[k]
  BY <1>1, <1>2, BelowIs
<1>4. Hooked' <=> "ours" \in Range(Below(i))
  BY <1>1 DEF Hooked
<1>5. Hooked' => Hooked
  BY <1>3, HookedPlace, HookedPlaceNext
<1>6. HookTypes'
  BY <1>1, <1>3 DEF HookInv, HookTypes
<1>7. PatchInv'
  BY <1>1, <1>3, <1>5 DEF HookInv, PatchInv
<1>8. SubscribersAreHooked'
  BY <1>1, <1>4 DEF HookInv, SubscribersAreHooked
<1> QED  BY <1>6, <1>7, <1>8 DEF HookInv

\* A new patch is the only one, since none is left of the patch before.
LEMMA SubscribeKeepsHook ==
  ASSUME HookInv, NEW s \in Subscriber, Subscribe(s)
  PROVE  HookInv'
<1>1. /\ push' = IF patched THEN push ELSE Append(push, "ours")
      /\ patched' = TRUE
      /\ callbacks' = callbacks \cup {s}
      /\ lastHref' = [lastHref EXCEPT ![s] = href]
      /\ UNCHANGED <<href, cut>>
  BY DEF Subscribe
<1>2. push \in Seq(Layer) /\ "ours" \in Layer
  BY DEF HookInv, HookTypes, Layer
<1>3. lastHref' \in [Subscriber -> Page \cup {None}]
  BY <1>1 DEF HookInv, HookTypes
<1>4. CASE patched
  <2>1. push' = push
    BY <1>1, <1>4
  <2>2. HookTypes'
    BY <1>1, <1>3, <2>1 DEF HookInv, HookTypes
  <2>3. PatchInv'
    BY <1>1, <2>1 DEF HookInv, PatchInv
  <2>4. SubscribersAreHooked'
    BY <1>1, <1>4, <2>1 DEF HookInv, PatchInv, SubscribersAreHooked, Hooked
  <2> QED  BY <2>2, <2>3, <2>4 DEF HookInv
<1>5. CASE ~patched
  <2>1. push' = Append(push, "ours")
    BY <1>1, <1>5
  <2>2. /\ push' \in Seq(Layer)
        /\ DOMAIN push' = 1 .. Len(push) + 1
        /\ \A i \in DOMAIN push : push'[i] = push[i]
        /\ push'[Len(push) + 1] = "ours"
        /\ DOMAIN push = 1 .. Len(push) /\ Len(push) \in Nat
    BY <1>2, <2>1, Outermost
  <2>3. \A i \in DOMAIN push : push[i] # "ours"
    BY <1>5, HookedPlace DEF HookInv, PatchInv
  <2>4. \A i \in DOMAIN push' : push'[i] = "ours" => i = Len(push) + 1
    BY <2>2, <2>3
  <2>5. Hooked'
    BY <2>2, HookedPlaceNext
  <2>6. HookTypes'
    BY <1>1, <1>3, <2>2 DEF HookInv, HookTypes
  <2>7. PatchInv'
    BY <1>1, <2>4 DEF HookInv, PatchInv
  <2> QED  BY <2>5, <2>6, <2>7 DEF HookInv, SubscribersAreHooked
<1> QED  BY <1>4, <1>5

\* The last subscriber takes the patch with it, whether or not another script has
\* wrapped the wrapper.
LEMMA DisposeKeepsHook ==
  ASSUME HookInv, NEW s \in Subscriber, Dispose(s)
  PROVE  HookInv'
<1>1. /\ s \in callbacks
      /\ callbacks' = callbacks \ {s}
      /\ UNCHANGED <<href, lastHref>>
  BY DEF Dispose
<1>2. push \in Seq(Layer)
  BY DEF HookInv, HookTypes
<1>3. CASE IsLast(s)
  <2>1. /\ push' = IF OursIsOutermost THEN Original ELSE Forgotten
        /\ patched' = FALSE
        /\ cut' = FALSE
        /\ callbacks' = {}
    BY <1>1, <1>3 DEF Dispose, IsLast
  <2>2. push' \in Seq(Layer) /\ \A k \in DOMAIN push' : push'[k] # "ours"
    <3>1. CASE OursIsOutermost
      <4>1. /\ Len(push) \in DOMAIN push
            /\ push' = Below(Len(push))
        BY <2>1, <3>1, OriginalIsBelow DEF HookInv
      <4>2. \A k \in DOMAIN push : push[k] = "ours" => k = Len(push)
        <5>1. push # <<>> /\ push[Len(push)] = "ours"
          BY <3>1 DEF OursIsOutermost, Last
        <5> QED  BY <4>1, <5>1 DEF HookInv, PatchInv
      <4>3. /\ push' \in Seq(Layer)
            /\ DOMAIN push' = 1 .. (Len(push) - 1)
            /\ \A k \in 1 .. (Len(push) - 1) : k \in DOMAIN push /\ push'[k] = push[k]
        BY <1>2, <4>1, BelowIs
      <4>4. Len(push) \notin 1 .. (Len(push) - 1)
        BY <1>2
      <4> QED  BY <4>2, <4>3, <4>4
    <3>2. CASE ~OursIsOutermost
      BY <1>2, <2>1, <3>2, ForgottenIs
    <3> QED  BY <3>1, <3>2
  <2>3. ~Hooked'
    BY <2>2, HookedPlaceNext
  <2>4. HookTypes'
    BY <1>1, <2>1, <2>2 DEF HookInv, HookTypes
  <2>5. PatchInv'
    BY <2>1, <2>2, <2>3 DEF PatchInv
  <2> QED  BY <2>1, <2>4, <2>5 DEF HookInv, SubscribersAreHooked
<1>4. CASE ~IsLast(s)
  <2>1. UNCHANGED <<push, patched, cut>>
    BY <1>4 DEF Dispose
  <2>2. callbacks' # {} /\ callbacks # {}
    BY <1>1, <1>4 DEF IsLast
  <2>3. HookTypes'
    BY <1>1, <2>1 DEF HookInv, HookTypes
  <2>4. PatchInv'
    BY <2>1, <2>2 DEF HookInv, PatchInv, Hooked
  <2>5. SubscribersAreHooked'
    BY <2>1, <2>2 DEF HookInv, SubscribersAreHooked, Hooked
  <2> QED  BY <2>3, <2>4, <2>5 DEF HookInv
<1> QED  BY <1>3, <1>4

LEMMA NavigationKeepsHook ==
  ASSUME HookInv, Navigates
  PROVE  HookInv'
<1>1. CASE \E u \in Page : Push(u) \/ Slip(u)
  BY <1>1, MoveKeepsHook
<1>2. CASE \E s \in Subscriber : Check(s) \/ Subscribe(s) \/ Dispose(s)
  BY <1>2, CheckKeepsHook, SubscribeKeepsHook, DisposeKeepsHook
<1>3. CASE Wrap
  BY <1>3, WrapKeepsHook
<1>4. CASE Unwrap
  BY <1>4, UnwrapKeepsHook
<1>5. CASE UNCHANGED navigation
  BY <1>5 DEF navigation, HookInv, HookTypes, PatchInv, SubscribersAreHooked, Hooked
<1> QED  BY <1>1, <1>2, <1>3, <1>4, <1>5 DEF Navigates

-------------------------------------------------------------------------------
(* The steps of the panel.                                                    *)

\* The part of the invariant that is about the panel.
PanelTypes ==
  /\ route \in Page
  /\ studio \in {"new", "loading", "live", "destroyed"}
  /\ busy \in {"no", "prefs", "sent"}
  /\ on \in BOOLEAN /\ stored \in BOOLEAN /\ timer \in BOOLEAN
  /\ surplus \in Int

PanelInv == PanelTypes /\ IdleInv /\ SeenInv /\ RouteInv /\ DueInv

LinkType == canonical \in Linked \cup {None}

LEMMA Parts == IInv <=> HookInv /\ PanelInv /\ LinkType
  BY DEF IInv, TypeOK, HookInv, HookTypes, PanelInv, PanelTypes, LinkType

\* Every step of the panel or of the page is a step of the hook, or leaves it alone.
LEMMA NextNavigates ==
  ASSUME [Next]_vars
  PROVE  Navigates
<1>1. CASE PageStep
  BY <1>1 DEF PageStep, Pushed, Slipped, Checked, Relink, Navigates
<1>2. CASE StudioStep
  <2>1. CASE Mount
    BY <2>1, StudioAssumption DEF Mount, Navigates
  <2>2. CASE Destroy
    BY <2>2, StudioAssumption DEF Destroy, Navigates
  <2>3. CASE Loaded \/ ToggleBox \/ ChangeOther \/ ReadAgain \/ OtherTab
    BY <2>3 DEF Loaded, ToggleBox, ChangeOther, ReadAgain, OtherTab, document, Navigates
  <2>4. CASE CaptureNow \/ TimerFires \/ Extract \/ Settle
    BY <2>4 DEF CaptureNow, TimerFires, Extract, Settle, document, Navigates
  <2> QED  BY <1>2, <2>1, <2>2, <2>3, <2>4 DEF StudioStep
<1>3. CASE UNCHANGED vars
  BY <1>3 DEF vars, document, Navigates
<1> QED  BY <1>1, <1>2, <1>3 DEF Next

\* A new page: nothing has been captured by the timer since, and at most the timer of
\* the page before and the page's own are to come.
LEMMA MoveKeepsPanel ==
  ASSUME IInv, NEW u \in Page, Pushed(u) \/ Slipped(u)
  PROVE  PanelInv'
<1>1. /\ href' = u
      /\ UNCHANGED <<studio, stored, on, busy>>
      /\ surplus' = 0
      /\ seen' = IF busy = "prefs" THEN seen \cup {u} ELSE seen
      /\ \/ route' = u /\ timer' = (Live /\ on)
         \/ UNCHANGED <<route, timer>>
  BY DEF Pushed, Slipped, Push, Slip, MoveTo, Moved, Listen, Refresh, Schedule, settings
<1>2. PanelTypes /\ IdleInv /\ RouteInv
  BY Parts DEF PanelInv
<1>3. PanelTypes'
  <2>1. timer' \in BOOLEAN
    BY <1>1, <1>2 DEF PanelTypes, Live
  <2>2. route' \in Page
    BY <1>1, <1>2 DEF PanelTypes
  <2> QED  BY <1>1, <1>2, <2>1, <2>2 DEF PanelTypes
<1>4. IdleInv'
  <2>1. timer' => Live
    BY <1>1, <1>2, Zenon DEF IdleInv
  <2>2. Live' <=> Live
    BY <1>1 DEF Live
  <2>3. (studio' \in {"new", "loading"}) => busy' = "no" /\ surplus' = 0
    BY <1>1, <1>2 DEF IdleInv
  <2> QED  BY <2>1, <2>2, <2>3 DEF IdleInv
<1>5. SeenInv' /\ RouteInv'
  BY <1>1, <1>2 DEF SeenInv, RouteInv
<1>6. DueInv'
  BY <1>1 DEF DueInv
<1> QED  BY <1>3, <1>4, <1>5, <1>6 DEF PanelInv

\* What the panel is told of is paid for by its timer.
LEMMA CheckedKeepsPanel ==
  ASSUME IInv, NEW s \in Subscriber, Checked(s)
  PROVE  PanelInv'
<1>1. /\ UNCHANGED <<href, callbacks, studio, stored, on, busy, seen, surplus>>
      /\ s \in callbacks
      /\ Told({s}, href) # {}
      /\ lastHref' = [r \in Subscriber |->
           IF r \in Told({s}, href) THEN href ELSE lastHref[r]]
  BY DEF Checked, Check, Emit, settings, capture, history
<1>2. lastHref[s] # href
  BY <1>1 DEF Told, Differs
<1>3. PanelInv /\ HookTypes
  BY Parts DEF HookInv
<1>4. CASE s = "studio"
  <2>1. route' = href /\ timer' = (Live /\ on)
    BY <1>1, <1>4 DEF Checked, Listen, Refresh, Schedule
  <2>2. PanelTypes'
    BY <1>1, <1>3, <2>1 DEF PanelInv, PanelTypes, HookTypes, Live
  <2>3. IdleInv' /\ SeenInv' /\ RouteInv'
    BY <1>1, <1>3, <2>1 DEF PanelInv, IdleInv, SeenInv, RouteInv, Live
  <2>4. Untold /\ ~Untold'
    <3>1. lastHref'["studio"] = href
      BY <1>1, <1>2, <1>4 DEF Told, Differs
    <3> QED  BY <1>1, <1>2, <1>4, <3>1 DEF Untold
  <2>5. DueInv'
    BY <1>1, <1>3, <2>4 DEF PanelInv, PanelTypes, DueInv
  <2> QED  BY <2>2, <2>3, <2>5 DEF PanelInv
<1>5. CASE s # "studio"
  <2>1. UNCHANGED <<route, timer>>
    BY <1>5 DEF Checked
  <2>2. lastHref'["studio"] = lastHref["studio"]
    BY <1>1, <1>3, <1>5, StudioAssumption DEF Told, HookTypes
  <2>3. Untold' <=> Untold
    BY <1>1, <2>2 DEF Untold
  <2>4. PanelTypes' /\ IdleInv' /\ SeenInv' /\ RouteInv'
    BY <1>1, <1>3, <2>1 DEF PanelInv, PanelTypes, IdleInv, SeenInv, RouteInv, Live
  <2>5. DueInv'
    BY <1>1, <1>3, <2>1, <2>3 DEF PanelInv, PanelTypes, DueInv
  <2> QED  BY <2>4, <2>5 DEF PanelInv
<1> QED  BY <1>4, <1>5

\* Other scripts and other subscribers: the panel is where it was.
LEMMA OthersKeepPanel ==
  ASSUME IInv, UNCHANGED panel,
         Wrap \/ Unwrap \/ (\E s \in Subscriber \ {"studio"} : Subscribe(s) \/ Dispose(s))
  PROVE  PanelInv'
<1>1. UNCHANGED <<studio, stored, on, route, timer, busy, seen, surplus>>
  BY DEF panel, settings, capture, history
<1>2. href' = href
  BY DEF Wrap, Unwrap, Subscribe, Dispose
<1>3. PanelInv /\ HookTypes
  BY Parts DEF HookInv
<1>4. "studio" \in callbacks' <=> "studio" \in callbacks
  BY DEF Wrap, Unwrap, Subscribe, Dispose
<1>5. lastHref'["studio"] = lastHref["studio"]
  BY <1>3, StudioAssumption DEF Wrap, Unwrap, Subscribe, Dispose, HookTypes
<1>6. Untold' <=> Untold
  BY <1>2, <1>4, <1>5 DEF Untold
<1>7. PanelTypes' /\ IdleInv' /\ SeenInv' /\ RouteInv'
  BY <1>1, <1>2, <1>3 DEF PanelInv, PanelTypes, IdleInv, SeenInv, RouteInv, Live
<1>8. DueInv'
  BY <1>1, <1>3, <1>6 DEF PanelInv, PanelTypes, DueInv
<1> QED  BY <1>7, <1>8 DEF PanelInv

\* The page gets another canonical link, or nothing happens.
LEMMA RestKeepsPanel ==
  ASSUME IInv, UNCHANGED <<navigation, panel>>
  PROVE  PanelInv'
<1>1. PanelInv
  BY Parts
<1> QED  BY <1>1 DEF navigation, panel, settings, capture, history, PanelInv,
         PanelTypes, IdleInv, SeenInv, RouteInv, DueInv, Untold, Live

LEMMA LinkTypeStays ==
  ASSUME LinkType, [Next]_vars
  PROVE  LinkType'
<1>1. UNCHANGED canonical \/ Relink
  BY DEF Next, vars, document, PageStep, Pushed, Slipped, Moved, Checked, StudioStep,
         Mount, Loaded, Destroy, ToggleBox, ChangeOther, ReadAgain, OtherTab,
         CaptureNow, TimerFires, Extract, Settle
<1> QED  BY <1>1 DEF LinkType, Relink

LEMMA MountKeepsPanel ==
  ASSUME IInv, Mount
  PROVE  PanelInv'
<1>1. /\ studio = "new" /\ studio' = "loading"
      /\ UNCHANGED <<href, stored, on, route, timer, busy, seen, surplus>>
      /\ lastHref' = [lastHref EXCEPT !["studio"] = href]
  BY DEF Mount, Subscribe, settings, capture, history
<1>2. PanelInv /\ HookTypes
  BY Parts DEF HookInv
<1>3. lastHref'["studio"] = href'
  BY <1>1, <1>2, StudioAssumption DEF HookTypes
<1>4. ~Untold'
  BY <1>3 DEF Untold
<1>5. PanelTypes' /\ IdleInv' /\ SeenInv' /\ RouteInv'
  BY <1>1, <1>2 DEF PanelInv, PanelTypes, IdleInv, SeenInv, RouteInv, Live
<1>6. DueInv'
  BY <1>1, <1>2, <1>4 DEF PanelInv, PanelTypes, DueInv
<1> QED  BY <1>5, <1>6 DEF PanelInv

LEMMA LoadedKeepsPanel ==
  ASSUME IInv, Loaded
  PROVE  PanelInv'
<1>1. /\ studio = "loading" /\ studio' = "live"
      /\ on' = stored /\ timer' = stored /\ route' = href'
      /\ UNCHANGED <<href, callbacks, lastHref, stored, busy, seen, surplus>>
  BY DEF Loaded, Schedule, Refresh, document, navigation, capture, history
<1>2. PanelInv /\ HookTypes
  BY Parts DEF HookInv
<1>3. busy = "no" /\ surplus = 0
  BY <1>1, <1>2 DEF PanelInv, IdleInv
<1>4. PanelTypes' /\ IdleInv' /\ SeenInv' /\ RouteInv'
  BY <1>1, <1>2, <1>3
     DEF PanelInv, PanelTypes, HookTypes, IdleInv, SeenInv, RouteInv, Live
<1>5. DueInv'
  BY <1>1, <1>3 DEF DueInv
<1> QED  BY <1>4, <1>5 DEF PanelInv

\* The timer dies with the panel, and nobody tells it of the page any more.
LEMMA DestroyKeepsPanel ==
  ASSUME IInv, Destroy
  PROVE  PanelInv'
<1>1. /\ studio' = "destroyed" /\ timer' = FALSE
      /\ UNCHANGED <<href, stored, on, route, busy, seen, surplus>>
      /\ callbacks' = callbacks \ {"studio"}
  BY DEF Destroy, Dispose, settings, capture, history
<1>2. PanelInv
  BY Parts
<1>3. ~Untold'
  BY <1>1 DEF Untold
<1>4. PanelTypes' /\ IdleInv' /\ SeenInv' /\ RouteInv'
  BY <1>1, <1>2 DEF PanelInv, PanelTypes, IdleInv, SeenInv, RouteInv, Live
<1>5. DueInv'
  BY <1>1, <1>2, <1>3 DEF PanelInv, PanelTypes, DueInv
<1> QED  BY <1>4, <1>5 DEF PanelInv

\* The checkbox sets the timer anew, and pays for it.
LEMMA ToggleKeepsPanel ==
  ASSUME IInv, ToggleBox
  PROVE  PanelInv'
<1>1. /\ Live
      /\ on' = ~on /\ stored' = ~on /\ timer' = ~on
      /\ surplus' = surplus - 1
      /\ UNCHANGED <<href, callbacks, lastHref, studio, route, busy, seen>>
  BY DEF ToggleBox, Persist, Schedule, document, navigation, capture
<1>2. PanelInv
  BY Parts
<1>3. Untold' <=> Untold
  BY <1>1 DEF Untold
<1>4. PanelTypes' /\ IdleInv' /\ SeenInv' /\ RouteInv'
  BY <1>1, <1>2 DEF PanelInv, PanelTypes, IdleInv, SeenInv, RouteInv, Live
<1>5. DueInv'
  BY <1>1, <1>2, <1>3 DEF PanelInv, PanelTypes, DueInv
<1> QED  BY <1>4, <1>5 DEF PanelInv

LEMMA SettingsKeepPanel ==
  ASSUME IInv, ChangeOther \/ ReadAgain \/ OtherTab
  PROVE  PanelInv'
<1>1. PanelInv
  BY Parts
<1>2. UNCHANGED <<href, callbacks, lastHref, studio, route, timer, busy, seen, surplus>>
  BY DEF ChangeOther, ReadAgain, OtherTab, document, navigation, capture, history
<1>3. on' \in BOOLEAN /\ stored' \in BOOLEAN
  BY <1>1 DEF ChangeOther, ReadAgain, OtherTab, Persist, PanelInv, PanelTypes
<1>4. PanelTypes' /\ IdleInv' /\ SeenInv' /\ RouteInv'
  BY <1>1, <1>2, <1>3 DEF PanelInv, PanelTypes, IdleInv, SeenInv, RouteInv, Live
<1>5. DueInv'
  BY <1>1, <1>2 DEF PanelInv, DueInv, Untold
<1> QED  BY <1>4, <1>5 DEF PanelInv

\* A capture reads the route anew.
LEMMA BeginKeepsPanel ==
  ASSUME IInv, UNCHANGED navigation, Begin, studio' = studio, Live,
         surplus' \in Int, DueInv', timer' \in BOOLEAN
  PROVE  PanelInv'
<1>1. /\ busy' = "prefs"
      /\ route' = href' /\ href' = href
      /\ seen' = {href}
      /\ on' = on /\ stored' = on
  BY DEF Begin, RouteOfCapture, Refresh, Persist, navigation
<1>2. PanelInv /\ HookTypes
  BY Parts DEF HookInv
<1>3. PanelTypes'
  BY <1>1, <1>2 DEF PanelInv, PanelTypes, HookTypes
<1>4. IdleInv' /\ SeenInv' /\ RouteInv'
  BY <1>1 DEF IdleInv, SeenInv, RouteInv, Live
<1> QED  BY <1>3, <1>4 DEF PanelInv

LEMMA CaptureNowKeepsPanel ==
  ASSUME IInv, CaptureNow
  PROVE  PanelInv'
<1>1. Live /\ Begin /\ UNCHANGED <<navigation, studio, timer, surplus>>
  BY DEF CaptureNow, document, history
<1>2. PanelInv
  BY Parts
<1>3. DueInv' /\ surplus' \in Int /\ timer' \in BOOLEAN
  BY <1>1, <1>2 DEF PanelInv, PanelTypes, DueInv, Untold, navigation
<1> QED  BY <1>1, <1>3, BeginKeepsPanel

\* A capture by the timer takes the place of the timer.
LEMMA TimerKeepsPanel ==
  ASSUME IInv, TimerFires
  PROVE  PanelInv'
<1>1. timer /\ timer' = FALSE /\ UNCHANGED <<navigation, studio>>
  BY DEF TimerFires, document
<1>2. PanelInv
  BY Parts
<1>3. Live
  BY <1>1, <1>2 DEF PanelInv, IdleInv
<1>4. Untold' <=> Untold
  BY <1>1 DEF Untold, navigation
<1>5. CASE busy = "no"
  <2>1. Begin /\ surplus' = surplus + 1
    BY <1>5 DEF TimerFires
  <2>2. DueInv'
    BY <1>1, <1>2, <1>4, <2>1 DEF PanelInv, PanelTypes, DueInv
  <2>3. surplus' \in Int
    BY <1>2, <2>1 DEF PanelInv, PanelTypes
  <2>4. timer' \in BOOLEAN
    BY <1>1
  <2> QED  BY <1>1, <1>3, <2>1, <2>2, <2>3, <2>4, BeginKeepsPanel
<1>6. CASE busy # "no"
  <2>1. UNCHANGED <<stored, on, route, busy, seen, surplus>>
    BY <1>6 DEF TimerFires, settings, capture
  <2>2. DueInv'
    BY <1>1, <1>2, <1>4, <2>1 DEF PanelInv, PanelTypes, DueInv
  <2>3. PanelTypes' /\ IdleInv' /\ SeenInv' /\ RouteInv'
    BY <1>1, <1>2, <2>1
       DEF PanelInv, PanelTypes, IdleInv, SeenInv, RouteInv, Live, navigation
  <2> QED  BY <2>2, <2>3 DEF PanelInv
<1> QED  BY <1>5, <1>6

LEMMA SendingKeepsPanel ==
  ASSUME IInv, Extract \/ Settle
  PROVE  PanelInv'
<1>1. PanelInv
  BY Parts
<1>2. /\ busy # "no" /\ busy' \in {"no", "sent"}
      /\ UNCHANGED <<href, callbacks, lastHref, studio, stored, on, route, timer, surplus>>
  BY DEF Extract, Settle, document, navigation, settings, history
<1>3. PanelTypes' /\ IdleInv' /\ SeenInv' /\ RouteInv'
  BY <1>1, <1>2 DEF PanelInv, PanelTypes, IdleInv, SeenInv, RouteInv, Live
<1>4. DueInv'
  BY <1>1, <1>2 DEF PanelInv, DueInv, Untold
<1> QED  BY <1>3, <1>4 DEF PanelInv

-------------------------------------------------------------------------------
(* The invariant.                                                             *)

LEMMA InitHolds == Init => IInv
<1> SUFFICES ASSUME Init PROVE HookInv /\ PanelInv /\ LinkType
  BY Parts
<1>1. PICK u \in Page : NavigationInit(u) /\ route = u
  BY DEF Init
<1>2. callbacks = {} /\ push = <<>> /\ patched = FALSE /\ cut = FALSE /\ href \in Page
  BY <1>1 DEF NavigationInit
<1>3. HookTypes
  <2>1. patched \in BOOLEAN /\ cut \in BOOLEAN
    BY <1>2
  <2>2. push \in Seq(Layer)
    BY <1>2
  <2>3. lastHref \in [Subscriber -> Page \cup {None}]
    BY <1>1 DEF NavigationInit
  <2> QED  BY <1>2, <2>1, <2>2, <2>3 DEF HookTypes
<1>4. HookInv
  <2>1. ~Hooked /\ ~patched /\ ~cut
    BY <1>2, HookedPlace
  <2>2. DOMAIN push = {}
    BY <1>2
  <2> QED  BY <1>2, <1>3, <2>1, <2>2 DEF HookInv, PatchInv, SubscribersAreHooked
<1>5. PanelTypes
  <2>1. on \in BOOLEAN /\ stored \in BOOLEAN /\ timer \in BOOLEAN
    BY DEF Init
  <2> QED  BY <1>1, <2>1 DEF Init, PanelTypes
<1>6. IdleInv /\ SeenInv /\ RouteInv
  <2>1. ~timer
    BY DEF Init
  <2> QED  BY <2>1 DEF Init, IdleInv, SeenInv, RouteInv
<1>7. ~Untold
  BY <1>2 DEF Untold
<1>8. DueInv
  <2>1. ~timer /\ surplus = 0
    BY DEF Init
  <2> QED  BY <1>7, <2>1 DEF DueInv
<1>9. LinkType
  BY DEF Init, LinkType
<1> QED  BY <1>4, <1>5, <1>6, <1>8, <1>9 DEF PanelInv

LEMMA StepKeeps == IInv /\ [Next]_vars => IInv'
<1> SUFFICES ASSUME IInv, [Next]_vars PROVE PanelInv'
  <2>1. ASSUME IInv, [Next]_vars, PanelInv' PROVE IInv'
    <3>1. HookInv
      BY <2>1, Parts
    <3>2. HookInv'
      BY <2>1, <3>1, NextNavigates, NavigationKeepsHook
    <3>3. LinkType'
      BY <2>1, LinkTypeStays, Parts
    <3> QED  BY <2>1, <3>2, <3>3
             DEF IInv, TypeOK, HookInv, HookTypes, PanelInv, PanelTypes, LinkType
  <2> QED  BY <2>1
<1>1. CASE PageStep
  <2>1. CASE \E u \in Page : Pushed(u) \/ Slipped(u)
    BY <2>1, MoveKeepsPanel
  <2>2. CASE \E s \in Subscriber : Checked(s)
    BY <2>2, CheckedKeepsPanel
  <2>3. CASE /\ \/ Wrap
                \/ Unwrap
                \/ \E s \in Subscriber \ {"studio"} : Subscribe(s) \/ Dispose(s)
             /\ UNCHANGED panel
    BY <2>3, OthersKeepPanel
  <2>4. CASE UNCHANGED <<navigation, panel>>
    BY <2>4, RestKeepsPanel
  <2> QED  BY <1>1, <2>1, <2>2, <2>3, <2>4 DEF PageStep, Relink
<1>2. CASE StudioStep
  <2>1. CASE Mount \/ Loaded \/ Destroy
    BY <2>1, MountKeepsPanel, LoadedKeepsPanel, DestroyKeepsPanel
  <2>2. CASE ToggleBox \/ ChangeOther \/ ReadAgain \/ OtherTab
    BY <2>2, ToggleKeepsPanel, SettingsKeepPanel
  <2>3. CASE CaptureNow \/ TimerFires \/ Extract \/ Settle
    BY <2>3, CaptureNowKeepsPanel, TimerKeepsPanel, SendingKeepsPanel
  <2> QED  BY <1>2, <2>1, <2>2, <2>3 DEF StudioStep
<1>3. CASE UNCHANGED vars
  BY <1>3, RestKeepsPanel DEF vars, document
<1> QED  BY <1>1, <1>2, <1>3 DEF Next

\* The invariant of the panel and its hook holds in every reachable state, for any
\* set of pages and of subscribers and whatever the other scripts do.
THEOREM Inductive == Spec => []IInv
  BY InitHolds, StepKeeps, PTL DEF Spec

\* Every variable of the panel and of the hook keeps its type.
THEOREM TypeCorrect == Spec => []TypeOK
<1>1. IInv => TypeOK
  BY DEF IInv
<1> QED  BY <1>1, Inductive, PTL

\* While somebody is subscribed a call of pushState is noticed, unless another script
\* put back a function from before the patch.
THEOREM Noticed == Spec => []SubscribersAreHooked
<1>1. IInv => SubscribersAreHooked
  BY DEF IInv
<1> QED  BY <1>1, Inductive, PTL

\* A snapshot names a URL the page had when the capture began or later, or the one its
\* canonical link names.
THEOREM Fresh == Spec => SnapshotIsFresh
<1>1. IInv /\ [Next]_vars =>
        [busy = "prefs" /\ busy' = "sent" =>
           SnapshotUrl \in seen \cup ({canonical} \ {None})]_vars
  BY DEF IInv, RouteInv, SnapshotUrl
<1> QED  BY <1>1, Inductive, PTL DEF Spec, SnapshotIsFresh

\* A page is captured by the timer at most twice while it is shown, and once more for
\* every change of the checkbox.
THEOREM AtMostTwice == Spec => []FewAutoCaptures
<1>1. IInv => FewAutoCaptures
  BY DEF IInv, TypeOK, DueInv, FewAutoCaptures
<1> QED  BY <1>1, Inductive, PTL

\* No step but the other script's own takes its wrapper away.
LEMMA StepSparesOthers ==
  IInv /\ [Next]_vars => [Theirs(push) \subseteq Theirs(push') \/ Unwrap]_navigation
<1> SUFFICES ASSUME IInv, Navigates, ~Unwrap
             PROVE  Theirs(push) \subseteq Theirs(push')
  BY NextNavigates
<1>1. HookInv
  BY Parts
<1>2. push \in Seq(Layer)
  BY <1>1 DEF HookInv, HookTypes
<1>3. CASE push' = push
  BY <1>3
<1>4. ASSUME NEW layer \in Layer, push' = Append(push, layer)
      PROVE  Theirs(push) \subseteq Theirs(push')
  BY <1>2, <1>4, Outermost DEF Theirs
<1>5. CASE Wrap
  BY <1>4, <1>5 DEF Wrap, Layer
<1>6. CASE \E s \in Subscriber : Subscribe(s)
  BY <1>3, <1>4, <1>6 DEF Subscribe, Layer
<1>7. ASSUME NEW s \in Subscriber, Dispose(s)
      PROVE  Theirs(push) \subseteq Theirs(push')
  <2>1. CASE IsLast(s) /\ OursIsOutermost
    <3>1. Len(push) \in DOMAIN push /\ push' = Below(Len(push))
      BY <1>1, <1>7, <2>1, OriginalIsBelow DEF HookInv, Dispose
    <3>2. push[Len(push)] = "ours"
      BY <2>1 DEF OursIsOutermost, Last
    <3>3. /\ DOMAIN push' = 1 .. (Len(push) - 1)
          /\ \A k \in 1 .. (Len(push) - 1) : push'[k] = push[k]
      BY <1>2, <3>1, BelowIs
    <3>4. \A k \in DOMAIN push : k = Len(push) \/ k \in 1 .. (Len(push) - 1)
      BY <1>2
    <3> QED  BY <3>2, <3>3, <3>4 DEF Theirs
  <2>2. CASE IsLast(s) /\ ~OursIsOutermost
    <3>1. push' = Forgotten
      BY <1>7, <2>2 DEF Dispose
    <3> QED  BY <1>2, <3>1, ForgottenIs DEF Theirs
  <2>3. CASE ~IsLast(s)
    BY <1>3, <1>7, <2>3 DEF Dispose
  <2> QED  BY <2>1, <2>2, <2>3
<1>8. CASE \E u \in Page : Push(u) \/ Slip(u)
  BY <1>3, <1>8 DEF Push, Slip, MoveTo
<1>9. CASE \E s \in Subscriber : Check(s)
  BY <1>3, <1>9 DEF Check
<1>10. CASE UNCHANGED navigation
  BY <1>3, <1>10 DEF navigation
<1> QED  BY <1>5, <1>6, <1>7, <1>8, <1>9, <1>10 DEF Navigates

\* The userscript never takes another script's wrapper away.
THEOREM OthersSpared == Spec => ForeignWrappersStay
  BY Inductive, StepSparesOthers, PTL DEF Spec, ForeignWrappersStay
================================================================================
