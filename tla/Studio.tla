--------------------------------- MODULE Studio ---------------------------------
(***************************************************************************)
(* The capture panel of the userscript in one tab                            *)
(* (packages/ui/src/studio.ts): it captures the page on demand, and by        *)
(* itself 1.2 seconds after a navigation it is told of by SpaNavigate, while  *)
(* the setting autoCapture is on.  The setting is stored for all tabs; what   *)
(* decides is the copy the tab has read.                                     *)
(*                                                                         *)
(* A tab runs on one thread, so a handler is one step up to the await that    *)
(* does not continue at once.  The awaits of the storage continue among the   *)
(* other microtasks of the page, the request when the Hub answers, or never.  *)
(* The pages are http(s), where the script runs, so route.canCapture holds.   *)
(***************************************************************************)
EXTENDS SpaNavigate

CONSTANTS
  Linked,       \* the URLs that canonical links of the site name
  MaxToggles    \* bound: changes of the checkbox in this tab

ASSUME StudioAssumption == "studio" \in Subscriber /\ None \notin Linked

VARIABLES
  canonical,    \* link[rel=canonical] of the page, None if it names no http(s) URL
  studio,       \* new, loading, live, destroyed
  stored,       \* autoCapture in the storage
  on,           \* settings.autoCapture, which the checkbox of the panel shows
  route,        \* the URL in route
  timer,        \* autoTimer is set
  busy,         \* the capture under way: no, prefs (settings are stored), sent
  seen,         \* the URLs the page has had since it began
  surplus,      \* since the page moved: captures by the timer, less changes of the
                \* checkbox
  handled,      \* URLs captured or found empty so far, and those whose timer was
                \* spoilt
  toggles

document == <<navigation, canonical>>
settings == <<stored, on>>
capture == <<busy, seen>>
history == <<surplus, handled, toggles>>
panel == <<studio, settings, route, timer, capture, history>>
vars == <<document, panel>>

Live == studio = "live"

\* scheduleAutoCapture, when the setting is b.
Schedule(b) == timer' = b

\* refreshRoute.
Refresh == route' = href'

-------------------------------------------------------------------------------
(* The page moves.                                                            *)

\* The listener of onNavigate; settings are null while they are loaded.
Listen == Refresh /\ Schedule(Live /\ on)

Moved(told) ==
  /\ IF told THEN Listen ELSE UNCHANGED <<route, timer>>
  /\ seen' = IF busy = "prefs" THEN seen \cup {href'} ELSE seen
  /\ surplus' = 0
  /\ UNCHANGED <<canonical, studio, settings, busy, handled, toggles>>

Pushed(u) ==
  /\ Push(u)
  /\ Moved(Hooked /\ "studio" \in Told(callbacks, u))

Slipped(u) == Slip(u) /\ Moved(FALSE)

Checked(s) ==
  /\ Check(s)
  /\ IF s = "studio" THEN Listen ELSE UNCHANGED <<route, timer>>
  /\ UNCHANGED <<canonical, studio, settings, capture, history>>

\* Scripts of the page keep the link up to date, late, or not at all.
Relink ==
  /\ canonical' \in (Linked \cup {None}) \ {canonical}
  /\ UNCHANGED <<navigation, panel>>

-------------------------------------------------------------------------------
(* mount and destroy.                                                         *)

Mount ==
  /\ studio = "new"
  /\ studio' = "loading"
  /\ Subscribe("studio")
  /\ UNCHANGED <<canonical, settings, route, timer, capture, history>>

\* loadSettings and what follows it.
Loaded ==
  /\ studio = "loading"
  /\ studio' = "live"
  /\ on' = stored
  /\ Schedule(on')
  /\ UNCHANGED document
  /\ Refresh
  /\ UNCHANGED <<stored, capture, history>>

\* Also while the settings are loaded, which then comes to nothing.
Destroy ==
  /\ studio \in {"loading", "live"}
  /\ studio' = "destroyed"
  /\ timer' = FALSE
  /\ Dispose("studio")
  /\ UNCHANGED <<canonical, settings, route, capture, history>>

-------------------------------------------------------------------------------
(* Settings.                                                                  *)

\* persistUiPrefs: the checkbox of the tab is stored, and everything read again.
Persist(b) == stored' = b /\ on' = b

ToggleBox ==
  /\ Live
  /\ toggles < MaxToggles
  /\ toggles' = toggles + 1
  /\ surplus' = surplus - 1
  /\ Persist(~on)
  /\ Schedule(on')
  /\ UNCHANGED <<document, studio, route, capture, handled>>

\* The other checkbox or the recipe is changed.
ChangeOther ==
  /\ Live
  /\ Persist(on)
  /\ UNCHANGED <<document, studio, route, timer, capture, history>>

\* setOpen, saveHubUrl, the dock: another key is stored, and everything read again.
ReadAgain ==
  /\ Live
  /\ on' = stored
  /\ UNCHANGED <<document, studio, stored, route, timer, capture, history>>

\* The user, or a capture, in another tab.
OtherTab ==
  /\ stored' = ~stored
  /\ UNCHANGED <<document, studio, on, route, timer, capture, history>>

-------------------------------------------------------------------------------
(* capture.                                                                   *)

\* Mutant: the route is left as the last navigation set it.
RouteAsTold == route' = route

RouteOfCapture == Refresh

Begin ==
  /\ busy' = "prefs"
  /\ RouteOfCapture
  /\ seen' = {href}
  /\ Persist(on)

\* The button or the shortcut; nothing happens while a capture is under way.
CaptureNow ==
  /\ Live
  /\ busy = "no"
  /\ UNCHANGED document
  /\ Begin
  /\ UNCHANGED <<studio, timer, history>>

\* The timer.  It is spoilt when a capture is under way, or when the page has moved
\* from the URL it was set for and nobody has told of it.
TimerFires ==
  /\ timer
  /\ timer' = FALSE
  /\ UNCHANGED document
  /\ \/ /\ busy = "no"
        /\ Begin
        /\ surplus' = surplus + 1
        /\ handled' = handled \cup ({lastHref["studio"]} \ {href})
     \/ /\ busy # "no"
        /\ handled' = handled \cup {lastHref["studio"]}
        /\ UNCHANGED <<settings, route, capture, surplus>>
  /\ UNCHANGED <<studio, toggles>>

\* What the page calls itself goes before the URL of the route.  Nothing else in the
\* request matters to the tab, so this is all that is said of it.
SnapshotUrl == IF canonical = None THEN route ELSE canonical

\* extractBrowserSnapshot, and the request is sent; a page without text ends the
\* capture.
Extract ==
  /\ busy = "prefs"
  /\ busy' \in {"sent", "no"}
  /\ seen' = {}
  /\ handled' = handled \cup {route}
  /\ UNCHANGED <<document, studio, settings, route, timer, surplus, toggles>>

\* The request succeeds or fails.
Settle ==
  /\ busy = "sent"
  /\ busy' = "no"
  /\ UNCHANGED <<document, studio, settings, route, timer, seen, history>>

-------------------------------------------------------------------------------

\* The page, its scripts and other callers of onNavigate.
PageStep ==
  \/ \E u \in Page : Pushed(u) \/ Slipped(u)
  \/ \E s \in Subscriber : Checked(s)
  \/ /\ \/ Wrap
        \/ Unwrap
        \/ \E s \in Subscriber \ {"studio"} : Subscribe(s) \/ Dispose(s)
     /\ UNCHANGED <<canonical, panel>>
  \/ Relink

StudioStep ==
  \/ Mount \/ Loaded \/ Destroy
  \/ ToggleBox \/ ChangeOther \/ ReadAgain \/ OtherTab
  \/ CaptureNow \/ TimerFires \/ Extract \/ Settle

Init ==
  /\ \E u \in Page : NavigationInit(u) /\ route = u
  /\ canonical \in Linked \cup {None}
  /\ studio = "new"
  /\ stored \in BOOLEAN
  /\ on = FALSE
  /\ timer = FALSE
  /\ busy = "no"
  /\ seen = {}
  /\ surplus = 0
  /\ handled = {}
  /\ toggles = 0

Next == PageStep \/ StudioStep

Spec == Init /\ [][Next]_vars

\* The browser runs what is due: scripts, timers, microtasks.  A request need not
\* be answered.
Fairness ==
  /\ WF_vars(Mount) /\ WF_vars(Loaded) /\ WF_vars(Checked("studio"))
  /\ WF_vars(TimerFires) /\ WF_vars(Extract)

FairSpec == Spec /\ Fairness

-------------------------------------------------------------------------------

\* A snapshot names a URL the page had when the capture began or later, also when
\* the page moved without telling or while the settings were stored; or else the URL
\* the page's canonical link names when the text is taken.
SnapshotIsFresh ==
  [][busy = "prefs" /\ busy' = "sent" =>
       SnapshotUrl \in seen \cup ({canonical} \ {None})]_vars

\* However the page moves, and whoever subscribes and disposes, a page is captured
\* by the timer at most twice while it is shown, and once more for every change of
\* the checkbox.  Twice: by the timer of the page before, when the move was not
\* told, and by its own.
FewAutoCaptures == surplus <= 2

\* While the setting stays on, the page the user stays at is finally captured, or
\* found to have no text ("applies to SPA navigation too", README.md:79), except when
\* the timer of its URL found a capture under way, or a page nobody had told of.
StayedPagesAreCaptured ==
  \A u \in Page :
    ([](Live => on) /\ <>[](Live /\ href = u)) => <>(u \in handled)
================================================================================
