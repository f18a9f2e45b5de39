------------------------------ MODULE SpaNavigate ------------------------------
(***************************************************************************)
(* How the userscript hears of navigations inside one page                   *)
(* (packages/runtime/src/spa.ts): it wraps history.pushState and             *)
(* replaceState, shares the wrapper among its subscribers, and looks at the   *)
(* URL on events and on a timer besides.                                     *)
(*                                                                         *)
(* Other scripts of the page wrap the same functions.  A function is the      *)
(* sequence of wrappers around the native one, the innermost first.  Both     *)
(* functions are wrapped and restored alike, so one stands for both.          *)
(***************************************************************************)
EXTENDS Integers, SequencesExt

CONSTANTS
  Page,         \* URLs of the site
  Subscriber,   \* callers of onNavigate
  MaxMoves,     \* bound: URL changes
  MaxWraps,     \* bound: wrappers other scripts install
  MaxSubscribes \* bound: subscriptions

VARIABLES
  href,         \* the URL of the page
  push,         \* history.pushState
  patched,      \* there is a patch in historyPatches
  callbacks,    \* its subscribers; the handles not disposed
  lastHref,     \* what a subscriber has seen
  cut,          \* another script took away its wrapper and with it the patch
  moves, wraps, subscribes

navigation == <<href, push, patched, callbacks, lastHref, cut, moves, wraps, subscribes>>

None == "none"

\* The wrapper of the present patch, one of a patch that is deleted, and one of
\* another script.
Layer == {"ours", "old", "theirs"}

Hooked == "ours" \in Range(push)
Below(i) == SubSeq(push, 1, i - 1)

-------------------------------------------------------------------------------
(* emitIfChanged.                                                             *)

\* Mutant: the listener is called whatever the URL was.
AnyHref(s, url) == TRUE

Differs(s, url) == url # lastHref[s]

\* The subscribers of subs that are told that the URL is url.
Told(subs, url) == {s \in subs : Differs(s, url)}

Emit(subs, url) ==
  lastHref' = [s \in Subscriber |-> IF s \in Told(subs, url) THEN url ELSE lastHref[s]]

-------------------------------------------------------------------------------
(* The page.                                                                  *)

\* The URL changes.
MoveTo(url) ==
  /\ moves < MaxMoves
  /\ moves' = moves + 1
  /\ url # href
  /\ href' = url
  /\ UNCHANGED <<push, patched, callbacks, cut, wraps, subscribes>>

\* By a call of pushState: our wrapper notifies when the native function returns.
Push(url) == MoveTo(url) /\ Emit(IF Hooked THEN callbacks ELSE {}, url)

\* In another way, or through the native function that a script has kept: nobody
\* is told before the event or the timer.
Slip(url) == MoveTo(url) /\ Emit({}, url)

\* Mutant: the poll interval is zero, which installs no timer, and the change
\* comes without an event.
NoTimer == FALSE

Polls == TRUE

\* popstate, hashchange, pageshow, visibilitychange, or the timer.
Check(s) ==
  /\ Polls
  /\ s \in callbacks
  /\ Told({s}, href) # {}
  /\ Emit({s}, href)
  /\ UNCHANGED <<href, push, patched, callbacks, cut, moves, wraps, subscribes>>

-------------------------------------------------------------------------------
(* Other scripts.                                                             *)

Wrap ==
  /\ wraps < MaxWraps
  /\ wraps' = wraps + 1
  /\ push' = Append(push, "theirs")
  /\ UNCHANGED <<href, patched, callbacks, lastHref, cut, moves, subscribes>>

\* A script puts back the function it had found.
Unwrap ==
  \E i \in DOMAIN push :
    /\ push[i] = "theirs"
    /\ push' = Below(i)
    /\ cut' = (cut \/ (Hooked /\ "ours" \notin Range(Below(i))))
    /\ UNCHANGED <<href, patched, callbacks, lastHref, moves, wraps, subscribes>>

-------------------------------------------------------------------------------
(* installSpaNavigateAdapter and dispose.                                     *)

Subscribe(s) ==
  /\ s \notin callbacks
  /\ subscribes < MaxSubscribes
  /\ subscribes' = subscribes + 1
  /\ push' = IF patched THEN push ELSE Append(push, "ours")
  /\ patched' = TRUE
  /\ callbacks' = callbacks \cup {s}
  /\ lastHref' = [lastHref EXCEPT ![s] = href]
  /\ UNCHANGED <<href, cut, moves, wraps>>

\* Mutant: it is not looked at who else has subscribed.
LastOrNot(s) == TRUE

IsLast(s) == callbacks = {s}

\* Mutant: it is not looked at who has wrapped the wrapper.
OursSomewhere == Hooked

OursIsOutermost == push # <<>> /\ Last(push) = "ours"

\* What pushState was when the patch was made, put back; or our wrapper stays where
\* it is and notifies nobody.
Original == Below(CHOOSE i \in DOMAIN push : push[i] = "ours")
Forgotten == [i \in DOMAIN push |-> IF push[i] = "ours" THEN "old" ELSE push[i]]

Dispose(s) ==
  /\ s \in callbacks
  /\ callbacks' = callbacks \ {s}
  /\ IF IsLast(s)
       THEN /\ push' = IF OursIsOutermost THEN Original ELSE Forgotten
            /\ patched' = FALSE
            /\ cut' = FALSE
       ELSE UNCHANGED <<push, patched, cut>>
  /\ UNCHANGED <<href, lastHref, moves, wraps, subscribes>>

NavigationInit(url) ==
  /\ href = url
  /\ push = <<>>
  /\ patched = FALSE
  /\ callbacks = {}
  /\ lastHref = [s \in Subscriber |-> None]
  /\ cut = FALSE
  /\ moves = 0
  /\ wraps = 0
  /\ subscribes = 0

-------------------------------------------------------------------------------

\* As long as somebody is subscribed, a call of pushState is noticed at once,
\* whatever was subscribed, disposed and wrapped before, unless another script has
\* put back a function from before the patch.
SubscribersAreHooked == callbacks # {} /\ ~cut => Hooked

\* The userscript never takes another script's wrapper away: what the page has
\* installed on top of the patch, or before it, outlives every dispose (spa.ts:99).
Theirs(f) == {i \in DOMAIN f : f[i] = "theirs"}

ForeignWrappersStay == [][Theirs(push) \subseteq Theirs(push') \/ Unwrap]_navigation
================================================================================
