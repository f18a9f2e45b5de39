---------------------------- MODULE StudioInvariant ----------------------------
(***************************************************************************)
(* The inductive invariant of the capture panel and of the hook on          *)
(* navigations it listens to.                                               *)
(***************************************************************************)
EXTENDS Studio

TypeOK ==
  /\ push \in Seq(Layer)
  /\ patched \in BOOLEAN /\ cut \in BOOLEAN
  /\ callbacks \subseteq Subscriber
  /\ lastHref \in [Subscriber -> Page \cup {None}]
  /\ href \in Page /\ route \in Page
  /\ canonical \in Linked \cup {None}
  /\ studio \in {"new", "loading", "live", "destroyed"}
  /\ busy \in {"no", "prefs", "sent"}
  /\ on \in BOOLEAN /\ stored \in BOOLEAN /\ timer \in BOOLEAN
  /\ surplus \in Int

\* There is a patch exactly while somebody is subscribed; its wrapper is installed
\* once, and none is left of a patch that was deleted.
PatchInv ==
  /\ patched <=> callbacks # {}
  /\ ~patched => ~Hooked /\ ~cut
  /\ \A i, k \in DOMAIN push : push[i] = "ours" /\ push[k] = "ours" => i = k

\* Before the panel is live it does nothing, and its timer dies with it.
IdleInv ==
  /\ studio \in {"new", "loading"} => busy = "no" /\ surplus = 0
  /\ timer => Live

\* The URLs kept for a capture include the present one, and that of the route.
SeenInv == busy = "prefs" => href \in seen
RouteInv == busy = "prefs" => route \in seen

\* The page has moved and the panel has not been told.
Untold == "studio" \in callbacks /\ lastHref["studio"] # href

\* Every capture by the timer was due to a timer, and every timer to a page that
\* had moved: what is still to come counts.
DueInv ==
  surplus + (IF timer THEN 1 ELSE 0) + (IF Untold THEN 1 ELSE 0) <= 2

IInv ==
  /\ TypeOK
  /\ PatchInv
  /\ IdleInv
  /\ SeenInv /\ RouteInv
  /\ DueInv
  /\ SubscribersAreHooked
===============================================================================
