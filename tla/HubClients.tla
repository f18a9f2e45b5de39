------------------------------- MODULE HubClients -------------------------------
(***************************************************************************)
(* The clients that poll, on one Hub: a call of the command line or of       *)
(* capturePage, or the web page.  They share nothing but the Hub, where the   *)
(* captures of others are steps of HubApi; so one of them is there at a time, *)
(* and the initial state says which.                                        *)
(***************************************************************************)
EXTENDS CaptureClient, WebLibrary

vars == <<hubVars, clientVars, pageVars>>

Init ==
  \/ HubInit(NoRows, {}, TRUE) /\ ClientInit(TRUE) /\ PageInit(FALSE)
  \/ HubInit(Earlier, Library, FALSE) /\ ClientInit(FALSE) /\ PageInit(TRUE)

Next ==
  \/ HubStep /\ UNCHANGED <<clientVars, pageVars>>
  \/ ClientStep /\ UNCHANGED pageVars
  \/ PageStep /\ UNCHANGED clientVars

Spec == Init /\ [][Next]_vars

\* The Hub is started again and answers, programs go on, deadlines pass; nothing
\* is assumed of its jobs.  The timer of the page fires again and again: that all
\* slots are taken now and then is a bound of the model, hence strong fairness.
Fairness ==
  /\ WF_vars(Restart /\ UNCHANGED <<clientVars, pageVars>>)
  /\ \A c \in Caller :
       /\ WF_vars(CallStep(c) /\ UNCHANGED pageVars)
       /\ WF_vars(DeadlinePasses(c) /\ UNCHANGED pageVars)
  /\ SF_vars(Interval /\ UNCHANGED clientVars)
  /\ \A s \in Slot : WF_vars(SlotStep(s) /\ UNCHANGED clientVars)

FairSpec == Spec /\ Fairness
================================================================================
