---------------------------- MODULE CaptureJobLedger ----------------------------
(***************************************************************************)
(* What the capture queue promises a client that polls GET /jobs/{id},      *)
(* without workers, stages, lost updates or crashes: a job waits, is worked  *)
(* on, and is settled at most once, as failed or as done with a packet that  *)
(* is stored and stays; a job that a stopped process leaves behind waits     *)
(* again.                                                                   *)
(***************************************************************************)
EXTENDS SqlTable

CONSTANTS Job, Packet, NoPacket

VARIABLES
  jobs,     \* job -> [phase, packet]
  packets   \* the stored packets, as <<document, revision>>

vars == <<jobs, packets>>

Accept(j) ==
  /\ j \notin DOMAIN jobs
  /\ jobs' = Upsert(jobs, j, [phase |-> "waiting", packet |-> NoPacket])
  /\ UNCHANGED packets

Begin(j) ==
  /\ j \in DOMAIN jobs
  /\ jobs[j].phase = "waiting"
  /\ jobs' = [jobs EXCEPT ![j].phase = "active"]
  /\ UNCHANGED packets

\* Captures, of a worker or of a browser, store packets; none is ever lost.
Publish ==
  /\ packets' \subseteq Packet
  /\ packets \subseteq packets'
  /\ UNCHANGED jobs

Complete(j, p) ==
  /\ j \in DOMAIN jobs
  /\ jobs[j].phase = "active"
  /\ jobs' = [jobs EXCEPT ![j] = [phase |-> "done", packet |-> p]]
  /\ UNCHANGED packets

Fail(j) ==
  /\ j \in DOMAIN jobs
  /\ jobs[j].phase = "active"
  /\ jobs' = [jobs EXCEPT ![j].phase = "failed"]
  /\ UNCHANGED packets

GiveBack(back) ==
  /\ back # {}
  /\ \A j \in back : j \in DOMAIN jobs /\ jobs[j].phase = "active"
  /\ jobs' = [j \in DOMAIN jobs |->
       IF j \in back THEN [jobs[j] EXCEPT !.phase = "waiting"] ELSE jobs[j]]
  /\ UNCHANGED packets

Init == jobs = NoRows /\ packets = {}

Next ==
  \/ \E j \in Job : Accept(j) \/ Begin(j) \/ Fail(j)
  \/ Publish
  \/ \E j \in Job : \E p \in packets : Complete(j, p)
  \/ \E back \in SUBSET Job : GiveBack(back)

Spec == Init /\ [][Next]_vars
================================================================================
