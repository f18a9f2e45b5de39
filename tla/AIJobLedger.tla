------------------------------ MODULE AIJobLedger ------------------------------
(***************************************************************************)
(* What the AI queue promises its callers, without workers, retries,        *)
(* clocks or crashes: a ledger of jobs.  A piece of work (one document      *)
(* revision under one recipe and model) has at most one job that is not     *)
(* failed; a job is executed at most once at a time; it is done only with a *)
(* recorded answer to its own work; done and failed jobs never change.      *)
(***************************************************************************)
EXTENDS SqlTable

CONSTANTS Job, Work, AnswerId, NoAnswer

VARIABLES
  jobs,     \* job -> [work, phase, answer]
  answers   \* the recorded answers, as <<id, work>>

vars == <<jobs, answers>>

Live(work) ==
  {j \in DOMAIN jobs : jobs[j].work = work /\ jobs[j].phase # "failed"}

\* A request for work nobody has done or is going to do.
Accept(j, work) ==
  /\ j \notin DOMAIN jobs
  /\ Live(work) = {}
  /\ jobs' = Upsert(jobs, j,
       [work |-> work, phase |-> "waiting", answer |-> NoAnswer])
  /\ UNCHANGED answers

Begin(j) ==
  /\ j \in DOMAIN jobs
  /\ jobs[j].phase = "waiting"
  /\ jobs' = [jobs EXCEPT ![j].phase = "running"]
  /\ UNCHANGED answers

\* The execution records an answer to the work of its job.
Answer(j, id) ==
  /\ j \in DOMAIN jobs
  /\ jobs[j].phase = "running"
  /\ answers' = answers \cup {<<id, jobs[j].work>>}
  /\ UNCHANGED jobs

Complete(j, id) ==
  /\ j \in DOMAIN jobs
  /\ jobs[j].phase = "running"
  /\ <<id, jobs[j].work>> \in answers
  /\ jobs' = [jobs EXCEPT ![j].phase = "done", ![j].answer = id]
  /\ UNCHANGED answers

GiveUp(j) ==
  /\ j \in DOMAIN jobs
  /\ jobs[j].phase = "running"
  /\ jobs' = [jobs EXCEPT ![j].phase = "failed"]
  /\ UNCHANGED answers

\* Executions end without a result: one that will be retried, or all those a
\* stopped process leaves behind.
GiveBack(back) ==
  /\ back # {}
  /\ \A j \in back : j \in DOMAIN jobs /\ jobs[j].phase = "running"
  /\ jobs' = [j \in DOMAIN jobs |->
       IF j \in back THEN [jobs[j] EXCEPT !.phase = "waiting"] ELSE jobs[j]]
  /\ UNCHANGED answers

Init == jobs = NoRows /\ answers = {}

Next ==
  \/ \E j \in Job, work \in Work : Accept(j, work)
  \/ \E j \in Job : Begin(j) \/ GiveUp(j)
  \/ \E j \in Job, id \in AnswerId : Answer(j, id) \/ Complete(j, id)
  \/ \E back \in SUBSET Job : GiveBack(back)

Spec == Init /\ [][Next]_vars
================================================================================
