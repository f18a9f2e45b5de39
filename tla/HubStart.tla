-------------------------------- MODULE HubStart --------------------------------
(***************************************************************************)
(* A second Hub on the data directory of a running one (cmd/hub/main.go).   *)
(* main opens the store and NewQueue requeues interrupted rows and starts    *)
(* its workers; only then does ListenAndServe find the port taken, and       *)
(* log.Fatalf ends the process.  In between two pools of workers share the   *)
(* tables, and the rows the new process takes for interrupted are the ones   *)
(* the first one is running.                                                *)
(*                                                                         *)
(* Both processes are instances of HubProcess that differ in everything      *)
(* volatile, store.mu included: a claim of one may come between the SELECT   *)
(* and the UPDATE of a claim of the other.  The first one stays up and serves *)
(* requests throughout.                                                      *)
(***************************************************************************)
EXTENDS HubProcess

CONSTANTS
  OtherWorker,   \* the worker goroutines of the second Hub
  MaxStarts      \* bound: attempts to start a second Hub

\* A pool has -ai-concurrency goroutines, of which each Hub is told its own number.
ASSUME HubStartAssumption ==
  /\ IsFiniteSet(Worker)
  /\ IsFiniteSet(OtherWorker) /\ OtherWorker # {}
  /\ MaxStarts \in Nat

VARIABLES
  starts,       \* attempts so far
  hub2, configured2, wake2, pc2, held2, tries2, packet2, problem2, cpc2, creq2,
  reading2

firstProcess == <<process, wake, workers, clients, reading>>
secondProcess ==
  <<hub2, configured2, wake2, pc2, held2, tries2, packet2, problem2, cpc2, creq2,
    reading2>>

bothVars == <<vars, reading, starts, secondProcess>>

Other == INSTANCE HubProcess WITH
  Worker <- OtherWorker, hub <- hub2, configured <- configured2, wake <- wake2, pc <- pc2,
  held <- held2, tries <- tries2, packet <- packet2, problem <- problem2,
  cpc <- cpc2, creq <- creq2, reading <- reading2

-------------------------------------------------------------------------------

\* store.Open to NewQueue, before the port is tried.
SecondStarts ==
  /\ starts < MaxStarts
  /\ starts' = starts + 1
  /\ Other!Restart \/ Other!RestartFault
  /\ UNCHANGED <<firstProcess, reading2>>

\* Its workers run until the process ends; nobody can reach its handlers.
SecondWorks(w) ==
  /\ Other!Work(w)
  /\ UNCHANGED <<firstProcess, starts>>

\* "listen: address already in use".
BindFails ==
  /\ hub2 = "up"
  /\ Other!Ends
  /\ UNCHANGED <<now, tables, budget, configured2, firstProcess, starts>>

FirstWorks ==
  /\ \/ Serve
     \/ \E w \in Worker : Work(w)
     \/ Tick /\ UNCHANGED reading
  /\ UNCHANGED <<secondProcess, starts>>

SecondDown ==
  /\ hub2 = "down"
  /\ configured2 = FALSE
  /\ wake2 = FALSE
  /\ pc2 = [w \in OtherWorker |-> "dead"]
  /\ held2 = [w \in OtherWorker |-> None]
  /\ tries2 = [w \in OtherWorker |-> 0]
  /\ packet2 = [w \in OtherWorker |-> None]
  /\ problem2 = [w \in OtherWorker |-> "ok"]
  /\ cpc2 = [c \in Client |-> "idle"]
  /\ creq2 = [c \in Client |-> None]
  /\ reading2 = None

StartInit == Init /\ reading = None /\ SecondDown /\ starts = 0

StartNext ==
  \/ FirstWorks
  \/ SecondStarts
  \/ \E w \in OtherWorker : SecondWorks(w)
  \/ BindFails

StartSpec == StartInit /\ [][StartNext]_bothVars

-------------------------------------------------------------------------------
(* Safety: what is left of the promises of the queue.  That one row is never    *)
(* executed twice at a time, that a settled row is final and that a retry waits  *)
(* for its time is lost: a worker of the first process settles a row that the    *)
(* second has requeued and claimed, and a row that one has selected is claimed    *)
(* and put off by the other before it is updated.                               *)

\* Every attempt to start a second Hub costs a row at most one model call more
\* than -ai-max-attempts, and all of them together one more, although workers of
\* both may hold the row at the same time and both retry it, each counting on
\* from the attempts it selected.  A failing store call costs none as long as the
\* first Hub stays up (the requeue of main.go:79, the SELECT, the UPDATE and the
\* job.Attempts++ of ClaimNextAIJob).
AttemptsWithinStarts ==
  \A j \in DOMAIN aiJobs :
    aiJobs[j].attempts <=
      IF starts = 0 THEN MaxAttempts ELSE MaxAttempts + starts + 1
================================================================================
