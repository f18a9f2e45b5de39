------------------------------ MODULE CaptureQueue ------------------------------
(***************************************************************************)
(* The durable capture queue (internal/orchestrator/orchestrator.go and the *)
(* jobs table of internal/store) on top of the packet store.                *)
(*                                                                         *)
(* Submit stores a job; a pool of workers claims jobs and takes each one    *)
(* through planning, running, normalizing and storing.  A worker works on   *)
(* its own copy of the row and writes the whole row back at every stage.    *)
(* It ignores the error of every such SaveJob.  Browser captures go to the  *)
(* packet store directly and compete with the workers for store.mu, which   *)
(* every store call takes.  A crash may hit between any two steps; a new    *)
(* process puts the interrupted jobs back to queued.                        *)
(***************************************************************************)
EXTENDS QueueTime, SqlTable

CONSTANTS
  JobId,        \* ids of jobs rows
  Worker,       \* the worker goroutines: -capture-concurrency of them
  Submitter,    \* handlers of POST /jobs
  Browser,      \* handlers of POST /captures
  Doc, Hash, None, FineClock, MaxClock, MaxCaptures, MaxCrashes, MaxFaults

ASSUME CapturePoolAssumption == Worker # {} /\ None \notin JobId

ASSUME CaptureClockAssumption == FineClock \in BOOLEAN

VARIABLES
  jobs,         \* the jobs table
  hub,          \* the process: up, closing or down
  wake,         \* the one-slot wake channel is full
  wpc,          \* where each worker is
  held,         \* the job a worker claimed
  job,          \* the worker's copy of the row
  hpc,          \* where each Submit call is
  created       \* the CreatedAt of the job a Submit call is about to store

VARIABLES  \* of the packet store
  now, files, documents, mu, spc, packet, result, receipts, captures,
  crashes, faults

Packets == INSTANCE PacketStore WITH Caller <- Worker \cup Browser

workers == <<wpc, held, job>>
submitters == <<hpc, created>>
packetVars ==
  <<now, files, documents, mu, spc, packet, result, receipts, captures>>
budget == <<crashes, faults>>

vars == <<jobs, hub, wake, workers, submitters, packetVars, budget>>

-------------------------------------------------------------------------------
(* Types.                                                                    *)

Active == {"planning", "running", "normalizing", "stored"}
Terminal == {"done", "failed"}
Status == {"queued"} \cup Active \cup Terminal

ErrorCode == {"none", "ok", "adapter_not_found", "plan_failed", "runner_failed",
              "runner_timeout", "normalize_failed", "store_failed"}

Job == [status : Status, doc : Doc \cup {None}, rev : Nat \cup {None},
        code : ErrorCode, createdAt : Nat]

\* None stands for no goroutine, no packet, no result and no row.
ASSUME CaptureNoneAssumption ==
  /\ None \notin Worker \cup Browser
  /\ None \notin Packets!Packet
  /\ None \notin Packets!Result
  /\ None \notin Job

Working == {"get", "planning", "plan", "running", "run", "normalizing",
            "normalize", "store", "stored", "done", "fail"}
WorkerPc == Working \cup {"claim", "select", "stopped", "dead"}

TypeOK ==
  /\ Packets!TypeOK
  /\ DOMAIN jobs \subseteq JobId /\ jobs \in [DOMAIN jobs -> Job]
  /\ hub \in {"up", "closing", "down"}
  /\ wake \in BOOLEAN
  /\ wpc \in [Worker -> WorkerPc]
  /\ held \in [Worker -> JobId \cup {None}]
  /\ job \in [Worker -> Job \cup {None}]
  /\ hpc \in [Submitter -> {"idle", "save", "notify"}]
  /\ created \in [Submitter -> Nat]

-------------------------------------------------------------------------------
(* The jobs table.                                                           *)

Alive == hub # "down"

\* A store call waits for store.mu, and works or returns an error.
Works == mu = None /\ UNCHANGED budget
Fails == mu = None /\ Packets!Fails

\* SaveJob: the whole row.
SaveJob(j, row) == jobs' = Upsert(jobs, j, row)

Queued == {j \in DOMAIN jobs : jobs[j].status = "queued"}

\* Mutant: the query has no ORDER BY.
AnyQueued == Queued

\* ORDER BY created_at ASC LIMIT 1, on the stored text.
FirstQueued ==
  {j \in Queued : \A i \in Queued :
     TextLeq(jobs[j].createdAt, jobs[i].createdAt)}

\* Mutant: a new process takes up only what was being run.
RequeuedRunning ==
  [j \in DOMAIN jobs |->
     IF jobs[j].status = "running" THEN [jobs[j] EXCEPT !.status = "queued"]
                                   ELSE jobs[j]]

\* RequeueIncompleteCaptureJobs.
Requeued ==
  [j \in DOMAIN jobs |->
     IF jobs[j].status \in Active THEN [jobs[j] EXCEPT !.status = "queued"]
                                  ELSE jobs[j]]

-------------------------------------------------------------------------------
(* Submit.                                                                   *)

NewJob(t) ==
  [status |-> "queued", doc |-> None, rev |-> None, code |-> "none",
   createdAt |-> t]

SubmitCall(s) ==
  /\ Alive
  /\ hpc[s] = "idle"
  /\ DOMAIN jobs # JobId
  /\ hpc' = [hpc EXCEPT ![s] = "save"]
  /\ created' = [created EXCEPT ![s] = now]
  /\ Packets!ReadClock
  /\ UNCHANGED <<jobs, hub, wake, workers, files, documents, mu, spc, packet,
                 result, receipts, captures, budget>>

SubmitSave(s, j) ==
  /\ Alive
  /\ hpc[s] = "save"
  /\ j \notin DOMAIN jobs
  /\ Works
  /\ SaveJob(j, NewJob(created[s]))
  /\ hpc' = [hpc EXCEPT ![s] = "notify"]
  /\ created' = [created EXCEPT ![s] = 0]
  /\ UNCHANGED <<hub, wake, workers, packetVars>>

SubmitFault(s) ==
  /\ Alive
  /\ hpc[s] = "save"
  /\ Fails
  /\ hpc' = [hpc EXCEPT ![s] = "idle"]
  /\ created' = [created EXCEPT ![s] = 0]
  /\ UNCHANGED <<jobs, hub, wake, workers, packetVars>>

\* Mutant: a new job is left to the ticker.
NoWake == wake

WakeOnSubmit == TRUE

SubmitNotify(s) ==
  /\ Alive
  /\ hpc[s] = "notify"
  /\ wake' = WakeOnSubmit
  /\ hpc' = [hpc EXCEPT ![s] = "idle"]
  /\ UNCHANGED <<jobs, hub, workers, created, packetVars, budget>>

-------------------------------------------------------------------------------
(* A worker.                                                                 *)

Goto(w, label) == wpc' = [wpc EXCEPT ![w] = label]

\* process returns.
Release(w) ==
  /\ Goto(w, "claim")
  /\ held' = [held EXCEPT ![w] = None]
  /\ job' = [job EXCEPT ![w] = None]

\* Mutant: the claim does not change the row.
ClaimedQueued(row) == row

Claimed(row) == [row EXCEPT !.status = "planning"]

\* ClaimNextCaptureJob: select and update under one hold of store.mu.
Claim(w, j) ==
  /\ wpc[w] = "claim"
  /\ j \in FirstQueued
  /\ Works
  /\ SaveJob(j, Claimed(jobs[j]))
  /\ Goto(w, "get")
  /\ held' = [held EXCEPT ![w] = j]
  /\ UNCHANGED <<hub, wake, job, submitters, packetVars>>

\* No job, or an error that is taken for no job.
NoClaim(w) ==
  /\ wpc[w] = "claim"
  /\ (Queued = {} /\ Works) \/ Fails
  /\ Goto(w, "select")
  /\ UNCHANGED <<jobs, hub, wake, held, job, submitters, packetVars>>

GetJob(w) ==
  /\ wpc[w] = "get"
  /\ Works
  /\ job' = [job EXCEPT ![w] = jobs[held[w]]]
  /\ Goto(w, "planning")
  /\ UNCHANGED <<jobs, hub, wake, held, submitters, packetVars>>

\* process returns without a word: the row stays as the claim left it.
GetJobFault(w) ==
  /\ wpc[w] = "get"
  /\ Fails
  /\ Release(w)
  /\ UNCHANGED <<jobs, hub, wake, submitters, packetVars>>

\* The copy is changed and written back; an error of SaveJob is dropped.
Save(w, copy) ==
  /\ job' = [job EXCEPT ![w] = copy]
  /\ \/ Works /\ SaveJob(held[w], copy)
     \/ Fails /\ UNCHANGED jobs
  /\ UNCHANGED <<hub, wake, held, submitters, packetVars>>

SavePlanning(w) ==
  /\ wpc[w] = "planning"
  /\ Save(w, [job[w] EXCEPT !.status = "planning"])
  /\ Goto(w, "plan")

\* The closure fail sets the code; its SaveJob is the step SaveFailed.
FailWith(w, code) ==
  /\ job' = [job EXCEPT ![w].code = code]
  /\ Goto(w, "fail")
  /\ UNCHANGED <<jobs, hub, wake, held, submitters>>

\* pickAdapter and Plan, which only look at the target.
Plan(w) ==
  /\ wpc[w] = "plan"
  /\ Save(w, job[w])
  /\ Goto(w, "running")

PlanError(w) ==
  /\ wpc[w] = "plan"
  /\ \E code \in {"adapter_not_found", "plan_failed"} : FailWith(w, code)
  /\ UNCHANGED <<packetVars, budget>>

SaveRunning(w) ==
  /\ wpc[w] = "running"
  /\ Save(w, [job[w] EXCEPT !.status = "running"])
  /\ Goto(w, "run")

\* The runner succeeds, fails, or is killed at the timeout of the plan.
Run(w) ==
  /\ wpc[w] = "run"
  /\ \/ Goto(w, "normalizing") /\ UNCHANGED <<jobs, hub, wake, held, job, submitters>>
     \/ \E code \in {"runner_failed", "runner_timeout"} : FailWith(w, code)
  /\ UNCHANGED <<packetVars, budget>>

SaveNormalizing(w) ==
  /\ wpc[w] = "normalizing"
  /\ Save(w, [job[w] EXCEPT !.status = "normalizing"])
  /\ Goto(w, "normalize")

\* Normalize makes a packet of what the runner returned, with a revision id
\* from the clock.
Normalize(w) ==
  /\ wpc[w] = "normalize"
  /\ \E d \in Doc, h \in Hash : Packets!Begin(w, d, h)
  /\ Goto(w, "store")
  /\ UNCHANGED <<jobs, hub, wake, held, job, submitters, captures>>

NormalizeError(w) ==
  /\ wpc[w] = "normalize"
  /\ FailWith(w, "normalize_failed")
  /\ UNCHANGED <<packetVars, budget>>

\* Mutant: the job keeps the id of its own packet where the store returned an
\* older one.
OwnRevision(w) == packet[w].rev

ReturnedRevision(w) == result[w].rev

\* SavePacketIfChanged has returned; content that was there is done at once.
Stored(w) ==
  /\ wpc[w] = "store"
  /\ Packets!Take(w)
  /\ result[w].ok
  /\ job' = [job EXCEPT ![w].doc = packet[w].doc, ![w].rev = ReturnedRevision(w)]
  /\ Goto(w, IF result[w].deduped THEN "done" ELSE "stored")
  /\ UNCHANGED <<jobs, hub, wake, held, submitters, receipts, captures>>

StoreError(w) ==
  /\ wpc[w] = "store"
  /\ Packets!Take(w)
  /\ ~result[w].ok
  /\ FailWith(w, "store_failed")
  /\ UNCHANGED <<receipts, captures>>

SaveStored(w) ==
  /\ wpc[w] = "stored"
  /\ Save(w, [job[w] EXCEPT !.status = "stored"])
  /\ Goto(w, "done")

\* The last write of process: whether it works or not, the worker goes on.
SaveLast(w, copy) ==
  /\ \/ Works /\ SaveJob(held[w], copy)
     \/ Fails /\ UNCHANGED jobs
  /\ Release(w)
  /\ UNCHANGED <<hub, wake, submitters, packetVars>>

SaveDone(w) ==
  /\ wpc[w] = "done"
  /\ SaveLast(w, [job[w] EXCEPT !.status = "done", !.code = "ok"])

\* Mutants: fail forgets the status, or its columns are bound in the wrong order.
FailedCopyOf(row) == row
FailedCopySwapped(row) == [row EXCEPT !.status = row.code, !.code = "failed"]

FailedCopy(row) == [row EXCEPT !.status = "failed"]

SaveFailed(w) ==
  /\ wpc[w] = "fail"
  /\ SaveLast(w, FailedCopy(job[w]))

WakeUp(w) ==
  /\ wpc[w] = "select"
  /\ wake
  /\ wake' = FALSE
  /\ Goto(w, "claim")
  /\ UNCHANGED <<jobs, hub, held, job, submitters, packetVars, budget>>

TickerFires(w) ==
  /\ wpc[w] = "select"
  /\ Goto(w, "claim")
  /\ UNCHANGED <<jobs, hub, wake, held, job, submitters, packetVars, budget>>

StopWorker(w) ==
  /\ wpc[w] = "select"
  /\ hub = "closing"
  /\ Goto(w, "stopped")
  /\ UNCHANGED <<jobs, hub, wake, held, job, submitters, packetVars, budget>>

-------------------------------------------------------------------------------
(* Captures of the browser, and the store calls of both.                      *)

queueVars == <<jobs, hub, wake, workers, submitters>>

BrowserCapture(b, d, h) ==
  /\ Alive
  /\ Packets!CaptureSnapshot(b, d, h)
  /\ UNCHANGED queueVars

BrowserReply(b) == Packets!Reply(b) /\ UNCHANGED queueVars

StoreStep(c) == Packets!SaveStep(c) /\ UNCHANGED queueVars

StoreFault(c) == Packets!StoreFault(c) /\ UNCHANGED <<queueVars, captures>>

Tick == Packets!Tick /\ UNCHANGED queueVars

-------------------------------------------------------------------------------
(* The process.                                                               *)

\* A Close counts as a crash for the bound MaxCrashes.
Close ==
  /\ hub = "up"
  /\ hub' = "closing"
  /\ crashes < MaxCrashes
  /\ crashes' = crashes + 1
  /\ UNCHANGED <<jobs, wake, workers, submitters, packetVars, faults>>

VolatileLost ==
  /\ hub' = "down"
  /\ wake' = FALSE
  /\ wpc' = [w \in Worker |-> "dead"]
  /\ held' = [w \in Worker |-> None]
  /\ job' = [w \in Worker |-> None]
  /\ hpc' = [s \in Submitter |-> "idle"]
  /\ created' = [s \in Submitter |-> 0]
  /\ Packets!Die
  /\ UNCHANGED <<jobs, captures>>

CloseReturns ==
  /\ hub = "closing"
  /\ \A w \in Worker : wpc[w] = "stopped"
  /\ VolatileLost
  /\ UNCHANGED budget

Crash ==
  /\ Alive
  /\ crashes < MaxCrashes
  /\ crashes' = crashes + 1
  /\ VolatileLost
  /\ UNCHANGED faults

\* NewWithConcurrency starts the workers and fills the wake channel.
Started ==
  /\ hub' = "up"
  /\ wake' = TRUE
  /\ wpc' = [w \in Worker |-> "claim"]
  /\ UNCHANGED <<held, job, submitters, packetVars>>

Restart ==
  /\ hub = "down"
  /\ Works
  /\ jobs' = Requeued
  /\ Started

\* The error of RequeueIncompleteCaptureJobs is dropped.
RestartFault ==
  /\ hub = "down"
  /\ Fails
  /\ UNCHANGED jobs
  /\ Started

-------------------------------------------------------------------------------
(* The system.                                                                *)

Init ==
  /\ Packets!Init
  /\ jobs = NoRows
  /\ hub = "up"
  /\ wake = TRUE
  /\ wpc = [w \in Worker |-> "claim"]
  /\ held = [w \in Worker |-> None]
  /\ job = [w \in Worker |-> None]
  /\ hpc = [s \in Submitter |-> "idle"]
  /\ created = [s \in Submitter |-> 0]

SubmitStep(s) == (\E j \in JobId : SubmitSave(s, j)) \/ SubmitNotify(s)

WorkerStep(w) ==
  \/ \E j \in JobId : Claim(w, j)
  \/ NoClaim(w)
  \/ GetJob(w)
  \/ SavePlanning(w)
  \/ Plan(w)
  \/ PlanError(w)
  \/ SaveRunning(w)
  \/ Run(w)
  \/ SaveNormalizing(w)
  \/ Normalize(w)
  \/ NormalizeError(w)
  \/ StoreStep(w)
  \/ Stored(w)
  \/ StoreError(w)
  \/ SaveStored(w)
  \/ SaveDone(w)
  \/ SaveFailed(w)
  \/ WakeUp(w)
  \/ TickerFires(w)

BrowserStep(b) == StoreStep(b) \/ BrowserReply(b)

Next ==
  \/ \E s \in Submitter : SubmitCall(s) \/ SubmitStep(s) \/ SubmitFault(s)
  \/ \E b \in Browser, d \in Doc, h \in Hash : BrowserCapture(b, d, h)
  \/ \E b \in Browser : BrowserStep(b) \/ StoreFault(b)
  \/ \E w \in Worker :
       WorkerStep(w) \/ GetJobFault(w) \/ StoreFault(w) \/ StopWorker(w)
  \/ Tick
  \/ Close
  \/ CloseReturns
  \/ Crash
  \/ Restart
  \/ RestartFault

\* Goroutines that can run do run, store.mu starves nobody, tickers fire, and
\* somebody starts the Hub again.  select picks among its ready cases at random,
\* so an idle worker of a closing queue takes the stop case in the end.
Fairness ==
  /\ WF_vars(CloseReturns)
  /\ WF_vars(Restart)
  /\ \A s \in Submitter : SF_vars(SubmitStep(s))
  /\ \A b \in Browser : SF_vars(BrowserStep(b))
  /\ \A w \in Worker : SF_vars(WorkerStep(w)) /\ SF_vars(StopWorker(w))

Spec == Init /\ [][Next]_vars

FairSpec == Spec /\ Fairness

-------------------------------------------------------------------------------
(* Safety.                                                                    *)

Stage(status) ==
  CASE status = "queued" -> 0
    [] status = "planning" -> 1
    [] status = "running" -> 2
    [] status = "normalizing" -> 3
    [] status = "stored" -> 4
    [] OTHER -> 5

\* A job is in the hands of one worker at a time, and while it is, nobody else
\* settles or requeues it and its row is never ahead of the worker's copy: a
\* client polling GetJob sees no stage that was not reached.
OneWorkerPerJob ==
  /\ \A v, w \in Worker : held[v] # None /\ held[v] = held[w] => v = w
  /\ \A w \in Worker : held[w] # None =>
       /\ held[w] \in DOMAIN jobs
       /\ jobs[held[w]].status \in Active
  /\ \A w \in Worker : job[w] # None =>
       Stage(jobs[held[w]].status) <= Stage(job[w].status)

\* As long as no store call failed, a live Hub has no orphan: every job that is
\* neither waiting nor settled is in the hands of a worker.
ActiveHasWorker ==
  Alive /\ faults = 0 =>
    \A j \in DOMAIN jobs :
      jobs[j].status \in Active => \E w \in Worker : held[w] = j

\* When every worker sleeps and a job waits, a wake-up is there or on its way.
NoLostWakeup ==
  /\ hub = "up"
  /\ faults = 0
  /\ Queued # {}
  /\ \A w \in Worker : wpc[w] = "select"
  => wake \/ \E s \in Submitter : hpc[s] = "notify"

\* "atomically reserves the oldest queued capture job" (store/queue.go:78), as far
\* as the text of an instant tells which is older: a job is never overtaken by
\* one that was created in a later second.
NoLaterSecondFirst ==
  [][\A j \in DOMAIN jobs :
       jobs[j].status = "queued" /\ jobs'[j].status = "planning" =>
         \A i \in Queued : Second(jobs[j].createdAt) <= Second(jobs[i].createdAt)]_vars

-------------------------------------------------------------------------------
(* Progress.                                                                  *)

\* Every stored job is finally done or failed, across crashes, closes and
\* restarts, provided no SaveJob fails ("makes interrupted OpenCLI jobs durable
\* across Hub restarts", store/queue.go:64).
EventuallySettled ==
  \A j \in JobId :
    j \in DOMAIN jobs ~> (j \in DOMAIN jobs /\ jobs[j].status \in Terminal)
===============================================================================
