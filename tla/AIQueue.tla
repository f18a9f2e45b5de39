-------------------------------- MODULE AIQueue --------------------------------
(***************************************************************************)
(* The durable queue of model calls (internal/ai/queue.go, service.go and   *)
(* internal/store/queue.go).                                                *)
(*                                                                         *)
(* HTTP handlers call Enqueue, which binds a request to the latest revision *)
(* of a document and stores one row of ai_jobs.  A pool of workers claims   *)
(* rows, runs the recipe on the bound revision, saves the response and      *)
(* settles the row.  Every store call is one step, because store.mu is held *)
(* for the whole call; everything else a goroutine does between two store   *)
(* calls may interleave.  The Hub may crash between any two steps; a new    *)
(* process then finds the tables as they were.                              *)
(*                                                                         *)
(* Any store call may fail.  The queue ignores the errors of                *)
(* FinishAIJob, RetryAIJob, FailAIJob and RequeueRunningAIJobs and takes an *)
(* error of ClaimNextAIJob for an empty queue; MaxFaults bounds how many    *)
(* calls fail.                                                              *)
(***************************************************************************)
EXTENDS QueueTime, FiniteSets, SqlTable

CONSTANTS
  Doc,          \* document ids
  Rev,          \* revision ids
  Recipe,       \* a recipe together with the model locked in at enqueue time
  JobId,        \* ids of ai_jobs rows
  Worker,       \* the worker goroutines: -ai-concurrency of them
  Client,       \* HTTP handlers that may be inside Enqueue at once
  MaxAttempts,  \* -ai-max-attempts
  None,         \* Go's nil and SQL's NULL
  MaxClock,     \* bound: instants reached while no retry is waiting
  MaxCrashes,   \* bound: crashes of the Hub
  MaxFaults     \* bound: store calls that return an error

ASSUME PoolAssumption == Worker # {} /\ MaxAttempts \in Nat \ {0}

ASSUME NoneAssumption == None \notin JobId /\ None \notin Doc \X Rev

ASSUME BoundAssumption ==
  MaxClock \in Nat /\ MaxCrashes \in Nat /\ MaxFaults \in Nat

VARIABLES
  now,          \* time.Now()
  documents,    \* documents: document id -> latest revision id
  packets,      \* packets/<revision>.json: revision id -> its document_id
  aiJobs,       \* ai_jobs
  responses,    \* ai_responses
  hub,          \* the process: up, closing (Close was called) or down
  configured,   \* Dispatcher.Configured(): this process has a key
  wake,         \* the one-slot wake channel is full
  pc,           \* where each worker is
  held,         \* the row a worker claimed
  tries,        \* job.Attempts in the worker's copy of the row
  packet,       \* the packet a worker loaded, as <<document, revision>>
  problem,      \* the error RunRevision returned to a worker
  cpc,          \* where each Enqueue call is
  creq,         \* what the Enqueue call will store
  crashes,      \* crashes so far
  faults        \* failed store calls so far

tables == <<documents, packets, aiJobs, responses>>
workers == <<pc, held, tries, packet, problem>>
clients == <<cpc, creq>>
process == <<hub, configured>>
budget == <<crashes, faults>>

vars == <<now, tables, process, wake, workers, clients, budget>>

-------------------------------------------------------------------------------
(* Types.                                                                    *)

Status == {"queued", "running", "retry_wait", "done", "failed"}
Terminal == {"done", "failed"}

\* A response is named after the claim that produced it: its job and the
\* attempt number.  A claim saves at most one response.
ResponseId == JobId \X Nat

AIJob == [doc : Doc, rev : Rev, recipe : Recipe, status : Status,
          attempts : Nat, createdAt : Nat, nextRetryAt : Nat \cup {NoTime},
          response : ResponseId \cup {None}]

AIResponse == [id : ResponseId, doc : Doc, rev : Rev, recipe : Recipe]

Request == [doc : Doc, rev : Rev, recipe : Recipe, createdAt : Nat]

ErrorCode == {"ok", "invalid_target", "not_found", "ai_failed",
              "ai_not_configured", "store_failed"}

HubState == {"up", "closing", "down"}

Working == {"load", "call", "save", "finish", "settle"}
WorkerPc == Working \cup {"claim", "select", "stopped", "dead"}

ClientPc == {"idle", "find", "save", "notify"}

TypeOK ==
  /\ now \in Nat
  /\ DOMAIN documents \subseteq Doc /\ documents \in [DOMAIN documents -> Rev]
  /\ DOMAIN packets \subseteq Rev /\ packets \in [DOMAIN packets -> Doc]
  /\ DOMAIN aiJobs \subseteq JobId /\ aiJobs \in [DOMAIN aiJobs -> AIJob]
  /\ responses \subseteq AIResponse
  /\ hub \in HubState
  /\ configured \in BOOLEAN
  /\ wake \in BOOLEAN
  /\ pc \in [Worker -> WorkerPc]
  /\ held \in [Worker -> JobId \cup {None}]
  /\ tries \in [Worker -> Nat]
  /\ packet \in [Worker -> (Doc \X Rev) \cup {None}]
  /\ problem \in [Worker -> ErrorCode]
  /\ cpc \in [Client -> ClientPc]
  /\ creq \in [Client -> Request \cup {None}]
  /\ crashes \in Nat
  /\ faults \in Nat

-------------------------------------------------------------------------------
(* The store, one operator per query or per decision.                        *)

Alive == hub # "down"

\* A store call returns an error; the row it would have written is unchanged.
StoreFails ==
  /\ faults < MaxFaults
  /\ faults' = faults + 1
  /\ UNCHANGED crashes

StoreWorks == UNCHANGED budget

Binding(row) == <<row.doc, row.rev, row.recipe>>

\* Mutant: a done job is forgotten.
ReusableButDone == {"queued", "running", "retry_wait"}

\* FindReusableAIJob: these statuses stand for work that need not be repeated.
Reusable == {"queued", "running", "retry_wait", "done"}

\* The rows an Enqueue of this request returns instead of a new row.
ReusableJobs(req) ==
  {j \in DOMAIN aiJobs : /\ Binding(aiJobs[j]) = Binding(req)
                         /\ aiJobs[j].status \in Reusable}

\* Mutant: a waiting retry may start at once.
DueAtOnce(row) == TRUE

\* next_retry_at IS NULL OR next_retry_at <= now, on the stored text.
Due(row) == row.nextRetryAt = NoTime \/ TextLeq(row.nextRetryAt, now)

\* Mutant: a scheduled retry is never picked up.
ClaimableQueuedOnly(row) == row.status = "queued"

Claimable(row) ==
  \/ row.status = "queued"
  \/ row.status = "retry_wait" /\ Due(row)

Eligible == {j \in DOMAIN aiJobs : Claimable(aiJobs[j])}

\* ORDER BY created_at ASC LIMIT 1 (priority is always 0); SQLite may return
\* any of the rows with the smallest text.
FirstEligible ==
  {j \in Eligible : \A i \in Eligible :
     TextLeq(aiJobs[j].createdAt, aiJobs[i].createdAt)}

SetJob(j, row) == aiJobs' = Upsert(aiJobs, j, row)

\* Mutant: a new process leaves interrupted rows alone.
RequeuedNothing == aiJobs

\* RequeueRunningAIJobs: attempts keeps its value.
Requeued ==
  [j \in DOMAIN aiJobs |->
     IF aiJobs[j].status = "running"
       THEN [aiJobs[j] EXCEPT !.status = "queued"]
       ELSE aiJobs[j]]

-------------------------------------------------------------------------------
(* Captures.  A revision id is the wall clock in nanoseconds, so two captures *)
(* in one clock step carry the same id and the second replaces the file of    *)
(* the first.                                                                 *)

SavePacket(d, r) ==
  /\ Alive
  /\ StoreWorks
  /\ packets' = Upsert(packets, r, d)
  /\ documents' = Upsert(documents, d, r)
  /\ UNCHANGED <<now, aiJobs, responses, process, wake, workers, clients>>

\* The file is written and the statement that points the document at it fails.
SavePacketFault(d, r) ==
  /\ Alive
  /\ StoreFails
  /\ packets' = Upsert(packets, r, d)
  /\ UNCHANGED <<now, documents, aiJobs, responses, process, wake, workers,
                 clients>>

-------------------------------------------------------------------------------
(* Enqueue.  The calls serialise on enqueueMu, which a caller holds from its  *)
(* first statement to its return.                                            *)

\* Mutant: Enqueue without its lock.
EnqueueUnlocked == TRUE

EnqueueMuFree == \A c \in Client : cpc[c] = "idle"

\* Lines 66-75: lock, NormalizeRequest, GetPacketByDocumentID.  What is bound
\* is what the packet file says, not what the caller asked for.  The time of the
\* request is filled in later.
EnqueueRead(c, d, k) ==
  /\ Alive
  /\ EnqueueMuFree
  /\ configured
  /\ d \in DOMAIN documents
  /\ documents[d] \in DOMAIN packets
  /\ cpc' = [cpc EXCEPT ![c] = "find"]
  /\ creq' = [creq EXCEPT ![c] =
       [doc |-> packets[documents[d]], rev |-> documents[d], recipe |-> k,
        createdAt |-> 0]]
  /\ UNCHANGED <<now, tables, process, wake, workers, budget>>

\* Lines 76-83: an existing row is returned, or the clock is read for a new one.
EnqueueFind(c) ==
  /\ Alive
  /\ cpc[c] = "find"
  /\ IF ReusableJobs(creq[c]) # {}
       THEN /\ cpc' = [cpc EXCEPT ![c] = "idle"]
            /\ creq' = [creq EXCEPT ![c] = None]
       ELSE /\ cpc' = [cpc EXCEPT ![c] = "save"]
            /\ creq' = [creq EXCEPT ![c].createdAt = now]
  /\ UNCHANGED <<now, tables, process, wake, workers, budget>>

NewRow(req) ==
  [doc |-> req.doc, rev |-> req.rev, recipe |-> req.recipe,
   status |-> "queued", attempts |-> 0, createdAt |-> req.createdAt,
   nextRetryAt |-> NoTime, response |-> None]

\* Lines 84-98: the row gets a fresh uuid.
EnqueueSave(c, j) ==
  /\ Alive
  /\ cpc[c] = "save"
  /\ j \notin DOMAIN aiJobs
  /\ StoreWorks
  /\ SetJob(j, NewRow(creq[c]))
  /\ cpc' = [cpc EXCEPT ![c] = "notify"]
  /\ UNCHANGED <<now, documents, packets, responses, process, wake, workers,
                 creq>>

\* Lines 99-100: notify fills the wake channel if it is empty, and Enqueue
\* returns.
EnqueueNotify(c) ==
  /\ Alive
  /\ cpc[c] = "notify"
  /\ wake' = TRUE
  /\ cpc' = [cpc EXCEPT ![c] = "idle"]
  /\ creq' = [creq EXCEPT ![c] = None]
  /\ UNCHANGED <<now, tables, process, workers, budget>>

\* FindReusableAIJob or SaveAIJob fails: Enqueue returns the error.
EnqueueFault(c) ==
  /\ Alive
  /\ cpc[c] \in {"find", "save"}
  /\ StoreFails
  /\ cpc' = [cpc EXCEPT ![c] = "idle"]
  /\ creq' = [creq EXCEPT ![c] = None]
  /\ UNCHANGED <<now, tables, process, wake, workers>>

-------------------------------------------------------------------------------
(* A worker claims rows until there is none, then waits in its select.        *)

\* Mutant: a worker goes back to its select after every row.
AfterJobSelect == "select"

AfterJob == "claim"

\* The worker is done with its row.
Release(w) ==
  /\ pc' = [pc EXCEPT ![w] = AfterJob]
  /\ held' = [held EXCEPT ![w] = None]
  /\ tries' = [tries EXCEPT ![w] = 0]
  /\ packet' = [packet EXCEPT ![w] = None]
  /\ problem' = [problem EXCEPT ![w] = "ok"]

Goto(w, label) ==
  /\ pc' = [pc EXCEPT ![w] = label]
  /\ UNCHANGED <<held, tries, packet, problem>>

\* RunRevision returns an error to execute.
Give(w, code) ==
  /\ pc' = [pc EXCEPT ![w] = "settle"]
  /\ problem' = [problem EXCEPT ![w] = code]
  /\ UNCHANGED <<held, tries, packet>>

\* Mutant: the claim counts the attempt and forgets the status.
ClaimedRowStillQueued(row) ==
  [row EXCEPT !.attempts = @ + 1, !.nextRetryAt = NoTime]

ClaimedRow(row) ==
  [row EXCEPT !.status = "running", !.attempts = @ + 1, !.nextRetryAt = NoTime]

\* The UPDATE of ClaimNextAIJob, for a copy of the row that had n attempts: the
\* table counts on from its own value, the worker from its copy.
Take(w, j, n) ==
  /\ pc[w] = "claim"
  /\ aiJobs[j].status \in {"queued", "retry_wait"}
  /\ StoreWorks
  /\ SetJob(j, ClaimedRow(aiJobs[j]))
  /\ pc' = [pc EXCEPT ![w] = "load"]
  /\ held' = [held EXCEPT ![w] = j]
  /\ tries' = [tries EXCEPT ![w] = n + 1]
  /\ UNCHANGED <<now, documents, packets, responses, process, wake, packet,
                 problem, clients>>

\* ClaimNextAIJob: select and update under one hold of store.mu, which no other
\* call of this process comes between.
Claim(w, j) == j \in FirstEligible /\ Take(w, j, aiJobs[j].attempts)

\* ClaimNextAIJob returned no job: the worker goes to its select.
Sleep(w) ==
  /\ pc[w] = "claim"
  /\ Goto(w, "select")
  /\ UNCHANGED <<now, tables, process, wake, clients>>

\* No row, or an error that is taken for no row.
NoClaim(w) ==
  /\ Sleep(w)
  /\ (Eligible = {} /\ StoreWorks) \/ StoreFails

\* RunRevision accepts a packet only of the document the row names.
BelongsTo(d, row) == d = row.doc

\* What RunRevision finds before it calls the model: NormalizeRequest, the
\* packet file, the document in the file.
RevisionError(row) ==
  IF ~configured THEN "ai_not_configured"
  ELSE IF row.rev \notin DOMAIN packets THEN "not_found"
  ELSE IF ~BelongsTo(packets[row.rev], row) THEN "invalid_target"
  ELSE "ok"

\* The binding columns of a row never change, so the worker's copy of them is
\* read from the table.
LoadPacket(w) ==
  /\ pc[w] = "load"
  /\ RevisionError(aiJobs[held[w]]) = "ok"
  /\ LET rev == aiJobs[held[w]].rev
     IN  packet' = [packet EXCEPT ![w] = <<packets[rev], rev>>]
  /\ pc' = [pc EXCEPT ![w] = "call"]
  /\ UNCHANGED <<now, tables, process, wake, held, tries, problem, clients,
                 budget>>

\* Whatever goes wrong with reading the file is reported as not_found.
LoadError(w) ==
  /\ pc[w] = "load"
  /\ \/ /\ RevisionError(aiJobs[held[w]]) # "ok"
        /\ Give(w, RevisionError(aiJobs[held[w]]))
        /\ StoreWorks
     \/ Give(w, "not_found") /\ StoreFails
  /\ UNCHANGED <<now, tables, process, wake, clients>>

\* Dispatcher.Complete: an answer, or any of its errors (the HTTP client gives
\* up after 120 seconds).
CallModel(w) ==
  /\ pc[w] = "call"
  /\ Goto(w, "save") \/ Give(w, "ai_failed")
  /\ UNCHANGED <<now, tables, process, wake, clients, budget>>

\* The response carries the document and revision of the packet that was sent.
SaveResponse(w) ==
  /\ pc[w] = "save"
  /\ StoreWorks
  /\ responses' = responses \cup
       {[id |-> <<held[w], tries[w]>>, doc |-> packet[w][1],
         rev |-> packet[w][2], recipe |-> aiJobs[held[w]].recipe]}
  /\ Goto(w, "finish")
  /\ UNCHANGED <<now, documents, packets, aiJobs, process, wake, clients>>

SaveResponseFault(w) ==
  /\ pc[w] = "save"
  /\ StoreFails
  /\ Give(w, "store_failed")
  /\ UNCHANGED <<now, tables, process, wake, clients>>

\* Mutant: the row names its job where it should name the response.
DoneRowNamesJob(row, id) ==
  [row EXCEPT !.status = "done", !.response = id[1], !.nextRetryAt = NoTime]

DoneRow(row, id) ==
  [row EXCEPT !.status = "done", !.response = id, !.nextRetryAt = NoTime]

\* Mutant: the row is given the response of the attempt it counts itself.
FinishByCount(w) ==
  /\ pc[w] = "finish"
  /\ StoreWorks
  /\ SetJob(held[w], DoneRow(aiJobs[held[w]], <<held[w], aiJobs[held[w]].attempts>>))
  /\ Release(w)
  /\ UNCHANGED <<now, documents, packets, responses, process, wake, clients>>

Finish(w) ==
  /\ pc[w] = "finish"
  /\ StoreWorks
  /\ SetJob(held[w], DoneRow(aiJobs[held[w]], <<held[w], tries[w]>>))
  /\ Release(w)
  /\ UNCHANGED <<now, documents, packets, responses, process, wake, clients>>

\* The error of FinishAIJob is dropped: the worker goes on, the row does not.
FinishFault(w) ==
  /\ pc[w] = "finish"
  /\ StoreFails
  /\ Release(w)
  /\ UNCHANGED <<now, tables, process, wake, clients>>

\* Mutants: one retry too many, one retry too few.
MayRetryOnceMore(w) == tries[w] <= MaxAttempts
MayRetryOnceLess(w) == tries[w] < MaxAttempts - 1

MayRetry(w) == tries[w] < MaxAttempts

RetryRow(row, attempt) ==
  [row EXCEPT !.status = "retry_wait", !.nextRetryAt = now + RetryDelay(attempt)]

FailRow(row) == [row EXCEPT !.status = "failed", !.nextRetryAt = NoTime]

Retry(w) ==
  /\ pc[w] = "settle"
  /\ MayRetry(w)
  /\ StoreWorks
  /\ SetJob(held[w], RetryRow(aiJobs[held[w]], tries[w]))
  /\ wake' = TRUE
  /\ Release(w)
  /\ UNCHANGED <<now, documents, packets, responses, process, clients>>

Fail(w) ==
  /\ pc[w] = "settle"
  /\ ~MayRetry(w)
  /\ StoreWorks
  /\ SetJob(held[w], FailRow(aiJobs[held[w]]))
  /\ Release(w)
  /\ UNCHANGED <<now, documents, packets, responses, process, wake, clients>>

\* The error of RetryAIJob or FailAIJob is dropped; execute notifies after a
\* RetryAIJob whether or not it worked.
SettleFault(w) ==
  /\ pc[w] = "settle"
  /\ StoreFails
  /\ wake' = (wake \/ MayRetry(w))
  /\ Release(w)
  /\ UNCHANGED <<now, tables, process, clients>>

-------------------------------------------------------------------------------
(* The select of an idle worker.  Only here does a worker see that the queue  *)
(* is closing: it drains what is claimable first.                             *)

WakeUp(w) ==
  /\ pc[w] = "select"
  /\ wake
  /\ wake' = FALSE
  /\ Goto(w, "claim")
  /\ UNCHANGED <<now, tables, process, clients, budget>>

TickerFires(w) ==
  /\ pc[w] = "select"
  /\ Goto(w, "claim")
  /\ UNCHANGED <<now, tables, process, wake, clients, budget>>

\* Mutant: Close sends one stop token instead of closing the channel.
StopOneWorker(w) ==
  /\ pc[w] = "select"
  /\ hub = "closing"
  /\ \A v \in Worker : pc[v] # "stopped"
  /\ Goto(w, "stopped")
  /\ UNCHANGED <<now, tables, process, wake, clients, budget>>

StopWorker(w) ==
  /\ pc[w] = "select"
  /\ hub = "closing"
  /\ Goto(w, "stopped")
  /\ UNCHANGED <<now, tables, process, wake, clients, budget>>

-------------------------------------------------------------------------------
(* The process.                                                               *)

\* Time passes: freely up to MaxClock, and as long as a retry is not yet due.
Tick ==
  /\ \/ now < MaxClock
     \/ \E j \in DOMAIN aiJobs :
          aiJobs[j].status = "retry_wait" /\ ~Due(aiJobs[j])
  /\ now' = now + 1
  /\ UNCHANGED <<tables, process, wake, workers, clients, budget>>

Close ==
  /\ hub = "up"
  /\ hub' = "closing"
  /\ UNCHANGED <<now, tables, configured, wake, workers, clients, budget>>

\* What every goroutine and channel of a process leaves behind.
VolatileLost ==
  /\ hub' = "down"
  /\ wake' = FALSE
  /\ pc' = [w \in Worker |-> "dead"]
  /\ held' = [w \in Worker |-> None]
  /\ tries' = [w \in Worker |-> 0]
  /\ packet' = [w \in Worker |-> None]
  /\ problem' = [w \in Worker |-> "ok"]
  /\ cpc' = [c \in Client |-> "idle"]
  /\ creq' = [c \in Client |-> None]

\* wg.Wait is over, Close returns and the process exits.
CloseReturns ==
  /\ hub = "closing"
  /\ \A w \in Worker : pc[w] = "stopped"
  /\ VolatileLost
  /\ UNCHANGED <<now, tables, configured, budget>>

Crash ==
  /\ Alive
  /\ crashes < MaxCrashes
  /\ crashes' = crashes + 1
  /\ VolatileLost
  /\ UNCHANGED <<now, tables, configured, faults>>

\* NewQueue starts the workers and fills the wake channel.
Started ==
  /\ hub' = "up"
  /\ configured' \in BOOLEAN
  /\ wake' = TRUE
  /\ pc' = [w \in Worker |-> "claim"]
  /\ UNCHANGED <<now, documents, packets, responses, held, tries, packet,
                 problem, clients>>

Restart ==
  /\ hub = "down"
  /\ StoreWorks
  /\ aiJobs' = Requeued
  /\ Started

\* The error of RequeueRunningAIJobs is dropped.
RestartFault ==
  /\ hub = "down"
  /\ StoreFails
  /\ UNCHANGED aiJobs
  /\ Started

-------------------------------------------------------------------------------
(* The system.                                                                *)

Init ==
  /\ now = 0
  /\ documents = NoRows
  /\ packets = NoRows
  /\ aiJobs = NoRows
  /\ responses = {}
  /\ hub = "up"
  /\ configured \in BOOLEAN
  /\ wake = TRUE
  /\ pc = [w \in Worker |-> "claim"]
  /\ held = [w \in Worker |-> None]
  /\ tries = [w \in Worker |-> 0]
  /\ packet = [w \in Worker |-> None]
  /\ problem = [w \in Worker |-> "ok"]
  /\ cpc = [c \in Client |-> "idle"]
  /\ creq = [c \in Client |-> None]
  /\ crashes = 0
  /\ faults = 0

CaptureStep == \E d \in Doc, r \in Rev : SavePacket(d, r) \/ SavePacketFault(d, r)

EnqueueCall(c) == \E d \in Doc, k \in Recipe : EnqueueRead(c, d, k)

EnqueueStep(c) ==
  \/ EnqueueFind(c)
  \/ \E j \in JobId : EnqueueSave(c, j)
  \/ EnqueueNotify(c)

WorkerStep(w) ==
  \/ \E j \in JobId : Claim(w, j)
  \/ NoClaim(w)
  \/ LoadPacket(w)
  \/ LoadError(w)
  \/ CallModel(w)
  \/ SaveResponse(w)
  \/ Finish(w)
  \/ Retry(w)
  \/ Fail(w)
  \/ WakeUp(w)
  \/ TickerFires(w)

WorkerFault(w) ==
  \/ SaveResponseFault(w)
  \/ FinishFault(w)
  \/ SettleFault(w)

Next ==
  \/ CaptureStep
  \/ \E c \in Client : EnqueueCall(c) \/ EnqueueStep(c) \/ EnqueueFault(c)
  \/ \E w \in Worker : WorkerStep(w) \/ WorkerFault(w) \/ StopWorker(w)
  \/ Tick
  \/ Close
  \/ CloseReturns
  \/ Crash
  \/ Restart
  \/ RestartFault

\* Goroutines that can run do run, tickers fire, time passes, an Enqueue call
\* returns, and somebody starts the Hub again.  select picks among its ready
\* cases at random, so a worker that is infinitely often in its select while
\* the queue is closing takes the stop case (strong fairness).
Fairness ==
  /\ WF_vars(Tick)
  /\ WF_vars(CloseReturns)
  /\ WF_vars(Restart)
  /\ \A c \in Client : WF_vars(EnqueueStep(c))
  /\ \A w \in Worker : WF_vars(WorkerStep(w)) /\ SF_vars(StopWorker(w))

Spec == Init /\ [][Next]_vars

FairSpec == Spec /\ Fairness

-------------------------------------------------------------------------------
(* Safety.                                                                    *)

\* "Unchanged revisions reuse existing work" (queue.go:61): one document
\* revision, recipe and model never has two rows that are waiting, running or
\* done, however Enqueue calls, claims, failures and crashes interleave.
UniqueLiveJob ==
  \A i, j \in DOMAIN aiJobs :
    /\ Binding(aiJobs[i]) = Binding(aiJobs[j])
    /\ aiJobs[i].status \in Reusable
    /\ aiJobs[j].status \in Reusable
    => i = j

\* A row is executed by one worker at a time, which owns it: while a worker
\* holds a row nobody settles, requeues or claims it again, and the attempt the
\* worker counts with is the stored one (ClaimNextAIJob, execute).
ExclusiveExecution ==
  /\ \A w \in Worker : held[w] # None =>
       /\ held[w] \in DOMAIN aiJobs
       /\ aiJobs[held[w]].status = "running"
       /\ aiJobs[held[w]].attempts = tries[w]
  /\ \A v, w \in Worker : held[v] # None /\ held[v] = held[w] => v = w

\* As long as no store call failed, a live Hub has no orphan: every running row
\* is in the hands of a worker, also right after a crash (RequeueRunningAIJobs).
RunningHasWorker ==
  Alive /\ faults = 0 =>
    \A j \in DOMAIN aiJobs :
      aiJobs[j].status = "running" => \E w \in Worker : held[w] = j

\* A done row names a saved response to the revision, document and recipe the
\* row was bound to, whatever later captures, retries and crashes did.
DoneHasItsResponse ==
  \A j \in DOMAIN aiJobs : aiJobs[j].status = "done" =>
    \E resp \in responses :
      /\ resp.id = aiJobs[j].response
      /\ Binding(resp) = Binding(aiJobs[j])

\* A retry is only scheduled while attempts are left, and a row fails only when
\* they are used up (execute).
RetryDiscipline ==
  \A j \in DOMAIN aiJobs :
    /\ aiJobs[j].status = "retry_wait" =>
         aiJobs[j].attempts \in 1 .. (MaxAttempts - 1)
    /\ aiJobs[j].status = "failed" => aiJobs[j].attempts >= MaxAttempts

\* A claim beyond MaxAttempts is always paid for by a crash or a failed store
\* call: each of them costs a row at most one attempt more.
AttemptsWithinBudget ==
  \A j \in DOMAIN aiJobs :
    aiJobs[j].attempts <= MaxAttempts + crashes + faults

\* "AI running: <= 5" (TASKS.md:62): the running rows, which the queue
\* statistics report, never outnumber the workers.  A settled attempt whose
\* store call failed leaves its row running while the worker goes on.
RunningWithinConcurrency ==
  Cardinality({j \in DOMAIN aiJobs : aiJobs[j].status = "running"})
    <= Cardinality(Worker)

\* The one-slot wake channel loses no wake-up: when every worker sleeps and a
\* row is queued, the channel is full or the Enqueue that stored the row is
\* about to fill it.
NoLostWakeup ==
  /\ hub = "up"
  /\ faults = 0
  /\ \E j \in DOMAIN aiJobs : aiJobs[j].status = "queued"
  /\ \A w \in Worker : pc[w] = "select"
  => wake \/ \E c \in Client : cpc[c] = "notify"

-------------------------------------------------------------------------------
(* Steps.                                                                     *)

\* A settled row is never touched again: no late worker, retry or restart
\* rewrites a done or failed row (none of the UPDATEs but ClaimNextAIJob's
\* checks the status it overwrites).
TerminalIsFinal ==
  [][\A j \in DOMAIN aiJobs : aiJobs[j].status \in Terminal =>
       aiJobs'[j] = aiJobs[j]]_vars

\* A retry starts in the second it is due or later: closer than that
\* next_retry_at <= now does not tell, because the texts of two instants of one
\* second are compared (store/queue.go:226, 236).
RetriesAwaitTheirSecond ==
  [][\A j \in DOMAIN aiJobs :
       aiJobs[j].status = "retry_wait" /\ aiJobs'[j].status = "running"
         => Second(aiJobs[j].nextRetryAt) <= Second(now)]_vars

-------------------------------------------------------------------------------
(* Progress.                                                                  *)

Settled(j) == j \in DOMAIN aiJobs /\ aiJobs[j].status \in Terminal

\* Every stored row is finally done or failed, across crashes, closes and
\* restarts, provided no store call fails.
EventuallySettled == \A j \in JobId : j \in DOMAIN aiJobs ~> Settled(j)

\* Close returns: the workers drain what is claimable and stop.
CloseTerminates == hub = "closing" ~> hub = "down"
===============================================================================
