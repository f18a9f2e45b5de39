--------------------------- MODULE AIQueueInvariant ---------------------------
(***************************************************************************)
(* The inductive invariant of the AI queue.  The safety invariants of       *)
(* AIQueue speak of tables; whether they survive a step depends on what the *)
(* goroutines hold between two store calls, which the parts below add.      *)
(***************************************************************************)
EXTENDS AIQueue

\* A worker inside execute owns the row it holds; every other worker holds none.
OwnershipInv ==
  /\ \A w \in Worker : pc[w] \in Working => held[w] # None /\ tries[w] >= 1
  /\ \A w \in Worker : pc[w] \notin Working => held[w] = None
  /\ ExclusiveExecution

\* What a worker sends is the revision its row is bound to, and before it
\* finishes the row the answer is stored.
AnswerInv ==
  \A w \in Worker :
    /\ pc[w] \in {"call", "save"} =>
         packet[w] = <<aiJobs[held[w]].doc, aiJobs[held[w]].rev>>
    /\ pc[w] = "finish" =>
         \E resp \in responses :
           /\ resp.id = <<held[w], tries[w]>>
           /\ Binding(resp) = Binding(aiJobs[held[w]])

\* What a process knows by itself, also while another one writes its rows: the
\* row a worker is executing exists, and nobody else holds a row in its name.
PoolInv ==
  /\ \A w \in Worker : pc[w] \in Working =>
       held[w] \in DOMAIN aiJobs /\ tries[w] >= 1
  /\ \A w \in Worker : pc[w] \notin Working => held[w] = None
  /\ AnswerInv
  /\ \A c \in Client : cpc[c] # "idle" => creq[c] \in Request

\* One handler at a time is inside Enqueue, and from its lookup to its insert
\* nobody else stores the same work.
EnqueueInv ==
  /\ \A c \in Client : cpc[c] # "idle" => creq[c] \in Request
  /\ \A c, e \in Client : cpc[c] # "idle" /\ cpc[e] # "idle" => c = e
  /\ \A c \in Client : cpc[c] = "save" => ReusableJobs(creq[c]) = {}

\* A dead process has no goroutine left.
DownInv ==
  hub = "down" => /\ \A w \in Worker : pc[w] = "dead"
                  /\ \A c \in Client : cpc[c] = "idle"

Orphan(j) == aiJobs[j].status = "running" /\ \A w \in Worker : held[w] # j

\* A row that can be claimed once more without a retry having been granted has
\* an attempt left to spend: a crash or a failed store call made it an orphan.
BudgetInv ==
  /\ AttemptsWithinBudget
  /\ \A j \in DOMAIN aiJobs :
       aiJobs[j].status = "queued" \/ Orphan(j)
         => aiJobs[j].attempts < MaxAttempts + crashes + faults

\* The account of a row: a worker that may still grant a retry, a place in the
\* queue, and every attempt from the last regular one on are one claim each, made
\* or still possible.  In one process only a requeue adds to it.
Backers(j) == {w \in Worker : held[w] = j /\ tries[w] < MaxAttempts}

Waiting(j) == IF aiJobs[j].status \in {"queued", "retry_wait"} THEN 1 ELSE 0

Spent(j) ==
  IF aiJobs[j].attempts < MaxAttempts THEN 0
                                      ELSE aiJobs[j].attempts - MaxAttempts + 1

Charge(j) == Cardinality(Backers(j)) + Waiting(j) + Spent(j)

\* A retry is always given a time.
RetryTimeInv ==
  \A j \in DOMAIN aiJobs :
    aiJobs[j].status = "retry_wait" => aiJobs[j].nextRetryAt \in Nat

IInv ==
  /\ TypeOK
  /\ OwnershipInv
  /\ AnswerInv
  /\ EnqueueInv
  /\ DownInv
  /\ UniqueLiveJob
  /\ DoneHasItsResponse
  /\ RetryDiscipline
  /\ RunningHasWorker
  /\ NoLostWakeup
  /\ BudgetInv
  /\ RetryTimeInv
===============================================================================
