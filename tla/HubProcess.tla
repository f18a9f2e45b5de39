------------------------------- MODULE HubProcess -------------------------------
(***************************************************************************)
(* The AI queue of one Hub among other processes on the same tables.        *)
(*                                                                         *)
(* ClaimNextAIJob is a SELECT and an UPDATE under one hold of store.mu, and  *)
(* nothing else: no SQL transaction joins the two statements.  store.mu is a *)
(* mutex of the process, so the calls of this process wait for a claim that  *)
(* is between its statements and those of another one do not (internal/store *)
(* /queue.go).  Every other call of the queue is a single statement, and one *)
(* step as in AIQueue.                                                       *)
(*                                                                         *)
(* A response is named by its row and the attempt its worker counts.  Two    *)
(* claims by outdated copies may count the same attempt, and their responses *)
(* then share a name; both are made for the binding of the row, and that is  *)
(* all that is said of them.                                                *)
(***************************************************************************)
EXTENDS AIQueueInvariant

VARIABLE reading    \* the claim between its statements: the worker inside it,
                    \* the row it has selected and the attempts it read there

Reading == [by : Worker, job : JobId, attempts : Nat]

StoreMuFree == reading = None

-------------------------------------------------------------------------------

\* The SELECT.  None of the tables changes.
Select(w, j) ==
  /\ pc[w] = "claim"
  /\ StoreMuFree
  /\ j \in FirstEligible
  /\ reading' = [by |-> w, job |-> j, attempts |-> aiJobs[j].attempts]
  /\ UNCHANGED vars

\* The UPDATE asks for the status once more, and for the due time not at all: it
\* takes the row whatever became of it, misses a row that no longer waits, or fails.
Update(w) ==
  /\ ~StoreMuFree
  /\ reading.by = w
  /\ \/ Take(w, reading.job, reading.attempts)
     \/ /\ aiJobs[reading.job].status \notin {"queued", "retry_wait"}
        /\ StoreWorks
        /\ Sleep(w)
     \/ StoreFails /\ Sleep(w)
  /\ reading' = None

\* The other calls of a worker that ask for store.mu, and what it does without.
Call(w) ==
  \/ NoClaim(w)
  \/ LoadPacket(w)
  \/ LoadError(w)
  \/ SaveResponse(w)
  \/ Finish(w)
  \/ Retry(w)
  \/ Fail(w)
  \/ WorkerFault(w)

Local(w) == CallModel(w) \/ WakeUp(w) \/ TickerFires(w)

\* What a worker of a process that stays up may do.
Work(w) ==
  \/ \E j \in JobId : Select(w, j)
  \/ Update(w)
  \/ StoreMuFree /\ Call(w) /\ UNCHANGED reading
  \/ Local(w) /\ UNCHANGED reading

\* Requests to it.  A handler fills the wake channel without the store.
Serve ==
  /\ \/ StoreMuFree /\ CaptureStep
     \/ \E c \in Client :
          \/ StoreMuFree /\ (EnqueueCall(c) \/ EnqueueStep(c) \/ EnqueueFault(c))
          \/ EnqueueNotify(c)
  /\ UNCHANGED reading

\* It ends, in the middle of a claim, too.
Ends ==
  /\ VolatileLost
  /\ reading' = None

-------------------------------------------------------------------------------
(* What the process knows of a claim between its statements.                  *)

\* The row is still there, with the attempts that were read or more.
ReadingInv ==
  reading # None =>
    /\ reading \in Reading
    /\ pc[reading.by] = "claim"
    /\ reading.job \in DOMAIN aiJobs
    /\ reading.attempts <= aiJobs[reading.job].attempts

\* The copy that was selected would grant a retry after the claim, which counts
\* when the row itself has used up its regular attempts but the last.
Outdated(j) ==
  IF reading # None /\ reading.job = j /\ reading.attempts + 1 < MaxAttempts
    THEN 1
    ELSE 0
===============================================================================
