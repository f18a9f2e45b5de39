------------------------- MODULE CaptureQueueInvariant -------------------------
(***************************************************************************)
(* The inductive invariant of the capture queue.  The safety invariants of  *)
(* CaptureQueue speak of the table and of who holds its rows; whether they  *)
(* survive a step depends on what the copies of the workers say between two *)
(* writes, which the parts below add.                                       *)
(***************************************************************************)
EXTENDS CaptureQueue

\* A worker inside process holds a row, and has a copy of it once it has read it.
HandsInv ==
  \A w \in Worker :
    /\ wpc[w] \in Working <=> held[w] # None
    /\ wpc[w] \in Working \ {"get"} <=> job[w] # None

\* The status of a copy is that of the last stage its worker entered, whatever
\* became of the writes.
Copied(w) ==
  /\ wpc[w] = "get" => jobs[held[w]].status = "planning"
  /\ wpc[w] \in {"planning", "plan", "running"} => job[w].status = "planning"
  /\ wpc[w] \in {"run", "normalizing"} => job[w].status = "running"
  /\ wpc[w] \in {"normalize", "store", "stored"} => job[w].status = "normalizing"
  /\ wpc[w] = "done" => job[w].status \in {"normalizing", "stored"}
  /\ wpc[w] = "fail" => job[w].status \in Active

CopyInv == \A w \in Worker : Copied(w)

\* A dead process has no goroutine left.
DownInv ==
  hub = "down" => /\ \A w \in Worker : wpc[w] = "dead"
                  /\ \A s \in Submitter : hpc[s] = "idle"

\* Before a worker says that its job is done, the packet is in a complete file.
PublishedInv ==
  \A w \in Worker :
    wpc[w] \in {"stored", "done"} =>
      /\ job[w].rev \in DOMAIN files
      /\ files[job[w].rev].whole
      /\ files[job[w].rev].doc = job[w].doc

QueueInv ==
  /\ TypeOK
  /\ HandsInv
  /\ CopyInv
  /\ DownInv
  /\ OneWorkerPerJob
  /\ ActiveHasWorker
  /\ NoLostWakeup
  /\ FineClock => PublishedInv
===============================================================================
