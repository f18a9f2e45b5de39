--------------------------- MODULE CaptureQueueLedger ---------------------------
(***************************************************************************)
(* The capture queue implements the ledger of capture jobs: the table jobs  *)
(* is the ledger, the complete files of the packet store are its packets.   *)
(***************************************************************************)
EXTENDS CaptureQueue

Phase(status) ==
  CASE status = "queued" -> "waiting"
    [] status \in Active -> "active"
    [] OTHER -> status

LedgerJobs ==
  [j \in DOMAIN jobs |->
     [phase |-> Phase(jobs[j].status),
      packet |-> IF jobs[j].status = "done" THEN <<jobs[j].doc, jobs[j].rev>>
                                            ELSE None]]

LedgerPackets ==
  {<<files[r].doc, r>> : r \in {r \in DOMAIN files : files[r].whole}}

Ledger == INSTANCE CaptureJobLedger WITH
  Job <- JobId, Packet <- Doc \X Nat, NoPacket <- None,
  jobs <- LedgerJobs, packets <- LedgerPackets

\* Every step of the queue is a step of the ledger or changes nothing a client
\* sees: whole-row writes from a worker's copy, dropped errors of SaveJob, packets
\* found again and restarts never settle a job twice, never take a settled job
\* back, and never let a job be done without a stored packet.
LedgerSpec == Ledger!Spec
=================================================================================
