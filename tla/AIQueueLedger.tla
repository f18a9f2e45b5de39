----------------------------- MODULE AIQueueLedger -----------------------------
(***************************************************************************)
(* The AI queue implements the ledger of jobs: the table ai_jobs is the     *)
(* ledger, the table ai_responses its recorded answers.                     *)
(***************************************************************************)
EXTENDS AIQueue

Phase(status) ==
  IF status \in {"queued", "retry_wait"} THEN "waiting" ELSE status

LedgerJobs ==
  [j \in DOMAIN aiJobs |->
     [work |-> Binding(aiJobs[j]), phase |-> Phase(aiJobs[j].status),
      answer |-> aiJobs[j].response]]

LedgerAnswers == {<<resp.id, Binding(resp)>> : resp \in responses}

Ledger == INSTANCE AIJobLedger WITH
  Job <- JobId,
  Work <- Doc \X Rev \X Recipe,
  AnswerId <- JobId \X (1 .. MaxAttempts + MaxCrashes + MaxFaults),
  NoAnswer <- None,
  jobs <- LedgerJobs,
  answers <- LedgerAnswers

\* Every step of the queue is a step of the ledger or changes nothing the
\* ledger sees: in particular a row becomes done only out of its own running
\* execution and with a response that answers its own work, and no interleaving
\* of handlers accepts the same work twice.
LedgerSpec == Ledger!Spec
================================================================================
