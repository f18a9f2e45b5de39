---------------------------- MODULE MCCaptureQueue -----------------------------
(* The capture queue on small instances: jobs, goroutines, documents and     *)
(* hashes are interchangeable, which is sound for the safety runs.           *)
EXTENDS CaptureQueueLedger, TLC

Interchangeable ==
  Permutations(JobId) \cup Permutations(Worker) \cup Permutations(Submitter)
    \cup Permutations(Doc) \cup Permutations(Hash)
===============================================================================
