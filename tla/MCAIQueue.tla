------------------------------- MODULE MCAIQueue -------------------------------
(* Small instances of AIQueue for TLC. *)
EXTENDS AIQueueInvariant, AIQueueLedger, TLC

\* Rows, workers, handlers, documents, revisions and recipes are
\* interchangeable: sound for the safety runs.
Interchangeable ==
  Permutations(JobId) \cup Permutations(Worker) \cup Permutations(Client)
    \cup Permutations(Doc) \cup Permutations(Rev) \cup Permutations(Recipe)
================================================================================
