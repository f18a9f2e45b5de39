------------------------------- MODULE MCHubStart -------------------------------
(* A small instance of HubStart for TLC. *)
EXTENDS HubStart, TLC

\* The workers of the first Hub are interchangeable.
Interchangeable == Permutations(Worker)
================================================================================
