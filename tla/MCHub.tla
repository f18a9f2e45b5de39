--------------------------------- MODULE MCHub ---------------------------------
(***************************************************************************)
(* Model checking of Hub: clients, handlers and contents are alike.         *)
(***************************************************************************)
EXTENDS Hub, TLC

Symmetry == Permutations(Client) \cup Permutations(Handler) \cup Permutations(Hash)
================================================================================
