--------------------------- MODULE MCSwapWorkflow ---------------------------
(* Instances of SwapWorkflow for TLC. *)
EXTENDS SwapWorkflow, TLC

\* Clients, swap ids and administrators are interchangeable.
Symmetry == Permutations(Client) \cup Permutations(Swap) \cup Permutations(Admin)
=============================================================================
