--------------------------- MODULE MCAvailability ---------------------------
(* Instances of Availability for TLC. *)
EXTENDS Availability, TLC

\* Clients and keys are interchangeable; hours are not, being compared.
Symmetry == Permutations(Client) \cup Permutations(Key)
=============================================================================
