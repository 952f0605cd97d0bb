------------------------------ MODULE MCRoster ------------------------------
(* Instances of Roster for TLC. *)
EXTENDS Roster, TLC

\* Shift ids and clients are interchangeable: no guard tells two of a set apart.
Symmetry == Permutations(Client) \cup Permutations(Shift)

Early == [start |-> 1, end |-> 2]
Late == [start |-> 2, end |-> 3]

\* Two shifts that touch, and one that ends when it starts.
TouchingAndEmpty == {Early, Late, [start |-> 2, end |-> 2]}

\* A bound on what is explored: one late shift touches any number of early ones.
OneLateShift ==
    Cardinality({s \in Shift : \/ shifts[s].window = Late
                               \/ \E c \in Client : /\ req[c].op = "create"
                                                    /\ req[c].shift = s
                                                    /\ req[c].window = Late}) <= 1
=============================================================================
