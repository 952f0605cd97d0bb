----------------------------- MODULE MCAdmission -----------------------------
\* An instance of Admission for TLC: the requests in the server are alike.
EXTENDS Admission, TLC

Symmetry == Permutations(Request)
=============================================================================
