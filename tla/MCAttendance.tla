---------------------------- MODULE MCAttendance ----------------------------
(* Instances of Attendance for TLC. *)
EXTENDS Attendance, TLC

\* Clients, record ids and staff members are interchangeable.
Symmetry == Permutations(Client) \cup Permutations(Record) \cup Permutations(Staff)
=============================================================================
