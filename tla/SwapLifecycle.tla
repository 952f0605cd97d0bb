---------------------------- MODULE SwapLifecycle ----------------------------
(***************************************************************************)
(* What the swap workflow promises (models/swap_request.py: "PENDING ->    *)
(* APPROVED, PENDING -> REJECTED, no other transitions are permitted";     *)
(* AU-07, AU-08, HR-01, HR-02): a swap is decided at most once, its audit  *)
(* trail is written with the change it describes, and at most one          *)
(* administrator is told that the decision was theirs.                     *)
(***************************************************************************)
EXTENDS Naturals, Sequences

CONSTANTS
    Swap,   \* swap request ids
    Staff,  \* staff members who submit swaps
    Admin   \* administrators who decide them

VARIABLES
    status,  \* "absent", or the state of the swap request
    trail,   \* the audit entries of the swap, oldest first
    told     \* how many clients were told that they decided the swap

vars == <<status, trail, told>>

Decision == {"APPROVED", "REJECTED"}

Submitted(u) == [action |-> "CREATE", actor |-> u, before |-> "absent", after |-> "PENDING"]
Decided(a, d) == [action |-> "UPDATE", actor |-> a, before |-> "PENDING", after |-> d]

Init ==
    /\ status = [s \in Swap |-> "absent"]
    /\ trail = [s \in Swap |-> <<>>]
    /\ told = [s \in Swap |-> 0]

Submit(s, u) ==
    /\ status[s] = "absent"
    /\ status' = [status EXCEPT ![s] = "PENDING"]
    /\ trail' = [trail EXCEPT ![s] = Append(@, Submitted(u))]
    /\ UNCHANGED told

Decide(s, a, d) ==
    /\ status[s] = "PENDING"
    /\ status' = [status EXCEPT ![s] = d]
    /\ trail' = [trail EXCEPT ![s] = Append(@, Decided(a, d))]
    /\ UNCHANGED told

Tell(s) ==
    /\ status[s] \in Decision
    /\ told[s] = 0
    /\ told' = [told EXCEPT ![s] = 1]
    /\ UNCHANGED <<status, trail>>

Next ==
    \E s \in Swap :
        \/ \E u \in Staff : Submit(s, u)
        \/ \E a \in Admin, d \in Decision : Decide(s, a, d)
        \/ Tell(s)

Spec == Init /\ [][Next]_vars
=============================================================================
