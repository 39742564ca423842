------------------------------ MODULE Rendezvous ------------------------------
(***************************************************************************)
(* What two devices that reduce together promise each other: a device      *)
(* enters its reductions one after the other, and leaves one only when the *)
(* other device has entered it too.  Module HostAllreduce keeps it.        *)
(***************************************************************************)
EXTENDS Naturals

CONSTANTS Ranks      \* the devices

VARIABLES entered,   \* number of reductions each device has entered
          left       \* number of reductions each device has left

vars == <<entered, left>>

Init == /\ entered = [r \in Ranks |-> 0]
        /\ left = [r \in Ranks |-> 0]

Enter(r) == /\ left[r] = entered[r]
            /\ entered' = [entered EXCEPT ![r] = @ + 1]
            /\ UNCHANGED left

Leave(r) == /\ left[r] < entered[r]
            /\ \A p \in Ranks : entered[p] >= entered[r]
            /\ left' = [left EXCEPT ![r] = @ + 1]
            /\ UNCHANGED entered

Next == \E r \in Ranks : Enter(r) \/ Leave(r)

Spec == Init /\ [][Next]_vars
===============================================================================
