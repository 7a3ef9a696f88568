----------------------------- MODULE ReviewGate -----------------------------
(***************************************************************************)
(* What human review promises, without the machinery: one decision, taken  *)
(* once; nothing reaches the customer's repository but a patch that a      *)
(* reviewer was shown, and only after the decision was to approve.         *)
(***************************************************************************)
CONSTANTS
    Patches,  \* contents a change may have
    NoPatch   \* nothing published

VARIABLES
    decision,   \* the recorded decision on the job
    reviewed,   \* the patches a reviewer accepted when deciding
    published   \* the content of the branch in the customer's repository

vars == <<decision, reviewed, published>>

Init ==
    /\ decision = "none"
    /\ reviewed = {}
    /\ published = NoPatch

Review(p) ==
    /\ reviewed' = reviewed \cup {p}
    /\ UNCHANGED <<decision, published>>

Decide(d) ==
    /\ decision = "none"
    /\ d = "approved" => reviewed # {}
    /\ decision' = d
    /\ UNCHANGED <<reviewed, published>>

Publish(p) ==
    /\ decision = "approved"
    /\ p \in reviewed
    /\ published' = p
    /\ UNCHANGED <<decision, reviewed>>

Withdraw ==
    /\ published' = NoPatch
    /\ UNCHANGED <<decision, reviewed>>

Next ==
    \/ \E p \in Patches : Review(p) \/ Publish(p)
    \/ \E d \in {"approved", "rejected"} : Decide(d)
    \/ Withdraw

Spec == Init /\ [][Next]_vars
=============================================================================
