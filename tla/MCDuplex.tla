------------------------------ MODULE MCDuplex ------------------------------
(***************************************************************************)
(* Duplex at two sizes: a client that comes back twice, or once with a     *)
(* screen, without resets and failures; and a client that resets beside    *)
(* one of another session, with a failure.                                 *)
(***************************************************************************)
EXTENDS Duplex

CONSTANTS h1, h2, h3, h4, i1, i2

VARIABLE part

MCIdOf == [h \in Sockets |-> IF h = h4 THEN i2 ELSE i1]

Rest(H) == \A h \in H : sock'[h].pc = "new"

MCInit == DxInit /\ part \in {"returns", "resets"}
MCNext ==
    /\ DxNext /\ UNCHANGED part
    /\ part = "returns" => /\ Rest({h4}) /\ faults' = 0
                           /\ screen'[h1] # "none" => sock'[h3].pc = "new"
                           /\ sock'[h3].pc # "opening"
                           /\ \A h \in Sockets : sock'[h].pc \notin InReset
    /\ part = "resets"  => Rest({h2, h3})

MCFairSpec == MCInit /\ [][MCNext]_<<part, dxVars>> /\ DxFairness
=============================================================================
