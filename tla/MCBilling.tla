------------------------------ MODULE MCBilling ------------------------------
(***************************************************************************)
(* What is used gets charged or counted: the money of a workspace, either  *)
(* of a direct call, a stream and a model call of a run, or of a direct    *)
(* call and two model calls; and the usage of one visual session, with a   *)
(* fault.  They share no state, and a behaviour is of one of them.  A      *)
(* stream may lose its client, an answer may be lost, the process may die, *)
(* and no callback has to come.                                            *)
(***************************************************************************)
EXTENDS Billing, Visual

CONSTANTS s1, c2    \* the stream, the second model call

VARIABLE part

MCCosts == {1, 3}

WithStream == Next /\ pc'[c2] = "idle"
ARun       == Next /\ pc'[s1] = "idle"
Usage == /\ VsNext /\ \A s \in VsSessions : vs'[s].look = "moving"
         /\ \A c \in VsCallers : vcall'[c].pc # "idle" => vcall'[c].kind = "perception"

MCInit == Init /\ VsInit /\ part \in {"with a stream", "a run", "usage"}
MCNext ==
    \/ part = "with a stream" /\ WithStream /\ UNCHANGED <<part, vsVars>>
    \/ part = "a run" /\ ARun /\ UNCHANGED <<part, vsVars>>
    \/ part = "usage" /\ Usage /\ UNCHANGED <<part, vars>>

MCFairSpec == MCInit /\ [][MCNext]_<<part, vars, vsVars>> /\ VsFairness
=============================================================================
