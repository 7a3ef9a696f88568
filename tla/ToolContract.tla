---------------------------- MODULE ToolContract ----------------------------
(***************************************************************************)
(* What a tool call promises the model that made it: the action is run at  *)
(* most once; the model is told one outcome; it is told "done" only of an  *)
(* action that ended, and "declined" only of one that has not run and      *)
(* never will.  "failed" and "timeout" promise nothing: the action may or  *)
(* may not have happened.                                                  *)
(***************************************************************************)
CONSTANT Calls

VARIABLES
    run,   \* what became of the action of each call
    told   \* the outcome the model was given

vars == <<run, told>>

Outcomes == {"done", "failed", "declined", "timeout"}

Init ==
    /\ run  = [c \in Calls |-> "no"]
    /\ told = [c \in Calls |-> "none"]

Starts(c) == run[c] = "no" /\ run'[c] = "started" /\ told[c] # "declined"
Ends(c)   == run[c] = "started" /\ run'[c] = "ended"

Tells(c) ==
    /\ told[c] = "none" /\ told'[c] \in Outcomes
    /\ told'[c] = "done" => run[c] = "ended"
    /\ told'[c] = "declined" => run[c] = "no"

\* One action may end in the very step in which another starts.
Next ==
    /\ run'  \in [Calls -> {"no", "started", "ended"}]
    /\ told' \in [Calls -> Outcomes \cup {"none"}]
    /\ \A c \in Calls :
          /\ run'[c] = run[c] \/ Starts(c) \/ Ends(c)
          /\ told'[c] = told[c] \/ Tells(c)

Spec == Init /\ [][Next]_vars
=============================================================================
