---------------------------- MODULE MCRunControl ----------------------------
(***************************************************************************)
(* RunControl at three sizes: one run whose workflow may be re-run, with   *)
(* every endpoint and two requests in flight; two runs, with a crash, a    *)
(* reconciler and one request at a time; and a run that is cancelled, on   *)
(* its own, without a crash.                                               *)
(***************************************************************************)
EXTENDS RunControl, TLC

CONSTANT Parts    \* the sizes of the run

VARIABLE part

OneRun == crashes' = 0 /\ \A r \in Runs \ {1} : run'[r].status = "none"
NoUser == \A p \in Users \cup CancelTasks : proc'[p].pc = "idle"

Reported ==
    {proc'[p].patch : p \in Procs} \cup {run'[r].patch : r \in Runs} \cup {job'.diff}
Alone ==
    /\ \A r \in Runs : attempts'[r] <= 1
    /\ \A q \in Requests : proc'[q].pc \notin {"sp_start", "so_claim", "so_stream", "fa_body"}
    /\ Cardinality({q \in Requests : proc'[q].pc # "idle"}) <= 1
    /\ Cardinality(Reported \ {NoPatch}) <= 1

\* With two runs, a reconciler that has read its batch looks at it between requests.
TakesTurns ==
    \A q \in Requests, c \in Reconcilers : proc'[q].pc # "idle" => proc'[c].pc = "idle"

\* A request that arrives finds the reconciler at rest, and may meet it from there on.
ArrivesBetween ==
    \A q \in Requests, c \in Reconcilers :
        proc[q].pc = "idle" /\ proc'[q].pc # "idle" => proc[c].pc = "idle" /\ batch[c] = {}

MCInit == Init /\ part \in Parts
MCNext == /\ Next /\ UNCHANGED part
          /\ part = "callbacks" => OneRun /\ NoUser /\ UNCHANGED batch
          /\ part = "redelivery" => Alone /\ NoUser /\ TakesTurns
          /\ part = "cancel" => OneRun /\ Alone /\ ArrivesBetween

MCSpec     == MCInit /\ [][MCNext]_<<part, vars>>
MCFairSpec == MCSpec /\ Fairness

(* Requests in flight are interchangeable, and so are the patches: no guard or
   assignment singles one out.  Only safety is checked with it. *)
Symmetry == Permutations(Requests) \cup Permutations(Patches)
=============================================================================
