--------------------------- MODULE MCReviewPublish ---------------------------
(***************************************************************************)
(* ReviewPublish with one approval, on either route: the dashboard's       *)
(* without crashes, or the public API's with them.  Two requests are in    *)
(* flight at a time, or one of them beside a crash.                        *)
(***************************************************************************)
EXTENDS ReviewPublish, FiniteSets

VARIABLE route

Still(A) == \A a \in A : proc'[a] = proc[a]

\* How many requests are in flight.
Busy == Cardinality({p \in Web : proc'[p].pc # "idle"})

MCInit == Init /\ route \in {"dashboard", "api"}
MCNext == /\ Next /\ UNCHANGED route
          /\ route = "dashboard" => crashes' = 0 /\ Still(Api) /\ Busy <= 2
          /\ route = "api" => Still(Dashboard) /\ Busy + crashes' <= 2

MCFairSpec == MCInit /\ [][MCNext]_<<route, vars>> /\ Fairness

\* A job's status agrees with its one decision, when the approval is the public API's
\* (public_api.py:643).
ApiStatusFollowsDecision == route = "api" => StatusFollowsDecision
=============================================================================
