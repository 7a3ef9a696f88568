---------------------------- MODULE MCComponents ----------------------------
(***************************************************************************)
(* Components that share no state, checked side by side: a behaviour is    *)
(* of one of them, and the others rest in their initial state.             *)
(***************************************************************************)
EXTENDS TaskGateway, Coordination, CodexRun, Visual

CONSTANTS
    Parts,    \* the components of the run
    t1,       \* the task of the part that has one
    x1,       \* the run that has side queries
    s1, g1    \* the visual session that is asked much, and its first goal

VARIABLE part

MCWorkspaceOf == [t \in Tasks |-> CHOOSE w \in Workspaces : TRUE]
MCSides       == {x1} \X CxQueries

\* The tasks at three sizes: two tasks that compete, one of which asks, with a fault or
\* a crash; two that compete and never ask; one task.
Silent(S)  == \A t \in S : \A i \in DOMAIN outbox'[t] : outbox'[t][i] = Final
TasksRace  == Next /\ Silent(Tasks \ {t1}) /\ faults' + crashes' <= 1
TasksQueue == Next /\ Silent(Tasks) /\ crashes' = 0
TaskAlone  == Next /\ \A t \in Tasks \ {t1} : led'[t].status = "none"

\* The turns of a coordinator, with a crash or a worker's ask.
CoordOne == CoordNext /\ consults' + ccrashes' <= 1

\* The runs of the Codex worker at three sizes: two runs one after the other, the second
\* of one turn; one run of one turn with two side queries, or one and a replayed command;
\* one run and a failure, with a second turn or a side query.
Alone       == \A r \in CxRuns \ {x1} : ~cx'[r].started
OneTurn(R)  == \A r \in R : srv'.n[r] <= 1
NoSide      == \A y \in Sides : srv'.side[y] = "none"
NoReplay    == \A r \in CxRuns : cx'[r].queued = cx[r].queued
OneSide     == Cardinality({y \in Sides : srv'.side[y] # "none"}) <= 1
CodexRuns   == CxNext /\ NoReplay /\ NoSide /\ OneTurn(CxRuns \ {x1})
                      /\ \A r \in CxRuns, k \in CxAsks : srv'.ask[r][k] = "none"
CodexSide   == CxNext /\ Alone /\ cxfaults' = 0 /\ OneTurn({x1})
                      /\ (OneSide \/ \A r \in CxRuns : cx'[r].queued = (r \in Queued))
CodexFaults == CxNext /\ Alone /\ NoReplay /\ OneSide /\ (OneTurn({x1}) \/ NoSide)

\* The visual service at two sizes: one session whose requests race, with new frames or
\* new tasks but not many of both, and no sink; two sessions one after the other and the
\* way of their usage.
OneQueues     == \A c, d \in VsCallers : vcall'[c].pc = "lock" /\ vcall'[d].pc = "lock" => c = d
OneSession    == \A s \in VsSessions \ {s1} : vs'[s].st = "none"
VisualAnswers ==
    /\ VsNext /\ UNCHANGED <<sink, vsfaults>> /\ life' = "up" /\ OneSession /\ OneQueues
    /\ vs'[s1].reads = 0 /\ vs'[s1].frames + vs'[s1].tasks <= 3
    /\ vs'[s1].answers <= 2 \/ vs'[s1].frames + vs'[s1].tasks <= 2
    /\ vs'[s1].tasks = 1 /\ vs'[s1].st = "open" => vs'[s1].goal = g1
VisualUsage ==
    /\ VsNext /\ \A s \in VsSessions \ {s1} : vs'[s].reads + vs'[s].answers = 0
    /\ \A s \in VsSessions : /\ vs'[s].tasks = 0 /\ vs'[s].answers + vs'[s].reads <= 1
                            /\ vs'[s].frames <= 1 /\ vs'[s].look = "moving"
    /\ \A c \in VsCallers : vcall'[c].pc # "idle" =>
          /\ vcall'[c].kind = "perception" /\ c = CHOOSE d \in VsCallers : TRUE
          /\ vcall'[c].req = CHOOSE r \in VsRequests : TRUE

MCInit == Init /\ CoordInit /\ CxInit /\ VsInit /\ part \in Parts
MCNext ==
    \/ part = "tasks" /\ TasksRace /\ UNCHANGED <<part, coordVars, cxVars, vsVars>>
    \/ part = "tasks that queue" /\ TasksQueue /\ UNCHANGED <<part, coordVars, cxVars, vsVars>>
    \/ part = "a task" /\ TaskAlone /\ UNCHANGED <<part, coordVars, cxVars, vsVars>>
    \/ part = "coordinator" /\ CoordOne /\ UNCHANGED <<part, vars, cxVars, vsVars>>
    \/ part = "codex runs" /\ CodexRuns /\ UNCHANGED <<part, vars, coordVars, vsVars>>
    \/ part = "codex side queries" /\ CodexSide /\ UNCHANGED <<part, vars, coordVars, vsVars>>
    \/ part = "codex faults" /\ CodexFaults /\ UNCHANGED <<part, vars, coordVars, vsVars>>
    \/ part = "visual answers" /\ VisualAnswers /\ UNCHANGED <<part, vars, coordVars, cxVars>>
    \/ part = "visual usage" /\ VisualUsage /\ UNCHANGED <<part, vars, coordVars, cxVars>>

MCVars == <<part, vars, coordVars, cxVars, vsVars>>
MCSpec == MCInit /\ [][MCNext]_MCVars
MCFairSpec == MCSpec /\ Fairness /\ CoordFairness /\ CxFairness

MCTypeOK == TypeOK /\ CoordTypeOK /\ CxTypeOK
=============================================================================
