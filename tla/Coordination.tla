----------------------------- MODULE Coordination -----------------------------
(***************************************************************************)
(* Coordinator mode: the turns of an owner become one job at a time for a  *)
(* coordinator model, and its plan is applied (gateway.py, supervision.py).*)
(* A turn submitted while the job waits or is with the model supersedes    *)
(* it, and takes its turns along.                                          *)
(*                                                                         *)
(* One asyncio loop; an action is what happens between two awaits.  The    *)
(* model lock is held from the model's call to the end of the plan, the    *)
(* owner lock while a plan is applied; a submission takes the owner lock   *)
(* and never waits inside.  The model is external, its calls bounded by    *)
(* coordinator_timeout_s.                                                  *)
(***************************************************************************)
EXTENDS Naturals, FiniteSets

CONSTANTS
    Turns,               \* the turns the front end submits
    MaxConsults,         \* bound: asks of workers that go to the model
    MaxCoordCrashes,     \* bound: times the process dies
    NoTurn               \* no turn

ASSUME TurnsAssumption ==
    NoTurn \notin Turns /\ MaxConsults \in Nat /\ MaxCoordCrashes \in Nat

VARIABLES
    cjob,      \* the owner's coordination job: durable
    receipts,  \* turns whose receipt is stored: durable
    runner,    \* _run_coordination: where it is, and the job it claimed
    caller,    \* coordinate_turn_and_wait of each turn: where it is
    consult,   \* _coordinate_worker_interaction
    alive,     \* the process runs
    consults, ccrashes,  \* how much of each bound is used
    applied,   \* history: how many plans that hold the turn were begun
    failed,    \* history: turns of a job that failed, which the owner is told
    finished,  \* history: requests whose own plan was applied to its end
    redone,    \* history: turns whose plan a crash cut short
    replied    \* history: what each caller was told

coordVars == <<cjob, receipts, runner, caller, consult, alive, consults, ccrashes,
               applied, failed, finished, redone, replied>>

CoordOpen == {"pending", "coordinating"}
NoJob     == [req |-> NoTurn, turns |-> {}, state |-> "none"]
HasResult(j) == j.state \in {"completed", "failed"}

CoordTypeOK ==
    /\ cjob \in [req : Turns \cup {NoTurn}, turns : SUBSET Turns,
                 state : {"none", "completed", "failed"} \cup CoordOpen]
    /\ receipts \subseteq Turns
    /\ runner \in [pc : {"off", "claim", "model lock", "model", "owner lock", "apply"},
                   req : Turns \cup {NoTurn}, turns : SUBSET Turns]
    /\ caller \in [Turns -> {"none", "owner lock", "wait", "woken", "told"}]
    /\ consult \in {"none", "model lock", "model", "owner lock", "apply"}
    /\ alive \in BOOLEAN /\ consults \in 0..MaxConsults /\ ccrashes \in 0..MaxCoordCrashes
    /\ applied \in [Turns -> Nat]
    /\ failed \subseteq Turns /\ finished \subseteq Turns /\ redone \subseteq Turns
    /\ replied \in [Turns -> {"none", "result", "superseded"}]

Off == [pc |-> "off", req |-> NoTurn, turns |-> {}]

CoordInit ==
    /\ cjob = NoJob /\ receipts = {} /\ runner = Off
    /\ caller = [t \in Turns |-> "none"] /\ consult = "none" /\ alive = TRUE
    /\ consults = 0 /\ ccrashes = 0 /\ applied = [t \in Turns |-> 0]
    /\ failed = {} /\ finished = {} /\ redone = {}
    /\ replied = [t \in Turns |-> "none"]

ModelLocked == runner.pc \in {"model", "owner lock", "apply"}
                  \/ consult \in {"model", "owner lock", "apply"}
OwnerLocked == runner.pc = "apply" \/ consult = "apply"
\* _coordination_is_current
Current == cjob.req = runner.req /\ cjob.state = "coordinating"

Woken(c, r) == [t \in Turns |-> IF t = r /\ c[t] = "wait" THEN "woken" ELSE c[t]]

-----------------------------------------------------------------------------
(* The front end's side: coordinate_turn_and_wait.                           *)

CallIn(t) ==
    /\ alive /\ caller[t] = "none" /\ caller' = [caller EXCEPT ![t] = "owner lock"]
    /\ UNCHANGED <<cjob, receipts, runner, consult, alive, consults, ccrashes, applied,
                   failed, finished, redone, replied>>

\* A faulty variant: the turns of a job that is over are taken along.
Submit_TakesAll(t) ==
    /\ alive /\ caller[t] = "owner lock" /\ ~OwnerLocked /\ t \notin receipts
    /\ cjob' = [req |-> t, state |-> "pending",
                turns |-> {t} \cup cjob.turns]
    /\ receipts' = receipts \cup {t}
    /\ caller' = [Woken(caller, cjob.req) EXCEPT ![t] = "wait"]
    /\ runner' = IF runner.pc = "off" THEN [runner EXCEPT !.pc = "claim"] ELSE runner
    /\ UNCHANGED <<consult, alive, consults, ccrashes, applied, failed, finished, redone,
                   replied>>

\* A faulty variant: the caller of the request that is superseded is not woken.
Submit_Silent(t) ==
    /\ alive /\ caller[t] = "owner lock" /\ ~OwnerLocked /\ t \notin receipts
    /\ cjob' = [req |-> t, state |-> "pending",
                turns |-> {t} \cup IF cjob.state \in CoordOpen THEN cjob.turns ELSE {}]
    /\ receipts' = receipts \cup {t}
    /\ caller' = [caller EXCEPT ![t] = "wait"]
    /\ runner' = IF runner.pc = "off" THEN [runner EXCEPT !.pc = "claim"] ELSE runner
    /\ UNCHANGED <<consult, alive, consults, ccrashes, applied, failed, finished, redone,
                   replied>>

\* submit_coordination, and the caller of a superseded request is signalled
Submit(t) ==
    /\ alive /\ caller[t] = "owner lock" /\ ~OwnerLocked /\ t \notin receipts
    /\ cjob' = [req |-> t, state |-> "pending",
                turns |-> {t} \cup IF cjob.state \in CoordOpen THEN cjob.turns ELSE {}]
    /\ receipts' = receipts \cup {t}
    /\ caller' = [Woken(caller, cjob.req) EXCEPT ![t] = "wait"]
    /\ runner' = IF runner.pc = "off" THEN [runner EXCEPT !.pc = "claim"] ELSE runner
    /\ UNCHANGED <<consult, alive, consults, ccrashes, applied, failed, finished, redone,
                   replied>>

\* What wait_coordination says without waiting, and after its wait
Told(t) ==
    /\ caller' = [caller EXCEPT ![t] = "told"]
    /\ replied' = [replied EXCEPT ![t] = IF cjob.req = t /\ HasResult(cjob)
                                         THEN "result" ELSE "superseded"]

\* A turn submitted again: its receipt says pending, whatever became of it.
Resubmit(t) ==
    /\ alive /\ caller[t] = "owner lock" /\ ~OwnerLocked /\ t \in receipts
    /\ IF cjob.req = t /\ ~HasResult(cjob)
       THEN caller' = [caller EXCEPT ![t] = "wait"] /\ UNCHANGED replied
       ELSE Told(t)
    /\ UNCHANGED <<cjob, receipts, runner, consult, alive, consults, ccrashes, applied,
                   failed, finished, redone>>

Wake(t) ==
    /\ alive /\ caller[t] = "woken" /\ Told(t)
    /\ UNCHANGED <<cjob, receipts, runner, consult, alive, consults, ccrashes, applied,
                   failed, finished, redone>>

-----------------------------------------------------------------------------
(* The owner's job: _run_coordination.                                       *)

RunnerAt(pc) == alive /\ runner.pc = pc
RunnerTo(pc) == runner' = [runner EXCEPT !.pc = pc]

Claim ==
    /\ RunnerAt("claim")
    /\ IF cjob.state = "pending"
       THEN /\ cjob' = [cjob EXCEPT !.state = "coordinating"]
            /\ runner' = [pc |-> "model lock", req |-> cjob.req, turns |-> cjob.turns]
       ELSE runner' = Off /\ UNCHANGED cjob
    /\ UNCHANGED <<receipts, caller, consult, alive, consults, ccrashes, applied, failed,
                   finished, redone, replied>>

TakeModel ==
    /\ RunnerAt("model lock") /\ ~ModelLocked
    /\ RunnerTo(IF Current THEN "model" ELSE "claim")
    /\ UNCHANGED <<cjob, receipts, caller, consult, alive, consults, ccrashes, applied,
                   failed, finished, redone, replied>>

ModelPlans ==
    /\ RunnerAt("model") /\ RunnerTo("owner lock")
    /\ UNCHANGED <<cjob, receipts, caller, consult, alive, consults, ccrashes, applied,
                   failed, finished, redone, replied>>

\* A faulty variant: a result wakes nobody.
EndJob_Silent(state) ==
    IF Current
    THEN /\ cjob' = [cjob EXCEPT !.state = state] /\ UNCHANGED caller
         /\ failed' = IF state = "failed" THEN failed \cup runner.turns ELSE failed
    ELSE UNCHANGED <<cjob, caller, failed>>

\* finish_coordination_job refuses a job that was superseded.
EndJob(state) ==
    IF Current
    THEN /\ cjob' = [cjob EXCEPT !.state = state] /\ caller' = Woken(caller, runner.req)
         /\ failed' = IF state = "failed" THEN failed \cup runner.turns ELSE failed
    ELSE UNCHANGED <<cjob, caller, failed>>

\* The model failed, or took too long: _finish_coordination_failure
ModelFails ==
    /\ RunnerAt("model") /\ RunnerTo("claim") /\ EndJob("failed")
    /\ UNCHANGED <<receipts, consult, alive, consults, ccrashes, applied, finished, redone,
                   replied>>

BeginPlan ==
    /\ RunnerAt("owner lock") /\ ~OwnerLocked
    /\ RunnerTo(IF Current THEN "apply" ELSE "claim")
    /\ applied' = [t \in Turns |->
          IF Current /\ t \in runner.turns THEN applied[t] + 1 ELSE applied[t]]
    /\ UNCHANGED <<cjob, receipts, caller, consult, alive, consults, ccrashes, failed,
                   finished, redone, replied>>

\* The plan is applied to its end, or refused at one of its commands.
EndPlan ==
    /\ RunnerAt("apply") /\ RunnerTo("claim") /\ EndJob("completed")
    /\ finished' = finished \cup {runner.req}
    /\ UNCHANGED <<receipts, consult, alive, consults, ccrashes, applied, redone, replied>>

PlanBreaks ==
    /\ RunnerAt("apply") /\ RunnerTo("claim") /\ EndJob("failed")
    /\ UNCHANGED <<receipts, consult, alive, consults, ccrashes, applied, finished, redone,
                   replied>>

\* A worker's ask that the coordinator is to answer takes the same locks.
ConsultBegins ==
    /\ alive /\ consult = "none" /\ consults < MaxConsults
    /\ consults' = consults + 1 /\ consult' = "model lock"
    /\ UNCHANGED <<cjob, receipts, runner, caller, alive, ccrashes, applied, failed,
                   finished, redone, replied>>
Consult ==
    /\ alive
    /\ \/ consult = "model lock" /\ ~ModelLocked /\ consult' = "model"
       \/ consult = "model" /\ consult' \in {"owner lock", "none"}
       \/ consult = "owner lock" /\ ~OwnerLocked /\ consult' = "apply"
       \/ consult = "apply" /\ consult' = "none"
    /\ UNCHANGED <<cjob, receipts, runner, caller, alive, consults, ccrashes, applied,
                   failed, finished, redone, replied>>

-----------------------------------------------------------------------------
CoordCrash ==
    /\ alive /\ ccrashes < MaxCoordCrashes /\ ccrashes' = ccrashes + 1
    /\ alive' = FALSE /\ runner' = Off /\ consult' = "none"
    /\ caller' = [t \in Turns |-> IF caller[t] = "told" THEN "told" ELSE "none"]
    /\ redone' = IF runner.pc = "apply" THEN redone \cup runner.turns ELSE redone
    /\ UNCHANGED <<cjob, receipts, consults, applied, failed, finished, replied>>

\* recover_coordination_jobs, and what is pending is scheduled
CoordRestart ==
    /\ ~alive /\ alive' = TRUE
    /\ cjob' = [cjob EXCEPT !.state = IF @ = "coordinating" THEN "pending" ELSE @]
    /\ runner' = [runner EXCEPT !.pc = IF cjob.state \in CoordOpen THEN "claim" ELSE "off"]
    /\ UNCHANGED <<receipts, caller, consult, consults, ccrashes, applied, failed, finished,
                   redone, replied>>

RunnerNext == Claim \/ TakeModel \/ ModelPlans \/ ModelFails \/ BeginPlan \/ EndPlan \/ PlanBreaks
CallerNext(t) == Submit(t) \/ Resubmit(t) \/ Wake(t)

CoordNext ==
    \/ \E t \in Turns : CallIn(t) \/ CallerNext(t)
    \/ RunnerNext \/ ConsultBegins \/ Consult \/ CoordCrash \/ CoordRestart

CoordFairness ==
    \* asyncio's locks serve in order
    /\ \A t \in Turns : SF_coordVars(CallerNext(t))
    /\ SF_coordVars(RunnerNext) /\ WF_coordVars(Consult) /\ WF_coordVars(CoordRestart)

CoordSpec     == CoordInit /\ [][CoordNext]_coordVars
CoordFairSpec == CoordSpec /\ CoordFairness

-----------------------------------------------------------------------------
\* No turn is lost: once its receipt is stored it is in the job to come, in a plan
\* that was begun, or in a job whose failure the owner hears of.
NoTurnLost ==
    \A t \in receipts :
       \/ t \in cjob.turns /\ cjob.state \in CoordOpen
       \/ applied[t] > 0 \/ t \in failed

\* Nor taken twice: a turn folded into later jobs is in one plan, and in a second
\* one only when the process died in the middle of the first.
TurnPlannedOnce == \A t \in Turns : applied[t] > 1 => t \in redone

\* No lost wake-up: who waits waits for the job that is there, not yet finished.
NobodyWaitsInVain ==
    \A t \in Turns : caller[t] = "wait" => cjob.req = t /\ ~HasResult(cjob)

\* Every caller hears something in the end.
CallerHears ==
    \A t \in Turns : caller[t] = "owner lock" ~> caller[t] \in {"told", "none"}

\* The caller of a turn whose own plan was applied hears its result.
ResultIsTold ==
    \A t \in Turns : replied[t] = "superseded" => t \notin finished
=============================================================================
