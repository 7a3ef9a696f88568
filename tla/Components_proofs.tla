--------------------------- MODULE Components_proofs ---------------------------
(***************************************************************************)
(* The components beside the gateway: the coordinator and the Codex run.   *)
(*                                                                         *)
(* The turns of a coordinator, for any number of turns, workers' asks and  *)
(* crashes: none is lost, none is planned twice, and no caller waits for   *)
(* a job that is not there.  Once a turn is in a plan, it must not be in a *)
(* job to come.  The plan is applied under the owner lock, so no           *)
(* submission falls into it (Applies), a job is superseded by a turn that  *)
(* is new (Known), and a crash inside a plan marks the turns it held: what *)
(* an open job holds and a plan held before was cut short (NotPlannedYet). *)
(*                                                                         *)
(* The runs of the Codex worker, for any number of runs, questions, side   *)
(* queries, turns and faults: a run in use keeps its place, and what the   *)
(* worker asks is held until it is answered.  A call that closes works on  *)
(* a closed run and a start on one that did not work yet (RunFitsPlace),   *)
(* so what a late call gives up is not the next run's.  An open question   *)
(* is held, or on its way, and no end of its turn was said after it        *)
(* (HeldBy): that end, when it is read, lets go what the run holds.  Two   *)
(* more facts carry it: a question that is said to be resolved is not open *)
(* any more (ResolvedFits), and the side query that may still be answered  *)
(* is the one the run knows of, unless two overlapped (SideKnown), for the *)
(* end of another is taken for the end of a turn.                          *)
(***************************************************************************)
EXTENDS Coordination, CodexRun, TLAPS, FiniteSetTheorems, SequenceTheorems

-----------------------------------------------------------------------------
(* The coordinator.                                                          *)

\* Who submitted, what waits and what was planned has its receipt.
Known ==
    /\ cjob.turns \subseteq receipts /\ cjob.req \in receipts \cup {NoTurn}
    /\ runner.turns \subseteq receipts /\ runner.req \in receipts \cup {NoTurn}
    /\ \A t \in Turns : applied[t] > 0 => t \in receipts

\* The job a runner claimed has the turns it had then, unless it was superseded.
Working == {"model lock", "model", "owner lock", "apply"}
Claimed == runner.pc \in Working /\ cjob.req = runner.req => cjob.turns = runner.turns

\* A plan that is being applied is the one of the owner's job, begun for all its turns.
Applies ==
    runner.pc = "apply" =>
        Current /\ runner.req # NoTurn /\ \A t \in runner.turns : applied[t] > 0

\* A turn of the job to come was in no plan yet, or in one that was cut short.
NotPlannedYet ==
    cjob.state \in CoordOpen /\ runner.pc # "apply" =>
        \A t \in cjob.turns : applied[t] > 0 => t \in redone

\* A job that is to be done was submitted by a turn.
OwnerRequest == cjob.state # "none" => cjob.req # NoTurn

\* Nothing runs while the process is down.
NothingRuns == ~alive => runner.pc = "off"

CoordInv ==
    /\ CoordTypeOK /\ Known /\ Claimed /\ Applies /\ NotPlannedYet
    /\ OwnerRequest /\ NothingRuns
    /\ TurnPlannedOnce /\ NoTurnLost /\ NobodyWaitsInVain

-----------------------------------------------------------------------------
(* Types.                                                                    *)

\* The types hold at first.
LEMMA CoordTypesInit == CoordInit => CoordTypeOK
  BY TurnsAssumption
  DEF CoordInit, CoordTypeOK, NoJob, Off, CoordOpen

\* What the types say of the single fields.
LEMMA CoordFields ==
    ASSUME CoordTypeOK
    PROVE  /\ consults \in 0..MaxConsults /\ ccrashes \in 0..MaxCoordCrashes
           /\ \A t \in Turns : applied[t] \in Nat
           /\ receipts \subseteq Turns /\ cjob.turns \subseteq Turns /\ runner.turns \subseteq Turns
           /\ \A s : LET j == [cjob EXCEPT !.state = s]
                    IN  j.state = s /\ j.req = cjob.req /\ j.turns = cjob.turns
           /\ \A l : LET w == [runner EXCEPT !.pc = l]
                    IN  w.pc = l /\ w.req = runner.req /\ w.turns = runner.turns
<1>1. consults \in 0..MaxConsults /\ ccrashes \in 0..MaxCoordCrashes
  BY DEF CoordTypeOK
<1>2. \A t \in Turns : applied[t] \in Nat
  BY DEF CoordTypeOK
<1>3. receipts \subseteq Turns /\ cjob.turns \subseteq Turns /\ runner.turns \subseteq Turns
  BY DEF CoordTypeOK
<1>4. ASSUME NEW s
      PROVE  LET j == [cjob EXCEPT !.state = s]
             IN  j.state = s /\ j.req = cjob.req /\ j.turns = cjob.turns
  BY DEF CoordTypeOK
<1>5. ASSUME NEW l
      PROVE  LET w == [runner EXCEPT !.pc = l]
             IN  w.pc = l /\ w.req = runner.req /\ w.turns = runner.turns
  BY DEF CoordTypeOK
<1> QED  BY <1>1, <1>2, <1>3, <1>4, <1>5

\* Whoever is woken was waiting.
LEMMA WokenType ==
    ASSUME CoordTypeOK, NEW r
    PROVE  Woken(caller, r) \in [Turns -> {"none", "owner lock", "wait", "woken", "told"}]
  BY DEF CoordTypeOK, Woken

\* The types are kept by the steps of a caller.
LEMMA CallerTypes ==
    ASSUME CoordTypeOK, NEW t \in Turns, CallIn(t) \/ CallerNext(t)
    PROVE  CoordTypeOK'
<1>1. CASE CallIn(t)
  BY <1>1 DEF CallIn, CoordTypeOK
<1>2. CASE Submit(t)
  <2>1. cjob' \in [req : Turns \cup {NoTurn}, turns : SUBSET Turns,
                   state : {"none", "completed", "failed"} \cup CoordOpen]
    BY <1>2 DEF Submit, CoordTypeOK, CoordOpen
  <2>2. caller' \in [Turns -> {"none", "owner lock", "wait", "woken", "told"}]
    BY <1>2, WokenType DEF Submit
  <2>3. runner' \in [pc : {"off", "claim", "model lock", "model", "owner lock", "apply"},
                     req : Turns \cup {NoTurn}, turns : SUBSET Turns]
    BY <1>2 DEF Submit, CoordTypeOK
  <2> QED  BY <1>2, <2>1, <2>2, <2>3 DEF Submit, CoordTypeOK
<1>3. CASE Resubmit(t)
  BY <1>3 DEF Resubmit, Told, CoordTypeOK
<1>4. CASE Wake(t)
  BY <1>4 DEF Wake, Told, CoordTypeOK
<1> QED  BY <1>1, <1>2, <1>3, <1>4 DEF CallerNext

\* What the end of a job writes has its type.
LEMMA EndJobTypes ==
    ASSUME CoordTypeOK, NEW s \in {"completed", "failed"}, EndJob(s)
    PROVE  /\ cjob' \in [req : Turns \cup {NoTurn}, turns : SUBSET Turns,
                         state : {"none", "completed", "failed"} \cup CoordOpen]
           /\ caller' \in [Turns -> {"none", "owner lock", "wait", "woken", "told"}]
           /\ failed' \subseteq Turns
<1>1. cjob' \in [req : Turns \cup {NoTurn}, turns : SUBSET Turns,
                 state : {"none", "completed", "failed"} \cup CoordOpen]
  BY DEF EndJob, CoordTypeOK
<1>2. caller' \in [Turns -> {"none", "owner lock", "wait", "woken", "told"}]
  <2>1. Woken(caller, runner.req) \in [Turns -> {"none", "owner lock", "wait", "woken", "told"}]
    BY WokenType
  <2> QED  BY <2>1 DEF EndJob, CoordTypeOK
<1>3. failed' \subseteq Turns
  BY DEF EndJob, CoordTypeOK
<1> QED  BY <1>1, <1>2, <1>3

\* A plan that ends is some turn's, so the request it finished is a turn.
LEMMA RunnerTypes ==
    ASSUME CoordTypeOK, Applies, RunnerNext
    PROVE  CoordTypeOK'
<1>1. CASE Claim
  <2>1. /\ cjob' \in [req : Turns \cup {NoTurn}, turns : SUBSET Turns,
                      state : {"none", "completed", "failed"} \cup CoordOpen]
    BY <1>1 DEF Claim, CoordTypeOK, CoordOpen
  <2>2. runner' \in [pc : {"off", "claim", "model lock", "model", "owner lock", "apply"},
                     req : Turns \cup {NoTurn}, turns : SUBSET Turns]
    <3>1. CASE runner' = Off
      BY <3>1 DEF Off
    <3>2. CASE runner' = [pc |-> "model lock", req |-> cjob.req, turns |-> cjob.turns]
      BY <3>2 DEF CoordTypeOK
    <3> QED  BY <1>1, <3>1, <3>2 DEF Claim
  <2> QED  BY <1>1, <2>1, <2>2 DEF Claim, CoordTypeOK
<1>2. CASE TakeModel
  BY <1>2 DEF TakeModel, RunnerTo, CoordTypeOK
<1>3. CASE ModelPlans
  BY <1>3 DEF ModelPlans, RunnerTo, CoordTypeOK
<1>4. CASE BeginPlan
  <2>1. applied' \in [Turns -> Nat]
    <3>1. \A t \in Turns : applied[t] \in Nat
      BY CoordFields
    <3>2. applied' = [t \in Turns |->
             IF Current /\ t \in runner.turns THEN applied[t] + 1 ELSE applied[t]]
      BY <1>4 DEF BeginPlan
    <3> QED  BY <3>1, <3>2
  <2>2. runner' \in [pc : {"off", "claim", "model lock", "model", "owner lock", "apply"},
                     req : Turns \cup {NoTurn}, turns : SUBSET Turns]
    BY <1>4 DEF BeginPlan, RunnerTo, CoordTypeOK
  <2> QED  BY <1>4, <2>1, <2>2 DEF BeginPlan, CoordTypeOK
<1>5. CASE ModelFails
  BY <1>5, EndJobTypes DEF ModelFails, RunnerTo, CoordTypeOK
<1>6. CASE PlanBreaks
  BY <1>6, EndJobTypes DEF PlanBreaks, RunnerTo, CoordTypeOK
<1>7. CASE EndPlan
  <2>1. finished' \subseteq Turns
    BY <1>7 DEF EndPlan, RunnerAt, Applies, CoordTypeOK
  <2> QED  BY <1>7, <2>1, EndJobTypes DEF EndPlan, RunnerTo, CoordTypeOK
<1> QED  BY <1>1, <1>2, <1>3, <1>4, <1>5, <1>6, <1>7 DEF RunnerNext

\* The types are kept by consultations, crashes and restarts.
LEMMA OtherTypes ==
    ASSUME CoordTypeOK, ConsultBegins \/ Consult \/ CoordCrash \/ CoordRestart
    PROVE  CoordTypeOK'
<1>1. CASE ConsultBegins
  <2>1. consults' \in 0..MaxConsults
    <3>1. consults \in 0..MaxConsults
      BY CoordFields
    <3>2. consults < MaxConsults /\ consults' = consults + 1
      BY <1>1 DEF ConsultBegins
    <3> QED  BY <3>1, <3>2, TurnsAssumption
  <2> QED  BY <1>1, <2>1 DEF ConsultBegins, CoordTypeOK
<1>2. CASE Consult
  BY <1>2 DEF Consult, CoordTypeOK
<1>3. CASE CoordCrash
  <2>1. ccrashes' \in 0..MaxCoordCrashes
    BY <1>3, CoordFields, TurnsAssumption DEF CoordCrash
  <2>2. caller' \in [Turns -> {"none", "owner lock", "wait", "woken", "told"}]
        /\ redone' \subseteq Turns
    BY <1>3 DEF CoordCrash, CoordTypeOK
  <2> QED  BY <1>3, <2>1, <2>2 DEF CoordCrash, CoordTypeOK, Off
<1>4. CASE CoordRestart
  BY <1>4 DEF CoordRestart, CoordTypeOK, CoordOpen
<1> QED  BY <1>1, <1>2, <1>3, <1>4

-----------------------------------------------------------------------------
(* One lemma per step.                                                       *)

\* What neither submits, claims, plans, ends, crashes nor restarts.
Aside ==
    /\ UNCHANGED <<cjob, receipts, runner, alive, applied, failed, redone>>
    /\ \A t \in Turns : caller'[t] = "wait" =>
          caller[t] = "wait" \/ (cjob.req = t /\ ~HasResult(cjob))

\* The steps that touch neither the job nor its runner.
LEMMA AsideSteps ==
    ASSUME CoordTypeOK,
           \/ \E t \in Turns : CallIn(t) \/ Resubmit(t) \/ Wake(t)
           \/ ConsultBegins \/ Consult \/ UNCHANGED coordVars
    PROVE  Aside
<1>1. ASSUME NEW t \in Turns, CallIn(t) \/ Resubmit(t) \/ Wake(t)  PROVE Aside
  BY <1>1 DEF CallIn, Resubmit, Wake, Told, Aside, CoordTypeOK
<1>2. CASE ConsultBegins \/ Consult
  BY <1>2 DEF ConsultBegins, Consult, Aside
<1>3. CASE UNCHANGED coordVars
  BY <1>3 DEF coordVars, Aside
<1> QED  BY <1>1, <1>2, <1>3

\* Such a step keeps the invariant.
LEMMA AsideStep ==
    ASSUME CoordInv, CoordTypeOK', Aside
    PROVE  CoordInv'
<1>1. Known'
  BY DEF CoordInv, Aside, Known
<1>2. Claimed'
  BY DEF CoordInv, Aside, Claimed
<1>3. Applies'
  BY DEF CoordInv, Aside, Applies, Current
<1>4. NotPlannedYet' /\ OwnerRequest' /\ NothingRuns'
  BY DEF CoordInv, Aside, NotPlannedYet, OwnerRequest, NothingRuns
<1>5. TurnPlannedOnce' /\ NoTurnLost'
  BY DEF CoordInv, Aside, TurnPlannedOnce, NoTurnLost
<1>6. NobodyWaitsInVain'
  BY DEF CoordInv, Aside, NobodyWaitsInVain, HasResult
<1> QED BY <1>1, <1>2, <1>3, <1>4, <1>5, <1>6 DEF CoordInv

\* A new turn takes the turns of an open job along; no plan is being applied.
LEMMA SubmitStep ==
    ASSUME CoordInv, CoordTypeOK', NEW t \in Turns, Submit(t)
    PROVE  CoordInv'
<1> USE DEF CoordInv
<1>1. /\ runner.pc # "apply" /\ runner'.pc # "apply" /\ alive /\ t \notin receipts
      /\ runner'.req = runner.req /\ runner'.turns = runner.turns
      /\ runner'.pc \in Working => runner.pc \in Working
      /\ UNCHANGED <<alive, applied, failed, redone>>
      /\ receipts' = receipts \cup {t}
  <2>1. /\ alive /\ t \notin receipts /\ receipts' = receipts \cup {t}
        /\ runner.pc # "apply" /\ UNCHANGED <<alive, applied, failed, redone>>
    BY DEF Submit, OwnerLocked
  <2>2. /\ runner'.req = runner.req /\ runner'.turns = runner.turns
        /\ runner'.pc = runner.pc \/ (runner'.pc = "claim" /\ runner.pc = "off")
    BY CoordFields DEF Submit
  <2> QED  BY <2>1, <2>2 DEF Working
<1>2. /\ cjob'.req = t /\ cjob'.state = "pending"
      /\ cjob'.turns = {t} \cup IF cjob.state \in CoordOpen THEN cjob.turns ELSE {}
      /\ \A u \in Turns : caller'[u] = "wait" => u = t \/ (caller[u] = "wait" /\ u # cjob.req)
  BY DEF Submit, Woken, CoordTypeOK
<1>3. Known'
  BY <1>1, <1>2 DEF Known
<1>4. Claimed' /\ Applies' /\ NothingRuns' /\ OwnerRequest'
  <2>1. runner.req # t
    BY <1>1, TurnsAssumption DEF Known
  <2> QED  BY <1>1, <1>2, <2>1, TurnsAssumption DEF Claimed, Applies, OwnerRequest, NothingRuns
<1>5. NotPlannedYet'
  BY <1>1, <1>2 DEF NotPlannedYet, Known
<1>6. TurnPlannedOnce'
  BY <1>1 DEF TurnPlannedOnce
<1>7. NoTurnLost'
  BY <1>1, <1>2 DEF NoTurnLost, CoordOpen
<1>8. NobodyWaitsInVain'
  BY <1>2 DEF NobodyWaitsInVain, HasResult
<1> QED  BY <1>3, <1>4, <1>5, <1>6, <1>7, <1>8

\* The runner claims the open job with its turns.
LEMMA ClaimStep ==
    ASSUME CoordInv, CoordTypeOK', Claim
    PROVE  CoordInv'
<1> USE DEF CoordInv
<1>1. /\ alive /\ UNCHANGED <<receipts, caller, alive, applied, failed, redone>>
      /\ \/ /\ cjob.state = "pending" /\ cjob' = [cjob EXCEPT !.state = "coordinating"]
            /\ runner' = [pc |-> "model lock", req |-> cjob.req, turns |-> cjob.turns]
         \/ UNCHANGED cjob /\ runner' = Off
  BY DEF Claim, RunnerAt
<1>2. runner.pc = "claim"
  BY DEF Claim, RunnerAt
<1>3. CASE UNCHANGED cjob /\ runner' = Off
  BY <1>1, <1>2, <1>3
  DEF Off, Known, Claimed, Working, Applies, NotPlannedYet, OwnerRequest, NothingRuns,
      TurnPlannedOnce,
      NoTurnLost, NobodyWaitsInVain, HasResult
<1>4. CASE /\ cjob.state = "pending" /\ cjob' = [cjob EXCEPT !.state = "coordinating"]
           /\ runner' = [pc |-> "model lock", req |-> cjob.req, turns |-> cjob.turns]
  <2>1. cjob'.req = cjob.req /\ cjob'.turns = cjob.turns /\ cjob'.state = "coordinating"
    BY <1>4, CoordFields
  <2>2. runner'.pc = "model lock" /\ runner'.turns = cjob.turns /\ runner'.req = cjob.req
    BY <1>4
  <2> HIDE <1>4
  <2>3. cjob.state = "pending"
    BY <1>4
  <2>4. Known' /\ Claimed' /\ Applies' /\ NothingRuns' /\ OwnerRequest'
    BY <1>1, <2>1, <2>2 DEF Known, Claimed, Applies, OwnerRequest, NothingRuns
  <2>5. NotPlannedYet' /\ TurnPlannedOnce'
    BY <1>1, <1>2, <2>1, <2>2, <2>3 DEF NotPlannedYet, TurnPlannedOnce, CoordOpen
  <2>6. NoTurnLost' /\ NobodyWaitsInVain'
    BY <1>1, <2>1, <2>3 DEF NoTurnLost, NobodyWaitsInVain, HasResult, CoordOpen
  <2> QED  BY <2>4, <2>5, <2>6
<1> QED  BY <1>1, <1>3, <1>4

\* The runner waits for the model, and gets its plan.
LEMMA ModelStep ==
    ASSUME CoordInv, CoordTypeOK', TakeModel \/ ModelPlans
    PROVE  CoordInv'
<1> USE DEF CoordInv
<1>1. /\ UNCHANGED <<cjob, receipts, caller, alive, applied, failed, redone>>
      /\ runner'.req = runner.req /\ runner'.turns = runner.turns
      /\ alive /\ runner.pc # "apply" /\ runner'.pc # "apply"
      /\ runner'.pc \in Working => runner.pc \in Working
  <2>1. CASE TakeModel
    <3>1. /\ UNCHANGED <<cjob, receipts, caller, alive, applied, failed, redone>>
          /\ alive /\ runner.pc = "model lock"
          /\ runner' = [runner EXCEPT !.pc = "model"] \/ runner' = [runner EXCEPT !.pc = "claim"]
      BY <2>1 DEF TakeModel, RunnerAt, RunnerTo
    <3>2. CASE runner' = [runner EXCEPT !.pc = "model"]
      BY <3>1, <3>2, CoordFields DEF Working
    <3>3. CASE runner' = [runner EXCEPT !.pc = "claim"]
      BY <3>1, <3>3, CoordFields DEF Working
    <3> QED  BY <3>1, <3>2, <3>3
  <2>2. CASE ModelPlans
    BY <2>2, CoordFields DEF ModelPlans, RunnerAt, RunnerTo, Working
  <2> QED  BY <2>1, <2>2
<1> QED  BY <1>1
         DEF Known, Claimed, Applies, NotPlannedYet, OwnerRequest, NothingRuns,
             TurnPlannedOnce, NoTurnLost,
             NobodyWaitsInVain, HasResult

\* The job is over for its own runner only: a superseded one changes nothing.
LEMMA EndJobStep ==
    ASSUME CoordInv, CoordTypeOK', NEW s \in {"completed", "failed"}, EndJob(s),
           RunnerTo("claim"), runner.pc \in Working, alive,
           s = "completed" => runner.pc = "apply",
           UNCHANGED <<receipts, alive, applied, redone>>
    PROVE  CoordInv'
<1> USE DEF CoordInv
<1>1. runner'.pc = "claim" /\ runner'.req = runner.req /\ runner'.turns = runner.turns
  BY CoordFields DEF RunnerTo
<1>2. /\ cjob'.req = cjob.req /\ cjob'.turns = cjob.turns /\ failed \subseteq failed'
      /\ Current => cjob'.state = s /\ (s = "failed" => runner.turns \subseteq failed')
      /\ ~Current => cjob'.state = cjob.state
      /\ \A t \in Turns : caller'[t] = "wait" =>
            caller[t] = "wait" /\ (Current => t # runner.req)
  <2>1. CASE Current
    <3>1. cjob' = [cjob EXCEPT !.state = s]
          /\ failed' = IF s = "failed" THEN failed \cup runner.turns ELSE failed
      BY <2>1 DEF EndJob
    <3>2. \A t \in Turns : caller'[t] = "wait" => caller[t] = "wait" /\ t # runner.req
      BY <2>1 DEF EndJob, Woken
    <3> QED  BY <2>1, <3>1, <3>2, CoordFields
  <2>2. CASE ~Current
    BY <2>2 DEF EndJob
  <2> QED  BY <2>1, <2>2
<1>3. Known' /\ Claimed' /\ Applies' /\ NothingRuns' /\ TurnPlannedOnce'
  BY <1>1, <1>2 DEF Known, Claimed, Working, Applies, NothingRuns, TurnPlannedOnce
<1>4. OwnerRequest'
  BY <1>2 DEF OwnerRequest, Current
<1>5. CASE Current
  <2>1. cjob.turns = runner.turns
    BY <1>5 DEF Current, Claimed
  <2>2. \A t \in runner.turns : t \in failed' \/ applied[t] > 0
    BY <1>2, <1>5 DEF Applies
  <2>3. NotPlannedYet'
    BY <1>2, <1>5 DEF NotPlannedYet, CoordOpen
  <2>4. NoTurnLost'
    BY <1>2, <2>1, <2>2 DEF NoTurnLost
  <2>5. NobodyWaitsInVain'
    BY <1>2, <1>5 DEF NobodyWaitsInVain, Current
  <2> QED  BY <1>3, <1>4, <2>3, <2>4, <2>5
<1>6. CASE ~Current
  BY <1>1, <1>2, <1>3, <1>6, <1>4
  DEF NotPlannedYet, Applies, NoTurnLost, NobodyWaitsInVain, HasResult
<1> QED  BY <1>5, <1>6

\* No turn of the job was in a plan that a crash did not cut short.
LEMMA BeginPlanStep ==
    ASSUME CoordInv, CoordTypeOK', BeginPlan
    PROVE  CoordInv'
<1> USE DEF CoordInv
<1>1. /\ UNCHANGED <<cjob, receipts, alive, redone, failed, caller>>
      /\ runner'.req = runner.req /\ runner'.turns = runner.turns
      /\ runner'.pc = (IF Current THEN "apply" ELSE "claim")
      /\ runner.pc = "owner lock" /\ alive
  BY CoordFields DEF BeginPlan, RunnerAt, RunnerTo
<1>2. \A t \in Turns :
         applied'[t] = IF Current /\ t \in runner.turns THEN applied[t] + 1 ELSE applied[t]
  BY DEF BeginPlan
<1>3. CASE Current
  <2>1. cjob.turns = runner.turns /\ runner.turns \subseteq receipts /\ receipts \subseteq Turns
    BY <1>1, <1>3, CoordFields DEF Claimed, Known, Working, Current
  <2>2. \A t \in Turns : applied[t] \in Nat /\ applied'[t] >= applied[t]
                         /\ (t \in runner.turns => applied'[t] > 0)
                         /\ (t \notin runner.turns => applied'[t] = applied[t])
    BY <1>2, <1>3, CoordFields
  <2>3. Known' /\ Claimed' /\ NothingRuns' /\ OwnerRequest'
    BY <1>1, <2>1, <2>2 DEF Known, Claimed, OwnerRequest, NothingRuns
  <2>4. Applies' /\ NotPlannedYet'
    <3>1. Current' /\ runner'.pc = "apply"
      BY <1>1, <1>3 DEF Current
    <3>2. runner'.req # NoTurn
      BY <1>1, <1>3 DEF OwnerRequest, Current
    <3> QED  BY <1>1, <2>1, <2>2, <3>1, <3>2 DEF Applies, NotPlannedYet
  <2>5. TurnPlannedOnce'
    <3> SUFFICES ASSUME NEW t \in Turns, applied'[t] > 1  PROVE t \in redone
      BY <1>1 DEF TurnPlannedOnce
    <3>1. CASE t \in runner.turns
      <4>1. applied[t] > 0
        BY <1>2, <1>3, <3>1, CoordFields
      <4> QED  BY <1>1, <1>3, <2>1, <3>1, <4>1 DEF NotPlannedYet, Current, CoordOpen
    <3>2. CASE t \notin runner.turns
      BY <2>2, <3>2 DEF TurnPlannedOnce
    <3> QED  BY <3>1, <3>2
  <2>6. NoTurnLost' /\ NobodyWaitsInVain'
    BY <1>1, <2>1, <2>2 DEF NoTurnLost, NobodyWaitsInVain, HasResult
  <2> QED  BY <2>3, <2>4, <2>5, <2>6
<1>4. CASE ~Current
  <2>1. \A t \in Turns : applied'[t] = applied[t]
    BY <1>2, <1>4
  <2>2. runner'.pc = "claim" /\ cjob.turns \subseteq Turns /\ receipts \subseteq Turns
    BY <1>1, <1>4, CoordFields
  <2> QED  BY <1>1, <2>1, <2>2
           DEF Known, Claimed, Working, Applies, NotPlannedYet, OwnerRequest, NothingRuns,
               TurnPlannedOnce, NoTurnLost, NobodyWaitsInVain, HasResult
<1> QED  BY <1>3, <1>4

\* A crash in the middle of a plan marks what may be planned again.
LEMMA CoordCrashStep ==
    ASSUME CoordInv, CoordTypeOK', CoordCrash
    PROVE  CoordInv'
<1> USE DEF CoordInv
<1>1. /\ runner'.pc = "off" /\ runner'.req = NoTurn /\ runner'.turns = {}
      /\ UNCHANGED <<cjob, receipts, applied, failed>>
      /\ redone' = IF runner.pc = "apply" THEN redone \cup runner.turns ELSE redone
      /\ \A t \in Turns : caller'[t] # "wait"
  BY DEF CoordCrash, Off
<1>2. Known' /\ Claimed' /\ Applies' /\ NothingRuns' /\ OwnerRequest'
  BY <1>1 DEF Known, Claimed, Working, Applies, OwnerRequest, NothingRuns
<1>3. NotPlannedYet'
  <2>1. CASE runner.pc = "apply"
    BY <1>1, <2>1 DEF NotPlannedYet, Applies, Claimed, Working, Current
  <2>2. CASE runner.pc # "apply"
    BY <1>1, <2>2 DEF NotPlannedYet
  <2> QED  BY <2>1, <2>2
<1>4. TurnPlannedOnce' /\ NoTurnLost' /\ NobodyWaitsInVain'
  BY <1>1 DEF TurnPlannedOnce, NoTurnLost, NobodyWaitsInVain
<1> QED  BY <1>2, <1>3, <1>4

\* After a restart the job is open again and nothing runs.
LEMMA CoordRestartStep ==
    ASSUME CoordInv, CoordTypeOK', CoordRestart
    PROVE  CoordInv'
<1> USE DEF CoordInv
<1>1. /\ cjob'.req = cjob.req /\ cjob'.turns = cjob.turns
      /\ cjob'.state = IF cjob.state = "coordinating" THEN "pending" ELSE cjob.state
      /\ runner'.req = runner.req /\ runner'.turns = runner.turns
      /\ UNCHANGED <<receipts, caller, applied, failed, redone>> /\ alive'
  BY CoordFields DEF CoordRestart
<1>2. runner'.pc \in {"claim", "off"} /\ runner.pc = "off"
  BY CoordFields DEF CoordRestart, OwnerRequest, NothingRuns
<1>3. Known' /\ Claimed' /\ Applies' /\ NothingRuns' /\ OwnerRequest'
  BY <1>1, <1>2 DEF Known, Claimed, Working, Applies, OwnerRequest, NothingRuns
<1>4. NotPlannedYet' /\ TurnPlannedOnce'
  BY <1>1, <1>2 DEF NotPlannedYet, TurnPlannedOnce, CoordOpen
<1>5. NoTurnLost' /\ NobodyWaitsInVain'
  BY <1>1 DEF NoTurnLost, NobodyWaitsInVain, HasResult, CoordOpen
<1> QED  BY <1>3, <1>4, <1>5

-----------------------------------------------------------------------------
\* The invariant holds at first.
LEMMA CoordInvInit == CoordInit => CoordInv
  BY CoordTypesInit, TurnsAssumption
  DEF CoordInit, CoordInv, NoJob, Off, Known, Claimed, Working, Applies, NotPlannedYet,
      OwnerRequest, NothingRuns, TurnPlannedOnce, NoTurnLost, NobodyWaitsInVain, CoordOpen

\* Every step keeps the invariant.
LEMMA CoordInvStep == CoordInv /\ [CoordNext]_coordVars => CoordInv'
<1> SUFFICES ASSUME CoordInv, [CoordNext]_coordVars  PROVE CoordInv'
  OBVIOUS
<1>1. CoordTypeOK'
  <2>1. CASE UNCHANGED coordVars
    BY <2>1 DEF CoordInv, CoordTypeOK, coordVars
  <2> QED  BY <2>1, CallerTypes, RunnerTypes, OtherTypes DEF CoordInv, CoordNext
<1>2. ASSUME NEW t \in Turns, CallIn(t) \/ CallerNext(t)  PROVE CoordInv'
  BY <1>1, <1>2, AsideSteps, AsideStep, SubmitStep DEF CallerNext, CoordInv
<1>3. CASE RunnerNext
  <2>1. CASE ModelFails
    BY <1>1, <2>1, EndJobStep DEF ModelFails, RunnerAt, Working
  <2>2. CASE EndPlan
    BY <1>1, <2>2, EndJobStep DEF EndPlan, RunnerAt, Working
  <2>3. CASE PlanBreaks
    BY <1>1, <2>3, EndJobStep DEF PlanBreaks, RunnerAt, Working
  <2> QED  BY <1>1, <1>3, <2>1, <2>2, <2>3, ClaimStep, ModelStep, BeginPlanStep
           DEF RunnerNext
<1>4. CASE ConsultBegins \/ Consult \/ UNCHANGED coordVars
  BY <1>1, <1>4, AsideSteps, AsideStep DEF CoordInv
<1> QED  BY <1>1, <1>2, <1>3, <1>4, CoordCrashStep, CoordRestartStep DEF CoordNext

\* The inductive invariant holds in every state, for any number of turns and crashes.
THEOREM CoordInvariance == CoordSpec => []CoordInv
  BY CoordInvInit, CoordInvStep, PTL DEF CoordSpec

\* A turn whose receipt is stored is never lost: it is in the job to come, in a plan that
\* was begun, or the owner hears that its job failed (submit_coordination).
THEOREM EveryTurnIsKept == CoordSpec => []NoTurnLost
<1>1. CoordInv => NoTurnLost
  BY DEF CoordInv
<1> QED  BY <1>1, CoordInvariance, PTL

\* Nor is it planned twice, unless the process died in the middle of its plan.
THEOREM EveryTurnIsPlannedOnce == CoordSpec => []TurnPlannedOnce
<1>1. CoordInv => TurnPlannedOnce
  BY DEF CoordInv
<1> QED  BY <1>1, CoordInvariance, PTL

\* No wake-up is lost: a caller waits for the owner's job, and only until it has a result
\* (coordinate_turn_and_wait).
THEOREM NoCallerWaitsInVain == CoordSpec => []NobodyWaitsInVain
<1>1. CoordInv => NobodyWaitsInVain
  BY DEF CoordInv
<1> QED  BY <1>1, CoordInvariance, PTL

-----------------------------------------------------------------------------
(* The Codex run: what its state is made of.                                 *)

\* What the server says of a run: a question in a turn, one that is settled, the
\* end of a turn, the end of a side query.
CxMessages ==
    [run : CxRuns, what : {"ask"}, arg : CxAsks \X CxTurns]
      \cup [run : CxRuns, what : {"resolved"}, arg : CxAsks]
      \cup [run : CxRuns, what : Ends, arg : CxTurns]
      \cup {m \in [run : CxRuns, what : {"side"}, arg : CxQueries] : <<m.run, m.arg>> \in Sides}

AskStates    == {"none", "open", "answered", "refused", "void"}
SideStates   == {"none", "idle", "running", "ended", "released"}
StreamStates == {"none", "open", "result", "side_result", "ended"}
SqStates     == {"none", "wait", "answered", "dispose", "aborted", "release", "done"}
CxServers ==
    [up : BOOLEAN, client : BOOLEAN, n : [CxRuns -> 0..MaxTurns], busy : [CxRuns -> BOOLEAN],
     ask : [CxRuns -> [CxAsks -> AskStates]], side : [Sides -> SideStates]]
CxRunStates ==
    [started : BOOLEAN, closed : BOOLEAN, active : 0..MaxTurns, reg : SUBSET CxTurns,
     done : SUBSET CxTurns, expected : SUBSET CxTurns, pend : SUBSET CxAsks,
     side : CxQueries \cup {NoQuery}, queued : BOOLEAN,
     overlap : BOOLEAN, late : BOOLEAN, cut : BOOLEAN, stream : StreamStates]
CxCalls ==
    [pc : {"idle", "thread", "turn", "side", "steer", "fork", "side_turn", "answer",
           "tell", "interrupt", "wait", "restart", "starting", "finish"},
     kind : {"none", "start", "steer", "query", "respond", "cancel", "end", "close"},
     arg : CxQueries \cup CxAsks \cup {NoQuery} \cup CxTurns]

CxTyped ==
    /\ srv \in CxServers /\ mail \in Seq(CxMessages)
    /\ slot \in CxRuns \cup {NoRun} /\ route \in CxRuns \cup {NoRun}
    /\ cx \in [CxRuns -> CxRunStates] /\ ccall \in [CxRuns -> [Callers -> CxCalls]]
    /\ sq \in [Sides -> SqStates] /\ cxfaults \in 0..MaxCxFaults

RunFields ==
    {"started", "closed", "active", "reg", "done", "expected", "pend", "side", "stream",
     "queued", "overlap", "late", "cut"}
RunFits(x) ==
    /\ x.started \in BOOLEAN /\ x.closed \in BOOLEAN /\ x.active \in 0..MaxTurns
    /\ x.reg \in SUBSET CxTurns /\ x.done \in SUBSET CxTurns /\ x.expected \in SUBSET CxTurns
    /\ x.pend \in SUBSET CxAsks /\ x.side \in CxQueries \cup {NoQuery} /\ x.queued \in BOOLEAN
    /\ x.overlap \in BOOLEAN /\ x.late \in BOOLEAN /\ x.cut \in BOOLEAN /\ x.stream \in StreamStates

ServerFields == {"up", "client", "n", "busy", "ask", "side"}
ServerFits(x) ==
    /\ x.up \in BOOLEAN /\ x.client \in BOOLEAN
    /\ x.n \in [CxRuns -> 0..MaxTurns] /\ x.busy \in [CxRuns -> BOOLEAN]
    /\ x.ask \in [CxRuns -> [CxAsks -> AskStates]] /\ x.side \in [Sides -> SideStates]

\* A run is a record of its fields.
LEMMA RunIs == \A x \in CxRunStates : RunFits(x) /\ x = [f \in RunFields |-> x[f]]
  BY SMT DEF CxRunStates, RunFits, RunFields

\* A record of such fields is a run.
LEMMA IsRun == \A x : RunFits(x) /\ x = [f \in RunFields |-> x[f]] => x \in CxRunStates
  BY SMT DEF CxRunStates, RunFits, RunFields

\* So is the server.
LEMMA ServerIs == \A x \in CxServers : ServerFits(x) /\ x = [f \in ServerFields |-> x[f]]
  BY SMT DEF CxServers, ServerFits, ServerFields

\* A record of such fields is the server.
LEMMA IsServer == \A x : ServerFits(x) /\ x = [f \in ServerFields |-> x[f]] => x \in CxServers
  BY SMT DEF CxServers, ServerFits, ServerFields

\* A field of a run is set.
LEMMA RunUpdates ==
    ASSUME NEW x \in CxRunStates
    PROVE  /\ \A v \in BOOLEAN : [x EXCEPT !.started = v] \in CxRunStates
           /\ \A v \in BOOLEAN : [x EXCEPT !.closed = v] \in CxRunStates
           /\ \A v \in BOOLEAN : [x EXCEPT !.queued = v] \in CxRunStates
           /\ \A v \in BOOLEAN : [x EXCEPT !.overlap = v] \in CxRunStates
           /\ \A v \in BOOLEAN : [x EXCEPT !.late = v] \in CxRunStates
           /\ \A v \in BOOLEAN : [x EXCEPT !.cut = v] \in CxRunStates
           /\ \A v \in 0..MaxTurns : [x EXCEPT !.active = v] \in CxRunStates
           /\ \A v \in SUBSET CxTurns : [x EXCEPT !.reg = v] \in CxRunStates
           /\ \A v \in SUBSET CxTurns : [x EXCEPT !.done = v] \in CxRunStates
           /\ \A v \in SUBSET CxTurns : [x EXCEPT !.expected = v] \in CxRunStates
           /\ \A v \in SUBSET CxAsks : [x EXCEPT !.pend = v] \in CxRunStates
           /\ \A v \in CxQueries \cup {NoQuery} : [x EXCEPT !.side = v] \in CxRunStates
           /\ \A v \in StreamStates : [x EXCEPT !.stream = v] \in CxRunStates
<1>0. RunFits(x) /\ x = [f \in RunFields |-> x[f]]
  BY RunIs
<1>1. ASSUME NEW v \in BOOLEAN PROVE [x EXCEPT !.started = v] \in CxRunStates
  <2> DEFINE y == [x EXCEPT !.started = v]
  <2>1. y = [f \in RunFields |-> y[f]]
    BY <1>0
  <2>2. RunFits(y)
    BY <1>0 DEF RunFits, RunFields
  <2> HIDE DEF y
  <2>3. y \in CxRunStates
    BY <2>1, <2>2, IsRun, Zenon
  <2> QED BY <2>3 DEF y
<1>2. ASSUME NEW v \in BOOLEAN PROVE [x EXCEPT !.closed = v] \in CxRunStates
  <2> DEFINE y == [x EXCEPT !.closed = v]
  <2>1. y = [f \in RunFields |-> y[f]]
    BY <1>0
  <2>2. RunFits(y)
    BY <1>0 DEF RunFits, RunFields
  <2> HIDE DEF y
  <2>3. y \in CxRunStates
    BY <2>1, <2>2, IsRun, Zenon
  <2> QED BY <2>3 DEF y
<1>3. ASSUME NEW v \in BOOLEAN PROVE [x EXCEPT !.queued = v] \in CxRunStates
  <2> DEFINE y == [x EXCEPT !.queued = v]
  <2>1. y = [f \in RunFields |-> y[f]]
    BY <1>0
  <2>2. RunFits(y)
    BY <1>0 DEF RunFits, RunFields
  <2> HIDE DEF y
  <2>3. y \in CxRunStates
    BY <2>1, <2>2, IsRun, Zenon
  <2> QED BY <2>3 DEF y
<1>4. ASSUME NEW v \in BOOLEAN PROVE [x EXCEPT !.overlap = v] \in CxRunStates
  <2> DEFINE y == [x EXCEPT !.overlap = v]
  <2>1. y = [f \in RunFields |-> y[f]]
    BY <1>0
  <2>2. RunFits(y)
    BY <1>0 DEF RunFits, RunFields
  <2> HIDE DEF y
  <2>3. y \in CxRunStates
    BY <2>1, <2>2, IsRun, Zenon
  <2> QED BY <2>3 DEF y
<1>5. ASSUME NEW v \in BOOLEAN PROVE [x EXCEPT !.late = v] \in CxRunStates
  <2> DEFINE y == [x EXCEPT !.late = v]
  <2>1. y = [f \in RunFields |-> y[f]]
    BY <1>0
  <2>2. RunFits(y)
    BY <1>0 DEF RunFits, RunFields
  <2> HIDE DEF y
  <2>3. y \in CxRunStates
    BY <2>1, <2>2, IsRun, Zenon
  <2> QED BY <2>3 DEF y
<1>6. ASSUME NEW v \in 0..MaxTurns PROVE [x EXCEPT !.active = v] \in CxRunStates
  <2> DEFINE y == [x EXCEPT !.active = v]
  <2>1. y = [f \in RunFields |-> y[f]]
    BY <1>0
  <2>2. RunFits(y)
    BY <1>0 DEF RunFits, RunFields
  <2> HIDE DEF y
  <2>3. y \in CxRunStates
    BY <2>1, <2>2, IsRun, Zenon
  <2> QED BY <2>3 DEF y
<1>7. ASSUME NEW v \in SUBSET CxTurns PROVE [x EXCEPT !.reg = v] \in CxRunStates
  <2> DEFINE y == [x EXCEPT !.reg = v]
  <2>1. y = [f \in RunFields |-> y[f]]
    BY <1>0
  <2>2. RunFits(y)
    BY <1>0 DEF RunFits, RunFields
  <2> HIDE DEF y
  <2>3. y \in CxRunStates
    BY <2>1, <2>2, IsRun, Zenon
  <2> QED BY <2>3 DEF y
<1>8. ASSUME NEW v \in SUBSET CxTurns PROVE [x EXCEPT !.done = v] \in CxRunStates
  <2> DEFINE y == [x EXCEPT !.done = v]
  <2>1. y = [f \in RunFields |-> y[f]]
    BY <1>0
  <2>2. RunFits(y)
    BY <1>0 DEF RunFits, RunFields
  <2> HIDE DEF y
  <2>3. y \in CxRunStates
    BY <2>1, <2>2, IsRun, Zenon
  <2> QED BY <2>3 DEF y
<1>9. ASSUME NEW v \in SUBSET CxTurns PROVE [x EXCEPT !.expected = v] \in CxRunStates
  <2> DEFINE y == [x EXCEPT !.expected = v]
  <2>1. y = [f \in RunFields |-> y[f]]
    BY <1>0
  <2>2. RunFits(y)
    BY <1>0 DEF RunFits, RunFields
  <2> HIDE DEF y
  <2>3. y \in CxRunStates
    BY <2>1, <2>2, IsRun, Zenon
  <2> QED BY <2>3 DEF y
<1>10. ASSUME NEW v \in SUBSET CxAsks PROVE [x EXCEPT !.pend = v] \in CxRunStates
  <2> DEFINE y == [x EXCEPT !.pend = v]
  <2>1. y = [f \in RunFields |-> y[f]]
    BY <1>0
  <2>2. RunFits(y)
    BY <1>0 DEF RunFits, RunFields
  <2> HIDE DEF y
  <2>3. y \in CxRunStates
    BY <2>1, <2>2, IsRun, Zenon
  <2> QED BY <2>3 DEF y
<1>11. ASSUME NEW v \in CxQueries \cup {NoQuery} PROVE [x EXCEPT !.side = v] \in CxRunStates
  <2> DEFINE y == [x EXCEPT !.side = v]
  <2>1. y = [f \in RunFields |-> y[f]]
    BY <1>0
  <2>2. RunFits(y)
    BY <1>0 DEF RunFits, RunFields
  <2> HIDE DEF y
  <2>3. y \in CxRunStates
    BY <2>1, <2>2, IsRun, Zenon
  <2> QED BY <2>3 DEF y
<1>12. ASSUME NEW v \in StreamStates PROVE [x EXCEPT !.stream = v] \in CxRunStates
  <2> DEFINE y == [x EXCEPT !.stream = v]
  <2>1. y = [f \in RunFields |-> y[f]]
    BY <1>0
  <2>2. RunFits(y)
    BY <1>0 DEF RunFits, RunFields
  <2> HIDE DEF y
  <2>3. y \in CxRunStates
    BY <2>1, <2>2, IsRun, Zenon
  <2> QED BY <2>3 DEF y
<1>13. ASSUME NEW v \in BOOLEAN PROVE [x EXCEPT !.cut = v] \in CxRunStates
  <2> DEFINE y == [x EXCEPT !.cut = v]
  <2>1. y = [f \in RunFields |-> y[f]]
    BY <1>0
  <2>2. RunFits(y)
    BY <1>0 DEF RunFits, RunFields
  <2> HIDE DEF y
  <2>3. y \in CxRunStates
    BY <2>1, <2>2, IsRun, Zenon
  <2> QED BY <2>3 DEF y
<1> QED BY <1>1, <1>2, <1>3, <1>4, <1>5, <1>6, <1>7, <1>8, <1>9, <1>10, <1>11, <1>12, <1>13,
           Zenon

\* A field of the server is set.
LEMMA ServerUpdates ==
    ASSUME NEW x \in CxServers
    PROVE  /\ \A v \in BOOLEAN : [x EXCEPT !.up = v] \in CxServers
           /\ \A v \in BOOLEAN : [x EXCEPT !.client = v] \in CxServers
           /\ \A v \in [CxRuns -> 0..MaxTurns] : [x EXCEPT !.n = v] \in CxServers
           /\ \A v \in [CxRuns -> BOOLEAN] : [x EXCEPT !.busy = v] \in CxServers
           /\ \A v \in [CxRuns -> [CxAsks -> AskStates]] : [x EXCEPT !.ask = v] \in CxServers
           /\ \A v \in [Sides -> SideStates] : [x EXCEPT !.side = v] \in CxServers
<1>0. ServerFits(x) /\ x = [f \in ServerFields |-> x[f]]
  BY ServerIs
<1>1. ASSUME NEW v \in BOOLEAN PROVE [x EXCEPT !.up = v] \in CxServers
  <2> DEFINE y == [x EXCEPT !.up = v]
  <2>1. y = [f \in ServerFields |-> y[f]]
    BY <1>0
  <2>2. ServerFits(y)
    BY <1>0 DEF ServerFits, ServerFields
  <2> HIDE DEF y
  <2>3. y \in CxServers
    BY <2>1, <2>2, IsServer, Zenon
  <2> QED BY <2>3 DEF y
<1>2. ASSUME NEW v \in [CxRuns -> 0..MaxTurns] PROVE [x EXCEPT !.n = v] \in CxServers
  <2> DEFINE y == [x EXCEPT !.n = v]
  <2>1. y = [f \in ServerFields |-> y[f]]
    BY <1>0
  <2>2. ServerFits(y)
    BY <1>0 DEF ServerFits, ServerFields
  <2> HIDE DEF y
  <2>3. y \in CxServers
    BY <2>1, <2>2, IsServer, Zenon
  <2> QED BY <2>3 DEF y
<1>3. ASSUME NEW v \in [CxRuns -> BOOLEAN] PROVE [x EXCEPT !.busy = v] \in CxServers
  <2> DEFINE y == [x EXCEPT !.busy = v]
  <2>1. y = [f \in ServerFields |-> y[f]]
    BY <1>0
  <2>2. ServerFits(y)
    BY <1>0 DEF ServerFits, ServerFields
  <2> HIDE DEF y
  <2>3. y \in CxServers
    BY <2>1, <2>2, IsServer, Zenon
  <2> QED BY <2>3 DEF y
<1>4. ASSUME NEW v \in [CxRuns -> [CxAsks -> AskStates]] PROVE [x EXCEPT !.ask = v] \in CxServers
  <2> DEFINE y == [x EXCEPT !.ask = v]
  <2>1. y = [f \in ServerFields |-> y[f]]
    BY <1>0
  <2>2. ServerFits(y)
    BY <1>0 DEF ServerFits, ServerFields
  <2> HIDE DEF y
  <2>3. y \in CxServers
    BY <2>1, <2>2, IsServer, Zenon
  <2> QED BY <2>3 DEF y
<1>5. ASSUME NEW v \in [Sides -> SideStates] PROVE [x EXCEPT !.side = v] \in CxServers
  <2> DEFINE y == [x EXCEPT !.side = v]
  <2>1. y = [f \in ServerFields |-> y[f]]
    BY <1>0
  <2>2. ServerFits(y)
    BY <1>0 DEF ServerFits, ServerFields
  <2> HIDE DEF y
  <2>3. y \in CxServers
    BY <2>1, <2>2, IsServer, Zenon
  <2> QED BY <2>3 DEF y
<1>6. ASSUME NEW v \in BOOLEAN PROVE [x EXCEPT !.client = v] \in CxServers
  <2> DEFINE y == [x EXCEPT !.client = v]
  <2>1. y = [f \in ServerFields |-> y[f]]
    BY <1>0
  <2>2. ServerFits(y)
    BY <1>0 DEF ServerFits, ServerFields
  <2> HIDE DEF y
  <2>3. y \in CxServers
    BY <2>1, <2>2, IsServer, Zenon
  <2> QED BY <2>3 DEF y
<1> QED BY <1>1, <1>2, <1>3, <1>4, <1>5, <1>6, Zenon

\* A run is closed before it had a turn.
LEMMA RunCloses ==
    ASSUME NEW x \in CxRunStates,
           NEW a \in BOOLEAN,
           NEW b \in SUBSET CxAsks,
           NEW c \in StreamStates
    PROVE  [x EXCEPT !.closed = a, !.pend = b, !.stream = c]
              \in CxRunStates
<1> DEFINE y == [x EXCEPT !.closed = a, !.pend = b, !.stream = c]
<1>0. RunFits(x) /\ x = [f \in RunFields |-> x[f]]
  BY RunIs
<1>1. y = [f \in RunFields |-> y[f]]
  BY <1>0
<1>2. RunFits(y)
  BY <1>0 DEF RunFits, RunFields
<1> HIDE DEF y
<1>3. y \in CxRunStates
  BY <1>1, <1>2, IsRun, Zenon
<1> QED BY <1>3 DEF y

\* A run has a new turn.
LEMMA TurnIsNew ==
    ASSUME NEW x \in CxRunStates,
           NEW a \in 0..MaxTurns,
           NEW b \in SUBSET CxTurns,
           NEW c \in BOOLEAN,
           NEW d \in StreamStates
    PROVE  [x EXCEPT !.active = a, !.reg = b, !.late = c, !.stream = d]
              \in CxRunStates
<1> DEFINE y == [x EXCEPT !.active = a, !.reg = b, !.late = c, !.stream = d]
<1>0. RunFits(x) /\ x = [f \in RunFields |-> x[f]]
  BY RunIs
<1>1. y = [f \in RunFields |-> y[f]]
  BY <1>0
<1>2. RunFits(y)
  BY <1>0 DEF RunFits, RunFields
<1> HIDE DEF y
<1>3. y \in CxRunStates
  BY <1>1, <1>2, IsRun, Zenon
<1> QED BY <1>3 DEF y

\* A turn of a run is done.
LEMMA TurnIsDone ==
    ASSUME NEW x \in CxRunStates,
           NEW a \in SUBSET CxAsks,
           NEW b \in SUBSET CxTurns,
           NEW c \in 0..MaxTurns,
           NEW d \in SUBSET CxTurns,
           NEW e \in SUBSET CxTurns,
           NEW g \in StreamStates
    PROVE  [x EXCEPT !.pend = a, !.done = b, !.active = c, !.reg = d,
                     !.expected = e, !.stream = g]
              \in CxRunStates
<1> DEFINE y == [x EXCEPT !.pend = a, !.done = b, !.active = c, !.reg = d,
                     !.expected = e, !.stream = g]
<1>0. RunFits(x) /\ x = [f \in RunFields |-> x[f]]
  BY RunIs
<1>1. y = [f \in RunFields |-> y[f]]
  BY <1>0
<1>2. RunFits(y)
  BY <1>0 DEF RunFits, RunFields
<1> HIDE DEF y
<1>3. y \in CxRunStates
  BY <1>1, <1>2, IsRun, Zenon
<1> QED BY <1>3 DEF y

CallPlaces ==
    {"idle", "thread", "turn", "side", "steer", "fork", "side_turn", "answer",
     "tell", "interrupt", "wait", "restart", "starting", "finish"}
CallKinds == {"none", "start", "steer", "query", "respond", "cancel", "end", "close"}
CallArgs  == CxQueries \cup CxAsks \cup {NoQuery} \cup CxTurns

\* The ways the steps write a call.
LEMMA CallMoves ==
    ASSUME CxTyped, NEW r \in CxRuns, NEW c \in Callers, NEW p \in CallPlaces,
           NEW k \in CallKinds, NEW a \in CallArgs
    PROVE  /\ Goes(r, c, p) => ccall' \in [CxRuns -> [Callers -> CxCalls]]
           /\ Returns(r, c) => ccall' \in [CxRuns -> [Callers -> CxCalls]]
           /\ ccall' = [ccall EXCEPT ![r][c] = [pc |-> p, kind |-> k, arg |-> a]]
                 => ccall' \in [CxRuns -> [Callers -> CxCalls]]
           /\ ccall' = [ccall EXCEPT ![r][c].pc = p, ![r][c].arg = a]
                 => ccall' \in [CxRuns -> [Callers -> CxCalls]]
<1>1. /\ [ccall[r][c] EXCEPT !.pc = p] \in CxCalls
      /\ [ccall[r][c] EXCEPT !.pc = p, !.arg = a] \in CxCalls
  <2>1. ccall[r][c] \in CxCalls
    BY DEF CxTyped
  <2>2. \A x \in CxCalls : /\ [x EXCEPT !.pc = p] \in CxCalls
                           /\ [x EXCEPT !.pc = p, !.arg = a] \in CxCalls
    BY DEF CxCalls, CallPlaces, CallArgs
  <2> QED BY <2>1, <2>2, Zenon
<1>2. [pc |-> p, kind |-> k, arg |-> a] \in CxCalls /\ NoCxCall \in CxCalls
  BY DEF CxCalls, CallPlaces, CallKinds, CallArgs, NoCxCall
<1>3. ASSUME NEW v \in CxCalls
      PROVE  [ccall EXCEPT ![r][c] = v] \in [CxRuns -> [Callers -> CxCalls]]
  <2>1. ccall \in [CxRuns -> [Callers -> CxCalls]]
    BY DEF CxTyped
  <2> QED BY <2>1
<1>4. Goes(r, c, p) => ccall' = [ccall EXCEPT ![r][c] = [ccall[r][c] EXCEPT !.pc = p]]
  BY SMT DEF Goes
<1>5. ccall' = [ccall EXCEPT ![r][c].pc = p, ![r][c].arg = a]
         => ccall' = [ccall EXCEPT ![r][c] = [ccall[r][c] EXCEPT !.pc = p, !.arg = a]]
  BY ZenonT(60)
<1> QED BY <1>1, <1>2, <1>3, <1>4, <1>5, Zenon DEF Returns

\* A run is written.
LEMMA RunMoves ==
    ASSUME NEW r \in CxRuns, NEW x \in CxRunStates, CxTyped
    PROVE  [cx EXCEPT ![r] = x] \in [CxRuns -> CxRunStates]
  BY SMT DEF CxTyped

\* A side query's task is written.
LEMMA SideMoves ==
    ASSUME NEW y, NEW x \in SqStates, CxTyped
    PROVE  [sq EXCEPT ![y] = x] \in [Sides -> SqStates]
<1>1. sq \in [Sides -> SqStates]
  BY DEF CxTyped
<1> QED BY <1>1

\* What the types say of one run, one call and the server.
LEMMA RunHas ==
    ASSUME CxTyped, NEW r \in CxRuns
    PROVE  /\ cx[r] \in CxRunStates /\ RunFits(cx[r]) /\ ServerFits(srv) /\ srv \in CxServers
           /\ srv.n[r] \in 0..MaxTurns /\ srv.busy[r] \in BOOLEAN
           /\ \A c \in Callers : /\ ccall[r][c].pc \in CallPlaces /\ ccall[r][c].arg \in CallArgs
                                 /\ ccall[r][c].kind \in CallKinds
<1>1. cx[r] \in CxRunStates /\ srv \in CxServers
  BY DEF CxTyped
<1>2. RunFits(cx[r]) /\ ServerFits(srv)
  BY <1>1, RunIs, ServerIs
<1>3. srv.n[r] \in 0..MaxTurns /\ srv.busy[r] \in BOOLEAN
  BY <1>2 DEF ServerFits
<1>4. \A c \in Callers : ccall[r][c] \in CxCalls
  BY DEF CxTyped
<1> QED BY <1>1, <1>2, <1>3, <1>4 DEF CxCalls, CallPlaces, CallKinds, CallArgs

\* Cancelling the side query, and waiting for it.
LEMMA SideWaits ==
    ASSUME CxTyped, NEW r \in CxRuns, NEW c \in Callers, NEW k \in CallKinds,
           WaitsForSide(r, c, k)
    PROVE  sq' \in [Sides -> SqStates] /\ ccall' \in [CxRuns -> [Callers -> CxCalls]]
<1>1. cx[r].side \in CallArgs /\ "side" \in CallPlaces
  BY RunHas DEF RunFits, CallArgs, CallPlaces
<1>2. ccall' \in [CxRuns -> [Callers -> CxCalls]]
  BY <1>1, CallMoves DEF WaitsForSide
<1>3. sq' \in [Sides -> SqStates]
  <2>1. {"dispose", "aborted"} \subseteq SqStates /\ sq \in [Sides -> SqStates]
    BY DEF SqStates, CxTyped
  <2> QED BY <2>1, SideMoves, Zenon DEF WaitsForSide, CancelSide
<1> QED BY <1>2, <1>3

\* The server's turn is over, or it restarted.
LEMMA TurnOverTyped == ASSUME CxTyped, NEW r \in CxRuns PROVE TurnOver(srv, r) \in CxServers
<1> DEFINE voided == [k \in CxAsks |-> IF srv.ask[r][k] = "open" THEN "void" ELSE srv.ask[r][k]]
<1>1. srv \in CxServers /\ srv.ask \in [CxRuns -> [CxAsks -> AskStates]]
  BY RunHas DEF ServerFits
<1>2. [srv.busy EXCEPT ![r] = FALSE] \in [CxRuns -> BOOLEAN]
  BY RunHas DEF ServerFits
<1>3. voided \in [CxAsks -> AskStates]
  BY <1>1 DEF AskStates
<1>4. TurnOver(srv, r) = [srv EXCEPT !.busy = [srv.busy EXCEPT ![r] = FALSE],
                                     !.ask = [srv.ask EXCEPT ![r] = voided]]
  BY Zenon DEF TurnOver
<1> HIDE DEF voided
<1>5. [srv.ask EXCEPT ![r] = voided] \in [CxRuns -> [CxAsks -> AskStates]]
  BY <1>1, <1>3
<1>6. [srv EXCEPT !.busy = [srv.busy EXCEPT ![r] = FALSE]] \in CxServers
  BY <1>1, <1>2, ServerUpdates, Zenon
<1>7. \A x \in CxServers : [x EXCEPT !.ask = [srv.ask EXCEPT ![r] = voided]] \in CxServers
  BY <1>5, ServerUpdates, Zenon
<1> QED BY <1>4, <1>6, <1>7, Zenon

\* The server of a process that goes, or comes back, is one.
LEMMA RestartedTyped ==
    ASSUME CxTyped
    PROVE  /\ ServerDown(srv) \in CxServers /\ Restarted(srv) \in CxServers
           /\ [ServerDown(srv) EXCEPT !.client = FALSE] \in CxServers
<1> DEFINE asks  == [r \in CxRuns |-> TurnOver(srv, r).ask[r]]
           sides == [y \in Sides |-> IF srv.side[y] = "none" THEN "none" ELSE "released"]
<1>1. asks \in [CxRuns -> [CxAsks -> AskStates]]
  <2>1. \A r \in CxRuns : TurnOver(srv, r).ask[r] \in [CxAsks -> AskStates]
    BY TurnOverTyped, ServerIs DEF ServerFits
  <2> QED BY <2>1
<1>2. sides \in [Sides -> SideStates]
  BY DEF SideStates
<1>3. srv \in CxServers /\ [r \in CxRuns |-> FALSE] \in [CxRuns -> BOOLEAN]
  BY DEF CxTyped
<1>4. ServerDown(srv) = [srv EXCEPT !.up = FALSE, !.busy = [r \in CxRuns |-> FALSE],
                                    !.ask = asks, !.side = sides]
  BY Zenon DEF ServerDown
<1>5. ServerDown(srv) \in CxServers
  <2> HIDE DEF asks, sides
  <2>1. [srv EXCEPT !.up = FALSE, !.busy = [r \in CxRuns |-> FALSE]] \in CxServers
    BY <1>3, ServerUpdates, Zenon
  <2>2. \A x \in CxServers : [x EXCEPT !.ask = asks, !.side = sides] \in CxServers
    BY <1>1, <1>2, ServerUpdates, Zenon
  <2> QED BY <1>4, <2>1, <2>2, Zenon
<1>6. /\ [ServerDown(srv) EXCEPT !.client = FALSE] \in CxServers
      /\ [ServerDown(srv) EXCEPT !.up = TRUE] \in CxServers
  BY <1>5, ServerUpdates, Zenon
<1>7. Restarted(srv) = [[ServerDown(srv) EXCEPT !.up = TRUE] EXCEPT !.client = TRUE]
  BY Zenon DEF Restarted
<1> QED BY <1>5, <1>6, <1>7, ServerUpdates, Zenon

\* A message that is sent.
LEMMA SaysTyped ==
    ASSUME CxTyped, NEW m \in CxMessages, mail' = Append(mail, m)
    PROVE  mail' \in Seq(CxMessages)
  BY DEF CxTyped

\* A start that failed.
LEMMA AbortsTyped ==
    ASSUME CxTyped, NEW r \in CxRuns, Aborts(r)
    PROVE  /\ cx' \in [CxRuns -> CxRunStates] /\ ccall' \in [CxRuns -> [Callers -> CxCalls]]
           /\ slot' \in CxRuns \cup {NoRun} /\ route' \in CxRuns \cup {NoRun}
<1>1. [cx[r] EXCEPT !.closed = TRUE, !.pend = {}, !.stream = "ended"] \in CxRunStates
  <2>1. "ended" \in StreamStates /\ {} \in SUBSET CxAsks /\ cx[r] \in CxRunStates
    BY RunHas DEF StreamStates
  <2> QED BY <2>1, RunCloses
<1>2. cx' \in [CxRuns -> CxRunStates]
  <2>1. cx' = [cx EXCEPT ![r] = [cx[r] EXCEPT !.closed = TRUE, !.pend = {}, !.stream = "ended"]]
    BY Zenon DEF Aborts
  <2> QED BY <1>1, <2>1, RunMoves, Zenon
<1>3. ccall' \in [CxRuns -> [Callers -> CxCalls]]
  BY CallMoves DEF Aborts, Callers, CallPlaces, CallKinds, CallArgs
<1> QED BY <1>2, <1>3 DEF Aborts, CxTyped

\* A turn is started anew.
LEMMA AnewTyped ==
    ASSUME CxTyped, NEW r \in CxRuns, NEW c \in Callers, StartsAnew(r, c)
    PROVE  /\ cx' \in [CxRuns -> CxRunStates] /\ ccall' \in [CxRuns -> [Callers -> CxCalls]]
           /\ route' \in CxRuns \cup {NoRun}
<1>1. (cx[r].late \/ BeingEnded(r)) \in BOOLEAN
  OBVIOUS
<1>2. cx' \in [CxRuns -> CxRunStates]
  BY <1>1, RunHas, RunUpdates, RunMoves, Zenon DEF StartsAnew
<1>3. ccall' \in [CxRuns -> [Callers -> CxCalls]]
  BY CallMoves DEF StartsAnew, CallPlaces, CallKinds, CallArgs
<1> QED BY <1>2, <1>3 DEF StartsAnew

-----------------------------------------------------------------------------
\* The place p of a call of r by c says what kind k of call it is.
Fits(r, c, p, k, a) ==
    /\ p = "idle" <=> k = "none"
    /\ p = "thread" => k = "start"
    /\ p = "turn" => k \in {"start", "steer"}
    /\ p = "side" => k \in {"steer", "query", "cancel", "close", "end"}
    /\ p = "steer" => k = "steer"
    /\ p \in {"fork", "side_turn"} => k = "query"
    /\ p \in {"answer", "tell"} => k = "respond"
    /\ p \in {"interrupt", "wait"} => k \in {"cancel", "close"}
    /\ p \in {"restart", "starting"} => k = "cancel"
    /\ p = "finish" => k \in {"close", "end"}
    /\ p = "side_turn" => a \in CxQueries /\ <<r, a>> \in Sides
    /\ k \in {"start", "close"} => c = "dispatch"
CallFits(r, c) == Fits(r, c, ccall[r][c].pc, ccall[r][c].kind, ccall[r][c].arg)
CallsFit == \A r \in CxRuns, c \in Callers : CallFits(r, c)

\* There is a name for each query that is to be forked.
NamesLeft == \A r \in CxRuns : Cardinality(Asking(r)) <= Cardinality(NewNames(r))

\* The rest of the state is as it was.
LEMMA TypedSame ==
    ASSUME CxTyped
    PROVE  /\ srv' = srv => srv' \in CxServers
           /\ mail' = mail => mail' \in Seq(CxMessages)
           /\ slot' = slot => slot' \in CxRuns \cup {NoRun}
           /\ route' = route => route' \in CxRuns \cup {NoRun}
           /\ cx' = cx => cx' \in [CxRuns -> CxRunStates]
           /\ ccall' = ccall => ccall' \in [CxRuns -> [Callers -> CxCalls]]
           /\ sq' = sq => sq' \in [Sides -> SqStates]
           /\ NoFault \/ CxFault => cxfaults' \in 0..MaxCxFaults
<1>1. NoFault \/ CxFault => cxfaults' \in 0..MaxCxFaults
  BY CxAssumption DEF CxTyped, NoFault, CxFault
<1> QED BY <1>1, Zenon DEF CxTyped

\* Starting a run keeps the types.
LEMMA StartRunTypes == ASSUME CxTyped, NEW r \in CxRuns, StartRun(r) PROVE CxTyped'
<1>1. cx' \in [CxRuns -> CxRunStates]
  BY RunHas, RunUpdates, RunMoves, Zenon DEF StartRun
<1>2. ccall' \in [CxRuns -> [Callers -> CxCalls]]
  <2>1. /\ "dispatch" \in Callers /\ "thread" \in CallPlaces /\ "start" \in CallKinds
        /\ NoQuery \in CallArgs
    BY DEF Callers, CallPlaces, CallKinds, CallArgs
  <2>2. ccall' = [ccall EXCEPT ![r]["dispatch"] =
                     [pc |-> "thread", kind |-> "start", arg |-> NoQuery]]
    BY DEF StartRun
  <2> QED BY <2>1, <2>2, CallMoves
<1>3. /\ UNCHANGED <<mail, route, sq>> /\ NoFault
      /\ slot' \in CxRuns \cup {NoRun}
  BY DEF StartRun, NoFault
<1>4. srv' \in CxServers
  BY RestartedTyped, TypedSame, Zenon DEF StartRun
<1> QED BY <1>1, <1>2, <1>3, <1>4, TypedSame, Zenon DEF CxTyped

\* Opening the thread keeps the types.
LEMMA OpenThreadTypes == ASSUME CxTyped, NEW r \in CxRuns, OpenThread(r) PROVE CxTyped'
<1>1. UNCHANGED <<srv, mail, sq>> /\ (NoFault \/ CxFault)
  BY DEF OpenThread
<1>2. CASE Aborts(r)
  BY <1>1, <1>2, AbortsTyped, TypedSame, Zenon DEF CxTyped
<1>3. CASE srv.up /\ route' = r /\ Goes(r, "dispatch", "turn") /\ NoFault /\ UNCHANGED <<slot, cx>>
  <2>1. ccall' \in [CxRuns -> [Callers -> CxCalls]]
    BY <1>3, CallMoves DEF Callers, CallPlaces, CallKinds, CallArgs
  <2>2. route' \in CxRuns \cup {NoRun}
    BY <1>3
  <2> QED BY <1>1, <1>3, <2>1, <2>2, TypedSame, Zenon DEF CxTyped
<1> QED BY <1>2, <1>3 DEF OpenThread

\* Starting a turn keeps them.
LEMMA TurnBeginsTyped ==
    ASSUME CxTyped, NEW r \in CxRuns, TurnBegins(r)
    PROVE  srv' \in CxServers /\ srv.n[r] + 1 \in CxTurns
<1>1. srv.n[r] + 1 \in CxTurns /\ srv.n[r] + 1 \in 0..MaxTurns
  BY RunHas, CxAssumption DEF TurnBegins, CxTurns
<1>2. /\ [srv.n EXCEPT ![r] = @ + 1] \in [CxRuns -> 0..MaxTurns]
      /\ [srv.busy EXCEPT ![r] = TRUE] \in [CxRuns -> BOOLEAN]
  BY <1>1, RunHas DEF ServerFits
<1>3. srv' = [srv EXCEPT !.n = [srv.n EXCEPT ![r] = @ + 1],
                         !.busy = [srv.busy EXCEPT ![r] = TRUE]]
  BY Zenon DEF TurnBegins
<1>4. [srv EXCEPT !.n = [srv.n EXCEPT ![r] = @ + 1]] \in CxServers
  BY <1>2, RunHas, ServerUpdates, Zenon
<1>5. \A x \in CxServers : [x EXCEPT !.busy = [srv.busy EXCEPT ![r] = TRUE]] \in CxServers
  BY <1>2, ServerUpdates, Zenon
<1> QED BY <1>1, <1>3, <1>4, <1>5, Zenon

\* So does starting a turn.
LEMMA StartTurnTypes ==
    ASSUME CxTyped, NEW r \in CxRuns, NEW c \in Callers, CallsFit, StartTurn(r, c) PROVE CxTyped'
<1>1. UNCHANGED <<mail, sq>> /\ (NoFault \/ CxFault)
  BY DEF StartTurn
<1>2. (srv' = srv \/ TurnBegins(r)) /\ srv' \in CxServers
  BY TurnBeginsTyped, TypedSame DEF StartTurn
<1>3. Returns(r, c) => ccall' \in [CxRuns -> [Callers -> CxCalls]]
  BY CallMoves DEF CallPlaces, CallKinds, CallArgs
<1>4. CASE /\ TurnBegins(r) /\ Returns(r, c) /\ UNCHANGED <<slot, route>>
           /\ cx' = [cx EXCEPT ![r].active = srv.n[r] + 1, ![r].reg = @ \cup {srv.n[r] + 1},
                               ![r].late = @ \/ BeingEnded(r),
                               ![r].stream = IF @ = "none" THEN "open" ELSE @]
  <2> DEFINE s == IF cx[r].stream = "none" THEN "open" ELSE cx[r].stream
             l == cx[r].late \/ BeingEnded(r)
             g == cx[r].reg \cup {srv.n[r] + 1}
             a == srv.n[r] + 1
  <2>1. cx' = [cx EXCEPT ![r] = [cx[r] EXCEPT !.active = a, !.reg = g, !.late = l, !.stream = s]]
    BY <1>4, Zenon
  <2>2. a \in 0..MaxTurns /\ g \in SUBSET CxTurns /\ l \in BOOLEAN /\ s \in StreamStates
    BY <1>4, TurnBeginsTyped, RunHas DEF RunFits, CxTurns, StreamStates
  <2> HIDE DEF s, l, g, a
  <2>3. [cx[r] EXCEPT !.active = a, !.reg = g, !.late = l, !.stream = s] \in CxRunStates
    BY <2>2, RunHas, TurnIsNew, Zenon
  <2>4. cx' \in [CxRuns -> CxRunStates]
    BY <2>1, <2>3, RunMoves, Zenon
  <2> QED BY <1>1, <1>2, <1>3, <1>4, <2>4, TypedSame, Zenon DEF CxTyped
<1>5. CASE Returns(r, c) /\ UNCHANGED <<cx, slot, route>>
  BY <1>1, <1>2, <1>3, <1>5, TypedSame, Zenon DEF CxTyped
<1>6. CASE ccall[r][c].kind = "start" /\ Aborts(r)
  BY <1>1, <1>2, <1>6, AbortsTyped, TypedSame, Zenon DEF CxTyped
<1> QED BY <1>4, <1>5, <1>6 DEF StartTurn

\* The gateway's calls keep them.
LEMMA SendsTyped ==
    ASSUME CxTyped, NEW r \in CxRuns, NEW c \in Callers, Sends(r, c)
    PROVE  cx' \in [CxRuns -> CxRunStates]
<1>1. [cx EXCEPT ![r].queued = FALSE] \in [CxRuns -> CxRunStates]
  BY RunHas, RunUpdates, RunMoves, Zenon
<1>2. cx' = cx \/ cx' = [cx EXCEPT ![r].queued = FALSE]
  BY Zenon DEF Sends
<1> QED BY <1>1, <1>2, TypedSame, Zenon

\* So do a steer, a query and a cancellation.
LEMMA OwnerTypes ==
    ASSUME CxTyped, NEW r \in CxRuns, NEW c \in Callers,
           SteerRun(r, c) \/ Query(r, c) \/ Cancel(r)
    PROVE  CxTyped'
<1>1. UNCHANGED <<srv, mail, slot, route>> /\ NoFault
  BY DEF SteerRun, Query, Cancel, NoFault
<1>2. sq' \in [Sides -> SqStates] /\ ccall' \in [CxRuns -> [Callers -> CxCalls]]
  <2>1. {"steer", "query", "cancel"} \subseteq CallKinds /\ "owner" \in Callers
    BY DEF CallKinds, Callers
  <2> QED BY <2>1, SideWaits DEF SteerRun, Query, Cancel
<1>3. cx' \in [CxRuns -> CxRunStates]
  BY SendsTyped, TypedSame DEF SteerRun, Query, Cancel
<1> QED BY <1>1, <1>2, <1>3, TypedSame, Zenon DEF CxTyped

\* So does an answer to what the worker asked.
LEMMA RespondTypes ==
    ASSUME CxTyped, NEW r \in CxRuns, NEW c \in Callers, Respond(r, c) PROVE CxTyped'
<1>1. UNCHANGED <<srv, mail, slot, route, sq>> /\ NoFault /\ cx' \in [CxRuns -> CxRunStates]
  BY SendsTyped DEF Respond, NoFault
<1>2. PICK k \in CxAsks :
         ccall' = [ccall EXCEPT ![r][c] = [pc |-> "answer", kind |-> "respond", arg |-> k]]
  BY RunHas DEF Respond, RunFits
<1>3. ccall' \in [CxRuns -> [Callers -> CxCalls]]
  BY <1>2, CallMoves DEF CallPlaces, CallKinds, CallArgs
<1> QED BY <1>1, <1>3, TypedSame, Zenon DEF CxTyped

\* So does the close of a run.
LEMMA CloseTypes == ASSUME CxTyped, NEW r \in CxRuns, Close(r) PROVE CxTyped'
<1>1. UNCHANGED <<srv, mail, slot, route>> /\ (NoFault \/ CxFault)
  BY DEF Close
<1>2. sq' \in [Sides -> SqStates] /\ ccall' \in [CxRuns -> [Callers -> CxCalls]]
  BY SideWaits DEF Close, CallKinds, Callers
<1>3. cx' \in [CxRuns -> CxRunStates]
  BY RunHas, RunUpdates, RunMoves, Zenon DEF Close
<1> QED BY <1>1, <1>2, <1>3, TypedSame, Zenon DEF CxTyped

\* So does going on when the side query is gone.
LEMMA SideGoneTypes ==
    ASSUME CxTyped, NEW r \in CxRuns, NEW c \in Callers, CallFits(r, c), SideGone(r, c)
    PROVE  CxTyped'
<1>1. UNCHANGED <<srv, mail, slot, sq>> /\ NoFault
  BY DEF SideGone, NoFault
<1>2. CASE StartsAnew(r, c)
  BY <1>1, <1>2, AnewTyped, TypedSame, Zenon DEF CxTyped
<1>3. CASE /\ Goes(r, c, AfterSide(ccall[r][c].kind)) /\ UNCHANGED route
           /\ cx' = IF ccall[r][c].kind \in {"close", "end"}
                    THEN [cx EXCEPT ![r].pend = {}] ELSE cx
  <2>1. ccall[r][c].kind \in {"steer", "query", "cancel", "close", "end"}
    BY DEF SideGone, CallAt, CallFits, Fits
  <2>2. AfterSide(ccall[r][c].kind) \in CallPlaces
    BY <2>1 DEF AfterSide, CallPlaces
  <2>3. ccall' \in [CxRuns -> [Callers -> CxCalls]]
    BY <1>3, <2>2, CallMoves DEF CallKinds, CallArgs
  <2>4. [cx EXCEPT ![r].pend = {}] \in [CxRuns -> CxRunStates]
    BY RunHas, RunUpdates, RunMoves, Zenon
  <2>5. cx' \in [CxRuns -> CxRunStates]
    BY <1>3, <2>4, TypedSame, Zenon
  <2> QED BY <1>1, <1>3, <2>3, <2>5, TypedSame, Zenon DEF CxTyped
<1>4. CASE Returns(r, c) /\ UNCHANGED <<cx, route>>
  <2>1. ccall' \in [CxRuns -> [Callers -> CxCalls]]
    BY <1>4, CallMoves DEF CallPlaces, CallKinds, CallArgs
  <2> QED BY <1>1, <1>4, <2>1, TypedSame, Zenon DEF CxTyped
<1> QED BY <1>2, <1>3, <1>4, Zenon DEF SideGone

\* So does steering a turn.
LEMMA SteerTurnTypes ==
    ASSUME CxTyped, NEW r \in CxRuns, NEW c \in Callers, SteerTurn(r, c) PROVE CxTyped'
<1>1. UNCHANGED <<srv, mail, slot, sq>> /\ (NoFault \/ CxFault)
  BY DEF SteerTurn
<1>2. CASE StartsAnew(r, c)
  BY <1>1, <1>2, AnewTyped, TypedSame, Zenon DEF CxTyped
<1>3. CASE Returns(r, c) /\ UNCHANGED <<cx, route>>
  <2>1. ccall' \in [CxRuns -> [Callers -> CxCalls]]
    BY <1>3, CallMoves DEF CallPlaces, CallKinds, CallArgs
  <2> QED BY <1>1, <1>3, <2>1, TypedSame, Zenon DEF CxTyped
<1> QED BY <1>2, <1>3 DEF SteerTurn

\* The name of a query that is to be forked is a new one.
LEMMA NameIsNew ==
    ASSUME CxTyped, CallsFit, NamesLeft, NEW r \in CxRuns, NEW c \in Callers,
           CallAt(r, c, "fork")
    PROVE  \E x \in NewNames(r) : x = CHOOSE new \in NewNames(r) : TRUE
<1>1. c \in Asking(r) /\ Asking(r) \subseteq Callers
  BY DEF Asking, CallAt, CallsFit, CallFits, Fits
<1>2. IsFiniteSet(Asking(r)) /\ Cardinality(Asking(r)) # 0
  <2>1. IsFiniteSet(Callers)
    <3>1. Callers = {"owner"} \cup {"dispatch"}
      BY DEF Callers
    <3> QED BY <3>1, FS_Singleton, FS_Union
  <2> QED BY <1>1, <2>1, FS_Subset, FS_EmptySet
<1>3. Cardinality(NewNames(r)) # 0
  <2>1. /\ Cardinality(Asking(r)) \in Nat /\ Cardinality(Asking(r)) <= Cardinality(NewNames(r))
    BY <1>2, FS_CardinalityType DEF NamesLeft
  <2>2. IsFiniteSet(NewNames(r))
    BY CxAssumption, FS_Subset DEF NewNames
  <2> QED BY <1>2, <2>1, <2>2, FS_CardinalityType
<1>4. NewNames(r) # {}
  BY <1>3, FS_EmptySet
<1> QED BY <1>4

\* A fork's state is set to a state.
LEMMA SideSet ==
    ASSUME CxTyped, NEW y \in Sides, NEW v \in SideStates,
           srv' = [srv EXCEPT !.side[y] = v]
    PROVE  srv' \in CxServers
<1>1. srv \in CxServers /\ srv.side \in [Sides -> SideStates]
  BY ServerIs DEF CxTyped, ServerFits
<1>2. [srv.side EXCEPT ![y] = v] \in [Sides -> SideStates]
  BY <1>1
<1>3. srv' = [srv EXCEPT !.side = [srv.side EXCEPT ![y] = v]]
  BY Zenon
<1> QED BY <1>1, <1>2, <1>3, ServerUpdates, Zenon

\* Forking the thread keeps the types.
LEMMA ForkTypes ==
    ASSUME CxTyped, CallsFit, NamesLeft, NEW r \in CxRuns, NEW c \in Callers, Fork(r, c)
    PROVE  CxTyped'
<1>1. UNCHANGED <<mail, slot, route, cx, sq>> /\ (NoFault \/ CxFault)
  BY DEF Fork
<1>2. PICK x \in NewNames(r) : x = CHOOSE new \in NewNames(r) : TRUE
  BY NameIsNew DEF Fork
<1>3. x \in CxQueries /\ <<r, x>> \in Sides
  BY <1>2 DEF NewNames
<1>4. srv' \in CxServers
  <2>1. srv' = srv \/ srv' = [srv EXCEPT !.side[<<r, x>>] = "idle"]
    BY <1>2 DEF Fork
  <2> QED BY <1>3, <2>1, SideSet, TypedSame DEF SideStates
<1>5. ccall' \in [CxRuns -> [Callers -> CxCalls]]
  <2>1. Returns(r, c) \/ ccall' = [ccall EXCEPT ![r][c].pc = "side_turn", ![r][c].arg = x]
    BY <1>2 DEF Fork
  <2>2. x \in CallArgs /\ "side_turn" \in CallPlaces /\ "none" \in CallKinds
    BY <1>3 DEF CallArgs, CallPlaces, CallKinds
  <2>3. CASE Returns(r, c)
    BY <2>2, <2>3, CallMoves, Zenon
  <2>4. CASE ccall' = [ccall EXCEPT ![r][c].pc = "side_turn", ![r][c].arg = x]
    BY <2>2, <2>4, CallMoves, Zenon
  <2> QED BY <2>1, <2>3, <2>4
<1> QED BY <1>1, <1>4, <1>5, TypedSame, Zenon DEF CxTyped

\* So does starting the side query's turn.
LEMMA StartSideTypes ==
    ASSUME CxTyped, NEW r \in CxRuns, NEW c \in Callers, CallFits(r, c), StartSide(r, c)
    PROVE  CxTyped'
<1>1. UNCHANGED <<mail, slot, route>> /\ (NoFault \/ CxFault)
  BY DEF StartSide
<1>2. PICK x \in CxQueries : x = ccall[r][c].arg /\ <<r, x>> \in Sides
  BY DEF StartSide, CallAt, CallFits, Fits
<1>3. ccall' \in [CxRuns -> [Callers -> CxCalls]]
  BY CallMoves DEF StartSide, CallPlaces, CallKinds, CallArgs
<1>4. CASE /\ srv' = [srv EXCEPT !.side[<<r, x>>] = "running"]
           /\ cx' = [cx EXCEPT ![r].side = x, ![r].overlap = @ \/ cx[r].side # NoQuery]
           /\ sq' = [sq EXCEPT ![<<r, x>>] = "wait"]
  <2>1. srv' \in CxServers
    BY <1>2, <1>4, SideSet DEF SideStates
  <2>2. sq' \in [Sides -> SqStates]
    BY <1>4, SideMoves DEF SqStates
  <2> DEFINE o == cx[r].overlap \/ cx[r].side # NoQuery
  <2>3. cx' = [cx EXCEPT ![r] = [cx[r] EXCEPT !.side = x, !.overlap = o]]
    BY <1>4, Zenon
  <2>4. o \in BOOLEAN
    OBVIOUS
  <2> HIDE DEF o
  <2>5. [cx[r] EXCEPT !.side = x, !.overlap = o] \in CxRunStates
    BY <2>4, RunHas, RunUpdates, Zenon
  <2>6. cx' \in [CxRuns -> CxRunStates]
    BY <2>3, <2>5, RunMoves, Zenon
  <2> QED BY <1>1, <1>3, <2>1, <2>2, <2>6, TypedSame, Zenon DEF CxTyped
<1>5. CASE srv' = [srv EXCEPT !.side[<<r, x>>] = "released"] /\ UNCHANGED <<cx, sq>>
  <2>1. srv' \in CxServers
    BY <1>2, <1>5, SideSet DEF SideStates
  <2> QED BY <1>1, <1>3, <1>5, <2>1, TypedSame, Zenon DEF CxTyped
<1> QED BY <1>2, <1>4, <1>5 DEF StartSide

\* An answer and the end of an interrupt keep them.
LEMMA AskSet ==
    ASSUME CxTyped, NEW r \in CxRuns, NEW k, NEW v \in AskStates,
           srv' = [srv EXCEPT !.ask[r][k] = v]
    PROVE  srv' \in CxServers
<1> DEFINE row == [srv.ask[r] EXCEPT ![k] = v]
           aa == [srv.ask EXCEPT ![r] = row]
<1>1. srv \in CxServers /\ srv.ask \in [CxRuns -> [CxAsks -> AskStates]]
  BY ServerIs DEF CxTyped, ServerFits
<1>2. srv' = [srv EXCEPT !.ask = aa]
  BY Zenon
<1>3. row \in [CxAsks -> AskStates]
  BY <1>1
<1> HIDE DEF row
<1>4. aa \in [CxRuns -> [CxAsks -> AskStates]]
  BY <1>1, <1>3
<1> HIDE DEF aa
<1>5. \A w \in [CxRuns -> [CxAsks -> AskStates]] : [srv EXCEPT !.ask = w] \in CxServers
  BY <1>1, ServerUpdates, Zenon
<1> QED BY <1>2, <1>4, <1>5, Zenon

\* A question that is open becomes v, another stays.
LEMMA AskMoves ==
    ASSUME CxTyped, NEW r \in CxRuns, NEW k, NEW v \in AskStates,
           srv' = [srv EXCEPT !.ask[r][k] = IF @ = "open" THEN v ELSE @]
    PROVE  srv' \in CxServers
<1>1. CASE k \in CxAsks
  <2>1. srv.ask[r][k] \in AskStates
    BY <1>1, RunHas DEF ServerFits
  <2>2. PICK w \in AskStates : w = IF srv.ask[r][k] = "open" THEN v ELSE srv.ask[r][k]
    BY <2>1
  <2>3. srv' = [srv EXCEPT !.ask[r][k] = w]
    BY <2>2, Zenon
  <2> QED BY <2>3, AskSet
<1>2. CASE k \notin CxAsks
  <2>1. srv \in CxServers /\ srv.ask \in [CxRuns -> [CxAsks -> AskStates]]
    BY ServerIs DEF CxTyped, ServerFits
  <2> DEFINE w == IF srv.ask[r][k] = "open" THEN v ELSE srv.ask[r][k]
  <2>2. srv' = [srv EXCEPT !.ask = [srv.ask EXCEPT ![r] = [srv.ask[r] EXCEPT ![k] = w]]]
    BY Zenon
  <2> HIDE DEF w
  <2>3. [srv.ask[r] EXCEPT ![k] = w] = srv.ask[r]
    BY <1>2, <2>1
  <2>4. srv' = [srv EXCEPT !.ask = [srv.ask EXCEPT ![r] = srv.ask[r]]]
    BY <2>2, <2>3
  <2>5. [srv.ask EXCEPT ![r] = srv.ask[r]] = srv.ask
    BY <2>1
  <2>6. [srv EXCEPT !.ask = srv.ask] \in CxServers
    BY <2>1, ServerUpdates, Zenon
  <2> QED BY <2>4, <2>5, <2>6, Zenon
<1> QED BY <1>1, <1>2

\* Sending an answer keeps the types.
LEMMA AnswerSentTypes ==
    ASSUME CxTyped, NEW r \in CxRuns, NEW c \in Callers, AnswerSent(r, c) PROVE CxTyped'
<1>1. UNCHANGED <<mail, slot, route, sq>> /\ (NoFault \/ CxFault)
  BY DEF AnswerSent
<1>2. ccall' \in [CxRuns -> [Callers -> CxCalls]]
  <2>1. Returns(r, c) \/ Goes(r, c, "tell")
    BY DEF AnswerSent
  <2> QED BY <2>1, CallMoves DEF CallPlaces, CallKinds, CallArgs
<1> DEFINE k == ccall[r][c].arg
<1>3. srv' \in CxServers
  <2>1. srv' = srv \/ srv' = AskAnswered(srv, r, k)
    BY Zenon DEF AnswerSent
  <2>2. CASE srv' = AskAnswered(srv, r, k)
    BY <2>2, AskMoves DEF AskStates, AskAnswered
  <2> QED BY <2>1, <2>2, TypedSame
<1>4. CASE cx' = [cx EXCEPT ![r].pend = @ \ {k}]
  <2>2. cx[r].pend \ {k} \in SUBSET CxAsks
    BY RunHas DEF RunFits
  <2>3. [cx[r] EXCEPT !.pend = cx[r].pend \ {k}] \in CxRunStates
    BY <2>2, RunHas, RunUpdates, Zenon
  <2>4. cx' = [cx EXCEPT ![r] = [cx[r] EXCEPT !.pend = cx[r].pend \ {k}]]
    BY <1>4, Zenon
  <2>5. cx' \in [CxRuns -> CxRunStates]
    BY <2>3, <2>4, RunMoves, Zenon
  <2> QED BY <1>1, <1>2, <1>3, <2>5, TypedSame, Zenon DEF CxTyped
<1>5. CASE UNCHANGED cx
  BY <1>1, <1>2, <1>3, <1>5, TypedSame, Zenon DEF CxTyped
<1> QED BY <1>4, <1>5, Zenon DEF AnswerSent

\* So do the words after it.
LEMMA TellTypes ==
    ASSUME CxTyped, NEW r \in CxRuns, NEW c \in Callers, TellWhy(r, c) PROVE CxTyped'
<1>1. UNCHANGED <<srv, mail, slot, route, cx, sq>> /\ NoFault
  BY DEF TellWhy, NoFault
<1>2. ccall' \in [CxRuns -> [Callers -> CxCalls]]
  BY CallMoves DEF TellWhy, CallPlaces, CallKinds, CallArgs
<1> QED BY <1>1, <1>2, TypedSame, Zenon DEF CxTyped

\* A call that ends where it is leaves runs.
LEMMA LeftTyped ==
    ASSUME CxTyped, NEW r \in CxRuns, NEW c \in Callers
    PROVE  /\ Left(r, c) \in [CxRuns -> CxRunStates]
           /\ cx[r].active # 0 => [Left(r, c) EXCEPT ![r].expected = @ \cup {cx[r].active}]
                                    \in [CxRuns -> CxRunStates]
<1> DEFINE v == cx[r].cut \/ ccall[r][c].kind \in {"close", "end"}
           x == [cx[r] EXCEPT !.cut = v]
           e == cx[r].expected \cup {cx[r].active}
<1>1. Left(r, c) = [cx EXCEPT ![r] = x]
  BY Zenon DEF Left
<1>2. v \in BOOLEAN
  OBVIOUS
<1> HIDE DEF v
<1>3. x \in CxRunStates
  BY <1>2, RunHas, RunUpdates, Zenon
<1>4. Left(r, c) \in [CxRuns -> CxRunStates]
  BY <1>1, <1>3, RunMoves, Zenon
<1>5. ASSUME cx[r].active # 0
      PROVE  [Left(r, c) EXCEPT ![r].expected = @ \cup {cx[r].active}] \in [CxRuns -> CxRunStates]
  <2>1. e \in SUBSET CxTurns
    BY <1>5, RunHas, CxAssumption DEF RunFits, CxTurns
  <2>2. cx \in [CxRuns -> CxRunStates]
    BY DEF CxTyped
  <2>3. x.expected = cx[r].expected
    BY RunHas DEF CxRunStates
  <2>4. [Left(r, c) EXCEPT ![r].expected = @ \cup {cx[r].active}]
        = [cx EXCEPT ![r] = [x EXCEPT !.expected = e]]
    <3> HIDE DEF x
    <3> QED BY <1>1, <2>2, <2>3
  <2> HIDE DEF e, x
  <2>5. [x EXCEPT !.expected = e] \in CxRunStates
    BY <1>3, <2>1, RunUpdates, Zenon
  <2> QED BY <2>4, <2>5, RunMoves, Zenon
<1> QED BY <1>4, <1>5

\* An interrupt that came to nothing leaves the calls calls.
LEMMA PlaceTyped ==
    ASSUME CxTyped, NEW r \in CxRuns, NEW c \in Callers, Unclean(r, c)
    PROVE  ccall' \in [CxRuns -> [Callers -> CxCalls]]
  BY CallMoves DEF Unclean, CallPlaces, CallKinds, CallArgs

\* One that came to something does too.
LEMMA CleanTyped ==
    ASSUME CxTyped, NEW r \in CxRuns, NEW c \in Callers, Clean(r, c)
    PROVE  /\ ccall' \in [CxRuns -> [Callers -> CxCalls]]
           /\ cx' \in [CxRuns -> CxRunStates] /\ sq' \in [Sides -> SqStates]
<1>1. CASE Goes(r, c, "finish") /\ UNCHANGED <<cx, sq>>
  BY <1>1, CallMoves, TypedSame DEF CallPlaces, CallKinds, CallArgs
<1>2. CASE Returns(r, c) /\ UNCHANGED <<cx, sq>>
  BY <1>2, CallMoves, TypedSame DEF CallPlaces, CallKinds, CallArgs
<1>3. CASE cx' = [cx EXCEPT ![r].closed = TRUE] /\ WaitsForSide(r, c, "end")
  <2>1. cx' \in [CxRuns -> CxRunStates]
    BY <1>3, RunHas, RunUpdates, RunMoves, Zenon
  <2> QED BY <1>3, <2>1, SideWaits DEF CallKinds
<1> QED BY <1>1, <1>2, <1>3 DEF Clean, Ending

\* The interrupt keeps the types.
LEMMA InterruptTypes ==
    ASSUME CxTyped, NEW r \in CxRuns, NEW c \in Callers, Interrupt(r, c) PROVE CxTyped'
<1>1. UNCHANGED <<slot, route>> /\ (NoFault \/ CxFault)
  BY DEF Interrupt
<1>2. CASE Clean(r, c) /\ UNCHANGED <<srv, mail>>
  BY <1>1, <1>2, CleanTyped, TypedSame, Zenon DEF CxTyped
<1> DEFINE t == cx[r].active
<1>3. ASSUME t # 0, cx' = [cx EXCEPT ![r].expected = @ \cup {t}]
      PROVE  t \in CxTurns /\ cx' \in [CxRuns -> CxRunStates]
  <2>1. t \in CxTurns /\ cx[r].expected \cup {t} \in SUBSET CxTurns
    BY <1>3, RunHas, CxAssumption DEF RunFits, CxTurns
  <2>2. cx' = [cx EXCEPT ![r] = [cx[r] EXCEPT !.expected = cx[r].expected \cup {t}]]
    BY <1>3, Zenon
  <2>3. [cx[r] EXCEPT !.expected = cx[r].expected \cup {t}] \in CxRunStates
    BY <2>1, RunHas, RunUpdates, Zenon
  <2> QED BY <2>1, <2>2, <2>3, RunMoves, Zenon
<1>4. CASE /\ t # 0 /\ srv' = TurnOver(srv, r) /\ Says(r, "interrupted", t) /\ UNCHANGED sq
           /\ ccall' = [ccall EXCEPT ![r][c].pc = "wait", ![r][c].arg = t]
           /\ cx' = [cx EXCEPT ![r].expected = @ \cup {t}]
  <2>1. t \in CxTurns /\ cx' \in [CxRuns -> CxRunStates]
    BY <1>3, <1>4
  <2>2. mail' \in Seq(CxMessages)
    BY <1>4, <2>1, SaysTyped DEF Says, CxMessages, Ends
  <2>3. ccall' \in [CxRuns -> [Callers -> CxCalls]]
    BY <1>4, <2>1, CallMoves DEF CallPlaces, CallKinds, CallArgs
  <2> QED BY <1>1, <1>4, <2>1, <2>2, <2>3, TurnOverTyped, TypedSame, Zenon DEF CxTyped
<1>5. CASE /\ t # 0 /\ Unclean(r, c) /\ UNCHANGED <<srv, mail, sq>>
           /\ cx' = [cx EXCEPT ![r].expected = @ \cup {t}]
  BY <1>1, <1>3, <1>5, PlaceTyped, TypedSame, Zenon DEF CxTyped
<1>6. CASE /\ t # 0 /\ Returns(r, c) /\ UNCHANGED <<srv, mail, sq>>
           /\ cx' = [Left(r, c) EXCEPT ![r].expected = @ \cup {t}]
  <2>1. ccall' \in [CxRuns -> [Callers -> CxCalls]]
    BY <1>6, CallMoves DEF CallPlaces, CallKinds, CallArgs
  <2> QED BY <1>1, <1>6, <2>1, LeftTyped, TypedSame, Zenon DEF CxTyped
<1> QED BY <1>2, <1>4, <1>5, <1>6, Zenon DEF Interrupt

\* So does the end of the wait for it.
LEMMA InterruptedTypes ==
    ASSUME CxTyped, NEW r \in CxRuns, NEW c \in Callers, Interrupted(r, c) PROVE CxTyped'
<1>1. UNCHANGED <<srv, mail, slot, route>> /\ (NoFault \/ CxFault)
  BY DEF Interrupted
<1>2. CASE Clean(r, c)
  BY <1>1, <1>2, CleanTyped, TypedSame, Zenon DEF CxTyped
<1>3. CASE Unclean(r, c) /\ UNCHANGED <<cx, sq>>
  BY <1>1, <1>3, PlaceTyped, TypedSame, Zenon DEF CxTyped
<1> QED BY <1>2, <1>3 DEF Interrupted

\* A restart of the worker keeps them.
Hushed == [u \in CxRuns |-> [cx[u] EXCEPT !.pend = IF cx[u].reg = {} THEN @ ELSE {}]]

\* What a restart leaves of the runs are runs.
LEMMA ClearedTyped ==
    ASSUME CxTyped
    PROVE  Hushed \in [CxRuns -> CxRunStates] /\ Unregistered \in [CxRuns -> CxRunStates]
<1>1. ASSUME NEW u \in CxRuns
      PROVE  [cx[u] EXCEPT !.pend = IF cx[u].reg = {} THEN @ ELSE {}] \in CxRunStates
  <2>1. PICK p \in SUBSET CxAsks : p = IF cx[u].reg = {} THEN cx[u].pend ELSE {}
    BY RunHas DEF RunFits
  <2>2. [cx[u] EXCEPT !.pend = p] \in CxRunStates
    BY RunHas, RunUpdates, Zenon
  <2>3. [cx[u] EXCEPT !.pend = IF cx[u].reg = {} THEN @ ELSE {}] = [cx[u] EXCEPT !.pend = p]
    BY <2>1, Zenon
  <2> QED BY <2>2, <2>3, Zenon
<1>2. ASSUME NEW u \in CxRuns PROVE [cx[u] EXCEPT !.reg = {}] \in CxRunStates
  BY RunHas, RunUpdates, Zenon
<1> QED BY <1>1, <1>2 DEF Hushed, Unregistered

\* Its first step keeps the types.
LEMMA StopTypes == ASSUME CxTyped, NEW r \in CxRuns, StopClient(r) PROVE CxTyped'
<1>1. UNCHANGED <<mail, slot, route, sq>> /\ NoFault
  BY DEF StopClient, NoFault
<1>2. srv' \in CxServers
  BY RestartedTyped DEF StopClient
<1>3. cx' \in [CxRuns -> CxRunStates]
  BY ClearedTyped, Zenon DEF StopClient, Hushed
<1>4. ccall' \in [CxRuns -> [Callers -> CxCalls]]
  BY CallMoves DEF StopClient, CallPlaces, CallKinds, CallArgs, Callers
<1> QED BY <1>1, <1>2, <1>3, <1>4, TypedSame, Zenon DEF CxTyped

\* So does its end.
LEMMA StartClientTypes == ASSUME CxTyped, NEW r \in CxRuns, StartClient(r) PROVE CxTyped'
<1>1. UNCHANGED <<slot, route>> /\ NoFault /\ srv' = Restarted(srv) /\ mail' = <<>>
  BY DEF StartClient, NoFault
<1>2. mail' \in Seq(CxMessages)
  BY <1>1
<1>3. \A x \in CxRunStates : /\ [x EXCEPT !.active = 0] \in CxRunStates
                             /\ [x EXCEPT !.active = 0, !.closed = TRUE] \in CxRunStates
  <2>1. 0 \in 0..MaxTurns
    BY CxAssumption
  <2> QED BY <2>1, RunUpdates, Zenon
<1>4. CASE cx' = [Unregistered EXCEPT ![r].active = 0] /\ Returns(r, "owner") /\ UNCHANGED sq
  <2>1. ccall' \in [CxRuns -> [Callers -> CxCalls]]
    BY <1>4, CallMoves DEF CallPlaces, CallKinds, CallArgs, Callers
  <2>2. cx' = [Unregistered EXCEPT ![r] = [Unregistered[r] EXCEPT !.active = 0]]
    BY <1>4, Zenon
  <2>3. cx' \in [CxRuns -> CxRunStates]
    BY <1>3, <2>2, ClearedTyped
  <2> QED BY <1>1, <1>2, <1>4, <2>1, <2>3, RestartedTyped, TypedSame, Zenon DEF CxTyped
<1>5. CASE /\ cx' = [Unregistered EXCEPT ![r].active = 0, ![r].closed = TRUE]
           /\ WaitsForSide(r, "owner", "end")
  <2>2. cx' = [Unregistered EXCEPT ![r] = [Unregistered[r] EXCEPT !.active = 0, !.closed = TRUE]]
    BY <1>5, Zenon
  <2>3. cx' \in [CxRuns -> CxRunStates]
    BY <1>3, <2>2, ClearedTyped
  <2>4. sq' \in [Sides -> SqStates] /\ ccall' \in [CxRuns -> [Callers -> CxCalls]]
    BY <1>5, SideWaits DEF Callers, CallKinds
  <2> QED BY <1>1, <1>2, <2>3, <2>4, RestartedTyped, TypedSame, Zenon DEF CxTyped
<1> QED BY <1>4, <1>5, Zenon DEF StartClient

\* So does one that fails.
LEMMA RestartFailsTypes == ASSUME CxTyped, NEW r \in CxRuns, RestartFails(r) PROVE CxTyped'
<1>1. UNCHANGED <<slot, route, sq>> /\ CxFault /\ srv' = ServerDown(srv)
  BY DEF RestartFails
<1>2. ccall' \in [CxRuns -> [Callers -> CxCalls]]
  BY CallMoves DEF RestartFails, CallPlaces, CallKinds, CallArgs, Callers
<1>3. mail' \in Seq(CxMessages) /\ cx' \in [CxRuns -> CxRunStates]
  <2>1. <<>> \in Seq(CxMessages)
    OBVIOUS
  <2> QED BY <2>1, ClearedTyped, TypedSame, Zenon DEF RestartFails
<1> QED BY <1>1, <1>2, <1>3, RestartedTyped, TypedSame, Zenon DEF CxTyped

\* So does giving a call up.
LEMMA GivesUpTypes ==
    ASSUME CxTyped, NEW r \in CxRuns, NEW c \in Callers, GivesUp(r, c) PROVE CxTyped'
<1>1. UNCHANGED <<srv, mail, slot, route>> /\ CxFault
  BY DEF GivesUp
<1>2. ccall' \in [CxRuns -> [Callers -> CxCalls]]
  BY CallMoves DEF GivesUp, CallPlaces, CallKinds, CallArgs
<1>3. cx' \in [CxRuns -> CxRunStates]
  <2> DEFINE t == cx[r].active
  <2>1. \/ cx' = Left(r, c)
        \/ t # 0 /\ cx' = [Left(r, c) EXCEPT ![r].expected = @ \cup {t}]
    BY Zenon DEF GivesUp
  <2>2. /\ Left(r, c) \in [CxRuns -> CxRunStates]
        /\ t # 0 => [Left(r, c) EXCEPT ![r].expected = @ \cup {t}] \in [CxRuns -> CxRunStates]
    BY LeftTyped
  <2> HIDE DEF t
  <2> QED BY <2>1, <2>2
<1>4. sq' \in [Sides -> SqStates]
  <2> DEFINE y == <<r, ccall[r][c].arg>>
  <2>1. sq \in [Sides -> SqStates] /\ {"aborted", "done"} \subseteq SqStates
    BY DEF CxTyped, SqStates
  <2>2. \/ sq' = sq
        \/ sq' = [sq EXCEPT ![y] = CASE @ = "dispose" -> "aborted"
                                    [] @ = "release" -> "done" [] OTHER -> @]
    BY Zenon DEF GivesUp
  <2> QED BY <2>1, <2>2
<1> QED BY <1>1, <1>2, <1>3, <1>4, TypedSame, Zenon DEF CxTyped

\* The rest of a close keeps the types.
LEMMA FinishTypes ==
    ASSUME CxTyped, NEW r \in CxRuns, NEW c \in Callers, Finish(r, c) PROVE CxTyped'
<1>1. UNCHANGED <<srv, mail, sq>> /\ NoFault
  BY DEF Finish, NoFault
<1>2. ccall' \in [CxRuns -> [Callers -> CxCalls]]
  BY CallMoves DEF Finish, CallPlaces, CallKinds, CallArgs
<1>3. cx' \in [CxRuns -> CxRunStates]
  <2>1. "ended" \in StreamStates
    BY DEF StreamStates
  <2> QED BY <2>1, RunHas, RunUpdates, RunMoves, Zenon DEF Finish
<1>4. slot' \in CxRuns \cup {NoRun} /\ route' \in CxRuns \cup {NoRun}
  BY DEF Finish, CxTyped
<1> QED BY <1>1, <1>2, <1>3, <1>4, TypedSame, Zenon DEF CxTyped

\* The side queries' tasks keep them.
LEMMA SideParts ==
    ASSUME NEW y \in Sides
    PROVE  y[1] \in CxRuns /\ y[2] \in CxQueries /\ y = <<y[1], y[2]>>
  BY CxAssumption

\* The end of a side query's wait and its release keep the types.
LEMMA SideTaskTypes ==
    ASSUME CxTyped, NEW y \in Sides, SideTimesOut(y) \/ ReleaseSide(y) PROVE CxTyped'
<1>1. UNCHANGED <<mail, slot, route, cx, ccall>> /\ NoFault
  BY DEF SideTimesOut, ReleaseSide, NoFault
<1>2. sq' \in [Sides -> SqStates]
  BY SideMoves DEF SideTimesOut, ReleaseSide, SqStates
<1>3. srv' \in CxServers
  BY SideSet, TypedSame DEF SideTimesOut, ReleaseSide, SideStates
<1> QED BY <1>1, <1>2, <1>3, TypedSame, Zenon DEF CxTyped

\* What is said of a side query is a message.
LEMMA SaysSide ==
    ASSUME CxTyped, NEW y \in Sides, Says(y[1], "side", y[2])
    PROVE  mail' \in Seq(CxMessages)
<1>1. [run |-> y[1], what |-> "side", arg |-> y[2]] \in CxMessages
  BY SideParts DEF CxMessages
<1> QED BY <1>1, SaysTyped DEF Says

\* Disposing of a side query keeps the types.
LEMMA DisposeTypes == ASSUME CxTyped, NEW y \in Sides, DisposeSide(y) PROVE CxTyped'
<1>1. UNCHANGED <<slot, route, ccall>> /\ NoFault
  BY DEF DisposeSide, NoFault
<1>2. sq' \in [Sides -> SqStates]
  BY SideMoves DEF DisposeSide, SqStates
<1>3. srv' \in CxServers /\ mail' \in Seq(CxMessages)
  BY SideSet, TypedSame, SaysSide DEF DisposeSide, SideStates
<1>4. cx' \in [CxRuns -> CxRunStates]
  <2> DEFINE r == y[1]
  <2>1. PICK x \in CxQueries \cup {NoQuery} : x = IF cx[r].side = y[2] THEN NoQuery ELSE cx[r].side
    BY SideParts, RunHas DEF RunFits
  <2>2. cx' = cx \/ cx' = [cx EXCEPT ![r] = [cx[r] EXCEPT !.side = x]]
    <3>1. cx' = cx \/ cx' = [cx EXCEPT ![r].side = IF @ = y[2] THEN NoQuery ELSE @]
      BY Zenon DEF DisposeSide
    <3> QED BY <2>1, <3>1
  <2>3. [cx[r] EXCEPT !.side = x] \in CxRunStates
    BY SideParts, RunHas, RunUpdates, Zenon
  <2>4. r \in CxRuns
    BY SideParts
  <2> HIDE DEF r
  <2>5. [cx EXCEPT ![r] = [cx[r] EXCEPT !.side = x]] \in [CxRuns -> CxRunStates]
    BY <2>3, <2>4, RunMoves, Zenon
  <2> QED BY <2>2, <2>5, TypedSame
<1> QED BY <1>1, <1>2, <1>3, <1>4, TypedSame, Zenon DEF CxTyped

\* So does its end on the server.
LEMMA EndsSideTypes == ASSUME CxTyped, NEW y \in Sides, ServerEndsSide(y) PROVE CxTyped'
<1>1. UNCHANGED <<slot, route, cx, ccall, sq>> /\ NoFault
  BY DEF ServerEndsSide, NoFault
<1>2. srv' \in CxServers /\ mail' \in Seq(CxMessages)
  BY SideSet, SaysSide DEF ServerEndsSide, SideStates
<1> QED BY <1>1, <1>2, TypedSame, Zenon DEF CxTyped

\* A turn that goes on has its number.
TurnsCount == \A r \in CxRuns : srv.busy[r] => srv.n[r] # 0

\* The server keeps them.
LEMMA TurnNumber ==
    ASSUME CxTyped, TurnsCount, NEW r \in CxRuns, srv.busy[r]
    PROVE  srv.n[r] \in CxTurns
  BY RunHas, CxAssumption DEF TurnsCount, CxTurns

\* A question of the worker keeps the types.
LEMMA AsksTypes ==
    ASSUME CxTyped, TurnsCount, NEW r \in CxRuns, ServerAsks(r) PROVE CxTyped'
<1>1. UNCHANGED <<slot, route, cx, ccall, sq>> /\ NoFault
  BY DEF ServerAsks, NoFault
<1>2. PICK k \in CxAsks : /\ srv' = [srv EXCEPT !.ask[r][k] = "open"]
                          /\ Says(r, "ask", <<k, srv.n[r]>>)
  BY DEF ServerAsks
<1>3. srv' \in CxServers
  BY <1>2, AskSet DEF AskStates
<1>4. [run |-> r, what |-> "ask", arg |-> <<k, srv.n[r]>>] \in CxMessages
  BY TurnNumber DEF CxMessages, ServerAsks
<1> QED BY <1>1, <1>2, <1>3, <1>4, SaysTyped, TypedSame, Zenon DEF CxTyped, Says

\* So does one that is settled elsewhere.
LEMMA ResolvesTypes == ASSUME CxTyped, NEW r \in CxRuns, ServerResolves(r) PROVE CxTyped'
<1>1. UNCHANGED <<slot, route, cx, ccall, sq>> /\ NoFault
  BY DEF ServerResolves, NoFault
<1>2. PICK k \in CxAsks : /\ srv' = [srv EXCEPT !.ask[r][k] = "answered"]
                          /\ Says(r, "resolved", k)
  BY DEF ServerResolves
<1>3. srv' \in CxServers
  BY <1>2, AskSet DEF AskStates
<1>4. [run |-> r, what |-> "resolved", arg |-> k] \in CxMessages
  BY DEF CxMessages
<1> QED BY <1>1, <1>2, <1>3, <1>4, SaysTyped, TypedSame, Zenon DEF CxTyped, Says

\* So does the end of a turn.
LEMMA EndsTypes ==
    ASSUME CxTyped, TurnsCount, NEW r \in CxRuns, ServerEnds(r) PROVE CxTyped'
<1>1. UNCHANGED <<slot, route, cx, ccall, sq>> /\ NoFault
  BY DEF ServerEnds, NoFault
<1>2. PICK how \in Ends : srv' = TurnOver(srv, r) /\ Says(r, how, srv.n[r])
  BY DEF ServerEnds
<1>3. [run |-> r, what |-> how, arg |-> srv.n[r]] \in CxMessages
  BY TurnNumber DEF CxMessages, ServerEnds
<1> QED BY <1>1, <1>2, <1>3, TurnOverTyped, SaysTyped, TypedSame, Zenon DEF CxTyped, Says

\* So does the end of the process.
LEMMA DiesTypes == ASSUME CxTyped, ServerDies PROVE CxTyped'
  BY RestartedTyped, TypedSame, Zenon DEF ServerDies, CxTyped

\* What the client reads keeps them.
LEMMA HeadOfMail ==
    ASSUME CxTyped, mail # <<>>
    PROVE  /\ Len(mail) \in Nat /\ Len(mail) > 0 /\ DOMAIN mail = 1..Len(mail)
           /\ Head(mail) = mail[1] /\ Head(mail) \in CxMessages
           /\ Tail(mail) \in Seq(CxMessages) /\ Len(Tail(mail)) = Len(mail) - 1
           /\ \A i \in 1..(Len(mail) - 1) : Tail(mail)[i] = mail[i + 1]
  BY DEF CxTyped

\* A message is of a run, and says what its kind says.
LEMMA MessageIs ==
    ASSUME NEW m \in CxMessages
    PROVE  /\ m.run \in CxRuns
           /\ m.what = "ask" => /\ m.arg \in CxAsks \X CxTurns
                               /\ m.arg[1] \in CxAsks /\ m.arg[2] \in CxTurns
           /\ m.what = "resolved" => m.arg \in CxAsks
           /\ m.what \in Ends => m.arg \in CxTurns
           /\ m.what = "side" => m.arg \in CxQueries /\ <<m.run, m.arg>> \in Sides
  BY DEF CxMessages, Ends

\* Reading a question keeps the types.
LEMMA SeeAskTyped ==
    ASSUME CxTyped, NEW m \in CxMessages, m.what = "ask", SeeAsk(m)
    PROVE  srv' \in CxServers /\ cx' \in [CxRuns -> CxRunStates]
<1>1. m.run \in CxRuns /\ {m.arg[1]} \in SUBSET CxAsks
  BY MessageIs
<1>2. CASE cx' = [cx EXCEPT ![m.run].pend = {m.arg[1]}] /\ UNCHANGED srv
  BY <1>1, <1>2, RunHas, RunUpdates, RunMoves, TypedSame, Zenon
<1>3. CASE Refused(m.run, m.arg[1]) /\ UNCHANGED cx
  BY <1>1, <1>3, AskMoves, TypedSame DEF Refused, AskStates
<1> QED BY <1>2, <1>3 DEF SeeAsk

\* So does reading the end of a turn.
LEMMA SeeEndTyped ==
    ASSUME CxTyped, NEW m \in CxMessages, m.what \in Ends, SeeEnd(m)
    PROVE  srv' \in CxServers /\ cx' \in [CxRuns -> CxRunStates]
<1>1. m.run \in CxRuns /\ m.arg \in CxTurns
  BY MessageIs
<1>2. ASSUME NEW w \in StreamStates PROVE TurnDone(cx[m.run], m.arg, w) \in CxRunStates
  <2> DEFINE x == cx[m.run]
             t == m.arg
             d == x.done \cup {t}
             a == IF x.active = t THEN 0 ELSE x.active
             g == x.reg \ {t}
             e == x.expected \ {t}
             s == Concluded(x.stream, w)
  <2>1. /\ {} \in SUBSET CxAsks /\ d \in SUBSET CxTurns /\ a \in 0..MaxTurns
        /\ g \in SUBSET CxTurns /\ e \in SUBSET CxTurns /\ s \in StreamStates
    BY <1>1, RunHas, CxAssumption DEF RunFits, Concluded
  <2>2. TurnDone(x, t, w) = [x EXCEPT !.pend = {}, !.done = d, !.active = a, !.reg = g,
                                      !.expected = e, !.stream = s]
    BY Zenon DEF TurnDone
  <2>3. x \in CxRunStates
    BY <1>1, RunHas
  <2> HIDE DEF x, d, a, g, e, s
  <2>4. [x EXCEPT !.pend = {}, !.done = d, !.active = a, !.reg = g, !.expected = e, !.stream = s]
           \in CxRunStates
    BY <2>1, <2>3, TurnIsDone, Zenon
  <2> QED BY <2>2, <2>4, Zenon DEF x
<1>3. PICK w \in StreamStates :
         cx' = cx \/ cx' = [cx EXCEPT ![m.run] = TurnDone(cx[m.run], m.arg, w)]
  <2>1. cx[m.run].stream \in StreamStates /\ "result" \in StreamStates
    BY <1>1, RunHas DEF RunFits, StreamStates
  <2> QED BY <2>1, Zenon DEF SeeEnd
<1> QED BY <1>1, <1>2, <1>3, RunMoves, TypedSame, Zenon DEF SeeEnd

\* So does reading the end of a side query.
LEMMA SeeSideTyped ==
    ASSUME CxTyped, NEW m \in CxMessages, m.what = "side", SeeSide(m)
    PROVE  /\ srv' \in CxServers /\ cx' \in [CxRuns -> CxRunStates]
           /\ sq' \in [Sides -> SqStates]
<1> DEFINE r == m.run
           y == <<r, m.arg>>
<1>1. r \in CxRuns /\ y \in Sides /\ srv' = srv
  BY MessageIs DEF SeeSide
<1>2. CASE UNCHANGED <<cx, sq>>
  BY <1>1, <1>2, TypedSame
<1>3. CASE sq' = [sq EXCEPT ![y] = IF @ = "wait" THEN "answered" ELSE @] /\ UNCHANGED cx
  <2>1. PICK x \in SqStates : x = IF sq[y] = "wait" THEN "answered" ELSE sq[y]
    BY <1>1 DEF CxTyped, SqStates
  <2>2. sq' = [sq EXCEPT ![y] = x]
    BY <1>3, <2>1, Zenon
  <2>3. sq' \in [Sides -> SqStates]
    BY <2>2, SideMoves
  <2> QED BY <1>1, <1>3, <2>3, TypedSame, Zenon
<1>4. CASE /\ cx' = [cx EXCEPT ![r].pend = {}, ![r].stream = Concluded(@, "side_result")]
           /\ UNCHANGED sq
  <2>1. PICK x \in StreamStates : x = Concluded(cx[r].stream, "side_result")
    BY <1>1, RunHas DEF RunFits, Concluded, StreamStates
  <2>2. cx' = [cx EXCEPT ![r] = [cx[r] EXCEPT !.pend = {}, !.stream = x]]
    BY <1>4, <2>1, Zenon
  <2>3. {} \in SUBSET CxAsks
    OBVIOUS
  <2>4. [cx[r] EXCEPT !.pend = {}, !.stream = x] \in CxRunStates
    BY <1>1, <2>3, RunHas, RunUpdates, Zenon
  <2>5. cx' \in [CxRuns -> CxRunStates]
    BY <1>1, <2>2, <2>4, RunMoves, Zenon
  <2> QED BY <1>1, <1>4, <2>5, TypedSame, Zenon
<1> QED BY <1>2, <1>3, <1>4, Zenon DEF SeeSide

\* So does whatever the client reads.
LEMMA WatchTypes == ASSUME CxTyped, Watch PROVE CxTyped'
<1>1. UNCHANGED <<slot, route, ccall>> /\ NoFault /\ mail # <<>> /\ mail' = Tail(mail)
  BY DEF Watch, NoFault
<1>2. mail' \in Seq(CxMessages)
  BY <1>1, HeadOfMail
<1> DEFINE m == Head(mail)
<1>3. m \in CxMessages
  BY <1>1, HeadOfMail
<1>4. CASE m.what = "ask" /\ SeeAsk(m) /\ UNCHANGED sq
  BY <1>1, <1>2, <1>3, <1>4, SeeAskTyped, TypedSame, Zenon DEF CxTyped
<1>5. CASE m.what \in Ends /\ SeeEnd(m) /\ UNCHANGED sq
  BY <1>1, <1>2, <1>3, <1>5, SeeEndTyped, TypedSame, Zenon DEF CxTyped
<1>6. CASE m.what = "side" /\ SeeSide(m)
  BY <1>1, <1>2, <1>3, <1>6, SeeSideTyped, TypedSame, Zenon DEF CxTyped
<1>7. CASE /\ m.what = "resolved" /\ cx' = [cx EXCEPT ![m.run].pend = @ \ {m.arg}]
           /\ UNCHANGED <<srv, sq>>
  <2>1. m.run \in CxRuns
    BY <1>3, MessageIs
  <2>2. PICK p \in SUBSET CxAsks : p = cx[m.run].pend \ {m.arg}
    BY <2>1, RunHas DEF RunFits
  <2>3. cx' = [cx EXCEPT ![m.run] = [cx[m.run] EXCEPT !.pend = p]]
    BY <1>7, <2>2, Zenon
  <2>4. [cx[m.run] EXCEPT !.pend = p] \in CxRunStates
    BY <2>1, RunHas, RunUpdates, Zenon
  <2>5. cx' \in [CxRuns -> CxRunStates]
    BY <2>1, <2>3, <2>4, RunMoves, Zenon
  <2> QED BY <1>1, <1>2, <1>7, <2>5, TypedSame, Zenon DEF CxTyped
<1> QED BY <1>4, <1>5, <1>6, <1>7 DEF Watch

-----------------------------------------------------------------------------
(* What the steps do to the calls.                                           *)

\* The call of r by c goes to place p, for k, with a; the others stay.
WrittenTo(r, c, p, k, a) ==
    \A u \in CxRuns, d \in Callers :
       IF u = r /\ d = c
       THEN ccall'[u][d].pc = p /\ ccall'[u][d].kind = k /\ ccall'[u][d].arg = a
       ELSE ccall'[u][d] = ccall[u][d]

\* The ways the steps write a call, again.
LEMMA CallWays ==
    ASSUME CxTyped, NEW r \in CxRuns, NEW c \in Callers, NEW p, NEW k, NEW a
    PROVE  LET call == ccall[r][c] IN
           /\ Goes(r, c, p) => WrittenTo(r, c, p, call.kind, call.arg)
           /\ Returns(r, c) => WrittenTo(r, c, "idle", "none", NoQuery)
           /\ ccall' = [ccall EXCEPT ![r][c] = [pc |-> p, kind |-> k, arg |-> a]]
                 => WrittenTo(r, c, p, k, a)
           /\ ccall' = [ccall EXCEPT ![r][c].pc = p, ![r][c].arg = a]
                 => WrittenTo(r, c, p, call.kind, a)
<1>1. ASSUME NEW v, ccall' = [ccall EXCEPT ![r][c] = v]
      PROVE  \A u \in CxRuns, d \in Callers :
                ccall'[u][d] = IF u = r /\ d = c THEN v ELSE ccall[u][d]
  <2>1. ccall \in [CxRuns -> [Callers -> CxCalls]]
    BY DEF CxTyped
  <2> QED BY <1>1, <2>1
<1>2. \A x \in CxCalls :
         /\ [x EXCEPT !.pc = p].pc = p /\ [x EXCEPT !.pc = p].kind = x.kind
         /\ [x EXCEPT !.pc = p].arg = x.arg
         /\ [x EXCEPT !.pc = p, !.arg = a].pc = p /\ [x EXCEPT !.pc = p, !.arg = a].kind = x.kind
         /\ [x EXCEPT !.pc = p, !.arg = a].arg = a
  BY DEF CxCalls
<1>3. ccall[r][c] \in CxCalls
  BY DEF CxTyped
<1>4. ASSUME Goes(r, c, p) PROVE WrittenTo(r, c, p, ccall[r][c].kind, ccall[r][c].arg)
  <2>1. ccall' = [ccall EXCEPT ![r][c] = [ccall[r][c] EXCEPT !.pc = p]]
    BY <1>4, Zenon DEF Goes
  <2>2. \A u \in CxRuns, d \in Callers :
           ccall'[u][d] = IF u = r /\ d = c THEN [ccall[r][c] EXCEPT !.pc = p] ELSE ccall[u][d]
    BY <1>1, <2>1, Zenon
  <2>3. /\ [ccall[r][c] EXCEPT !.pc = p].pc = p
        /\ [ccall[r][c] EXCEPT !.pc = p].kind = ccall[r][c].kind
        /\ [ccall[r][c] EXCEPT !.pc = p].arg = ccall[r][c].arg
    BY <1>2, <1>3, Zenon
  <2> QED BY <2>2, <2>3, Zenon DEF WrittenTo
<1>5. ASSUME Returns(r, c) PROVE WrittenTo(r, c, "idle", "none", NoQuery)
  <2>1. \A u \in CxRuns, d \in Callers :
           ccall'[u][d] = IF u = r /\ d = c THEN NoCxCall ELSE ccall[u][d]
    BY <1>1, <1>5, Zenon DEF Returns
  <2>2. NoCxCall.pc = "idle" /\ NoCxCall.kind = "none" /\ NoCxCall.arg = NoQuery
    BY DEF NoCxCall
  <2> QED BY <2>1, <2>2, Zenon DEF WrittenTo
<1>6. ASSUME ccall' = [ccall EXCEPT ![r][c] = [pc |-> p, kind |-> k, arg |-> a]]
      PROVE  WrittenTo(r, c, p, k, a)
  <2> DEFINE call == [pc |-> p, kind |-> k, arg |-> a]
  <2>1. \A u \in CxRuns, d \in Callers :
           ccall'[u][d] = IF u = r /\ d = c THEN call ELSE ccall[u][d]
    BY <1>1, <1>6, Zenon
  <2>2. call.pc = p /\ call.kind = k /\ call.arg = a
    OBVIOUS
  <2> HIDE DEF call
  <2> QED BY <2>1, <2>2, Zenon DEF WrittenTo
<1>7. ASSUME ccall' = [ccall EXCEPT ![r][c].pc = p, ![r][c].arg = a]
      PROVE  WrittenTo(r, c, p, ccall[r][c].kind, a)
  <2>1. ccall' = [ccall EXCEPT ![r][c] = [ccall[r][c] EXCEPT !.pc = p, !.arg = a]]
    BY <1>7, Zenon
  <2> DEFINE call == [ccall[r][c] EXCEPT !.pc = p, !.arg = a]
  <2>2. \A u \in CxRuns, d \in Callers :
           ccall'[u][d] = IF u = r /\ d = c THEN call ELSE ccall[u][d]
    BY <1>1, <2>1, Zenon
  <2>3. call.pc = p /\ call.kind = ccall[r][c].kind /\ call.arg = a
    BY <1>2, <1>3, Zenon
  <2> HIDE DEF call
  <2> QED BY <2>2, <2>3, Zenon DEF WrittenTo
<1> QED BY <1>4, <1>5, <1>6, <1>7

\* A call that is written as its place demands leaves the calls fit.
LEMMA CallsStayFit ==
    ASSUME CallsFit, NEW r \in CxRuns, NEW c \in Callers, NEW p, NEW k, NEW a,
           WrittenTo(r, c, p, k, a), Fits(r, c, p, k, a)
    PROVE  CallsFit'
<1> SUFFICES ASSUME NEW u \in CxRuns, NEW d \in Callers PROVE CallFits(u, d)'
  BY DEF CallsFit
<1>1. CASE u = r /\ d = c
  <2>1. ccall'[u][d].pc = p /\ ccall'[u][d].kind = k /\ ccall'[u][d].arg = a
    BY <1>1 DEF WrittenTo
  <2> QED BY <1>1, <2>1 DEF CallFits
<1>2. CASE ~(u = r /\ d = c)
  <2>1. ccall'[u][d] = ccall[u][d] /\ CallFits(u, d)
    BY <1>2, Zenon DEF WrittenTo, CallsFit
  <2> QED BY <2>1 DEF CallFits
<1> QED BY <1>1, <1>2

-----------------------------------------------------------------------------
(* The place of a run on the backend.                                        *)

\* A call that closes works on a closed run, a start on one that did not work yet.
PlaceFits(r, c) ==
    LET k == ccall[r][c].kind IN
    /\ k \in {"close", "end"} => cx[r].closed
    /\ k = "start" => InUse(r) /\ cx[r].stream = "none"
    /\ k \notin {"none", "start", "close"} => cx[r].stream # "none"
    /\ k # "none" => cx[r].started
AtWork(r) ==
    cx[r].stream = "open"
      \/ \E c \in Callers : ccall[r][c].pc = "turn" /\ ccall[r][c].kind = "start"
RunFitsPlace(r) ==
    /\ \A c \in Callers : PlaceFits(r, c)
    /\ ~cx[r].started => cx[r].stream = "none" /\ ~cx[r].closed
    /\ InUse(r) => slot = r
    /\ InUse(r) /\ ~Overtaken /\ AtWork(r) => route = r
PlacesKept == \A r \in CxRuns : RunFitsPlace(r)

KeepsPlace(u) ==
    /\ cx'[u].started = cx[u].started /\ cx'[u].closed = cx[u].closed
    /\ cx'[u].stream = cx[u].stream /\ cx'[u].late = cx[u].late
\* Run r gives up what it holds; or it takes the route, late or in its time.
SlotGoes(r)  == slot' = slot \/ (slot = r /\ slot' = NoRun /\ cx'[r].closed)
RouteGoes(r) ==
    \/ route' = route
    \/ route = r /\ route' = NoRun /\ cx'[r].closed
    \/ route' = r /\ (InUse(r) \/ cx'[r].late)

\* A call of a run that started keeps the places.
LEMMA CallKeepsPlaces ==
    ASSUME PlacesKept, CallsFit, NEW r \in CxRuns,
           NEW c \in Callers, NEW p, NEW k, NEW a, WrittenTo(r, c, p, k, a),
           \A u \in CxRuns : u # r => KeepsPlace(u),
           cx[r].started /\ cx'[r].started,
           cx[r].closed => cx'[r].closed, cx[r].late => cx'[r].late,
           c = "owner" => cx[r].stream # "none",
           k \in {"close", "end"} => cx'[r].closed,
           k = "start" => ccall[r][c].kind = "start" /\ ~cx'[r].closed
                          /\ cx'[r].stream = cx[r].stream,
           cx[r].stream # "none" => cx'[r].stream # "none",
           k \notin {"none", "start", "close"} => cx'[r].stream # "none",
           cx'[r].stream = "open"
              => cx[r].stream = "open" \/ (cx[r].stream = "none" /\ ccall[r][c].pc = "turn"),
           p = "turn" /\ k = "start" => route' = r,
           SlotGoes(r), RouteGoes(r)
    PROVE  PlacesKept'
<1> SUFFICES ASSUME NEW u \in CxRuns PROVE RunFitsPlace(u)'
  BY DEF PlacesKept
<1>1. RunFitsPlace(u) /\ RunFitsPlace(r)
  BY DEF PlacesKept
<1>2. Overtaken => Overtaken'
  <2> SUFFICES ASSUME NEW v \in CxRuns, cx[v].late PROVE cx'[v].late
    BY DEF Overtaken
  <2> QED BY DEF KeepsPlace
<1>3. CASE u # r
  <2>1. KeepsPlace(u) /\ \A d \in Callers : ccall'[u][d] = ccall[u][d]
    BY <1>3 DEF WrittenTo
  <2>2. \A d \in Callers : PlaceFits(u, d)'
    <3> SUFFICES ASSUME NEW d \in Callers PROVE PlaceFits(u, d)'
      OBVIOUS
    <3>1. PlaceFits(u, d)
      BY <1>1 DEF RunFitsPlace
    <3> QED BY <2>1, <3>1 DEF PlaceFits, KeepsPlace, InUse
  <2>3. (InUse(u)' <=> InUse(u)) /\ (AtWork(u)' <=> AtWork(u))
    BY <2>1 DEF KeepsPlace, InUse, AtWork
  <2>4. InUse(u) => slot' = u
    BY <1>1, <1>3, CxAssumption DEF RunFitsPlace, SlotGoes
  <2>5. InUse(u) /\ ~Overtaken' /\ AtWork(u) => route' = u
    <3> SUFFICES ASSUME InUse(u), ~Overtaken', AtWork(u) PROVE route' = u
      OBVIOUS
    <3>1. slot = u /\ route = u /\ ~InUse(r)
      BY <1>1, <1>2, <1>3 DEF RunFitsPlace
    <3>2. ~cx'[r].late
      BY DEF Overtaken
    <3> QED BY <1>3, <3>1, <3>2 DEF RouteGoes
  <2> QED BY <1>1, <2>1, <2>2, <2>3, <2>4, <2>5 DEF RunFitsPlace, KeepsPlace
<1>4. CASE u = r
  <2>1. /\ ccall'[r][c].pc = p /\ ccall'[r][c].kind = k /\ ccall'[r][c].arg = a
        /\ \A d \in Callers : d # c => ccall'[r][d] = ccall[r][d]
    BY DEF WrittenTo
  <2>2. \A d \in Callers : d # c => ccall[r][d].kind # "start"
    <3> SUFFICES ASSUME NEW d \in Callers, d # c, ccall[r][d].kind = "start" PROVE FALSE
      OBVIOUS
    <3>1. d = "dispatch"
      BY DEF CallsFit, CallFits, Fits
    <3>2. c = "owner"
      BY <3>1 DEF Callers
    <3> QED BY <1>1, <3>2 DEF RunFitsPlace, PlaceFits
  <2>3. \A d \in Callers : PlaceFits(r, d)'
    <3> SUFFICES ASSUME NEW d \in Callers PROVE PlaceFits(r, d)'
      OBVIOUS
    <3>1. CASE d = c
      <4>1. k = "start" => InUse(r)' /\ cx'[r].stream = "none"
        BY <1>1 DEF RunFitsPlace, PlaceFits, InUse
      <4> QED BY <2>1, <3>1, <4>1 DEF PlaceFits
    <3>2. CASE d # c
      <4>1. PlaceFits(r, d) /\ ccall'[r][d] = ccall[r][d] /\ ccall[r][d].kind # "start"
        BY <1>1, <2>1, <2>2, <3>2 DEF RunFitsPlace
      <4> QED BY <4>1 DEF PlaceFits
    <3> QED BY <3>1, <3>2
  <2>4. InUse(r)' => InUse(r) /\ slot' = r
    BY <1>1 DEF InUse, RunFitsPlace, SlotGoes
  <2>5. InUse(r)' /\ ~Overtaken' /\ AtWork(r)' => route' = r
    <3> SUFFICES ASSUME InUse(r)', ~Overtaken', AtWork(r)' PROVE route' = r
      OBVIOUS
    <3>1. InUse(r) /\ ~Overtaken /\ ~cx'[r].closed
      BY <1>2, <2>4 DEF InUse
    <3>2. AtWork(r) \/ route' = r
      <4>1. CASE cx'[r].stream = "open" /\ cx[r].stream # "open"
        <5>1. ccall[r][c].pc = "turn" /\ ccall[r][c].kind \in {"start", "steer"}
          BY <4>1 DEF CallsFit, CallFits, Fits
        <5>2. ccall[r][c].kind # "steer"
          BY <1>1, <4>1 DEF RunFitsPlace, PlaceFits
        <5> QED BY <5>1, <5>2 DEF AtWork
      <4>2. CASE cx[r].stream = "open"
        BY <4>2 DEF AtWork
      <4>3. CASE \E d \in Callers : ccall'[r][d].pc = "turn" /\ ccall'[r][d].kind = "start"
        <5>1. PICK d \in Callers : ccall'[r][d].pc = "turn" /\ ccall'[r][d].kind = "start"
          BY <4>3
        <5>2. d = c
          BY <2>1, <2>2, <5>1
        <5> QED BY <2>1, <5>1, <5>2
      <4> QED BY <4>1, <4>2, <4>3 DEF AtWork
    <3>3. AtWork(r) => route = r
      BY <1>1, <3>1 DEF RunFitsPlace
    <3> QED BY <3>1, <3>2, <3>3 DEF RouteGoes
  <2> QED BY <1>4, <2>3, <2>4, <2>5 DEF RunFitsPlace
<1> QED BY <1>3, <1>4

\* What a step writes of a run: it is closed or not, its stream, whether it is late.
RunGoes(r, cl, st, lt) ==
    /\ \A u \in CxRuns : u # r => KeepsPlace(u)
    /\ cx'[r].started = cx[r].started /\ cx'[r].closed = cl
    /\ cx'[r].stream = st /\ cx'[r].late = lt

\* A run is written, the others are not.
LEMMA CxWritten ==
    ASSUME CxTyped, NEW r \in CxRuns, NEW x, cx' = [cx EXCEPT ![r] = x]
    PROVE  cx'[r] = x /\ \A u \in CxRuns : u # r => cx'[u] = cx[u]
  BY DEF CxTyped

\* A call that ends where it is writes of its run no more than what it expects and
\* whether its close was cut.
LEMMA LeftGoes ==
    ASSUME CxTyped, NEW r \in CxRuns, NEW c \in Callers, NEW t,
           cx' = Left(r, c) \/ cx' = [Left(r, c) EXCEPT ![r].expected = @ \cup {t}]
    PROVE  /\ \A u \in CxRuns : u # r => cx'[u] = cx[u]
           /\ cx'[r].started = cx[r].started /\ cx'[r].closed = cx[r].closed
           /\ cx'[r].stream = cx[r].stream /\ cx'[r].late = cx[r].late
           /\ cx'[r].pend = cx[r].pend /\ cx'[r].side = cx[r].side
           /\ cx'[r].overlap = cx[r].overlap
<1> DEFINE v == cx[r].cut \/ ccall[r][c].kind \in {"close", "end"}
           x == [cx[r] EXCEPT !.cut = v]
           e == x.expected \cup {t}
           z == [x EXCEPT !.expected = e]
<1>1. Left(r, c) = [cx EXCEPT ![r] = x]
  BY Zenon DEF Left
<1>2. cx \in [CxRuns -> CxRunStates] /\ cx[r] \in CxRunStates
  BY RunHas DEF CxTyped
<1>3. cx' = [cx EXCEPT ![r] = x] \/ cx' = [cx EXCEPT ![r] = z]
  <2> HIDE DEF x
  <2> QED BY <1>1, <1>2
<1> HIDE DEF v
<1>4. /\ x.started = cx[r].started /\ x.closed = cx[r].closed /\ x.stream = cx[r].stream
      /\ x.late = cx[r].late /\ x.pend = cx[r].pend /\ x.side = cx[r].side
      /\ x.overlap = cx[r].overlap
  BY <1>2 DEF CxRunStates
<1> HIDE DEF e
<1>5. /\ z.started = cx[r].started /\ z.closed = cx[r].closed /\ z.stream = cx[r].stream
      /\ z.late = cx[r].late /\ z.pend = cx[r].pend /\ z.side = cx[r].side
      /\ z.overlap = cx[r].overlap
  BY <1>2 DEF CxRunStates
<1> HIDE DEF x, z
<1>6. (cx'[r] = x \/ cx'[r] = z) /\ \A u \in CxRuns : u # r => cx'[u] = cx[u]
  BY <1>3, CxWritten
<1> QED BY <1>4, <1>5, <1>6

\* A restart writes of the runs no more than their turns and their questions.
LEMMA ClearedGoes ==
    ASSUME CxTyped, NEW u \in CxRuns
    PROVE  LET x == cx[u]
               y == Unregistered[u]
               z == Hushed[u] IN
           /\ y.started = x.started /\ y.closed = x.closed /\ y.stream = x.stream
           /\ y.late = x.late /\ y.side = x.side /\ y.overlap = x.overlap
           /\ z.started = x.started /\ z.closed = x.closed /\ z.stream = x.stream
           /\ z.late = x.late /\ z.side = x.side /\ z.overlap = x.overlap
<1>1. cx[u] \in CxRunStates
  BY RunHas
<1>2. PICK p : Hushed[u] = [cx[u] EXCEPT !.pend = p]
  BY Zenon DEF Hushed
<1>3. Unregistered[u] = [cx[u] EXCEPT !.reg = {}]
  BY Zenon DEF Unregistered
<1> QED BY <1>1, <1>2, <1>3 DEF CxRunStates

\* The ways the steps write a run.
LEMMA RunWays ==
    ASSUME CxTyped, NEW r \in CxRuns, NEW v, NEW w, NEW z, NEW l
    PROVE  LET x == cx[r] IN
           /\ cx' = cx \/ cx' = [cx EXCEPT ![r].queued = v] \/ cx' = [cx EXCEPT ![r].pend = v]
                 \/ cx' = [cx EXCEPT ![r].expected = v] \/ cx' = [cx EXCEPT ![r].side = v]
                 \/ cx' = [cx EXCEPT ![r].side = v, ![r].overlap = w]
              => RunGoes(r, x.closed, x.stream, x.late)
           /\ cx' = [cx EXCEPT ![r].closed = v] => RunGoes(r, v, x.stream, x.late)
           /\ cx' = [cx EXCEPT ![r].late = v] => RunGoes(r, x.closed, x.stream, v)
           /\ cx' = [cx EXCEPT ![r].stream = v] => RunGoes(r, x.closed, v, x.late)
           /\ cx' = [cx EXCEPT ![r].closed = v, ![r].pend = w, ![r].stream = z]
              => RunGoes(r, v, z, x.late)
           /\ cx' = [cx EXCEPT ![r].pend = v, ![r].stream = w] => RunGoes(r, x.closed, w, x.late)
           /\ cx' = [cx EXCEPT ![r].active = v, ![r].reg = w, ![r].late = l, ![r].stream = z]
              => RunGoes(r, x.closed, z, l)
<1>0. cx[r] \in CxRunStates
  BY RunHas
<1> DEFINE x == cx[r]
<1>1. ASSUME NEW y, cx' = [cx EXCEPT ![r] = y], y.started = x.started
      PROVE  RunGoes(r, y.closed, y.stream, y.late)
  <2>1. cx'[r] = y /\ \A u \in CxRuns : u # r => cx'[u] = cx[u]
    BY <1>1, CxWritten
  <2> QED BY <1>1, <2>1 DEF RunGoes, KeepsPlace
<1>2. cx' = cx => RunGoes(r, x.closed, x.stream, x.late)
  BY DEF RunGoes, KeepsPlace
<1>3. ASSUME cx' = [cx EXCEPT ![r].queued = v]
      PROVE  RunGoes(r, x.closed, x.stream, x.late)
  <2> DEFINE y == [x EXCEPT !.queued = v]
  <2>1. cx' = [cx EXCEPT ![r] = y]
    BY <1>3, Zenon
  <2>2. /\ y.started = x.started /\ y.closed = x.closed
        /\ y.stream = x.stream /\ y.late = x.late
    BY <1>0 DEF CxRunStates
  <2> HIDE DEF x, y
  <2> QED BY <1>1, <2>1, <2>2
<1>4. ASSUME cx' = [cx EXCEPT ![r].pend = v]
      PROVE  RunGoes(r, x.closed, x.stream, x.late)
  <2> DEFINE y == [x EXCEPT !.pend = v]
  <2>1. cx' = [cx EXCEPT ![r] = y]
    BY <1>4, Zenon
  <2>2. /\ y.started = x.started /\ y.closed = x.closed
        /\ y.stream = x.stream /\ y.late = x.late
    BY <1>0 DEF CxRunStates
  <2> HIDE DEF x, y
  <2> QED BY <1>1, <2>1, <2>2
<1>5. ASSUME cx' = [cx EXCEPT ![r].expected = v]
      PROVE  RunGoes(r, x.closed, x.stream, x.late)
  <2> DEFINE y == [x EXCEPT !.expected = v]
  <2>1. cx' = [cx EXCEPT ![r] = y]
    BY <1>5, Zenon
  <2>2. /\ y.started = x.started /\ y.closed = x.closed
        /\ y.stream = x.stream /\ y.late = x.late
    BY <1>0 DEF CxRunStates
  <2> HIDE DEF x, y
  <2> QED BY <1>1, <2>1, <2>2
<1>6. ASSUME cx' = [cx EXCEPT ![r].side = v]
      PROVE  RunGoes(r, x.closed, x.stream, x.late)
  <2> DEFINE y == [x EXCEPT !.side = v]
  <2>1. cx' = [cx EXCEPT ![r] = y]
    BY <1>6, Zenon
  <2>2. /\ y.started = x.started /\ y.closed = x.closed
        /\ y.stream = x.stream /\ y.late = x.late
    BY <1>0 DEF CxRunStates
  <2> HIDE DEF x, y
  <2> QED BY <1>1, <2>1, <2>2
<1>7. ASSUME cx' = [cx EXCEPT ![r].side = v, ![r].overlap = w]
      PROVE  RunGoes(r, x.closed, x.stream, x.late)
  <2> DEFINE y == [x EXCEPT !.side = v, !.overlap = w]
  <2>1. cx' = [cx EXCEPT ![r] = y]
    BY <1>7, Zenon
  <2>2. /\ y.started = x.started /\ y.closed = x.closed
        /\ y.stream = x.stream /\ y.late = x.late
    BY <1>0 DEF CxRunStates
  <2> HIDE DEF x, y
  <2> QED BY <1>1, <2>1, <2>2
<1>8. ASSUME cx' = [cx EXCEPT ![r].closed = v]
      PROVE  RunGoes(r, v, x.stream, x.late)
  <2> DEFINE y == [x EXCEPT !.closed = v]
  <2>1. cx' = [cx EXCEPT ![r] = y]
    BY <1>8, Zenon
  <2>2. /\ y.started = x.started /\ y.closed = v
        /\ y.stream = x.stream /\ y.late = x.late
    BY <1>0 DEF CxRunStates
  <2> HIDE DEF x, y
  <2> QED BY <1>1, <2>1, <2>2
<1>9. ASSUME cx' = [cx EXCEPT ![r].late = v]
      PROVE  RunGoes(r, x.closed, x.stream, v)
  <2> DEFINE y == [x EXCEPT !.late = v]
  <2>1. cx' = [cx EXCEPT ![r] = y]
    BY <1>9, Zenon
  <2>2. /\ y.started = x.started /\ y.closed = x.closed
        /\ y.stream = x.stream /\ y.late = v
    BY <1>0 DEF CxRunStates
  <2> HIDE DEF x, y
  <2> QED BY <1>1, <2>1, <2>2
<1>10. ASSUME cx' = [cx EXCEPT ![r].stream = v]
      PROVE  RunGoes(r, x.closed, v, x.late)
  <2> DEFINE y == [x EXCEPT !.stream = v]
  <2>1. cx' = [cx EXCEPT ![r] = y]
    BY <1>10, Zenon
  <2>2. /\ y.started = x.started /\ y.closed = x.closed
        /\ y.stream = v /\ y.late = x.late
    BY <1>0 DEF CxRunStates
  <2> HIDE DEF x, y
  <2> QED BY <1>1, <2>1, <2>2
<1>11. ASSUME cx' = [cx EXCEPT ![r].closed = v, ![r].pend = w, ![r].stream = z]
      PROVE  RunGoes(r, v, z, x.late)
  <2> DEFINE y == [x EXCEPT !.closed = v, !.pend = w, !.stream = z]
  <2>1. cx' = [cx EXCEPT ![r] = y]
    BY <1>11, Zenon
  <2>2. /\ y.started = x.started /\ y.closed = v
        /\ y.stream = z /\ y.late = x.late
    BY <1>0 DEF CxRunStates
  <2> HIDE DEF x, y
  <2> QED BY <1>1, <2>1, <2>2
<1>12. ASSUME cx' = [cx EXCEPT ![r].pend = v, ![r].stream = w]
      PROVE  RunGoes(r, x.closed, w, x.late)
  <2> DEFINE y == [x EXCEPT !.pend = v, !.stream = w]
  <2>1. cx' = [cx EXCEPT ![r] = y]
    BY <1>12, Zenon
  <2>2. /\ y.started = x.started /\ y.closed = x.closed
        /\ y.stream = w /\ y.late = x.late
    BY <1>0 DEF CxRunStates
  <2> HIDE DEF x, y
  <2> QED BY <1>1, <2>1, <2>2
<1>13. ASSUME cx' = [cx EXCEPT ![r].active = v, ![r].reg = w, ![r].late = l, ![r].stream = z]
      PROVE  RunGoes(r, x.closed, z, l)
  <2> DEFINE y == [x EXCEPT !.active = v, !.reg = w, !.late = l, !.stream = z]
  <2>1. cx' = [cx EXCEPT ![r] = y]
    BY <1>13, Zenon
  <2>2. /\ y.started = x.started /\ y.closed = x.closed
        /\ y.stream = z /\ y.late = l
    BY <1>0 DEF CxRunStates
  <2> HIDE DEF x, y
  <2> QED BY <1>1, <2>1, <2>2
<1> QED BY <1>2, <1>3, <1>4, <1>5, <1>6, <1>7, <1>8, <1>9, <1>10, <1>11, <1>12, <1>13, Zenon

\* A call that is written as its place demands, of a run that started, keeps both.
LEMMA StepKeeps ==
    ASSUME PlacesKept, CallsFit, NEW r \in CxRuns, NEW c \in Callers, cx[r].started,
           NEW p, NEW k, NEW a, WrittenTo(r, c, p, k, a), Fits(r, c, p, k, a),
           NEW cl, NEW st, NEW lt, RunGoes(r, cl, st, lt), cx[r].closed => cl, cx[r].late => lt,
           c = "owner" => cx[r].stream # "none",
           k \in {"close", "end"} => cl,
           k = "start" => ccall[r][c].kind = "start" /\ ~cl /\ st = cx[r].stream,
           cx[r].stream # "none" => st # "none",
           k \notin {"none", "start", "close"} => st # "none",
           st = "open"
              => cx[r].stream = "open" \/ (cx[r].stream = "none" /\ ccall[r][c].pc = "turn"),
           p = "turn" /\ k = "start" => route' = r,
           slot' = slot \/ (slot = r /\ slot' = NoRun /\ cl),
           route' = route \/ (route = r /\ route' = NoRun /\ cl) \/ (route' = r /\ (InUse(r) \/ lt))
    PROVE  CallsFit' /\ PlacesKept'
<1>1. CallsFit'
  BY CallsStayFit
<1>2. /\ \A u \in CxRuns : u # r => KeepsPlace(u)
      /\ cx'[r].started = cx[r].started /\ cx'[r].closed = cl
      /\ cx'[r].stream = st /\ cx'[r].late = lt
  BY DEF RunGoes
<1>3. SlotGoes(r) /\ RouteGoes(r)
  BY <1>2 DEF SlotGoes, RouteGoes
<1> QED BY <1>1, <1>2, <1>3, CallKeepsPlaces

\* What holds of a run one of whose calls goes on.
LEMMA CallStands ==
    ASSUME CallsFit, PlacesKept, NEW r \in CxRuns, NEW c \in Callers, ccall[r][c].pc # "idle"
    PROVE  /\ cx[r].started /\ PlaceFits(r, c) /\ CallFits(r, c) /\ ccall[r][c].kind # "none"
           /\ c = "owner" => cx[r].stream # "none"
<1>1. PlaceFits(r, c) /\ CallFits(r, c)
  BY DEF PlacesKept, RunFitsPlace, CallsFit
<1>2. ccall[r][c].kind # "none"
  BY <1>1 DEF CallFits, Fits
<1>3. c = "owner" => ccall[r][c].kind \notin {"none", "start", "close"}
  BY <1>1, <1>2 DEF CallFits, Fits
<1> QED BY <1>1, <1>2, <1>3 DEF PlaceFits

\* A start that failed, and the opening of a thread.
LEMMA AbortsKeeps ==
    ASSUME CxTyped, CallsFit, PlacesKept, NEW r \in CxRuns, cx[r].started, Aborts(r)
    PROVE  CallsFit' /\ PlacesKept'
<1>1. "dispatch" \in Callers /\ "dispatch" # "owner"
  BY DEF Callers
<1>2. WrittenTo(r, "dispatch", "idle", "none", NoQuery)
  BY <1>1, CallWays DEF Aborts
<1>3. Fits(r, "dispatch", "idle", "none", NoQuery)
  BY DEF Fits
<1>4. cx'[r].closed /\ RunGoes(r, cx'[r].closed, "ended", cx[r].late)
  <2>1. RunGoes(r, TRUE, "ended", cx[r].late)
    BY RunWays, Zenon DEF Aborts
  <2> QED BY <2>1 DEF RunGoes
<1>5. /\ slot' = slot \/ (slot = r /\ slot' = NoRun)
      /\ route' = route \/ (route = r /\ route' = NoRun)
  BY DEF Aborts
<1> DEFINE cl == cx'[r].closed
<1>6. /\ "dispatch" \in Callers /\ cx[r].started
      /\ WrittenTo(r, "dispatch", "idle", "none", NoQuery)
      /\ Fits(r, "dispatch", "idle", "none", NoQuery)
      /\ RunGoes(r, cl, "ended", cx[r].late)
  BY <1>1, <1>2, <1>3, <1>4
<1>7. /\ cx[r].closed => cl
      /\ cx[r].late => cx[r].late
      /\ "dispatch" = "owner" => cx[r].stream # "none"
      /\ "none" \in {"close", "end"} => cl
      /\ "none" = "start" => ccall[r]["dispatch"].kind = "start" /\ ~cl /\ "ended" = cx[r].stream
  BY <1>1, <1>4
<1>8. /\ cx[r].stream # "none" => "ended" # "none"
      /\ "none" \notin {"none", "start", "close"} => "ended" # "none"
      /\ "ended" = "open" => cx[r].stream = "open"
             \/ (cx[r].stream = "none" /\ ccall[r]["dispatch"].pc = "turn")
      /\ "idle" = "turn" /\ "none" = "start" => route' = r
      /\ slot' = slot \/ (slot = r /\ slot' = NoRun /\ cl)
      /\ route' = route \/ (route = r /\ route' = NoRun /\ cl)
             \/ (route' = r /\ (InUse(r) \/ cx[r].late))
  BY <1>4, <1>5
<1> HIDE DEF cl
<1> QED BY <1>6, <1>7, <1>8, StepKeeps

\* Opening the thread keeps the calls fit and the runs in their places.
LEMMA OpenThreadKeeps ==
    ASSUME CxTyped, CallsFit, PlacesKept, NEW r \in CxRuns, OpenThread(r)
    PROVE  CallsFit' /\ PlacesKept'
<1>1. "dispatch" \in Callers /\ "dispatch" # "owner"
  BY DEF Callers
<1>2. /\ cx[r].started /\ ccall[r]["dispatch"].pc = "thread"
      /\ ccall[r]["dispatch"].kind = "start" /\ InUse(r) /\ cx[r].stream = "none"
  <2>1. ccall[r]["dispatch"].pc = "thread"
    BY DEF OpenThread, CallAt
  <2>2. CallFits(r, "dispatch") /\ PlaceFits(r, "dispatch") /\ cx[r].started
    BY <1>1, <2>1, CallStands
  <2>3. ccall[r]["dispatch"].kind = "start"
    BY <2>1, <2>2 DEF CallFits, Fits
  <2> QED BY <2>1, <2>2, <2>3 DEF PlaceFits
<1>3. CASE Aborts(r)
  BY <1>2, <1>3, AbortsKeeps
<1>4. CASE route' = r /\ Goes(r, "dispatch", "turn") /\ UNCHANGED <<slot, cx>>
  <2>1. WrittenTo(r, "dispatch", "turn", "start", ccall[r]["dispatch"].arg)
    BY <1>1, <1>2, <1>4, CallWays
  <2>2. Fits(r, "dispatch", "turn", "start", ccall[r]["dispatch"].arg)
    BY DEF Fits
  <2>3. RunGoes(r, cx[r].closed, cx[r].stream, cx[r].late)
    BY <1>4, RunWays
  <2>4. ~cx[r].closed
    BY <1>2 DEF InUse
  <2> QED BY <1>1, <1>2, <1>4, <2>1, <2>2, <2>3, <2>4, StepKeeps
<1> QED BY <1>3, <1>4 DEF OpenThread

\* A turn that starts.
LEMMA StartTurnKeeps ==
    ASSUME CxTyped, CallsFit, PlacesKept, NEW r \in CxRuns, NEW c \in Callers, StartTurn(r, c)
    PROVE  CallsFit' /\ PlacesKept'
<1>1. ccall[r][c].pc = "turn" /\ "turn" # "idle"
  BY DEF StartTurn, CallAt
<1>2. cx[r].started /\ (c = "owner" => cx[r].stream # "none")
  BY <1>1, CallStands
<1>3. /\ Fits(r, c, "idle", "none", NoQuery)
      /\ Returns(r, c) => WrittenTo(r, c, "idle", "none", NoQuery)
  BY CallWays DEF Fits
<1>4. CASE Returns(r, c) /\ UNCHANGED <<cx, slot, route>>
  <2>1. RunGoes(r, cx[r].closed, cx[r].stream, cx[r].late)
    BY <1>4, RunWays
  <2> QED BY <1>1, <1>2, <1>3, <1>4, <2>1, StepKeeps
<1>5. CASE Aborts(r)
  BY <1>2, <1>5, AbortsKeeps
<1>6. CASE /\ Returns(r, c) /\ UNCHANGED <<slot, route>>
           /\ cx' = [cx EXCEPT ![r].active = srv.n[r] + 1, ![r].reg = @ \cup {srv.n[r] + 1},
                               ![r].late = @ \/ BeingEnded(r),
                               ![r].stream = IF @ = "none" THEN "open" ELSE @]
  <2> DEFINE s == IF cx[r].stream = "none" THEN "open" ELSE cx[r].stream
             l == cx[r].late \/ BeingEnded(r)
             g == cx[r].reg \cup {srv.n[r] + 1}
             b == srv.n[r] + 1
  <2>1. cx' = [cx EXCEPT ![r].active = b, ![r].reg = g, ![r].late = l, ![r].stream = s]
    BY <1>6, Zenon
  <2>2. /\ cx[r].stream # "none" => s # "none"
        /\ s = "open" => cx[r].stream = "open" \/ cx[r].stream = "none"
        /\ cx[r].late => l
    OBVIOUS
  <2> HIDE DEF s, l, g, b
  <2>3. RunGoes(r, cx[r].closed, s, l)
    BY <2>1, RunWays
  <2> QED BY <1>1, <1>2, <1>3, <1>6, <2>2, <2>3, StepKeeps
<1> QED BY <1>4, <1>5, <1>6 DEF StartTurn

\* The calls of the gateway.
LEMMA SendsGoes ==
    ASSUME CxTyped, NEW r \in CxRuns, NEW c \in Callers, Sends(r, c) \/ cx' = cx
    PROVE  RunGoes(r, cx[r].closed, cx[r].stream, cx[r].late)
  BY RunWays DEF Sends

\* So do a steer, a query and a cancellation.
LEMMA OwnerKeeps ==
    ASSUME CxTyped, CallsFit, PlacesKept, NEW r \in CxRuns, NEW c \in Callers,
           SteerRun(r, c) \/ Query(r, c) \/ (c = "owner" /\ Cancel(r))
    PROVE  CallsFit' /\ PlacesKept'
<1>1. cx[r].started /\ cx[r].stream = "open" /\ UNCHANGED <<slot, route>>
  BY DEF SteerRun, Query, Cancel, MaySend, InUse
<1>2. RunGoes(r, cx[r].closed, cx[r].stream, cx[r].late)
  BY SendsGoes DEF SteerRun, Query, Cancel
<1>3. PICK k \in {"steer", "query", "cancel"} : WaitsForSide(r, c, k)
  BY DEF SteerRun, Query, Cancel
<1>4. WrittenTo(r, c, "side", k, cx[r].side)
  BY <1>3, CallWays DEF WaitsForSide
<1>5. Fits(r, c, "side", k, cx[r].side)
  BY <1>3 DEF Fits
<1> QED BY <1>1, <1>2, <1>3, <1>4, <1>5, StepKeeps

\* So does an answer.
LEMMA RespondKeeps ==
    ASSUME CxTyped, CallsFit, PlacesKept, NEW r \in CxRuns, NEW c \in Callers, Respond(r, c)
    PROVE  CallsFit' /\ PlacesKept'
<1>1. cx[r].started /\ cx[r].stream = "open" /\ UNCHANGED <<slot, route>>
  BY DEF Respond, MaySend, InUse
<1>2. RunGoes(r, cx[r].closed, cx[r].stream, cx[r].late)
  BY SendsGoes DEF Respond
<1>3. PICK k : ccall' = [ccall EXCEPT ![r][c] = [pc |-> "answer", kind |-> "respond", arg |-> k]]
  BY DEF Respond
<1>4. WrittenTo(r, c, "answer", "respond", k)
  BY <1>3, CallWays
<1>5. Fits(r, c, "answer", "respond", k)
  BY DEF Fits
<1> QED BY <1>1, <1>2, <1>4, <1>5, StepKeeps

\* A call that closes its run and waits for its side query keeps them.
LEMMA ClosingKeeps ==
    ASSUME CxTyped, CallsFit, PlacesKept, NEW r \in CxRuns, NEW c \in Callers, cx[r].started,
           c = "owner" => cx[r].stream # "none", NEW k \in {"close", "end"},
           k = "close" => c = "dispatch" /\ c # "owner", k = "end" => cx[r].stream # "none",
           WaitsForSide(r, c, k), RunGoes(r, TRUE, cx[r].stream, cx[r].late),
           UNCHANGED <<slot, route>>
    PROVE  CallsFit' /\ PlacesKept'
<1> DEFINE cl == cx'[r].closed
<1>1. cl /\ RunGoes(r, cl, cx[r].stream, cx[r].late)
  BY DEF RunGoes
<1>2. WrittenTo(r, c, "side", k, cx[r].side)
  BY CallWays DEF WaitsForSide
<1>3. Fits(r, c, "side", k, cx[r].side)
  BY DEF Fits
<1>4. /\ cx[r].closed => cl
      /\ k \in {"close", "end"} => cl
      /\ k # "start" /\ (k \notin {"none", "start", "close"} => cx[r].stream # "none")
  BY <1>1
<1>5. /\ \A u \in CxRuns : u # r => KeepsPlace(u)
      /\ cx'[r].started /\ cx'[r].closed /\ cx'[r].stream = cx[r].stream
      /\ cx'[r].late = cx[r].late
  BY <1>1 DEF RunGoes
<1>6. SlotGoes(r) /\ RouteGoes(r)
  BY DEF SlotGoes, RouteGoes
<1> HIDE DEF cl
<1>7. PlacesKept'
  BY <1>2, <1>4, <1>5, <1>6, CallKeepsPlaces
<1> QED BY <1>2, <1>3, <1>7, CallsStayFit

\* So does the dispatch's close.
LEMMA CloseKeeps ==
    ASSUME CxTyped, CallsFit, PlacesKept, NEW r \in CxRuns, Close(r)
    PROVE  CallsFit' /\ PlacesKept'
<1>1. "dispatch" \in Callers /\ "dispatch" # "owner"
  BY DEF Callers
<1>2. cx[r].started /\ UNCHANGED <<slot, route>> /\ WaitsForSide(r, "dispatch", "close")
  BY DEF Close
<1>3. RunGoes(r, TRUE, cx[r].stream, cx[r].late)
  BY RunWays, Zenon DEF Close
<1> QED BY <1>1, <1>2, <1>3, ClosingKeeps

\* A steer that starts a turn.
LEMMA AnewKeeps ==
    ASSUME CxTyped, CallsFit, PlacesKept, NEW r \in CxRuns, NEW c \in Callers,
           ccall[r][c].kind = "steer", StartsAnew(r, c), slot' = slot
    PROVE  CallsFit' /\ PlacesKept'
<1>1. ccall[r][c].pc # "idle"
  BY DEF CallsFit, CallFits, Fits
<1>2. cx[r].started /\ cx[r].stream # "none"
  BY <1>1, CallStands DEF PlaceFits
<1> DEFINE l == cx[r].late \/ BeingEnded(r)
<1>3. cx' = [cx EXCEPT ![r].late = l] /\ Goes(r, c, "turn") /\ route' = r
  BY Zenon DEF StartsAnew
<1>4. (cx[r].late => l) /\ (InUse(r) \/ l)
  BY <1>2 DEF InUse, BeingEnded
<1> HIDE DEF l
<1>5. RunGoes(r, cx[r].closed, cx[r].stream, l)
  BY <1>3, RunWays
<1>6. WrittenTo(r, c, "turn", "steer", ccall[r][c].arg)
  BY <1>3, CallWays
<1>7. Fits(r, c, "turn", "steer", ccall[r][c].arg)
  BY DEF Fits
<1> QED BY <1>2, <1>3, <1>4, <1>5, <1>6, <1>7, StepKeeps

\* A call that goes on, or returns, and leaves the run's place as it is.
LEMMA GoesOnKeeps ==
    ASSUME CallsFit, PlacesKept, NEW r \in CxRuns, NEW c \in Callers,
           ccall[r][c].pc # "idle", ccall[r][c].kind # "start",
           NEW p, NEW k, NEW a, WrittenTo(r, c, p, k, a), Fits(r, c, p, k, a),
           k = ccall[r][c].kind \/ k = "none",
           RunGoes(r, cx[r].closed, cx[r].stream, cx[r].late), UNCHANGED <<slot, route>>
    PROVE  CallsFit' /\ PlacesKept'
<1>1. /\ cx[r].started /\ PlaceFits(r, c) /\ ccall[r][c].kind # "none"
      /\ c = "owner" => cx[r].stream # "none"
  BY CallStands
<1>2. /\ k \in {"close", "end"} => cx[r].closed
      /\ k # "start"
      /\ k \notin {"none", "start", "close"} => cx[r].stream # "none"
  BY <1>1 DEF PlaceFits
<1> QED BY <1>1, <1>2, StepKeeps

\* So does a call that returns and leaves the runs as they are.
LEMMA ReturnKeeps ==
    ASSUME CxTyped, CallsFit, PlacesKept, NEW r \in CxRuns, NEW c \in Callers,
           ccall[r][c].pc # "idle", ccall[r][c].kind # "start",
           Returns(r, c), UNCHANGED <<slot, route, cx>>
    PROVE  CallsFit' /\ PlacesKept'
<1>1. RunGoes(r, cx[r].closed, cx[r].stream, cx[r].late)
  BY RunWays
<1>2. WrittenTo(r, c, "idle", "none", NoQuery) /\ Fits(r, c, "idle", "none", NoQuery)
  BY CallWays DEF Fits
<1> QED BY <1>1, <1>2, GoesOnKeeps

\* So does one that ends where it is.
LEMMA LeavesKeeps ==
    ASSUME CxTyped, CallsFit, PlacesKept, NEW r \in CxRuns, NEW c \in Callers,
           ccall[r][c].pc # "idle", ccall[r][c].kind # "start",
           Returns(r, c), UNCHANGED <<slot, route>>, NEW t,
           cx' = Left(r, c) \/ cx' = [Left(r, c) EXCEPT ![r].expected = @ \cup {t}]
    PROVE  CallsFit' /\ PlacesKept'
<1>1. RunGoes(r, cx[r].closed, cx[r].stream, cx[r].late)
  BY LeftGoes DEF RunGoes, KeepsPlace
<1>2. WrittenTo(r, c, "idle", "none", NoQuery) /\ Fits(r, c, "idle", "none", NoQuery)
  BY CallWays DEF Fits
<1> QED BY <1>1, <1>2, GoesOnKeeps

\* So does going on when the side query is gone.
LEMMA SideGoneKeeps ==
    ASSUME CxTyped, CallsFit, PlacesKept, NEW r \in CxRuns, NEW c \in Callers, SideGone(r, c)
    PROVE  CallsFit' /\ PlacesKept'
<1>1. /\ ccall[r][c].pc = "side" /\ slot' = slot
      /\ ccall[r][c].kind \in {"steer", "query", "cancel", "close", "end"}
      /\ ccall[r][c].kind = "close" => c = "dispatch"
  BY DEF SideGone, CallAt, CallsFit, CallFits, Fits
<1>2. CASE ccall[r][c].kind = "steer" /\ StartsAnew(r, c)
  BY <1>1, <1>2, AnewKeeps
<1>3. CASE /\ Goes(r, c, AfterSide(ccall[r][c].kind)) /\ UNCHANGED route
           /\ cx' = IF ccall[r][c].kind \in {"close", "end"}
                    THEN [cx EXCEPT ![r].pend = {}] ELSE cx
  <2> DEFINE p == AfterSide(ccall[r][c].kind)
             k == ccall[r][c].kind
  <2>1. RunGoes(r, cx[r].closed, cx[r].stream, cx[r].late)
    BY <1>3, RunWays
  <2>2. WrittenTo(r, c, p, k, ccall[r][c].arg)
    BY <1>3, CallWays
  <2>3. /\ k = "steer" => p = "steer"
        /\ k = "query" => p = "fork"
        /\ k \in {"cancel", "close"} => p = "interrupt"
        /\ k = "end" => p = "finish"
    BY DEF AfterSide
  <2> HIDE DEF p
  <2>4. Fits(r, c, p, k, ccall[r][c].arg)
    BY <1>1, <2>3 DEF Fits
  <2> QED BY <1>1, <1>3, <2>1, <2>2, <2>4, GoesOnKeeps
<1>4. CASE Returns(r, c) /\ UNCHANGED <<cx, route>>
  BY <1>1, <1>4, ReturnKeeps
<1> QED BY <1>2, <1>3, <1>4, Zenon DEF SideGone

\* So does steering a turn.
LEMMA SteerTurnKeeps ==
    ASSUME CxTyped, CallsFit, PlacesKept, NEW r \in CxRuns, NEW c \in Callers, SteerTurn(r, c)
    PROVE  CallsFit' /\ PlacesKept'
<1>1. ccall[r][c].pc = "steer" /\ ccall[r][c].kind = "steer" /\ slot' = slot
  BY DEF SteerTurn, CallAt, CallsFit, CallFits, Fits
<1>2. CASE StartsAnew(r, c)
  BY <1>1, <1>2, AnewKeeps
<1>3. CASE Returns(r, c) /\ UNCHANGED <<cx, route>>
  <2>1. RunGoes(r, cx[r].closed, cx[r].stream, cx[r].late)
    BY <1>3, RunWays
  <2>2. WrittenTo(r, c, "idle", "none", NoQuery) /\ Fits(r, c, "idle", "none", NoQuery)
    BY <1>3, CallWays DEF Fits
  <2> QED BY <1>1, <1>3, <2>1, <2>2, GoesOnKeeps
<1> QED BY <1>2, <1>3 DEF SteerTurn

\* So does forking the thread.
LEMMA ForkKeeps ==
    ASSUME CxTyped, CallsFit, NamesLeft, PlacesKept, NEW r \in CxRuns, NEW c \in Callers, Fork(r, c)
    PROVE  CallsFit' /\ PlacesKept'
<1>1. ccall[r][c].pc = "fork" /\ ccall[r][c].kind = "query" /\ UNCHANGED <<slot, route, cx>>
  BY DEF Fork, CallAt, CallsFit, CallFits, Fits
<1>2. RunGoes(r, cx[r].closed, cx[r].stream, cx[r].late)
  BY <1>1, RunWays
<1>3. PICK x \in NewNames(r) : x = CHOOSE new \in NewNames(r) : TRUE
  BY NameIsNew DEF Fork
<1>4. CASE Returns(r, c)
  <2>1. WrittenTo(r, c, "idle", "none", NoQuery) /\ Fits(r, c, "idle", "none", NoQuery)
    BY <1>4, CallWays DEF Fits
  <2> QED BY <1>1, <1>2, <2>1, GoesOnKeeps
<1>5. CASE ccall' = [ccall EXCEPT ![r][c].pc = "side_turn", ![r][c].arg = x]
  <2>1. WrittenTo(r, c, "side_turn", "query", x)
    BY <1>1, <1>5, CallWays
  <2>2. Fits(r, c, "side_turn", "query", x)
    BY DEF Fits, NewNames
  <2> QED BY <1>1, <1>2, <2>1, <2>2, GoesOnKeeps
<1> QED BY <1>3, <1>4, <1>5 DEF Fork

\* So does the side query's turn.
LEMMA StartSideKeeps ==
    ASSUME CxTyped, CallsFit, PlacesKept, NEW r \in CxRuns, NEW c \in Callers, StartSide(r, c)
    PROVE  CallsFit' /\ PlacesKept'
<1>1. /\ ccall[r][c].pc # "idle" /\ ccall[r][c].kind # "start" /\ UNCHANGED <<slot, route>>
      /\ Returns(r, c)
  BY DEF StartSide, CallAt, CallsFit, CallFits, Fits
<1>2. RunGoes(r, cx[r].closed, cx[r].stream, cx[r].late)
  <2> DEFINE o == cx[r].overlap \/ cx[r].side # NoQuery
             a == ccall[r][c].arg
  <2>1. cx' = cx \/ cx' = [cx EXCEPT ![r].side = a, ![r].overlap = o]
    BY Zenon DEF StartSide
  <2> HIDE DEF o, a
  <2>2. CASE cx' = cx
    BY <2>2, RunWays
  <2>3. CASE cx' = [cx EXCEPT ![r].side = a, ![r].overlap = o]
    BY <2>3, RunWays
  <2> QED BY <2>1, <2>2, <2>3
<1>3. WrittenTo(r, c, "idle", "none", NoQuery) /\ Fits(r, c, "idle", "none", NoQuery)
  BY <1>1, CallWays DEF Fits
<1> QED BY <1>1, <1>2, <1>3, GoesOnKeeps

\* So do the sending of an answer and the words after it.
LEMMA AnswerSentKeeps ==
    ASSUME CxTyped, CallsFit, PlacesKept, NEW r \in CxRuns, NEW c \in Callers,
           AnswerSent(r, c) \/ TellWhy(r, c)
    PROVE  CallsFit' /\ PlacesKept'
<1>1. /\ ccall[r][c].pc \in {"answer", "tell"} /\ ccall[r][c].pc # "idle"
      /\ ccall[r][c].kind = "respond" /\ UNCHANGED <<slot, route>>
  BY DEF AnswerSent, TellWhy, CallAt, CallsFit, CallFits, Fits
<1>2. RunGoes(r, cx[r].closed, cx[r].stream, cx[r].late)
  <2> DEFINE w == cx[r].pend \ {ccall[r][c].arg}
  <2>1. cx' = cx \/ cx' = [cx EXCEPT ![r].pend = w]
    BY Zenon DEF AnswerSent, TellWhy
  <2> HIDE DEF w
  <2> QED BY <2>1, RunWays
<1>3. CASE Returns(r, c)
  <2>1. WrittenTo(r, c, "idle", "none", NoQuery) /\ Fits(r, c, "idle", "none", NoQuery)
    BY <1>3, CallWays DEF Fits
  <2> QED BY <1>1, <1>2, <2>1, GoesOnKeeps
<1>4. CASE Goes(r, c, "tell")
  <2>1. WrittenTo(r, c, "tell", "respond", ccall[r][c].arg)
    BY <1>1, <1>4, CallWays
  <2>2. Fits(r, c, "tell", "respond", ccall[r][c].arg)
    BY DEF Fits
  <2> QED BY <1>1, <1>2, <2>1, <2>2, GoesOnKeeps
<1> QED BY <1>3, <1>4 DEF AnswerSent, TellWhy

\* The end of an interrupt, the restart and the finish.
LEMMA CleanKeeps ==
    ASSUME CxTyped, CallsFit, PlacesKept, NEW r \in CxRuns, NEW c \in Callers,
           ccall[r][c].pc \in {"interrupt", "wait"}, Clean(r, c), UNCHANGED <<slot, route>>
    PROVE  CallsFit' /\ PlacesKept'
<1>1. /\ cx[r].started /\ ccall[r][c].kind \in {"cancel", "close"} /\ ccall[r][c].pc # "idle"
      /\ c = "owner" => cx[r].stream # "none"
      /\ ccall[r][c].kind = "cancel" => cx[r].stream # "none"
      /\ ccall[r][c].kind = "close" => c = "dispatch"
  <2>1. CallFits(r, c) /\ PlaceFits(r, c) /\ cx[r].started /\ (c = "owner" => cx[r].stream # "none")
    BY CallStands
  <2>2. /\ ccall[r][c].kind \in {"cancel", "close"} /\ ccall[r][c].pc # "idle"
        /\ ccall[r][c].kind = "close" => c = "dispatch"
    BY <2>1 DEF CallFits, Fits
  <2> QED BY <2>1, <2>2 DEF PlaceFits
<1>2. CASE Goes(r, c, "finish") /\ UNCHANGED cx /\ ccall[r][c].kind # "cancel"
  <2>1. RunGoes(r, cx[r].closed, cx[r].stream, cx[r].late)
    BY <1>2, RunWays
  <2>2. WrittenTo(r, c, "finish", ccall[r][c].kind, ccall[r][c].arg)
    BY <1>2, CallWays
  <2>3. Fits(r, c, "finish", ccall[r][c].kind, ccall[r][c].arg)
    BY <1>1, <1>2 DEF Fits
  <2> QED BY <1>1, <2>1, <2>2, <2>3, GoesOnKeeps
<1>3. CASE Returns(r, c) /\ UNCHANGED cx
  <2>1. RunGoes(r, cx[r].closed, cx[r].stream, cx[r].late)
    BY <1>3, RunWays
  <2>2. WrittenTo(r, c, "idle", "none", NoQuery) /\ Fits(r, c, "idle", "none", NoQuery)
    BY <1>3, CallWays DEF Fits
  <2> QED BY <1>1, <2>1, <2>2, GoesOnKeeps
<1>4. CASE /\ ccall[r][c].kind = "cancel" /\ cx' = [cx EXCEPT ![r].closed = TRUE]
           /\ WaitsForSide(r, c, "end")
  <2>1. RunGoes(r, TRUE, cx[r].stream, cx[r].late)
    BY <1>4, RunWays, Zenon
  <2> QED BY <1>1, <1>4, <2>1, ClosingKeeps
<1> QED BY <1>2, <1>3, <1>4 DEF Clean, Ending

\* So does an interrupt that came to nothing.
LEMMA UncleanKeeps ==
    ASSUME CxTyped, CallsFit, PlacesKept, NEW r \in CxRuns, NEW c \in Callers,
           ccall[r][c].pc \in {"interrupt", "wait"}, Unclean(r, c), UNCHANGED <<slot, route>>,
           RunGoes(r, cx[r].closed, cx[r].stream, cx[r].late)
    PROVE  CallsFit' /\ PlacesKept'
<1>1. /\ ccall[r][c].kind \in {"cancel", "close"} /\ ccall[r][c].pc # "idle"
      /\ ccall[r][c].kind = "close" => c = "dispatch"
  BY DEF CallsFit, CallFits, Fits
<1>2. PICK p : p = (IF ccall[r][c].kind = "cancel" THEN "restart" ELSE "finish") /\ Goes(r, c, p)
  BY DEF Unclean
<1>3. WrittenTo(r, c, p, ccall[r][c].kind, ccall[r][c].arg)
  BY <1>2, CallWays
<1>4. Fits(r, c, p, ccall[r][c].kind, ccall[r][c].arg)
  BY <1>1, <1>2 DEF Fits
<1> QED BY <1>1, <1>3, <1>4, GoesOnKeeps

\* So do the interrupt and the wait for it.
LEMMA InterruptKeeps ==
    ASSUME CxTyped, CallsFit, PlacesKept, NEW r \in CxRuns, NEW c \in Callers,
           Interrupt(r, c) \/ Interrupted(r, c)
    PROVE  CallsFit' /\ PlacesKept'
<1>1. /\ UNCHANGED <<slot, route>> /\ ccall[r][c].pc \in {"interrupt", "wait"}
      /\ ccall[r][c].pc # "idle"
  BY DEF Interrupt, Interrupted, CallAt
<1>2. CASE Clean(r, c)
  BY <1>1, <1>2, CleanKeeps
<1> DEFINE t == cx[r].active
           e == cx[r].expected \cup {t}
<1>3. cx' = cx \/ cx' = [cx EXCEPT ![r].expected = e]
         => RunGoes(r, cx[r].closed, cx[r].stream, cx[r].late)
  <2> HIDE DEF e
  <2> QED BY RunWays
<1>4. CASE Unclean(r, c) /\ (cx' = cx \/ cx' = [cx EXCEPT ![r].expected = e])
  BY <1>1, <1>3, <1>4, UncleanKeeps
<1>5. CASE /\ ccall' = [ccall EXCEPT ![r][c].pc = "wait", ![r][c].arg = t]
           /\ cx' = [cx EXCEPT ![r].expected = e]
  <2>1. /\ ccall[r][c].kind \in {"cancel", "close"}
        /\ ccall[r][c].kind = "close" => c = "dispatch"
    BY <1>1 DEF CallsFit, CallFits, Fits
  <2>2. WrittenTo(r, c, "wait", ccall[r][c].kind, t)
    BY <1>5, CallWays
  <2>3. Fits(r, c, "wait", ccall[r][c].kind, t)
    BY <2>1 DEF Fits
  <2> HIDE DEF t
  <2> QED BY <1>1, <1>3, <1>5, <2>1, <2>2, <2>3, GoesOnKeeps
<1>6. CASE Returns(r, c) /\ cx' = [Left(r, c) EXCEPT ![r].expected = @ \cup {t}]
  <2>1. ccall[r][c].kind # "start"
    BY <1>1 DEF CallsFit, CallFits, Fits
  <2> HIDE DEF t
  <2> QED BY <1>1, <1>6, <2>1, LeavesKeeps
<1> QED BY <1>2, <1>4, <1>5, <1>6, Zenon DEF Interrupt, Interrupted

\* So does the rest of a close, which gives up only what the run has.
LEMMA FinishKeeps ==
    ASSUME CxTyped, CallsFit, PlacesKept, NEW r \in CxRuns, NEW c \in Callers, Finish(r, c)
    PROVE  CallsFit' /\ PlacesKept'
<1>1. /\ ccall[r][c].pc = "finish" /\ ccall[r][c].kind \in {"close", "end"}
      /\ ccall[r][c].pc # "idle"
  BY DEF Finish, CallAt, CallsFit, CallFits, Fits
<1>2. /\ cx[r].started /\ cx[r].closed
      /\ c = "owner" => cx[r].stream # "none"
  BY <1>1, CallStands DEF PlaceFits
<1>3. PICK st : st = "ended" /\ RunGoes(r, cx[r].closed, st, cx[r].late)
  BY RunWays DEF Finish
<1>4. WrittenTo(r, c, "idle", "none", NoQuery) /\ Fits(r, c, "idle", "none", NoQuery)
  BY CallWays DEF Fits, Finish
<1>5. /\ slot' = slot \/ (slot = r /\ slot' = NoRun /\ cx[r].closed)
      /\ route' = route \/ (route = r /\ route' = NoRun /\ cx[r].closed)
  BY <1>2 DEF Finish
<1>6. /\ \A u \in CxRuns : u # r => KeepsPlace(u)
      /\ cx'[r].started /\ cx'[r].closed /\ cx'[r].stream = "ended"
      /\ cx'[r].late = cx[r].late
  BY <1>2, <1>3 DEF RunGoes
<1>7. SlotGoes(r) /\ RouteGoes(r)
  BY <1>5, <1>6 DEF SlotGoes, RouteGoes
<1>8. PlacesKept'
  BY <1>2, <1>4, <1>6, <1>7, CallKeepsPlaces
<1> QED BY <1>4, <1>8, CallsStayFit

\* So does giving a call up.
LEMMA GivesUpKeeps ==
    ASSUME CxTyped, CallsFit, PlacesKept, NEW r \in CxRuns, NEW c \in Callers, GivesUp(r, c)
    PROVE  CallsFit' /\ PlacesKept'
<1>1. /\ ccall[r][c].pc \in {"side", "steer", "wait", "restart", "interrupt"}
      /\ Returns(r, c) /\ UNCHANGED <<slot, route>>
  BY DEF GivesUp
<1>2. ccall[r][c].pc # "idle" /\ ccall[r][c].kind # "start"
  BY <1>1 DEF CallsFit, CallFits, Fits
<1> DEFINE t == cx[r].active
<1>3. cx' = Left(r, c) \/ cx' = [Left(r, c) EXCEPT ![r].expected = @ \cup {t}]
  BY Zenon DEF GivesUp
<1> HIDE DEF t
<1> QED BY <1>1, <1>2, <1>3, LeavesKeeps

\* So does a worker that gives its client up.
LEMMA StopKeeps ==
    ASSUME CxTyped, CallsFit, PlacesKept, NEW r \in CxRuns, StopClient(r)
    PROVE  CallsFit' /\ PlacesKept'
<1>1. "owner" \in Callers
  BY DEF Callers
<1>2. /\ ccall[r]["owner"].pc = "restart" /\ ccall[r]["owner"].kind = "cancel"
      /\ ccall[r]["owner"].pc # "idle" /\ UNCHANGED <<slot, route>>
      /\ Goes(r, "owner", "starting")
  BY <1>1 DEF StopClient, CallAt, CallsFit, CallFits, Fits
<1>3. cx' = Hushed
  BY Zenon DEF StopClient, Hushed
<1>4. RunGoes(r, cx[r].closed, cx[r].stream, cx[r].late)
  BY <1>3, ClearedGoes DEF RunGoes, KeepsPlace
<1>5. WrittenTo(r, "owner", "starting", "cancel", ccall[r]["owner"].arg)
  BY <1>1, <1>2, CallWays
<1>6. Fits(r, "owner", "starting", "cancel", ccall[r]["owner"].arg)
  BY DEF Fits
<1> QED BY <1>1, <1>2, <1>4, <1>5, <1>6, GoesOnKeeps

\* So does one that starts another.
LEMMA StartClientKeeps ==
    ASSUME CxTyped, CallsFit, PlacesKept, NEW r \in CxRuns, StartClient(r)
    PROVE  CallsFit' /\ PlacesKept'
<1>1. "owner" \in Callers
  BY DEF Callers
<1>2. /\ ccall[r]["owner"].pc = "starting" /\ ccall[r]["owner"].kind = "cancel"
      /\ ccall[r]["owner"].pc # "idle" /\ UNCHANGED <<slot, route>>
  BY <1>1 DEF StartClient, CallAt, CallsFit, CallFits, Fits
<1>3. cx[r].started /\ cx[r].stream # "none"
  BY <1>1, <1>2, CallStands
<1>4. Unregistered[r] \in CxRunStates /\ Unregistered \in [CxRuns -> CxRunStates]
  BY ClearedTyped
<1>5. ASSUME NEW x, cx' = [Unregistered EXCEPT ![r] = x], x.started = Unregistered[r].started,
             x.stream = Unregistered[r].stream, x.late = Unregistered[r].late
      PROVE  RunGoes(r, x.closed, cx[r].stream, cx[r].late)
  <2>1. cx'[r] = x /\ \A u \in CxRuns : u # r => cx'[u] = Unregistered[u]
    <3> HIDE DEF Unregistered
    <3> QED BY <1>4, <1>5
  <2> HIDE DEF Unregistered
  <2> QED BY <1>5, <2>1, ClearedGoes DEF RunGoes, KeepsPlace
<1>6. CASE cx' = [Unregistered EXCEPT ![r].active = 0] /\ Returns(r, "owner")
  <2> DEFINE x == [Unregistered[r] EXCEPT !.active = 0]
  <2>1. cx' = [Unregistered EXCEPT ![r] = x]
    BY <1>6, Zenon
  <2>2. /\ x.started = Unregistered[r].started /\ x.stream = Unregistered[r].stream
        /\ x.late = Unregistered[r].late /\ x.closed = Unregistered[r].closed
    <3> HIDE DEF Unregistered
    <3> QED BY <1>4 DEF CxRunStates
  <2> HIDE DEF x, Unregistered
  <2>3. RunGoes(r, cx[r].closed, cx[r].stream, cx[r].late)
    BY <1>5, <2>1, <2>2, ClearedGoes
  <2>4. WrittenTo(r, "owner", "idle", "none", NoQuery) /\ Fits(r, "owner", "idle", "none", NoQuery)
    BY <1>1, <1>6, CallWays DEF Fits
  <2> QED BY <1>1, <1>2, <2>3, <2>4, GoesOnKeeps
<1>7. CASE /\ cx' = [Unregistered EXCEPT ![r].active = 0, ![r].closed = TRUE]
           /\ WaitsForSide(r, "owner", "end")
  <2> DEFINE x == [Unregistered[r] EXCEPT !.active = 0, !.closed = TRUE]
  <2>1. cx' = [Unregistered EXCEPT ![r] = x]
    BY <1>7, Zenon
  <2>2. /\ x.started = Unregistered[r].started /\ x.stream = Unregistered[r].stream
        /\ x.late = Unregistered[r].late /\ x.closed = TRUE
    <3> HIDE DEF Unregistered
    <3> QED BY <1>4 DEF CxRunStates
  <2> HIDE DEF x, Unregistered
  <2>3. RunGoes(r, TRUE, cx[r].stream, cx[r].late)
    BY <1>5, <2>1, <2>2
  <2> QED BY <1>1, <1>2, <1>3, <1>7, <2>3, ClosingKeeps
<1> QED BY <1>6, <1>7, Zenon DEF StartClient

\* So does one that cannot.
LEMMA RestartFailsKeeps ==
    ASSUME CxTyped, CallsFit, PlacesKept, NEW r \in CxRuns, RestartFails(r)
    PROVE  CallsFit' /\ PlacesKept'
<1>1. "owner" \in Callers
  BY DEF Callers
<1>2. /\ ccall[r]["owner"].pc = "starting" /\ ccall[r]["owner"].kind = "cancel"
      /\ ccall[r]["owner"].pc # "idle" /\ UNCHANGED <<slot, route>> /\ Returns(r, "owner")
  BY <1>1 DEF RestartFails, CallAt, CallsFit, CallFits, Fits
<1>3. CASE cx' = cx
  BY <1>1, <1>2, <1>3, ReturnKeeps
<1>4. CASE cx' = Unregistered
  <2>1. RunGoes(r, cx[r].closed, cx[r].stream, cx[r].late)
    BY <1>4, ClearedGoes DEF RunGoes, KeepsPlace
  <2>2. WrittenTo(r, "owner", "idle", "none", NoQuery) /\ Fits(r, "owner", "idle", "none", NoQuery)
    BY <1>1, <1>2, CallWays DEF Fits
  <2> QED BY <1>1, <1>2, <2>1, <2>2, GoesOnKeeps
<1> QED BY <1>3, <1>4 DEF RestartFails

\* Steps that make no call keep them.
LEMMA NoCallKeeps ==
    ASSUME CallsFit, PlacesKept, UNCHANGED <<slot, route, ccall>>,
           \A u \in CxRuns :
              /\ cx'[u].started = cx[u].started /\ cx'[u].closed = cx[u].closed
              /\ cx'[u].late = cx[u].late
              /\ \/ cx'[u].stream = cx[u].stream
                 \/ cx[u].stream = "open" /\ cx'[u].stream \notin {"none", "open"}
    PROVE  CallsFit' /\ PlacesKept'
<1>1. CallsFit'
  BY DEF CallsFit, CallFits
<1>2. Overtaken' = Overtaken
  BY DEF Overtaken
<1>3. ASSUME NEW u \in CxRuns PROVE RunFitsPlace(u)'
  <2>1. RunFitsPlace(u)
    BY DEF PlacesKept
  <2>2. ASSUME NEW c \in Callers PROVE PlaceFits(u, c)'
    <3>1. PlaceFits(u, c)
      BY <2>1 DEF RunFitsPlace
    <3> QED BY <3>1 DEF PlaceFits, InUse
  <2>3. AtWork(u)' => AtWork(u)
    BY DEF AtWork
  <2> QED BY <1>2, <2>1, <2>2, <2>3 DEF RunFitsPlace, InUse
<1> QED BY <1>1, <1>3 DEF PlacesKept

\* The start of a run.
LEMMA StartRunKeeps ==
    ASSUME CxTyped, CallsFit, PlacesKept, NEW r \in CxRuns, StartRun(r)
    PROVE  CallsFit' /\ PlacesKept'
<1>1. "dispatch" \in Callers
  BY DEF Callers
<1>2. WrittenTo(r, "dispatch", "thread", "start", NoQuery)
  BY <1>1, CallWays DEF StartRun
<1>3. Fits(r, "dispatch", "thread", "start", NoQuery)
  BY DEF Fits
<1>4. /\ \A u \in CxRuns : u # r => cx'[u] = cx[u]
      /\ cx'[r].started /\ cx'[r].closed = cx[r].closed /\ cx'[r].stream = cx[r].stream
      /\ cx'[r].late = cx[r].late
  <2>1. cx' = [cx EXCEPT ![r] = [cx[r] EXCEPT !.started = TRUE]]
    BY Zenon DEF StartRun
  <2>2. cx[r] \in CxRunStates
    BY RunHas
  <2>3. cx'[r] = [cx[r] EXCEPT !.started = TRUE] /\ \A u \in CxRuns : u # r => cx'[u] = cx[u]
    BY <2>1, CxWritten
  <2> QED BY <2>2, <2>3 DEF CxRunStates
<1>5. ~cx[r].started /\ cx[r].stream = "none" /\ ~cx[r].closed /\ RunFitsPlace(r)
  BY DEF StartRun, PlacesKept, RunFitsPlace
<1>6. \A u \in CxRuns : ~InUse(u)
  BY CxAssumption DEF PlacesKept, RunFitsPlace, StartRun, InUse
<1>7. slot' = r /\ route' = route
  BY DEF StartRun
<1>8. ASSUME NEW u \in CxRuns, u # r PROVE RunFitsPlace(u)'
  <2>1. RunFitsPlace(u) /\ cx'[u] = cx[u] /\ \A c \in Callers : ccall'[u][c] = ccall[u][c]
    BY <1>2, <1>4, <1>8 DEF PlacesKept, WrittenTo
  <2>2. ~InUse(u)'
    BY <1>6, <2>1 DEF InUse
  <2>3. ASSUME NEW c \in Callers PROVE PlaceFits(u, c)'
    <3>1. PlaceFits(u, c)
      BY <2>1 DEF RunFitsPlace
    <3> QED BY <2>1, <3>1 DEF PlaceFits, InUse
  <2> QED BY <2>1, <2>2, <2>3 DEF RunFitsPlace
<1>9. RunFitsPlace(r)'
  <2>1. \A c \in Callers : ccall[r][c].kind = "none"
    BY <1>5 DEF RunFitsPlace, PlaceFits
  <2>2. /\ ccall'[r]["dispatch"].pc = "thread" /\ ccall'[r]["dispatch"].kind = "start"
        /\ \A c \in Callers : c # "dispatch" => ccall'[r][c] = ccall[r][c]
    BY <1>1, <1>2 DEF WrittenTo
  <2>3. ASSUME NEW c \in Callers PROVE PlaceFits(r, c)'
    BY <1>4, <1>5, <2>1, <2>2 DEF PlaceFits, InUse
  <2>4. ~AtWork(r)'
    BY <1>4, <1>5, <2>1, <2>2 DEF AtWork
  <2> QED BY <1>4, <1>7, <2>3, <2>4 DEF RunFitsPlace
<1>10. PlacesKept'
  BY <1>8, <1>9 DEF PlacesKept
<1> QED BY <1>1, <1>2, <1>3, <1>10, CallsStayFit

\* What the client reads, what the server does and what becomes of a side query.
LEMMA WatchPlaces ==
    ASSUME CxTyped, Watch
    PROVE  \E r \in CxRuns : \E st :
              /\ st = cx[r].stream \/ (cx[r].stream = "open" /\ st \notin {"none", "open"})
              /\ RunGoes(r, cx[r].closed, st, cx[r].late)
<1>1. mail # <<>>
  BY DEF Watch
<1> DEFINE m == Head(mail)
           r == m.run
<1>2. m \in CxMessages
  BY <1>1, HeadOfMail
<1>3. r \in CxRuns
  BY <1>2, MessageIs
<1>4. cx[r] \in CxRunStates
  BY <1>3, RunHas
<1>5. CASE cx' = cx
  <2>1. RunGoes(r, cx[r].closed, cx[r].stream, cx[r].late)
    BY <1>3, <1>5, RunWays
  <2> QED BY <1>3, <2>1
<1>6. ASSUME NEW v, cx' = [cx EXCEPT ![r].pend = v]
      PROVE  RunGoes(r, cx[r].closed, cx[r].stream, cx[r].late)
  BY <1>3, <1>6, RunWays
<1>7. CASE m.what = "ask" /\ SeeAsk(m)
  <2>1. cx' = cx \/ cx' = [cx EXCEPT ![r].pend = {m.arg[1]}]
    BY <1>7, Zenon DEF SeeAsk
  <2> HIDE DEF m
  <2> QED BY <1>3, <1>5, <1>6, <2>1
<1>8. CASE m.what = "resolved" /\ cx' = [cx EXCEPT ![r].pend = @ \ {m.arg}]
  <2>1. PICK v : cx' = [cx EXCEPT ![r].pend = v]
    BY <1>8, Zenon
  <2> HIDE DEF m
  <2> QED BY <1>3, <1>6, <2>1
<1>9. CASE m.what \in Ends /\ SeeEnd(m)
  <2>1. CASE cx' = cx
    BY <1>5, <2>1
  <2>2. CASE cx' # cx
    <3>1. PICK w : cx' = [cx EXCEPT ![r] = TurnDone(cx[r], m.arg, w)]
                   /\ (w = cx[r].stream \/ w = "result")
      BY <1>9, <2>2, Zenon DEF SeeEnd
    <3> DEFINE x == cx[r]
               st == Concluded(x.stream, w)
               y == TurnDone(x, m.arg, w)
    <3>2. y.started = x.started /\ y.closed = x.closed /\ y.stream = st /\ y.late = x.late
      <4> HIDE DEF x
      <4>1. x \in CxRunStates
        BY <1>4 DEF x
      <4> QED BY <4>1 DEF TurnDone, CxRunStates
    <3>3. cx'[r] = y /\ \A u \in CxRuns : u # r => cx'[u] = cx[u]
      <4> HIDE DEF y, m
      <4> QED BY <1>3, <3>1, CxWritten DEF y
    <3>4. RunGoes(r, x.closed, st, x.late)
      <4> HIDE DEF y, st, m
      <4> QED BY <3>2, <3>3 DEF RunGoes, KeepsPlace
    <3>5. st = x.stream \/ (x.stream = "open" /\ st \notin {"none", "open"})
      BY <3>1 DEF Concluded
    <3> HIDE DEF st, m
    <3> QED BY <1>3, <3>4, <3>5
  <2> QED BY <2>1, <2>2
<1>10. CASE m.what = "side" /\ SeeSide(m)
  <2> DEFINE st == Concluded(cx[r].stream, "side_result")
  <2>1. cx' = cx \/ cx' = [cx EXCEPT ![r].pend = {}, ![r].stream = st]
    BY <1>10, Zenon DEF SeeSide
  <2>2. st = cx[r].stream \/ (cx[r].stream = "open" /\ st \notin {"none", "open"})
    BY DEF Concluded
  <2> HIDE DEF st, m
  <2>3. cx' = [cx EXCEPT ![r].pend = {}, ![r].stream = st]
           => RunGoes(r, cx[r].closed, st, cx[r].late)
    BY <1>3, RunWays
  <2> QED BY <1>3, <1>5, <2>1, <2>2, <2>3
<1> QED BY <1>7, <1>8, <1>9, <1>10, Zenon DEF Watch

\* What the client reads keeps them.
LEMMA WatchKeeps ==
    ASSUME CxTyped, CallsFit, PlacesKept, Watch
    PROVE  CallsFit' /\ PlacesKept'
<1>1. UNCHANGED <<slot, route, ccall>>
  BY DEF Watch
<1>2. PICK r \in CxRuns : \E st :
         /\ st = cx[r].stream \/ (cx[r].stream = "open" /\ st \notin {"none", "open"})
         /\ RunGoes(r, cx[r].closed, st, cx[r].late)
  BY WatchPlaces
<1> QED BY <1>1, <1>2, NoCallKeeps DEF RunGoes, KeepsPlace

\* So do the server and the side queries' tasks.
LEMMA OthersKeep ==
    ASSUME CxTyped, CallsFit, PlacesKept, UNCHANGED <<slot, route, ccall>>,
           cx' = cx \/ \E y \in Sides : DisposeSide(y)
    PROVE  CallsFit' /\ PlacesKept'
<1>1. CASE cx' = cx
  BY <1>1, NoCallKeeps
<1>2. ASSUME NEW y \in Sides, DisposeSide(y) PROVE CallsFit' /\ PlacesKept'
  <2> DEFINE v == IF cx[y[1]].side = y[2] THEN NoQuery ELSE cx[y[1]].side
  <2>1. (cx' = cx \/ cx' = [cx EXCEPT ![y[1]].side = v]) /\ y[1] \in CxRuns
    BY <1>2, SideParts, Zenon DEF DisposeSide
  <2> HIDE DEF v
  <2>2. RunGoes(y[1], cx[y[1]].closed, cx[y[1]].stream, cx[y[1]].late)
    BY <2>1, RunWays
  <2> QED BY <2>1, <2>2, NoCallKeeps DEF RunGoes, KeepsPlace
<1> QED BY <1>1, <1>2

\* Every step keeps the calls fit and the runs in their places.
LEMMA NextKeepsPlaces ==
    ASSUME CxTyped, CallsFit, NamesLeft, PlacesKept, CxNext
    PROVE  CallsFit' /\ PlacesKept'
<1>1. ASSUME NEW r \in CxRuns,
             StartRun(r) \/ OpenThread(r) \/ Cancel(r) \/ Close(r) \/ StopClient(r)
             \/ StartClient(r) \/ RestartFails(r)
      PROVE  CallsFit' /\ PlacesKept'
  <2>1. "owner" \in Callers
    BY DEF Callers
  <2> QED BY <1>1, <2>1, StartRunKeeps, OpenThreadKeeps, OwnerKeeps, CloseKeeps, StopKeeps,
             StartClientKeeps, RestartFailsKeeps
<1>2. ASSUME NEW r \in CxRuns, ServerAsks(r) \/ ServerResolves(r) \/ ServerEnds(r)
      PROVE  CallsFit' /\ PlacesKept'
  BY <1>2, OthersKeep DEF ServerAsks, ServerResolves, ServerEnds
<1>3. ASSUME NEW r \in CxRuns, NEW c \in Callers,
             SteerRun(r, c) \/ Query(r, c) \/ Respond(r, c) \/ CallStep(r, c) \/ GivesUp(r, c)
      PROVE  CallsFit' /\ PlacesKept'
  BY <1>3, OwnerKeeps, RespondKeeps, StartTurnKeeps, SideGoneKeeps, SteerTurnKeeps, ForkKeeps,
     StartSideKeeps, AnswerSentKeeps, InterruptKeeps, FinishKeeps, GivesUpKeeps DEF CallStep
<1>4. ASSUME NEW y \in Sides,
             SideTimesOut(y) \/ DisposeSide(y) \/ ReleaseSide(y) \/ ServerEndsSide(y)
      PROVE  CallsFit' /\ PlacesKept'
  <2>1. UNCHANGED <<slot, route, ccall>>
    BY <1>4 DEF SideTimesOut, DisposeSide, ReleaseSide, ServerEndsSide
  <2>2. cx' = cx \/ DisposeSide(y)
    BY <1>4 DEF SideTimesOut, ReleaseSide, ServerEndsSide
  <2> QED BY <2>1, <2>2, OthersKeep
<1>5. CASE Watch
  BY <1>5, WatchKeeps
<1>6. CASE ServerDies
  BY <1>6, OthersKeep DEF ServerDies
<1> QED BY <1>1, <1>2, <1>3, <1>4, <1>5, <1>6, Zenon DEF CxNext

-----------------------------------------------------------------------------
(* What the steps do to the server.                                          *)

\* The turns and the questions of run u are as they were.
TurnsSame(u) == srv'.n[u] = srv.n[u] /\ srv'.busy[u] = srv.busy[u]
AsksSame(u)  == \A k \in CxAsks : srv'.ask[u][k] = srv.ask[u][k]
\* No name was used.
NamesSame == \A y \in Sides : srv'.side[y] = "none" <=> srv.side[y] = "none"
\* What was open is void, and the turn is over.
IsOver(u) ==
    /\ ~srv'.busy[u] /\ srv'.n[u] = srv.n[u]
    /\ \A k \in CxAsks :
          srv'.ask[u][k] = IF srv.ask[u][k] = "open" THEN "void" ELSE srv.ask[u][k]
\* Question k of run r becomes v, and nothing else.
AskWritten(r, k, v) ==
    /\ \A u \in CxRuns : TurnsSame(u) /\ (u # r => AsksSame(u))
    /\ \A j \in CxAsks : srv'.ask[r][j] = IF j = k THEN v ELSE srv.ask[r][j]
AllSame == \A u \in CxRuns : TurnsSame(u) /\ AsksSame(u)

\* The fields of the server.
LEMMA ServerWritten ==
    ASSUME NEW x \in CxServers, NEW v
    PROVE  /\ LET z == [x EXCEPT !.n = v] IN
              z.n = v /\ z.busy = x.busy /\ z.ask = x.ask /\ z.side = x.side /\ z.up = x.up
           /\ LET z == [x EXCEPT !.busy = v] IN
              z.n = x.n /\ z.busy = v /\ z.ask = x.ask /\ z.side = x.side /\ z.up = x.up
           /\ LET z == [x EXCEPT !.ask = v] IN
              z.n = x.n /\ z.busy = x.busy /\ z.ask = v /\ z.side = x.side /\ z.up = x.up
           /\ LET z == [x EXCEPT !.side = v] IN
              z.n = x.n /\ z.busy = x.busy /\ z.ask = x.ask /\ z.side = v /\ z.up = x.up
           /\ LET z == [x EXCEPT !.up = v] IN
              z.n = x.n /\ z.busy = x.busy /\ z.ask = x.ask /\ z.side = x.side /\ z.up = v
  BY DEF CxServers

\* A turn begins.
LEMMA BeginsGoes ==
    ASSUME CxTyped, NEW r \in CxRuns, TurnBegins(r)
    PROVE  /\ srv'.n[r] = srv.n[r] + 1 /\ srv'.busy[r] /\ NamesSame
           /\ \A u \in CxRuns : AsksSame(u) /\ (u # r => TurnsSame(u))
<1>1. /\ srv \in CxServers /\ srv.n \in [CxRuns -> 0..MaxTurns]
      /\ srv.busy \in [CxRuns -> BOOLEAN]
  BY ServerIs DEF CxTyped, ServerFits
<1> DEFINE nn == [srv.n EXCEPT ![r] = @ + 1]
           bb == [srv.busy EXCEPT ![r] = TRUE]
<1>2. srv' = [srv EXCEPT !.n = nn, !.busy = bb]
  BY Zenon DEF TurnBegins
<1>3. /\ nn[r] = srv.n[r] + 1 /\ \A u \in CxRuns : u # r => nn[u] = srv.n[u]
      /\ bb[r] /\ \A u \in CxRuns : u # r => bb[u] = srv.busy[u]
  BY <1>1
<1> HIDE DEF nn, bb
<1>4. srv'.n = nn /\ srv'.busy = bb /\ srv'.ask = srv.ask /\ srv'.side = srv.side
  BY <1>1, <1>2 DEF CxServers
<1> QED BY <1>3, <1>4 DEF NamesSame, AsksSame, TurnsSame

\* A turn is over.
LEMMA OverGoes ==
    ASSUME CxTyped, NEW r \in CxRuns, srv' = TurnOver(srv, r)
    PROVE  /\ IsOver(r) /\ NamesSame
           /\ \A u \in CxRuns : u # r => TurnsSame(u) /\ AsksSame(u)
<1>1. /\ srv \in CxServers /\ srv.ask \in [CxRuns -> [CxAsks -> AskStates]]
      /\ srv.busy \in [CxRuns -> BOOLEAN]
  BY ServerIs DEF CxTyped, ServerFits
<1> DEFINE voided == [k \in CxAsks |-> IF srv.ask[r][k] = "open" THEN "void" ELSE srv.ask[r][k]]
           aa == [srv.ask EXCEPT ![r] = voided]
           bb == [srv.busy EXCEPT ![r] = FALSE]
<1>2. srv' = [srv EXCEPT !.busy = bb, !.ask = aa]
  BY Zenon DEF TurnOver
<1>3. /\ aa[r] = voided /\ \A u \in CxRuns : u # r => aa[u] = srv.ask[u]
      /\ ~bb[r] /\ \A u \in CxRuns : u # r => bb[u] = srv.busy[u]
  BY <1>1
<1>4. \A k \in CxAsks : voided[k] = IF srv.ask[r][k] = "open" THEN "void" ELSE srv.ask[r][k]
  OBVIOUS
<1> HIDE DEF aa, bb, voided
<1>5. srv'.n = srv.n /\ srv'.busy = bb /\ srv'.ask = aa /\ srv'.side = srv.side
  BY <1>1, <1>2 DEF CxServers
<1> QED BY <1>3, <1>4, <1>5 DEF NamesSame, AsksSame, TurnsSame, IsOver

\* The process goes, or comes back.
GoesDown ==
    \/ srv' = ServerDown(srv) \/ srv' = Restarted(srv)
    \/ srv' = [ServerDown(srv) EXCEPT !.client = FALSE]

\* Either way its turns and its questions are over, and its forks keep their names.
LEMMA RestartGoes ==
    ASSUME CxTyped, GoesDown
    PROVE  NamesSame /\ \A u \in CxRuns : IsOver(u)
<1>1. srv \in CxServers
  BY DEF CxTyped
<1> DEFINE asks  == [r \in CxRuns |-> TurnOver(srv, r).ask[r]]
           sides == [y \in Sides |-> IF srv.side[y] = "none" THEN "none" ELSE "released"]
           busys == [r \in CxRuns |-> FALSE]
<1>2. ServerDown(srv) = [srv EXCEPT !.up = FALSE, !.busy = busys, !.ask = asks, !.side = sides]
  BY Zenon DEF ServerDown
<1>3. \A y \in Sides : sides[y] = "none" <=> srv.side[y] = "none"
  OBVIOUS
<1>4. \A u \in CxRuns, k \in CxAsks :
         asks[u][k] = IF srv.ask[u][k] = "open" THEN "void" ELSE srv.ask[u][k]
  <2> SUFFICES ASSUME NEW u \in CxRuns, NEW k \in CxAsks
               PROVE  asks[u][k] = IF srv.ask[u][k] = "open" THEN "void" ELSE srv.ask[u][k]
    OBVIOUS
  <2> DEFINE voided == [j \in CxAsks |-> IF srv.ask[u][j] = "open" THEN "void" ELSE srv.ask[u][j]]
             aa == [srv.ask EXCEPT ![u] = voided]
             bb == [srv.busy EXCEPT ![u] = FALSE]
  <2>1. TurnOver(srv, u) = [srv EXCEPT !.busy = bb, !.ask = aa]
    BY Zenon DEF TurnOver
  <2>2. asks[u] = TurnOver(srv, u).ask[u]
    OBVIOUS
  <2>3. aa[u] = voided
    <3>1. srv.ask \in [CxRuns -> [CxAsks -> AskStates]]
      BY <1>1, ServerIs DEF ServerFits
    <3> QED BY <3>1
  <2>4. voided[k] = IF srv.ask[u][k] = "open" THEN "void" ELSE srv.ask[u][k]
    OBVIOUS
  <2> HIDE DEF aa, bb, voided, asks
  <2>5. TurnOver(srv, u).ask = aa
    BY <1>1, <2>1 DEF CxServers
  <2> QED BY <2>2, <2>3, <2>4, <2>5
<1>5. \A u \in CxRuns : ~busys[u]
  OBVIOUS
<1> HIDE DEF asks, sides, busys
<1>6. srv'.n = srv.n /\ srv'.busy = busys /\ srv'.ask = asks /\ srv'.side = sides
  <2> DEFINE x == [srv EXCEPT !.up = FALSE, !.busy = busys, !.ask = asks, !.side = sides]
  <2>1. \/ srv' = x \/ srv' = [x EXCEPT !.up = TRUE, !.client = TRUE]
        \/ srv' = [x EXCEPT !.client = FALSE]
    BY <1>2, Zenon DEF GoesDown, Restarted
  <2>2. /\ x.n = srv.n /\ x.busy = busys /\ x.ask = asks /\ x.side = sides
        /\ LET z == [x EXCEPT !.up = TRUE, !.client = TRUE] IN
           z.n = srv.n /\ z.busy = busys /\ z.ask = asks /\ z.side = sides
        /\ LET z == [x EXCEPT !.client = FALSE] IN
           z.n = srv.n /\ z.busy = busys /\ z.ask = asks /\ z.side = sides
    BY <1>1 DEF CxServers
  <2> HIDE DEF x
  <2> QED BY <2>1, <2>2
<1> QED BY <1>3, <1>4, <1>5, <1>6 DEF NamesSame, IsOver

\* A fork of a run changes; a question does.
LEMMA SideGoes ==
    ASSUME CxTyped, NEW y \in Sides, NEW v, srv' = [srv EXCEPT !.side[y] = v]
    PROVE  /\ AllSame /\ srv'.side[y] = v
           /\ \A z \in Sides : z # y => srv'.side[z] = srv.side[z]
<1>1. srv \in CxServers /\ srv.side \in [Sides -> SideStates]
  BY ServerIs DEF CxTyped, ServerFits
<1> DEFINE ss == [srv.side EXCEPT ![y] = v]
<1>2. srv' = [srv EXCEPT !.side = ss]
  BY Zenon
<1>3. ss[y] = v /\ \A z \in Sides : z # y => ss[z] = srv.side[z]
  BY <1>1
<1> HIDE DEF ss
<1>4. srv'.n = srv.n /\ srv'.busy = srv.busy /\ srv'.ask = srv.ask /\ srv'.side = ss
  BY <1>1, <1>2 DEF CxServers
<1> QED BY <1>3, <1>4 DEF AllSame, TurnsSame, AsksSame

\* A question of run r changes.
LEMMA AskGoes ==
    ASSUME CxTyped, NEW r \in CxRuns, NEW k, NEW v, srv' = [srv EXCEPT !.ask[r][k] = v]
    PROVE  NamesSame /\ AskWritten(r, k, v)
<1>1. srv \in CxServers /\ srv.ask \in [CxRuns -> [CxAsks -> AskStates]]
  BY ServerIs DEF CxTyped, ServerFits
<1> DEFINE row == [srv.ask[r] EXCEPT ![k] = v]
           aa == [srv.ask EXCEPT ![r] = row]
<1>2. srv' = [srv EXCEPT !.ask = aa]
  BY Zenon
<1>3. \A j \in CxAsks : row[j] = IF j = k THEN v ELSE srv.ask[r][j]
  BY <1>1
<1>4. aa[r] = row /\ \A u \in CxRuns : u # r => aa[u] = srv.ask[u]
  BY <1>1
<1> HIDE DEF aa, row
<1>5. srv'.n = srv.n /\ srv'.busy = srv.busy /\ srv'.ask = aa /\ srv'.side = srv.side
  BY <1>1, <1>2 DEF CxServers
<1> QED BY <1>3, <1>4, <1>5 DEF NamesSame, AskWritten, TurnsSame, AsksSame

-----------------------------------------------------------------------------
(* The names of the forks.                                                   *)

\* A fork whose side query has a task, or is to have its turn, has its name.
Forked ==
    /\ \A y \in Sides : sq[y] # "none" => srv.side[y] # "none"
    /\ \A r \in CxRuns, c \in Callers :
          ccall[r][c].pc = "side_turn" => srv.side[<<r, ccall[r][c].arg>>] # "none"
NamesKept == NamesLeft /\ Forked

\* No other call asks for a fork, none has one that had none, and a task has a fork.
FewerAsk ==
    /\ \A u \in CxRuns : Asking(u)' \subseteq Asking(u)
    /\ \A u \in CxRuns, d \in Callers :
          ccall'[u][d].pc = "side_turn" => ccall'[u][d] = ccall[u][d]
TasksForked == \A y \in Sides : sq'[y] # "none" => sq[y] # "none" \/ srv.side[y] # "none"

\* The sets of names and of callers are finite.
LEMMA NamesFinite ==
    ASSUME NEW r \in CxRuns
    PROVE  /\ IsFiniteSet(NewNames(r)) /\ Cardinality(NewNames(r)) \in Nat
           /\ IsFiniteSet(Asking(r)) /\ Cardinality(Asking(r)) \in Nat
<1>1. IsFiniteSet(NewNames(r))
  BY CxAssumption, FS_Subset DEF NewNames
<1>2. IsFiniteSet(Callers)
  <2>1. Callers = {"owner"} \cup {"dispatch"}
    BY DEF Callers
  <2> QED BY <2>1, FS_Singleton, FS_Union
<1>3. IsFiniteSet(Asking(r))
  BY <1>2, FS_Subset DEF Asking
<1> QED BY <1>1, <1>3, FS_CardinalityType

\* And they are after a step.
LEMMA NamesFiniteNext ==
    ASSUME NEW r \in CxRuns
    PROVE  /\ IsFiniteSet(NewNames(r)') /\ Cardinality(NewNames(r)') \in Nat
           /\ IsFiniteSet(Asking(r)') /\ Cardinality(Asking(r)') \in Nat
<1>1. IsFiniteSet(NewNames(r)')
  BY CxAssumption, FS_Subset DEF NewNames
<1>2. IsFiniteSet(Callers)
  <2>1. Callers = {"owner"} \cup {"dispatch"}
    BY DEF Callers
  <2> QED BY <2>1, FS_Singleton, FS_Union
<1>3. IsFiniteSet(Asking(r)')
  BY <1>2, FS_Subset DEF Asking
<1> QED BY <1>1, <1>3, FS_CardinalityType

\* When nobody else asks and no name is used, there are names left.
LEMMA NamesStay ==
    ASSUME CallsFit, NamesKept, FewerAsk, NamesSame, TasksForked
    PROVE  NamesKept'
<1>1. ASSUME NEW r \in CxRuns PROVE (Cardinality(Asking(r)) <= Cardinality(NewNames(r)))'
  <2>1. NewNames(r)' = NewNames(r)
    BY DEF NewNames, NamesSame
  <2>2. Cardinality(Asking(r)') <= Cardinality(Asking(r))
    BY NamesFinite, FS_Subset DEF FewerAsk
  <2>3. Cardinality(Asking(r)) <= Cardinality(NewNames(r))
    BY DEF NamesKept, NamesLeft
  <2>4. /\ Cardinality(Asking(r)) \in Nat /\ Cardinality(NewNames(r)) \in Nat
        /\ Cardinality(Asking(r)') \in Nat
    BY NamesFinite, NamesFiniteNext
  <2> QED BY <2>1, <2>2, <2>3, <2>4
<1>2. Forked'
  <2>1. \A y \in Sides : sq'[y] # "none" => srv'.side[y] # "none"
    BY DEF NamesKept, Forked, NamesSame, TasksForked
  <2>2. ASSUME NEW r \in CxRuns, NEW c \in Callers, ccall'[r][c].pc = "side_turn"
        PROVE  srv'.side[<<r, ccall'[r][c].arg>>] # "none"
    <3>1. ccall'[r][c] = ccall[r][c]
      BY <2>2 DEF FewerAsk
    <3>2. srv.side[<<r, ccall[r][c].arg>>] # "none"
      BY <2>2, <3>1 DEF NamesKept, Forked
    <3>3. <<r, ccall[r][c].arg>> \in Sides
      BY <2>2, <3>1 DEF CallsFit, CallFits, Fits
    <3> QED BY <3>1, <3>2, <3>3 DEF NamesSame
  <2> QED BY <2>1, <2>2 DEF Forked
<1> QED BY <1>1, <1>2 DEF NamesKept, NamesLeft

\* The ways a call is written that asks for no fork.
LEMMA AskingStays ==
    ASSUME CxTyped, NEW r \in CxRuns, NEW c \in Callers, NEW p, NEW k, NEW a,
           WrittenTo(r, c, p, k, a), p # "side_turn",
           k # "query" \/ c \in Asking(r)
    PROVE  FewerAsk
<1>1. ASSUME NEW u \in CxRuns, NEW d \in Callers, d \in Asking(u)' PROVE d \in Asking(u)
  <2>1. CASE u = r /\ d = c
    <3>1. ccall'[u][d].kind = k
      BY <2>1 DEF WrittenTo
    <3> QED BY <1>1, <2>1, <3>1 DEF Asking
  <2>2. CASE ~(u = r /\ d = c)
    <3>1. ccall'[u][d] = ccall[u][d]
      BY <2>2 DEF WrittenTo
    <3> QED BY <1>1, <3>1 DEF Asking, CallAt
  <2> QED BY <2>1, <2>2
<1>2. \A u \in CxRuns : Asking(u)' \subseteq Asking(u)
  <2>1. \A u : Asking(u)' \subseteq Callers
    BY DEF Asking
  <2> QED BY <1>1, <2>1
<1>3. ASSUME NEW u \in CxRuns, NEW d \in Callers, ccall'[u][d].pc = "side_turn"
      PROVE  ccall'[u][d] = ccall[u][d]
  BY <1>3 DEF WrittenTo
<1> QED BY <1>2, <1>3 DEF FewerAsk

\* Calls that stay ask for no more.
LEMMA CallsSame == ASSUME ccall' = ccall PROVE FewerAsk
  BY DEF FewerAsk, Asking, CallAt

\* The steps that fork nothing and ask for nothing.
LEMMA ReturnsAsk ==
    ASSUME CxTyped, NEW r \in CxRuns, NEW c \in Callers, Returns(r, c) PROVE FewerAsk
<1>1. WrittenTo(r, c, "idle", "none", NoQuery)
  BY CallWays
<1> QED BY <1>1, AskingStays

\* A call that goes on elsewhere than to the side query's turn asks for no more.
LEMMA GoesAsk ==
    ASSUME CxTyped, NEW r \in CxRuns, NEW c \in Callers, ccall[r][c].pc # "side_turn",
           NEW p, p # "side_turn", Goes(r, c, p)
    PROVE  FewerAsk
<1>1. WrittenTo(r, c, p, ccall[r][c].kind, ccall[r][c].arg)
  BY CallWays
<1>2. ccall[r][c].kind # "query" \/ c \in Asking(r)
  BY DEF Asking, CallAt
<1> QED BY <1>1, <1>2, AskingStays

\* A call that waits for the side query to go asks for no more, unless it is a query.
LEMMA WaitsAsk ==
    ASSUME CxTyped, NEW r \in CxRuns, NEW c \in Callers, NEW k, k # "query", WaitsForSide(r, c, k)
    PROVE  FewerAsk /\ TasksForked
<1>1. WrittenTo(r, c, "side", k, cx[r].side)
  BY CallWays DEF WaitsForSide
<1>2. TasksForked
  <2>1. sq \in [Sides -> SqStates]
    BY DEF CxTyped
  <2> QED BY <2>1 DEF WaitsForSide, CancelSide, TasksForked
<1> QED BY <1>1, <1>2, AskingStays

\* The steps of the run and its calls leave a name for each.
LEMMA RunNames ==
    ASSUME CxTyped, CallsFit, NamesKept, NEW r \in CxRuns,
           StartRun(r) \/ OpenThread(r) \/ Cancel(r) \/ Close(r) \/ StopClient(r)
             \/ StartClient(r) \/ RestartFails(r)
    PROVE  NamesKept'
<1>1. "dispatch" \in Callers /\ "owner" \in Callers
  BY DEF Callers
<1>2. CASE StartRun(r)
  <2>1. WrittenTo(r, "dispatch", "thread", "start", NoQuery) /\ UNCHANGED sq
    BY <1>1, <1>2, CallWays DEF StartRun
  <2>2. FewerAsk
    BY <1>1, <2>1, AskingStays
  <2>3. NamesSame
    BY <1>2, RestartGoes DEF StartRun, GoesDown, NamesSame
  <2> QED BY <2>1, <2>2, <2>3, NamesStay DEF TasksForked
<1>3. CASE OpenThread(r)
  <2>1. UNCHANGED <<srv, sq>> /\ ccall[r]["dispatch"].pc # "side_turn"
    BY <1>3 DEF OpenThread, CallAt
  <2>2. Returns(r, "dispatch") \/ Goes(r, "dispatch", "turn")
    BY <1>3 DEF OpenThread, Aborts
  <2>3. FewerAsk
    BY <1>1, <2>1, <2>2, ReturnsAsk, GoesAsk
  <2> QED BY <2>1, <2>3, NamesStay DEF NamesSame, TasksForked
<1>4. CASE Cancel(r) \/ Close(r)
  <2>1. /\ UNCHANGED srv
        /\ WaitsForSide(r, "owner", "cancel") \/ WaitsForSide(r, "dispatch", "close")
    BY <1>4 DEF Cancel, Close
  <2> QED BY <1>1, <2>1, WaitsAsk, NamesStay DEF NamesSame
<1>5. CASE StartClient(r)
  <2>1. NamesSame
    BY <1>5, RestartGoes DEF StartClient, GoesDown
  <2>2. CASE Returns(r, "owner") /\ UNCHANGED sq
    <3>1. FewerAsk /\ TasksForked
      BY <1>1, <2>2, ReturnsAsk DEF TasksForked
    <3> QED BY <2>1, <3>1, NamesStay
  <2>3. CASE WaitsForSide(r, "owner", "end")
    <3>1. FewerAsk /\ TasksForked
      BY <1>1, <2>3, WaitsAsk
    <3> QED BY <2>1, <3>1, NamesStay
  <2> QED BY <1>5, <2>2, <2>3, Zenon DEF StartClient
<1>6. CASE StopClient(r)
  <2>1. NamesSame /\ sq' = sq
    BY <1>6, RestartGoes DEF StopClient, GoesDown
  <2>2. FewerAsk
    BY <1>1, <1>6, GoesAsk DEF StopClient, CallAt
  <2> QED BY <2>1, <2>2, NamesStay DEF TasksForked
<1>7. CASE RestartFails(r)
  <2>1. NamesSame /\ sq' = sq
    BY <1>7, RestartGoes DEF RestartFails, GoesDown
  <2>2. FewerAsk
    BY <1>1, <1>7, ReturnsAsk DEF RestartFails
  <2> QED BY <2>1, <2>2, NamesStay DEF TasksForked
<1> QED BY <1>2, <1>3, <1>4, <1>5, <1>6, <1>7

\* A call that is given up puts no task of a side query to work.
LEMMA GivenUpTasks ==
    ASSUME CxTyped, NEW r \in CxRuns, NEW c \in Callers, GivesUp(r, c)
    PROVE  /\ TasksForked
           /\ \A y \in Sides : sq'[y] \in {"wait", "answered", "dispose", "aborted"}
                 => sq[y] \in {"wait", "answered", "dispose", "aborted"}
<1> DEFINE y == <<r, ccall[r][c].arg>>
           v == CASE sq[y] = "dispose" -> "aborted"
                  [] sq[y] = "release" -> "done" [] OTHER -> sq[y]
<1>1. sq' = sq \/ sq' = [sq EXCEPT ![y] = v]
  BY Zenon DEF GivesUp
<1>2. v = sq[y] \/ (sq[y] = "dispose" /\ v = "aborted") \/ (sq[y] = "release" /\ v = "done")
  OBVIOUS
<1>3. sq \in [Sides -> SqStates]
  BY DEF CxTyped
<1> HIDE DEF y, v
<1> QED BY <1>1, <1>2, <1>3 DEF TasksForked

\* So do the calls, but for the queries.
LEMMA CallNames ==
    ASSUME CxTyped, CallsFit, NamesKept, NEW r \in CxRuns, NEW c \in Callers,
           SteerRun(r, c) \/ Respond(r, c) \/ StartTurn(r, c) \/ SideGone(r, c) \/ SteerTurn(r, c)
             \/ AnswerSent(r, c) \/ TellWhy(r, c) \/ Interrupt(r, c) \/ Interrupted(r, c)
             \/ Finish(r, c) \/ GivesUp(r, c)
    PROVE  NamesKept'
<1>1. CASE SteerRun(r, c)
  <2>1. srv' = srv /\ FewerAsk /\ TasksForked
    BY <1>1, WaitsAsk DEF SteerRun
  <2> QED BY <2>1, NamesStay DEF NamesSame
<1>2. CASE Respond(r, c)
  <2>1. UNCHANGED <<srv, sq>>
    BY <1>2 DEF Respond
  <2>2. PICK k : ccall' = [ccall EXCEPT ![r][c] = [pc |-> "answer", kind |-> "respond", arg |-> k]]
    BY <1>2 DEF Respond
  <2>3. WrittenTo(r, c, "answer", "respond", k)
    BY <2>2, CallWays
  <2>4. FewerAsk
    BY <2>3, AskingStays
  <2> QED BY <2>1, <2>4, NamesStay DEF NamesSame, TasksForked
<1>3. CASE StartTurn(r, c)
  <2>1. (srv' = srv \/ TurnBegins(r)) /\ UNCHANGED sq
    BY <1>3 DEF StartTurn
  <2>2. NamesSame
    BY <2>1, BeginsGoes DEF NamesSame
  <2>3. Returns(r, c)
    <3>1. Aborts(r) /\ ccall[r][c].kind = "start" => Returns(r, c)
      BY DEF Aborts, CallsFit, CallFits, Fits
    <3> QED BY <1>3, <3>1 DEF StartTurn
  <2>4. FewerAsk
    BY <2>3, ReturnsAsk
  <2> QED BY <2>1, <2>2, <2>4, NamesStay DEF TasksForked
<1>4. CASE SideGone(r, c)
  <2>1. /\ UNCHANGED <<srv, sq>> /\ ccall[r][c].pc = "side"
        /\ ccall[r][c].kind \in {"steer", "query", "cancel", "close", "end"}
    BY <1>4 DEF SideGone, CallAt, CallsFit, CallFits, Fits
  <2>2. AfterSide(ccall[r][c].kind) # "side_turn"
    BY <2>1 DEF AfterSide
  <2>3. \/ Goes(r, c, "turn") \/ Goes(r, c, AfterSide(ccall[r][c].kind))
        \/ Returns(r, c)
    BY <1>4, Zenon DEF SideGone, StartsAnew
  <2> DEFINE p == AfterSide(ccall[r][c].kind)
  <2> HIDE DEF p
  <2>4. FewerAsk
    BY <2>1, <2>2, <2>3, GoesAsk, ReturnsAsk DEF p
  <2> QED BY <2>1, <2>4, NamesStay DEF NamesSame, TasksForked
<1>5. CASE SteerTurn(r, c)
  <2>1. UNCHANGED <<srv, sq>> /\ ccall[r][c].pc = "steer" /\ (Returns(r, c) \/ Goes(r, c, "turn"))
    BY <1>5 DEF SteerTurn, CallAt, StartsAnew
  <2>2. FewerAsk
    BY <2>1, ReturnsAsk, GoesAsk
  <2> QED BY <2>1, <2>2, NamesStay DEF NamesSame, TasksForked
<1>6. CASE AnswerSent(r, c) \/ TellWhy(r, c)
  <2> DEFINE k == ccall[r][c].arg
             v == IF srv.ask[r][k] = "open" THEN "answered" ELSE srv.ask[r][k]
  <2>1. /\ UNCHANGED sq /\ ccall[r][c].pc \in {"answer", "tell"}
        /\ Returns(r, c) \/ Goes(r, c, "tell")
    BY <1>6 DEF AnswerSent, TellWhy, CallAt
  <2>2. srv' = srv \/ srv' = [srv EXCEPT !.ask[r][k] = v]
    BY <1>6, Zenon DEF AnswerSent, AskAnswered, TellWhy
  <2>3. NamesSame
    <3> HIDE DEF k, v
    <3> QED BY <2>2, AskGoes DEF NamesSame
  <2>4. FewerAsk
    BY <2>1, ReturnsAsk, GoesAsk
  <2> QED BY <2>1, <2>3, <2>4, NamesStay DEF TasksForked
<1>7. CASE Interrupt(r, c) \/ Interrupted(r, c)
  <2>1. /\ ccall[r][c].pc \in {"interrupt", "wait"}
        /\ srv' = srv \/ srv' = TurnOver(srv, r)
    BY <1>7 DEF Interrupt, Interrupted, CallAt
  <2>2. NamesSame
    BY <2>1, OverGoes DEF NamesSame
  <2>3. CASE WaitsForSide(r, c, "end")
    <3>1. FewerAsk /\ TasksForked
      BY <2>3, WaitsAsk
    <3> QED BY <2>2, <3>1, NamesStay
  <2>4. CASE UNCHANGED sq /\ (Returns(r, c) \/ \E p \in {"restart", "finish"} : Goes(r, c, p))
    <3>1. FewerAsk
      BY <2>1, <2>4, ReturnsAsk, GoesAsk
    <3> QED BY <2>2, <2>4, <3>1, NamesStay DEF TasksForked
  <2>5. CASE UNCHANGED sq /\ \E t : ccall' = [ccall EXCEPT ![r][c].pc = "wait", ![r][c].arg = t]
    <3>1. PICK t : ccall' = [ccall EXCEPT ![r][c].pc = "wait", ![r][c].arg = t]
      BY <2>5
    <3>2. WrittenTo(r, c, "wait", ccall[r][c].kind, t)
      BY <3>1, CallWays
    <3>3. ccall[r][c].kind # "query"
      BY <2>1 DEF CallsFit, CallFits, Fits
    <3>4. FewerAsk
      BY <3>2, <3>3, AskingStays
    <3> QED BY <2>2, <2>5, <3>4, NamesStay DEF TasksForked
  <2>6. Clean(r, c) => \/ WaitsForSide(r, c, "end")
                       \/ UNCHANGED sq /\ (Returns(r, c) \/ Goes(r, c, "finish"))
    BY DEF Clean, Ending
  <2>7. Unclean(r, c) => \E p \in {"restart", "finish"} : Goes(r, c, p)
    BY DEF Unclean
  <2>8. CASE Clean(r, c)
    BY <2>3, <2>4, <2>6, <2>8
  <2>9. CASE Unclean(r, c) /\ UNCHANGED sq
    BY <2>4, <2>7, <2>9
  <2>10. CASE UNCHANGED sq /\ Returns(r, c)
    BY <2>4, <2>10
  <2> QED BY <1>7, <2>5, <2>8, <2>9, <2>10, Zenon DEF Interrupt, Interrupted
<1>8. CASE Finish(r, c)
  <2>1. UNCHANGED <<srv, sq>> /\ FewerAsk
    BY <1>8, ReturnsAsk DEF Finish
  <2> QED BY <2>1, NamesStay DEF NamesSame, TasksForked
<1>9. CASE GivesUp(r, c)
  <2>1. srv' = srv /\ FewerAsk
    BY <1>9, ReturnsAsk DEF GivesUp
  <2>2. TasksForked
    BY <1>9, GivenUpTasks
  <2> QED BY <2>1, <2>2, NamesStay DEF NamesSame
<1> QED BY <1>1, <1>2, <1>3, <1>4, <1>5, <1>6, <1>7, <1>8, <1>9

\* A query is asked only when there is a name left for it.
LEMMA QueryNames ==
    ASSUME CxTyped, CallsFit, NamesKept, NEW r \in CxRuns, NEW c \in Callers, Query(r, c)
    PROVE  NamesKept'
<1>1. /\ srv' = srv /\ WaitsForSide(r, c, "query")
      /\ Cardinality(NewNames(r)) > Cardinality(Asking(r))
  BY DEF Query
<1>2. WrittenTo(r, c, "side", "query", cx[r].side)
  BY <1>1, CallWays DEF WaitsForSide
<1>3. \A u \in CxRuns : NewNames(u)' = NewNames(u)
  BY <1>1 DEF NewNames
<1>4. \A u \in CxRuns : u # r => Asking(u)' = Asking(u)
  BY <1>2 DEF WrittenTo, Asking, CallAt
<1>5. Asking(r)' \subseteq Asking(r) \cup {c}
  BY <1>2 DEF WrittenTo, Asking, CallAt
<1>6. Cardinality(Asking(r)') <= Cardinality(Asking(r)) + 1
  <2>1. IsFiniteSet(Asking(r)) /\ Cardinality(Asking(r)) \in Nat
    BY NamesFinite
  <2>2. /\ IsFiniteSet(Asking(r) \cup {c})
        /\ Cardinality(Asking(r) \cup {c}) <= Cardinality(Asking(r)) + 1
    <3>1. /\ IsFiniteSet(Asking(r) \cup {c})
          /\ Cardinality(Asking(r) \cup {c})
                = IF c \in Asking(r) THEN Cardinality(Asking(r)) ELSE Cardinality(Asking(r)) + 1
      BY <2>1, FS_AddElement, Zenon
    <3> QED BY <2>1, <3>1
  <2>3. Cardinality(Asking(r)') <= Cardinality(Asking(r) \cup {c})
    BY <1>5, <2>2, FS_Subset
  <2>4. Cardinality(Asking(r) \cup {c}) \in Nat /\ Cardinality(Asking(r)') \in Nat
    BY <2>2, FS_CardinalityType, NamesFiniteNext
  <2> QED BY <2>1, <2>2, <2>3, <2>4
<1>7. ASSUME NEW u \in CxRuns PROVE Cardinality(Asking(u)') <= Cardinality(NewNames(u)')
  <2>1. CASE u = r
    <3>1. /\ Cardinality(Asking(r)) \in Nat /\ Cardinality(NewNames(r)) \in Nat
          /\ Cardinality(Asking(r)') \in Nat
      BY NamesFinite, NamesFiniteNext
    <3> QED BY <1>1, <1>3, <1>6, <2>1, <3>1
  <2>2. CASE u # r
    BY <1>3, <1>4, <2>2 DEF NamesKept, NamesLeft
  <2> QED BY <2>1, <2>2
<1>8. Forked'
  <2>1. sq \in [Sides -> SqStates]
    BY DEF CxTyped
  <2>2. \A y \in Sides : sq'[y] # "none" => sq[y] # "none"
    BY <1>1, <2>1 DEF WaitsForSide, CancelSide
  <2>3. ASSUME NEW u \in CxRuns, NEW d \in Callers, ccall'[u][d].pc = "side_turn"
        PROVE  ccall'[u][d] = ccall[u][d]
    BY <1>2, <2>3 DEF WrittenTo
  <2> QED BY <1>1, <2>2, <2>3 DEF Forked, NamesKept
<1> QED BY <1>7, <1>8 DEF NamesKept, NamesLeft

\* A query that is forked takes its name with it.
LEMMA ForkNames ==
    ASSUME CxTyped, CallsFit, NamesKept, NEW r \in CxRuns, NEW c \in Callers, Fork(r, c)
    PROVE  NamesKept'
<1>1. UNCHANGED sq /\ ccall[r][c].pc = "fork" /\ ccall[r][c].kind = "query" /\ c \in Asking(r)
  BY DEF Fork, CallAt, CallsFit, CallFits, Fits, Asking
<1>2. PICK x \in NewNames(r) : x = CHOOSE new \in NewNames(r) : TRUE
  BY NameIsNew DEF Fork, NamesKept
<1> DEFINE y == <<r, x>>
<1>3. y \in Sides /\ srv.side[y] = "none"
  BY <1>2 DEF NewNames
<1>4. \/ srv' = [srv EXCEPT !.side[y] = "idle"]
      \/ srv' = srv /\ Returns(r, c)
  BY <1>2 DEF Fork
<1>5. \/ Returns(r, c)
      \/ ccall' = [ccall EXCEPT ![r][c].pc = "side_turn", ![r][c].arg = x]
         /\ srv' = [srv EXCEPT !.side[y] = "idle"]
  BY <1>2 DEF Fork
<1>6. CASE srv' = srv /\ Returns(r, c)
  <2>1. FewerAsk
    BY <1>6, ReturnsAsk
  <2> QED BY <1>1, <1>6, <2>1, NamesStay DEF NamesSame, TasksForked
<1>7. CASE srv' = [srv EXCEPT !.side[y] = "idle"]
  <2>1. srv'.side[y] = "idle" /\ \A z \in Sides : z # y => srv'.side[z] = srv.side[z]
    BY <1>3, <1>7, SideGoes
  <2>2. WrittenTo(r, c, "idle", "none", NoQuery) \/ WrittenTo(r, c, "side_turn", "query", x)
    <3>1. CASE Returns(r, c)
      <4>1. WrittenTo(r, c, "idle", "none", NoQuery)
        BY <3>1, CallWays
      <4> QED BY <4>1
    <3>2. CASE ccall' = [ccall EXCEPT ![r][c].pc = "side_turn", ![r][c].arg = x]
      <4>1. WrittenTo(r, c, "side_turn", "query", x)
        BY <1>1, <3>2, CallWays
      <4> QED BY <4>1
    <3> QED BY <1>5, <3>1, <3>2
  <2>3. Asking(r)' = Asking(r) \ {c} /\ \A u \in CxRuns : u # r => Asking(u)' = Asking(u)
    BY <1>1, <2>2 DEF WrittenTo, Asking, CallAt
  <2>4. NewNames(r)' = NewNames(r) \ {x}
    <3>1. ASSUME NEW v \in CxQueries PROVE v \in NewNames(r)' <=> v \in NewNames(r) /\ v # x
      BY <2>1 DEF NewNames
    <3>2. NewNames(r)' \subseteq CxQueries /\ NewNames(r) \subseteq CxQueries
      BY DEF NewNames
    <3> QED BY <3>1, <3>2
  <2>5. \A u \in CxRuns : u # r => NewNames(u)' = NewNames(u)
    BY <2>1 DEF NewNames
  <2>6. ASSUME NEW u \in CxRuns PROVE Cardinality(Asking(u)') <= Cardinality(NewNames(u)')
    <3>1. CASE u = r
      <4>1. /\ IsFiniteSet(Asking(r)) /\ Cardinality(Asking(r)) \in Nat
            /\ IsFiniteSet(NewNames(r)) /\ Cardinality(NewNames(r)) \in Nat
        BY NamesFinite
      <4>2. /\ Cardinality(Asking(r) \ {c}) = Cardinality(Asking(r)) - 1
            /\ Cardinality(NewNames(r) \ {x}) = Cardinality(NewNames(r)) - 1
        BY <1>1, <1>2, <4>1, FS_RemoveElement
      <4>3. Cardinality(Asking(r)) <= Cardinality(NewNames(r))
        BY DEF NamesKept, NamesLeft
      <4> QED BY <2>3, <2>4, <3>1, <4>1, <4>2, <4>3
    <3>2. CASE u # r
      BY <2>3, <2>5, <3>2 DEF NamesKept, NamesLeft
    <3> QED BY <3>1, <3>2
  <2>7. Forked'
    <3>1. \A z \in Sides : srv.side[z] # "none" => srv'.side[z] # "none"
      BY <2>1
    <3>2. ASSUME NEW u \in CxRuns, NEW d \in Callers, ccall'[u][d].pc = "side_turn"
          PROVE  srv'.side[<<u, ccall'[u][d].arg>>] # "none"
      <4>1. CASE u = r /\ d = c
        BY <2>1, <2>2, <3>2, <4>1 DEF WrittenTo
      <4>2. CASE ~(u = r /\ d = c)
        <5>1. ccall'[u][d] = ccall[u][d]
          BY <2>2, <4>2 DEF WrittenTo
        <5>2. <<u, ccall[u][d].arg>> \in Sides
          BY <3>2, <5>1 DEF CallsFit, CallFits, Fits
        <5> QED BY <3>1, <3>2, <5>1, <5>2 DEF NamesKept, Forked
      <4> QED BY <4>1, <4>2
    <3> QED BY <1>1, <3>1, <3>2 DEF Forked, NamesKept
  <2> QED BY <2>6, <2>7 DEF NamesKept, NamesLeft
<1> QED BY <1>4, <1>6, <1>7

\* What changes of a fork that is there leaves the names.
LEMMA SideNames ==
    ASSUME CxTyped, CallsFit, NamesKept, NEW y \in Sides, NEW v, v # "none",
           srv.side[y] # "none", srv' = [srv EXCEPT !.side[y] = v]
    PROVE  NamesSame
<1>1. srv'.side[y] = v /\ \A z \in Sides : z # y => srv'.side[z] = srv.side[z]
  BY SideGoes
<1> QED BY <1>1 DEF NamesSame

\* The side query's turn leaves the names.
LEMMA StartSideNames ==
    ASSUME CxTyped, CallsFit, NamesKept, NEW r \in CxRuns, NEW c \in Callers, StartSide(r, c)
    PROVE  NamesKept'
<1> DEFINE x == ccall[r][c].arg
           y == <<r, x>>
<1>1. ccall[r][c].pc = "side_turn" /\ Returns(r, c)
  BY DEF StartSide, CallAt
<1>2. y \in Sides /\ srv.side[y] # "none"
  BY <1>1 DEF CallsFit, CallFits, Fits, NamesKept, Forked
<1>3. /\ srv' = [srv EXCEPT !.side[y] = "running"] \/ srv' = [srv EXCEPT !.side[y] = "released"]
      /\ sq' = sq \/ sq' = [sq EXCEPT ![y] = "wait"]
  BY DEF StartSide
<1>4. NamesSame
  <2> HIDE DEF y
  <2> QED BY <1>2, <1>3, SideNames
<1>5. TasksForked
  <2>1. sq \in [Sides -> SqStates]
    BY DEF CxTyped
  <2> QED BY <1>2, <1>3, <2>1 DEF TasksForked
<1>6. FewerAsk
  BY <1>1, ReturnsAsk
<1> QED BY <1>4, <1>5, <1>6, NamesStay

\* So do the side queries' tasks and ends.
LEMMA SideTaskNames ==
    ASSUME CxTyped, CallsFit, NamesKept, NEW y \in Sides,
           SideTimesOut(y) \/ DisposeSide(y) \/ ReleaseSide(y) \/ ServerEndsSide(y)
    PROVE  NamesKept'
<1>1. ccall' = ccall
  BY DEF SideTimesOut, DisposeSide, ReleaseSide, ServerEndsSide
<1>2. TasksForked
  <2>1. sq \in [Sides -> SqStates]
    BY DEF CxTyped
  <2> QED BY <2>1 DEF TasksForked, SideTimesOut, DisposeSide, ReleaseSide, ServerEndsSide
<1>3. NamesSame
  <2>1. CASE srv' = srv
    BY <2>1 DEF NamesSame
  <2>2. ASSUME NEW v \in {"ended", "released"}, srv' = [srv EXCEPT !.side[y] = v],
               srv.side[y] # "none"
        PROVE  NamesSame
    BY <2>2, SideNames
  <2>3. CASE ReleaseSide(y)
    BY <2>2, <2>3 DEF ReleaseSide, NamesKept, Forked
  <2>4. CASE DisposeSide(y)
    BY <2>1, <2>2, <2>4 DEF DisposeSide
  <2>5. CASE ServerEndsSide(y)
    BY <2>2, <2>5 DEF ServerEndsSide
  <2>6. CASE SideTimesOut(y)
    BY <2>1, <2>6 DEF SideTimesOut
  <2> QED BY <2>3, <2>4, <2>5, <2>6
<1> QED BY <1>1, <1>2, <1>3, CallsSame, NamesStay

\* What the client reads, and what the server does of a run.
LEMMA ServerNames ==
    ASSUME CxTyped, CallsFit, NamesKept,
           \/ \E r \in CxRuns : ServerAsks(r) \/ ServerResolves(r) \/ ServerEnds(r)
           \/ ServerDies
    PROVE  NamesKept'
<1>1. UNCHANGED <<ccall, sq>>
  BY DEF ServerAsks, ServerResolves, ServerEnds, ServerDies
<1>2. NamesSame
  <2>1. ASSUME NEW r \in CxRuns, ServerAsks(r) \/ ServerResolves(r) \/ ServerEnds(r)
        PROVE  NamesSame
    <3>1. \/ \E k, v : srv' = [srv EXCEPT !.ask[r][k] = v]
          \/ srv' = TurnOver(srv, r)
      BY <2>1 DEF ServerAsks, ServerResolves, ServerEnds
    <3> QED BY <3>1, AskGoes, OverGoes
  <2>2. CASE ServerDies
    BY <2>2, RestartGoes DEF ServerDies, GoesDown
  <2> QED BY <2>1, <2>2
<1> QED BY <1>1, <1>2, CallsSame, NamesStay DEF TasksForked

\* So does what the client reads.
LEMMA WatchNames ==
    ASSUME CxTyped, CallsFit, NamesKept, Watch
    PROVE  NamesKept'
<1>1. ccall' = ccall /\ mail # <<>>
  BY DEF Watch
<1> DEFINE m == Head(mail)
           y == <<m.run, m.arg>>
<1>2. m \in CxMessages
  BY <1>1, HeadOfMail
<1>3. m.run \in CxRuns
  BY <1>2, MessageIs
<1>4. NamesSame
  <2>1. srv' = srv \/ \E k, v : srv' = [srv EXCEPT !.ask[m.run][k] = v]
    <3>1. CASE srv' = srv
      BY <3>1
    <3>2. CASE srv' # srv
      <4>1. m.what = "ask" /\ SeeAsk(m)
        BY <3>2, Zenon DEF Watch, SeeEnd, SeeSide
      <4>2. Refused(m.run, m.arg[1])
        BY <3>2, <4>1 DEF SeeAsk
      <4> QED BY <4>2, Zenon DEF Refused
    <3> QED BY <3>1, <3>2
  <2> HIDE DEF m
  <2> QED BY <1>3, <2>1, AskGoes DEF NamesSame
<1>5. TasksForked
  <2>1. sq' = sq \/ \E v : sq' = [sq EXCEPT ![y] = v] /\ sq[y] # "none"
    <3>1. CASE sq' = sq
      BY <3>1
    <3>2. CASE sq' # sq
      <4>1. SeeSide(m)
        BY <3>2, Zenon DEF Watch
      <4>2. sq[y] \in {"wait", "dispose", "aborted"}
        BY <3>2, <4>1 DEF SeeSide
      <4>3. \E v : sq' = [sq EXCEPT ![y] = v]
        BY <3>2, <4>1, Zenon DEF SeeSide
      <4> QED BY <4>2, <4>3
    <3> QED BY <3>1, <3>2
  <2>2. sq \in [Sides -> SqStates]
    BY DEF CxTyped
  <2> QED BY <2>1, <2>2 DEF TasksForked
<1> QED BY <1>1, <1>4, <1>5, CallsSame, NamesStay

\* Every step leaves a name for each query that is to be forked.
LEMMA NextKeepsNames == ASSUME CxTyped, CallsFit, NamesKept, CxNext PROVE NamesKept'
<1>1. ASSUME NEW r \in CxRuns, NEW c \in Callers,
             SteerRun(r, c) \/ Query(r, c) \/ Respond(r, c) \/ CallStep(r, c) \/ GivesUp(r, c)
      PROVE  NamesKept'
  BY <1>1, CallNames, QueryNames, ForkNames, StartSideNames DEF CallStep
<1> QED BY <1>1, RunNames, SideTaskNames, ServerNames, WatchNames, Zenon DEF CxNext

-----------------------------------------------------------------------------
(* The questions.                                                            *)

\* The client read no end of a turn of r after message j.
NoEnd(r, j) == \A i \in DOMAIN mail : i > j => ~(mail[i].run = r /\ mail[i].what \in Ends)
\* Question k of r is held, or is at j on its way, and its turn goes on.
IsAsk(m, r, k) == m.run = r /\ m.what = "ask" /\ m.arg[1] = k
HeldBy(r, k) ==
    \/ k \in cx[r].pend /\ NoEnd(r, 0)
    \/ \E j \in DOMAIN mail : IsAsk(mail[j], r, k) /\ NoEnd(r, j)
Held ==
    \A r \in CxRuns, k \in CxAsks :
       srv.ask[r][k] = "open" /\ ~cx[r].closed /\ ~cx[r].overlap => HeldBy(r, k)

\* A question that is said to be resolved is.
ResolvedFits ==
    \A i \in DOMAIN mail :
       mail[i].what = "resolved" => srv.ask[mail[i].run][mail[i].arg] \notin {"none", "open"}

\* A side query that may still be answered is the one the run knows of.
Live == {"wait", "answered", "dispose", "aborted"}
SideKnown ==
    \A r \in CxRuns, x \in CxQueries :
       <<r, x>> \in Sides /\ sq[<<r, x>>] \in Live /\ ~cx[r].overlap => cx[r].side = x

\* What a step may do to the questions and the turns.
AsksMove(u) ==
    \A k \in CxAsks :
       \/ srv'.ask[u][k] = srv.ask[u][k]
       \/ srv.ask[u][k] = "open" /\ srv'.ask[u][k] \notin {"none", "open"}
       \/ srv.ask[u][k] = "none" /\ srv'.ask[u][k] = "open"
OpensNone(u) == \A k \in CxAsks : srv'.ask[u][k] = "open" => srv.ask[u][k] = "open"
TurnsMove(u) ==
    \/ srv'.n[u] = srv.n[u] /\ (srv'.busy[u] => srv.busy[u])
    \/ srv'.n[u] = srv.n[u] + 1
\* What is open stays held.
HoldsOn(u) ==
    /\ cx[u].closed => cx'[u].closed
    /\ cx[u].overlap => cx'[u].overlap
    /\ \A k \in cx[u].pend : srv'.ask[u][k] = "open" => k \in cx'[u].pend \/ cx'[u].closed

\* A message that may be sent.
MayBeSaid(m) ==
    /\ m.what \in Ends => \A k \in CxAsks : srv'.ask[m.run][k] # "open"
    /\ m.what = "resolved" => srv'.ask[m.run][m.arg] \notin {"none", "open"}

\* A turn that goes on has a number.
LEMMA TurnsGo ==
    ASSUME CxTyped, TurnsCount, \A u \in CxRuns : TurnsMove(u)
    PROVE  TurnsCount'
<1> SUFFICES ASSUME NEW u \in CxRuns, srv'.busy[u] PROVE srv'.n[u] # 0
  BY DEF TurnsCount
<1>1. srv.n[u] \in Nat
  BY RunHas
<1> QED BY <1>1 DEF TurnsMove, TurnsCount

\* A step that says nothing keeps what is held, and so does a message that may be sent.
LEMMA SilentHolds ==
    ASSUME CxTyped, Held, ResolvedFits, mail' = mail,
           \A u \in CxRuns : AsksMove(u) /\ OpensNone(u) /\ HoldsOn(u)
    PROVE  Held' /\ ResolvedFits'
<1>1. ASSUME NEW r \in CxRuns, NEW k \in CxAsks,
             srv'.ask[r][k] = "open", ~cx'[r].closed, ~cx'[r].overlap
      PROVE  HeldBy(r, k)'
  <2>1. HeldBy(r, k)
    BY <1>1 DEF Held, OpensNone, HoldsOn
  <2>2. k \in cx[r].pend => k \in cx'[r].pend
    BY <1>1 DEF HoldsOn
  <2> QED BY <2>1, <2>2 DEF HeldBy, NoEnd
<1>2. ResolvedFits'
  <2> SUFFICES ASSUME NEW i \in DOMAIN mail, mail[i].what = "resolved"
               PROVE  srv'.ask[mail[i].run][mail[i].arg] \notin {"none", "open"}
    BY DEF ResolvedFits
  <2>1. mail[i] \in CxMessages
    BY DEF CxTyped
  <2>2. mail[i].run \in CxRuns /\ mail[i].arg \in CxAsks
    BY <2>1, MessageIs
  <2>3. srv.ask[mail[i].run][mail[i].arg] \notin {"none", "open"}
    BY DEF ResolvedFits
  <2> QED BY <2>2, <2>3 DEF AsksMove
<1> QED BY <1>1, <1>2 DEF Held

\* The mail with a message more.
LEMMA MailGrown ==
    ASSUME CxTyped, NEW m \in CxMessages, mail' = Append(mail, m)
    PROVE  /\ DOMAIN mail = 1..Len(mail) /\ DOMAIN mail' = 1..(Len(mail) + 1) /\ Len(mail) \in Nat
           /\ mail'[Len(mail) + 1] = m /\ \A i \in DOMAIN mail : mail'[i] = mail[i]
           /\ \A i \in DOMAIN mail : mail[i] \in CxMessages
  BY DEF CxTyped

\* A step that says what may be said keeps what is held.
LEMMA SaidHolds ==
    ASSUME CxTyped, Held, ResolvedFits, NEW m \in CxMessages, mail' = Append(mail, m), MayBeSaid(m),
           \A u \in CxRuns : AsksMove(u) /\ HoldsOn(u),
           \A u \in CxRuns, k \in CxAsks :
              srv'.ask[u][k] = "open" => srv.ask[u][k] = "open" \/ IsAsk(m, u, k)
    PROVE  Held' /\ ResolvedFits'
<1> DEFINE n == Len(mail)
<1>0. /\ DOMAIN mail = 1..n /\ DOMAIN mail' = 1..(n + 1) /\ n \in Nat
      /\ mail'[n + 1] = m /\ \A i \in DOMAIN mail : mail'[i] = mail[i]
      /\ \A i \in DOMAIN mail : mail[i] \in CxMessages
  BY MailGrown
<1>1. ASSUME NEW r \in CxRuns, NEW k \in CxAsks,
             srv'.ask[r][k] = "open", ~cx'[r].closed, ~cx'[r].overlap
      PROVE  HeldBy(r, k)'
  <2>1. ~(m.run = r /\ m.what \in Ends)
    BY <1>1 DEF MayBeSaid
  <2>2. CASE srv.ask[r][k] = "open"
    <3>1. HeldBy(r, k) /\ (k \in cx[r].pend => k \in cx'[r].pend)
      BY <1>1, <2>2 DEF Held, HoldsOn
    <3>2. ASSUME NEW j, NoEnd(r, j) PROVE NoEnd(r, j)'
      <4> SUFFICES ASSUME NEW i \in DOMAIN mail', i > j
                   PROVE  ~(mail'[i].run = r /\ mail'[i].what \in Ends)
        BY DEF NoEnd
      <4>1. CASE i \in DOMAIN mail
        BY <1>0, <3>2, <4>1 DEF NoEnd
      <4>2. CASE i = n + 1
        BY <1>0, <2>1, <4>2
      <4> QED BY <1>0, <4>1, <4>2
    <3>3. CASE k \in cx[r].pend /\ NoEnd(r, 0)
      BY <3>1, <3>2, <3>3 DEF HeldBy
    <3>4. ASSUME NEW j \in DOMAIN mail, IsAsk(mail[j], r, k), NoEnd(r, j) PROVE HeldBy(r, k)'
      <4>1. j \in DOMAIN mail' /\ IsAsk(mail'[j], r, k) /\ NoEnd(r, j)'
        BY <1>0, <3>2, <3>4
      <4> QED BY <4>1 DEF HeldBy, IsAsk
    <3> QED BY <3>1, <3>3, <3>4 DEF HeldBy
  <2>3. CASE srv.ask[r][k] # "open"
    <3>1. IsAsk(m, r, k)
      BY <1>1, <2>3
    <3>3. PICK j \in DOMAIN mail' : j = n + 1 /\ IsAsk(mail'[j], r, k)
      BY <1>0, <3>1
    <3>4. NoEnd(r, j)'
      BY <1>0, <3>3 DEF NoEnd
    <3> QED BY <3>3, <3>4 DEF HeldBy, IsAsk
  <2> QED BY <2>2, <2>3
<1>2. ResolvedFits'
  <2> SUFFICES ASSUME NEW i \in DOMAIN mail', mail'[i].what = "resolved"
               PROVE  srv'.ask[mail'[i].run][mail'[i].arg] \notin {"none", "open"}
    BY DEF ResolvedFits
  <2>1. CASE i \in DOMAIN mail
    <3>1. mail'[i] = mail[i] /\ mail[i] \in CxMessages
      BY <1>0, <2>1
    <3>2. mail[i].run \in CxRuns /\ mail[i].arg \in CxAsks
      BY <3>1, MessageIs
    <3>3. srv.ask[mail[i].run][mail[i].arg] \notin {"none", "open"}
      BY <2>1, <3>1 DEF ResolvedFits
    <3> QED BY <3>1, <3>2, <3>3 DEF AsksMove
  <2>2. CASE i = n + 1
    BY <1>0, <2>2 DEF MayBeSaid
  <2> QED BY <1>0, <2>1, <2>2
<1> QED BY <1>1, <1>2 DEF Held

\* A step that lets the tasks and the run's side query be.
LEMMA SidesStay ==
    ASSUME SideKnown,
           \A u \in CxRuns : cx'[u].side = cx[u].side /\ (cx[u].overlap => cx'[u].overlap),
           \A y \in Sides : sq'[y] \in Live => sq[y] \in Live
    PROVE  SideKnown'
  BY DEF SideKnown

AsksKept == TurnsCount /\ Held /\ ResolvedFits /\ SideKnown

\* What holds of what a run holds.
RunKeeps(u) ==
    /\ cx[u].closed => cx'[u].closed
    /\ cx[u].overlap => cx'[u].overlap
    /\ cx'[u].pend = cx[u].pend \/ cx'[u].closed
    /\ cx'[u].side = cx[u].side

\* The ways a step writes a run that it keeps.
LEMMA RunForms ==
    ASSUME CxTyped, NEW r \in CxRuns, NEW v, NEW w, NEW z, NEW l,
           \/ cx' = cx
           \/ cx' = [cx EXCEPT ![r].started = v]
           \/ cx' = [cx EXCEPT ![r].queued = v]
           \/ cx' = [cx EXCEPT ![r].expected = v]
           \/ cx' = [cx EXCEPT ![r].late = v]
           \/ cx' = [cx EXCEPT ![r].stream = v]
           \/ cx' = [cx EXCEPT ![r].closed = TRUE]
           \/ cx' = [cx EXCEPT ![r].closed = TRUE, ![r].pend = w, ![r].stream = z]
           \/ cx' = [cx EXCEPT ![r].active = v, ![r].reg = w, ![r].late = l, ![r].stream = z]
           \/ cx' = [cx EXCEPT ![r].pend = v] /\ cx[r].closed
    PROVE  \A u \in CxRuns : RunKeeps(u)
<1> DEFINE x == cx[r]
<1>0. x \in CxRunStates
  BY RunHas
<1>1. ASSUME NEW y, cx' = [cx EXCEPT ![r] = y], x.closed => y.closed, y.overlap = x.overlap,
             y.pend = x.pend \/ y.closed, y.side = x.side
      PROVE  \A u \in CxRuns : RunKeeps(u)
  <2>1. cx'[r] = y /\ \A u \in CxRuns : u # r => cx'[u] = cx[u]
    BY <1>1, CxWritten
  <2> QED BY <1>1, <2>1 DEF RunKeeps
<1>2. CASE cx' = cx
  BY <1>2 DEF RunKeeps
<1>3. CASE cx' = [cx EXCEPT ![r].started = v]
  <2> DEFINE y == [x EXCEPT !.started = v]
  <2>1. cx' = [cx EXCEPT ![r] = y]
    BY <1>3, Zenon
  <2>2. /\ x.closed => y.closed
        /\ y.overlap = x.overlap /\ y.side = x.side /\ (y.pend = x.pend \/ y.closed)
    BY <1>0 DEF CxRunStates
  <2> HIDE DEF x, y
  <2> QED BY <1>1, <2>1, <2>2
<1>4. CASE cx' = [cx EXCEPT ![r].queued = v]
  <2> DEFINE y == [x EXCEPT !.queued = v]
  <2>1. cx' = [cx EXCEPT ![r] = y]
    BY <1>4, Zenon
  <2>2. /\ x.closed => y.closed
        /\ y.overlap = x.overlap /\ y.side = x.side /\ (y.pend = x.pend \/ y.closed)
    BY <1>0 DEF CxRunStates
  <2> HIDE DEF x, y
  <2> QED BY <1>1, <2>1, <2>2
<1>5. CASE cx' = [cx EXCEPT ![r].expected = v]
  <2> DEFINE y == [x EXCEPT !.expected = v]
  <2>1. cx' = [cx EXCEPT ![r] = y]
    BY <1>5, Zenon
  <2>2. /\ x.closed => y.closed
        /\ y.overlap = x.overlap /\ y.side = x.side /\ (y.pend = x.pend \/ y.closed)
    BY <1>0 DEF CxRunStates
  <2> HIDE DEF x, y
  <2> QED BY <1>1, <2>1, <2>2
<1>6. CASE cx' = [cx EXCEPT ![r].late = v]
  <2> DEFINE y == [x EXCEPT !.late = v]
  <2>1. cx' = [cx EXCEPT ![r] = y]
    BY <1>6, Zenon
  <2>2. /\ x.closed => y.closed
        /\ y.overlap = x.overlap /\ y.side = x.side /\ (y.pend = x.pend \/ y.closed)
    BY <1>0 DEF CxRunStates
  <2> HIDE DEF x, y
  <2> QED BY <1>1, <2>1, <2>2
<1>7. CASE cx' = [cx EXCEPT ![r].stream = v]
  <2> DEFINE y == [x EXCEPT !.stream = v]
  <2>1. cx' = [cx EXCEPT ![r] = y]
    BY <1>7, Zenon
  <2>2. /\ x.closed => y.closed
        /\ y.overlap = x.overlap /\ y.side = x.side /\ (y.pend = x.pend \/ y.closed)
    BY <1>0 DEF CxRunStates
  <2> HIDE DEF x, y
  <2> QED BY <1>1, <2>1, <2>2
<1>8. CASE cx' = [cx EXCEPT ![r].closed = TRUE]
  <2> DEFINE y == [x EXCEPT !.closed = TRUE]
  <2>1. cx' = [cx EXCEPT ![r] = y]
    BY <1>8, Zenon
  <2>2. /\ x.closed => y.closed
        /\ y.overlap = x.overlap /\ y.side = x.side /\ (y.pend = x.pend \/ y.closed)
    BY <1>0 DEF CxRunStates
  <2> HIDE DEF x, y
  <2> QED BY <1>1, <2>1, <2>2
<1>9. CASE cx' = [cx EXCEPT ![r].closed = TRUE, ![r].pend = w, ![r].stream = z]
  <2> DEFINE y == [x EXCEPT !.closed = TRUE, !.pend = w, !.stream = z]
  <2>1. cx' = [cx EXCEPT ![r] = y]
    BY <1>9, Zenon
  <2>2. /\ x.closed => y.closed
        /\ y.overlap = x.overlap /\ y.side = x.side /\ (y.pend = x.pend \/ y.closed)
    BY <1>0 DEF CxRunStates
  <2> HIDE DEF x, y
  <2> QED BY <1>1, <2>1, <2>2
<1>10. CASE cx' = [cx EXCEPT ![r].active = v, ![r].reg = w, ![r].late = l, ![r].stream = z]
  <2> DEFINE y == [x EXCEPT !.active = v, !.reg = w, !.late = l, !.stream = z]
  <2>1. cx' = [cx EXCEPT ![r] = y]
    BY <1>10, Zenon
  <2>2. /\ x.closed => y.closed
        /\ y.overlap = x.overlap /\ y.side = x.side /\ (y.pend = x.pend \/ y.closed)
    BY <1>0 DEF CxRunStates
  <2> HIDE DEF x, y
  <2> QED BY <1>1, <2>1, <2>2
<1>11. CASE cx' = [cx EXCEPT ![r].pend = v] /\ cx[r].closed
  <2> DEFINE y == [x EXCEPT !.pend = v]
  <2>1. cx' = [cx EXCEPT ![r] = y]
    BY <1>11, Zenon
  <2>2. /\ x.closed => y.closed
        /\ y.overlap = x.overlap /\ y.side = x.side /\ (y.pend = x.pend \/ y.closed)
    BY <1>0, <1>11 DEF CxRunStates
  <2> HIDE DEF x, y
  <2> QED BY <1>1, <2>1, <2>2
<1> QED BY <1>2, <1>3, <1>4, <1>5, <1>6, <1>7, <1>8, <1>9, <1>10, <1>11

\* What holds of a run holds on.
LEMMA KeptHolds == ASSUME NEW u \in CxRuns, RunKeeps(u) PROVE HoldsOn(u)
  BY DEF RunKeeps, HoldsOn

\* A step that says nothing and opens nothing.
LEMMA QuietStep ==
    ASSUME CxTyped, AsksKept, mail' = mail,
           \A u \in CxRuns : RunKeeps(u) /\ AsksMove(u) /\ OpensNone(u) /\ TurnsMove(u),
           \A y \in Sides : sq'[y] \in Live => sq[y] \in Live
    PROVE  AsksKept'
<1>1. Held' /\ ResolvedFits'
  BY KeptHolds, SilentHolds DEF AsksKept
<1>2. TurnsCount'
  BY TurnsGo DEF AsksKept
<1>3. SideKnown'
  BY SidesStay DEF AsksKept, RunKeeps
<1> QED BY <1>1, <1>2, <1>3 DEF AsksKept

\* A step that says what may be said.
LEMMA SaidStep ==
    ASSUME CxTyped, AsksKept, NEW m \in CxMessages, mail' = Append(mail, m), MayBeSaid(m),
           \A u \in CxRuns : RunKeeps(u) /\ AsksMove(u) /\ TurnsMove(u),
           \A u \in CxRuns, k \in CxAsks :
              srv'.ask[u][k] = "open" => srv.ask[u][k] = "open" \/ IsAsk(m, u, k),
           \A y \in Sides : sq'[y] \in Live => sq[y] \in Live
    PROVE  AsksKept'
<1>1. Held' /\ ResolvedFits'
  BY KeptHolds, SaidHolds DEF AsksKept
<1>2. TurnsCount'
  BY TurnsGo DEF AsksKept
<1>3. SideKnown'
  BY SidesStay DEF AsksKept, RunKeeps
<1> QED BY <1>1, <1>2, <1>3 DEF AsksKept

\* What the steps do to the questions and the turns.
ServerQuiet == \A u \in CxRuns : AsksMove(u) /\ OpensNone(u) /\ TurnsMove(u)

\* Turns that begin or are over, and restarts, open no question.
LEMMA ServerStays ==
    ASSUME CxTyped,
           \/ srv' = srv \/ AllSame \/ ServerDies
           \/ \E r \in CxRuns : TurnBegins(r) \/ srv' = TurnOver(srv, r)
           \/ GoesDown
    PROVE  ServerQuiet
<1>1. CASE srv' = srv \/ AllSame
  BY <1>1 DEF ServerQuiet, AsksMove, OpensNone, TurnsMove, AllSame, TurnsSame, AsksSame
<1>2. ASSUME NEW u \in CxRuns, IsOver(u) PROVE AsksMove(u) /\ OpensNone(u) /\ TurnsMove(u)
  BY <1>2 DEF IsOver, AsksMove, OpensNone, TurnsMove
<1>3. ASSUME NEW u \in CxRuns, TurnsSame(u), AsksSame(u)
      PROVE  AsksMove(u) /\ OpensNone(u) /\ TurnsMove(u)
  BY <1>3 DEF TurnsSame, AsksSame, AsksMove, OpensNone, TurnsMove
<1>4. CASE GoesDown \/ ServerDies
  BY <1>2, <1>4, RestartGoes DEF ServerQuiet, ServerDies, GoesDown
<1>5. ASSUME NEW r \in CxRuns, srv' = TurnOver(srv, r) PROVE ServerQuiet
  BY <1>2, <1>3, <1>5, OverGoes DEF ServerQuiet
<1>6. ASSUME NEW r \in CxRuns, TurnBegins(r) PROVE ServerQuiet
  <2>1. AsksSame(r) /\ srv'.n[r] = srv.n[r] + 1
    BY <1>6, BeginsGoes
  <2>2. AsksMove(r) /\ OpensNone(r) /\ TurnsMove(r)
    BY <2>1 DEF AsksMove, OpensNone, AsksSame, TurnsMove
  <2> QED BY <1>3, <1>6, <2>2, BeginsGoes DEF ServerQuiet
<1> QED BY <1>1, <1>4, <1>5, <1>6

\* No step but the side query's start puts its task to work.
LEMMA TasksStay ==
    ASSUME CxTyped,
           sq' = sq \/ \E r \in CxRuns, c \in Callers, k \in CallKinds : WaitsForSide(r, c, k)
    PROVE  \A y \in Sides : sq'[y] \in Live => sq[y] \in Live
<1>1. sq \in [Sides -> SqStates]
  BY DEF CxTyped
<1> QED BY <1>1 DEF WaitsForSide, CancelSide, Live

-----------------------------------------------------------------------------
(* The questions, step by step.                                              *)

RunsKeep == \A u \in CxRuns : RunKeeps(u)
SqKeeps  == \A y \in Sides : sq'[y] \in Live => sq[y] \in Live

\* What a step leaves alone.
LEMMA LeftAlone ==
    ASSUME CxTyped
    PROVE  (cx' = cx => RunsKeep) /\ (srv' = srv => ServerQuiet) /\ (sq' = sq => SqKeeps)
<1>1. srv' = srv => ServerQuiet
  BY DEF ServerQuiet, AsksMove, OpensNone, TurnsMove
<1> QED BY <1>1 DEF RunsKeep, RunKeeps, SqKeeps

\* A step in which the three keep, and nothing is said, keeps the questions.
LEMMA QuietKeeps ==
    ASSUME CxTyped, AsksKept, mail' = mail, RunsKeep, ServerQuiet, SqKeeps
    PROVE  AsksKept'
  BY QuietStep DEF RunsKeep, ServerQuiet, SqKeeps

\* A call that waits for a side query puts none to work.
LEMMA WaitKeeps ==
    ASSUME CxTyped, NEW r \in CxRuns, NEW c \in Callers, NEW k \in CallKinds, WaitsForSide(r, c, k)
    PROVE  SqKeeps
  BY TasksStay DEF SqKeeps

\* The forms in which a step writes a run.
LEMMA OneField ==
    ASSUME CxTyped, NEW r \in CxRuns, NEW v,
           \/ cx' = [cx EXCEPT ![r].started = v] \/ cx' = [cx EXCEPT ![r].queued = v]
           \/ cx' = [cx EXCEPT ![r].expected = v] \/ cx' = [cx EXCEPT ![r].late = v]
           \/ cx' = [cx EXCEPT ![r].stream = v] \/ cx' = [cx EXCEPT ![r].closed = TRUE]
           \/ cx' = [cx EXCEPT ![r].pend = v] /\ cx[r].closed
    PROVE  RunsKeep
<1>1. \A u \in CxRuns : RunKeeps(u)
  BY RunForms
<1> QED BY <1>1 DEF RunsKeep

\* A command that is sent keeps the runs.
LEMMA SendsKeep ==
    ASSUME CxTyped, NEW r \in CxRuns, NEW c \in Callers, Sends(r, c) PROVE RunsKeep
<1>1. CASE cx' = cx
  BY <1>1, LeftAlone
<1>2. CASE cx' = [cx EXCEPT ![r].queued = FALSE]
  BY <1>2, OneField
<1> QED BY <1>1, <1>2 DEF Sends

\* A start that failed keeps them: its run is closed.
LEMMA AbortsKeepRuns == ASSUME CxTyped, NEW r \in CxRuns, Aborts(r) PROVE RunsKeep
<1>1. PICK w, z : cx' = [cx EXCEPT ![r].closed = TRUE, ![r].pend = w, ![r].stream = z]
  BY Zenon DEF Aborts
<1>2. \A u \in CxRuns : RunKeeps(u)
  BY <1>1, RunForms
<1> QED BY <1>2 DEF RunsKeep

\* The steps of the gateway's calls.
LEMMA StartRunAsks == ASSUME CxTyped, AsksKept, NEW r \in CxRuns, StartRun(r) PROVE AsksKept'
<1>1. RunsKeep
  BY OneField DEF StartRun
<1>2. ServerQuiet
  BY ServerStays DEF StartRun, GoesDown
<1> QED BY <1>1, <1>2, LeftAlone, QuietKeeps DEF StartRun

\* Opening the thread keeps the questions.
LEMMA OpenThreadAsks == ASSUME CxTyped, AsksKept, NEW r \in CxRuns, OpenThread(r) PROVE AsksKept'
<1>1. RunsKeep
  BY LeftAlone, AbortsKeepRuns DEF OpenThread
<1> QED BY <1>1, LeftAlone, QuietKeeps DEF OpenThread

\* So do the calls of the owner and of the dispatch, as they begin.
LEMMA OwnerAsks ==
    ASSUME CxTyped, AsksKept, NEW r \in CxRuns,
           \/ \E c \in Callers : SteerRun(r, c) \/ Query(r, c) \/ Respond(r, c)
           \/ Cancel(r) \/ Close(r)
    PROVE  AsksKept'
<1>1. /\ "owner" \in Callers /\ "dispatch" \in Callers
      /\ {"steer", "query", "cancel", "close"} \subseteq CallKinds
  BY DEF Callers, CallKinds
<1>2. ASSUME NEW c \in Callers, SteerRun(r, c) PROVE AsksKept'
  BY <1>1, <1>2, SendsKeep, WaitKeeps, LeftAlone, QuietKeeps DEF SteerRun
<1>3. ASSUME NEW c \in Callers, Query(r, c) PROVE AsksKept'
  BY <1>1, <1>3, SendsKeep, WaitKeeps, LeftAlone, QuietKeeps DEF Query
<1>4. ASSUME NEW c \in Callers, Respond(r, c) PROVE AsksKept'
  BY <1>4, SendsKeep, LeftAlone, QuietKeeps DEF Respond
<1>5. CASE Cancel(r)
  BY <1>1, <1>5, WaitKeeps, LeftAlone, QuietKeeps DEF Cancel
<1>6. CASE Close(r)
  <2>1. RunsKeep
    BY <1>6, OneField DEF Close
  <2> QED BY <1>1, <1>6, <2>1, WaitKeeps, LeftAlone, QuietKeeps DEF Close
<1> QED BY <1>2, <1>3, <1>4, <1>5, <1>6

\* So does starting a turn.
LEMMA StartTurnAsks ==
    ASSUME CxTyped, AsksKept, NEW r \in CxRuns, NEW c \in Callers, StartTurn(r, c) PROVE AsksKept'
<1>1. RunsKeep
  <2>1. CASE cx' = cx \/ Aborts(r)
    BY <2>1, LeftAlone, AbortsKeepRuns
  <2>2. CASE cx' = [cx EXCEPT ![r].active = srv.n[r] + 1, ![r].reg = @ \cup {srv.n[r] + 1},
                              ![r].late = @ \/ BeingEnded(r),
                              ![r].stream = IF @ = "none" THEN "open" ELSE @]
    <3>1. PICK v, w, z, l :
             cx' = [cx EXCEPT ![r].active = v, ![r].reg = w, ![r].late = l, ![r].stream = z]
      BY <2>2, Zenon
    <3>2. \A u \in CxRuns : RunKeeps(u)
      BY <3>1, RunForms
    <3> QED BY <3>2 DEF RunsKeep
  <2> QED BY <2>1, <2>2 DEF StartTurn
<1>2. ServerQuiet
  <2>1. srv' = srv \/ TurnBegins(r)
    BY DEF StartTurn
  <2> QED BY <2>1, ServerStays
<1> QED BY <1>1, <1>2, LeftAlone, QuietKeeps DEF StartTurn

\* A steer that starts anew keeps the runs.
LEMMA AnewAsks ==
    ASSUME CxTyped, NEW r \in CxRuns, NEW c \in Callers, StartsAnew(r, c)
    PROVE  RunsKeep
<1>1. PICK v : cx' = [cx EXCEPT ![r].late = v]
  BY Zenon DEF StartsAnew
<1> QED BY <1>1, OneField

\* Going on when the side query is gone keeps the questions: what forgets them is
\* closed.
LEMMA SideGoneAsks ==
    ASSUME CxTyped, PlacesKept, AsksKept, NEW r \in CxRuns, NEW c \in Callers, SideGone(r, c)
    PROVE  AsksKept'
<1>1. RunsKeep
  <2>1. CASE cx' = cx \/ StartsAnew(r, c)
    BY <2>1, LeftAlone, AnewAsks
  <2>2. CASE cx' = [cx EXCEPT ![r].pend = {}] /\ ccall[r][c].kind \in {"close", "end"}
    <3>1. cx[r].closed
      BY <2>2 DEF PlacesKept, RunFitsPlace, PlaceFits
    <3> QED BY <2>2, <3>1, OneField
  <2> QED BY <2>1, <2>2, Zenon DEF SideGone
<1> QED BY <1>1, LeftAlone, QuietKeeps DEF SideGone

\* So does steering a turn.
LEMMA SteerTurnAsks ==
    ASSUME CxTyped, AsksKept, NEW r \in CxRuns, NEW c \in Callers, SteerTurn(r, c) PROVE AsksKept'
<1>1. RunsKeep
  BY LeftAlone, AnewAsks DEF SteerTurn
<1> QED BY <1>1, LeftAlone, QuietKeeps DEF SteerTurn

\* So does forking the thread.
LEMMA ForkAsks ==
    ASSUME CxTyped, NamesKept, AsksKept, NEW r \in CxRuns, NEW c \in Callers, CallsFit, Fork(r, c)
    PROVE  AsksKept'
<1>1. PICK x \in NewNames(r) : x = CHOOSE new \in NewNames(r) : TRUE
  BY NameIsNew DEF Fork, NamesKept, CallsFit
<1>2. PICK y \in Sides : srv' = srv \/ srv' = [srv EXCEPT !.side[y] = "idle"]
  BY <1>1 DEF Fork, NewNames
<1>3. ServerQuiet
  BY <1>2, SideGoes, ServerStays
<1> QED BY <1>3, LeftAlone, QuietKeeps DEF Fork

\* So does the rest of a close.
LEMMA FinishAsks ==
    ASSUME CxTyped, AsksKept, NEW r \in CxRuns, NEW c \in Callers, Finish(r, c) PROVE AsksKept'
<1>1. RunsKeep
  BY OneField DEF Finish
<1> QED BY <1>1, LeftAlone, QuietKeeps DEF Finish

\* An interrupt that came to something keeps the runs and the side queries' tasks.
LEMMA CleanAsks ==
    ASSUME CxTyped, NEW r \in CxRuns, NEW c \in Callers, Clean(r, c) PROVE RunsKeep /\ SqKeeps
<1>1. CASE UNCHANGED <<cx, sq>>
  BY <1>1, LeftAlone
<1>2. CASE cx' = [cx EXCEPT ![r].closed = TRUE] /\ WaitsForSide(r, c, "end")
  BY <1>2, OneField, WaitKeeps DEF CallKinds
<1> QED BY <1>1, <1>2 DEF Clean, Ending

\* What is said of a turn that is over, or of a side query.
LEMMA SaidKeeps ==
    ASSUME CxTyped, AsksKept, NEW m \in CxMessages, mail' = Append(mail, m), MayBeSaid(m),
           RunsKeep, ServerQuiet, SqKeeps
    PROVE  AsksKept'
<1>1. \A u \in CxRuns : RunKeeps(u) /\ AsksMove(u) /\ TurnsMove(u)
  BY DEF RunsKeep, ServerQuiet
<1>2. \A u \in CxRuns, k \in CxAsks :
         srv'.ask[u][k] = "open" => srv.ask[u][k] = "open" \/ IsAsk(m, u, k)
  BY DEF ServerQuiet, OpensNone
<1>3. \A y \in Sides : sq'[y] \in Live => sq[y] \in Live
  BY DEF SqKeeps
<1> QED BY <1>1, <1>2, <1>3, SaidStep

\* The end of a turn may be said when the turn is over.
LEMMA EndIsSaid ==
    ASSUME CxTyped, NEW r \in CxRuns, srv' = TurnOver(srv, r), NEW how \in Ends, NEW t \in CxTurns,
           Says(r, how, t)
    PROVE  \E m \in CxMessages : mail' = Append(mail, m) /\ MayBeSaid(m)
<1> DEFINE m == [run |-> r, what |-> how, arg |-> t]
<1>1. m \in CxMessages
  BY DEF CxMessages
<1>2. m.run = r /\ m.what = how /\ how # "resolved"
  BY DEF Ends
<1>3. \A k \in CxAsks : srv'.ask[r][k] # "open"
  BY OverGoes DEF IsOver
<1>4. MayBeSaid(m)
  <2> HIDE DEF m
  <2> QED BY <1>2, <1>3 DEF MayBeSaid
<1> QED BY <1>1, <1>4 DEF Says

\* The end of a side query may always be said.
LEMMA SideIsSaid ==
    ASSUME NEW y \in Sides, Says(y[1], "side", y[2])
    PROVE  \E m \in CxMessages : mail' = Append(mail, m) /\ MayBeSaid(m)
<1> DEFINE m == [run |-> y[1], what |-> "side", arg |-> y[2]]
<1>1. m \in CxMessages
  BY SideParts DEF CxMessages
<1>2. m.what = "side"
  OBVIOUS
<1>4. MayBeSaid(m)
  <2> HIDE DEF m
  <2> QED BY <1>2 DEF MayBeSaid, Ends
<1> QED BY <1>1, <1>4 DEF Says

\* A call that ends where it is keeps the runs.
LEMMA LeavesAsks ==
    ASSUME CxTyped, NEW r \in CxRuns, NEW c \in Callers, NEW t,
           cx' = Left(r, c) \/ cx' = [Left(r, c) EXCEPT ![r].expected = @ \cup {t}]
    PROVE  RunsKeep
  BY LeftGoes DEF RunsKeep, RunKeeps

\* The interrupt of a turn.
LEMMA InterruptAsks ==
    ASSUME CxTyped, AsksKept, NEW r \in CxRuns, NEW c \in Callers,
           Interrupt(r, c) \/ Interrupted(r, c)
    PROVE  AsksKept'
<1>1. CASE Clean(r, c) /\ UNCHANGED <<srv, mail>>
  BY <1>1, CleanAsks, LeftAlone, QuietKeeps
<1> DEFINE t == cx[r].active
<1>2. ASSUME cx' = [cx EXCEPT ![r].expected = @ \cup {t}] PROVE RunsKeep
  <2>1. PICK v : cx' = [cx EXCEPT ![r].expected = v]
    BY <1>2, Zenon
  <2> QED BY <2>1, OneField
<1>3. CASE UNCHANGED <<srv, mail, sq>> /\ (cx' = cx \/ cx' = [cx EXCEPT ![r].expected = @ \cup {t}])
  BY <1>2, <1>3, LeftAlone, QuietKeeps
<1>5. CASE UNCHANGED <<srv, mail, sq>> /\ cx' = [Left(r, c) EXCEPT ![r].expected = @ \cup {t}]
  BY <1>5, LeavesAsks, LeftAlone, QuietKeeps
<1>4. CASE /\ t # 0 /\ srv' = TurnOver(srv, r) /\ Says(r, "interrupted", t) /\ UNCHANGED sq
           /\ cx' = [cx EXCEPT ![r].expected = @ \cup {t}]
  <2>1. t \in CxTurns /\ "interrupted" \in Ends
    BY <1>4, RunHas, CxAssumption DEF RunFits, CxTurns, Ends
  <2>2. PICK m \in CxMessages : mail' = Append(mail, m) /\ MayBeSaid(m)
    BY <1>4, <2>1, EndIsSaid
  <2>3. ServerQuiet
    BY <1>4, ServerStays
  <2> QED BY <1>2, <1>4, <2>2, <2>3, LeftAlone, SaidKeeps
<1> QED BY <1>1, <1>3, <1>4, <1>5, Zenon DEF Interrupt, Interrupted

\* A call that is given up keeps the questions.
LEMMA GivesUpAsks ==
    ASSUME CxTyped, AsksKept, NEW r \in CxRuns, NEW c \in Callers, GivesUp(r, c) PROVE AsksKept'
<1>1. PICK t : cx' = Left(r, c) \/ cx' = [Left(r, c) EXCEPT ![r].expected = @ \cup {t}]
  BY Zenon DEF GivesUp
<1>2. RunsKeep
  BY <1>1, LeavesAsks
<1>3. SqKeeps
  BY GivenUpTasks DEF SqKeeps, Live
<1> QED BY <1>2, <1>3, LeftAlone, QuietKeeps DEF GivesUp

\* So do the words after an answer.
LEMMA TellAsks ==
    ASSUME CxTyped, AsksKept, NEW r \in CxRuns, NEW c \in Callers, TellWhy(r, c) PROVE AsksKept'
  BY LeftAlone, QuietKeeps DEF TellWhy

\* An answer that is sent does: what it answers is not open.
LEMMA AnswerSentAsks ==
    ASSUME CxTyped, AsksKept, NEW r \in CxRuns, NEW c \in Callers, AnswerSent(r, c) PROVE AsksKept'
<1> DEFINE k == ccall[r][c].arg
           v == IF srv.ask[r][k] = "open" THEN "answered" ELSE srv.ask[r][k]
           p == cx[r].pend \ {k}
           x == [cx[r] EXCEPT !.pend = p]
<1>1. mail' = mail /\ sq' = sq
  BY DEF AnswerSent
<1>2. CASE UNCHANGED <<srv, cx>>
  BY <1>1, <1>2, LeftAlone, QuietKeeps
<1>4. CASE srv' = [srv EXCEPT !.ask[r][k] = v] /\ cx' = cx
  <2>1. v # "open" /\ (v = srv.ask[r][k] \/ (srv.ask[r][k] = "open" /\ v = "answered"))
    OBVIOUS
  <2> HIDE DEF k, v
  <2>2. AskWritten(r, k, v)
    BY <1>4, AskGoes, Zenon
  <2>3. ASSUME NEW u \in CxRuns PROVE AsksMove(u) /\ OpensNone(u) /\ TurnsMove(u)
    <3>1. CASE u = r
      BY <2>1, <2>2, <3>1 DEF AskWritten, AsksMove, OpensNone, TurnsMove, TurnsSame
    <3>2. CASE u # r
      BY <2>2, <3>2 DEF AskWritten, AsksMove, OpensNone, TurnsMove, TurnsSame, AsksSame
    <3> QED BY <3>1, <3>2
  <2>4. ServerQuiet
    BY <2>3 DEF ServerQuiet
  <2> QED BY <1>1, <1>4, <2>4, LeftAlone, QuietKeeps
<1>3. CASE srv' = [srv EXCEPT !.ask[r][k] = v] /\ cx' = [cx EXCEPT ![r] = x]
  <2>1. v # "open" /\ (v = srv.ask[r][k] \/ (srv.ask[r][k] = "open" /\ v = "answered"))
    OBVIOUS
  <2>2. /\ x.closed = cx[r].closed /\ x.overlap = cx[r].overlap /\ x.side = cx[r].side
        /\ x.pend = cx[r].pend \ {k} /\ cx[r].pend \subseteq CxAsks
    <3>1. cx[r] \in CxRunStates
      BY RunHas
    <3> QED BY <3>1 DEF CxRunStates
  <2> HIDE DEF k, v, p, x
  <2>3. cx'[r] = x /\ \A u \in CxRuns : u # r => cx'[u] = cx[u]
    BY <1>3, CxWritten
  <2>4. /\ \A u \in CxRuns : TurnsSame(u) /\ (u # r => AsksSame(u))
        /\ \A j \in CxAsks : srv'.ask[r][j] = IF j = k THEN v ELSE srv.ask[r][j]
    <3>1. AskWritten(r, k, v)
      BY <1>3, AskGoes, Zenon
    <3> QED BY <3>1 DEF AskWritten
  <2>5. ASSUME NEW u \in CxRuns PROVE AsksMove(u) /\ OpensNone(u) /\ TurnsMove(u) /\ HoldsOn(u)
    <3>1. CASE u = r
      BY <2>1, <2>2, <2>3, <2>4, <3>1 DEF AsksMove, OpensNone, TurnsMove, TurnsSame, HoldsOn
    <3>2. CASE u # r
      BY <2>3, <2>4, <3>2 DEF AsksMove, OpensNone, TurnsMove, TurnsSame, AsksSame, HoldsOn
    <3> QED BY <3>1, <3>2
  <2>6. Held' /\ ResolvedFits'
    BY <1>1, <2>5, SilentHolds DEF AsksKept
  <2>7. TurnsCount'
    BY <2>5, TurnsGo DEF AsksKept
  <2>8. SideKnown'
    BY <1>1, <2>2, <2>3, SidesStay DEF AsksKept
  <2> QED BY <2>6, <2>7, <2>8 DEF AsksKept
<1> QED BY <1>2, <1>3, <1>4, Zenon DEF AnswerSent, AskAnswered

\* The side query the run knows of is the new one, and two overlap when there was one.
LEMMA StartSideAsks ==
    ASSUME CxTyped, CallsFit, AsksKept, NEW r \in CxRuns, NEW c \in Callers, StartSide(r, c)
    PROVE  AsksKept'
<1> DEFINE x == ccall[r][c].arg
           y == <<r, x>>
           o == cx[r].overlap \/ cx[r].side # NoQuery
           z == [cx[r] EXCEPT !.side = x, !.overlap = o]
<1>1. mail' = mail /\ x \in CxQueries /\ y \in Sides
  BY DEF StartSide, CallAt, CallsFit, CallFits, Fits
<1>2. ServerQuiet
  <2>1. srv' = [srv EXCEPT !.side[y] = "running"] \/ srv' = [srv EXCEPT !.side[y] = "released"]
    BY DEF StartSide
  <2> HIDE DEF y
  <2> QED BY <1>1, <2>1, SideGoes, ServerStays
<1>3. CASE UNCHANGED <<cx, sq>>
  BY <1>1, <1>2, <1>3, LeftAlone, QuietKeeps
<1>4. CASE cx' = [cx EXCEPT ![r] = z] /\ sq' = [sq EXCEPT ![y] = "wait"]
  <2>1. /\ z.closed = cx[r].closed /\ z.overlap = o /\ z.side = x /\ z.pend = cx[r].pend
    <3>1. cx[r] \in CxRunStates
      BY RunHas
    <3> HIDE DEF x, o
    <3> QED BY <3>1 DEF CxRunStates
  <2>2. cx'[r] = z /\ \A u \in CxRuns : u # r => cx'[u] = cx[u]
    <3> HIDE DEF z
    <3> QED BY <1>4, CxWritten
  <2>3. \A w \in Sides : w # y => sq'[w] = sq[w]
    BY <1>4 DEF CxTyped
  <2> HIDE DEF x, z
  <2>4. \A u \in CxRuns : HoldsOn(u)
    BY <2>1, <2>2 DEF HoldsOn
  <2>5. Held' /\ ResolvedFits'
    BY <1>1, <1>2, <2>4, SilentHolds DEF AsksKept, ServerQuiet
  <2>6. TurnsCount'
    BY <1>2, TurnsGo DEF AsksKept, ServerQuiet
  <2>7. SideKnown'
    <3> SUFFICES ASSUME NEW u \in CxRuns, NEW q \in CxQueries, <<u, q>> \in Sides,
                        sq'[<<u, q>>] \in Live, ~cx'[u].overlap
                 PROVE  cx'[u].side = q
      BY DEF SideKnown
    <3>1. CASE <<u, q>> = y
      BY <2>1, <2>2, <3>1
    <3>2. CASE <<u, q>> # y /\ u = r
      <4>1. ~cx[r].overlap /\ cx[r].side = NoQuery
        BY <2>1, <2>2, <3>2
      <4>2. cx[r].side = q
        BY <2>3, <3>2, <4>1 DEF AsksKept, SideKnown
      <4> QED BY <4>1, <4>2, CxAssumption
    <3>3. CASE <<u, q>> # y /\ u # r
      BY <2>2, <2>3, <3>3 DEF AsksKept, SideKnown
    <3> QED BY <3>1, <3>2, <3>3
  <2> QED BY <2>5, <2>6, <2>7 DEF AsksKept
<1> QED BY <1>3, <1>4, Zenon DEF StartSide

\* The task of a side query.
LEMMA TaskAsks ==
    ASSUME CxTyped, AsksKept, NEW y \in Sides, SideTimesOut(y) \/ ReleaseSide(y) PROVE AsksKept'
<1>1. mail' = mail /\ cx' = cx
  BY DEF SideTimesOut, ReleaseSide
<1>2. ServerQuiet
  <2>1. srv' = srv \/ srv' = [srv EXCEPT !.side[y] = "released"]
    BY DEF SideTimesOut, ReleaseSide
  <2> QED BY <2>1, SideGoes, ServerStays
<1>3. SqKeeps
  <2>1. sq \in [Sides -> SqStates]
    BY DEF CxTyped
  <2> QED BY <2>1 DEF SqKeeps, Live, SideTimesOut, ReleaseSide
<1> QED BY <1>1, <1>2, <1>3, LeftAlone, QuietKeeps

\* The end of a side query on the server keeps the questions.
LEMMA EndsSideAsks ==
    ASSUME CxTyped, AsksKept, NEW y \in Sides, ServerEndsSide(y) PROVE AsksKept'
<1>1. ServerQuiet
  BY SideGoes, ServerStays DEF ServerEndsSide
<1>2. PICK m \in CxMessages : mail' = Append(mail, m) /\ MayBeSaid(m)
  BY SideIsSaid DEF ServerEndsSide
<1> QED BY <1>1, <1>2, LeftAlone, SaidKeeps DEF ServerEndsSide

\* Disposing of a side query does: the run forgets it and no other.
LEMMA ForgetsAsks ==
    ASSUME CxTyped, AsksKept, NEW y \in Sides, sq' = [sq EXCEPT ![y] = "release"],
           cx' = [cx EXCEPT ![y[1]].side = IF @ = y[2] THEN NoQuery ELSE @],
           \/ srv' = [srv EXCEPT !.side[y] = "ended"] /\ Says(y[1], "side", y[2])
           \/ UNCHANGED <<srv, mail>>
    PROVE  AsksKept'
<1>0. y[1] \in CxRuns /\ y[2] \in CxQueries /\ y = <<y[1], y[2]>>
  BY SideParts
<1> DEFINE r == y[1]
           v == IF cx[r].side = y[2] THEN NoQuery ELSE cx[r].side
           z == [cx[r] EXCEPT !.side = v]
<1>1. cx' = [cx EXCEPT ![r] = z] /\ sq' = [sq EXCEPT ![y] = "release"]
  BY Zenon
<1>2. z.closed = cx[r].closed /\ z.overlap = cx[r].overlap /\ z.side = v /\ z.pend = cx[r].pend
  <2>1. cx[r] \in CxRunStates
    BY <1>0, RunHas
  <2> HIDE DEF v
  <2> QED BY <2>1 DEF CxRunStates
<1>3. cx'[r] = z /\ \A u \in CxRuns : u # r => cx'[u] = cx[u]
  <2>1. r \in CxRuns /\ cx' = [cx EXCEPT ![r] = z]
    BY <1>0, <1>1, Zenon
  <2> HIDE DEF r, v, z
  <2> QED BY <2>1, CxWritten, ZenonT(60)
<1>4. (\A w \in Sides : w # y => sq'[w] = sq[w]) /\ sq'[y] = "release"
  BY <1>1 DEF CxTyped
<1> HIDE DEF z
<1>5. ServerQuiet
  <2>1. srv' = srv \/ srv' = [srv EXCEPT !.side[y] = "ended"]
    OBVIOUS
  <2> QED BY <2>1, SideGoes, ServerStays
<1>6. \A u \in CxRuns : HoldsOn(u)
  BY <1>2, <1>3 DEF HoldsOn
<1>7. Held' /\ ResolvedFits'
  <2>1. CASE mail' = mail
    BY <1>5, <1>6, <2>1, SilentHolds DEF AsksKept, ServerQuiet
  <2>2. CASE Says(y[1], "side", y[2])
    <3>1. PICK m \in CxMessages : mail' = Append(mail, m) /\ MayBeSaid(m)
      BY <2>2, SideIsSaid
    <3>2. \A u \in CxRuns, k \in CxAsks :
             srv'.ask[u][k] = "open" => srv.ask[u][k] = "open" \/ IsAsk(m, u, k)
      BY <1>5 DEF ServerQuiet, OpensNone
    <3>3. \A u \in CxRuns : AsksMove(u) /\ HoldsOn(u)
      BY <1>5, <1>6 DEF ServerQuiet
    <3> QED BY <3>1, <3>2, <3>3, SaidHolds DEF AsksKept
  <2> QED BY <2>1, <2>2
<1>8. TurnsCount'
  BY <1>5, TurnsGo DEF AsksKept, ServerQuiet
<1>9. SideKnown'
  <2> SUFFICES ASSUME NEW u \in CxRuns, NEW q \in CxQueries, <<u, q>> \in Sides,
                      sq'[<<u, q>>] \in Live, ~cx'[u].overlap
               PROVE  cx'[u].side = q
    BY DEF SideKnown
  <2>1. <<u, q>> # y
    BY <1>4 DEF Live
  <2>2. sq[<<u, q>>] \in Live /\ ~cx[u].overlap
    BY <1>2, <1>3, <1>4, <2>1
  <2>3. cx[u].side = q
    BY <2>2 DEF AsksKept, SideKnown
  <2>4. CASE u = r
    <3>1. q # y[2]
      BY <1>0, <2>1, <2>4
    <3> QED BY <1>2, <1>3, <2>3, <2>4, <3>1
  <2>5. CASE u # r
    BY <1>3, <2>3, <2>5
  <2> QED BY <2>4, <2>5
<1> QED BY <1>7, <1>8, <1>9 DEF AsksKept

\* So does disposing of it in vain.
LEMMA DisposeAsks ==
    ASSUME CxTyped, AsksKept, NEW y \in Sides, DisposeSide(y) PROVE AsksKept'
<1>1. CASE UNCHANGED <<srv, mail, cx>> /\ sq[y] = "dispose" /\ sq' = [sq EXCEPT ![y] = "aborted"]
  <2>1. sq \in [Sides -> SqStates]
    BY DEF CxTyped
  <2>2. SqKeeps
    BY <1>1, <2>1 DEF SqKeeps, Live
  <2> QED BY <1>1, <2>2, LeftAlone, QuietKeeps
<1> QED BY <1>1, ForgetsAsks, Zenon DEF DisposeSide

\* The server.
LEMMA ServerAsksAsks ==
    ASSUME CxTyped, AsksKept, NEW r \in CxRuns, ServerAsks(r) PROVE AsksKept'
<1>1. PICK k \in CxAsks : /\ srv.ask[r][k] = "none" /\ srv' = [srv EXCEPT !.ask[r][k] = "open"]
                          /\ Says(r, "ask", <<k, srv.n[r]>>)
  BY DEF ServerAsks
<1> DEFINE m == [run |-> r, what |-> "ask", arg |-> <<k, srv.n[r]>>]
<1>2. m \in CxMessages
  BY TurnNumber DEF CxMessages, ServerAsks, AsksKept
<1>3. m.what = "ask" /\ m.run = r /\ m.arg[1] = k /\ mail' = Append(mail, m)
  BY <1>1 DEF Says
<1>4. /\ \A u \in CxRuns : TurnsSame(u) /\ (u # r => AsksSame(u))
      /\ \A j \in CxAsks : srv'.ask[r][j] = IF j = k THEN "open" ELSE srv.ask[r][j]
  <2>1. AskWritten(r, k, "open")
    BY <1>1, AskGoes, Zenon
  <2> QED BY <2>1 DEF AskWritten
<1>5. cx' = cx /\ sq' = sq
  BY DEF ServerAsks
<1> HIDE DEF m
<1>6. MayBeSaid(m) /\ IsAsk(m, r, k)
  BY <1>3 DEF MayBeSaid, IsAsk, Ends
<1>7. ASSUME NEW u \in CxRuns PROVE AsksMove(u) /\ TurnsMove(u) /\ RunKeeps(u)
  <2>1. CASE u = r
    BY <1>1, <1>4, <1>5, <2>1 DEF AsksMove, TurnsMove, TurnsSame, RunKeeps
  <2>2. CASE u # r
    BY <1>4, <1>5, <2>2 DEF AsksMove, TurnsMove, TurnsSame, AsksSame, RunKeeps
  <2> QED BY <2>1, <2>2
<1>8. \A u \in CxRuns, j \in CxAsks :
         srv'.ask[u][j] = "open" => srv.ask[u][j] = "open" \/ IsAsk(m, u, j)
  BY <1>4, <1>6 DEF AsksSame
<1> QED BY <1>2, <1>3, <1>5, <1>6, <1>7, <1>8, SaidStep

\* A question that is settled elsewhere is not open when the client hears of it.
LEMMA ServerResolvesAsks ==
    ASSUME CxTyped, AsksKept, NEW r \in CxRuns, ServerResolves(r) PROVE AsksKept'
<1>1. PICK k \in CxAsks : /\ srv.ask[r][k] = "open" /\ srv' = [srv EXCEPT !.ask[r][k] = "answered"]
                          /\ Says(r, "resolved", k)
  BY DEF ServerResolves
<1> DEFINE m == [run |-> r, what |-> "resolved", arg |-> k]
<1>2. m \in CxMessages
  BY DEF CxMessages
<1>3. m.what = "resolved" /\ m.run = r /\ m.arg = k /\ mail' = Append(mail, m)
  BY <1>1 DEF Says
<1>4. /\ \A u \in CxRuns : TurnsSame(u) /\ (u # r => AsksSame(u))
      /\ \A j \in CxAsks : srv'.ask[r][j] = IF j = k THEN "answered" ELSE srv.ask[r][j]
  <2>1. AskWritten(r, k, "answered")
    BY <1>1, AskGoes, Zenon
  <2> QED BY <2>1 DEF AskWritten
<1>5. cx' = cx /\ sq' = sq
  BY DEF ServerResolves
<1> HIDE DEF m
<1>6. MayBeSaid(m)
  BY <1>3, <1>4 DEF MayBeSaid, Ends
<1>7. ASSUME NEW u \in CxRuns PROVE AsksMove(u) /\ OpensNone(u) /\ TurnsMove(u)
  <2>1. CASE u = r
    BY <1>1, <1>4, <2>1 DEF AsksMove, OpensNone, TurnsMove, TurnsSame
  <2>2. CASE u # r
    BY <1>4, <2>2 DEF AsksMove, OpensNone, TurnsMove, TurnsSame, AsksSame
  <2> QED BY <2>1, <2>2
<1>8. ServerQuiet
  BY <1>7 DEF ServerQuiet
<1> QED BY <1>2, <1>3, <1>5, <1>6, <1>8, LeftAlone, SaidKeeps

\* A turn that ends leaves no question open.
LEMMA ServerEndsAsks ==
    ASSUME CxTyped, AsksKept, NEW r \in CxRuns, ServerEnds(r) PROVE AsksKept'
<1>1. PICK how \in Ends : Says(r, how, srv.n[r])
  BY DEF ServerEnds
<1>2. srv.n[r] \in CxTurns
  BY TurnNumber DEF ServerEnds, AsksKept
<1>3. PICK m \in CxMessages : mail' = Append(mail, m) /\ MayBeSaid(m)
  BY <1>1, <1>2, EndIsSaid DEF ServerEnds
<1>4. ServerQuiet
  BY ServerStays DEF ServerEnds
<1> QED BY <1>3, <1>4, LeftAlone, SaidKeeps DEF ServerEnds

\* Nor does a process that dies.
LEMMA ServerDiesAsks == ASSUME CxTyped, AsksKept, ServerDies PROVE AsksKept'
  BY ServerStays, LeftAlone, QuietKeeps DEF ServerDies

\* Nor does a worker that gives its client up.
LEMMA StopAsks == ASSUME CxTyped, AsksKept, NEW r \in CxRuns, StopClient(r) PROVE AsksKept'
<1>1. /\ mail' = mail /\ sq' = sq /\ ServerQuiet /\ \A u \in CxRuns : IsOver(u)
      /\ cx' = Hushed
  BY RestartGoes, ServerStays, Zenon DEF StopClient, GoesDown, Hushed
<1>2. Held'
  BY <1>1 DEF Held, IsOver
<1>3. ResolvedFits'
  <2> SUFFICES ASSUME NEW i \in DOMAIN mail, mail[i].what = "resolved"
               PROVE  srv'.ask[mail[i].run][mail[i].arg] \notin {"none", "open"}
    BY <1>1 DEF ResolvedFits
  <2>1. mail[i] \in CxMessages
    BY DEF CxTyped
  <2>2. mail[i].run \in CxRuns /\ mail[i].arg \in CxAsks
    BY <2>1, MessageIs
  <2>3. srv.ask[mail[i].run][mail[i].arg] \notin {"none", "open"}
    BY DEF AsksKept, ResolvedFits
  <2> QED BY <1>1, <2>2, <2>3 DEF IsOver
<1>4. TurnsCount'
  BY <1>1 DEF TurnsCount, IsOver
<1>5. SideKnown'
  BY <1>1, ClearedGoes, SidesStay DEF AsksKept
<1> QED BY <1>2, <1>3, <1>4, <1>5 DEF AsksKept

\* Nor one that cannot start another.
LEMMA RestartFailsAsks ==
    ASSUME CxTyped, AsksKept, NEW r \in CxRuns, RestartFails(r) PROVE AsksKept'
<1>1. sq' = sq /\ ServerQuiet /\ \A u \in CxRuns : IsOver(u)
  BY RestartGoes, ServerStays DEF RestartFails, GoesDown
<1>2. CASE UNCHANGED <<mail, cx>>
  BY <1>1, <1>2, LeftAlone, QuietKeeps
<1>3. CASE mail' = <<>> /\ cx' = Unregistered
  <2>1. Held'
    BY <1>1 DEF Held, IsOver
  <2>2. ResolvedFits' /\ TurnsCount'
    BY <1>1, <1>3 DEF ResolvedFits, TurnsCount, IsOver
  <2>3. SideKnown'
    BY <1>1, <1>3, ClearedGoes, SidesStay DEF AsksKept
  <2> QED BY <2>1, <2>2, <2>3 DEF AsksKept
<1> QED BY <1>2, <1>3 DEF RestartFails

\* A restart leaves no question open.
LEMMA RestartAsks == ASSUME CxTyped, AsksKept, NEW r \in CxRuns, StartClient(r) PROVE AsksKept'
<1>1. mail' = <<>> /\ \A u \in CxRuns : IsOver(u)
  BY RestartGoes DEF StartClient, GoesDown
<1>2. Held'
  BY <1>1 DEF Held, IsOver
<1>3. ResolvedFits' /\ TurnsCount'
  BY <1>1 DEF ResolvedFits, TurnsCount, IsOver
<1>4. ASSUME NEW u \in CxRuns PROVE cx'[u].side = cx[u].side /\ cx'[u].overlap = cx[u].overlap
  <2>1. Unregistered[u].side = cx[u].side /\ Unregistered[u].overlap = cx[u].overlap
    BY ClearedGoes
  <2>2. Unregistered \in [CxRuns -> CxRunStates] /\ Unregistered[u] \in CxRunStates
    BY ClearedTyped
  <2>3. \/ cx' = [Unregistered EXCEPT ![r] = [Unregistered[r] EXCEPT !.active = 0]]
        \/ cx' = [Unregistered EXCEPT ![r] = [Unregistered[r] EXCEPT !.active = 0, !.closed = TRUE]]
    BY Zenon DEF StartClient
  <2> HIDE DEF Unregistered
  <2>4. CASE u = r
    <3>1. \/ cx'[u] = [Unregistered[r] EXCEPT !.active = 0]
          \/ cx'[u] = [Unregistered[r] EXCEPT !.active = 0, !.closed = TRUE]
      BY <2>2, <2>3, <2>4
    <3> QED BY <2>1, <2>2, <2>4, <3>1 DEF CxRunStates
  <2>5. CASE u # r
    BY <2>1, <2>2, <2>3, <2>5
  <2> QED BY <2>4, <2>5
<1>5. SqKeeps
  <2>1. "owner" \in Callers /\ "end" \in CallKinds
    BY DEF Callers, CallKinds
  <2>2. sq' = sq \/ WaitsForSide(r, "owner", "end")
    BY Zenon DEF StartClient
  <2> QED BY <2>1, <2>2, LeftAlone, WaitKeeps
<1>6. SideKnown'
  BY <1>4, <1>5, SidesStay DEF AsksKept, SqKeeps
<1> QED BY <1>2, <1>3, <1>6 DEF AsksKept

\* What reading a message may do to run u.
ReadKeeps(u) ==
    /\ cx'[u].closed = cx[u].closed /\ cx'[u].overlap = cx[u].overlap
    /\ cx'[u].side = cx[u].side
    /\ \A k \in CxAsks :
          srv'.ask[u][k] = "open" /\ ~cx[u].overlap
          => /\ IsAsk(mail[1], u, k) => k \in cx'[u].pend
             /\ k \in cx[u].pend /\ NoEnd(u, 0) => k \in cx'[u].pend

\* What is left of the mail.
LEMMA MailRead ==
    ASSUME CxTyped, mail # <<>>, mail' = Tail(mail)
    PROVE  /\ Len(mail) \in Nat /\ DOMAIN mail = 1..Len(mail) /\ 1 \in DOMAIN mail
           /\ DOMAIN mail' = 1..(Len(mail) - 1)
           /\ \A i \in DOMAIN mail' : i + 1 \in DOMAIN mail /\ mail'[i] = mail[i + 1]
           /\ \A i \in DOMAIN mail : mail[i] \in CxMessages
           /\ Head(mail) = mail[1]
<1>1. /\ Len(mail) \in Nat /\ Len(mail) > 0 /\ DOMAIN mail = 1..Len(mail) /\ Head(mail) = mail[1]
      /\ mail' \in Seq(CxMessages) /\ Len(mail') = Len(mail) - 1
      /\ \A i \in 1..(Len(mail) - 1) : mail'[i] = mail[i + 1]
  BY HeadOfMail
<1>2. DOMAIN mail' = 1..(Len(mail) - 1)
  BY <1>1
<1>3. \A i \in DOMAIN mail : mail[i] \in CxMessages
  BY DEF CxTyped
<1> QED BY <1>1, <1>2, <1>3

\* A message that is read, and with it what it says, keeps what is held.
LEMMA ReadHolds ==
    ASSUME CxTyped, Held, ResolvedFits, mail # <<>>, mail' = Tail(mail),
           \A u \in CxRuns : AsksMove(u) /\ OpensNone(u) /\ ReadKeeps(u)
    PROVE  Held' /\ ResolvedFits'
<1>0. /\ Len(mail) \in Nat /\ DOMAIN mail = 1..Len(mail) /\ 1 \in DOMAIN mail
      /\ DOMAIN mail' = 1..(Len(mail) - 1)
      /\ \A i \in DOMAIN mail' : i + 1 \in DOMAIN mail /\ mail'[i] = mail[i + 1]
      /\ \A i \in DOMAIN mail : mail[i] \in CxMessages
  BY MailRead
<1>1. ASSUME NEW r \in CxRuns, NEW k \in CxAsks,
             srv'.ask[r][k] = "open", ~cx'[r].closed, ~cx'[r].overlap
      PROVE  HeldBy(r, k)'
  <2>1. ReadKeeps(r) /\ HeldBy(r, k)
    BY <1>1 DEF Held, OpensNone, ReadKeeps
  <2>2. ASSUME NEW j \in DOMAIN mail, NoEnd(r, j) PROVE NoEnd(r, j - 1)'
    <3> SUFFICES ASSUME NEW i \in DOMAIN mail', i > j - 1
                 PROVE  ~(mail'[i].run = r /\ mail'[i].what \in Ends)
      BY DEF NoEnd
    <3>1. i + 1 \in DOMAIN mail /\ mail'[i] = mail[i + 1] /\ i + 1 > j
      BY <1>0
    <3> QED BY <2>2, <3>1 DEF NoEnd
  <2>3. CASE k \in cx[r].pend /\ NoEnd(r, 0)
    <3>1. k \in cx'[r].pend
      BY <1>1, <2>1, <2>3 DEF ReadKeeps
    <3>2. NoEnd(r, 1)
      BY <1>0, <2>3 DEF NoEnd
    <3>3. NoEnd(r, 0)'
      <4>1. PICK z : z = 1 /\ z \in DOMAIN mail /\ NoEnd(r, z)
        BY <1>0, <3>2
      <4>2. NoEnd(r, z - 1)'
        BY <2>2, <4>1
      <4>3. z - 1 = 0
        BY <4>1
      <4> QED BY <4>2, <4>3 DEF NoEnd
    <3> QED BY <3>1, <3>3 DEF HeldBy
  <2>4. ASSUME NEW j \in DOMAIN mail, IsAsk(mail[j], r, k), NoEnd(r, j) PROVE HeldBy(r, k)'
    <3>1. NoEnd(r, j - 1)'
      BY <2>2, <2>4
    <3>2. CASE j = 1
      <4>1. k \in cx'[r].pend
        BY <1>1, <2>1, <2>4, <3>2 DEF ReadKeeps
      <4>2. NoEnd(r, 0)'
        BY <3>1, <3>2 DEF NoEnd
      <4> QED BY <4>1, <4>2 DEF HeldBy
    <3>3. CASE j # 1
      <4>1. PICK i \in DOMAIN mail' : i = j - 1
        BY <1>0, <3>3
      <4>2. mail'[i] = mail[j] /\ NoEnd(r, i)'
        BY <1>0, <3>1, <4>1 DEF NoEnd
      <4>3. IsAsk(mail'[i], r, k)
        BY <2>4, <4>2
      <4> QED BY <4>2, <4>3 DEF HeldBy, IsAsk
    <3> QED BY <3>2, <3>3
  <2> QED BY <2>1, <2>3, <2>4 DEF HeldBy
<1>2. ResolvedFits'
  <2> SUFFICES ASSUME NEW i \in DOMAIN mail', mail'[i].what = "resolved"
               PROVE  srv'.ask[mail'[i].run][mail'[i].arg] \notin {"none", "open"}
    BY DEF ResolvedFits
  <2>1. i + 1 \in DOMAIN mail /\ mail'[i] = mail[i + 1] /\ mail[i + 1] \in CxMessages
    BY <1>0
  <2>2. mail'[i].run \in CxRuns /\ mail'[i].arg \in CxAsks
    BY <2>1, MessageIs
  <2>3. srv.ask[mail'[i].run][mail'[i].arg] \notin {"none", "open"}
    BY <2>1 DEF ResolvedFits
  <2> QED BY <2>2, <2>3 DEF AsksMove
<1> QED BY <1>1, <1>2 DEF Held

\* Run r holds p, and what else is read of it changes nothing here.
PendWritten(r, p) ==
    /\ \A u \in CxRuns : u # r => cx'[u] = cx[u]
    /\ cx'[r].closed = cx[r].closed /\ cx'[r].overlap = cx[r].overlap
    /\ cx'[r].side = cx[r].side /\ cx'[r].pend = p

\* The forms in which reading writes a run.
LEMMA ReadForms ==
    ASSUME CxTyped, NEW r \in CxRuns, NEW p,
           \/ cx' = [cx EXCEPT ![r].pend = p]
           \/ \E z : cx' = [cx EXCEPT ![r].pend = p, ![r].stream = z]
           \/ \E t, z : cx' = [cx EXCEPT ![r] = TurnDone(cx[r], t, z)] /\ p = {}
    PROVE  PendWritten(r, p)
<1> DEFINE x == cx[r]
<1>0. x \in CxRunStates
  BY RunHas
<1>1. ASSUME NEW y, cx' = [cx EXCEPT ![r] = y], y.closed = x.closed, y.overlap = x.overlap,
             y.side = x.side, y.pend = p
      PROVE  /\ \A u \in CxRuns : u # r => cx'[u] = cx[u]
             /\ cx'[r].closed = x.closed /\ cx'[r].overlap = x.overlap
             /\ cx'[r].side = x.side /\ cx'[r].pend = p
  <2>1. cx'[r] = y /\ \A u \in CxRuns : u # r => cx'[u] = cx[u]
    BY <1>1, CxWritten
  <2> QED BY <1>1, <2>1
<1>2. CASE cx' = [cx EXCEPT ![r].pend = p]
  <2> DEFINE y == [x EXCEPT !.pend = p]
  <2>1. cx' = [cx EXCEPT ![r] = y]
    BY <1>2, Zenon
  <2>2. y.closed = x.closed /\ y.overlap = x.overlap /\ y.side = x.side /\ y.pend = p
    BY <1>0 DEF CxRunStates
  <2> HIDE DEF x, y
  <2>3. /\ \A u \in CxRuns : u # r => cx'[u] = cx[u]
        /\ cx'[r].closed = x.closed /\ cx'[r].overlap = x.overlap
        /\ cx'[r].side = x.side /\ cx'[r].pend = p
    BY <1>1, <2>1, <2>2
  <2> QED BY <2>3 DEF x, PendWritten
<1>3. ASSUME NEW z, cx' = [cx EXCEPT ![r].pend = p, ![r].stream = z]
      PROVE  /\ \A u \in CxRuns : u # r => cx'[u] = cx[u]
             /\ cx'[r].closed = x.closed /\ cx'[r].overlap = x.overlap
             /\ cx'[r].side = x.side /\ cx'[r].pend = p
  <2> DEFINE y == [x EXCEPT !.pend = p, !.stream = z]
  <2>1. cx' = [cx EXCEPT ![r] = y]
    BY <1>3, Zenon
  <2>2. y.closed = x.closed /\ y.overlap = x.overlap /\ y.side = x.side /\ y.pend = p
    BY <1>0 DEF CxRunStates
  <2> HIDE DEF x, y
  <2> QED BY <1>1, <2>1, <2>2
<1>4. ASSUME NEW t, NEW z, cx' = [cx EXCEPT ![r] = TurnDone(cx[r], t, z)], p = {}
      PROVE  /\ \A u \in CxRuns : u # r => cx'[u] = cx[u]
             /\ cx'[r].closed = x.closed /\ cx'[r].overlap = x.overlap
             /\ cx'[r].side = x.side /\ cx'[r].pend = p
  <2> DEFINE y == TurnDone(x, t, z)
  <2>1. cx' = [cx EXCEPT ![r] = y]
    BY <1>4
  <2>2. y.closed = x.closed /\ y.overlap = x.overlap /\ y.side = x.side /\ y.pend = p
    <3> HIDE DEF x
    <3> QED BY <1>0, <1>4 DEF TurnDone, CxRunStates
  <2> HIDE DEF x, y
  <2> QED BY <1>1, <2>1, <2>2
<1> QED BY <1>2, <1>3, <1>4 DEF PendWritten

\* What the four kinds of message say of a run.
ReadFits == \A u \in CxRuns : AsksMove(u) /\ OpensNone(u) /\ TurnsMove(u) /\ ReadKeeps(u)

\* Reading that changes nothing fits, unless it is of a question.
LEMMA ReadsNothing ==
    ASSUME CxTyped, UNCHANGED <<srv, cx>>, \A u \in CxRuns, k \in CxAsks : ~IsAsk(mail[1], u, k)
    PROVE  ReadFits
<1>1. ServerQuiet
  BY LeftAlone
<1> QED BY <1>1 DEF ReadFits, ServerQuiet, ReadKeeps

\* A question that is read is held, or refused.
LEMMA AskFits ==
    ASSUME CxTyped, NEW m \in CxMessages, m = mail[1], m.what = "ask", SeeAsk(m) PROVE ReadFits
<1> DEFINE r == m.run
           q == m.arg[1]
<1>1. r \in CxRuns /\ q \in CxAsks
  BY MessageIs
<1>2. \A u \in CxRuns, k \in CxAsks : IsAsk(mail[1], u, k) => u = r /\ k = q
  BY DEF IsAsk
<1>3. CASE cx' = [cx EXCEPT ![r].pend = {q}] /\ UNCHANGED srv /\ cx[r].pend = {}
  <2>1. ServerQuiet
    BY <1>3, LeftAlone
  <2>2. PICK p : p = {q} /\ cx' = [cx EXCEPT ![r].pend = p]
    BY <1>3
  <2> HIDE DEF r, q
  <2>3. PendWritten(r, p)
    BY <1>1, <2>2, ReadForms
  <2>4. ASSUME NEW u \in CxRuns PROVE ReadKeeps(u)
    <3>1. CASE u = r
      BY <1>2, <1>3, <2>2, <2>3, <3>1 DEF ReadKeeps, PendWritten
    <3>2. CASE u # r
      BY <1>2, <2>3, <3>2 DEF ReadKeeps, PendWritten
    <3> QED BY <3>1, <3>2
  <2> QED BY <2>1, <2>4 DEF ReadFits, ServerQuiet
<1>4. CASE Refused(r, q) /\ UNCHANGED cx
  <2>1. PICK v : /\ v = IF srv.ask[r][q] = "open" THEN "refused" ELSE srv.ask[r][q]
                 /\ srv' = [srv EXCEPT !.ask[r][q] = v]
    BY <1>4, Zenon DEF Refused
  <2> HIDE DEF r, q
  <2>2. AskWritten(r, q, v)
    BY <1>1, <2>1, AskGoes, Zenon
  <2>3. v # "open" /\ (v = srv.ask[r][q] \/ (srv.ask[r][q] = "open" /\ v = "refused"))
    BY <2>1
  <2>4. ASSUME NEW u \in CxRuns PROVE AsksMove(u) /\ OpensNone(u) /\ TurnsMove(u) /\ ReadKeeps(u)
    <3>1. TurnsMove(u)
      BY <2>2 DEF AskWritten, TurnsSame, TurnsMove
    <3>2. CASE u = r
      <4>1. \A j \in CxAsks : srv'.ask[r][j] = IF j = q THEN v ELSE srv.ask[r][j]
        BY <2>2 DEF AskWritten
      <4>2. AsksMove(u) /\ OpensNone(u)
        BY <2>3, <3>2, <4>1 DEF AsksMove, OpensNone
      <4>3. ReadKeeps(u)
        BY <1>2, <1>4, <2>3, <3>2, <4>1 DEF ReadKeeps
      <4> QED BY <3>1, <4>2, <4>3
    <3>3. CASE u # r
      <4>1. AsksSame(u)
        BY <2>2, <3>3 DEF AskWritten
      <4>2. AsksMove(u) /\ OpensNone(u)
        BY <4>1 DEF AsksMove, OpensNone, AsksSame
      <4>3. ReadKeeps(u)
        BY <1>2, <1>4, <3>3 DEF ReadKeeps
      <4> QED BY <3>1, <4>2, <4>3
    <3> QED BY <3>2, <3>3
  <2> QED BY <2>4 DEF ReadFits
<1> QED BY <1>3, <1>4 DEF SeeAsk

\* A message that is none of a question, and keeps what is held but of run r.
LEMMA OneFits ==
    ASSUME CxTyped, NEW m \in CxMessages, m = mail[1], m.what # "ask", UNCHANGED srv,
           NEW r \in CxRuns, NEW p,
           PendWritten(r, p),
           \A k \in CxAsks :
              srv.ask[r][k] = "open" /\ ~cx[r].overlap /\ k \in cx[r].pend /\ NoEnd(r, 0) => k \in p
    PROVE  ReadFits
<1>1. ServerQuiet
  BY LeftAlone
<1>2. \A u \in CxRuns, k \in CxAsks : ~IsAsk(mail[1], u, k)
  BY DEF IsAsk
<1>3. ASSUME NEW u \in CxRuns PROVE ReadKeeps(u)
  <2>1. CASE u = r
    BY <1>2, <2>1 DEF ReadKeeps, PendWritten
  <2>2. CASE u # r
    BY <1>2, <2>2 DEF ReadKeeps, PendWritten
  <2> QED BY <2>1, <2>2
<1> QED BY <1>1, <1>3 DEF ReadFits, ServerQuiet

\* One that is resolved is let go.
LEMMA ResolvedIsRead ==
    ASSUME CxTyped, ResolvedFits, 1 \in DOMAIN mail, NEW m \in CxMessages, m = mail[1],
           m.what = "resolved", UNCHANGED srv, cx' = [cx EXCEPT ![m.run].pend = @ \ {m.arg}]
    PROVE  ReadFits
<1> DEFINE r == m.run
<1>1. r \in CxRuns
  BY MessageIs
<1>2. PICK p : p = cx[r].pend \ {m.arg} /\ cx' = [cx EXCEPT ![r].pend = p]
  BY Zenon
<1>3. srv.ask[r][m.arg] # "open"
  BY DEF ResolvedFits
<1>4. \A k \in CxAsks : srv.ask[r][k] = "open" /\ k \in cx[r].pend => k \in p
  BY <1>2, <1>3
<1> HIDE DEF r
<1>5. PendWritten(r, p)
  BY <1>1, <1>2, ReadForms
<1> QED BY <1>1, <1>4, <1>5, OneFits

\* The end of a turn lets go what was asked in it: nothing of it is open.
LEMMA EndIsRead ==
    ASSUME CxTyped, 1 \in DOMAIN mail, NEW m \in CxMessages, m = mail[1], m.what \in Ends, SeeEnd(m)
    PROVE  ReadFits
<1> DEFINE r == m.run
<1>1. r \in CxRuns /\ m.what # "ask" /\ srv' = srv
  BY MessageIs DEF SeeEnd, Ends
<1>2. CASE cx' = cx
  BY <1>1, <1>2, ReadsNothing DEF IsAsk
<1>3. CASE cx' # cx
  <2>1. \E t, z : cx' = [cx EXCEPT ![r] = TurnDone(cx[r], t, z)]
    BY <1>3, Zenon DEF SeeEnd
  <2>2. ~NoEnd(r, 0)
    <3>1. 1 \in DOMAIN mail /\ 1 > 0 /\ mail[1].run = r /\ mail[1].what \in Ends
      OBVIOUS
    <3> QED BY <3>1 DEF NoEnd
  <2> HIDE DEF r
  <2>3. PICK p : p = {} /\ \E t, z : cx' = [cx EXCEPT ![r] = TurnDone(cx[r], t, z)] /\ p = {}
    BY <2>1
  <2>4. PendWritten(r, p)
    BY <1>1, <2>3, ReadForms
  <2> QED BY <1>1, <2>2, <2>4, OneFits
<1> QED BY <1>2, <1>3

\* The end of a side query is known for one unless two overlapped.
LEMMA SideIsRead ==
    ASSUME CxTyped, SideKnown, NEW m \in CxMessages, m = mail[1], m.what = "side", SeeSide(m)
    PROVE  ReadFits /\ SqKeeps
<1> DEFINE r == m.run
           y == <<r, m.arg>>
<1>1. r \in CxRuns /\ m.arg \in CxQueries /\ y \in Sides /\ srv' = srv /\ m.what # "ask"
  BY MessageIs DEF SeeSide
<1>2. CASE cx' = cx
  <2>1. ReadFits
    BY <1>1, <1>2, ReadsNothing DEF IsAsk
  <2>2. SqKeeps
    <3>1. CASE sq' = sq
      BY <3>1, LeftAlone
    <3>2. CASE sq' # sq
      <4>1. PICK v : /\ v = IF sq[y] = "wait" THEN "answered" ELSE sq[y]
                     /\ sq' = [sq EXCEPT ![y] = v]
        BY <3>2, Zenon DEF SeeSide
      <4>2. sq[y] \in {"wait", "dispose", "aborted"}
        BY <3>2 DEF SeeSide
      <4>3. sq \in [Sides -> SqStates]
        BY DEF CxTyped
      <4> HIDE DEF y
      <4> QED BY <1>1, <4>1, <4>2, <4>3 DEF SqKeeps, Live
    <3> QED BY <3>1, <3>2
  <2> QED BY <2>1, <2>2
<1>3. CASE cx' # cx
  <2>1. /\ sq[y] \in {"wait", "dispose", "aborted"} /\ cx[r].side # m.arg /\ sq' = sq
        /\ \E z : cx' = [cx EXCEPT ![r].pend = {}, ![r].stream = z]
    BY <1>3, Zenon DEF SeeSide
  <2>2. cx[r].overlap
    BY <1>1, <2>1 DEF SideKnown, Live
  <2>3. SqKeeps
    BY <2>1, LeftAlone
  <2> HIDE DEF r
  <2>4. PICK p : p = {} /\ \E z : cx' = [cx EXCEPT ![r].pend = p, ![r].stream = z]
    BY <2>1
  <2>5. PendWritten(r, p)
    BY <1>1, <2>4, ReadForms
  <2> QED BY <1>1, <2>2, <2>3, <2>5, OneFits
<1> QED BY <1>2, <1>3

\* What the client reads keeps the questions.
LEMMA WatchAsks == ASSUME CxTyped, AsksKept, Watch PROVE AsksKept'
<1> DEFINE m == Head(mail)
<1>1. mail # <<>> /\ mail' = Tail(mail)
  BY DEF Watch
<1>2. m = mail[1] /\ 1 \in DOMAIN mail /\ m \in CxMessages
  BY <1>1, MailRead
<1>3. ReadFits /\ SqKeeps
  <2>1. CASE m.what = "ask" /\ SeeAsk(m) /\ UNCHANGED sq
    BY <1>2, <2>1, AskFits, LeftAlone
  <2>2. CASE /\ m.what = "resolved" /\ cx' = [cx EXCEPT ![m.run].pend = @ \ {m.arg}]
             /\ UNCHANGED <<srv, sq>>
    <3> HIDE DEF m
    <3> QED BY <1>2, <2>2, ResolvedIsRead, LeftAlone DEF AsksKept
  <2>3. CASE m.what \in Ends /\ SeeEnd(m) /\ UNCHANGED sq
    BY <1>2, <2>3, EndIsRead, LeftAlone
  <2>4. CASE m.what = "side" /\ SeeSide(m)
    BY <1>2, <2>4, SideIsRead DEF AsksKept
  <2> QED BY <2>1, <2>2, <2>3, <2>4 DEF Watch
<1>4. Held' /\ ResolvedFits'
  BY <1>1, <1>3, ReadHolds DEF AsksKept, ReadFits
<1>5. TurnsCount'
  BY <1>3, TurnsGo DEF AsksKept, ReadFits
<1>6. SideKnown'
  BY <1>3, SidesStay DEF AsksKept, ReadFits, ReadKeeps, SqKeeps
<1> QED BY <1>4, <1>5, <1>6 DEF AsksKept

\* Every step keeps what is open held.
LEMMA NextKeepsAsks ==
    ASSUME CxTyped, CallsFit, NamesKept, PlacesKept, AsksKept, CxNext PROVE AsksKept'
<1>1. ASSUME NEW r \in CxRuns,
             StartRun(r) \/ OpenThread(r) \/ Cancel(r) \/ Close(r) \/ StopClient(r)
             \/ StartClient(r) \/ RestartFails(r)
      PROVE  AsksKept'
  BY <1>1, StartRunAsks, OpenThreadAsks, OwnerAsks, StopAsks, RestartAsks, RestartFailsAsks
<1>2. ASSUME NEW r \in CxRuns, ServerAsks(r) \/ ServerResolves(r) \/ ServerEnds(r) PROVE AsksKept'
  BY <1>2, ServerAsksAsks, ServerResolvesAsks, ServerEndsAsks
<1>3. ASSUME NEW r \in CxRuns, NEW c \in Callers,
             SteerRun(r, c) \/ Query(r, c) \/ Respond(r, c) \/ CallStep(r, c) \/ GivesUp(r, c)
      PROVE  AsksKept'
  BY <1>3, OwnerAsks, StartTurnAsks, SideGoneAsks, SteerTurnAsks, ForkAsks, StartSideAsks,
     AnswerSentAsks, TellAsks, InterruptAsks, FinishAsks, GivesUpAsks DEF CallStep
<1>4. ASSUME NEW y \in Sides,
             SideTimesOut(y) \/ DisposeSide(y) \/ ReleaseSide(y) \/ ServerEndsSide(y)
      PROVE  AsksKept'
  BY <1>4, TaskAsks, DisposeAsks, EndsSideAsks
<1> QED BY <1>1, <1>2, <1>3, <1>4, WatchAsks, ServerDiesAsks, Zenon DEF CxNext

-----------------------------------------------------------------------------
(* The theorems.                                                             *)

CxInv == CxTyped /\ CallsFit /\ NamesKept /\ PlacesKept /\ AsksKept

\* Every step writes states of the program.
LEMMA NextTypes == ASSUME CxTyped, CallsFit, NamesKept, AsksKept, CxNext PROVE CxTyped'
<1>1. ASSUME NEW r \in CxRuns,
             StartRun(r) \/ OpenThread(r) \/ Cancel(r) \/ Close(r) \/ StopClient(r)
             \/ StartClient(r) \/ RestartFails(r)
      PROVE  CxTyped'
  <2>1. "owner" \in Callers
    BY DEF Callers
  <2> QED BY <1>1, <2>1, StartRunTypes, OpenThreadTypes, OwnerTypes, CloseTypes, StopTypes,
             StartClientTypes, RestartFailsTypes
<1>2. ASSUME NEW r \in CxRuns, ServerAsks(r) \/ ServerResolves(r) \/ ServerEnds(r) PROVE CxTyped'
  BY <1>2, AsksTypes, ResolvesTypes, EndsTypes DEF AsksKept
<1>3. ASSUME NEW r \in CxRuns, NEW c \in Callers,
             SteerRun(r, c) \/ Query(r, c) \/ Respond(r, c) \/ CallStep(r, c) \/ GivesUp(r, c)
      PROVE  CxTyped'
  BY <1>3, OwnerTypes, RespondTypes, StartTurnTypes, SideGoneTypes, SteerTurnTypes, ForkTypes,
     StartSideTypes, AnswerSentTypes, TellTypes, InterruptTypes, InterruptedTypes, FinishTypes,
     GivesUpTypes
     DEF CallStep, CallsFit, NamesKept
<1>4. ASSUME NEW y \in Sides,
             SideTimesOut(y) \/ DisposeSide(y) \/ ReleaseSide(y) \/ ServerEndsSide(y)
      PROVE  CxTyped'
  BY <1>4, SideTaskTypes, DisposeTypes, EndsSideTypes
<1> QED BY <1>1, <1>2, <1>3, <1>4, WatchTypes, DiesTypes, Zenon DEF CxNext

\* The invariant holds at the start.
LEMMA CxStarts == ASSUME CxInit PROVE CxInv
<1> DEFINE x(r) == [started |-> FALSE, closed |-> FALSE, active |-> 0, reg |-> {},
                    done |-> {}, expected |-> {}, pend |-> {}, side |-> NoQuery,
                    stream |-> "none", queued |-> r \in Queued,
                    overlap |-> FALSE, late |-> FALSE, cut |-> FALSE]
<1>1. /\ \A r \in CxRuns : cx[r] = x(r)
      /\ \A r \in CxRuns, c \in Callers : ccall[r][c] = NoCxCall
      /\ \A y \in Sides : sq[y] = "none" /\ srv.side[y] = "none"
      /\ \A r \in CxRuns : ~srv.busy[r] /\ \A k \in CxAsks : srv.ask[r][k] = "none"
      /\ mail = <<>>
  BY DEF CxInit
<1>2. \A r \in CxRuns : /\ x(r) \in CxRunStates /\ ~x(r).started /\ ~x(r).closed
                        /\ x(r).stream = "none" /\ ~x(r).late
  BY CxAssumption DEF CxRunStates, StreamStates
<1>3. NoCxCall \in CxCalls /\ NoCxCall.pc = "idle" /\ NoCxCall.kind = "none"
  BY DEF NoCxCall, CxCalls
<1>4. CxTyped
  <2>1. srv \in CxServers
    BY CxAssumption DEF CxInit, CxServers, AskStates, SideStates
  <2>2. cx \in [CxRuns -> CxRunStates]
    <3>1. cx = [r \in CxRuns |-> x(r)]
      BY DEF CxInit
    <3> HIDE DEF x
    <3> QED BY <1>2, <3>1
  <2>3. ccall \in [CxRuns -> [Callers -> CxCalls]]
    <3>1. ccall = [r \in CxRuns |-> [c \in Callers |-> NoCxCall]]
      BY DEF CxInit
    <3> QED BY <1>3, <3>1
  <2>4. sq \in [Sides -> SqStates] /\ cxfaults \in 0..MaxCxFaults /\ mail \in Seq(CxMessages)
    BY CxAssumption DEF CxInit, SqStates
  <2> QED BY <2>1, <2>2, <2>3, <2>4 DEF CxTyped, CxInit
<1> HIDE DEF x
<1>5. CallsFit
  BY <1>1, <1>3 DEF CallsFit, CallFits, Fits
<1>6. NamesKept
  <2>1. ASSUME NEW r \in CxRuns PROVE Cardinality(Asking(r)) <= Cardinality(NewNames(r))
    <3>1. Asking(r) = {}
      BY <1>1, <1>3 DEF Asking
    <3>2. Cardinality(Asking(r)) = 0
      BY <3>1, FS_EmptySet
    <3> QED BY <3>2, NamesFinite
  <2> QED BY <1>1, <1>3, <2>1 DEF NamesKept, NamesLeft, Forked
<1>7. PlacesKept
  BY <1>1, <1>2, <1>3 DEF PlacesKept, RunFitsPlace, PlaceFits, InUse
<1>8. AsksKept
  BY <1>1 DEF AsksKept, TurnsCount, Held, ResolvedFits, SideKnown, Live
<1> QED BY <1>4, <1>5, <1>6, <1>7, <1>8 DEF CxInv

\* What runs, calls, messages and side queries of the worker are: the inductive
\* invariant of every execution.
THEOREM CodexInvariance == CxSpec => []CxInv
<1>1. CxInit => CxInv
  BY CxStarts
<1>2. CxInv /\ [CxNext]_cxVars => CxInv'
  <2> SUFFICES ASSUME CxInv, [CxNext]_cxVars PROVE CxInv'
    OBVIOUS
  <2>1. CASE CxNext
    <3>1. CxTyped'
      BY <2>1, NextTypes DEF CxInv
    <3>2. CallsFit' /\ PlacesKept'
      BY <2>1, NextKeepsPlaces DEF CxInv, NamesKept
    <3>3. NamesKept'
      BY <2>1, NextKeepsNames DEF CxInv
    <3>4. AsksKept'
      BY <2>1, NextKeepsAsks DEF CxInv
    <3> QED BY <3>1, <3>2, <3>3, <3>4 DEF CxInv
  <2>2. CASE UNCHANGED cxVars
    BY <2>2 DEF CxInv, cxVars, CxTyped, CallsFit, CallFits, NamesKept, NamesLeft, Forked,
       Asking, CallAt, NewNames, PlacesKept, RunFitsPlace, PlaceFits, InUse, Overtaken, AtWork,
       AsksKept, TurnsCount, Held, HeldBy, NoEnd, ResolvedFits, SideKnown
  <2> QED BY <2>1, <2>2
<1> QED BY <1>1, <1>2, PTL DEF CxSpec

\* The state of the worker is always of its type.
THEOREM CodexTypeOK == CxSpec => []CxTypeOK
<1>1. CxInv => CxTypeOK
  <2> SUFFICES ASSUME CxInv PROVE CxTypeOK
    OBVIOUS
  <2>1. CxTyped
    BY DEF CxInv
  <2>2. ServerFits(srv)
    BY <2>1, ServerIs DEF CxTyped
  <2> QED BY <2>1, <2>2 DEF CxTypeOK, CxTyped, ServerFits, AskStates, SideStates, SqStates,
      CxRunStates, StreamStates, CxCalls
<1> QED BY <1>1, CodexInvariance, PTL

\* A worker never waits for an answer nobody is going to give: an open question of a
\* run in use is held by the run, or is on its way, unless two of its side queries
\* overlapped; also when requests fail and the process dies.
THEOREM AskIsHeldAlways == CxSpec => []AskIsHeld
<1>1. CxInv => AskIsHeld
  BY DEF CxInv, AsksKept, Held, HeldBy, IsAsk, AskIsHeld, InUse
<1> QED BY <1>1, CodexInvariance, PTL

\* A run in use has the backend's slot, and the tool router once it works, until a
\* steer was overtaken by its run's end.
THEOREM RunKeepsItsPlaceAlways == CxSpec => []RunKeepsItsPlace
<1>1. CxInv => RunKeepsItsPlace
  BY DEF CxInv, PlacesKept, RunFitsPlace, AtWork, RunKeepsItsPlace
<1> QED BY <1>1, CodexInvariance, PTL
================================================================================
