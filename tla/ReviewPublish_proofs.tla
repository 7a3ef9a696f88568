------------------------ MODULE ReviewPublish_proofs ------------------------
(***************************************************************************)
(* Theorems about ReviewPublish and their proofs: what reaches the         *)
(* customer's repository was reviewed, and the machinery implements the    *)
(* abstract gate of ReviewGate.                                            *)
(*                                                                         *)
(* Most actions are quiet: they touch neither the decision nor what is     *)
(* reviewed or published.  The six that do are treated one by one.         *)
(***************************************************************************)
EXTENDS ReviewPublish, TLAPS

-----------------------------------------------------------------------------
(***************************************************************************)
(* The inductive invariant.                                                *)
(***************************************************************************)
\* A publisher that found the job approved; one whose patch was verified.
ClearedPC  == {"pb_run", "pb_diff", "pb_head", "pb_moved", "pb_start", "pb_push",
               "pb_meta", "pb_find", "pb_open", "pb_save", "pb_done", "pb_undo",
               "pb_fail"}
VerifiedPC == {"pb_head", "pb_moved", "pb_start", "pb_push"}

\* A binding in the job row or in a publisher's hands names a reviewed patch.
SoundBinding(b, rev) == b.run # 0 => b.patch \in rev

\* What an actor's program counter says about what it holds.
Sound(x, dec, rev) ==
    /\ SoundBinding(x.bound, rev)
    /\ x.pc = "ap_diff" => x.patch \in Patches
    /\ x.pc \in {"ap_save", "ap_bind"} => x.patch \in rev
    /\ x.pc \in ClearedPC => dec = "approved"
    /\ x.pc = "pb_diff" => x.run # 0
    /\ x.pc \in VerifiedPC => x.patch \in rev

DecisionReviewed == decision = "approved" => reviewed # {}
BindingReviewed  == SoundBinding(job.bound, reviewed)
ActorsSound      == \A p \in Procs : Sound(proc[p], decision, reviewed)
BranchReviewed   == branch # NoPatch => branch \in reviewed /\ decision = "approved"

IInv == /\ TypeOK /\ DecisionReviewed /\ BindingReviewed /\ ActorsSound
        /\ BranchReviewed /\ PullRequestWasReviewed

-----------------------------------------------------------------------------
(***************************************************************************)
(* Quiet steps.                                                            *)
(***************************************************************************)
JobRow   == [status: Status, diff: Content, bound: Binding, meta: {0} \cup Numbers]
JobQuiet == job' \in JobRow /\ SoundBinding(job'.bound, reviewed)

ProcQuiet == /\ proc' \in [Procs -> Proc]
             /\ \A p \in Procs : Sound(proc'[p], decision, reviewed)

\* Runs, the base branch and the crashes are of no concern to the gate.
RestQuiet == /\ runs' \in Runs /\ patchOf' \in [Runs -> Content]
             /\ moved' \in BOOLEAN /\ crashes' \in 0..MaxCrashes

GateQuiet == /\ decision' = decision /\ reviewed' = reviewed
             /\ branch' = branch /\ prs' = prs

Quiet == JobQuiet /\ ProcQuiet /\ RestQuiet /\ GateQuiet

\* A quiet step keeps the invariant.
LEMMA QuietKeeps ==
  ASSUME IInv, Quiet
  PROVE  IInv'
<1>1. TypeOK'
  BY DEF IInv, TypeOK, Quiet, JobQuiet, JobRow, ProcQuiet, RestQuiet, GateQuiet
<1>2. DecisionReviewed' /\ BranchReviewed' /\ PullRequestWasReviewed'
  BY DEF IInv, Quiet, GateQuiet, DecisionReviewed, BranchReviewed,
         PullRequestWasReviewed
<1>3. BindingReviewed' /\ ActorsSound'
  BY DEF Quiet, JobQuiet, ProcQuiet, GateQuiet, BindingReviewed, ActorsSound
<1>4. QED
  BY <1>1, <1>2, <1>3 DEF IInv

\* What a step leaves unchanged is quiet.
LEMMA Keep ==
  ASSUME IInv
  PROVE  /\ job' = job => JobQuiet
         /\ proc' = proc => ProcQuiet
         /\ UNCHANGED <<runs, patchOf, moved, crashes>> => RestQuiet
<1>1. job' = job => JobQuiet
  BY DEF IInv, TypeOK, JobQuiet, JobRow, BindingReviewed
<1>2. proc' = proc => ProcQuiet
  BY DEF IInv, TypeOK, ProcQuiet, ActorsSound
<1>3. UNCHANGED <<runs, patchOf, moved, crashes>> => RestQuiet
  BY DEF IInv, TypeOK, RestQuiet
<1>4. QED
  BY <1>1, <1>2, <1>3

\* Writing the status of the job is quiet.
LEMMA StatusStep ==
  ASSUME IInv, NEW s \in Status, SetStatus(s)
  PROVE  JobQuiet
  BY DEF IInv, TypeOK, SetStatus, JobQuiet, JobRow, BindingReviewed

\* An idle actor is well typed and holds nothing.
LEMMA IdleSound ==
  ASSUME NEW dec, NEW rev, NEW l \in {"idle", "queued", "ex_job"}
  PROVE  [Idle EXCEPT !.pc = l] \in Proc /\ Sound([Idle EXCEPT !.pc = l], dec, rev)
<1>1. NoBinding \in Binding /\ NoBinding.run = 0
  BY DEF NoBinding, Binding, Content
<1>2. [Idle EXCEPT !.pc = l] \in Proc
  BY <1>1 DEF Idle, Proc, PC, Content
<1>3. /\ [Idle EXCEPT !.pc = l].pc = l
      /\ [Idle EXCEPT !.pc = l].bound = NoBinding
  BY DEF Idle
<1>4. l \notin ClearedPC /\ l \notin VerifiedPC /\ l \notin {"ap_save", "ap_bind"}
  BY DEF ClearedPC, VerifiedPC
<1>5. QED
  BY <1>1, <1>2, <1>3, <1>4 DEF Sound, SoundBinding

\* Replacing what one actor does by a well typed and sound record.
LEMMA ProcStep ==
  ASSUME IInv, NEW p \in Procs, NEW x \in Proc, proc' = [proc EXCEPT ![p] = x],
         Sound(x, decision, reviewed)
  PROVE  ProcQuiet
<1>1. proc \in [Procs -> Proc]
  BY DEF IInv, TypeOK
<1>2. proc' \in [Procs -> Proc] /\ proc'[p] = x
      /\ \A q \in Procs : q # p => proc'[q] = proc[q]
  BY <1>1
<1>3. QED
  BY <1>2 DEF IInv, ActorsSound, ProcQuiet

\* An actor that is done.
LEMMA FinishStep ==
  ASSUME IInv, NEW p \in Procs, Finish(p)
  PROVE  ProcQuiet
<1>1. Idle = [Idle EXCEPT !.pc = "idle"]
  BY DEF Idle
<1>2. Idle \in Proc /\ Sound(Idle, decision, reviewed)
  BY <1>1, IdleSound
<1>3. QED
  BY <1>2, ProcStep DEF Finish

\* An actor that moves on, to a place whose claims on what it holds are met.
LEMMA GotoStep ==
  ASSUME IInv, NEW p \in Procs, NEW l \in PC, Goto(p, l),
         l \notin {"ap_diff", "pb_diff"},
         l \in {"ap_save", "ap_bind"} \cup VerifiedPC => proc[p].patch \in reviewed,
         l \in ClearedPC => decision = "approved"
  PROVE  ProcQuiet
<1> DEFINE x == [proc[p] EXCEPT !.pc = l]
<1>1. proc[p] \in Proc /\ SoundBinding(proc[p].bound, reviewed)
  BY DEF IInv, TypeOK, ActorsSound, Sound
<1>2. /\ x \in Proc /\ x.pc = l /\ x.bound = proc[p].bound
      /\ x.patch = proc[p].patch
  BY <1>1 DEF Proc
<1>3. Sound(x, decision, reviewed)
  BY <1>1, <1>2 DEF Sound
<1>4. proc' = [proc EXCEPT ![p] = x]
  BY DEF Goto
<1>5. QED
  BY <1>2, <1>3, <1>4, ProcStep

-----------------------------------------------------------------------------
(***************************************************************************)
(* The quiet actions.                                                      *)
(***************************************************************************)
\* What a quiet action must still show when it leaves the gate alone.
LEMMA QuietParts ==
  ASSUME IInv, GateQuiet, UNCHANGED <<runs, patchOf, moved, crashes>>,
         JobQuiet \/ job' = job, ProcQuiet
  PROVE  Quiet
  BY Keep DEF Quiet

\* The parts of an approval that only read, bind what was reviewed, or write the
\* status.
LEMMA QuietApprove ==
  ASSUME IInv, NEW a \in Approvers,
         \/ ApproveStart(a) \/ ApproveReadRun(a) \/ ApproveBind(a)
         \/ ApproveStatus(a) \/ ApproveEnqueue(a)
  PROVE  Quiet
<1>0. a \in Procs /\ proc[a] \in Proc /\ Sound(proc[a], decision, reviewed)
  BY DEF Procs, Web, IInv, TypeOK, ActorsSound
<1>1. CASE ApproveStart(a)
  <2>1. ProcQuiet
    <3>1. "ap_run" \in PC /\ "ap_run" \notin ClearedPC \cup VerifiedPC
      BY DEF PC, ClearedPC, VerifiedPC
    <3>2. QED
      BY <1>0, <1>1, <3>1, GotoStep DEF ApproveStart
  <2>2. QED
    BY <1>1, <2>1, QuietParts DEF ApproveStart, GateQuiet, github
<1>2. CASE ApproveReadRun(a)
  <2>1. CASE patchOf[runs] = NoPatch
    BY <1>0, <1>2, <2>1, FinishStep, QuietParts DEF ApproveReadRun, GateQuiet, github
  <2>2. CASE patchOf[runs] # NoPatch
    <3> DEFINE x == [Idle EXCEPT !.pc = "ap_diff", !.run = runs, !.patch = patchOf[runs]]
    <3>1. patchOf[runs] \in Patches /\ runs \in Runs
      BY <2>2 DEF IInv, TypeOK, Content
    <3>2. NoBinding \in Binding /\ NoBinding.run = 0
      BY DEF NoBinding, Binding, Content
    <3>3. "ap_diff" \in PC /\ "ap_diff" \notin ClearedPC \cup VerifiedPC
      BY DEF PC, ClearedPC, VerifiedPC
    <3>4. /\ x \in Proc /\ x.pc = "ap_diff" /\ x.bound = NoBinding
          /\ x.patch = patchOf[runs]
      BY <3>1, <3>2, <3>3 DEF Idle, Proc, Content
    <3>5. Sound(x, decision, reviewed)
      BY <3>1, <3>2, <3>3, <3>4 DEF Sound, SoundBinding
    <3>6. proc' = [proc EXCEPT ![a] = x]
      BY <1>2, <2>2 DEF ApproveReadRun
    <3>7. ProcQuiet
      BY <1>0, <3>4, <3>5, <3>6, ProcStep
    <3>8. QED
      BY <1>2, <3>7, QuietParts DEF ApproveReadRun, GateQuiet, github
  <2>3. QED
    BY <2>1, <2>2
<1>3. CASE ApproveBind(a)
  <2>1. proc[a].patch \in reviewed /\ proc[a].run \in {0} \cup Runs
    BY <1>0, <1>3 DEF ApproveBind, At, Sound, Proc
  <2> DEFINE b == [run |-> proc[a].run, patch |-> proc[a].patch, expired |-> FALSE]
  <2>2. b \in Binding /\ SoundBinding(b, reviewed)
    BY <1>0, <2>1 DEF Binding, SoundBinding, Proc
  <2>3. job' = [job EXCEPT !.bound = b] /\ job \in JobRow
    BY <1>3 DEF ApproveBind, IInv, TypeOK, JobRow
  <2> HIDE DEF b
  <2>4. JobQuiet
    BY <2>2, <2>3 DEF JobQuiet, JobRow
  <2>5. ProcQuiet
    <3>1. "ap_status" \in PC /\ "ap_status" \notin ClearedPC \cup VerifiedPC
      BY DEF PC, ClearedPC, VerifiedPC
    <3>2. QED
      BY <1>0, <1>3, <3>1, GotoStep DEF ApproveBind
  <2>6. QED
    BY <1>3, <2>4, <2>5, QuietParts DEF ApproveBind, GateQuiet, github
<1>4. CASE ApproveStatus(a)
  <2>1. JobQuiet
    BY <1>4, StatusStep DEF ApproveStatus, Status
  <2>2. ProcQuiet
    <3>1. "ap_enqueue" \in PC /\ "ap_enqueue" \notin ClearedPC \cup VerifiedPC
      BY DEF PC, ClearedPC, VerifiedPC
    <3>2. QED
      BY <1>0, <1>4, <3>1, GotoStep, FinishStep DEF ApproveStatus
  <2>3. QED
    BY <1>4, <2>1, <2>2, QuietParts DEF ApproveStatus, GateQuiet, github
<1>5. CASE ApproveEnqueue(a)
  <2>1. CASE Finish(a)
    BY <1>0, <1>5, <2>1, FinishStep, QuietParts DEF ApproveEnqueue, GateQuiet, github
  <2>2. CASE \E t \in Publishers :
               /\ At(t, "idle")
               /\ proc' = [proc EXCEPT ![a] = Idle, ![t].pc = "queued"]
    <3>1. PICK t \in Publishers :
               proc' = [proc EXCEPT ![a] = Idle, ![t].pc = "queued"]
      BY <2>2
    <3>2. t \in Procs /\ t # a
      BY ActorsAssumption DEF Procs, Web
    <3> DEFINE x == [proc[t] EXCEPT !.pc = "queued"]
    <3>3. Idle \in Proc /\ Sound(Idle, decision, reviewed)
      <4>1. Idle = [Idle EXCEPT !.pc = "idle"]
        BY DEF Idle
      <4>2. QED
        BY <4>1, IdleSound
    <3>4. x \in Proc /\ Sound(x, decision, reviewed)
      <4>1. "queued" \in PC /\ "queued" \notin ClearedPC \cup VerifiedPC
        BY DEF PC, ClearedPC, VerifiedPC
      <4>2. proc[t] \in Proc /\ Sound(proc[t], decision, reviewed)
        BY <3>2 DEF IInv, TypeOK, ActorsSound
      <4>3. x \in Proc /\ x.pc = "queued" /\ x.bound = proc[t].bound
        BY <4>1, <4>2 DEF Proc
      <4>4. QED
        BY <4>1, <4>2, <4>3 DEF Sound
    <3>5. /\ proc' \in [Procs -> Proc] /\ proc'[a] = Idle /\ proc'[t] = x
          /\ \A q \in Procs : q \notin {a, t} => proc'[q] = proc[q]
      <4>1. proc \in [Procs -> Proc]
        BY DEF IInv, TypeOK
      <4>2. proc' = [proc EXCEPT ![a] = Idle, ![t] = x]
        BY <3>1, <3>2, <4>1, <1>0
      <4> HIDE DEF x
      <4>3. QED
        BY <1>0, <3>2, <3>3, <3>4, <4>1, <4>2
    <3> HIDE DEF x
    <3>6. ProcQuiet
      BY <3>3, <3>4, <3>5 DEF ProcQuiet, IInv, ActorsSound
    <3>7. QED
      BY <1>5, <3>6, QuietParts DEF ApproveEnqueue, GateQuiet, github
  <2>3. QED
    BY <1>5, <2>1, <2>2 DEF ApproveEnqueue, Enqueue
<1>6. QED
  BY <1>1, <1>2, <1>3, <1>4, <1>5

\* Program counters that claim nothing of what the actor holds.
FreePC == {"idle", "queued", "rj_save", "rj_status", "cn_set", "ex_patch", "ex_diff",
           "ex_job", "ex_gate", "ex_fail", "pb_approval"}

\* Moving to one of them is quiet.
LEMMA FreeStep ==
  ASSUME IInv, NEW p \in Procs, NEW l \in FreePC, Goto(p, l)
  PROVE  ProcQuiet
<1>1. /\ l \in PC /\ l \notin ClearedPC /\ l \notin VerifiedPC
      /\ l \notin {"ap_diff", "pb_diff", "ap_save", "ap_bind"}
  BY DEF FreePC, PC, ClearedPC, VerifiedPC
<1>2. QED
  BY <1>1, GotoStep

\* Rejections, cancellations and a publish request leave the gate alone, but for
\* recording the decision.
LEMMA QuietUsers ==
  ASSUME IInv, PublishRun \/ \E p \in Web : \/ RejectStart(p) \/ RejectStatus(p)
                                           \/ CancelStart(p) \/ CancelSet(p)
  PROVE  Quiet
<1>1. CASE PublishRun
  <2>1. PICK t \in Publishers : Goto(t, "queued")
    BY <1>1 DEF PublishRun
  <2>2. ProcQuiet
    BY <2>1, FreeStep DEF Procs, FreePC
  <2>3. QED
    BY <1>1, <2>2, QuietParts DEF PublishRun, GateQuiet, github
<1>2. ASSUME NEW p \in Web, RejectStart(p) \/ CancelStart(p)
      PROVE  Quiet
  <2>1. ProcQuiet
    BY <1>2, FreeStep DEF RejectStart, CancelStart, Procs, FreePC
  <2>2. QED
    BY <1>2, <2>1, QuietParts DEF RejectStart, CancelStart, GateQuiet, github
<1>3. ASSUME NEW p \in Web, RejectStatus(p) \/ CancelSet(p)
      PROVE  Quiet
  <2>1. ProcQuiet
    BY <1>3, FinishStep DEF RejectStatus, CancelSet, Procs
  <2>2. {"rejected", "approved", "cancelled"} \subseteq Status
    BY DEF Status, Terminal
  <2>3. JobQuiet
    BY <1>3, <2>2, StatusStep DEF RejectStatus, CancelSet
  <2>4. QED
    BY <1>3, <2>1, <2>3, QuietParts DEF RejectStatus, CancelSet, GateQuiet, github
<1>4. QED
  BY <1>1, <1>2, <1>3

\* The callbacks of further runs change the stored diff and the latest run, and
\* never what was reviewed or bound.
LEMMA QuietExecutor ==
  ASSUME IInv, NEW e \in Web,
         \/ NewRun(e) \/ CompletePatch(e) \/ CompleteDiff(e)
         \/ CallbackReadJob(e) \/ CompleteGate(e) \/ CallbackFail(e)
  PROVE  Quiet
<1>0. /\ e \in Procs /\ proc[e] \in Proc
      /\ proc[e].patch \in Content /\ proc[e].run \in {0} \cup Runs
      /\ {"awaiting_approval", "failed"} \subseteq Status
  BY DEF Procs, IInv, TypeOK, Proc, Status, Terminal
<1>1. CASE NewRun(e)
  <2>1. runs' \in Runs /\ runs + 1 \in Runs
    <3>1. runs \in 1..MaxRuns /\ runs < MaxRuns /\ runs' = runs + 1
      BY <1>1 DEF NewRun, IInv, TypeOK, Runs
    <3>2. MaxRuns \in Nat
      BY BoundsAssumption
    <3>3. QED
      BY <3>1, <3>2 DEF Runs
  <2>2. ProcQuiet
    <3>1. CASE Goto(e, "ex_job")
      BY <1>0, <3>1, FreeStep DEF FreePC
    <3>2. CASE \E p \in Patches :
                 proc' = [proc EXCEPT ![e] = [Idle EXCEPT !.pc = "ex_patch",
                                                          !.run = runs + 1, !.patch = p]]
      <4>1. PICK p \in Patches :
                 proc' = [proc EXCEPT ![e] = [Idle EXCEPT !.pc = "ex_patch",
                                                          !.run = runs + 1, !.patch = p]]
        BY <3>2
      <4> DEFINE x == [Idle EXCEPT !.pc = "ex_patch", !.run = runs + 1, !.patch = p]
      <4>2. NoBinding \in Binding /\ NoBinding.run = 0
        BY DEF NoBinding, Binding, Content
      <4>3. "ex_patch" \in PC /\ "ex_patch" \notin ClearedPC \cup VerifiedPC
        BY DEF PC, ClearedPC, VerifiedPC
      <4>4. x \in Proc /\ x.pc = "ex_patch" /\ x.bound = NoBinding
        BY <2>1, <4>2, <4>3 DEF Idle, Proc, Content
      <4>5. Sound(x, decision, reviewed)
        BY <4>2, <4>3, <4>4 DEF Sound, SoundBinding
      <4>6. QED
        BY <1>0, <4>1, <4>4, <4>5, ProcStep
    <3>3. QED
      BY <1>1, <3>1, <3>2 DEF NewRun
  <2>3. RestQuiet /\ JobQuiet
    BY <1>1, <2>1, Keep DEF NewRun, RestQuiet, github, IInv, TypeOK
  <2>4. QED
    BY <1>1, <2>2, <2>3 DEF NewRun, Quiet, GateQuiet, github
<1>2. CASE CompletePatch(e)
  <2>1. RestQuiet /\ JobQuiet
    BY <1>0, <1>2, Keep DEF CompletePatch, RestQuiet, github, IInv, TypeOK
  <2>2. ProcQuiet
    BY <1>0, <1>2, FreeStep DEF CompletePatch, FreePC
  <2>3. QED
    BY <1>2, <2>1, <2>2 DEF CompletePatch, Quiet, GateQuiet, github
<1>3. CASE CompleteDiff(e)
  <2>1. job \in JobRow /\ job' = [job EXCEPT !.diff = proc[e].patch]
    BY <1>3 DEF CompleteDiff, IInv, TypeOK, JobRow
  <2>2. JobQuiet
    BY <1>0, <2>1 DEF JobQuiet, JobRow, IInv, BindingReviewed
  <2>3. ProcQuiet
    BY <1>0, <1>3, FreeStep DEF CompleteDiff, FreePC
  <2>4. QED
    BY <1>3, <2>2, <2>3, QuietParts DEF CompleteDiff, GateQuiet, github
<1>4. CASE CallbackReadJob(e)
  <2>1. ProcQuiet
    BY <1>0, <1>4, FinishStep, FreeStep DEF CallbackReadJob, FreePC
  <2>2. QED
    BY <1>4, <2>1, QuietParts DEF CallbackReadJob, GateQuiet, github
<1>5. CASE CompleteGate(e) \/ CallbackFail(e)
  <2>1. ProcQuiet
    BY <1>0, <1>5, FinishStep DEF CompleteGate, CallbackFail
  <2>2. JobQuiet
    BY <1>0, <1>5, StatusStep DEF CompleteGate, CallbackFail
  <2>3. QED
    BY <1>5, <2>1, <2>2, QuietParts DEF CompleteGate, CallbackFail, GateQuiet, github
<1>6. QED
  BY <1>1, <1>2, <1>3, <1>4, <1>5

\* A publisher that reads: what it copies from the job row or verifies is sound.
LEMMA QuietPublishReads ==
  ASSUME IInv, NEW t \in Publishers,
         \/ PublishRead(t) \/ PublishApproval(t) \/ PublishReadRun(t) \/ PublishVerify(t)
  PROVE  Quiet
<1>0. /\ t \in Procs /\ proc[t] \in Proc /\ Sound(proc[t], decision, reviewed)
      /\ job.bound \in Binding /\ SoundBinding(job.bound, reviewed)
      /\ proc \in [Procs -> Proc]
  BY DEF Procs, IInv, TypeOK, ActorsSound, BindingReviewed
<1>1. CASE PublishRead(t)
  <2> DEFINE x == [Idle EXCEPT !.pc = "pb_approval", !.bound = job.bound]
  <2>1. "pb_approval" \in PC /\ "pb_approval" \notin ClearedPC \cup VerifiedPC
    BY DEF PC, ClearedPC, VerifiedPC
  <2>2. x \in Proc /\ x.pc = "pb_approval" /\ x.bound = job.bound
    BY <1>0, <2>1 DEF Idle, Proc, Content
  <2>3. Sound(x, decision, reviewed)
    BY <1>0, <2>1, <2>2 DEF Sound
  <2>4. ProcQuiet
    BY <1>0, <1>1, <2>2, <2>3, ProcStep DEF PublishRead
  <2>5. QED
    BY <1>1, <2>4, QuietParts DEF PublishRead, GateQuiet, github
<1>2. CASE PublishApproval(t)
  <2>1. "pb_run" \in PC /\ "pb_run" \notin VerifiedPC
    BY DEF PC, VerifiedPC
  <2>2. ProcQuiet
    BY <1>0, <1>2, <2>1, FinishStep, GotoStep DEF PublishApproval
  <2>3. QED
    BY <1>2, <2>2, QuietParts DEF PublishApproval, GateQuiet, github
<1>3. CASE PublishReadRun(t)
  <2>1. CASE Finish(t)
    BY <1>0, <1>3, <2>1, FinishStep, QuietParts DEF PublishReadRun, GateQuiet, github
  <2>2. CASE proc' = [proc EXCEPT ![t].pc = "pb_diff", ![t].run = runs]
    <3> DEFINE x == [proc[t] EXCEPT !.pc = "pb_diff", !.run = runs]
    <3>1. runs \in Runs /\ runs # 0
      BY DEF IInv, TypeOK, Runs
    <3>2. "pb_diff" \in PC /\ "pb_diff" \notin VerifiedPC /\ "pb_run" \in ClearedPC
      BY DEF PC, ClearedPC, VerifiedPC
    <3>3. x \in Proc /\ x.pc = "pb_diff" /\ x.run = runs /\ x.bound = proc[t].bound
      BY <1>0, <3>1, <3>2 DEF Proc
    <3>4. decision = "approved"
      BY <1>0, <1>3, <3>2 DEF PublishReadRun, At, Sound
    <3>5. Sound(x, decision, reviewed)
      BY <1>0, <3>1, <3>2, <3>3, <3>4 DEF Sound
    <3>6. proc' = [proc EXCEPT ![t] = x]
      BY <1>0, <2>2
    <3>7. ProcQuiet
      BY <1>0, <3>3, <3>5, <3>6, ProcStep
    <3>8. QED
      BY <1>3, <3>7, QuietParts DEF PublishReadRun, GateQuiet, github
  <2>3. QED
    BY <1>3, <2>1, <2>2 DEF PublishReadRun
<1>4. CASE PublishVerify(t)
  <2>1. CASE Finish(t)
    BY <1>0, <1>4, <2>1, FinishStep, QuietParts DEF PublishVerify, GateQuiet, github
  <2>2. CASE /\ proc[t].bound.run = proc[t].run /\ job.diff = proc[t].bound.patch
             /\ proc' = [proc EXCEPT ![t].pc = "pb_head", ![t].patch = job.diff]
    <3> DEFINE x == [proc[t] EXCEPT !.pc = "pb_head", !.patch = job.diff]
    <3>1. proc[t].run # 0 /\ decision = "approved"
      BY <1>0, <1>4 DEF PublishVerify, At, Sound, ClearedPC
    <3>2. job.diff \in reviewed /\ job.diff \in Content
      BY <1>0, <2>2, <3>1 DEF Sound, SoundBinding, IInv, TypeOK
    <3>3. "pb_head" \in PC
      BY DEF PC
    <3>4. x \in Proc /\ x.pc = "pb_head" /\ x.patch = job.diff /\ x.bound = proc[t].bound
      BY <1>0, <3>2, <3>3 DEF Proc
    <3>5. Sound(x, decision, reviewed)
      BY <1>0, <3>1, <3>2, <3>4 DEF Sound
    <3>6. proc' = [proc EXCEPT ![t] = x]
      BY <1>0, <2>2
    <3>7. ProcQuiet
      BY <1>0, <3>4, <3>5, <3>6, ProcStep
    <3>8. QED
      BY <1>4, <3>7, QuietParts DEF PublishVerify, GateQuiet, github
  <2>3. QED
    BY <1>4, <2>1, <2>2 DEF PublishVerify
<1>5. QED
  BY <1>1, <1>2, <1>3, <1>4

\* The rest of a publisher's work on the job and its reads of GitHub.
LEMMA QuietPublishRest ==
  ASSUME IInv, NEW t \in Publishers,
         \/ PublishHead(t) \/ PublishMoved(t) \/ PublishStart(t) \/ PublishReadMeta(t)
         \/ PublishFind(t) \/ PublishSave(t) \/ PublishDone(t) \/ PublishFail(t)
  PROVE  Quiet
<1>0. /\ t \in Procs /\ proc[t] \in Proc /\ Sound(proc[t], decision, reviewed)
      /\ proc \in [Procs -> Proc] /\ job \in JobRow
      /\ {"failed", "publishing", "completed"} \subseteq Status
      /\ VerifiedPC \cup ClearedPC \subseteq PC
  BY DEF Procs, IInv, TypeOK, ActorsSound, JobRow, Status, Terminal, PC, ClearedPC,
         VerifiedPC
<1>1. proc[t].pc \in ClearedPC /\ decision = "approved"
  BY <1>0 DEF Sound, ClearedPC, At, PublishHead, PublishMoved, PublishStart,
        PublishReadMeta, PublishFind, PublishSave, PublishDone, PublishFail
<1>2. CASE PublishHead(t)
  <2>1. proc[t].patch \in reviewed
    BY <1>0, <1>2 DEF PublishHead, At, Sound, VerifiedPC
  <2>2. ProcQuiet
    BY <1>0, <1>1, <1>2, <2>1, FinishStep, GotoStep DEF PublishHead, PC
  <2>3. QED
    BY <1>2, <2>2, QuietParts DEF PublishHead, GateQuiet, github
<1>3. CASE PublishStart(t)
  <2>1. proc[t].patch \in reviewed
    BY <1>0, <1>3 DEF PublishStart, At, Sound, VerifiedPC
  <2>2. ProcQuiet
    BY <1>0, <1>1, <1>3, <2>1, GotoStep DEF PublishStart, PC
  <2>3. JobQuiet
    BY <1>0, <1>3, StatusStep DEF PublishStart
  <2>4. QED
    BY <1>3, <2>2, <2>3, QuietParts DEF PublishStart, GateQuiet, github
<1>4. CASE PublishMoved(t) \/ PublishDone(t) \/ PublishFail(t)
  <2>1. ProcQuiet
    BY <1>0, <1>4, FinishStep DEF PublishMoved, PublishDone, PublishFail
  <2>2. JobQuiet
    BY <1>0, <1>4, StatusStep DEF PublishMoved, PublishDone, PublishFail
  <2>3. QED
    BY <1>4, <2>1, <2>2, QuietParts
       DEF PublishMoved, PublishDone, PublishFail, GateQuiet, github
<1>5. ASSUME NEW n \in {0} \cup Numbers,
             proc' = [proc EXCEPT ![t].pc = "pb_save", ![t].pr = n]
      PROVE  ProcQuiet
  <2> DEFINE x == [proc[t] EXCEPT !.pc = "pb_save", !.pr = n]
  <2>1. /\ "pb_save" \in PC /\ "pb_save" \notin VerifiedPC
    BY DEF PC, VerifiedPC
  <2>2. x \in Proc /\ x.pc = "pb_save" /\ x.bound = proc[t].bound
    BY <1>0, <2>1 DEF Proc
  <2>3. Sound(x, decision, reviewed)
    BY <1>0, <1>1, <2>1, <2>2 DEF Sound
  <2>4. proc' = [proc EXCEPT ![t] = x]
    BY <1>0, <1>5
  <2>5. QED
    BY <1>0, <2>2, <2>3, <2>4, ProcStep
<1>6. ASSUME NEW l \in {"pb_find", "pb_undo", "pb_open", "pb_done"}, Goto(t, l)
      PROVE  ProcQuiet
  <2>1. l \in PC /\ l \notin VerifiedPC
    BY <1>6 DEF PC, VerifiedPC
  <2>2. QED
    BY <1>0, <1>1, <1>6, <2>1, GotoStep
<1>7. CASE PublishReadMeta(t)
  <2>1. ProcQuiet
    BY <1>0, <1>5, <1>6, <1>7 DEF PublishReadMeta, JobRow
  <2>2. QED
    BY <1>7, <2>1, QuietParts DEF PublishReadMeta, GateQuiet, github
<1>8. CASE PublishFind(t)
  <2>1. ProcQuiet
    BY <1>5, <1>6, <1>8 DEF PublishFind, Open
  <2>2. QED
    BY <1>8, <2>1, QuietParts DEF PublishFind, GateQuiet, github
<1>9. CASE PublishSave(t)
  <2>1. proc[t].pr \in {0} \cup Numbers
    BY <1>0 DEF Proc
  <2>2. ProcQuiet
    BY <1>6, <1>9 DEF PublishSave
  <2>3. JobQuiet
    BY <1>0, <1>9, <2>1 DEF PublishSave, JobQuiet, JobRow, IInv, BindingReviewed
  <2>4. QED
    BY <1>9, <2>2, <2>3, QuietParts DEF PublishSave, GateQuiet, github
<1>10. QED
  BY <1>2, <1>3, <1>4, <1>7, <1>8, <1>9

\* An expiry, a moved base and a crash take nothing back that was promised.
LEMMA QuietWorld ==
  ASSUME IInv, \/ ApprovalExpires \/ BaseMoves \/ CrashWeb
               \/ \E t \in Publishers : CrashWorker(t)
  PROVE  Quiet
<1>0. /\ proc \in [Procs -> Proc] /\ job \in JobRow
      /\ \A l \in {"idle", "queued"} :
            [Idle EXCEPT !.pc = l] \in Proc
            /\ Sound([Idle EXCEPT !.pc = l], decision, reviewed)
      /\ Idle = [Idle EXCEPT !.pc = "idle"]
  BY IdleSound DEF IInv, TypeOK, JobRow, Idle
<1>1. CASE ApprovalExpires
  <2> DEFINE b == [job.bound EXCEPT !.expired = TRUE]
  <2>1. job.bound \in Binding /\ SoundBinding(job.bound, reviewed)
    BY <1>0 DEF JobRow, IInv, BindingReviewed
  <2>2. b \in Binding /\ SoundBinding(b, reviewed)
    BY <2>1 DEF Binding, SoundBinding
  <2>3. job' = [job EXCEPT !.bound = b]
    BY <1>0, <1>1 DEF ApprovalExpires, JobRow
  <2> HIDE DEF b
  <2>4. JobQuiet
    BY <1>0, <2>2, <2>3 DEF JobQuiet, JobRow
  <2>5. QED
    BY <1>1, <2>4, Keep, QuietParts DEF ApprovalExpires, GateQuiet, github
<1>2. CASE BaseMoves
  <2>1. RestQuiet /\ JobQuiet /\ ProcQuiet
    BY <1>2, Keep DEF BaseMoves, RestQuiet, IInv, TypeOK
  <2>2. QED
    BY <1>2, <2>1 DEF BaseMoves, Quiet, GateQuiet
<1>3. ASSUME crashes < MaxCrashes, crashes' = crashes + 1
      PROVE  crashes' \in 0..MaxCrashes
  <2>1. crashes \in 0..MaxCrashes /\ MaxCrashes \in Nat
    BY BoundsAssumption DEF IInv, TypeOK
  <2>2. QED
    BY <1>3, <2>1
<1>4. CASE CrashWeb
  <2>1. ProcQuiet
    BY <1>0, <1>4 DEF CrashWeb, ProcQuiet, IInv, ActorsSound
  <2>2. RestQuiet /\ JobQuiet
    BY <1>3, <1>4, Keep DEF CrashWeb, RestQuiet, IInv, TypeOK, github
  <2>3. QED
    BY <1>4, <2>1, <2>2 DEF CrashWeb, Quiet, GateQuiet, github
<1>5. CASE \E t \in Publishers : CrashWorker(t)
  <2>1. PICK t \in Publishers : CrashWorker(t)
    BY <1>5
  <2>2. ProcQuiet
    BY <1>0, <2>1, ProcStep DEF CrashWorker, Procs
  <2>3. RestQuiet /\ JobQuiet
    BY <1>3, <2>1, Keep DEF CrashWorker, RestQuiet, IInv, TypeOK, github
  <2>4. QED
    BY <2>1, <2>2, <2>3 DEF CrashWorker, Quiet, GateQuiet, github
<1>6. QED
  BY <1>1, <1>2, <1>4, <1>5

-----------------------------------------------------------------------------
(***************************************************************************)
(* The actions of the gate.                                                *)
(***************************************************************************)
\* Decisions are final and reviews are kept, so what actors hold stays sound.
LEMMA SoundIsStable ==
  ASSUME NEW x, NEW dec, NEW rev, NEW dec2, NEW rev2,
         Sound(x, dec, rev), rev \subseteq rev2, dec = "approved" => dec2 = "approved"
  PROVE  Sound(x, dec2, rev2)
  BY DEF Sound, SoundBinding

\* The approver finds the stored diff to be the run's patch: a review.
LEMMA ReviewKeeps ==
  ASSUME IInv, NEW a \in Approvers, ApproveReadDiff(a)
  PROVE  IInv' /\ [Gate!Next]_(Gate!vars)
<1>0. /\ a \in Procs /\ proc[a] \in Proc /\ Sound(proc[a], decision, reviewed)
      /\ proc \in [Procs -> Proc] /\ proc[a].pc = "ap_diff"
  BY DEF Procs, Web, IInv, TypeOK, ActorsSound, ApproveReadDiff, At
<1>1. CASE job.diff # proc[a].patch
  <2>1. Quiet
    BY <1>0, <1>1, FinishStep, QuietParts DEF ApproveReadDiff, GateQuiet, github
  <2>2. QED
    BY <2>1, QuietKeeps DEF Quiet, GateQuiet, Gate!vars
<1>2. CASE job.diff = proc[a].patch
  <2> DEFINE x == [proc[a] EXCEPT !.pc = "ap_save"]
             p == proc[a].patch
  <2>1. p \in Patches /\ reviewed' = reviewed \cup {p} /\ decision' = decision
    BY <1>0, <1>2 DEF Sound, ApproveReadDiff
  <2>2. "ap_save" \in PC /\ "ap_save" \notin ClearedPC \cup VerifiedPC
    BY DEF PC, ClearedPC, VerifiedPC
  <2>3. x \in Proc /\ x.pc = "ap_save" /\ x.patch = p /\ x.bound = proc[a].bound
    BY <1>0, <2>2 DEF Proc
  <2>4. Sound(proc[a], decision', reviewed')
    BY <1>0, <2>1, SoundIsStable
  <2>5. Sound(x, decision', reviewed')
    BY <2>1, <2>2, <2>3, <2>4 DEF Sound
  <2>6. proc' = [proc EXCEPT ![a] = x]
    BY <1>2 DEF ApproveReadDiff, Goto
  <2>7. /\ proc' \in [Procs -> Proc] /\ proc'[a] = x
        /\ \A q \in Procs : q # a => proc'[q] = proc[q]
    BY <1>0, <2>3, <2>6
  <2> HIDE DEF x
  <2>8. ActorsSound'
    <3>1. ASSUME NEW q \in Procs, q # a
          PROVE  Sound(proc'[q], decision', reviewed')
      <4>1. Sound(proc[q], decision, reviewed)
        BY DEF IInv, ActorsSound
      <4>2. QED
        BY <2>1, <2>7, <3>1, <4>1, SoundIsStable
    <3>2. QED
      BY <2>5, <2>7, <3>1 DEF ActorsSound
  <2>9. TypeOK'
    BY <1>2, <2>1, <2>7 DEF IInv, TypeOK, ApproveReadDiff, github
  <2>10. DecisionReviewed' /\ BindingReviewed' /\ BranchReviewed' /\ PullRequestWasReviewed'
    BY <1>2, <2>1 DEF IInv, ApproveReadDiff, github, DecisionReviewed, BindingReviewed,
                      BranchReviewed, PullRequestWasReviewed, SoundBinding
  <2>11. Gate!Review(p)
    BY <1>2, <2>1 DEF Gate!Review, ApproveReadDiff, github
  <2>12. QED
    BY <2>1, <2>8, <2>9, <2>10, <2>11 DEF IInv, Gate!Next
<1>3. QED
  BY <1>1, <1>2

\* The actors' part of the invariant in the next state, when one actor moves on
\* and what others rely on grows.
LEMMA ActorsStep ==
  ASSUME IInv, NEW p \in Procs, NEW x \in Proc, proc' = [proc EXCEPT ![p] = x],
         reviewed \subseteq reviewed', decision = "approved" => decision' = "approved",
         Sound(x, decision', reviewed')
  PROVE  proc' \in [Procs -> Proc] /\ ActorsSound'
<1>1. proc \in [Procs -> Proc]
  BY DEF IInv, TypeOK
<1>2. /\ proc' \in [Procs -> Proc] /\ proc'[p] = x
      /\ \A q \in Procs : q # p => proc'[q] = proc[q]
  BY <1>1
<1>3. ASSUME NEW q \in Procs, q # p
      PROVE  Sound(proc'[q], decision', reviewed')
  <2>1. Sound(proc[q], decision, reviewed)
    BY DEF IInv, ActorsSound
  <2>2. QED
    BY <1>2, <1>3, <2>1, SoundIsStable
<1>4. QED
  BY <1>2, <1>3 DEF ActorsSound

\* Recording a decision: the first one is the gate's, a later one changes nothing.
LEMMA DecisionKeeps ==
  ASSUME IInv, NEW p \in Web, (p \in Approvers /\ ApproveSave(p)) \/ RejectSave(p)
  PROVE  IInv' /\ [Gate!Next]_(Gate!vars)
<1>0. /\ p \in Procs /\ proc[p] \in Proc /\ Sound(proc[p], decision, reviewed)
      /\ Idle = [Idle EXCEPT !.pc = "idle"]
      /\ Idle \in Proc
      /\ Sound(Idle, decision', reviewed')
  <2>1. Idle = [Idle EXCEPT !.pc = "idle"]
    BY DEF Idle
  <2>2. QED
    BY <2>1, IdleSound DEF Procs, IInv, TypeOK, ActorsSound
<1>1. PICK d \in {"approved", "rejected"} :
        /\ Record(d)
        /\ d = "approved" => proc[p].patch \in reviewed
        /\ d = "approved" => Finish(p) \/ Goto(p, "ap_bind")
        /\ d = "rejected" => Goto(p, "rj_status")
        /\ UNCHANGED <<job, runs, patchOf, github, crashes, reviewed>>
  BY <1>0 DEF ApproveSave, RejectSave, At, Sound
<1>2. /\ decision' \in {"none", "approved", "rejected"}
      /\ decision # "none" => decision' = decision
      /\ decision = "none" => decision' = d
  BY <1>1 DEF Record, IInv, TypeOK
<1>3. \E x \in Proc : proc' = [proc EXCEPT ![p] = x] /\ Sound(x, decision', reviewed')
  <2>1. CASE Finish(p)
    BY <1>0, <2>1 DEF Finish
  <2>2. ASSUME NEW l \in {"ap_bind", "rj_status"}, Goto(p, l),
               l = "ap_bind" => proc[p].patch \in reviewed
        PROVE  \E x \in Proc : /\ proc' = [proc EXCEPT ![p] = x]
                               /\ Sound(x, decision', reviewed')
    <3> DEFINE x == [proc[p] EXCEPT !.pc = l]
    <3>1. l \in PC /\ l \notin ClearedPC \cup VerifiedPC
      BY DEF PC, ClearedPC, VerifiedPC
    <3>2. x \in Proc /\ x.pc = l /\ x.patch = proc[p].patch /\ x.bound = proc[p].bound
      BY <1>0, <3>1 DEF Proc
    <3>3. Sound(x, decision', reviewed')
      BY <1>0, <1>1, <2>2, <3>1, <3>2 DEF Sound
    <3>4. proc' = [proc EXCEPT ![p] = x]
      BY <2>2 DEF Goto
    <3>5. QED
      BY <3>2, <3>3, <3>4
  <2>3. QED
    BY <1>1, <2>1, <2>2
<1>4. PICK x \in Proc : proc' = [proc EXCEPT ![p] = x] /\ Sound(x, decision', reviewed')
  BY <1>3
<1>5. proc' \in [Procs -> Proc] /\ ActorsSound'
  BY <1>0, <1>1, <1>2, <1>4, ActorsStep
<1>6. TypeOK'
  BY <1>1, <1>2, <1>5 DEF IInv, TypeOK, github
<1>7. DecisionReviewed' /\ BindingReviewed' /\ BranchReviewed' /\ PullRequestWasReviewed'
  BY <1>1, <1>2 DEF IInv, github, DecisionReviewed, BindingReviewed, BranchReviewed,
                    PullRequestWasReviewed
<1>8. [Gate!Next]_(Gate!vars)
  <2>1. CASE decision # "none"
    BY <1>1, <1>2, <2>1 DEF Gate!vars, github
  <2>2. CASE decision = "none"
    <3>1. Gate!Decide(d)
      BY <1>1, <1>2, <2>2 DEF Gate!Decide, github
    <3>2. QED
      BY <3>1 DEF Gate!Next
  <2>3. QED
    BY <2>1, <2>2
<1>9. QED
  BY <1>5, <1>6, <1>7, <1>8 DEF IInv

\* The push publishes a reviewed patch of an approved job; a pull request shows
\* the pushed branch; an undo withdraws.
LEMMA PublishKeeps ==
  ASSUME IInv, NEW t \in Publishers, PublishPush(t) \/ PublishOpen(t) \/ PublishUndo(t)
  PROVE  IInv' /\ [Gate!Next]_(Gate!vars)
<1>0. /\ t \in Procs /\ proc[t] \in Proc /\ Sound(proc[t], decision, reviewed)
      /\ proc \in [Procs -> Proc] /\ job \in JobRow
      /\ proc[t].patch \in Content
  BY DEF Procs, IInv, TypeOK, ActorsSound, JobRow, Proc
<1>1. decision = "approved"
  BY <1>0 DEF Sound, ClearedPC, At, PublishPush, PublishOpen, PublishUndo
<1>2. UNCHANGED <<job, runs, patchOf, decision, moved, crashes, reviewed>>
  BY DEF PublishPush, PublishOpen, PublishUndo
<1>3. ProcQuiet
  <2>1. ASSUME NEW l \in {"pb_meta", "pb_fail", "pb_undo"}, Goto(t, l)
        PROVE  ProcQuiet
    <3>1. l \in PC /\ l \notin VerifiedPC
      BY DEF PC, VerifiedPC
    <3>2. QED
      BY <1>0, <1>1, <2>1, <3>1, GotoStep
  <2>2. ASSUME NEW n \in Numbers,
               proc' = [proc EXCEPT ![t].pc = "pb_save", ![t].pr = n]
        PROVE  ProcQuiet
    <3> DEFINE x == [proc[t] EXCEPT !.pc = "pb_save", !.pr = n]
    <3>1. "pb_save" \in PC /\ "pb_save" \notin VerifiedPC
      BY DEF PC, VerifiedPC
    <3>2. x \in Proc /\ x.pc = "pb_save" /\ x.bound = proc[t].bound
      BY <1>0, <3>1 DEF Proc
    <3>3. Sound(x, decision, reviewed)
      BY <1>0, <1>1, <3>1, <3>2 DEF Sound
    <3>4. proc' = [proc EXCEPT ![t] = x]
      BY <1>0, <2>2
    <3>5. QED
      BY <1>0, <3>2, <3>3, <3>4, ProcStep
  <2>3. QED
    BY <2>1, <2>2 DEF PublishPush, PublishOpen, PublishUndo
<1>4. /\ proc' \in [Procs -> Proc]
      /\ ActorsSound' /\ DecisionReviewed' /\ BindingReviewed'
  BY <1>2, <1>3 DEF ProcQuiet, ActorsSound, DecisionReviewed, BindingReviewed, IInv
<1>5. ASSUME branch' \in Content, prs' \in [Numbers -> PullRequest],
             BranchReviewed', PullRequestWasReviewed'
      PROVE  IInv'
  <2>1. TypeOK'
    BY <1>2, <1>4, <1>5 DEF IInv, TypeOK
  <2>2. QED
    BY <1>4, <1>5, <2>1 DEF IInv
<1>6. CASE PublishPush(t)
  <2>1. prs' = prs /\ (branch' = branch \/ branch' = proc[t].patch)
    BY <1>6 DEF PublishPush
  <2>2. proc[t].patch \in reviewed
    BY <1>0, <1>6 DEF PublishPush, At, Sound, VerifiedPC
  <2>3. IInv'
    <3>1. branch' \in Content /\ prs' \in [Numbers -> PullRequest]
      BY <1>0, <2>1 DEF IInv, TypeOK
    <3>2. BranchReviewed' /\ PullRequestWasReviewed'
      BY <1>1, <1>2, <2>1, <2>2 DEF IInv, BranchReviewed, PullRequestWasReviewed
    <3>3. QED
      BY <1>5, <3>1, <3>2
  <2>4. [Gate!Next]_(Gate!vars)
    <3>1. CASE branch' = branch
      BY <1>2, <3>1 DEF Gate!vars
    <3>2. CASE branch' = proc[t].patch
      <4>1. Gate!Publish(proc[t].patch)
        BY <1>1, <1>2, <2>2, <3>2 DEF Gate!Publish
      <4>2. proc[t].patch \in Patches
        BY <2>2 DEF IInv, TypeOK
      <4>3. QED
        BY <4>1, <4>2 DEF Gate!Next
    <3>3. QED
      BY <2>1, <3>1, <3>2
  <2>5. QED
    BY <2>3, <2>4
<1>7. CASE PublishOpen(t)
  <2>1. branch' = branch
    BY <1>7 DEF PublishOpen
  <2>2. \/ prs' = prs
        \/ /\ branch # NoPatch
           /\ \E n \in Numbers :
                prs' = [prs EXCEPT ![n] = [state |-> "open", patch |-> branch]]
    BY <1>7 DEF PublishOpen
  <2>3. IInv'
    <3>1. prs' \in [Numbers -> PullRequest] /\ branch' \in Content
      BY <2>1, <2>2 DEF IInv, TypeOK, PullRequest
    <3>2. BranchReviewed' /\ PullRequestWasReviewed'
      BY <1>2, <2>1, <2>2 DEF IInv, TypeOK, BranchReviewed, PullRequestWasReviewed
    <3>3. QED
      BY <1>5, <3>1, <3>2
  <2>4. QED
    BY <1>2, <2>1, <2>3 DEF Gate!vars
<1>8. CASE PublishUndo(t)
  <2>1. \/ branch' = branch /\ prs' = prs
        \/ /\ branch' = NoPatch
           /\ prs' = [n \in Numbers |-> IF n \in Open
                        THEN [prs[n] EXCEPT !.state = "closed"] ELSE prs[n]]
    BY <1>8 DEF PublishUndo
  <2>2. IInv'
    <3>1. prs' \in [Numbers -> PullRequest] /\ branch' \in Content
      BY <2>1 DEF IInv, TypeOK, PullRequest, Content
    <3>2. \A n \in Numbers : prs'[n].patch = prs[n].patch
                             /\ (prs'[n].state # "none" => prs[n].state # "none")
      BY <2>1 DEF IInv, TypeOK, PullRequest, Open
    <3>3. BranchReviewed' /\ PullRequestWasReviewed'
      BY <1>2, <2>1, <3>2 DEF IInv, BranchReviewed, PullRequestWasReviewed
    <3>4. QED
      BY <1>5, <3>1, <3>3
  <2>3. [Gate!Next]_(Gate!vars)
    BY <1>2, <2>1 DEF Gate!Withdraw, Gate!Next, Gate!vars
  <2>4. QED
    BY <2>2, <2>3
<1>9. QED
  BY <1>6, <1>7, <1>8

-----------------------------------------------------------------------------
(***************************************************************************)
(* The theorems.                                                           *)
(***************************************************************************)
\* Initially nothing was decided, reviewed, bound or published.
LEMMA InitIInv == Init => IInv /\ Gate!Init
<1> SUFFICES ASSUME Init
             PROVE  IInv /\ Gate!Init
  OBVIOUS
<1>1. NoBinding \in Binding /\ NoBinding.run = 0
  BY DEF NoBinding, Binding, Content
<1>2. Idle \in Proc /\ \A dec, rev : Sound(Idle, dec, rev)
  <2>1. Idle = [Idle EXCEPT !.pc = "idle"]
    BY DEF Idle
  <2>2. QED
    BY <2>1, IdleSound
<1>3. TypeOK
  <2>1. /\ job \in [status: Status, diff: Content, bound: Binding, meta: {0} \cup Numbers]
        /\ patchOf \in [Runs -> Content]
    BY <1>1 DEF Init, Status, Content
  <2>2. runs \in Runs /\ crashes \in 0..MaxCrashes
    BY BoundsAssumption DEF Init, Runs
  <2>3. QED
    BY <1>2, <2>1, <2>2 DEF Init, TypeOK, Content, PullRequest
<1>4. DecisionReviewed /\ BindingReviewed /\ BranchReviewed /\ PullRequestWasReviewed
  BY <1>1 DEF Init, DecisionReviewed, BindingReviewed, SoundBinding, BranchReviewed,
              PullRequestWasReviewed
<1>5. ActorsSound
  BY <1>2 DEF Init, ActorsSound
<1>6. QED
  BY <1>3, <1>4, <1>5 DEF IInv, Init, Gate!Init

\* Every step keeps the invariant and is a step of the gate or none.
LEMMA StepKeeps == IInv /\ [Next]_vars => IInv' /\ [Gate!Next]_(Gate!vars)
<1> SUFFICES ASSUME IInv, [Next]_vars
             PROVE  IInv' /\ [Gate!Next]_(Gate!vars)
  OBVIOUS
<1>1. ASSUME Quiet
      PROVE  IInv' /\ [Gate!Next]_(Gate!vars)
  BY <1>1, QuietKeeps DEF Quiet, GateQuiet, Gate!vars
<1>2. ASSUME NEW a \in Approvers, ApproveStart(a) \/ Approve(a)
      PROVE  IInv' /\ [Gate!Next]_(Gate!vars)
  <2>1. CASE ApproveReadDiff(a)
    BY <2>1, ReviewKeeps
  <2>2. CASE ApproveSave(a)
    BY <2>2, DecisionKeeps DEF Web
  <2>3. CASE \/ ApproveStart(a) \/ ApproveReadRun(a) \/ ApproveBind(a)
             \/ ApproveStatus(a) \/ ApproveEnqueue(a)
    BY <1>1, <2>3, QuietApprove
  <2>4. QED
    BY <1>2, <2>1, <2>2, <2>3 DEF Approve
<1>3. ASSUME NEW p \in Web, Other(p) \/ NewRun(p) \/ RejectStart(p) \/ CancelStart(p)
      PROVE  IInv' /\ [Gate!Next]_(Gate!vars)
  <2>1. CASE RejectSave(p)
    BY <2>1, DecisionKeeps
  <2>2. CASE RejectStart(p) \/ RejectStatus(p) \/ CancelStart(p) \/ CancelSet(p)
    BY <1>1, <2>2, QuietUsers
  <2>3. CASE \/ NewRun(p) \/ CompletePatch(p) \/ CompleteDiff(p)
             \/ CallbackReadJob(p) \/ CompleteGate(p) \/ CallbackFail(p)
    BY <1>1, <2>3, QuietExecutor
  <2>4. QED
    BY <1>3, <2>1, <2>2, <2>3 DEF Other
<1>4. ASSUME NEW t \in Publishers, Publish(t)
      PROVE  IInv' /\ [Gate!Next]_(Gate!vars)
  <2>1. CASE PublishPush(t) \/ PublishOpen(t) \/ PublishUndo(t)
    BY <2>1, PublishKeeps
  <2>2. CASE \/ PublishRead(t) \/ PublishApproval(t) \/ PublishReadRun(t)
             \/ PublishVerify(t)
    BY <1>1, <2>2, QuietPublishReads
  <2>3. CASE \/ PublishHead(t) \/ PublishMoved(t) \/ PublishStart(t)
             \/ PublishReadMeta(t) \/ PublishFind(t) \/ PublishSave(t)
             \/ PublishDone(t) \/ PublishFail(t)
    BY <1>1, <2>3, QuietPublishRest
  <2>4. QED
    BY <1>4, <2>1, <2>2, <2>3 DEF Publish
<1>5. CASE PublishRun
  BY <1>1, <1>5, QuietUsers
<1>6. CASE \/ ApprovalExpires \/ BaseMoves \/ CrashWeb
           \/ \E t \in Publishers : CrashWorker(t)
  BY <1>1, <1>6, QuietWorld
<1>7. CASE UNCHANGED vars
  <2>1. Quiet
    BY <1>7, Keep DEF vars, github, Quiet, GateQuiet
  <2>2. QED
    BY <1>1, <2>1
<1>8. QED
  <2>1. Rejecters \subseteq Web /\ Cancellers \subseteq Web /\ Executors \subseteq Web
    BY DEF Web
  <2>2. QED
    BY <1>2, <1>3, <1>4, <1>5, <1>6, <1>7, <2>1 DEF Next

\* The invariant holds in every reachable state, whatever the number of runs,
\* requests, deliveries, pull requests and crashes.
THEOREM Invariance == Spec => []IInv
<1>1. Init => IInv
  BY InitIInv
<1>2. IInv /\ [Next]_vars => IInv'
  BY StepKeeps
<1>3. QED
  BY <1>1, <1>2, PTL DEF Spec

\* Every variable keeps its type.
THEOREM TypeCorrect == Spec => []TypeOK
<1>1. IInv => TypeOK
  BY DEF IInv
<1>2. QED
  BY <1>1, Invariance, PTL

\* Every pull request shows a patch that an approver was shown, of an approved
\* job, however approvals, rejections, cancellations, further runs, retries of
\* the publishing and crashes interleave.
THEOREM EveryPullRequestWasReviewed == Spec => []PullRequestWasReviewed
<1>1. IInv => PullRequestWasReviewed
  BY DEF IInv
<1>2. QED
  BY <1>1, Invariance, PTL

\* The endpoints and the publishing task implement the abstract gate: one
\* decision, and nothing on the customer's branch but what was reviewed and
\* approved.
THEOREM ImplementsGate == Spec => GateIsKept
<1>1. Init => Gate!Init
  BY InitIInv
<1>2. IInv /\ [Next]_vars => [Gate!Next]_(Gate!vars)
  BY StepKeeps
<1>3. QED
  BY <1>1, <1>2, Invariance, PTL DEF Spec, GateIsKept, Gate!Spec


-----------------------------------------------------------------------------
(***************************************************************************)
(* On the public API's route the status of the job is its decision.        *)
(*                                                                         *)
(* An approval goes on to bind and to write the status only if approving   *)
(* is what was decided; a rejection writes whichever decision it finds;    *)
(* a publisher was cleared by the approval; and a decision is final.       *)
(***************************************************************************)
Agrees(s, dec) == /\ s = "rejected" => dec = "rejected"
                  /\ s \in {"approved", "publishing", "completed"} => dec = "approved"

\* Who is about to write a status knows the decision.
Decided(l, dec) == /\ l \in {"ap_bind", "ap_status", "ap_enqueue"} => dec = "approved"
                   /\ l = "rj_status" => dec # "none"

ActorsDecided == \A p \in Procs : Decided(proc[p].pc, decision)

StatusInv == IInv /\ ActorsDecided /\ StatusFollowsDecision

\* What a step does to the status, to the decision and to the actors.
StatusMoves   == job'.status = job.status \/ Agrees(job'.status, decision')
DecisionMoves == decision' = decision \/ decision = "none"
ActorsMove    == \A p \in Procs : \/ proc'[p].pc = proc[p].pc
                                  \/ Decided(proc'[p].pc, decision')

Moves == StatusMoves /\ DecisionMoves /\ ActorsMove

\* A step that moves them so keeps the agreement.
LEMMA MovesKeep ==
  ASSUME StatusInv, Moves
  PROVE  ActorsDecided' /\ StatusFollowsDecision'
<1>1. ActorsDecided'
  BY DEF StatusInv, Moves, DecisionMoves, ActorsMove, ActorsDecided, Decided
<1>2. StatusFollowsDecision'
  BY DEF StatusInv, Moves, StatusMoves, DecisionMoves, Agrees, StatusFollowsDecision
<1>3. QED
  BY <1>1, <1>2

\* An actor that is done, that moves on, or that takes up what it read.
LEMMA ActorMoves ==
  ASSUME IInv, NEW p \in Procs
  PROVE  /\ Finish(p) => ActorsMove
         /\ \A l : Goto(p, l) /\ Decided(l, decision') => ActorsMove
         /\ \A x : proc' = [proc EXCEPT ![p] = x] /\ Decided(x.pc, decision')
                     => ActorsMove
<1>1. proc \in [Procs -> Proc]
  BY DEF IInv, TypeOK
<1>2. ASSUME NEW x, proc' = [proc EXCEPT ![p] = x], Decided(x.pc, decision')
      PROVE  ActorsMove
  <2>1. \A q \in Procs : proc'[q] = IF q = p THEN x ELSE proc[q]
    BY <1>1, <1>2
  <2>2. QED
    BY <1>2, <2>1 DEF ActorsMove
<1>3. ASSUME NEW l, Goto(p, l), Decided(l, decision')
      PROVE  ActorsMove
  <2> DEFINE x == [proc[p] EXCEPT !.pc = l]
  <2>1. proc' = [proc EXCEPT ![p] = x] /\ x.pc = l
    BY <1>1, <1>3 DEF Goto, Proc
  <2> HIDE DEF x
  <2>2. QED
    BY <1>2, <1>3, <2>1
<1>4. Finish(p) => ActorsMove
  <2>1. Idle.pc = "idle" /\ Decided("idle", decision')
    BY DEF Idle, Decided
  <2>2. QED
    BY <1>2, <2>1 DEF Finish
<1>5. QED
  BY <1>2, <1>3, <1>4

\* Writing a status.
LEMMA StatusIsWritten ==
  ASSUME IInv, NEW s, SetStatus(s)
  PROVE  job'.status = s
  BY DEF IInv, TypeOK, SetStatus

\* The program counters that need no decision.
UndecidedPC == PC \ {"ap_bind", "ap_status", "ap_enqueue", "rj_status"}

\* A step of one actor that writes no status and records no decision.
LEMMA AsideMoves ==
  ASSUME IInv, NEW p \in Procs, job'.status = job.status, decision' = decision,
         \/ Finish(p)
         \/ \E l \in UndecidedPC : Goto(p, l)
         \/ \E x : x.pc \in UndecidedPC /\ proc' = [proc EXCEPT ![p] = x]
  PROVE  Moves
<1>1. \A l \in UndecidedPC : Decided(l, decision')
  BY DEF UndecidedPC, Decided
<1>2. ActorsMove
  BY <1>1, ActorMoves
<1>3. QED
  BY <1>2 DEF Moves, StatusMoves, DecisionMoves

\* The approval goes on only after the decision to approve.
LEMMA ApproveMoves ==
  ASSUME StatusInv, Dashboard = {}, NEW a \in Approvers, ApproveStart(a) \/ Approve(a)
  PROVE  Moves
<1>0. IInv /\ a \in Procs /\ a \in Api /\ Decided(proc[a].pc, decision)
  BY DEF StatusInv, ActorsDecided, Procs, Web, Approvers
<1>1. CASE ApproveStart(a) \/ ApproveReadDiff(a)
  <2>1. {"ap_run", "ap_save"} \subseteq UndecidedPC
    BY DEF UndecidedPC, PC
  <2>2. job' = job /\ decision' = decision
    BY <1>1 DEF ApproveStart, ApproveReadDiff
  <2>3. Finish(a) \/ Goto(a, "ap_run") \/ Goto(a, "ap_save")
    BY <1>1 DEF ApproveStart, ApproveReadDiff
  <2>4. QED
    BY <1>0, <2>1, <2>2, <2>3, AsideMoves
<1>2. CASE ApproveReadRun(a)
  <2> DEFINE x == [Idle EXCEPT !.pc = "ap_diff", !.run = runs, !.patch = patchOf[runs]]
  <2>1. x.pc \in UndecidedPC
    BY DEF Idle, UndecidedPC, PC
  <2>2. job' = job /\ decision' = decision
    BY <1>2 DEF ApproveReadRun
  <2>3. Finish(a) \/ proc' = [proc EXCEPT ![a] = x]
    BY <1>2 DEF ApproveReadRun
  <2> HIDE DEF x
  <2>4. QED
    BY <1>0, <2>1, <2>2, <2>3, AsideMoves
<1>3. CASE ApproveSave(a)
  <2>1. job' = job /\ DecisionMoves
    BY <1>3 DEF ApproveSave, Record, DecisionMoves
  <2>2. CASE decision = "rejected"
    BY <1>0, <1>3, <2>1, <2>2, ActorMoves DEF ApproveSave, Moves, StatusMoves
  <2>3. CASE decision # "rejected"
    <3>1. decision' = "approved" /\ Goto(a, "ap_bind")
      BY <1>0, <1>3, <2>3 DEF ApproveSave, Record, IInv, TypeOK
    <3>2. Decided("ap_bind", decision')
      BY <3>1 DEF Decided
    <3>3. QED
      BY <1>0, <2>1, <3>1, <3>2, ActorMoves DEF Moves, StatusMoves
  <2>4. QED
    BY <2>2, <2>3
<1>4. CASE ApproveBind(a)
  <2>1. decision' = "approved" /\ decision' = decision /\ Goto(a, "ap_status")
    BY <1>0, <1>4 DEF ApproveBind, At, Decided
  <2>2. job'.status = job.status
    BY <1>0, <1>4 DEF ApproveBind, IInv, TypeOK
  <2>3. Decided("ap_status", decision')
    BY <2>1 DEF Decided
  <2>4. QED
    BY <1>0, <2>1, <2>2, <2>3, ActorMoves DEF Moves, StatusMoves, DecisionMoves
<1>5. CASE ApproveStatus(a)
  <2>1. decision' = "approved" /\ decision' = decision /\ Finish(a)
    BY <1>0, <1>5 DEF ApproveStatus, At, Decided
  <2>2. job'.status = "approved"
    BY <1>0, <1>5, StatusIsWritten DEF ApproveStatus
  <2>3. QED
    BY <1>0, <2>1, <2>2, ActorMoves DEF Moves, StatusMoves, DecisionMoves, Agrees
<1>6. CASE ApproveEnqueue(a)
  <2>1. job' = job /\ decision' = decision
    BY <1>6 DEF ApproveEnqueue
  <2>2. CASE Finish(a)
    BY <1>0, <2>1, <2>2, AsideMoves
  <2>3. CASE \E t \in Publishers :
               /\ At(t, "idle")
               /\ proc' = [proc EXCEPT ![a] = Idle, ![t].pc = "queued"]
    <3>1. PICK t \in Publishers : proc' = [proc EXCEPT ![a] = Idle, ![t].pc = "queued"]
      BY <2>3
    <3>2. proc \in [Procs -> Proc] /\ t \in Procs
      BY <1>0 DEF IInv, TypeOK, Procs
    <3>3. \A q \in Procs : proc'[q].pc \in {proc[q].pc, "idle", "queued"}
      BY <3>1, <3>2 DEF Proc, Idle
    <3>4. ActorsMove
      BY <3>3 DEF ActorsMove, Decided
    <3>5. QED
      BY <2>1, <3>4 DEF Moves, StatusMoves, DecisionMoves
  <2>4. QED
    BY <1>6, <2>2, <2>3 DEF ApproveEnqueue, Enqueue
<1>7. QED
  BY <1>1, <1>2, <1>3, <1>4, <1>5, <1>6 DEF Approve

\* A rejection writes the decision it finds, its own or an approval's; a
\* cancellation and the callbacks of further runs write no status of the gate.
LEMMA OtherMoves ==
  ASSUME StatusInv, NEW p \in Web,
         Other(p) \/ RejectStart(p) \/ CancelStart(p) \/ NewRun(p)
  PROVE  Moves
<1>0. /\ IInv /\ p \in Procs /\ Decided(proc[p].pc, decision)
      /\ job \in JobRow
  BY DEF StatusInv, ActorsDecided, Procs, IInv, TypeOK, JobRow
<1>1. CASE RejectSave(p)
  <2>1. job' = job /\ DecisionMoves /\ decision' # "none" /\ Goto(p, "rj_status")
    BY <1>1 DEF RejectSave, Record, DecisionMoves
  <2>2. Decided("rj_status", decision')
    BY <2>1 DEF Decided
  <2>3. QED
    BY <1>0, <2>1, <2>2, ActorMoves DEF Moves, StatusMoves
<1>2. CASE RejectStatus(p)
  <2>1. decision \in {"approved", "rejected"} /\ decision' = decision /\ Finish(p)
    BY <1>0, <1>2 DEF RejectStatus, At, Decided, IInv, TypeOK
  <2>2. job'.status = IF decision = "rejected" THEN "rejected" ELSE "approved"
    BY <1>0, <1>2, StatusIsWritten DEF RejectStatus
  <2>3. QED
    BY <1>0, <2>1, <2>2, ActorMoves DEF Moves, StatusMoves, DecisionMoves, Agrees
<1>3. CASE CancelSet(p) \/ CompleteGate(p) \/ CallbackFail(p)
  <2>1. decision' = decision /\ Finish(p)
    BY <1>3 DEF CancelSet, CompleteGate, CallbackFail
  <2>2. job'.status \in {"cancelled", "awaiting_approval", "failed"}
    BY <1>0, <1>3, StatusIsWritten DEF CancelSet, CompleteGate, CallbackFail
  <2>3. QED
    BY <1>0, <2>1, <2>2, ActorMoves DEF Moves, StatusMoves, DecisionMoves, Agrees
<1>4. CASE RejectStart(p) \/ CancelStart(p) \/ CompletePatch(p) \/ CompleteDiff(p)
  <2>1. {"rj_save", "cn_set", "ex_diff", "ex_job"} \subseteq UndecidedPC
    BY DEF UndecidedPC, PC
  <2>2. job'.status = job.status /\ decision' = decision
    BY <1>0, <1>4 DEF RejectStart, CancelStart, CompletePatch, CompleteDiff, JobRow
  <2>3. \E l \in {"rj_save", "cn_set", "ex_diff", "ex_job"} : Goto(p, l)
    BY <1>4 DEF RejectStart, CancelStart, CompletePatch, CompleteDiff
  <2>4. QED
    BY <1>0, <2>1, <2>2, <2>3, AsideMoves
<1>5. CASE CallbackReadJob(p)
  <2>1. {"ex_fail", "ex_gate"} \subseteq UndecidedPC
    BY DEF UndecidedPC, PC
  <2>2. job' = job /\ decision' = decision
    BY <1>5 DEF CallbackReadJob
  <2>3. Finish(p) \/ Goto(p, "ex_fail") \/ Goto(p, "ex_gate")
    BY <1>5 DEF CallbackReadJob
  <2>4. QED
    BY <1>0, <2>1, <2>2, <2>3, AsideMoves
<1>6. CASE NewRun(p)
  <2>1. {"ex_job", "ex_patch"} \subseteq UndecidedPC
    BY DEF UndecidedPC, PC
  <2>2. job' = job /\ decision' = decision
    BY <1>6 DEF NewRun
  <2>3. CASE Goto(p, "ex_job")
    BY <1>0, <2>1, <2>2, <2>3, AsideMoves
  <2>4. CASE \E c \in Patches :
               proc' = [proc EXCEPT ![p] = [Idle EXCEPT !.pc = "ex_patch",
                                                        !.run = runs + 1, !.patch = c]]
    <3>1. PICK c \in Patches :
               proc' = [proc EXCEPT ![p] = [Idle EXCEPT !.pc = "ex_patch",
                                                        !.run = runs + 1, !.patch = c]]
      BY <2>4
    <3> DEFINE x == [Idle EXCEPT !.pc = "ex_patch", !.run = runs + 1, !.patch = c]
    <3>2. x.pc = "ex_patch" /\ proc' = [proc EXCEPT ![p] = x]
      BY <3>1 DEF Idle
    <3> HIDE DEF x
    <3>3. QED
      BY <1>0, <2>1, <2>2, <3>2, AsideMoves
  <2>5. QED
    BY <1>6, <2>3, <2>4 DEF NewRun
<1>7. QED
  BY <1>1, <1>2, <1>3, <1>4, <1>5, <1>6 DEF Other

\* A publisher writes its statuses only once the approval cleared it.
LEMMA PublishMoves ==
  ASSUME StatusInv, NEW t \in Publishers, Publish(t)
  PROVE  Moves
<1>0. /\ IInv /\ t \in Procs /\ proc[t] \in Proc /\ job \in JobRow
      /\ proc[t].pc \in ClearedPC => decision = "approved"
  BY DEF StatusInv, Procs, IInv, TypeOK, JobRow, ActorsSound, Sound
<1>1. CASE PublishStart(t)
  <2>1. decision' = "approved" /\ decision' = decision /\ Goto(t, "pb_push")
    BY <1>0, <1>1 DEF PublishStart, At, ClearedPC
  <2>2. job'.status = "publishing" /\ Decided("pb_push", decision')
    BY <1>0, <1>1, StatusIsWritten DEF PublishStart, Decided
  <2>3. QED
    BY <1>0, <2>1, <2>2, ActorMoves DEF Moves, StatusMoves, DecisionMoves, Agrees
<1>2. CASE PublishDone(t)
  <2>1. decision' = "approved" /\ decision' = decision /\ Finish(t)
    BY <1>0, <1>2 DEF PublishDone, At, ClearedPC
  <2>2. job'.status = "completed"
    BY <1>0, <1>2, StatusIsWritten DEF PublishDone
  <2>3. QED
    BY <1>0, <2>1, <2>2, ActorMoves DEF Moves, StatusMoves, DecisionMoves, Agrees
<1>3. CASE PublishMoved(t) \/ PublishFail(t)
  <2>1. decision' = decision /\ Finish(t)
    BY <1>3 DEF PublishMoved, PublishFail
  <2>2. job'.status = "failed"
    BY <1>0, <1>3, StatusIsWritten DEF PublishMoved, PublishFail
  <2>3. QED
    BY <1>0, <2>1, <2>2, ActorMoves DEF Moves, StatusMoves, DecisionMoves, Agrees
<1>4. CASE \/ PublishApproval(t) \/ PublishHead(t) \/ PublishSave(t)
  <2>1. {"pb_run", "pb_moved", "pb_start", "pb_done"} \subseteq UndecidedPC
    BY DEF UndecidedPC, PC
  <2>2. job'.status = job.status /\ decision' = decision
    BY <1>0, <1>4 DEF PublishApproval, PublishHead, PublishSave, JobRow
  <2>3. \/ Finish(t)
        \/ \E l \in {"pb_run", "pb_moved", "pb_start", "pb_done"} : Goto(t, l)
    BY <1>4 DEF PublishApproval, PublishHead, PublishSave
  <2>4. QED
    BY <1>0, <2>1, <2>2, <2>3, AsideMoves
<1>5. CASE PublishPush(t) \/ PublishUndo(t)
  <2>1. {"pb_fail", "pb_meta"} \subseteq UndecidedPC
    BY DEF UndecidedPC, PC
  <2>2. job' = job /\ decision' = decision
    BY <1>5 DEF PublishPush, PublishUndo
  <2>3. Goto(t, "pb_fail") \/ Goto(t, "pb_meta")
    BY <1>5 DEF PublishPush, PublishUndo
  <2>4. QED
    BY <1>0, <2>1, <2>2, <2>3, AsideMoves
<1>6. CASE PublishRead(t)
  <2> DEFINE x == [Idle EXCEPT !.pc = "pb_approval", !.bound = job.bound]
  <2>1. x.pc \in UndecidedPC
    BY DEF Idle, UndecidedPC, PC
  <2>2. job' = job /\ decision' = decision /\ proc' = [proc EXCEPT ![t] = x]
    BY <1>6 DEF PublishRead
  <2> HIDE DEF x
  <2>3. QED
    BY <1>0, <2>1, <2>2, AsideMoves
<1>7. CASE PublishReadRun(t)
  <2> DEFINE x == [proc[t] EXCEPT !.pc = "pb_diff", !.run = runs]
  <2>1. x.pc \in UndecidedPC
    BY <1>0 DEF Proc, UndecidedPC, PC
  <2>2. job' = job /\ decision' = decision
    BY <1>7 DEF PublishReadRun
  <2>3. Finish(t) \/ proc' = [proc EXCEPT ![t] = x]
    BY <1>7 DEF PublishReadRun
  <2> HIDE DEF x
  <2>4. QED
    BY <1>0, <2>1, <2>2, <2>3, AsideMoves
<1>8. CASE PublishVerify(t)
  <2> DEFINE x == [proc[t] EXCEPT !.pc = "pb_head", !.patch = job.diff]
  <2>1. x.pc \in UndecidedPC
    BY <1>0 DEF Proc, UndecidedPC, PC
  <2>2. job' = job /\ decision' = decision
    BY <1>8 DEF PublishVerify
  <2>3. Finish(t) \/ proc' = [proc EXCEPT ![t] = x]
    BY <1>8 DEF PublishVerify
  <2> HIDE DEF x
  <2>4. QED
    BY <1>0, <2>1, <2>2, <2>3, AsideMoves
<1>9. CASE PublishReadMeta(t) \/ PublishFind(t) \/ PublishOpen(t)
  <2> DEFINE x(n) == [proc[t] EXCEPT !.pc = "pb_save", !.pr = n]
  <2>1. /\ {"pb_find", "pb_open", "pb_undo"} \subseteq UndecidedPC
        /\ \A n : x(n).pc \in UndecidedPC
    BY <1>0 DEF Proc, UndecidedPC, PC
  <2>2. job' = job /\ decision' = decision
    BY <1>9 DEF PublishReadMeta, PublishFind, PublishOpen
  <2>3. \/ \E l \in {"pb_find", "pb_open", "pb_undo"} : Goto(t, l)
        \/ \E n : proc' = [proc EXCEPT ![t] = x(n)]
    BY <1>9 DEF PublishReadMeta, PublishFind, PublishOpen
  <2> HIDE DEF x
  <2>4. QED
    BY <1>0, <2>1, <2>2, <2>3, AsideMoves
<1>10. QED
  BY <1>1, <1>2, <1>3, <1>4, <1>5, <1>6, <1>7, <1>8, <1>9 DEF Publish

\* A request to publish, time, GitHub and crashes write no status, and whoever
\* crashed knows nothing.
LEMMA WorldMoves ==
  ASSUME StatusInv,
         \/ PublishRun \/ ApprovalExpires \/ BaseMoves \/ CrashWeb
         \/ \E t \in Publishers : CrashWorker(t)
  PROVE  Moves
<1>0. IInv /\ proc \in [Procs -> Proc] /\ job \in JobRow
  BY DEF StatusInv, IInv, TypeOK, JobRow
<1>1. CASE PublishRun
  <2>1. PICK t \in Publishers : Goto(t, "queued")
    BY <1>1 DEF PublishRun
  <2>2. t \in Procs /\ "queued" \in UndecidedPC
    BY DEF Procs, UndecidedPC, PC
  <2>3. job' = job /\ decision' = decision
    BY <1>1 DEF PublishRun
  <2>4. QED
    BY <1>0, <2>1, <2>2, <2>3, AsideMoves
<1>2. CASE ApprovalExpires \/ BaseMoves
  <2>1. job'.status = job.status /\ decision' = decision /\ proc' = proc
    BY <1>0, <1>2 DEF ApprovalExpires, BaseMoves, JobRow
  <2>2. QED
    BY <2>1 DEF Moves, StatusMoves, DecisionMoves, ActorsMove
<1>3. CASE CrashWeb
  <2>1. job' = job /\ decision' = decision
        /\ proc' = [p \in Procs |-> IF p \in Web THEN Idle ELSE proc[p]]
    BY <1>3 DEF CrashWeb
  <2>2. \A p \in Procs : proc'[p].pc \in {proc[p].pc, "idle"}
    BY <2>1 DEF Idle
  <2>3. ActorsMove
    BY <2>2 DEF ActorsMove, Decided
  <2>4. QED
    BY <2>1, <2>3 DEF Moves, StatusMoves, DecisionMoves
<1>4. ASSUME NEW t \in Publishers, CrashWorker(t)
      PROVE  Moves
  <2> DEFINE x == [Idle EXCEPT !.pc = "queued"]
  <2>1. t \in Procs /\ x.pc \in UndecidedPC
    BY DEF Procs, Idle, UndecidedPC, PC
  <2>2. job' = job /\ decision' = decision /\ proc' = [proc EXCEPT ![t] = x]
    BY <1>4 DEF CrashWorker
  <2> HIDE DEF x
  <2>3. QED
    BY <1>0, <2>1, <2>2, AsideMoves
<1>5. QED
  BY <1>1, <1>2, <1>3, <1>4

\* On the public API's route every step keeps status and decision in agreement.
LEMMA StatusInvStep ==
  ASSUME Dashboard = {}, StatusInv, [Next]_vars
  PROVE  StatusInv'
<1>1. IInv'
  BY StepKeeps DEF StatusInv
<1>2. Moves
  <2>1. Rejecters \subseteq Web /\ Cancellers \subseteq Web /\ Executors \subseteq Web
    BY DEF Web
  <2>2. CASE UNCHANGED vars
    BY <2>2 DEF vars, Moves, StatusMoves, DecisionMoves, ActorsMove
  <2>3. CASE Next
    BY <2>1, <2>3, ApproveMoves, OtherMoves, PublishMoves, WorldMoves DEF Next
  <2>4. QED
    BY <2>2, <2>3
<1>3. QED
  BY <1>1, <1>2, MovesKeep DEF StatusInv

\* When every approval comes through the public API, the job's status follows its
\* one decision: rejected only if it was rejected, approved, publishing or completed
\* only if it was approved, whichever request wrote last and whoever crashed.
THEOREM StatusIsTheDecision ==
  ASSUME Dashboard = {}
  PROVE  Spec => []StatusFollowsDecision
<1>1. Init => StatusInv
  <2> SUFFICES ASSUME Init
               PROVE  StatusInv
    OBVIOUS
  <2>1. IInv
    BY InitIInv
  <2>2. job.status = "awaiting_approval" /\ \A p \in Procs : proc[p].pc = "idle"
    BY DEF Init, Idle
  <2>3. QED
    BY <2>1, <2>2 DEF StatusInv, ActorsDecided, Decided, StatusFollowsDecision
<1>2. StatusInv /\ [Next]_vars => StatusInv'
  BY StatusInvStep
<1>3. StatusInv => StatusFollowsDecision
  BY DEF StatusInv
<1>4. QED
  BY <1>1, <1>2, <1>3, PTL DEF Spec
=============================================================================
