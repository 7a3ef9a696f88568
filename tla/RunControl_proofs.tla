------------------------- MODULE RunControl_proofs -------------------------
(***************************************************************************)
(* Theorems about RunControl and their proofs.                             *)
(*                                                                         *)
(* Most actions are quiet: they leave the token, source and patch columns  *)
(* of every row alone, never clear a revocation, and move no actor into    *)
(* the middle of an exchange or a completion.  A quiet step preserves the  *)
(* inductive invariant, so each of them is only shown to be quiet; the few *)
(* actions that are not are treated one by one.                            *)
(***************************************************************************)
EXTENDS RunControl, TLAPS

-----------------------------------------------------------------------------
(***************************************************************************)
(* The inductive invariant.                                                *)
(***************************************************************************)
\* Program counters at which an actor has no run yet.
NoRowPC == {"idle", "queued", "done", "rj_preflight", "rj_block", "rj_create",
            "rj_jobfail", "ca_run", "ca_job"}

\* Between consuming the nonce and binding the token; while a completion is in
\* flight; while it holds the event loop; after it found no patch recorded.
ExchangePC == {"x_setwf", "x_bind"}
FreshPC    == {"co_validating", "co_apply", "co_patch"}
LoopPC     == {"co_fresh"} \cup FreshPC
CompletePC == {"co_body"} \cup LoopPC
CriticalPC == ExchangePC \cup CompletePC

\* An actor works on a run that was created, and a row that was not created
\* holds nothing.
RefInv ==
    /\ \A p \in Procs : proc[p].pc \notin NoRowPC => proc[p].run # 0
    /\ \A p \in Procs : proc[p].run # 0 => proc[p].run \in Created
    /\ \A c \in Reconcilers : \A b \in batch[c] : b.run \in Created
    /\ \A r \in Runs : r \notin Created => run[r] = NoRow

\* The columns of a row agree with its history.
RowInv ==
    \A r \in Runs :
        /\ run[r].hashed => run[r].nonceUsed
        /\ issued[r] = IF run[r].hashed THEN 1 ELSE 0
        /\ delivered[r] = IF run[r].sourced THEN 1 ELSE 0
        /\ run[r].patch # NoPatch => run[r].hashed

\* An exchange past consume_nonce is alone with its run, which has no token.
ExchangeInv ==
    /\ \A p \in Procs : proc[p].pc \in ExchangePC =>
            run[proc[p].run].nonceUsed /\ ~run[proc[p].run].hashed
    /\ \A p, q \in Procs :
            proc[p].pc \in ExchangePC /\ proc[q].pc \in ExchangePC /\ p # q =>
                proc[p].run # proc[q].run

\* A completion is one of a run with a token; from its re-read of the row to
\* its write it holds the event loop, and no patch is recorded meanwhile.
CompleteInv ==
    \A p \in Procs :
        /\ proc[p].pc \in CompletePC => run[proc[p].run].hashed
        /\ proc[p].pc \in LoopPC => loop = p
        /\ proc[p].pc \in FreshPC => run[proc[p].run].patch = NoPatch

IInv == TypeOK /\ RefInv /\ RowInv /\ ExchangeInv /\ CompleteInv

-----------------------------------------------------------------------------
(***************************************************************************)
(* Quiet steps.                                                            *)
(***************************************************************************)
JobStep == job' \in [status: JobStatus, diff: Patches \cup {NoPatch}]

\* Rows keep their type, and a created row stays created.
RunRef ==
    /\ run' \in [Runs -> RunRow]
    /\ \A r \in Runs : r \in Created => run'[r].status # "none"
    /\ \A r \in Runs : run'[r].status = "none" => run'[r] = NoRow

RunQuiet ==
    \A r \in Runs :
        /\ run'[r].nonceUsed = run[r].nonceUsed
        /\ run'[r].hashed = run[r].hashed
        /\ run'[r].sourced = run[r].sourced
        /\ run'[r].patch = run[r].patch
        /\ run[r].revoked => run'[r].revoked

\* Actors keep their type and work on created runs.
ProcRef ==
    /\ proc' \in [Procs -> Proc]
    /\ \A p \in Procs : proc'[p].pc \notin NoRowPC => proc'[p].run # 0
    /\ \A p \in Procs : proc'[p].run # 0 =>
            proc'[p].run \in Runs /\ run'[proc'[p].run].status # "none"

ProcQuiet == \A p \in Procs : proc'[p].pc \in CriticalPC => proc'[p] = proc[p]

\* The event loop is taken when free, and left by an actor that is done with it.
LoopStep ==
    /\ loop' \in Requests \cup {NoOne}
    /\ \A p \in Procs : loop = p /\ loop' # p => proc'[p].pc \notin LoopPC

\* The reconcilers' work, GitHub, the crashes; and the histories, unchanged.
WorldStep ==
    /\ batch' \in [Reconcilers -> SUBSET [run: Runs, snap: Snapshot]]
    /\ \A c \in Reconcilers : \A b \in batch'[c] : b.run \in Created
    /\ attempts' \in [Runs -> 0..MaxAttempts]
    /\ holder' \in [Runs -> 0..MaxAttempts]
    /\ crashes' \in 0..MaxCrashes
HistoryStep == issued' = issued /\ delivered' = delivered

Quiet == /\ JobStep /\ RunRef /\ RunQuiet /\ ProcRef /\ ProcQuiet
         /\ LoopStep /\ WorldStep /\ HistoryStep

-----------------------------------------------------------------------------
(***************************************************************************)
(* The types of the values the actions write.                              *)
(***************************************************************************)
\* The initial record of an actor and its empty snapshot are well typed.
LEMMA IdleType == Idle \in Proc /\ NoSnap \in Snapshot
  BY BoundsAssumption DEF Idle, NoSnap, Proc, Snapshot, PC, Runs

\* An actor that is idle, queued or done has no run.
LEMMA IdleFields ==
  ASSUME NEW l \in {"idle", "queued", "done"}
  PROVE  /\ [Idle EXCEPT !.pc = l] \in Proc
         /\ [Idle EXCEPT !.pc = l].pc = l
         /\ [Idle EXCEPT !.pc = l].run = 0
         /\ l \in NoRowPC /\ l \notin CriticalPC
<1>1. l \in PC /\ l \in NoRowPC
  BY DEF PC, NoRowPC
<1>2. l \notin CriticalPC
  BY DEF CriticalPC, ExchangePC, CompletePC, LoopPC, FreshPC
<1>3. QED
  BY <1>1, <1>2, IdleType DEF Proc, Idle

\* An empty row and a freshly created one are well typed.
LEMMA NoRowType ==
  /\ NoRow \in RunRow /\ [NoRow EXCEPT !.status = "pending"] \in RunRow
  /\ NoRow.status = "none"
<1>1. "none" \in RunStatus /\ "pending" \in RunStatus
  BY DEF RunStatus
<1>2. NoRow \in RunRow
  BY <1>1, BoundsAssumption DEF NoRow, RunRow
<1>3. QED
  BY <1>1, <1>2 DEF RunRow, NoRow

\* Statuses are distinct from "none", the status of a row that does not exist.
LEMMA StatusType ==
  /\ "none" \in RunStatus /\ "pending" \in RunStatus /\ "dispatched" \in RunStatus
  /\ \A s \in TerminalRun \cup TokenActive : s \in RunStatus /\ s # "none"
  BY DEF RunStatus, TerminalRun, TokenActive

\* What an actor remembers of a row is well typed.
LEMMA SnapType ==
  ASSUME TypeOK, NEW r \in Runs
  PROVE  Snap(r) \in Snapshot
  BY DEF Snap, Snapshot, TypeOK, RunRow

\* Replacing one row by a well typed one keeps the rows well typed.
LEMMA RowReplaced ==
  ASSUME run \in [Runs -> RunRow], NEW r \in Runs, NEW row \in RunRow,
         run' = [run EXCEPT ![r] = row]
  PROVE  /\ run' \in [Runs -> RunRow]
         /\ run'[r] = row
         /\ \A s \in Runs : s # r => run'[s] = run[s]
  OBVIOUS

-----------------------------------------------------------------------------
(***************************************************************************)
(* What the writes of the actions keep.                                    *)
(***************************************************************************)
\* What an action leaves unchanged is quiet.
LEMMA Keep ==
  ASSUME TypeOK, RefInv
  PROVE  /\ job' = job => JobStep
         /\ run' = run => RunRef /\ RunQuiet
         /\ loop' = loop => LoopStep
         /\ rest' = rest => WorldStep /\ HistoryStep
<1>1. job' = job => JobStep
  BY DEF JobStep, TypeOK
<1>2. run' = run => RunRef /\ RunQuiet
  BY DEF RunRef, RunQuiet, TypeOK, RefInv, Created
<1>3. loop' = loop => LoopStep
  BY DEF LoopStep, TypeOK
<1>4. rest' = rest => WorldStep /\ HistoryStep
  BY DEF rest, WorldStep, HistoryStep, TypeOK, RefInv
<1>5. QED
  BY <1>1, <1>2, <1>3, <1>4

\* An actor with a run has one of the created ones.
LEMMA HasRow ==
  ASSUME TypeOK, RefInv, NEW p \in Procs, proc[p].pc \notin NoRowPC
  PROVE  proc[p].run \in Runs /\ proc[p].run \in Created
  BY DEF RefInv, Created

\* A write to a created row that keeps it well typed and created.
LEMMA RowRef ==
  ASSUME TypeOK, RefInv, NEW r \in Runs, r \in Created, NEW row \in RunRow,
         row.status # "none", run' = [run EXCEPT ![r] = row]
  PROVE  RunRef
<1>1. run \in [Runs -> RunRow]
  BY DEF TypeOK
<1>2. QED
  BY <1>1, RowReplaced DEF RunRef, RefInv, Created

\* A write that keeps the columns of tokens, source and patch is quiet.
LEMMA RowQuiet ==
  ASSUME TypeOK, NEW r \in Runs, NEW row \in RunRow, run' = [run EXCEPT ![r] = row],
         row.nonceUsed = run[r].nonceUsed, row.hashed = run[r].hashed,
         row.sourced = run[r].sourced, row.patch = run[r].patch,
         run[r].revoked => row.revoked
  PROVE  RunQuiet
<1>1. run \in [Runs -> RunRow]
  BY DEF TypeOK
<1>2. QED
  BY <1>1, RowReplaced DEF RunQuiet

\* Writing a status other than "none" to a created row is quiet.
LEMMA StatusStep ==
  ASSUME TypeOK, RefInv, NEW p \in Procs, proc[p].pc \notin NoRowPC,
         NEW s \in TerminalRun \cup TokenActive, SetStatus(proc[p].run, s)
  PROVE  RunRef /\ RunQuiet
<1> DEFINE r == proc[p].run
<1>1. r \in Runs /\ r \in Created /\ run \in [Runs -> RunRow]
  BY HasRow DEF TypeOK
<1>2. s \in RunStatus /\ s # "none"
  BY StatusType
<1>3. [run[r] EXCEPT !.status = s] \in RunRow
  BY <1>1, <1>2 DEF RunRow
<1>4. run' = [run EXCEPT ![r] = [run[r] EXCEPT !.status = s]]
  BY <1>1 DEF SetStatus
<1>5. [run[r] EXCEPT !.status = s].status # "none"
  BY <1>1, <1>2 DEF RunRow
<1>6. RunRef
  BY <1>1, <1>3, <1>4, <1>5, RowRef
<1>7. RunQuiet
  BY <1>1, <1>3, <1>4, RowQuiet DEF RunRow
<1>8. QED
  BY <1>6, <1>7

\* So are a revocation and a cancellation request.
LEMMA FlagStep ==
  ASSUME TypeOK, RefInv, NEW p \in Procs, proc[p].pc \notin NoRowPC,
         Revoke(proc[p].run) \/ RequestCancellation(proc[p].run)
  PROVE  RunRef /\ RunQuiet
<1> DEFINE r == proc[p].run
           revoked == [run[r] EXCEPT !.revoked = TRUE]
           asked == [run[r] EXCEPT !.cancelReq = TRUE]
<1>1. /\ r \in Runs /\ r \in Created /\ run[r] \in RunRow
      /\ run[r].status # "none"
  BY HasRow DEF TypeOK, Created
<1>2. \A row \in {revoked, asked} :
         /\ row \in RunRow /\ row.status = run[r].status
         /\ row.nonceUsed = run[r].nonceUsed /\ row.hashed = run[r].hashed
         /\ row.sourced = run[r].sourced /\ row.patch = run[r].patch
         /\ run[r].revoked => row.revoked
  BY <1>1 DEF RunRow
<1>3. PICK row \in {revoked, asked} : run' = [run EXCEPT ![r] = row]
  BY DEF Revoke, RequestCancellation
<1> HIDE DEF revoked, asked
<1>4. RunRef
  BY <1>1, <1>2, <1>3, RowRef
<1>5. RunQuiet
  BY <1>1, <1>2, <1>3, RowQuiet
<1>6. QED
  BY <1>4, <1>5

\* Recording the workflow of a run, with or without a status, is quiet.
LEMMA WorkflowStep ==
  ASSUME TypeOK, RefInv, NEW p \in Procs, proc[p].pc \notin NoRowPC,
         NEW w \in {0} \cup Runs, NEW a \in 0..MaxAttempts,
         \/ run' = [run EXCEPT ![proc[p].run] = [@ EXCEPT !.wfId = w, !.wfAttempt = a]]
         \/ run' = [run EXCEPT ![proc[p].run] =
                      [@ EXCEPT !.status = "dispatched", !.wfId = w, !.wfAttempt = a]]
  PROVE  RunRef /\ RunQuiet
<1> DEFINE r == proc[p].run
           plain == [run[r] EXCEPT !.wfId = w, !.wfAttempt = a]
           moved == [run[r] EXCEPT !.status = "dispatched", !.wfId = w, !.wfAttempt = a]
<1>1. r \in Runs /\ r \in Created /\ run \in [Runs -> RunRow] /\ run[r] \in RunRow
  BY HasRow DEF TypeOK
<1>2. run[r].status # "none"
  BY <1>1 DEF Created
<1>3. plain \in RunRow /\ plain.status # "none"
  BY <1>1, <1>2 DEF RunRow
<1>4. moved \in RunRow /\ moved.status # "none"
  BY <1>1, StatusType DEF RunRow
<1>5. \E row \in {plain, moved} : run' = [run EXCEPT ![r] = row]
  BY <1>1
<1>6. RunRef
  BY <1>1, <1>3, <1>4, <1>5, RowRef
<1>7. \A row \in {plain, moved} :
         /\ row.nonceUsed = run[r].nonceUsed /\ row.hashed = run[r].hashed
         /\ row.sourced = run[r].sourced /\ row.patch = run[r].patch
         /\ row.revoked = run[r].revoked
  BY <1>1 DEF RunRow
<1>8. RunQuiet
  <2>1. PICK row \in {plain, moved} : run' = [run EXCEPT ![r] = row]
    BY <1>5
  <2> HIDE DEF plain, moved
  <2>2. QED
    BY <1>1, <1>7, <2>1 DEF RunQuiet
<1>9. QED
  BY <1>6, <1>8

-----------------------------------------------------------------------------
\* Replacing what one actor does by a well typed record on a created run.
LEMMA ProcReplaced ==
  ASSUME TypeOK, RefInv, RunRef, NEW p \in Procs, NEW x \in Proc,
         proc' = [proc EXCEPT ![p] = x],
         x.pc \notin NoRowPC => x.run # 0,
         x.run # 0 => x.run \in Runs /\ run'[x.run].status # "none"
  PROVE  ProcRef /\ (x.pc \notin CriticalPC => ProcQuiet)
<1>1. proc \in [Procs -> Proc] /\ proc' \in [Procs -> Proc] /\ proc'[p] = x
  BY DEF TypeOK
<1>2. \A q \in Procs : q # p => proc'[q] = proc[q]
  BY <1>1
<1>3. ASSUME NEW q \in Procs, proc[q].run # 0
      PROVE  proc[q].run \in Runs /\ run'[proc[q].run].status # "none"
  BY <1>3 DEF RefInv, RunRef, Created
<1>4. ProcRef
  <2>1. \A q \in Procs : proc'[q].pc \notin NoRowPC => proc'[q].run # 0
    BY <1>1, <1>2 DEF RefInv
  <2>2. \A q \in Procs : proc'[q].run # 0 =>
            proc'[q].run \in Runs /\ run'[proc'[q].run].status # "none"
    BY <1>1, <1>2, <1>3
  <2>3. QED
    BY <1>1, <2>1, <2>2 DEF ProcRef
<1>5. x.pc \notin CriticalPC => ProcQuiet
  BY <1>1, <1>2 DEF ProcQuiet
<1>6. QED
  BY <1>4, <1>5

\* Moving the program counter.
LEMMA GotoStep ==
  ASSUME TypeOK, RefInv, RunRef, NEW p \in Procs, NEW l \in PC, Goto(p, l),
         l \in NoRowPC \/ proc[p].pc \notin NoRowPC
  PROVE  ProcRef /\ (l \notin CriticalPC => ProcQuiet)
<1> DEFINE x == [proc[p] EXCEPT !.pc = l]
<1>1. proc[p] \in Proc /\ proc' = [proc EXCEPT ![p] = x]
  BY DEF TypeOK, Goto
<1>2. x \in Proc /\ x.pc = l /\ x.run = proc[p].run
  BY <1>1 DEF Proc
<1>3. l \notin NoRowPC => x.run # 0
  BY <1>2 DEF RefInv
<1>4. x.run # 0 => x.run \in Runs /\ run'[x.run].status # "none"
  BY <1>2 DEF RefInv, RunRef, Created
<1> HIDE DEF x
<1>5. QED
  BY <1>1, <1>2, <1>3, <1>4, ProcReplaced

\* Ending a handler or a task.
LEMMA FinishStep ==
  ASSUME TypeOK, RefInv, RunRef, NEW p \in Procs, Finish(p) \/ Done(p)
  PROVE  ProcRef /\ ProcQuiet
<1>1. PICK l \in {"idle", "done"} : proc' = [proc EXCEPT ![p] = [Idle EXCEPT !.pc = l]]
  BY DEF Finish, Done, Idle
<1> DEFINE x == [Idle EXCEPT !.pc = l]
<1>2. x \in Proc /\ x.run = 0 /\ x.pc \in NoRowPC /\ x.pc \notin CriticalPC
  BY IdleFields
<1> HIDE DEF x
<1>3. QED
  BY <1>1, <1>2, ProcReplaced DEF x

\* Ending a handler, and leaving the event loop if it held it.
LEMMA EndStep ==
  ASSUME TypeOK, RefInv, RunRef, NEW p \in Procs, End(p)
  PROVE  ProcRef /\ ProcQuiet /\ LoopStep
<1>1. Finish(p) /\ loop' = IF loop = p THEN NoOne ELSE loop
  BY DEF End
<1>2. ProcRef /\ ProcQuiet
  BY <1>1, FinishStep
<1>3. proc'[p].pc = "idle"
  BY <1>1 DEF Finish, Idle, TypeOK
<1>4. LoopStep
  BY <1>1, <1>3 DEF LoopStep, TypeOK, LoopPC, FreshPC
<1>5. QED
  BY <1>2, <1>4

\* Starting to work on a run.
LEMMA BeginStep ==
  ASSUME TypeOK, RefInv, RunRef, NEW p \in Procs, NEW l \in PC, NEW r \in Runs,
         NEW s \in Snapshot, NEW a \in 0..MaxAttempts, Begin(p, l, r, s, a),
         run'[r].status # "none"
  PROVE  ProcRef /\ (l \notin CriticalPC => ProcQuiet)
<1> DEFINE x == [Idle EXCEPT !.pc = l, !.run = r, !.snap = s, !.attempt = a]
<1>1. x \in Proc /\ x.pc = l /\ x.run = r
  BY IdleType DEF Proc
<1>2. proc' = [proc EXCEPT ![p] = x]
  BY DEF Begin
<1>3. r # 0
  BY DEF Runs
<1> HIDE DEF x
<1>4. QED
  BY <1>1, <1>2, <1>3, ProcReplaced

\* Entering the failure tail.
LEMMA FailWithStep ==
  ASSUME TypeOK, RefInv, RunRef, NEW p \in Procs, NEW s \in {"failed", "cancelled"},
         FailWith(p, s), proc[p].pc \notin NoRowPC
  PROVE  ProcRef /\ ProcQuiet
<1> DEFINE x == [Idle EXCEPT !.pc = "fl_run", !.run = proc[p].run, !.to = s]
<1>1. proc[p].run \in Runs /\ proc[p].run \in Created
  BY HasRow
<1>2. "fl_run" \in PC /\ "fl_run" \notin CriticalPC
  BY DEF PC, CriticalPC, ExchangePC, CompletePC, LoopPC, FreshPC
<1>3. x \in Proc /\ x.pc = "fl_run" /\ x.run = proc[p].run
  BY <1>1, <1>2, IdleType DEF Proc
<1>4. proc' = [proc EXCEPT ![p] = x]
  BY DEF FailWith
<1>5. x.run # 0 /\ x.run \in Runs /\ run'[x.run].status # "none"
  BY <1>1, <1>3 DEF RunRef, Runs
<1> HIDE DEF x
<1>6. QED
  BY <1>2, <1>3, <1>4, <1>5, ProcReplaced

\* Writing the job's status.
LEMMA JobWrite ==
  ASSUME TypeOK, NEW s \in TerminalJob \cup {"awaiting_approval"}, SetJob(s)
  PROVE  JobStep
<1>1. s \in JobStatus
  BY DEF JobStatus
<1>2. QED
  BY <1>1 DEF SetJob, TypeOK, JobStep

\* Creating a run: the row was empty.
LEMMA CreateStep ==
  ASSUME TypeOK, RefInv, NEW d \in Procs, NEW l \in PC, l \notin CriticalPC,
         CreateRun(d, l)
  PROVE  RunRef /\ RunQuiet /\ ProcRef /\ ProcQuiet
<1> DEFINE row == [NoRow EXCEPT !.status = "pending"]
<1>1. PICK r \in Runs : /\ r \notin Created
                        /\ run' = [run EXCEPT ![r] = row]
                        /\ Begin(d, l, r, NoSnap, 0)
  BY DEF CreateRun
<1>2. run \in [Runs -> RunRow] /\ run[r] = NoRow
  BY <1>1 DEF TypeOK, RefInv
<1>3. row \in RunRow /\ row.status = "pending"
  BY NoRowType DEF NoRow
<1>4. /\ row.nonceUsed = NoRow.nonceUsed /\ row.hashed = NoRow.hashed
      /\ row.sourced = NoRow.sourced /\ row.patch = NoRow.patch
      /\ row.revoked = NoRow.revoked
  BY DEF NoRow
<1> HIDE DEF row
<1>5. RunRef
  BY <1>1, <1>2, <1>3, RowReplaced DEF RunRef, RefInv, Created
<1>6. RunQuiet
  BY <1>1, <1>2, <1>3, <1>4, RowReplaced DEF RunQuiet
<1>7. run'[r].status # "none"
  BY <1>1, <1>2, <1>3
<1>8. 0 \in 0..MaxAttempts
  BY BoundsAssumption
<1>9. QED
  BY <1>1, <1>5, <1>6, <1>7, <1>8, BeginStep, IdleType

-----------------------------------------------------------------------------
(***************************************************************************)
(* The quiet actions, by actor.                                            *)
(***************************************************************************)
\* The dispatching task: every step of it is quiet.
LEMMA QuietRunJob ==
  ASSUME TypeOK, RefInv, NEW d \in Dispatchers, RunJob(d)
  PROVE  Quiet
<1>0. d \in Procs /\ proc[d] \in Proc
  BY DEF Procs, Tasks, TypeOK
<1>1. CASE RunJobStart(d)
  BY <1>0, <1>1, Keep, GotoStep, FinishStep
     DEF RunJobStart, At, Quiet,
         PC, NoRowPC, CriticalPC, ExchangePC, CompletePC, LoopPC, FreshPC
<1>2. CASE RunJobPreflight(d)
  BY <1>0, <1>2, Keep, GotoStep
     DEF RunJobPreflight, At, Quiet,
         PC, NoRowPC, CriticalPC, ExchangePC, CompletePC, LoopPC, FreshPC
<1>3. CASE RunJobBlock(d)
  BY <1>0, <1>3, Keep, CreateStep
     DEF RunJobBlock, At, Quiet,
         PC, NoRowPC, CriticalPC, ExchangePC, CompletePC, LoopPC, FreshPC
<1>4. CASE RunJobBlockRun(d)
  BY <1>0, <1>4, Keep, GotoStep, StatusStep
     DEF RunJobBlockRun, At, Quiet, TerminalRun,
         PC, NoRowPC, CriticalPC, ExchangePC, CompletePC, LoopPC, FreshPC
<1>5. CASE RunJobBlockJob(d)
  BY <1>0, <1>5, Keep, FinishStep, JobWrite
     DEF RunJobBlockJob, At, Quiet, TerminalJob,
         PC, NoRowPC, CriticalPC, ExchangePC, CompletePC, LoopPC, FreshPC
<1>6. CASE RunJobCreate(d)
  BY <1>0, <1>6, Keep, CreateStep
     DEF RunJobCreate, At, Quiet,
         PC, NoRowPC, CriticalPC, ExchangePC, CompletePC, LoopPC, FreshPC
<1>7. CASE RunJobPost(d)
  <2>1. RunRef /\ RunQuiet /\ JobStep /\ LoopStep
    BY <1>7, Keep DEF RunJobPost
  <2>2. ProcRef /\ ProcQuiet
    BY <1>0, <1>7, <2>1, GotoStep
       DEF RunJobPost, At, PC, NoRowPC, CriticalPC, ExchangePC, CompletePC, LoopPC, FreshPC
  <2>3. attempts' \in [Runs -> 0..MaxAttempts]
    BY <1>7, BoundsAssumption DEF RunJobPost, TypeOK
  <2>4. WorldStep /\ HistoryStep
    BY <1>7, <2>3 DEF RunJobPost, TypeOK, RefInv, WorldStep, HistoryStep
  <2>5. QED
    BY <2>1, <2>2, <2>4 DEF Quiet
<1>8. CASE RunJobDispatchFailed(d)
  BY <1>0, <1>8, Keep, GotoStep, StatusStep
     DEF RunJobDispatchFailed, At, Quiet, TerminalRun,
         PC, NoRowPC, CriticalPC, ExchangePC, CompletePC, LoopPC, FreshPC
<1>9. CASE RunJobFind(d)
  <2>1. JobStep /\ RunRef /\ RunQuiet /\ LoopStep /\ WorldStep /\ HistoryStep
    BY <1>9, Keep DEF RunJobFind
  <2>2. /\ proc[d].pc = "rj_find" /\ "rj_find" \notin NoRowPC
        /\ "rj_mark" \in PC /\ "rj_mark" \notin CriticalPC
    BY <1>9 DEF RunJobFind, At, PC, NoRowPC, CriticalPC, ExchangePC, CompletePC, LoopPC, FreshPC
  <2>3. CASE Goto(d, "rj_mark")
    BY <1>0, <2>1, <2>2, <2>3, GotoStep DEF Quiet
  <2>4. ASSUME NEW f \in Findable,
               Begin(d, "rj_mark", proc[d].run,
                     [NoSnap EXCEPT !.wfId = f, !.wfAttempt = attempts[f]], 0)
        PROVE  Quiet
    <3>1. [NoSnap EXCEPT !.wfId = f, !.wfAttempt = attempts[f]] \in Snapshot
      BY IdleType DEF Findable, TypeOK, Snapshot
    <3>2. proc[d].run \in Runs /\ proc[d].run \in Created
      BY <1>0, <2>2, HasRow
    <3>3. run'[proc[d].run].status # "none" /\ 0 \in 0..MaxAttempts
      BY <2>1, <3>2, BoundsAssumption DEF RunRef
    <3>4. ProcRef /\ ProcQuiet
      BY <1>0, <2>1, <2>2, <2>4, <3>1, <3>2, <3>3, BeginStep
    <3>5. QED
      BY <2>1, <3>4 DEF Quiet
  <2>5. QED
    BY <1>9, <2>3, <2>4 DEF RunJobFind
<1>10. CASE MarkDispatched(d)
  <2>1. proc[d].pc \notin NoRowPC
    BY <1>10 DEF MarkDispatched, At, NoRowPC
  <2>2. proc[d].snap.wfId \in {0} \cup Runs /\ proc[d].snap.wfAttempt \in 0..MaxAttempts
    BY <1>0 DEF Proc, Snapshot
  <2>3. RunRef /\ RunQuiet
    BY <1>0, <1>10, <2>1, <2>2, WorkflowStep DEF MarkDispatched
  <2>4. QED
    BY <1>0, <1>10, <2>3, Keep, FinishStep DEF MarkDispatched, Quiet
<1>11. CASE RunJobFail(d)
  BY <1>0, <1>11, Keep, FinishStep, JobWrite
     DEF RunJobFail, At, Quiet, TerminalJob,
         PC, NoRowPC, CriticalPC, ExchangePC, CompletePC, LoopPC, FreshPC
<1> QED
  BY <1>1, <1>2, <1>3, <1>4, <1>5, <1>6, <1>7, <1>8, <1>9, <1>10, <1>11 DEF RunJob

\* The failure tail.
LEMMA QuietFail ==
  ASSUME TypeOK, RefInv, NEW p \in Procs, Fail(p)
  PROVE  Quiet
<1>0. p \in Procs /\ proc[p] \in Proc
  BY DEF TypeOK
<1>1. CASE FailRun(p)
  <2>1. proc[p].to \in TerminalRun \cup TokenActive
    BY <1>0 DEF Proc, TerminalRun
  <2>2. QED
    BY <1>0, <1>1, <2>1, Keep, GotoStep, StatusStep
       DEF FailRun, At, Quiet,
           PC, NoRowPC, CriticalPC, ExchangePC, CompletePC, LoopPC, FreshPC
<1>2. CASE FailRevoke(p)
  BY <1>0, <1>2, Keep, GotoStep, FlagStep
     DEF FailRevoke, At, Quiet,
         PC, NoRowPC, CriticalPC, ExchangePC, CompletePC, LoopPC, FreshPC
<1>3. CASE FailReadJob(p)
  BY <1>0, <1>3, Keep, GotoStep, EndStep
     DEF FailReadJob, At, Quiet,
         PC, NoRowPC, CriticalPC, ExchangePC, CompletePC, LoopPC, FreshPC
<1>4. CASE FailJob(p)
  <2>1. proc[p].to \in TerminalJob \cup {"awaiting_approval"}
    BY <1>0 DEF Proc, TerminalJob
  <2>2. QED
    BY <1>0, <1>4, <2>1, Keep, EndStep, JobWrite DEF FailJob, Quiet
<1> QED
  BY <1>1, <1>2, <1>3, <1>4 DEF Fail

\* POST /jobs/{id}/cancel, after its first step.
LEMMA QuietCancel ==
  ASSUME TypeOK, RefInv, NEW u \in Users, Cancel(u)
  PROVE  Quiet
<1>0. u \in Procs /\ proc[u] \in Proc
  BY DEF Procs, Web, TypeOK
<1>1. CASE CancelReadRun(u)
  <2>1. JobStep /\ RunRef /\ RunQuiet /\ LoopStep /\ WorldStep /\ HistoryStep
    BY <1>1, Keep DEF CancelReadRun
  <2>2. CASE Goto(u, "ca_job")
    BY <1>0, <2>1, <2>2, GotoStep
       DEF Quiet, PC, NoRowPC, CriticalPC, ExchangePC, CompletePC, LoopPC, FreshPC
  <2>3. ASSUME NEW r \in Runs, IsLatest(r), Begin(u, "ca_req", r, NoSnap, 0)
        PROVE  Quiet
    <3>1. run'[r].status # "none" /\ 0 \in 0..MaxAttempts
      BY <2>1, <2>3, BoundsAssumption DEF IsLatest, RunRef
    <3>2. "ca_req" \in PC /\ "ca_req" \notin CriticalPC
      BY DEF PC, NoRowPC, CriticalPC, ExchangePC, CompletePC, LoopPC, FreshPC
    <3>3. QED
      BY <1>0, <2>1, <2>3, <3>1, <3>2, BeginStep, IdleType DEF Quiet
  <2>4. QED
    BY <1>1, <2>2, <2>3 DEF CancelReadRun
<1>2. CASE CancelRequest(u)
  BY <1>0, <1>2, Keep, GotoStep, FlagStep
     DEF CancelRequest, At, Quiet,
         PC, NoRowPC, CriticalPC, ExchangePC, CompletePC, LoopPC, FreshPC
<1>3. CASE CancelRevoke(u)
  BY <1>0, <1>3, Keep, GotoStep, FlagStep
     DEF CancelRevoke, At, Quiet,
         PC, NoRowPC, CriticalPC, ExchangePC, CompletePC, LoopPC, FreshPC
<1>4. CASE CancelEnqueue(u)
  <2>1. JobStep /\ RunRef /\ RunQuiet /\ LoopStep /\ WorldStep /\ HistoryStep
    BY <1>4, Keep DEF CancelEnqueue
  <2>2. proc[u].pc = "ca_enqueue" /\ "ca_enqueue" \notin NoRowPC /\ "ca_job" \in PC
        /\ "ca_job" \in NoRowPC /\ "ca_job" \notin CriticalPC
    BY <1>4 DEF CancelEnqueue, At, PC, NoRowPC, CriticalPC, ExchangePC, CompletePC, LoopPC, FreshPC
  <2>3. CASE Goto(u, "ca_job")
    BY <1>0, <2>1, <2>2, <2>3, GotoStep DEF Quiet
  <2>4. ASSUME NEW t \in CancelTasks, At(t, "idle"),
               proc' = [proc EXCEPT ![u].pc = "ca_job", ![t].pc = "queued"]
        PROVE  Quiet
    <3>1. t \in Procs /\ "queued" \in PC /\ "queued" \in NoRowPC /\ "queued" \notin CriticalPC
      BY DEF Procs, Tasks, PC, NoRowPC, CriticalPC, ExchangePC, CompletePC, LoopPC, FreshPC
    <3>2. proc \in [Procs -> Proc] /\ proc' \in [Procs -> Proc]
      BY <1>0, <2>2, <2>4, <3>1 DEF TypeOK, Proc
    <3>3. \A q \in Procs : /\ proc'[q].run = proc[q].run
                           /\ proc'[q] = proc[q] \/ proc'[q].pc \in {"queued", "ca_job"}
      BY <1>0, <2>4, <3>1, <3>2 DEF Proc
    <3>4. ProcRef
      BY <2>1, <2>2, <3>1, <3>2, <3>3 DEF ProcRef, RefInv, RunRef, Created
    <3>5. ProcQuiet
      BY <2>2, <3>1, <3>3 DEF ProcQuiet
    <3>6. QED
      BY <2>1, <3>4, <3>5 DEF Quiet
  <2>5. QED
    BY <1>4, <2>3, <2>4 DEF CancelEnqueue
<1>5. CASE CancelJob(u)
  BY <1>0, <1>5, Keep, FinishStep, JobWrite
     DEF CancelJob, At, Quiet, TerminalJob,
         PC, NoRowPC, CriticalPC, ExchangePC, CompletePC, LoopPC, FreshPC
<1> QED
  BY <1>1, <1>2, <1>3, <1>4, <1>5 DEF Cancel

\* The cancel_execution task.
LEMMA QuietCancelExecution ==
  ASSUME TypeOK, RefInv, NEW t \in CancelTasks, CancelExecution(t)
  PROVE  Quiet
<1>0. t \in Procs /\ proc[t] \in Proc
  BY DEF Procs, Tasks, TypeOK
<1>1. CASE TaskReadRun(t)
  <2>1. JobStep /\ RunRef /\ RunQuiet /\ LoopStep /\ WorldStep /\ HistoryStep
    BY <1>1, Keep DEF TaskReadRun
  <2>2. PICK r \in Runs : IsLatest(r) /\ Begin(t, "ct_req", r, Snap(r), 0)
    BY <1>1 DEF TaskReadRun
  <2>3. run'[r].status # "none" /\ 0 \in 0..MaxAttempts
    BY <2>1, <2>2, BoundsAssumption DEF IsLatest, RunRef
  <2>4. "ct_req" \in PC /\ "ct_req" \notin CriticalPC
    BY DEF PC, NoRowPC, CriticalPC, ExchangePC, CompletePC, LoopPC, FreshPC
  <2>5. QED
    BY <1>0, <2>1, <2>2, <2>3, <2>4, BeginStep, SnapType DEF Quiet
<1>2. CASE TaskRequest(t)
  BY <1>0, <1>2, Keep, GotoStep, FlagStep
     DEF TaskRequest, At, Quiet,
         PC, NoRowPC, CriticalPC, ExchangePC, CompletePC, LoopPC, FreshPC
<1>3. CASE TaskRevoke(t)
  BY <1>0, <1>3, Keep, GotoStep, FinishStep, FlagStep
     DEF TaskRevoke, At, Quiet,
         PC, NoRowPC, CriticalPC, ExchangePC, CompletePC, LoopPC, FreshPC
<1>4. CASE TaskCancelRun(t)
  BY <1>0, <1>4, Keep, FinishStep, StatusStep
     DEF TaskCancelRun, At, Quiet, TerminalRun,
         PC, NoRowPC, CriticalPC, ExchangePC, CompletePC, LoopPC, FreshPC
<1> QED
  BY <1>1, <1>2, <1>3, <1>4 DEF CancelExecution

\* The reconciler, at a run.
LEMMA QuietReconcile ==
  ASSUME TypeOK, RefInv, NEW c \in Reconcilers, Reconcile(c)
  PROVE  Quiet
<1>0. c \in Procs /\ proc[c] \in Proc
  BY DEF Procs, Tasks, TypeOK
<1>1. CASE ReconcileTake(c)
  <2>1. JobStep /\ RunRef /\ RunQuiet /\ LoopStep
    BY <1>1, Keep DEF ReconcileTake
  <2>2. PICK b \in batch[c] :
          /\ batch' = [batch EXCEPT ![c] = @ \ {b}]
          /\ Begin(c, IF b.snap.cancelReq THEN "rc_cset" ELSE "rc_look", b.run, b.snap, 0)
    BY <1>1 DEF ReconcileTake
  <2>3. /\ batch \in [Reconcilers -> SUBSET [run: Runs, snap: Snapshot]]
        /\ b \in [run: Runs, snap: Snapshot]
    BY DEF TypeOK
  <2>4. WorldStep /\ HistoryStep
    BY <1>1, <2>2, <2>3 DEF ReconcileTake, TypeOK, RefInv, WorldStep, HistoryStep
  <2>5. b.run \in Runs /\ b.snap \in Snapshot /\ b.run \in Created
    BY <2>3 DEF RefInv
  <2>6. run'[b.run].status # "none" /\ 0 \in 0..MaxAttempts
    BY <2>1, <2>5, BoundsAssumption DEF RunRef
  <2>7. \A l \in {"rc_cset", "rc_look"} : l \in PC /\ l \notin CriticalPC
    BY DEF PC, NoRowPC, CriticalPC, ExchangePC, CompletePC, LoopPC, FreshPC
  <2>8. ProcRef /\ ProcQuiet
    BY <1>0, <2>1, <2>2, <2>5, <2>6, <2>7, BeginStep
  <2>9. QED
    BY <2>1, <2>4, <2>8 DEF Quiet
<1>2. CASE ReconcileCancel(c)
  BY <1>0, <1>2, Keep, GotoStep, StatusStep
     DEF ReconcileCancel, At, Quiet, TerminalRun,
         PC, NoRowPC, CriticalPC, ExchangePC, CompletePC, LoopPC, FreshPC
<1>3. CASE ReconcileCancelRevoke(c)
  BY <1>0, <1>3, Keep, FinishStep, FlagStep
     DEF ReconcileCancelRevoke, At, Quiet,
         PC, NoRowPC, CriticalPC, ExchangePC, CompletePC, LoopPC, FreshPC
<1>4. CASE ReconcileLook(c)
  <2>1. /\ proc[c].pc \notin NoRowPC
        /\ \A l \in {"rc_timeout", "rc_reread"} : l \in PC /\ l \notin CriticalPC
    <3>1. proc[c].pc = "rc_look"
      BY <1>4 DEF ReconcileLook, At
    <3>2. "rc_look" \notin NoRowPC /\ {"rc_timeout", "rc_reread"} \subseteq PC \ CriticalPC
      BY DEF PC, NoRowPC, CriticalPC, ExchangePC, CompletePC, LoopPC, FreshPC
    <3> QED  BY <3>1, <3>2
  <2>2. RunRef /\ RunQuiet
    <3>1. CASE UNCHANGED run
      BY <3>1, Keep
    <3>2. ASSUME NEW f \in Findable,
                 run' = [run EXCEPT ![proc[c].run] =
                           [@ EXCEPT !.wfId = f, !.wfAttempt = attempts[f]]]
          PROVE  RunRef /\ RunQuiet
      <4>1. f \in {0} \cup Runs /\ attempts[f] \in 0..MaxAttempts
        BY DEF Findable, TypeOK
      <4>2. QED
        BY <1>0, <2>1, <3>2, <4>1, WorkflowStep
    <3>3. QED
      BY <1>4, <3>1, <3>2 DEF ReconcileLook
  <2>3. QED
    BY <1>0, <1>4, <2>1, <2>2, Keep, GotoStep DEF ReconcileLook, Quiet
<1>5. CASE ReconcileReread(c)
  <2>1. JobStep /\ RunRef /\ RunQuiet /\ LoopStep /\ WorldStep /\ HistoryStep
    BY <1>5, Keep DEF ReconcileReread
  <2>2. /\ proc[c].pc \notin NoRowPC /\ "rc_timeout" \in PC
        /\ "rc_timeout" \notin CriticalPC
    BY <1>5 DEF ReconcileReread, At, PC, NoRowPC, CriticalPC, ExchangePC, CompletePC,
                LoopPC, FreshPC
  <2>3. proc[c].run \in Runs /\ proc[c].run \in Created
    BY <1>0, <2>2, HasRow
  <2>4. run'[proc[c].run].status # "none" /\ 0 \in 0..MaxAttempts
    BY <2>1, <2>3, BoundsAssumption DEF RunRef
  <2>5. QED
    BY <1>0, <1>5, <2>1, <2>2, <2>3, <2>4, BeginStep, SnapType DEF ReconcileReread, Quiet
<1>6. CASE ReconcileTimesOut(c)
  BY <1>0, <1>6, Keep, FailWithStep
     DEF ReconcileTimesOut, At, Quiet,
         PC, NoRowPC, CriticalPC, ExchangePC, CompletePC, LoopPC, FreshPC
<1>7. CASE ReconcileInTime(c)
  BY <1>0, <1>7, Keep, GotoStep
     DEF ReconcileInTime, At, Quiet,
         PC, NoRowPC, CriticalPC, ExchangePC, CompletePC, LoopPC, FreshPC
<1>8. CASE ReconcilePoll(c)
  BY <1>0, <1>8, Keep, FinishStep, FailWithStep
     DEF ReconcilePoll, At, Quiet,
         PC, NoRowPC, CriticalPC, ExchangePC, CompletePC, LoopPC, FreshPC
<1> QED
  BY <1>1, <1>2, <1>3, <1>4, <1>5, <1>6, <1>7, <1>8 DEF Reconcile

\* The steps of the exchange and the callbacks that are quiet.
LEMMA QuietRequest ==
  ASSUME TypeOK, RefInv, NEW q \in Requests,
         \/ ExchangeClaims(q) \/ MarkStarted(q) \/ StreamSource(q) \/ FailedBody(q)
         \/ CompleteStatus(q) \/ CompleteRevoke(q) \/ SaveDiff(q)
         \/ CompleteReadJob(q) \/ GateJob(q)
  PROVE  Quiet
<1>0. q \in Procs /\ proc[q] \in Proc
  BY DEF Procs, Web, TypeOK
<1>1. CASE ExchangeClaims(q)
  BY <1>0, <1>1, Keep, GotoStep, FailWithStep
     DEF ExchangeClaims, At, Quiet,
         PC, NoRowPC, CriticalPC, ExchangePC, CompletePC, LoopPC, FreshPC
<1>2. CASE MarkStarted(q)
  BY <1>0, <1>2, Keep, FinishStep, StatusStep
     DEF MarkStarted, At, Quiet, TokenActive,
         PC, NoRowPC, CriticalPC, ExchangePC, CompletePC, LoopPC, FreshPC
<1>3. CASE StreamSource(q)
  BY <1>0, <1>3, Keep, FinishStep, FailWithStep
     DEF StreamSource, At, Quiet,
         PC, NoRowPC, CriticalPC, ExchangePC, CompletePC, LoopPC, FreshPC
<1>4. CASE FailedBody(q)
  <2>1. JobStep /\ RunRef /\ RunQuiet /\ WorldStep /\ HistoryStep
    BY <1>4, Keep DEF FailedBody
  <2>2. proc[q].pc \notin NoRowPC
    BY <1>4 DEF FailedBody, At, NoRowPC
  <2>3. ProcRef /\ ProcQuiet
    BY <1>0, <1>4, <2>1, <2>2, FinishStep, FailWithStep DEF FailedBody
  <2>4. LoopStep
    BY <1>4, ActorsAssumption DEF FailedBody, LoopStep, TypeOK
  <2>5. QED
    BY <2>1, <2>3, <2>4 DEF Quiet
<1>5. CASE CompleteStatus(q)
  BY <1>0, <1>5, Keep, GotoStep, StatusStep
     DEF CompleteStatus, At, Quiet, TerminalRun,
         PC, NoRowPC, CriticalPC, ExchangePC, CompletePC, LoopPC, FreshPC
<1>6. CASE CompleteRevoke(q)
  BY <1>0, <1>6, Keep, GotoStep, FlagStep
     DEF CompleteRevoke, At, Quiet,
         PC, NoRowPC, CriticalPC, ExchangePC, CompletePC, LoopPC, FreshPC
<1>7. CASE SaveDiff(q)
  <2>1. JobStep
    BY <1>0, <1>7 DEF SaveDiff, JobStep, TypeOK, Proc
  <2>2. QED
    BY <1>0, <1>7, <2>1, Keep, GotoStep
       DEF SaveDiff, At, Quiet,
           PC, NoRowPC, CriticalPC, ExchangePC, CompletePC, LoopPC, FreshPC
<1>8. CASE CompleteReadJob(q)
  BY <1>0, <1>8, Keep, GotoStep, EndStep
     DEF CompleteReadJob, At, Quiet,
         PC, NoRowPC, CriticalPC, ExchangePC, CompletePC, LoopPC, FreshPC
<1>9. CASE GateJob(q)
  BY <1>0, <1>9, Keep, EndStep, JobWrite
     DEF GateJob, At, Quiet,
         PC, NoRowPC, CriticalPC, ExchangePC, CompletePC, LoopPC, FreshPC
<1> QED
  BY <1>1, <1>2, <1>3, <1>4, <1>5, <1>6, <1>7, <1>8, <1>9

\* The arrivals that are quiet: an exchange, a cancellation, and any request with
\* a token but a completion.
LEMMA QuietArrival ==
  ASSUME TypeOK, RefInv,
         \/ \E q \in Requests, r \in Runs, a \in 1..MaxAttempts : ExchangeStart(q, r, a)
         \/ \E u \in Users : CancelStart(u)
  PROVE  Quiet
<1>1. ASSUME NEW q \in Requests, NEW r \in Runs, NEW a \in 1..MaxAttempts,
             ExchangeStart(q, r, a)
      PROVE  Quiet
  <2>1. JobStep /\ RunRef /\ RunQuiet /\ WorldStep /\ HistoryStep
    BY <1>1, Keep DEF ExchangeStart
  <2>2. q \in Procs /\ Snap(r) \in Snapshot /\ a \in 0..MaxAttempts
    BY SnapType, BoundsAssumption DEF Procs, Web
  <2>3. r \in Created /\ run'[r].status # "none"
    BY <1>1, <2>1 DEF ExchangeStart, IsLatest, RunRef
  <2>4. proc[q].pc = "idle" /\ \A l \in {"x_claims", "fl_run"} : l \in PC /\ l \notin CriticalPC
    BY <1>1 DEF ExchangeStart, At, PC, NoRowPC, CriticalPC, ExchangePC, CompletePC, LoopPC, FreshPC
  <2>5. ProcRef /\ ProcQuiet
    BY <1>1, <2>1, <2>2, <2>3, <2>4, BeginStep, IdleType DEF ExchangeStart
  <2>6. LoopStep
    BY <1>1, ActorsAssumption DEF ExchangeStart, LoopStep, TypeOK
  <2>7. QED
    BY <2>1, <2>5, <2>6 DEF Quiet
<1>2. ASSUME NEW u \in Users, CancelStart(u)
      PROVE  Quiet
  <2>1. JobStep /\ RunRef /\ RunQuiet /\ LoopStep /\ WorldStep /\ HistoryStep
    BY <1>2, Keep DEF CancelStart
  <2>2. u \in Procs /\ "ca_run" \in PC /\ "ca_run" \in NoRowPC /\ "ca_run" \notin CriticalPC
    BY DEF Procs, Web, PC, NoRowPC, CriticalPC, ExchangePC, CompletePC, LoopPC, FreshPC
  <2>3. ProcRef /\ ProcQuiet
    BY <1>2, <2>1, <2>2, GotoStep DEF CancelStart
  <2>4. QED
    BY <2>1, <2>3 DEF Quiet
<1> QED
  BY <1>1, <1>2

\* The beginning of a reconciliation.
LEMMA QuietScan ==
  ASSUME TypeOK, RefInv, NEW c \in Reconcilers, ReconcileScan(c)
  PROVE  Quiet
<1> DEFINE looked == {[run |-> r, snap |-> Snap(r)] : r \in ActiveRuns}
<1>1. JobStep /\ RunRef /\ RunQuiet /\ LoopStep
  BY Keep DEF ReconcileScan
<1>2. \A r \in ActiveRuns : r \in Runs /\ r \in Created /\ Snap(r) \in Snapshot
  BY SnapType DEF ActiveRuns, Created
<1>3. looked \in SUBSET [run: Runs, snap: Snapshot] /\ \A b \in looked : b.run \in Created
  BY <1>2
<1>4. batch' = [batch EXCEPT ![c] = looked]
  BY DEF ReconcileScan
<1> HIDE DEF looked
<1>5. WorldStep /\ HistoryStep
  BY <1>3, <1>4 DEF ReconcileScan, TypeOK, RefInv, WorldStep, HistoryStep
<1>6. ProcRef /\ ProcQuiet
  BY DEF ReconcileScan, TypeOK, RefInv, ProcRef, ProcQuiet, Created
<1>7. QED
  BY <1>1, <1>5, <1>6 DEF Quiet

\* A re-run of the workflow on GitHub.
LEMMA QuietRerun ==
  ASSUME TypeOK, RefInv, NEW r \in Runs, WorkflowRerun(r)
  PROVE  Quiet
<1>1. JobStep /\ RunRef /\ RunQuiet /\ LoopStep
  BY Keep DEF WorkflowRerun
<1>2. attempts' \in [Runs -> 0..MaxAttempts]
  BY BoundsAssumption DEF WorkflowRerun, TypeOK
<1>3. WorldStep /\ HistoryStep
  BY <1>2 DEF WorkflowRerun, TypeOK, RefInv, WorldStep, HistoryStep
<1>4. ProcRef /\ ProcQuiet
  BY DEF WorkflowRerun, TypeOK, RefInv, ProcRef, ProcQuiet, Created
<1>5. QED
  BY <1>1, <1>3, <1>4 DEF Quiet

\* A crash of the web process: its actors are idle and nobody holds the loop.
LEMMA QuietCrashWeb ==
  ASSUME TypeOK, RefInv, CrashWeb
  PROVE  Quiet
<1>1. JobStep /\ RunRef /\ RunQuiet
  BY Keep DEF CrashWeb
<1>2. crashes' \in 0..MaxCrashes
  BY BoundsAssumption DEF CrashWeb, TypeOK
<1>3. WorldStep /\ HistoryStep
  BY <1>2 DEF CrashWeb, TypeOK, RefInv, WorldStep, HistoryStep
<1>4. Idle \in Proc /\ Idle.pc = "idle" /\ Idle.run = 0
  BY IdleType DEF Idle
<1>5. "idle" \in NoRowPC /\ "idle" \notin CriticalPC /\ "idle" \notin LoopPC
  BY DEF PC, NoRowPC, CriticalPC, ExchangePC, CompletePC, LoopPC, FreshPC
<1>6. proc' = [p \in Procs |-> IF p \in Web THEN Idle ELSE proc[p]] /\ loop' = NoOne
  BY DEF CrashWeb
<1>7. ProcRef
  <2>1. proc' \in [Procs -> Proc]
    BY <1>4, <1>6 DEF TypeOK
  <2>2. \A p \in Procs : proc'[p] \in {Idle, proc[p]}
    BY <1>6
  <2>3. QED
    BY <1>1, <1>4, <1>5, <2>1, <2>2 DEF ProcRef, RefInv, RunRef, Created
<1>8. ProcQuiet
  BY <1>4, <1>5, <1>6 DEF ProcQuiet
<1>9. LoopStep
  BY <1>4, <1>5, <1>6 DEF LoopStep, TypeOK, Web, Procs
<1>10. QED
  BY <1>1, <1>3, <1>7, <1>8, <1>9 DEF Quiet

\* A crash of a worker: its task goes back to the queue, or to beat.
LEMMA QuietCrashWorker ==
  ASSUME TypeOK, RefInv, NEW t \in Tasks, CrashWorker(t)
  PROVE  Quiet
<1>0. t \in Procs
  BY DEF Procs
<1>1. JobStep /\ RunRef /\ RunQuiet /\ LoopStep
  BY Keep DEF CrashWorker
<1>2. crashes' \in 0..MaxCrashes
  BY BoundsAssumption DEF CrashWorker, TypeOK
<1>3. CASE t \in Reconcilers
  <2>1. Finish(t) /\ batch' = [batch EXCEPT ![t] = {}]
    BY <1>3 DEF CrashWorker
  <2>2. WorldStep /\ HistoryStep
    BY <1>2, <2>1 DEF CrashWorker, TypeOK, RefInv, WorldStep, HistoryStep
  <2>3. QED
    BY <1>0, <1>1, <2>1, <2>2, FinishStep DEF Quiet
<1>4. CASE t \notin Reconcilers
  <2> DEFINE x == [Idle EXCEPT !.pc = "queued"]
  <2>1. proc' = [proc EXCEPT ![t] = x] /\ batch' = batch
    BY <1>4 DEF CrashWorker
  <2>2. WorldStep /\ HistoryStep
    BY <1>2, <2>1 DEF CrashWorker, TypeOK, RefInv, WorldStep, HistoryStep
  <2>3. x \in Proc /\ x.run = 0 /\ x.pc \in NoRowPC /\ x.pc \notin CriticalPC
    BY IdleFields
  <2> HIDE DEF x
  <2>4. QED
    BY <1>0, <1>1, <2>1, <2>2, <2>3, ProcReplaced DEF Quiet
<1> QED
  BY <1>3, <1>4

-----------------------------------------------------------------------------
(***************************************************************************)
(* What a step must keep: the invariant, every revocation of an issued     *)
(* token, and every recorded patch.                                        *)
(***************************************************************************)
Guarded ==
    \A r \in Runs :
        /\ run[r].hashed /\ run[r].revoked => run'[r].revoked
        /\ run[r].patch # NoPatch => run'[r].patch = run[r].patch

\* The initial state satisfies the invariant.
LEMMA InitIInv == Init => IInv
<1> SUFFICES ASSUME Init PROVE IInv
  OBVIOUS
<1>1. TypeOK
  <2>1. job \in [status: JobStatus, diff: Patches \cup {NoPatch}]
    BY DEF Init, JobStatus
  <2>2. [Idle EXCEPT !.pc = "queued"] \in Proc
    BY IdleFields
  <2>3. QED
    BY <2>1, <2>2, IdleType, NoRowType, BoundsAssumption DEF Init, TypeOK
<1>2. \A p \in Procs : proc[p].pc \in {"idle", "queued"} /\ proc[p].run = 0
  BY DEF Init, Idle
<1>3. \A l \in {"idle", "queued"} : l \in NoRowPC /\ l \notin CriticalPC
  BY IdleFields
<1>4. \A r \in Runs : run[r] = NoRow
  BY DEF Init
<1>5. RefInv
  BY <1>2, <1>3, <1>4 DEF Init, RefInv
<1>6. RowInv
  BY <1>4 DEF Init, RowInv, NoRow
<1>7. ExchangeInv /\ CompleteInv
  BY <1>2, <1>3 DEF ExchangeInv, CompleteInv, CriticalPC, CompletePC, LoopPC
<1>8. QED
  BY <1>1, <1>5, <1>6, <1>7 DEF IInv

\* The part of the invariant about types and references.
LEMMA RefNext ==
  ASSUME TypeOK, RefInv, JobStep, RunRef, ProcRef, LoopStep, WorldStep,
         issued' \in [Runs -> Nat], delivered' \in [Runs -> Nat]
  PROVE  TypeOK' /\ RefInv'
<1>1. TypeOK'
  BY DEF TypeOK, JobStep, RunRef, ProcRef, LoopStep, WorldStep
<1>2. \A r \in Runs : r \in Created => r \in Created'
  BY DEF RunRef, Created
<1>3. \A c \in Reconcilers : \A b \in batch'[c] : b.run \in Created'
  BY <1>2 DEF WorldStep, Created
<1>4. RefInv'
  BY <1>3 DEF RefInv, ProcRef, RunRef, Created
<1>5. QED
  BY <1>1, <1>4

\* A quiet step keeps the invariant.
LEMMA QuietKeeps ==
  ASSUME IInv, Quiet
  PROVE  IInv' /\ Guarded
<1>0. TypeOK /\ RefInv /\ RowInv /\ ExchangeInv /\ CompleteInv
  BY DEF IInv
<1>1. TypeOK' /\ RefInv'
  BY <1>0, RefNext DEF Quiet, HistoryStep, TypeOK
<1>2. \A p \in Procs : proc'[p].pc \in CriticalPC =>
          /\ proc'[p] = proc[p]
          /\ proc[p].run \in Runs
  <2>1. ASSUME NEW p \in Procs, proc'[p].pc \in CriticalPC
        PROVE  proc'[p] = proc[p] /\ proc[p].run \in Runs
    <3>1. proc'[p] = proc[p]
      BY <2>1 DEF Quiet, ProcQuiet
    <3>2. proc[p].pc \notin NoRowPC
      BY <2>1, <3>1 DEF PC, NoRowPC, CriticalPC, ExchangePC, CompletePC, LoopPC, FreshPC
    <3>3. QED
      BY <1>0, <3>1, <3>2, HasRow
  <2>2. QED
    BY <2>1
<1>3. RowInv'
  BY <1>0 DEF Quiet, RunQuiet, HistoryStep, RowInv
<1>4. ExchangeInv'
  BY <1>0, <1>2 DEF Quiet, RunQuiet, ExchangeInv, CriticalPC
<1>5. CompleteInv'
  <2>1. ASSUME NEW p \in Procs, proc'[p].pc \in LoopPC PROVE loop' = p
    BY <1>0, <1>2, <2>1 DEF Quiet, LoopStep, CompleteInv, CriticalPC, CompletePC
  <2>2. ASSUME NEW p \in Procs
        PROVE  /\ proc'[p].pc \in CompletePC => run'[proc'[p].run].hashed
               /\ proc'[p].pc \in FreshPC => run'[proc'[p].run].patch = NoPatch
    BY <1>0, <1>2 DEF Quiet, RunQuiet, CompleteInv, CriticalPC, CompletePC, LoopPC
  <2>3. QED
    BY <2>1, <2>2 DEF CompleteInv
<1>6. Guarded
  BY DEF Quiet, RunQuiet, Guarded
<1>7. QED
  BY <1>1, <1>3, <1>4, <1>5, <1>6 DEF IInv

-----------------------------------------------------------------------------
(***************************************************************************)
(* The actions that are not quiet.                                         *)
(***************************************************************************)
\* A row write changes no other row and no actor but the one that makes it.
LEMMA OtherProcs ==
  ASSUME TypeOK, NEW q \in Procs, NEW x, proc' = [proc EXCEPT ![q] = x]
  PROVE  proc'[q] = x /\ \A p \in Procs : p # q => proc'[p] = proc[p]
  BY DEF TypeOK

\* Consuming the nonce: nobody else is between consuming and binding.
LEMMA ConsumeKeeps ==
  ASSUME IInv, NEW q \in Requests, ConsumeNonce(q)
  PROVE  IInv' /\ Guarded
<1> DEFINE r == proc[q].run
           l == IF proc[q].snap.wfId = 0 THEN "x_setwf" ELSE "x_bind"
           row == [run[r] EXCEPT !.nonceUsed = TRUE]
           x == [proc[q] EXCEPT !.pc = l]
<1>0. /\ TypeOK /\ RefInv /\ RowInv /\ ExchangeInv /\ CompleteInv
      /\ q \in Procs /\ proc[q] \in Proc
  BY DEF IInv, Procs, Web, TypeOK
<1>1. proc[q].pc = "x_consume" /\ proc[q].pc \notin NoRowPC /\ proc[q].pc \notin CriticalPC
  BY DEF ConsumeNonce, At, PC, NoRowPC, CriticalPC, ExchangePC, CompletePC, LoopPC, FreshPC
<1>2. /\ r \in Runs /\ r \in Created /\ run[r] \in RunRow /\ run[r].status # "none"
      /\ run \in [Runs -> RunRow]
  BY <1>0, <1>1, HasRow DEF TypeOK, Created
<1>3. CASE End(q) /\ UNCHANGED run
  <2>1. Quiet
    BY <1>0, <1>3, Keep, EndStep DEF ConsumeNonce, Quiet
  <2>2. QED
    BY <2>1, QuietKeeps
<1>4. CASE ~(End(q) /\ UNCHANGED run)
  <2>1. /\ ~run[r].nonceUsed
        /\ run' = [run EXCEPT ![r].nonceUsed = TRUE]
        /\ Goto(q, l) /\ loop' = loop
    BY <1>4 DEF ConsumeNonce
  <2>2. JobStep /\ LoopStep /\ WorldStep /\ HistoryStep
    BY <1>0, <2>1, Keep DEF ConsumeNonce
  <2>3. run' = [run EXCEPT ![r] = row] /\ proc' = [proc EXCEPT ![q] = x]
    BY <1>0, <1>2, <2>1 DEF Goto, TypeOK
  <2>4. /\ row \in RunRow /\ row.status # "none" /\ row.nonceUsed
        /\ row.hashed = run[r].hashed /\ row.sourced = run[r].sourced
        /\ row.patch = run[r].patch /\ row.revoked = run[r].revoked
    BY <1>2 DEF RunRow
  <2>5. l \in PC /\ l \in ExchangePC /\ l \notin CompletePC /\ l \notin LoopPC /\ l \notin FreshPC
    BY DEF PC, NoRowPC, CriticalPC, ExchangePC, CompletePC, LoopPC, FreshPC
  <2>6. x.pc = l /\ x.run = r
    BY <1>0 DEF Proc
  <2> HIDE DEF row, l, x
  <2>7. RunRef
    BY <1>0, <1>2, <2>3, <2>4, RowRef
  <2>8. ProcRef
    BY <1>0, <1>1, <2>1, <2>5, <2>7, GotoStep
  <2>9. TypeOK' /\ RefInv'
    BY <1>0, <2>2, <2>7, <2>8, RefNext DEF HistoryStep, TypeOK
  <2>10. /\ proc'[q].pc = l /\ proc'[q].run = r
         /\ \A p \in Procs : p # q => proc'[p] = proc[p]
    BY <1>0, <2>3, <2>6, OtherProcs
  <2>11. run'[r] = row /\ \A s \in Runs : s # r => run'[s] = run[s]
    BY <1>2, <2>3, <2>4, RowReplaced
  <2>12. RowInv'
    BY <1>0, <2>2, <2>4, <2>11 DEF RowInv, HistoryStep
  <2>13. ASSUME NEW p \in Procs, proc[p].pc \in CriticalPC
         PROVE  proc[p].run \in Runs
    <3>1. proc[p].pc \notin NoRowPC
      BY <2>13 DEF PC, NoRowPC, CriticalPC, ExchangePC, CompletePC, LoopPC, FreshPC
    <3>2. QED
      BY <1>0, <3>1, HasRow
  <2>14. \A p \in Procs : p # q /\ proc[p].pc \in ExchangePC => proc[p].run # r
    BY <1>0, <2>1 DEF ExchangeInv
  <2>15. ~run[r].hashed
    BY <1>0, <1>2, <2>1 DEF RowInv
  <2>16. ExchangeInv'
    BY <1>2, <1>0, <2>4, <2>5, <2>10, <2>11, <2>13, <2>14, <2>15 DEF ExchangeInv, CriticalPC
  <2>17. CompleteInv'
    BY <1>0, <2>1, <2>4, <2>5, <2>10, <2>11, <2>13 DEF CompleteInv, CriticalPC, CompletePC, LoopPC
  <2>18. Guarded
    BY <2>4, <2>11 DEF Guarded
  <2>19. QED
    BY <2>9, <2>12, <2>16, <2>17, <2>18 DEF IInv
<1>5. QED
  BY <1>3, <1>4

\* Recording the workflow of the run that consumed its nonce.
LEMMA SetWorkflowKeeps ==
  ASSUME IInv, NEW q \in Requests, SetWorkflowRun(q)
  PROVE  IInv' /\ Guarded
<1> DEFINE x == [proc[q] EXCEPT !.pc = "x_bind"]
<1>0. /\ TypeOK /\ RefInv /\ RowInv /\ ExchangeInv /\ CompleteInv
      /\ q \in Procs /\ proc[q] \in Proc
  BY DEF IInv, Procs, Web, TypeOK
<1>1. /\ proc[q].pc = "x_setwf" /\ proc[q].pc \notin NoRowPC /\ proc[q].pc \in ExchangePC
      /\ "x_bind" \in PC /\ "x_bind" \in ExchangePC
      /\ "x_bind" \notin CompletePC /\ "x_bind" \notin LoopPC /\ "x_bind" \notin FreshPC
  BY DEF SetWorkflowRun, At, PC, NoRowPC, CriticalPC, ExchangePC, CompletePC, LoopPC, FreshPC
<1>2. proc[q].run \in Runs /\ proc[q].attempt \in 0..MaxAttempts
  BY <1>0, <1>1, HasRow DEF Proc
<1>3. RunRef /\ RunQuiet
  BY <1>0, <1>1, <1>2, WorkflowStep DEF SetWorkflowRun
<1>4. JobStep /\ LoopStep /\ WorldStep /\ HistoryStep
  BY <1>0, Keep DEF SetWorkflowRun
<1>5. Goto(q, "x_bind") /\ loop' = loop
  BY DEF SetWorkflowRun
<1>6. ProcRef
  BY <1>0, <1>1, <1>3, <1>5, GotoStep
<1>7. TypeOK' /\ RefInv'
  BY <1>0, <1>3, <1>4, <1>6, RefNext DEF HistoryStep, TypeOK
<1>8. proc' = [proc EXCEPT ![q] = x] /\ x.pc = "x_bind" /\ x.run = proc[q].run
  BY <1>0, <1>5 DEF Goto, Proc, TypeOK
<1> HIDE DEF x
<1>9. /\ proc'[q].pc = "x_bind" /\ proc'[q].run = proc[q].run
      /\ \A p \in Procs : p # q => proc'[p] = proc[p]
  BY <1>0, <1>8, OtherProcs
<1>10. ASSUME NEW p \in Procs, proc[p].pc \in CriticalPC
       PROVE  proc[p].run \in Runs
  <2>1. proc[p].pc \notin NoRowPC
    BY <1>10 DEF PC, NoRowPC, CriticalPC, ExchangePC, CompletePC, LoopPC, FreshPC
  <2>2. QED
    BY <1>0, <2>1, HasRow
<1>11. RowInv'
  BY <1>0, <1>3, <1>4 DEF RowInv, RunQuiet, HistoryStep
<1>12. ExchangeInv'
  BY <1>0, <1>1, <1>2, <1>3, <1>9, <1>10 DEF ExchangeInv, RunQuiet, CriticalPC
<1>13. CompleteInv'
  BY <1>0, <1>1, <1>3, <1>5, <1>9, <1>10 DEF CompleteInv, RunQuiet, CriticalPC, CompletePC, LoopPC
<1>14. Guarded
  BY <1>3 DEF Guarded, RunQuiet
<1>15. QED
  BY <1>7, <1>11, <1>12, <1>13, <1>14 DEF IInv

\* Binding the token: the run had none, and no other exchange is past the nonce.
LEMMA BindKeeps ==
  ASSUME IInv, NEW q \in Requests, BindToken(q)
  PROVE  IInv' /\ Guarded
<1> DEFINE r == proc[q].run
           row == [run[r] EXCEPT !.hashed = TRUE, !.revoked = FALSE,
                                 !.status = "authenticated"]
<1>0. /\ TypeOK /\ RefInv /\ RowInv /\ ExchangeInv /\ CompleteInv
      /\ q \in Procs /\ proc[q] \in Proc
  BY DEF IInv, Procs, Web, TypeOK
<1>1. proc[q].pc = "x_bind" /\ proc[q].pc \notin NoRowPC /\ proc[q].pc \in ExchangePC
  BY DEF BindToken, At, PC, NoRowPC, CriticalPC, ExchangePC, CompletePC, LoopPC, FreshPC
<1>2. /\ r \in Runs /\ r \in Created /\ run[r] \in RunRow /\ run \in [Runs -> RunRow]
      /\ run[r].nonceUsed /\ ~run[r].hashed
  BY <1>0, <1>1, HasRow DEF TypeOK, ExchangeInv
<1>3. "authenticated" \in RunStatus /\ "authenticated" # "none"
  BY DEF RunStatus, TokenActive
<1>4. /\ row \in RunRow /\ row.status # "none" /\ row.hashed
      /\ row.nonceUsed = run[r].nonceUsed /\ row.sourced = run[r].sourced
      /\ row.patch = run[r].patch
  BY <1>2, <1>3 DEF RunRow
<1>5. run' = [run EXCEPT ![r] = row]
  BY DEF BindToken
<1>6. End(q) /\ issued' = [issued EXCEPT ![r] = @ + 1] /\ delivered' = delivered
  BY DEF BindToken
<1>7. JobStep
  BY <1>0, Keep DEF BindToken
<1>8. WorldStep
  <2>1. proc[q].attempt \in 0..MaxAttempts
    BY <1>0 DEF Proc
  <2>2. QED
    BY <1>0, <2>1 DEF BindToken, TypeOK, RefInv, WorldStep
<1> HIDE DEF row
<1>9. RunRef
  BY <1>0, <1>2, <1>4, <1>5, RowRef
<1>10. ProcRef /\ ProcQuiet /\ LoopStep
  BY <1>0, <1>6, <1>9, EndStep
<1>11. TypeOK' /\ RefInv'
  <2>1. issued' \in [Runs -> Nat] /\ delivered' \in [Runs -> Nat]
    BY <1>0, <1>2, <1>6 DEF TypeOK
  <2>2. QED
    BY <1>0, <1>7, <1>8, <1>9, <1>10, <2>1, RefNext
<1>12. run'[r] = row /\ \A s \in Runs : s # r => run'[s] = run[s]
  BY <1>2, <1>4, <1>5, RowReplaced
<1>13. issued'[r] = issued[r] + 1 /\ \A s \in Runs : s # r => issued'[s] = issued[s]
  BY <1>0, <1>2, <1>6 DEF TypeOK
<1>14. RowInv'
  <2>1. issued[r] = 0
    BY <1>0, <1>2 DEF RowInv
  <2>2. issued'[r] = 1 /\ run'[r].hashed /\ run'[r].nonceUsed
    <3>1. issued'[r] = 1
      BY <1>13, <2>1
    <3>2. run'[r].hashed
      BY <1>4, <1>12
    <3>3. run'[r].nonceUsed
      BY <1>2, <1>4, <1>12
    <3>4. QED
      BY <3>1, <3>2, <3>3
  <2>3. run'[r].sourced = run[r].sourced
    BY <1>4, <1>12
  <2> HIDE DEF r
  <2>4. ASSUME NEW s \in Runs, s # r
        PROVE  run'[s] = run[s] /\ issued'[s] = issued[s]
    BY <1>12, <1>13, <2>4
  <2>5. QED
    BY <1>0, <1>6, <2>2, <2>3, <2>4 DEF RowInv
<1>15. ASSUME NEW p \in Procs, proc'[p].pc \in CriticalPC
       PROVE  proc'[p] = proc[p] /\ p # q /\ proc[p].run \in Runs
  <2>1. proc'[p] = proc[p]
    BY <1>10, <1>15 DEF ProcQuiet
  <2>2. proc[p].pc \notin NoRowPC
    BY <1>15, <2>1 DEF PC, NoRowPC, CriticalPC, ExchangePC, CompletePC, LoopPC, FreshPC
  <2>3. proc'[q] = Idle
    BY <1>0, <1>6 DEF End, Finish, TypeOK
  <2>4. "idle" \notin CriticalPC /\ Idle.pc = "idle"
    BY DEF Idle, PC, NoRowPC, CriticalPC, ExchangePC, CompletePC, LoopPC, FreshPC
  <2>5. QED
    BY <1>0, <1>15, <2>1, <2>2, <2>3, <2>4, HasRow
<1>16. ExchangeInv'
  BY <1>0, <1>1, <1>12, <1>15 DEF ExchangeInv, CriticalPC
<1>17. CompleteInv'
  <2>1. \A p \in Procs : proc'[p].pc \in LoopPC => loop' = p
    BY <1>0, <1>10, <1>15 DEF LoopStep, CompleteInv, CriticalPC, CompletePC
  <2>2. \A p \in Procs : proc'[p].pc \in CompletePC => run'[proc'[p].run].hashed
    BY <1>0, <1>4, <1>12, <1>15 DEF CompleteInv, CriticalPC
  <2>3. \A p \in Procs : proc'[p].pc \in FreshPC => run'[proc'[p].run].patch = NoPatch
    BY <1>0, <1>4, <1>12, <1>15 DEF CompleteInv, CriticalPC, CompletePC, LoopPC
  <2>4. QED
    BY <2>1, <2>2, <2>3 DEF CompleteInv
<1>18. Guarded
  BY <1>2, <1>4, <1>12 DEF Guarded
<1>19. QED
  BY <1>11, <1>14, <1>16, <1>17, <1>18 DEF IInv

\* Claiming the source download, for the one request that does.
LEMMA ClaimKeeps ==
  ASSUME IInv, NEW q \in Requests, ClaimSource(q)
  PROVE  IInv' /\ Guarded
<1> DEFINE r == proc[q].run
           row == [run[r] EXCEPT !.sourced = TRUE]
<1>0. /\ TypeOK /\ RefInv /\ RowInv /\ ExchangeInv /\ CompleteInv
      /\ q \in Procs /\ proc[q] \in Proc
  BY DEF IInv, Procs, Web, TypeOK
<1>1. /\ proc[q].pc = "so_claim" /\ proc[q].pc \notin NoRowPC
      /\ "so_stream" \in PC /\ "so_stream" \notin CriticalPC
  BY DEF ClaimSource, At, PC, NoRowPC, CriticalPC, ExchangePC, CompletePC, LoopPC, FreshPC
<1>2. /\ r \in Runs /\ r \in Created /\ run[r] \in RunRow /\ run \in [Runs -> RunRow]
      /\ run[r].status # "none"
  BY <1>0, <1>1, HasRow DEF TypeOK, Created
<1>3. JobStep /\ LoopStep
  BY <1>0, Keep DEF ClaimSource
<1>4. WorldStep
  BY <1>0 DEF ClaimSource, TypeOK, RefInv, WorldStep
<1>5. CASE run[r].sourced
  <2>1. Finish(q) /\ run' = run /\ issued' = issued /\ delivered' = delivered
    BY <1>5 DEF ClaimSource
  <2>2. Quiet
    BY <1>0, <1>3, <1>4, <2>1, Keep, FinishStep DEF Quiet, HistoryStep
  <2>3. QED
    BY <2>2, QuietKeeps
<1>6. CASE ~run[r].sourced
  <2>1. /\ run' = [run EXCEPT ![r].sourced = TRUE]
        /\ delivered' = [delivered EXCEPT ![r] = @ + 1]
        /\ issued' = issued /\ Goto(q, "so_stream")
    BY <1>6 DEF ClaimSource
  <2>2. run' = [run EXCEPT ![r] = row]
    BY <1>2, <2>1
  <2>3. /\ row \in RunRow /\ row.status # "none" /\ row.sourced
        /\ row.nonceUsed = run[r].nonceUsed /\ row.hashed = run[r].hashed
        /\ row.patch = run[r].patch /\ row.revoked = run[r].revoked
    BY <1>2 DEF RunRow
  <2> HIDE DEF row
  <2>4. RunRef
    BY <1>0, <1>2, <2>2, <2>3, RowRef
  <2>5. ProcRef /\ ProcQuiet
    BY <1>0, <1>1, <2>1, <2>4, GotoStep
  <2>6. TypeOK' /\ RefInv'
    <3>1. issued' \in [Runs -> Nat] /\ delivered' \in [Runs -> Nat]
      BY <1>0, <1>2, <2>1 DEF TypeOK
    <3>2. QED
      BY <1>0, <1>3, <1>4, <2>4, <2>5, <3>1, RefNext
  <2>7. run'[r] = row /\ \A s \in Runs : s # r => run'[s] = run[s]
    BY <1>2, <2>2, <2>3, RowReplaced
  <2>8. delivered'[r] = delivered[r] + 1 /\ \A s \in Runs : s # r => delivered'[s] = delivered[s]
    BY <1>0, <1>2, <2>1 DEF TypeOK
  <2>9. RowInv'
    <3>1. delivered[r] = 0
      BY <1>0, <1>2, <1>6 DEF RowInv
    <3>2. QED
      BY <1>0, <2>1, <2>3, <2>7, <2>8, <3>1 DEF RowInv
  <2>10. ASSUME NEW p \in Procs, proc'[p].pc \in CriticalPC
         PROVE  proc'[p] = proc[p] /\ proc[p].run \in Runs
    <3>1. proc'[p] = proc[p]
      BY <2>5, <2>10 DEF ProcQuiet
    <3>2. proc[p].pc \notin NoRowPC
      BY <2>10, <3>1 DEF PC, NoRowPC, CriticalPC, ExchangePC, CompletePC, LoopPC, FreshPC
    <3>3. QED
      BY <1>0, <3>1, <3>2, HasRow
  <2>11. ExchangeInv'
    BY <1>0, <2>3, <2>7, <2>10 DEF ExchangeInv, CriticalPC
  <2>12. CompleteInv'
    <3>1. loop' = loop
      BY DEF ClaimSource
    <3>2. QED
      BY <1>0, <2>3, <2>7, <2>10, <3>1 DEF CompleteInv, CriticalPC, CompletePC, LoopPC
  <2>13. Guarded
    BY <2>3, <2>7 DEF Guarded
  <2>14. QED
    BY <2>6, <2>9, <2>11, <2>12, <2>13 DEF IInv
<1>7. QED
  BY <1>5, <1>6

\* The beginning of a completion: its token was just accepted.
LEMMA AuthenticateKeeps ==
  ASSUME IInv, NEW q \in Requests, NEW r \in Runs, Authenticate(q, r)
  PROVE  IInv' /\ Guarded
<1>0. /\ TypeOK /\ RefInv /\ RowInv /\ ExchangeInv /\ CompleteInv
      /\ q \in Procs /\ proc[q] \in Proc /\ proc \in [Procs -> Proc]
  BY DEF IInv, Procs, Web, TypeOK
<1>1. JobStep /\ RunRef /\ RunQuiet /\ LoopStep /\ WorldStep /\ HistoryStep
      /\ run' = run /\ loop' = loop
  BY <1>0, Keep DEF Authenticate
<1>2. run[r].hashed /\ run[r].status # "none"
  BY DEF Authenticate, TokenUsable, TokenActive
<1>3. /\ run'[r].status # "none" /\ 0 \in 0..MaxAttempts /\ holder[r] \in 0..MaxAttempts
      /\ NoSnap \in Snapshot /\ Snap(r) \in Snapshot
  BY <1>0, <1>1, <1>2, BoundsAssumption, IdleType, SnapType DEF TypeOK
<1>4. CASE Begin(q, "co_body", r, Snap(r), holder[r])
  <2>1. /\ "co_body" \in PC /\ "co_body" \in CompletePC /\ "co_body" \notin LoopPC
        /\ "co_body" \notin FreshPC /\ "co_body" \notin ExchangePC
    BY DEF PC, NoRowPC, CriticalPC, ExchangePC, CompletePC, LoopPC, FreshPC
  <2>2. ProcRef
    BY <1>0, <1>1, <1>3, <1>4, <2>1, BeginStep
  <2>3. TypeOK' /\ RefInv'
    BY <1>0, <1>1, <2>2, RefNext DEF HistoryStep, TypeOK
  <2> DEFINE x == [Idle EXCEPT !.pc = "co_body", !.run = r,
                               !.snap = Snap(r), !.attempt = holder[r]]
  <2>4. x.pc = "co_body" /\ x.run = r /\ proc' = [proc EXCEPT ![q] = x]
    BY <1>4, IdleType DEF Begin, Proc
  <2> HIDE DEF x
  <2>5. /\ proc'[q].pc = "co_body" /\ proc'[q].run = r
        /\ \A p \in Procs : p # q => proc'[p] = proc[p]
    BY <1>0, <2>4, OtherProcs
  <2>6. RowInv' /\ Guarded
    BY <1>0, <1>1 DEF RowInv, RunQuiet, HistoryStep, Guarded
  <2>7. ExchangeInv'
    BY <1>0, <1>1, <2>1, <2>5 DEF ExchangeInv
  <2>8. CompleteInv'
    BY <1>0, <1>1, <1>2, <2>1, <2>5 DEF CompleteInv
  <2>9. QED
    BY <2>3, <2>6, <2>7, <2>8 DEF IInv
<1>5. CASE \/ Begin(q, "sp_start", r, NoSnap, 0) \/ Begin(q, "so_claim", r, NoSnap, 0)
           \/ Begin(q, "fa_body", r, Snap(r), holder[r])
  <2>1. \A l \in {"sp_start", "so_claim", "fa_body"} : l \in PC /\ l \notin CriticalPC
    BY DEF PC, NoRowPC, CriticalPC, ExchangePC, CompletePC, LoopPC, FreshPC
  <2>2. ProcRef /\ ProcQuiet
    BY <1>0, <1>1, <1>3, <1>5, <2>1, BeginStep
  <2>3. QED
    BY <1>1, <2>2, QuietKeeps DEF Quiet
<1>6. QED
  BY <1>4, <1>5 DEF Authenticate

\* A step of a completion that moves its program counter inside CompletePC, and
\* writes no column of tokens, source or patch.
LEMMA CompletionMoves ==
  ASSUME IInv, NEW q \in Procs, NEW x \in Proc, proc' = [proc EXCEPT ![q] = x],
         x.pc \in CompletePC, x.run = proc[q].run, proc[q].pc \in CompletePC,
         x.pc \in LoopPC => loop' = q,
         x.pc \in FreshPC => run[proc[q].run].patch = NoPatch,
         \A p \in Procs : p # q /\ proc[p].pc \in LoopPC => loop' = p,
         JobStep, RunRef, RunQuiet, loop' \in Requests \cup {NoOne}, WorldStep, HistoryStep
  PROVE  IInv' /\ Guarded
<1>0. TypeOK /\ RefInv /\ RowInv /\ ExchangeInv /\ CompleteInv
  BY DEF IInv
<1>1. proc[q].pc \notin NoRowPC /\ x.pc \notin ExchangePC
  BY DEF PC, NoRowPC, CriticalPC, ExchangePC, CompletePC, LoopPC, FreshPC
<1>2. proc[q].run \in Runs /\ proc[q].run \in Created
  BY <1>0, <1>1, HasRow
<1>3. ProcRef
  <2>1. x.run # 0 /\ x.run \in Runs /\ run'[x.run].status # "none"
    BY <1>2 DEF RunRef, Runs
  <2>2. QED
    BY <1>0, <2>1, ProcReplaced
<1>4. /\ proc'[q] = x
      /\ \A p \in Procs : p # q => proc'[p] = proc[p]
  BY <1>0, OtherProcs
<1>5. TypeOK' /\ RefInv'
  <2>1. LoopStep
    BY <1>4 DEF LoopStep, PC, NoRowPC, CriticalPC, ExchangePC, CompletePC, LoopPC, FreshPC
  <2>2. QED
    BY <1>0, <1>3, <2>1, RefNext DEF HistoryStep, TypeOK
<1>6. RowInv' /\ Guarded
  BY <1>0 DEF RowInv, RunQuiet, HistoryStep, Guarded
<1>7. ASSUME NEW p \in Procs, proc[p].pc \in CriticalPC
      PROVE  proc[p].run \in Runs
  <2>1. proc[p].pc \notin NoRowPC
    BY <1>7 DEF PC, NoRowPC, CriticalPC, ExchangePC, CompletePC, LoopPC, FreshPC
  <2>2. QED
    BY <1>0, <2>1, HasRow
<1>8. ExchangeInv'
  BY <1>0, <1>1, <1>4, <1>7 DEF ExchangeInv, RunQuiet, CriticalPC
<1>9. CompleteInv'
  <2>1. \A p \in Procs : proc'[p].pc \in LoopPC => loop' = p
    BY <1>4
  <2>2. \A p \in Procs : proc'[p].pc \in CompletePC => run'[proc'[p].run].hashed
    BY <1>0, <1>2, <1>4, <1>7 DEF CompleteInv, RunQuiet, CriticalPC
  <2>3. \A p \in Procs : proc'[p].pc \in FreshPC => run'[proc'[p].run].patch = NoPatch
    BY <1>0, <1>2, <1>4, <1>7 DEF CompleteInv, RunQuiet, CriticalPC, CompletePC, LoopPC
  <2>4. QED
    BY <2>1, <2>2, <2>3 DEF CompleteInv
<1>10. QED
  BY <1>5, <1>6, <1>8, <1>9 DEF IInv

\* A completion from the arrival of its body to the validation of its patch.
LEMMA CompletionKeeps ==
  ASSUME IInv, NEW q \in Requests,
         CompleteBody(q) \/ CompleteFresh(q) \/ CompleteValidating(q) \/ CompleteApply(q)
  PROVE  IInv' /\ Guarded
<1>0. /\ TypeOK /\ RefInv /\ RowInv /\ ExchangeInv /\ CompleteInv
      /\ q \in Procs /\ proc[q] \in Proc /\ proc \in [Procs -> Proc]
  BY DEF IInv, Procs, Web, TypeOK
<1>1. CASE CompleteBody(q)
  <2>1. JobStep /\ RunRef /\ RunQuiet /\ WorldStep /\ HistoryStep
    BY <1>0, <1>1, Keep DEF CompleteBody
  <2>2. loop = NoOne /\ proc[q].pc = "co_body" /\ loop' \in Requests \cup {NoOne}
    BY <1>1 DEF CompleteBody, At
  <2>3. proc[q].pc \in CompletePC /\ proc[q].pc \notin NoRowPC
    BY <2>2 DEF PC, NoRowPC, CriticalPC, ExchangePC, CompletePC, LoopPC, FreshPC
  <2>4. \A p \in Procs : loop # p
    BY <2>2, ActorsAssumption
  <2>5. CASE Finish(q) \/ FailWith(q, "failed")
    <3>1. ProcRef /\ ProcQuiet
      BY <1>0, <2>1, <2>3, <2>5, FinishStep, FailWithStep
    <3>2. LoopStep
      BY <2>2, <2>4 DEF LoopStep
    <3>3. QED
      BY <2>1, <3>1, <3>2, QuietKeeps DEF Quiet
  <2>6. ASSUME NEW c \in Patches, loop' = q,
               proc' = [proc EXCEPT ![q] =
                 [Idle EXCEPT !.pc = "co_fresh", !.run = proc[q].run, !.patch = c]]
        PROVE  IInv' /\ Guarded
    <3> DEFINE x == [Idle EXCEPT !.pc = "co_fresh", !.run = proc[q].run, !.patch = c]
    <3>1. "co_fresh" \in PC /\ "co_fresh" \in CompletePC /\ "co_fresh" \notin FreshPC
      BY DEF PC, NoRowPC, CriticalPC, ExchangePC, CompletePC, LoopPC, FreshPC
    <3>2. x \in Proc /\ x.pc = "co_fresh" /\ x.run = proc[q].run
      BY <1>0, <3>1, IdleType DEF Proc
    <3> HIDE DEF x
    <3>3. \A p \in Procs : proc[p].pc \notin LoopPC
      BY <1>0, <2>4 DEF CompleteInv
    <3>4. proc' = [proc EXCEPT ![q] = x]
      BY <2>6 DEF x
    <3>5. /\ x.pc \in CompletePC /\ x.pc \notin FreshPC /\ loop' = q
          /\ JobStep /\ RunRef /\ RunQuiet /\ WorldStep /\ HistoryStep
      BY <2>1, <2>6, <3>1, <3>2
    <3>6. QED
      BY <1>0, <2>2, <2>3, <3>2, <3>3, <3>4, <3>5, CompletionMoves
  <2>7. QED
    BY <1>1, <2>5, <2>6 DEF CompleteBody
<1>2. CASE End(q) /\ run' = run /\ job' = job /\ rest' = rest
  <2>1. Quiet
    BY <1>0, <1>2, Keep, EndStep DEF Quiet
  <2>2. QED
    BY <2>1, QuietKeeps
<1>3. CASE CompleteFresh(q)
  <2>1. CASE run[proc[q].run].patch = NoPatch
    <3> DEFINE x == [proc[q] EXCEPT !.pc = "co_validating"]
    <3>1. JobStep /\ RunRef /\ RunQuiet /\ LoopStep /\ WorldStep /\ HistoryStep
          /\ Goto(q, "co_validating") /\ loop' = loop
      BY <1>0, <1>3, <2>1, Keep DEF CompleteFresh
    <3>2. /\ proc[q].pc = "co_fresh" /\ proc[q].pc \in LoopPC /\ proc[q].pc \in CompletePC
          /\ "co_validating" \in PC /\ "co_validating" \in CompletePC
      BY <1>3 DEF CompleteFresh, At, PC, NoRowPC, CriticalPC, ExchangePC, CompletePC,
                  LoopPC, FreshPC
    <3>3. x \in Proc /\ x.pc = "co_validating" /\ x.run = proc[q].run
      BY <1>0, <3>2 DEF Proc
    <3>4. proc' = [proc EXCEPT ![q] = x]
      BY <3>1 DEF Goto
    <3> HIDE DEF x
    <3>5. loop' = q /\ \A p \in Procs : proc[p].pc \in LoopPC => loop' = p
      BY <1>0, <3>1, <3>2 DEF CompleteInv
    <3>6. QED
      BY <1>0, <2>1, <3>1, <3>2, <3>3, <3>4, <3>5, CompletionMoves DEF LoopStep
  <2>2. CASE run[proc[q].run].patch # NoPatch
    BY <1>2, <1>3, <2>2 DEF CompleteFresh
  <2>3. QED
    BY <2>1, <2>2
<1>4. CASE CompleteValidating(q)
  <2> DEFINE x == [proc[q] EXCEPT !.pc = "co_apply"]
  <2>1. /\ proc[q].pc = "co_validating" /\ proc[q].pc \in FreshPC /\ proc[q].pc \in LoopPC
        /\ proc[q].pc \in CompletePC /\ proc[q].pc \notin NoRowPC
        /\ "co_apply" \in PC /\ "co_apply" \in CompletePC
    BY <1>4 DEF CompleteValidating, At, PC, NoRowPC, CriticalPC, ExchangePC, CompletePC,
                LoopPC, FreshPC
  <2>2. JobStep /\ LoopStep /\ WorldStep /\ HistoryStep
        /\ Goto(q, "co_apply") /\ loop' = loop
    BY <1>0, <1>4, Keep DEF CompleteValidating
  <2>3. RunRef /\ RunQuiet
    BY <1>0, <1>4, <2>1, StatusStep DEF CompleteValidating, TokenActive
  <2>4. x \in Proc /\ x.pc = "co_apply" /\ x.run = proc[q].run
    BY <1>0, <2>1 DEF Proc
  <2>5. proc' = [proc EXCEPT ![q] = x]
    BY <2>2 DEF Goto
  <2> HIDE DEF x
  <2>6. loop' = q /\ \A p \in Procs : proc[p].pc \in LoopPC => loop' = p
    BY <1>0, <2>1, <2>2 DEF CompleteInv
  <2>7. run[proc[q].run].patch = NoPatch
    BY <1>0, <2>1 DEF CompleteInv
  <2>8. QED
    BY <1>0, <2>1, <2>2, <2>3, <2>4, <2>5, <2>6, <2>7, CompletionMoves DEF LoopStep
<1>5. CASE CompleteApply(q)
  <2>1. /\ proc[q].pc = "co_apply" /\ proc[q].pc \in FreshPC /\ proc[q].pc \in LoopPC
        /\ proc[q].pc \in CompletePC /\ proc[q].pc \notin NoRowPC
        /\ "co_patch" \in PC /\ "co_patch" \in CompletePC
    BY <1>5 DEF CompleteApply, At, PC, NoRowPC, CriticalPC, ExchangePC, CompletePC, LoopPC, FreshPC
  <2>2. JobStep /\ RunRef /\ RunQuiet /\ WorldStep /\ HistoryStep
    BY <1>0, <1>5, Keep DEF CompleteApply
  <2>3. CASE Goto(q, "co_patch") /\ loop' = loop
    <3> DEFINE x == [proc[q] EXCEPT !.pc = "co_patch"]
    <3>1. x \in Proc /\ x.pc = "co_patch" /\ x.run = proc[q].run
      BY <1>0, <2>1 DEF Proc
    <3>2. proc' = [proc EXCEPT ![q] = x]
      BY <2>3 DEF Goto
    <3> HIDE DEF x
    <3>3. loop' = q /\ \A p \in Procs : proc[p].pc \in LoopPC => loop' = p
      BY <1>0, <2>1, <2>3 DEF CompleteInv
    <3>4. run[proc[q].run].patch = NoPatch
      BY <1>0, <2>1 DEF CompleteInv
    <3>5. QED
      BY <1>0, <2>1, <2>2, <3>1, <3>2, <3>3, <3>4, CompletionMoves
  <2>4. CASE FailWith(q, "failed") /\ loop' = loop
    <3>1. LoopStep
      BY <1>0, <2>4, Keep
    <3>2. ProcRef /\ ProcQuiet
      BY <1>0, <2>1, <2>2, <2>4, FailWithStep
    <3>3. QED
      BY <2>2, <3>1, <3>2, QuietKeeps DEF Quiet
  <2>5. CASE End(q)
    BY <1>2, <1>5, <2>5 DEF CompleteApply
  <2>6. QED
    BY <1>5, <2>3, <2>4, <2>5 DEF CompleteApply
<1>6. QED
  BY <1>1, <1>3, <1>4, <1>5

\* Recording the patch: none was recorded, and nobody else is about to.
LEMMA SetPatchKeeps ==
  ASSUME IInv, NEW q \in Requests, SetPatchResult(q)
  PROVE  IInv' /\ Guarded
<1> DEFINE r == proc[q].run
           row == [run[r] EXCEPT !.patch = proc[q].patch]
           x == [proc[q] EXCEPT !.pc = "co_done"]
<1>0. /\ TypeOK /\ RefInv /\ RowInv /\ ExchangeInv /\ CompleteInv
      /\ q \in Procs /\ proc[q] \in Proc
  BY DEF IInv, Procs, Web, TypeOK
<1>1. /\ proc[q].pc = "co_patch" /\ proc[q].pc \notin NoRowPC
      /\ proc[q].pc \in FreshPC /\ proc[q].pc \in LoopPC /\ proc[q].pc \in CompletePC
      /\ "co_done" \in PC /\ "co_done" \notin CriticalPC
  BY DEF SetPatchResult, At, PC, NoRowPC, CriticalPC, ExchangePC, CompletePC, LoopPC, FreshPC
<1>2. /\ r \in Runs /\ r \in Created /\ run[r] \in RunRow /\ run \in [Runs -> RunRow]
      /\ run[r].status # "none"
  BY <1>0, <1>1, HasRow DEF TypeOK, Created
<1>3. run[r].hashed /\ run[r].patch = NoPatch /\ loop = q
  BY <1>0, <1>1 DEF CompleteInv
<1>4. JobStep /\ LoopStep /\ WorldStep /\ HistoryStep /\ Goto(q, "co_done") /\ loop' = loop
  BY <1>0, Keep DEF SetPatchResult
<1>5. run' = [run EXCEPT ![r] = row]
  BY <1>2 DEF SetPatchResult
<1>6. /\ row \in RunRow /\ row.status # "none" /\ row.nonceUsed = run[r].nonceUsed
      /\ row.hashed = run[r].hashed /\ row.sourced = run[r].sourced
      /\ row.revoked = run[r].revoked
  BY <1>0, <1>2 DEF RunRow, Proc
<1> HIDE DEF row
<1>7. RunRef
  BY <1>0, <1>2, <1>5, <1>6, RowRef
<1>8. ProcRef /\ ProcQuiet
  BY <1>0, <1>1, <1>4, <1>7, GotoStep
<1>9. TypeOK' /\ RefInv'
  BY <1>0, <1>4, <1>7, <1>8, RefNext DEF HistoryStep, TypeOK
<1>10. run'[r] = row /\ \A s \in Runs : s # r => run'[s] = run[s]
  BY <1>2, <1>5, <1>6, RowReplaced
<1>11. RowInv'
  BY <1>0, <1>3, <1>4, <1>6, <1>10 DEF RowInv, HistoryStep
<1>12. ASSUME NEW p \in Procs, proc'[p].pc \in CriticalPC
       PROVE  proc'[p] = proc[p] /\ p # q /\ proc[p].run \in Runs
  <2>1. proc'[p] = proc[p]
    BY <1>8, <1>12 DEF ProcQuiet
  <2>2. proc[p].pc \notin NoRowPC
    BY <1>12, <2>1 DEF PC, NoRowPC, CriticalPC, ExchangePC, CompletePC, LoopPC, FreshPC
  <2>3. proc'[q].pc = "co_done"
    BY <1>0, <1>4 DEF Goto, TypeOK, Proc
  <2>4. QED
    BY <1>0, <1>1, <1>12, <2>1, <2>2, <2>3, HasRow
<1>13. ExchangeInv'
  BY <1>0, <1>6, <1>10, <1>12 DEF ExchangeInv, CriticalPC
<1>14. CompleteInv'
  <2>1. \A p \in Procs : proc'[p].pc \notin LoopPC
    BY <1>0, <1>3, <1>12 DEF CompleteInv, CriticalPC, CompletePC
  <2>2. \A p \in Procs : proc'[p].pc \in CompletePC => run'[proc'[p].run].hashed
    BY <1>0, <1>6, <1>10, <1>12 DEF CompleteInv, CriticalPC
  <2>3. QED
    BY <2>1, <2>2 DEF CompleteInv, LoopPC
<1>15. Guarded
  BY <1>3, <1>6, <1>10 DEF Guarded
<1>16. QED
  BY <1>9, <1>11, <1>13, <1>14, <1>15 DEF IInv

-----------------------------------------------------------------------------
(***************************************************************************)
(* The theorems.                                                           *)
(***************************************************************************)
\* Every step keeps the invariant, the revocations and the recorded patches.
LEMMA StepKeeps ==
  ASSUME IInv, [Next]_vars
  PROVE  IInv' /\ Guarded
<1>0. TypeOK /\ RefInv
  BY DEF IInv
<1>1. ASSUME NEW p \in Procs, Step(p)
      PROVE  IInv' /\ Guarded
  <2>1. CASE p \in Dispatchers /\ RunJob(p)
    BY <1>0, <2>1, QuietRunJob, QuietKeeps
  <2>2. CASE p \in Requests /\ Exchange(p)
    BY <1>0, <2>2, QuietRequest, QuietKeeps, ConsumeKeeps, SetWorkflowKeeps, BindKeeps
       DEF Exchange
  <2>3. CASE p \in Requests /\ Callback(p)
    BY <1>0, <2>3, QuietRequest, QuietKeeps, ClaimKeeps, CompletionKeeps, SetPatchKeeps
       DEF Callback
  <2>4. CASE p \in Users /\ Cancel(p)
    BY <1>0, <2>4, QuietCancel, QuietKeeps
  <2>5. CASE p \in CancelTasks /\ CancelExecution(p)
    BY <1>0, <2>5, QuietCancelExecution, QuietKeeps
  <2>6. CASE p \in Reconcilers /\ Reconcile(p)
    BY <1>0, <2>6, QuietReconcile, QuietKeeps
  <2>7. CASE Fail(p)
    BY <1>0, <2>7, QuietFail, QuietKeeps
  <2>8. QED
    BY <1>1, <2>1, <2>2, <2>3, <2>4, <2>5, <2>6, <2>7 DEF Step
<1>2. CASE Arrival
  <2>1. ASSUME NEW q \in Requests, NEW r \in Runs, Authenticate(q, r)
        PROVE  IInv' /\ Guarded
    BY <2>1, AuthenticateKeeps
  <2>2. CASE \/ \E q \in Requests, r \in Runs, a \in 1..MaxAttempts : ExchangeStart(q, r, a)
             \/ \E u \in Users : CancelStart(u)
    BY <1>0, <2>2, QuietArrival, QuietKeeps
  <2>3. QED
    BY <1>2, <2>1, <2>2 DEF Arrival
<1>3. CASE \E c \in Reconcilers : ReconcileScan(c)
  BY <1>0, <1>3, QuietScan, QuietKeeps
<1>4. CASE \E r \in Runs : WorkflowRerun(r)
  BY <1>0, <1>4, QuietRerun, QuietKeeps
<1>5. CASE CrashWeb
  BY <1>0, <1>5, QuietCrashWeb, QuietKeeps
<1>6. CASE \E t \in Tasks : CrashWorker(t)
  BY <1>0, <1>6, QuietCrashWorker, QuietKeeps
<1>7. CASE UNCHANGED vars
  <2>1. JobStep /\ RunRef /\ RunQuiet /\ LoopStep /\ WorldStep /\ HistoryStep
    BY <1>0, <1>7, Keep DEF vars
  <2>2. ProcRef /\ ProcQuiet
    BY <1>0, <1>7 DEF vars, TypeOK, RefInv, ProcRef, ProcQuiet, Created
  <2>3. QED
    BY <2>1, <2>2, QuietKeeps DEF Quiet
<1>8. QED
  BY <1>1, <1>2, <1>3, <1>4, <1>5, <1>6, <1>7 DEF Next

\* The invariant holds in every reachable state, whatever the number of runs,
\* actors and crashes.
THEOREM Invariance == Spec => []IInv
<1>1. Init => IInv
  BY InitIInv
<1>2. IInv /\ [Next]_vars => IInv'
  BY StepKeeps
<1>3. QED
  BY <1>1, <1>2, PTL DEF Spec

\* Every variable keeps its type.
THEOREM TypeCorrect == Spec => []TypeOK
<1>1. IInv => TypeOK
  BY DEF IInv
<1>2. QED
  BY <1>1, Invariance, PTL

\* However many exchanges race with each other and with every other writer of
\* the row, bind_token runs at most once for a run.
THEOREM AtMostOneToken == Spec => []OneTokenPerRun
<1>1. IInv => OneTokenPerRun
  BY DEF IInv, RowInv, OneTokenPerRun
<1>2. QED
  BY <1>1, Invariance, PTL

\* However many downloads are in flight, the source is streamed at most once.
THEOREM AtMostOneDownload == Spec => []SourceDeliveredOnce
<1>1. IInv => SourceDeliveredOnce
  BY DEF IInv, RowInv, SourceDeliveredOnce
<1>2. QED
  BY <1>1, Invariance, PTL

\* A patch is recorded only for a run whose nonce was consumed and whose one
\* token was issued.
THEOREM PatchFromTokenHolder == Spec => []PatchNeedsToken
<1>1. IInv => PatchNeedsToken
  BY DEF IInv, RowInv, PatchNeedsToken
<1>2. QED
  BY <1>1, Invariance, PTL

\* The revocation of an issued token is final: no later step, an exchange in
\* flight included, makes it live again.
THEOREM RevocationIsFinal == Spec => NoTokenRevival
<1>1. IInv /\ [Next]_vars =>
        [\A r \in Runs : run[r].hashed /\ run[r].revoked => run'[r].revoked]_vars
  BY StepKeeps DEF Guarded
<1>2. QED
  BY <1>1, Invariance, PTL DEF Spec, NoTokenRevival

\* A recorded patch is never replaced, however many completions are in flight.
THEOREM RecordedPatchIsFinal == Spec => CompletionNotReplaced
<1>1. IInv /\ [Next]_vars =>
        [\A r \in Runs : run[r].patch # NoPatch => run'[r].patch = run[r].patch]_vars
  BY StepKeeps DEF Guarded
<1>2. QED
  BY <1>1, Invariance, PTL DEF Spec, CompletionNotReplaced

-----------------------------------------------------------------------------
(***************************************************************************)
(* The approval gate, and the job once its runs have ended.  Two more      *)
(* inductive invariants, which rest on the one above.                      *)
(***************************************************************************)
\* After the patch was recorded, up to the gate; at the gate the diff is stored.
RecordedPC == {"co_done", "co_revoke", "co_diff", "co_job", "co_gate"}
GatePC     == {"co_job", "co_gate"}

\* A completion reports a patch and, once it is recorded, its run holds it; the stored
\* diff is the patch of a run, and there is one when the job is gated.
GateInv ==
    /\ \A p \in Procs :
        /\ proc[p].pc \in LoopPC => proc[p].patch \in Patches
        /\ proc[p].pc \in RecordedPC =>
             /\ proc[p].run \in Runs /\ proc[p].patch \in Patches
             /\ run[proc[p].run].patch = proc[p].patch
        /\ proc[p].pc \in GatePC => job.diff # NoPatch
    /\ job.diff # NoPatch => \E r \in Runs : run[r].patch = job.diff
    /\ job.status = "awaiting_approval" => job.diff # NoPatch

\* Where an actor has still to settle the job: after it ended a run, and after it asked
\* for the run's cancellation.
EndingPC == {"rj_jobblock", "rj_jobfail", "co_revoke", "co_diff", "co_job", "co_gate",
             "fl_revoke", "fl_job", "fl_write"}
CancelPC == {"ca_revoke", "ca_enqueue", "ca_job"}
TaskPC   == {"queued", "ct_req", "ct_revoke", "ct_set"}

\* A run has ended; a cancellation was asked for.
OneEnded == \E r \in Runs : run[r].status \in TerminalRun
Asked ==
    \/ \E r \in Runs : run[r].cancelReq
    \/ \E t \in CancelTasks : proc[t].pc \in TaskPC
    \/ \E c \in Reconcilers : proc[c].pc = "rc_cset" \/ \E b \in batch[c] : b.snap.cancelReq

\* As long as nobody died and the job is not settled, whoever ended a run has still to
\* settle the job, and so has the user who asked for a cancellation.
SettleInv ==
    crashes = 0 /\ job.status = "queued" =>
        /\ OneEnded => \E p \in Procs : proc[p].pc \in EndingPC \cup CancelPC
        /\ Asked => \E u \in Users : proc[u].pc \in CancelPC

-----------------------------------------------------------------------------
\* What a step of one actor has to satisfy to keep the two.
Others(p) == \A q \in Procs : q # p => proc'[q] = proc[q]

GateStep(p) ==
    /\ Others(p)
    /\ proc'[p].pc \in LoopPC => proc'[p].patch \in Patches
    /\ proc'[p].pc \in RecordedPC =>
         /\ proc'[p].run \in Runs /\ proc'[p].patch \in Patches
         /\ run'[proc'[p].run].patch = proc'[p].patch
    /\ proc'[p].pc \in GatePC => job'.diff # NoPatch
    /\ job'.diff # job.diff => \E r \in Runs : run'[r].patch = job'.diff
    /\ job.diff # NoPatch => job'.diff # NoPatch
    /\ job'.status = "awaiting_approval" =>
         job.status = "awaiting_approval" \/ job'.diff # NoPatch

SettleStep(p) ==
    /\ Others(p) /\ crashes' = crashes
    /\ job'.status = "queued" => job.status = "queued"
    /\ job'.status = "queued" /\ proc[p].pc \in EndingPC \cup CancelPC
         => proc'[p].pc \in EndingPC \cup CancelPC
    /\ job'.status = "queued" /\ proc[p].pc \in CancelPC => proc'[p].pc \in CancelPC
    /\ OneEnded' => OneEnded \/ Asked \/ proc'[p].pc \in EndingPC
    /\ Asked' => Asked \/ (p \in Users /\ proc'[p].pc \in CancelPC)

\* Such a step keeps the approval gate's invariant, recorded patches being final.
LEMMA GateStepKeeps ==
  ASSUME TypeOK, GateInv, Guarded, NEW p \in Procs, GateStep(p)
  PROVE  GateInv'
<1>1. \A q \in Procs : proc'[q].pc \in LoopPC => proc'[q].patch \in Patches
  BY DEF GateInv, GateStep, Others
<1>2. \A q \in Procs : proc'[q].pc \in RecordedPC =>
        /\ proc'[q].run \in Runs /\ proc'[q].patch \in Patches
        /\ run'[proc'[q].run].patch = proc'[q].patch
  <2>1. ASSUME NEW q \in Procs, q # p, proc'[q].pc \in RecordedPC
        PROVE  /\ proc'[q].run \in Runs /\ proc'[q].patch \in Patches
               /\ run'[proc'[q].run].patch = proc'[q].patch
    <3>1. proc'[q] = proc[q]
      BY <2>1 DEF GateStep, Others
    <3>2. /\ proc[q].run \in Runs /\ proc[q].patch \in Patches
          /\ run[proc[q].run].patch = proc[q].patch
      BY <2>1, <3>1 DEF GateInv
    <3>3. run'[proc[q].run].patch = proc[q].patch
      BY <3>2, ActorsAssumption DEF Guarded
    <3>4. QED
      BY <3>1, <3>2, <3>3
  <2>2. QED
    BY <2>1 DEF GateStep
<1>3. \A q \in Procs : proc'[q].pc \in GatePC => job'.diff # NoPatch
  BY DEF GateInv, GateStep, Others
<1>4. job'.diff # NoPatch => \E r \in Runs : run'[r].patch = job'.diff
  <2>1. CASE job'.diff = job.diff
    BY <2>1 DEF GateInv, Guarded
  <2>2. CASE job'.diff # job.diff
    BY <2>2 DEF GateStep
  <2>3. QED
    BY <2>1, <2>2
<1>5. job'.status = "awaiting_approval" => job'.diff # NoPatch
  BY DEF GateInv, GateStep
<1>6. QED
  BY <1>1, <1>2, <1>3, <1>4, <1>5 DEF GateInv

\* And the invariant of the unsettled job.
LEMMA SettleStepKeeps ==
  ASSUME SettleInv, NEW p \in Procs, SettleStep(p)
  PROVE  SettleInv'
<1> SUFFICES ASSUME crashes' = 0, job'.status = "queued"
             PROVE  /\ OneEnded' => \E q \in Procs : proc'[q].pc \in EndingPC \cup CancelPC
                    /\ Asked' => \E u \in Users : proc'[u].pc \in CancelPC
  BY DEF SettleInv
<1>1. crashes = 0 /\ job.status = "queued"
  BY DEF SettleStep
<1>2. /\ OneEnded => \E q \in Procs : proc[q].pc \in EndingPC \cup CancelPC
      /\ Asked => \E u \in Users : proc[u].pc \in CancelPC
  BY <1>1 DEF SettleInv
<1>3. Users \subseteq Procs
  BY DEF Procs, Web
<1>4. Asked' => \E u \in Users : proc'[u].pc \in CancelPC
  BY <1>2, <1>3 DEF SettleStep, Others
<1>5. OneEnded \/ Asked => \E q \in Procs : proc[q].pc \in EndingPC \cup CancelPC
  BY <1>2, <1>3
<1>6. OneEnded' => \E q \in Procs : proc'[q].pc \in EndingPC \cup CancelPC
  BY <1>5 DEF SettleStep, Others
<1>7. QED
  BY <1>4, <1>6

-----------------------------------------------------------------------------
\* Most actions concern neither: they write neither the job nor a batch, end no run, ask
\* for no cancellation, and are taken and left outside of what the invariants name.
NamedPC == LoopPC \cup RecordedPC \cup TaskPC \cup {"rc_cset"}

RowsPlain ==
    \A r \in Runs : /\ run'[r].status \in TerminalRun => run[r].status \in TerminalRun
                    /\ run'[r].cancelReq => run[r].cancelReq

Plain(p) ==
    /\ Others(p) /\ RowsPlain
    /\ job' = job /\ batch' = batch /\ crashes' = crashes
    /\ proc[p].pc \notin EndingPC \cup CancelPC
    /\ proc'[p].pc \notin NamedPC

\* A plain step keeps both.
LEMMA PlainKeeps ==
  ASSUME TypeOK, GateInv, SettleInv, Guarded, NEW p \in Procs, Plain(p)
  PROVE  GateInv' /\ SettleInv'
<1>1. GateStep(p)
  BY DEF Plain, GateStep, NamedPC, RecordedPC, GatePC
<1>2. SettleStep(p)
  <2>1. OneEnded' => OneEnded
    BY DEF Plain, RowsPlain, OneEnded
  <2>2. Asked' => Asked
    <3>1. ASSUME NEW r \in Runs, run'[r].cancelReq PROVE Asked
      BY <3>1 DEF Plain, RowsPlain, Asked
    <3>2. ASSUME NEW t \in CancelTasks, proc'[t].pc \in TaskPC PROVE Asked
      BY <3>2 DEF Plain, Others, Asked, NamedPC, Procs, Tasks
    <3>3. ASSUME NEW c \in Reconcilers,
                 proc'[c].pc = "rc_cset" \/ \E b \in batch'[c] : b.snap.cancelReq
          PROVE  Asked
      BY <3>3 DEF Plain, Others, Asked, NamedPC, Procs, Tasks
    <3>4. QED
      BY <3>1, <3>2, <3>3 DEF Asked
  <2>3. QED
    BY <2>1, <2>2 DEF Plain, SettleStep
<1>3. QED
  BY <1>1, <1>2, GateStepKeeps, SettleStepKeeps

\* Where an actor is after it moved.
LEMMA Moved ==
  ASSUME TypeOK, NEW p \in Procs
  PROVE  /\ \A l \in PC : Goto(p, l) =>
              /\ Others(p) /\ proc'[p].pc = l
              /\ proc'[p].run = proc[p].run /\ proc'[p].patch = proc[p].patch
         /\ Finish(p) \/ End(p) => Others(p) /\ proc'[p].pc = "idle"
         /\ Done(p) => Others(p) /\ proc'[p].pc = "done"
         /\ \A l \in PC, r \in Runs, s \in Snapshot, a \in 0..MaxAttempts :
              Begin(p, l, r, s, a) => Others(p) /\ proc'[p].pc = l
         /\ \A s \in {"failed", "cancelled"} :
              FailWith(p, s) => Others(p) /\ proc'[p].pc = "fl_run"
<1>1. proc \in [Procs -> Proc] /\ proc[p] \in Proc /\ Idle \in Proc
  BY IdleType DEF TypeOK
<1>2. ASSUME NEW x \in Proc, proc' = [proc EXCEPT ![p] = x]
      PROVE  Others(p) /\ proc'[p] = x
  BY <1>1, <1>2 DEF Others
<1>3. ASSUME NEW l \in PC, Goto(p, l)
      PROVE  /\ Others(p) /\ proc'[p].pc = l
             /\ proc'[p].run = proc[p].run /\ proc'[p].patch = proc[p].patch
  <2> DEFINE x == [proc[p] EXCEPT !.pc = l]
  <2>1. x \in Proc /\ x.pc = l /\ x.run = proc[p].run /\ x.patch = proc[p].patch
    BY <1>1 DEF Proc
  <2>2. proc' = [proc EXCEPT ![p] = x]
    BY <1>3 DEF Goto
  <2> HIDE DEF x
  <2>3. QED
    BY <1>2, <2>1, <2>2
<1>4. ASSUME Finish(p) \/ End(p)
      PROVE  Others(p) /\ proc'[p].pc = "idle"
  <2>1. proc' = [proc EXCEPT ![p] = Idle]
    BY <1>4 DEF Finish, End
  <2>2. QED
    BY <1>1, <1>2, <2>1 DEF Idle
<1>5. ASSUME Done(p) PROVE Others(p) /\ proc'[p].pc = "done"
  <2> DEFINE x == [Idle EXCEPT !.pc = "done"]
  <2>1. x \in Proc /\ x.pc = "done"
    BY IdleFields
  <2>2. proc' = [proc EXCEPT ![p] = x]
    BY <1>5 DEF Done
  <2> HIDE DEF x
  <2>3. QED
    BY <1>2, <2>1, <2>2
<1>6. ASSUME NEW l \in PC, NEW r \in Runs, NEW s \in Snapshot, NEW a \in 0..MaxAttempts,
             Begin(p, l, r, s, a)
      PROVE  Others(p) /\ proc'[p].pc = l
  <2> DEFINE x == [Idle EXCEPT !.pc = l, !.run = r, !.snap = s, !.attempt = a]
  <2>1. x \in Proc /\ x.pc = l
    BY <1>1 DEF Proc
  <2>2. proc' = [proc EXCEPT ![p] = x]
    BY <1>6 DEF Begin
  <2> HIDE DEF x
  <2>3. QED
    BY <1>2, <2>1, <2>2
<1>7. ASSUME NEW s \in {"failed", "cancelled"}, FailWith(p, s)
      PROVE  Others(p) /\ proc'[p].pc = "fl_run"
  <2> DEFINE x == [Idle EXCEPT !.pc = "fl_run", !.run = proc[p].run, !.to = s]
  <2>1. x \in Proc /\ x.pc = "fl_run"
    <3>1. "fl_run" \in PC /\ proc[p].run \in {0} \cup Runs
      BY <1>1 DEF Proc, PC
    <3> QED  BY <1>1, <3>1 DEF Proc
  <2>2. proc' = [proc EXCEPT ![p] = x]
    BY <1>7 DEF FailWith
  <2> HIDE DEF x
  <2>3. QED
    BY <1>2, <2>1, <2>2
<1>8. QED
  BY <1>3, <1>4, <1>5, <1>6, <1>7

\* Rows that are left alone, or given a status that is not an end, are plain.
LEMMA RowsStayPlain ==
  ASSUME TypeOK, NEW r \in Runs
  PROVE  /\ run' = run => RowsPlain
         /\ \A s \in TokenActive : SetStatus(r, s) => RowsPlain
         /\ \A row \in RunRow :
              run' = [run EXCEPT ![r] = row]
              /\ row.status \notin TerminalRun \ {run[r].status}
              /\ (row.cancelReq => run[r].cancelReq) => RowsPlain
<1>1. run \in [Runs -> RunRow] /\ run[r] \in RunRow
  BY DEF TypeOK
<1>2. ASSUME NEW row \in RunRow, run' = [run EXCEPT ![r] = row],
             row.status \notin TerminalRun \ {run[r].status},
             row.cancelReq => run[r].cancelReq
      PROVE  RowsPlain
  BY <1>1, <1>2, RowReplaced DEF RowsPlain
<1>3. ASSUME NEW s \in TokenActive, SetStatus(r, s)
      PROVE  RowsPlain
  <2> DEFINE row == [run[r] EXCEPT !.status = s]
  <2>1. row \in RunRow /\ row.status = s /\ row.cancelReq = run[r].cancelReq
    BY <1>1, StatusType DEF RunRow
  <2>2. run' = [run EXCEPT ![r] = row]
    BY <1>3 DEF SetStatus
  <2>3. s \notin TerminalRun
    BY DEF TokenActive, TerminalRun
  <2> HIDE DEF row
  <2>4. QED
    BY <1>2, <2>1, <2>2, <2>3
<1>4. QED
  BY <1>2, <1>3 DEF RowsPlain

\* The columns that a write of the status, a revocation or a request leaves alone.
LEMMA Columns ==
  ASSUME TypeOK, NEW r \in Runs
  PROVE  /\ \A s \in RunStatus : SetStatus(r, s) =>
              \A x \in Runs : run'[x].cancelReq = run[x].cancelReq
         /\ Revoke(r) => RowsPlain
         /\ RequestCancellation(r) => (OneEnded' => OneEnded)
<1>1. run \in [Runs -> RunRow] /\ run[r] \in RunRow
  BY DEF TypeOK
<1>2. ASSUME NEW s \in RunStatus, SetStatus(r, s)
      PROVE  \A x \in Runs : run'[x].cancelReq = run[x].cancelReq
  <2> DEFINE row == [run[r] EXCEPT !.status = s]
  <2>1. row \in RunRow /\ row.cancelReq = run[r].cancelReq /\ run' = [run EXCEPT ![r] = row]
    BY <1>1, <1>2 DEF RunRow, SetStatus
  <2> HIDE DEF row
  <2>2. QED
    BY <1>1, <2>1, RowReplaced
<1>3. ASSUME Revoke(r) PROVE RowsPlain
  <2> DEFINE row == [run[r] EXCEPT !.revoked = TRUE]
  <2>1. /\ row \in RunRow /\ row.status = run[r].status /\ row.cancelReq = run[r].cancelReq
        /\ run' = [run EXCEPT ![r] = row]
    BY <1>1, <1>3 DEF RunRow, Revoke
  <2> HIDE DEF row
  <2>2. QED
    BY <2>1, RowsStayPlain
<1>4. ASSUME RequestCancellation(r) PROVE OneEnded' => OneEnded
  <2> DEFINE row == [run[r] EXCEPT !.cancelReq = TRUE]
  <2>1. row \in RunRow /\ row.status = run[r].status /\ run' = [run EXCEPT ![r] = row]
    BY <1>1, <1>4 DEF RunRow, RequestCancellation
  <2> HIDE DEF row
  <2>2. QED
    BY <1>1, <2>1, RowReplaced DEF OneEnded
<1>5. QED
  BY <1>2, <1>3, <1>4

\* Nothing new is asked by an actor that is nowhere in particular.
LEMMA AskedStays ==
  ASSUME NEW p \in Procs, Others(p), batch' = batch,
         \A r \in Runs : run'[r].cancelReq => run[r].cancelReq,
         proc'[p].pc \notin TaskPC \cup {"rc_cset"}
  PROVE  Asked' => Asked
<1>1. ASSUME NEW t \in CancelTasks, proc'[t].pc \in TaskPC PROVE Asked
  BY <1>1 DEF Others, Asked, Procs, Tasks
<1>2. ASSUME NEW c \in Reconcilers,
             proc'[c].pc = "rc_cset" \/ \E b \in batch'[c] : b.snap.cancelReq
      PROVE  Asked
  BY <1>2 DEF Others, Asked, Procs, Tasks
<1>3. QED
  BY <1>1, <1>2 DEF Asked

\* A step that leaves the diff alone, gates no job and is not part of a completion.
LEMMA GateQuiet ==
  ASSUME NEW p \in Procs, Others(p), proc'[p].pc \notin LoopPC \cup RecordedPC,
         job'.diff = job.diff,
         job'.status = "awaiting_approval" => job.status = "awaiting_approval"
  PROVE  GateStep(p)
  BY DEF GateStep, RecordedPC, GatePC

\* An actor that ends a run, and goes on to settle the job.
LEMMA EndsRun ==
  ASSUME TypeOK, NEW p \in Procs, Others(p), job' = job, batch' = batch,
         crashes' = crashes, NEW r \in Runs, NEW s \in RunStatus, SetStatus(r, s),
         proc[p].pc \notin CancelPC, proc'[p].pc \in EndingPC
  PROVE  SettleStep(p)
<1>1. \A x \in Runs : run'[x].cancelReq = run[x].cancelReq
  BY Columns
<1>2. proc'[p].pc \notin TaskPC \cup {"rc_cset"}
  BY DEF EndingPC, TaskPC
<1>3. Asked' => Asked
  BY <1>1, <1>2, AskedStays
<1>4. QED
  BY <1>3 DEF SettleStep

\* Writing a status that settles the job.
LEMMA JobSettled ==
  ASSUME TypeOK, NEW p \in Procs, NEW s, SetJob(s),
         s \in {"failed", "cancelled", "blocked"},
         Others(p), proc'[p].pc \in {"idle", "done"}
  PROVE  GateStep(p) /\ SettleInv'
<1>1. job'.status = s /\ job'.diff = job.diff
  BY DEF TypeOK, SetJob
<1>2. GateStep(p)
  BY <1>1, GateQuiet DEF LoopPC, FreshPC, RecordedPC
<1>3. QED
  BY <1>1, <1>2 DEF SettleInv

-----------------------------------------------------------------------------
\* The run_job task.
LEMMA RunJobSettles ==
  ASSUME TypeOK, RefInv, GateInv, SettleInv, Guarded, NEW d \in Dispatchers, RunJob(d)
  PROVE  GateInv' /\ SettleInv'
<1>0. d \in Procs
  BY DEF Procs, Tasks
<1>1. /\ run' = run => RowsPlain
      /\ 0 \in 0..MaxAttempts /\ NoSnap \in Snapshot
  BY BoundsAssumption, IdleType DEF RowsPlain
<1>2. CASE RunJobStart(d)
  <2>1. "rj_preflight" \in PC
    BY DEF PC
  <2>2. Plain(d)
    BY <1>0, <1>1, <1>2, <2>1, Moved DEF RunJobStart, Plain, rest, At, EndingPC, CancelPC,
       NamedPC, LoopPC, FreshPC, RecordedPC, TaskPC
  <2>3. QED
    BY <1>0, <2>2, PlainKeeps
<1>3. CASE RunJobPreflight(d)
  <2>1. PICK l \in {"rj_jobfail", "rj_block", "rj_create"} : Goto(d, l)
    BY <1>3 DEF RunJobPreflight
  <2>2. l \in PC
    BY DEF PC
  <2>3. Plain(d)
    BY <1>0, <1>1, <1>3, <2>1, <2>2, Moved DEF RunJobPreflight, Plain, rest, At, EndingPC,
       CancelPC, NamedPC, LoopPC, FreshPC, RecordedPC, TaskPC
  <2>4. QED
    BY <1>0, <2>3, PlainKeeps
<1>4. ASSUME NEW next \in {"rj_blockset", "rj_post"}, CreateRun(d, next),
             proc[d].pc \in {"rj_block", "rj_create"}, UNCHANGED <<job, loop, rest>>
      PROVE  GateInv' /\ SettleInv'
  <2> DEFINE row == [NoRow EXCEPT !.status = "pending"]
  <2>1. PICK r \in Runs : run' = [run EXCEPT ![r] = row] /\ Begin(d, next, r, NoSnap, 0)
    BY <1>4 DEF CreateRun
  <2>2. row \in RunRow /\ row.status = "pending" /\ ~row.cancelReq
    BY NoRowType DEF NoRow
  <2>3. "pending" \notin TerminalRun /\ next \in PC
    BY DEF TerminalRun, PC
  <2> HIDE DEF row
  <2>4. RowsPlain
    BY <2>1, <2>2, <2>3, RowsStayPlain
  <2>5. Others(d) /\ proc'[d].pc = next
    BY <1>0, <1>1, <2>1, <2>3, Moved
  <2>6. Plain(d)
    BY <1>4, <2>4, <2>5 DEF Plain, rest, EndingPC, CancelPC, NamedPC, LoopPC, FreshPC,
       RecordedPC, TaskPC
  <2>7. QED
    BY <1>0, <2>6, PlainKeeps
<1>5. ASSUME NEW s \in {"blocked", "failed"}, NEW next \in {"rj_jobblock", "rj_jobfail"},
             proc[d].pc \in {"rj_blockset", "rj_dispfail"},
             SetStatus(proc[d].run, s), Goto(d, next), UNCHANGED <<job, loop, rest>>
      PROVE  GateInv' /\ SettleInv'
  <2>1. next \in PC /\ next \in EndingPC /\ next \notin LoopPC \cup RecordedPC
        /\ s \in RunStatus /\ proc[d].pc \notin CancelPC /\ proc[d].pc \notin NoRowPC
    BY <1>5 DEF PC, EndingPC, LoopPC, FreshPC, RecordedPC, RunStatus, TerminalRun, CancelPC,
       NoRowPC
  <2>2. Others(d) /\ proc'[d].pc = next /\ proc[d].run \in Runs
    BY <1>0, <1>5, <2>1, Moved, HasRow
  <2>3. GateStep(d)
    BY <1>0, <1>5, <2>1, <2>2, GateQuiet
  <2>4. SettleStep(d)
    BY <1>0, <1>5, <2>1, <2>2, EndsRun DEF rest
  <2>5. QED
    BY <1>0, <2>3, <2>4, GateStepKeeps, SettleStepKeeps
<1>6. ASSUME NEW s \in {"blocked", "failed"}, SetJob(s), Done(d)
      PROVE  GateInv' /\ SettleInv'
  <2>1. Others(d) /\ proc'[d].pc = "done"
    BY <1>0, <1>6, Moved
  <2>2. GateStep(d) /\ SettleInv'
    BY <1>0, <1>6, <2>1, JobSettled
  <2>3. QED
    BY <1>0, <2>2, GateStepKeeps
<1>7. CASE RunJobPost(d)
  <2>1. PICK l \in {"rj_find", "rj_dispfail"} : Goto(d, l)
    BY <1>7 DEF RunJobPost
  <2>2. l \in PC
    BY DEF PC
  <2>3. Plain(d)
    BY <1>0, <1>1, <1>7, <2>1, <2>2, Moved DEF RunJobPost, Plain, At, EndingPC,
       CancelPC, NamedPC, LoopPC, FreshPC, RecordedPC, TaskPC
  <2>4. QED
    BY <1>0, <2>3, PlainKeeps
<1>8. CASE RunJobFind(d)
  <2>1. "rj_mark" \in PC /\ proc[d].pc = "rj_find" /\ proc[d].pc \notin NoRowPC
    BY <1>8 DEF PC, RunJobFind, At, NoRowPC
  <2>2. proc[d].run \in Runs
    BY <1>0, <2>1, HasRow
  <2>3. \A f \in Findable : [NoSnap EXCEPT !.wfId = f, !.wfAttempt = attempts[f]] \in Snapshot
    BY <1>1 DEF Snapshot, Findable, TypeOK
  <2>4. Others(d) /\ proc'[d].pc = "rj_mark"
    BY <1>0, <1>1, <1>8, <2>1, <2>2, <2>3, Moved DEF RunJobFind
  <2>5. Plain(d)
    BY <1>1, <1>8, <2>1, <2>4 DEF RunJobFind, Plain, rest, EndingPC, CancelPC, NamedPC,
       LoopPC, FreshPC, RecordedPC, TaskPC
  <2>6. QED
    BY <1>0, <2>5, PlainKeeps
<1>9. CASE MarkDispatched(d)
  <2> DEFINE r == proc[d].run
             row == [run[r] EXCEPT !.status = "dispatched", !.wfId = proc[d].snap.wfId,
                                   !.wfAttempt = proc[d].snap.wfAttempt]
  <2>1. proc[d].pc = "rj_mark" /\ proc[d].pc \notin NoRowPC /\ "dispatched" \in RunStatus
        /\ "dispatched" \notin TerminalRun
    BY <1>9 DEF MarkDispatched, At, NoRowPC, RunStatus, TerminalRun
  <2>2. r \in Runs /\ run[r] \in RunRow /\ proc[d] \in Proc
    BY <1>0, <2>1, HasRow DEF TypeOK
  <2>3. row \in RunRow /\ row.status = "dispatched" /\ row.cancelReq = run[r].cancelReq
    BY <2>1, <2>2 DEF RunRow, Proc, Snapshot
  <2>4. run' = [run EXCEPT ![r] = row]
    BY <1>9 DEF MarkDispatched
  <2> HIDE DEF row
  <2>5. RowsPlain
    BY <2>1, <2>2, <2>3, <2>4, RowsStayPlain
  <2>6. Plain(d)
    BY <1>0, <1>9, <2>1, <2>5, Moved DEF MarkDispatched, Plain, rest, EndingPC, CancelPC,
       NamedPC, LoopPC, FreshPC, RecordedPC, TaskPC
  <2>7. QED
    BY <1>0, <2>6, PlainKeeps
<1>10. QED
  BY <1>2, <1>3, <1>4, <1>5, <1>6, <1>7, <1>8, <1>9
     DEF RunJob, RunJobBlock, RunJobBlockRun, RunJobBlockJob, RunJobCreate,
         RunJobDispatchFailed, RunJobFail, At

\* A step that ends no run and asks for nothing, by an actor that still settles the job if
\* it was about to.
LEMMA SettleQuiet ==
  ASSUME NEW p \in Procs, Others(p), RowsPlain, batch' = batch, crashes' = crashes,
         job'.status = "queued" => job.status = "queued",
         proc[p].pc \notin CancelPC, proc'[p].pc \notin TaskPC \cup {"rc_cset"},
         proc[p].pc \in EndingPC => proc'[p].pc \in EndingPC \/ job'.status # "queued"
  PROVE  SettleStep(p)
<1>1. Asked' => Asked
  BY AskedStays DEF RowsPlain
<1>2. OneEnded' => OneEnded
  BY DEF RowsPlain, OneEnded
<1>3. QED
  BY <1>1, <1>2 DEF SettleStep

\* The exchange.
LEMMA ExchangeSettles ==
  ASSUME TypeOK, RefInv, GateInv, SettleInv, Guarded, NEW q \in Requests, Exchange(q)
  PROVE  GateInv' /\ SettleInv'
<1> DEFINE r == proc[q].run
<1>0. /\ q \in Procs /\ proc[q].pc \in {"x_claims", "x_consume", "x_setwf", "x_bind"}
      /\ proc[q].pc \notin NoRowPC /\ proc[q].pc \notin EndingPC \cup CancelPC
  BY DEF Procs, Web, Exchange, ExchangeClaims, ConsumeNonce, SetWorkflowRun, BindToken, At,
     NoRowPC, EndingPC, CancelPC
<1>1. r \in Runs /\ run[r] \in RunRow /\ proc[q] \in Proc /\ run \in [Runs -> RunRow]
  BY <1>0, HasRow DEF TypeOK
<1>2. SUFFICES Others(q) /\ RowsPlain /\ proc'[q].pc \notin NamedPC
  BY <1>0, PlainKeeps DEF Plain, Exchange, ExchangeClaims, ConsumeNonce, SetWorkflowRun,
     BindToken, rest
<1>3. /\ {"x_consume", "x_setwf", "x_bind"} \subseteq PC
      /\ \A l \in {"x_consume", "x_setwf", "x_bind", "idle", "fl_run"} : l \notin NamedPC
  BY DEF PC, NamedPC, LoopPC, FreshPC, RecordedPC, TaskPC
<1>4. Others(q) /\ proc'[q].pc \notin NamedPC
  <2>1. \/ \E l \in {"x_consume", "x_setwf", "x_bind"} : Goto(q, l)
        \/ End(q) \/ FailWith(q, "failed")
    BY DEF Exchange, ExchangeClaims, ConsumeNonce, SetWorkflowRun, BindToken
  <2>2. QED
    BY <1>0, <1>3, <2>1, Moved
<1>5. RowsPlain
  <2>1. CASE run' = run
    BY <1>1, <2>1, RowsStayPlain
  <2>2. CASE run' = [run EXCEPT ![r].nonceUsed = TRUE]
    <3> DEFINE row == [run[r] EXCEPT !.nonceUsed = TRUE]
    <3>1. row \in RunRow /\ row.status = run[r].status /\ row.cancelReq = run[r].cancelReq
      BY <1>1 DEF RunRow
    <3>2. run' = [run EXCEPT ![r] = row]
      BY <2>2
    <3> HIDE DEF row
    <3>3. QED
      BY <1>1, <3>1, <3>2, RowsStayPlain
  <2>3. CASE SetWorkflowRun(q)
    <3> DEFINE row == [run[r] EXCEPT !.wfId = r, !.wfAttempt = proc[q].attempt]
    <3>1. row \in RunRow /\ row.status = run[r].status /\ row.cancelReq = run[r].cancelReq
      BY <1>1 DEF RunRow, Proc
    <3>2. run' = [run EXCEPT ![r] = row]
      BY <2>3 DEF SetWorkflowRun
    <3> HIDE DEF row
    <3>3. QED
      BY <1>1, <3>1, <3>2, RowsStayPlain
  <2>4. CASE BindToken(q)
    <3> DEFINE row == [run[r] EXCEPT !.hashed = TRUE, !.revoked = FALSE,
                                     !.status = "authenticated"]
    <3>1. row \in RunRow /\ row.status = "authenticated" /\ row.cancelReq = run[r].cancelReq
      BY <1>1, StatusType DEF RunRow, TokenActive
    <3>2. run' = [run EXCEPT ![r] = row]
      BY <2>4 DEF BindToken
    <3>3. "authenticated" \notin TerminalRun
      BY DEF TerminalRun
    <3> HIDE DEF row
    <3>4. QED
      BY <1>1, <3>1, <3>2, <3>3, RowsStayPlain
  <2>5. QED
    BY <2>1, <2>2, <2>3, <2>4 DEF Exchange, ExchangeClaims, ConsumeNonce
<1>6. QED
  BY <1>4, <1>5

\* A completion before its patch is recorded.
LEMMA ReportSettles ==
  ASSUME TypeOK, RefInv, GateInv, SettleInv, Guarded, NEW q \in Requests,
         CompleteBody(q) \/ CompleteFresh(q) \/ CompleteValidating(q) \/ CompleteApply(q)
  PROVE  GateInv' /\ SettleInv'
<1> DEFINE Ways == {"co_body", "co_fresh", "co_validating", "co_apply"}
<1>0. /\ q \in Procs /\ proc[q].pc \in Ways
      /\ proc[q].pc \notin NoRowPC /\ proc[q].pc \notin EndingPC \cup CancelPC
      /\ job' = job /\ batch' = batch /\ crashes' = crashes
  BY DEF Procs, Web, CompleteBody, CompleteFresh, CompleteValidating, CompleteApply, At,
     NoRowPC, EndingPC, CancelPC, rest
<1>1. proc[q].run \in Runs /\ proc \in [Procs -> Proc]
  BY <1>0, HasRow DEF TypeOK
<1>2. RowsPlain
  <2>1. run' = run \/ SetStatus(proc[q].run, "validating")
    BY DEF CompleteBody, CompleteFresh, CompleteValidating, CompleteApply
  <2>2. "validating" \in TokenActive
    BY DEF TokenActive
  <2>3. QED
    BY <1>1, <2>1, <2>2, RowsStayPlain
<1>3. CASE Finish(q) \/ End(q) \/ FailWith(q, "failed")
  <2>1. Others(q) /\ proc'[q].pc \in {"idle", "fl_run"}
    BY <1>0, <1>3, Moved
  <2>2. Plain(q)
    BY <1>0, <1>2, <2>1 DEF Plain, NamedPC, LoopPC, FreshPC, RecordedPC, TaskPC
  <2>3. QED
    BY <1>0, <2>2, PlainKeeps
<1>4. ASSUME Others(q), proc'[q].pc \in LoopPC, proc'[q].patch \in Patches
      PROVE  GateInv' /\ SettleInv'
  <2>1. proc'[q].pc \notin RecordedPC \cup TaskPC \cup {"rc_cset"}
    BY <1>4 DEF LoopPC, FreshPC, RecordedPC, TaskPC
  <2>2. GateStep(q)
    BY <1>0, <1>4, <2>1 DEF GateStep, RecordedPC, GatePC
  <2>3. SettleStep(q)
    BY <1>0, <1>2, <1>4, <2>1, SettleQuiet
  <2>4. QED
    BY <1>0, <2>2, <2>3, GateStepKeeps, SettleStepKeeps
<1>5. ASSUME NEW c \in Patches,
             proc' = [proc EXCEPT ![q] =
               [Idle EXCEPT !.pc = "co_fresh", !.run = proc[q].run, !.patch = c]]
      PROVE  GateInv' /\ SettleInv'
  <2>1. Others(q)
    BY <1>1, <1>5 DEF Others
  <2>2. proc'[q].pc = "co_fresh" /\ proc'[q].patch = c
    BY <1>0, <1>1, <1>5 DEF Idle
  <2>3. QED
    BY <1>4, <2>1, <2>2 DEF LoopPC
<1>6. ASSUME NEW l \in {"co_validating", "co_apply", "co_patch"}, Goto(q, l),
             proc[q].pc \in LoopPC
      PROVE  GateInv' /\ SettleInv'
  <2>1. l \in PC /\ l \in LoopPC
    BY DEF PC, LoopPC, FreshPC
  <2>2. Others(q) /\ proc'[q].pc = l /\ proc'[q].patch = proc[q].patch
    BY <1>0, <1>6, <2>1, Moved
  <2>3. QED
    BY <1>0, <1>4, <1>6, <2>1, <2>2 DEF GateInv
<1>7. CASE CompleteBody(q)
  BY <1>3, <1>5, <1>7 DEF CompleteBody
<1>8. CASE CompleteFresh(q)
  BY <1>3, <1>6, <1>8 DEF CompleteFresh, At, LoopPC
<1>9. CASE CompleteValidating(q)
  BY <1>6, <1>9 DEF CompleteValidating, At, LoopPC, FreshPC
<1>10. CASE CompleteApply(q)
  BY <1>3, <1>6, <1>10 DEF CompleteApply, At, LoopPC, FreshPC
<1>11. QED
  BY <1>7, <1>8, <1>9, <1>10

\* A completion from the write of its patch to the gate.
LEMMA RecordSettles ==
  ASSUME TypeOK, RefInv, GateInv, SettleInv, Guarded, NEW q \in Requests,
         \/ SetPatchResult(q) \/ CompleteStatus(q) \/ CompleteRevoke(q)
         \/ SaveDiff(q) \/ CompleteReadJob(q) \/ GateJob(q)
  PROVE  GateInv' /\ SettleInv'
<1> DEFINE r == proc[q].run
<1>0. /\ q \in Procs /\ proc[q].pc \in {"co_patch"} \cup RecordedPC
      /\ proc[q].pc \notin NoRowPC /\ proc[q].pc \notin CancelPC
      /\ batch' = batch /\ crashes' = crashes
  BY DEF Procs, Web, SetPatchResult, CompleteStatus, CompleteRevoke, SaveDiff,
     CompleteReadJob, GateJob, At, NoRowPC, RecordedPC, CancelPC, rest
<1>1. r \in Runs /\ run[r] \in RunRow /\ run \in [Runs -> RunRow] /\ proc[q] \in Proc
  BY <1>0, HasRow DEF TypeOK
<1>2. /\ proc[q].patch \in Patches
      /\ proc[q].pc \in RecordedPC => run[r].patch = proc[q].patch
  BY <1>0 DEF GateInv, LoopPC, FreshPC
<1>3. ASSUME NEW l \in RecordedPC, Goto(q, l), run'[r].patch = proc[q].patch,
             l \in GatePC => job'.diff # NoPatch,
             job'.diff # job.diff => \E s \in Runs : run'[s].patch = job'.diff,
             job.diff # NoPatch => job'.diff # NoPatch, job'.status = job.status
      PROVE  GateStep(q) /\ Others(q) /\ proc'[q].pc = l
  <2>1. l \in PC /\ l \notin LoopPC
    BY DEF PC, RecordedPC, LoopPC, FreshPC
  <2>2. /\ Others(q) /\ proc'[q].pc = l
        /\ proc'[q].run = r /\ proc'[q].patch = proc[q].patch
    BY <1>0, <1>3, <2>1, Moved
  <2>3. QED
    BY <1>1, <1>2, <1>3, <2>1, <2>2 DEF GateStep
<1>4. CASE SetPatchResult(q)
  <2> DEFINE row == [run[r] EXCEPT !.patch = proc[q].patch]
  <2>1. /\ row \in RunRow /\ row.patch = proc[q].patch
        /\ row.status = run[r].status /\ row.cancelReq = run[r].cancelReq
    BY <1>1, <1>2 DEF RunRow
  <2>2. run' = [run EXCEPT ![r] = row]
    BY <1>4 DEF SetPatchResult
  <2> HIDE DEF row
  <2>3. run'[r].patch = proc[q].patch /\ RowsPlain
    <3>1. run'[r] = row
      BY <1>1, <2>1, <2>2
    <3>2. RowsPlain
      BY <1>1, <2>1, <2>2, RowsStayPlain
    <3>3. QED
      BY <2>1, <3>1, <3>2
  <2>4. job' = job /\ Goto(q, "co_done") /\ proc[q].pc = "co_patch"
    BY <1>4 DEF SetPatchResult, At
  <2>5. "co_done" \in RecordedPC /\ "co_done" \notin GatePC
    BY DEF RecordedPC, GatePC
  <2>6. GateStep(q) /\ Others(q) /\ proc'[q].pc = "co_done"
    BY <1>3, <2>3, <2>4, <2>5
  <2>7. SettleStep(q)
    BY <1>0, <2>3, <2>4, <2>6, SettleQuiet DEF TaskPC, EndingPC
  <2>8. QED
    BY <1>0, <2>6, <2>7, GateStepKeeps, SettleStepKeeps
<1>5. CASE CompleteStatus(q)
  <2>1. /\ job' = job /\ Goto(q, "co_revoke") /\ proc[q].pc = "co_done"
        /\ SetStatus(r, "completed")
    BY <1>5 DEF CompleteStatus, At
  <2>2. run'[r].patch = run[r].patch
    BY <1>1, <2>1 DEF SetStatus, RunRow
  <2>3. "co_revoke" \in RecordedPC /\ "co_revoke" \notin GatePC /\ "co_revoke" \in EndingPC
        /\ "co_done" \in RecordedPC /\ "completed" \in RunStatus
    BY DEF RecordedPC, GatePC, EndingPC, RunStatus, TerminalRun
  <2>4. GateStep(q) /\ Others(q) /\ proc'[q].pc = "co_revoke"
    BY <1>2, <1>3, <2>1, <2>2, <2>3
  <2>5. SettleStep(q)
    BY <1>0, <1>1, <2>1, <2>3, <2>4, EndsRun
  <2>6. QED
    BY <1>0, <2>4, <2>5, GateStepKeeps, SettleStepKeeps
<1>6. CASE CompleteRevoke(q)
  <2>1. job' = job /\ Goto(q, "co_diff") /\ proc[q].pc = "co_revoke" /\ Revoke(r)
    BY <1>6 DEF CompleteRevoke, At
  <2>2. run'[r].patch = run[r].patch
    BY <1>1, <2>1 DEF Revoke, RunRow
  <2>3. "co_diff" \in RecordedPC /\ "co_diff" \notin GatePC /\ "co_diff" \in EndingPC
        /\ "co_revoke" \in RecordedPC /\ "co_diff" \notin TaskPC \cup {"rc_cset"}
    BY DEF RecordedPC, GatePC, EndingPC, TaskPC
  <2>4. GateStep(q) /\ Others(q) /\ proc'[q].pc = "co_diff"
    BY <1>2, <1>3, <2>1, <2>2, <2>3
  <2>5. SettleStep(q)
    BY <1>0, <1>1, <2>1, <2>3, <2>4, Columns, SettleQuiet
  <2>6. QED
    BY <1>0, <2>4, <2>5, GateStepKeeps, SettleStepKeeps
<1>7. CASE SaveDiff(q)
  <2>1. /\ run' = run /\ Goto(q, "co_job") /\ proc[q].pc = "co_diff"
        /\ job'.diff = proc[q].patch /\ job'.status = job.status
    BY <1>7 DEF SaveDiff, At, TypeOK
  <2>2. "co_job" \in RecordedPC /\ "co_job" \in EndingPC /\ "co_diff" \in RecordedPC
        /\ "co_job" \notin TaskPC \cup {"rc_cset"}
    BY DEF RecordedPC, EndingPC, TaskPC
  <2>3. job'.diff # NoPatch /\ run'[r].patch = job'.diff
    BY <1>2, <2>1, <2>2, ActorsAssumption
  <2>4. GateStep(q) /\ Others(q) /\ proc'[q].pc = "co_job"
    BY <1>1, <1>3, <2>1, <2>2, <2>3
  <2>5. SettleStep(q)
    BY <1>0, <2>1, <2>2, <2>4, SettleQuiet DEF RowsPlain
  <2>6. QED
    BY <1>0, <2>4, <2>5, GateStepKeeps, SettleStepKeeps
<1>8. CASE CompleteReadJob(q)
  <2>1. run' = run /\ job' = job /\ proc[q].pc = "co_job"
    BY <1>8 DEF CompleteReadJob, At
  <2>2. CASE job.status \in TerminalJob
    <3>1. End(q) /\ job.status # "queued"
      BY <1>8, <2>2 DEF CompleteReadJob, TerminalJob
    <3>2. Others(q) /\ proc'[q].pc = "idle"
      BY <1>0, <3>1, Moved
    <3>3. GateStep(q) /\ SettleInv'
      BY <1>0, <2>1, <3>1, <3>2, GateQuiet DEF LoopPC, FreshPC, RecordedPC, SettleInv
    <3>4. QED
      BY <1>0, <3>3, GateStepKeeps
  <2>3. CASE job.status \notin TerminalJob
    <3>1. Goto(q, "co_gate") /\ job.diff # NoPatch
      BY <1>0, <1>8, <2>1, <2>3 DEF CompleteReadJob, GateInv, GatePC
    <3>2. "co_gate" \in RecordedPC /\ "co_gate" \in EndingPC /\ "co_job" \in RecordedPC
          /\ "co_gate" \notin TaskPC \cup {"rc_cset"}
      BY DEF RecordedPC, EndingPC, TaskPC
    <3>3. GateStep(q) /\ Others(q) /\ proc'[q].pc = "co_gate"
      BY <1>2, <1>3, <2>1, <3>1, <3>2
    <3>4. SettleStep(q)
      BY <1>0, <2>1, <3>2, <3>3, SettleQuiet DEF RowsPlain
    <3>5. QED
      BY <1>0, <3>3, <3>4, GateStepKeeps, SettleStepKeeps
  <2>4. QED
    BY <2>2, <2>3
<1>9. CASE GateJob(q)
  <2>1. /\ job'.status = "awaiting_approval" /\ job'.diff = job.diff
        /\ proc[q].pc = "co_gate" /\ End(q)
    BY <1>9 DEF GateJob, SetJob, At, TypeOK
  <2>2. Others(q) /\ proc'[q].pc = "idle" /\ job.diff # NoPatch
    BY <1>0, <2>1, Moved DEF GateInv, GatePC
  <2>3. GateStep(q) /\ SettleInv'
    BY <2>1, <2>2 DEF GateStep, LoopPC, FreshPC, RecordedPC, GatePC, SettleInv
  <2>4. QED
    BY <1>0, <2>3, GateStepKeeps
<1>10. QED
  BY <1>4, <1>5, <1>6, <1>7, <1>8, <1>9

\* The other callbacks.
LEMMA CallbackSettles ==
  ASSUME TypeOK, RefInv, GateInv, SettleInv, Guarded, NEW q \in Requests,
         MarkStarted(q) \/ ClaimSource(q) \/ StreamSource(q) \/ FailedBody(q)
  PROVE  GateInv' /\ SettleInv'
<1> DEFINE r == proc[q].run
<1>0. /\ q \in Procs /\ proc[q].pc \in {"sp_start", "so_claim", "so_stream", "fa_body"}
      /\ proc[q].pc \notin NoRowPC /\ proc[q].pc \notin EndingPC \cup CancelPC
      /\ job' = job /\ batch' = batch /\ crashes' = crashes
  BY DEF Procs, Web, MarkStarted, ClaimSource, StreamSource, FailedBody, At, NoRowPC,
     EndingPC, CancelPC, rest
<1>1. r \in Runs /\ run[r] \in RunRow
  BY <1>0, HasRow DEF TypeOK
<1>2. Others(q) /\ proc'[q].pc \notin NamedPC
  <2>1. Finish(q) \/ Goto(q, "so_stream") \/ FailWith(q, "failed")
    BY DEF MarkStarted, ClaimSource, StreamSource, FailedBody
  <2>2. "so_stream" \in PC
    BY DEF PC
  <2>3. QED
    BY <1>0, <2>1, <2>2, Moved DEF NamedPC, LoopPC, FreshPC, RecordedPC, TaskPC
<1>3. RowsPlain
  <2>1. CASE run' = run \/ SetStatus(r, "running")
    BY <1>1, <2>1, RowsStayPlain DEF TokenActive
  <2>2. CASE run' = [run EXCEPT ![r].sourced = TRUE]
    <3> DEFINE row == [run[r] EXCEPT !.sourced = TRUE]
    <3>1. row \in RunRow /\ row.status = run[r].status /\ row.cancelReq = run[r].cancelReq
      BY <1>1 DEF RunRow
    <3>2. run' = [run EXCEPT ![r] = row]
      BY <2>2
    <3> HIDE DEF row
    <3>3. QED
      BY <1>1, <3>1, <3>2, RowsStayPlain
  <2>3. QED
    BY <2>1, <2>2 DEF MarkStarted, ClaimSource, StreamSource, FailedBody
<1>4. Plain(q)
  BY <1>0, <1>2, <1>3 DEF Plain
<1>5. QED
  BY <1>0, <1>4, PlainKeeps

\* The failure tail.
LEMMA FailSettles ==
  ASSUME TypeOK, RefInv, GateInv, SettleInv, Guarded, NEW p \in Procs, Fail(p)
  PROVE  GateInv' /\ SettleInv'
<1>0. /\ proc[p].pc \in {"fl_run", "fl_revoke", "fl_job", "fl_write"}
      /\ proc[p].pc \notin NoRowPC /\ proc[p].pc \notin CancelPC
      /\ batch' = batch /\ crashes' = crashes
      /\ {"fl_revoke", "fl_job", "fl_write"} \subseteq PC
  BY DEF Fail, FailRun, FailRevoke, FailReadJob, FailJob, At, NoRowPC, CancelPC, PC, rest
<1>1. proc[p].run \in Runs /\ proc[p] \in Proc
  BY <1>0, HasRow DEF TypeOK
<1>2. ASSUME NEW l \in {"fl_revoke", "fl_job", "fl_write"}, Goto(p, l), job' = job
      PROVE  /\ Others(p) /\ proc'[p].pc = l /\ GateStep(p)
             /\ l \in EndingPC /\ l \notin TaskPC \cup {"rc_cset"}
  <2>1. Others(p) /\ proc'[p].pc = l
    BY <1>0, <1>2, Moved
  <2>2. GateStep(p)
    BY <1>2, <2>1, GateQuiet DEF LoopPC, FreshPC, RecordedPC
  <2>3. QED
    BY <2>1, <2>2 DEF EndingPC, TaskPC
<1>3. CASE FailRun(p)
  <2>1. proc[p].to \in RunStatus /\ job' = job /\ Goto(p, "fl_revoke")
        /\ SetStatus(proc[p].run, proc[p].to)
    BY <1>1, <1>3 DEF FailRun, Proc, RunStatus, TerminalRun
  <2>2. GateStep(p) /\ SettleStep(p)
    BY <1>0, <1>1, <1>2, <2>1, EndsRun
  <2>3. QED
    BY <2>2, GateStepKeeps, SettleStepKeeps
<1>4. CASE FailRevoke(p)
  <2>1. job' = job /\ Goto(p, "fl_job") /\ Revoke(proc[p].run)
    BY <1>4 DEF FailRevoke
  <2>2. RowsPlain
    BY <1>1, <2>1, Columns
  <2>3. GateStep(p) /\ SettleStep(p)
    BY <1>0, <1>2, <2>1, <2>2, SettleQuiet
  <2>4. QED
    BY <2>3, GateStepKeeps, SettleStepKeeps
<1>5. CASE FailReadJob(p)
  <2>1. job' = job /\ RowsPlain
    BY <1>5 DEF FailReadJob, RowsPlain
  <2>2. CASE job.status \in TerminalJob
    <3>1. Others(p) /\ proc'[p].pc = "idle" /\ job.status # "queued"
      BY <1>5, <2>2, Moved DEF FailReadJob, TerminalJob
    <3>2. GateStep(p) /\ SettleInv'
      BY <2>1, <3>1, GateQuiet DEF LoopPC, FreshPC, RecordedPC, SettleInv
    <3>3. QED
      BY <3>2, GateStepKeeps
  <2>3. CASE job.status \notin TerminalJob
    <3>1. Goto(p, "fl_write")
      BY <1>5, <2>3 DEF FailReadJob
    <3>2. GateStep(p) /\ SettleStep(p)
      BY <1>0, <1>2, <2>1, <3>1, SettleQuiet
    <3>3. QED
      BY <3>2, GateStepKeeps, SettleStepKeeps
  <2>4. QED
    BY <2>2, <2>3
<1>6. CASE FailJob(p)
  <2>1. Others(p) /\ proc'[p].pc = "idle"
    BY <1>6, Moved DEF FailJob
  <2>2. GateStep(p) /\ SettleInv'
    BY <1>1, <1>6, <2>1, JobSettled DEF FailJob, Proc
  <2>3. QED
    BY <2>2, GateStepKeeps
<1>7. QED
  BY <1>3, <1>4, <1>5, <1>6 DEF Fail

\* A user's cancellation.
LEMMA CancelSettles ==
  ASSUME TypeOK, RefInv, GateInv, SettleInv, Guarded, NEW u \in Users, Cancel(u)
  PROVE  GateInv' /\ SettleInv'
<1> DEFINE r == proc[u].run
<1>0. /\ u \in Procs /\ proc[u].pc \in {"ca_run", "ca_req"} \cup CancelPC
      /\ batch' = batch /\ crashes' = crashes
      /\ {"ca_req", "ca_revoke", "ca_enqueue", "ca_job", "queued"} \subseteq PC
  BY DEF Procs, Web, Cancel, CancelReadRun, CancelRequest, CancelRevoke, CancelEnqueue,
     CancelJob, At, CancelPC, PC, rest
<1>1. ASSUME NEW l \in CancelPC, Goto(u, l), job' = job
      PROVE  /\ Others(u) /\ proc'[u].pc = l /\ GateStep(u)
  <2>1. Others(u) /\ proc'[u].pc = l
    BY <1>0, <1>1, Moved DEF CancelPC
  <2>2. l \notin LoopPC \cup RecordedPC
    BY DEF CancelPC, LoopPC, FreshPC, RecordedPC
  <2>3. QED
    BY <1>0, <1>1, <2>1, <2>2, GateQuiet
<1>2. CASE CancelReadRun(u)
  <2>1. job' = job /\ run' = run /\ proc[u].pc = "ca_run" /\ RowsPlain
    BY <1>2 DEF CancelReadRun, At, RowsPlain
  <2>2. Others(u) /\ proc'[u].pc \in {"ca_job", "ca_req"}
    BY <1>0, <1>2, IdleType, BoundsAssumption, Moved DEF CancelReadRun
  <2>3. Plain(u)
    BY <1>0, <2>1, <2>2 DEF Plain, EndingPC, CancelPC, NamedPC, LoopPC, FreshPC,
       RecordedPC, TaskPC
  <2>4. QED
    BY <1>0, <2>3, PlainKeeps
<1>3. CASE CancelRequest(u)
  <2>1. /\ job' = job /\ proc[u].pc = "ca_req" /\ proc[u].pc \notin NoRowPC
        /\ RequestCancellation(r) /\ Goto(u, "ca_revoke") /\ "ca_revoke" \in CancelPC
        /\ proc[u].pc \notin EndingPC \cup CancelPC
    BY <1>3 DEF CancelRequest, At, CancelPC, EndingPC, NoRowPC
  <2>2. OneEnded' => OneEnded
    BY <1>0, <2>1, HasRow, Columns
  <2>3. GateStep(u) /\ SettleStep(u)
    BY <1>0, <1>1, <2>1, <2>2 DEF SettleStep
  <2>4. QED
    BY <1>0, <2>3, GateStepKeeps, SettleStepKeeps
<1>4. CASE CancelRevoke(u)
  <2>1. /\ job' = job /\ proc[u].pc = "ca_revoke" /\ proc[u].pc \notin NoRowPC
        /\ Revoke(r) /\ Goto(u, "ca_enqueue") /\ "ca_enqueue" \in CancelPC
    BY <1>4 DEF CancelRevoke, At, CancelPC, NoRowPC
  <2>2. OneEnded' => OneEnded
    BY <1>0, <2>1, HasRow, Columns DEF RowsPlain, OneEnded
  <2>3. GateStep(u) /\ SettleStep(u)
    BY <1>0, <1>1, <2>1, <2>2 DEF SettleStep
  <2>4. QED
    BY <1>0, <2>3, GateStepKeeps, SettleStepKeeps
<1>5. CASE CancelEnqueue(u)
  <2>1. /\ job' = job /\ run' = run /\ proc[u].pc = "ca_enqueue" /\ "ca_job" \in CancelPC
        /\ proc[u].pc \in CancelPC
    BY <1>5 DEF CancelEnqueue, At, CancelPC
  <2>2. CASE Goto(u, "ca_job")
    <3>1. GateStep(u) /\ SettleStep(u)
      BY <1>0, <1>1, <2>1, <2>2 DEF SettleStep, OneEnded
    <3>2. QED
      BY <1>0, <3>1, GateStepKeeps, SettleStepKeeps
  <2>3. ASSUME NEW t \in CancelTasks, At(t, "idle"),
               proc' = [proc EXCEPT ![u].pc = "ca_job", ![t].pc = "queued"]
        PROVE  GateInv' /\ SettleInv'
    <3>1. t \in Procs /\ t # u /\ proc \in [Procs -> Proc]
      BY <2>1, <2>3 DEF Procs, Tasks, At, TypeOK
    <3>2. /\ proc'[u].pc = "ca_job" /\ proc'[t].pc = "queued"
          /\ \A q \in Procs : q # u /\ q # t => proc'[q] = proc[q]
      BY <1>0, <2>3, <3>1 DEF Proc
    <3>3. \A q \in Procs : q \in {u, t} => proc'[q].pc \notin LoopPC \cup RecordedPC
      BY <3>2 DEF LoopPC, FreshPC, RecordedPC
    <3>4. GateInv'
      BY <2>1, <3>2, <3>3 DEF GateInv, GatePC, RecordedPC
    <3>5. SettleInv'
      BY <1>0, <2>1, <3>2 DEF SettleInv
    <3>6. QED
      BY <3>4, <3>5
  <2>4. QED
    BY <1>5, <2>2, <2>3 DEF CancelEnqueue
<1>6. CASE CancelJob(u)
  <2>1. Others(u) /\ proc'[u].pc = "idle"
    BY <1>0, <1>6, Moved DEF CancelJob
  <2>2. GateStep(u) /\ SettleInv'
    BY <1>0, <1>6, <2>1, JobSettled DEF CancelJob
  <2>3. QED
    BY <1>0, <2>2, GateStepKeeps
<1>7. QED
  BY <1>2, <1>3, <1>4, <1>5, <1>6 DEF Cancel

\* A step of who finds the cancellation asked for: the user has still to settle the job.
LEMMA AskedStep ==
  ASSUME NEW p \in Procs, Others(p), Asked, crashes' = crashes, job' = job,
         proc[p].pc \notin EndingPC \cup CancelPC,
         proc'[p].pc \notin LoopPC \cup RecordedPC
  PROVE  GateStep(p) /\ SettleStep(p)
  BY GateQuiet DEF SettleStep

\* The task a cancellation enqueues.
LEMMA TaskSettles ==
  ASSUME TypeOK, RefInv, GateInv, SettleInv, Guarded, NEW t \in CancelTasks,
         CancelExecution(t)
  PROVE  GateInv' /\ SettleInv'
<1>1. /\ t \in Procs /\ proc[t].pc \in TaskPC /\ crashes' = crashes /\ job' = job
      /\ {"ct_req", "ct_revoke", "ct_set"} \subseteq PC
  BY DEF Procs, Tasks, CancelExecution, TaskReadRun, TaskRequest, TaskRevoke, TaskCancelRun,
     At, TaskPC, PC, rest
<1>2. Asked /\ proc[t].pc \notin EndingPC \cup CancelPC
  BY <1>1 DEF Asked, TaskPC, EndingPC, CancelPC
<1>3. Others(t) /\ proc'[t].pc \in {"ct_req", "ct_revoke", "ct_set", "idle"}
  <2>1. CASE TaskReadRun(t)
    BY <1>1, <2>1, Moved, SnapType, BoundsAssumption DEF TaskReadRun
  <2>2. CASE TaskRequest(t) \/ TaskRevoke(t) \/ TaskCancelRun(t)
    BY <1>1, <2>2, Moved DEF TaskRequest, TaskRevoke, TaskCancelRun
  <2>3. QED
    BY <2>1, <2>2 DEF CancelExecution
<1>4. proc'[t].pc \notin LoopPC \cup RecordedPC
  BY <1>3 DEF LoopPC, FreshPC, RecordedPC
<1>5. QED
  BY <1>1, <1>2, <1>3, <1>4, AskedStep, GateStepKeeps, SettleStepKeeps

\* The reconciler's look at a run.
LEMMA ReconcileSettles ==
  ASSUME TypeOK, RefInv, GateInv, SettleInv, Guarded, NEW c \in Reconcilers, Reconcile(c)
  PROVE  GateInv' /\ SettleInv'
<1> DEFINE r == proc[c].run
<1>0. /\ c \in Procs /\ c \in Tasks /\ job' = job /\ crashes' = crashes
      /\ proc[c].pc \in {"idle", "rc_cset", "rc_crevoke", "rc_look", "rc_reread",
                         "rc_timeout", "rc_poll"}
      /\ proc[c].pc \notin EndingPC \cup CancelPC
      /\ {"rc_cset", "rc_crevoke", "rc_look", "rc_reread", "rc_timeout", "rc_poll"} \subseteq PC
  BY DEF Procs, Tasks, Reconcile, ReconcileTake, ReconcileCancel, ReconcileCancelRevoke,
     ReconcileLook, ReconcileReread, ReconcileTimesOut, ReconcileInTime, ReconcilePoll, At,
     EndingPC, CancelPC, PC, rest
<1>1. CASE ReconcileTake(c)
  <2>1. PICK b \in batch[c] :
          /\ batch' = [batch EXCEPT ![c] = @ \ {b}]
          /\ Begin(c, IF b.snap.cancelReq THEN "rc_cset" ELSE "rc_look", b.run, b.snap, 0)
    BY <1>1 DEF ReconcileTake
  <2> DEFINE l == IF b.snap.cancelReq THEN "rc_cset" ELSE "rc_look"
  <2>2. /\ batch \in [Reconcilers -> SUBSET [run : Runs, snap : Snapshot]]
        /\ b.run \in Runs /\ b.snap \in Snapshot /\ 0 \in 0..MaxAttempts /\ run' = run
    BY <1>1, <2>1, BoundsAssumption DEF ReconcileTake, TypeOK
  <2>3. l \in PC /\ l \in {"rc_cset", "rc_look"} /\ (l = "rc_cset" => b.snap.cancelReq)
    BY <1>0
  <2> HIDE DEF l
  <2>4. Begin(c, l, b.run, b.snap, 0)
    BY <2>1 DEF l
  <2>5. Others(c) /\ proc'[c].pc = l
    BY <1>0, <2>2, <2>3, <2>4, Moved
  <2>6. GateStep(c)
    BY <1>0, <2>3, <2>5, GateQuiet DEF LoopPC, FreshPC, RecordedPC
  <2>7. \A d \in Reconcilers : batch'[d] \subseteq batch[d]
    BY <2>1, <2>2
  <2>8. Asked' => Asked
    <3>1. ASSUME NEW t \in CancelTasks, proc'[t].pc \in TaskPC PROVE Asked
      BY <2>3, <2>5, <3>1 DEF Others, Asked, Procs, Tasks, TaskPC
    <3>2. ASSUME NEW d \in Reconcilers, proc'[d].pc = "rc_cset" PROVE Asked
      BY <2>3, <2>5, <3>2 DEF Others, Asked, Procs, Tasks
    <3>3. QED
      BY <2>2, <2>7, <3>1, <3>2 DEF Asked
  <2>9. SettleStep(c)
    BY <1>0, <2>2, <2>5, <2>8 DEF SettleStep, OneEnded
  <2>10. QED
    BY <1>0, <2>6, <2>9, GateStepKeeps, SettleStepKeeps
<1>2. CASE ReconcileCancel(c)
  <2>1. Asked
    BY <1>2 DEF ReconcileCancel, At, Asked
  <2>2. Others(c) /\ proc'[c].pc = "rc_crevoke"
    BY <1>0, <1>2, Moved DEF ReconcileCancel
  <2>3. GateStep(c) /\ SettleStep(c)
    BY <1>0, <2>1, <2>2, AskedStep DEF LoopPC, FreshPC, RecordedPC
  <2>4. QED
    BY <1>0, <2>3, GateStepKeeps, SettleStepKeeps
<1>3. ASSUME RowsPlain, batch' = batch, Others(c),
             proc'[c].pc \in {"idle", "rc_reread", "rc_timeout", "rc_poll", "fl_run"}
      PROVE  GateInv' /\ SettleInv'
  <2>1. Plain(c)
    BY <1>0, <1>3 DEF Plain, NamedPC, LoopPC, FreshPC, RecordedPC, TaskPC
  <2>2. QED
    BY <1>0, <2>1, PlainKeeps
<1>4. CASE ReconcileCancelRevoke(c)
  <2>1. proc[c].pc \notin NoRowPC /\ Revoke(r) /\ batch' = batch
    BY <1>4 DEF ReconcileCancelRevoke, At, NoRowPC, rest
  <2>2. RowsPlain
    BY <1>0, <2>1, HasRow, Columns
  <2>3. QED
    BY <1>0, <1>3, <1>4, <2>1, <2>2, Moved DEF ReconcileCancelRevoke
<1>5. CASE ReconcileLook(c)
  <2>1. /\ proc[c].pc \notin NoRowPC /\ batch' = batch
        /\ Others(c) /\ proc'[c].pc \in {"rc_timeout", "rc_reread"}
    BY <1>0, <1>5, Moved DEF ReconcileLook, At, NoRowPC, rest
  <2>2. r \in Runs /\ run[r] \in RunRow
    BY <1>0, <2>1, HasRow DEF TypeOK
  <2>3. CASE run' = run
    BY <1>3, <2>1, <2>3 DEF RowsPlain
  <2>4. ASSUME NEW f \in Findable,
               run' = [run EXCEPT ![r] = [@ EXCEPT !.wfId = f, !.wfAttempt = attempts[f]]]
        PROVE  GateInv' /\ SettleInv'
    <3> DEFINE row == [run[r] EXCEPT !.wfId = f, !.wfAttempt = attempts[f]]
    <3>1. f \in Runs /\ attempts[f] \in 0..MaxAttempts
      BY DEF Findable, TypeOK
    <3>2. row \in RunRow /\ row.status = run[r].status /\ row.cancelReq = run[r].cancelReq
      BY <2>2, <3>1 DEF RunRow
    <3>3. run' = [run EXCEPT ![r] = row]
      BY <2>4
    <3> HIDE DEF row
    <3>4. RowsPlain
      BY <2>2, <3>2, <3>3, RowsStayPlain
    <3>5. QED
      BY <1>3, <2>1, <3>4
  <2>5. QED
    BY <1>5, <2>3, <2>4 DEF ReconcileLook
<1>6. CASE ReconcileReread(c)
  <2>1. proc[c].pc \notin NoRowPC
    BY <1>6 DEF ReconcileReread, At, NoRowPC
  <2>2. r \in Runs /\ Snap(r) \in Snapshot /\ 0 \in 0..MaxAttempts
    BY <1>0, <2>1, HasRow, SnapType, BoundsAssumption
  <2>3. Others(c) /\ proc'[c].pc = "rc_timeout"
    BY <1>0, <1>6, <2>2, Moved DEF ReconcileReread
  <2>4. QED
    BY <1>3, <1>6, <2>3 DEF ReconcileReread, rest, RowsPlain
<1>7. CASE ReconcileTimesOut(c) \/ ReconcileInTime(c) \/ ReconcilePoll(c)
  <2>1. RowsPlain /\ batch' = batch
    BY <1>7 DEF ReconcileTimesOut, ReconcileInTime, ReconcilePoll, RowsPlain, rest
  <2>2. FailWith(c, "failed") \/ FailWith(c, "cancelled") \/ Finish(c) \/ Goto(c, "rc_poll")
    BY <1>7 DEF ReconcileTimesOut, ReconcileInTime, ReconcilePoll
  <2>3. Others(c) /\ proc'[c].pc \in {"idle", "rc_poll", "fl_run"}
    BY <1>0, <2>2, Moved
  <2>4. QED
    BY <1>3, <2>1, <2>3
<1>8. QED
  BY <1>1, <1>2, <1>4, <1>5, <1>6, <1>7 DEF Reconcile

\* What arrives.
LEMMA ArrivalSettles ==
  ASSUME TypeOK, RefInv, GateInv, SettleInv, Guarded, Arrival
  PROVE  GateInv' /\ SettleInv'
<1>1. ASSUME NEW p \in Web, At(p, "idle"), UNCHANGED <<job, run, rest>>, Others(p),
             proc'[p].pc \in {"sp_start", "so_claim", "fa_body", "co_body", "x_claims", "ca_run"}
      PROVE  GateInv' /\ SettleInv'
  <2>1. p \in Procs /\ Plain(p)
    BY <1>1 DEF Plain, rest, RowsPlain, At, Procs, EndingPC, CancelPC, NamedPC, LoopPC,
       FreshPC, RecordedPC, TaskPC
  <2>2. QED
    BY <2>1, PlainKeeps
<1>2. /\ {"sp_start", "so_claim", "fa_body", "co_body", "x_claims", "ca_run"} \subseteq PC
      /\ 0 \in 0..MaxAttempts /\ NoSnap \in Snapshot
      /\ \A r \in Runs : Snap(r) \in Snapshot /\ holder[r] \in 0..MaxAttempts
      /\ Requests \subseteq Web /\ Users \subseteq Web /\ Web \subseteq Procs
  BY IdleType, SnapType, BoundsAssumption DEF PC, TypeOK, Web, Procs
<1>3. ASSUME NEW q \in Requests, NEW r \in Runs, Authenticate(q, r)
      PROVE  GateInv' /\ SettleInv'
  <2>1. \E l \in {"sp_start", "so_claim", "fa_body", "co_body"} :
          Begin(q, l, r, NoSnap, 0) \/ Begin(q, l, r, Snap(r), holder[r])
    BY <1>3 DEF Authenticate
  <2>2. Others(q) /\ proc'[q].pc \in {"sp_start", "so_claim", "fa_body", "co_body"}
    BY <1>2, <2>1, Moved
  <2>3. QED
    BY <1>1, <1>2, <1>3, <2>2 DEF Authenticate
<1>4. ASSUME NEW q \in Requests, NEW r \in Runs, NEW a \in 1..MaxAttempts,
             ExchangeStart(q, r, a)
      PROVE  GateInv' /\ SettleInv'
  <2>1. a \in 0..MaxAttempts /\ Begin(q, "x_claims", r, Snap(r), a)
    BY <1>4, BoundsAssumption DEF ExchangeStart
  <2>2. Others(q) /\ proc'[q].pc = "x_claims"
    BY <1>2, <2>1, Moved
  <2>3. QED
    BY <1>1, <1>2, <1>4, <2>2 DEF ExchangeStart
<1>5. ASSUME NEW u \in Users, CancelStart(u)
      PROVE  GateInv' /\ SettleInv'
  <2>1. Others(u) /\ proc'[u].pc = "ca_run"
    BY <1>2, <1>5, Moved DEF CancelStart
  <2>2. QED
    BY <1>1, <1>2, <1>5, <2>1 DEF CancelStart
<1>6. QED
  BY <1>3, <1>4, <1>5 DEF Arrival

\* The reconciler's scan.
LEMMA ScanSettles ==
  ASSUME TypeOK, GateInv, SettleInv, NEW c \in Reconcilers, ReconcileScan(c)
  PROVE  GateInv' /\ SettleInv'
<1>1. /\ job' = job /\ run' = run /\ proc' = proc /\ crashes' = crashes
      /\ batch' = [batch EXCEPT ![c] = {[run |-> r, snap |-> Snap(r)] : r \in ActiveRuns}]
  BY DEF ReconcileScan
<1>2. GateInv'
  BY <1>1 DEF GateInv
<1>3. Asked' => Asked
  <2>1. ASSUME NEW b \in batch'[c], b.snap.cancelReq
        PROVE  Asked
    <3>1. batch \in [Reconcilers -> SUBSET [run : Runs, snap : Snapshot]]
      BY DEF TypeOK
    <3>2. \E r \in ActiveRuns : b = [run |-> r, snap |-> Snap(r)]
      BY <1>1, <2>1, <3>1
    <3>3. \E r \in Runs : run[r].cancelReq
      BY <2>1, <3>2 DEF Snap, ActiveRuns, Created
    <3>4. QED
      BY <3>3 DEF Asked
  <2>2. \A d \in Reconcilers : d # c => batch'[d] = batch[d]
    BY <1>1 DEF TypeOK
  <2>3. QED
    BY <1>1, <2>1, <2>2 DEF Asked
<1>4. SettleInv'
  BY <1>1, <1>3 DEF SettleInv, OneEnded
<1>5. QED
  BY <1>2, <1>4

\* A crash cuts short whom it hits, and ends what is asked of an unsettled job.
LEMMA CrashSettles ==
  ASSUME TypeOK, GateInv, CrashWeb \/ \E t \in Tasks : CrashWorker(t)
  PROVE  GateInv' /\ SettleInv'
<1>1. job' = job /\ run' = run /\ crashes' # 0
  BY DEF CrashWeb, CrashWorker, TypeOK
<1>2. \A p \in Procs : proc'[p] = proc[p] \/ proc'[p].pc \in {"idle", "queued"}
  <2>1. CASE CrashWeb
    BY <2>1 DEF CrashWeb, Idle
  <2>2. ASSUME NEW t \in Tasks, CrashWorker(t)
        PROVE  \A p \in Procs : proc'[p] = proc[p] \/ proc'[p].pc \in {"idle", "queued"}
    <3>1. t \in Procs /\ proc \in [Procs -> Proc]
      BY DEF Procs, TypeOK
    <3>2. \/ proc' = [proc EXCEPT ![t] = Idle]
          \/ proc' = [proc EXCEPT ![t] = [Idle EXCEPT !.pc = "queued"]]
      BY <2>2 DEF CrashWorker, Finish
    <3>3. Idle.pc = "idle" /\ [Idle EXCEPT !.pc = "queued"].pc = "queued"
      BY DEF Idle
    <3>4. QED
      BY <3>1, <3>2, <3>3
  <2>3. QED
    BY <2>1, <2>2
<1>3. {"idle", "queued"} \cap (LoopPC \cup RecordedPC) = {}
  BY DEF LoopPC, FreshPC, RecordedPC
<1>4. GateInv'
  BY <1>1, <1>2, <1>3 DEF GateInv, GatePC, RecordedPC
<1>5. QED
  BY <1>1, <1>4 DEF SettleInv

\* Every step keeps both invariants.
LEMMA StepSettles ==
  ASSUME IInv, GateInv, SettleInv, [Next]_vars
  PROVE  GateInv' /\ SettleInv'
<1>0. TypeOK /\ RefInv /\ Guarded
  BY StepKeeps DEF IInv
<1>1. ASSUME NEW p \in Procs, Step(p)
      PROVE  GateInv' /\ SettleInv'
  <2>1. CASE p \in Dispatchers /\ RunJob(p)
    BY <1>0, <2>1, RunJobSettles
  <2>2. CASE p \in Requests /\ Exchange(p)
    BY <1>0, <2>2, ExchangeSettles
  <2>3. CASE p \in Requests /\ Callback(p)
    BY <1>0, <2>3, ReportSettles, RecordSettles, CallbackSettles DEF Callback
  <2>4. CASE p \in Users /\ Cancel(p)
    BY <1>0, <2>4, CancelSettles
  <2>5. CASE p \in CancelTasks /\ CancelExecution(p)
    BY <1>0, <2>5, TaskSettles
  <2>6. CASE p \in Reconcilers /\ Reconcile(p)
    BY <1>0, <2>6, ReconcileSettles
  <2>7. CASE Fail(p)
    BY <1>0, <2>7, FailSettles
  <2>8. QED
    BY <1>1, <2>1, <2>2, <2>3, <2>4, <2>5, <2>6, <2>7 DEF Step
<1>2. CASE Arrival
  BY <1>0, <1>2, ArrivalSettles
<1>3. CASE \E c \in Reconcilers : ReconcileScan(c)
  BY <1>0, <1>3, ScanSettles
<1>4. CASE (\E r \in Runs : WorkflowRerun(r)) \/ UNCHANGED vars
  <2>1. job' = job /\ run' = run /\ proc' = proc /\ batch' = batch /\ crashes' = crashes
    BY <1>4 DEF WorkflowRerun, vars, rest
  <2>2. QED
    BY <2>1 DEF GateInv, SettleInv, OneEnded, Asked
<1>5. CASE CrashWeb \/ \E t \in Tasks : CrashWorker(t)
  BY <1>0, <1>5, CrashSettles
<1>6. QED
  BY <1>1, <1>2, <1>3, <1>4, <1>5 DEF Next

\* The initial state satisfies them: no task that cancels was enqueued.
LEMMA InitSettles == Init => GateInv /\ SettleInv
<1> SUFFICES ASSUME Init PROVE GateInv /\ SettleInv
  OBVIOUS
<1>1. \A p \in Procs : proc[p].pc \in {"idle", "queued"}
  BY DEF Init, Idle
<1>2. GateInv
  BY <1>1 DEF Init, GateInv, LoopPC, FreshPC, RecordedPC, GatePC
<1>3. \A t \in CancelTasks \cup Reconcilers : t \in Procs
  BY DEF Procs, Tasks
<1>4. \A r \in Runs : run[r].status = "none" /\ ~run[r].cancelReq
  BY DEF Init, NoRow
<1>5. \A t \in CancelTasks : proc[t].pc \notin TaskPC
  BY <1>3, ActorsAssumption DEF Init, Idle, TaskPC
<1>6. \A c \in Reconcilers : proc[c].pc # "rc_cset" /\ batch[c] = {}
  BY <1>1, <1>3 DEF Init
<1>7. ~OneEnded /\ ~Asked
  BY <1>4, <1>5, <1>6 DEF OneEnded, Asked, TerminalRun
<1>8. QED
  BY <1>2, <1>7 DEF SettleInv

\* The approval gate holds a stored diff that is the recorded, validated patch of a run of
\* the job, whatever races at the completion.
THEOREM GateIsGenuine == Spec => []GateHoldsValidatedPatch
<1>1. Init => IInv /\ GateInv /\ SettleInv
  BY InitIInv, InitSettles
<1>2. IInv /\ GateInv /\ SettleInv /\ [Next]_vars => (IInv /\ GateInv /\ SettleInv)'
  BY StepKeeps, StepSettles
<1>3. GateInv => GateHoldsValidatedPatch
  BY DEF GateInv, GateHoldsValidatedPatch
<1>4. QED
  BY <1>1, <1>2, <1>3, PTL DEF Spec

\* Without a crash a job is settled when all its runs have ended and everyone has come to
\* rest: whoever ends a run, or asks for its cancellation, settles the job after it.
THEOREM JobIsSettledAtRest == Spec => []RestingJobIsSettled
<1>1. Init => IInv /\ GateInv /\ SettleInv
  BY InitIInv, InitSettles
<1>2. IInv /\ GateInv /\ SettleInv /\ [Next]_vars => (IInv /\ GateInv /\ SettleInv)'
  BY StepKeeps, StepSettles
<1>3. IInv /\ SettleInv => RestingJobIsSettled
  <2> SUFFICES ASSUME IInv, SettleInv, AtRest, crashes = 0
               PROVE  job.status \in TerminalJob \cup {"awaiting_approval"}
    BY DEF RestingJobIsSettled
  <2>1. job.status \in JobStatus
    BY DEF IInv, TypeOK
  <2>2. OneEnded
    BY DEF AtRest, ActiveRuns, Created, OneEnded
  <2>3. \A p \in Procs : proc[p].pc \notin EndingPC \cup CancelPC
    BY DEF AtRest, At, EndingPC, CancelPC
  <2>4. job.status # "queued"
    BY <2>2, <2>3 DEF SettleInv
  <2>5. QED
    BY <2>1, <2>4 DEF JobStatus
<1>4. QED
  BY <1>1, <1>2, <1>3, PTL DEF Spec

=============================================================================
