----------------------------- MODULE RunControl -----------------------------
(***************************************************************************)
(* The execution control plane of one job: src/gnsis/service/executor and  *)
(* the Celery tasks and HTTP handlers that drive it.                       *)
(*                                                                         *)
(* The worker dispatches a job to a fixed GitHub Actions workflow; every   *)
(* attempt to do so creates an execution run, a row of execution_runs.     *)
(* The dispatched machine exchanges a single-use nonce for a run token,    *)
(* fetches its spec and source, and reports completion or failure; a user  *)
(* may cancel; a periodic reconciler repairs what no callback delivered.   *)
(*                                                                         *)
(* Every store call is a database transaction of its own and any other     *)
(* actor may run between two of them.  Hence one action per store call,    *)
(* a program counter per actor, and the snapshot an actor works with.      *)
(* Handlers declared "async def" hold the event loop of the web process    *)
(* from the arrival of the request body to their end; those declared "def" *)
(* run in a thread pool and do not.                                        *)
(*                                                                         *)
(* GitHub is external.  What it reports of a workflow is arbitrary, except *)
(* that attempts only grow, so cancelling a workflow changes nothing here. *)
(***************************************************************************)
EXTENDS Integers, FiniteSets

CONSTANTS
    MaxRuns,      \* bound: execution runs created for the job
    MaxAttempts,  \* bound: attempts of one GitHub workflow run
    MaxCrashes,   \* bound: process crashes in a behaviour
    Patches,      \* contents of patch.diff the executor may report
    Dispatchers,  \* deliveries of the run_job task
    CancelTasks,  \* deliveries of the cancel_execution task
    Reconcilers,  \* deliveries of the reconcile_executions task
    Requests,     \* executor HTTP requests in flight in the web process
    Users,        \* POST /jobs/{id}/cancel requests in flight
    Endpoints,    \* the executor endpoints in use
    NoPatch,      \* no patch recorded
    NoOne         \* nobody holds the event loop

Web   == Requests \cup Users
Tasks == Dispatchers \cup CancelTasks \cup Reconcilers
Procs == Web \cup Tasks
Runs  == 1..MaxRuns

ASSUME BoundsAssumption ==
    MaxRuns \in Nat /\ MaxAttempts \in Nat \ {0} /\ MaxCrashes \in Nat
ASSUME ActorsAssumption ==
    /\ NoPatch \notin Patches
    /\ NoOne \notin Procs
    /\ Dispatchers \cap CancelTasks = {}    \* run_job and cancel_execution are two tasks

-----------------------------------------------------------------------------
TerminalRun == {"completed", "failed", "cancelled", "blocked"}
TokenActive == {"authenticated", "running", "validating"}
RunStatus   == {"none", "pending", "dispatched"} \cup TokenActive \cup TerminalRun

TerminalJob == {"completed", "rejected", "failed", "cancelled", "blocked"}
JobStatus   == {"queued", "awaiting_approval"} \cup TerminalJob

\* A row of execution_runs, as far as control depends on it.  wfId names the
\* recorded GitHub workflow by the run whose dispatch started it; 0 is NULL.
RunRow == [status: RunStatus, nonceUsed: BOOLEAN, hashed: BOOLEAN,
           revoked: BOOLEAN, wfId: {0} \cup Runs, wfAttempt: 0..MaxAttempts,
           cancelReq: BOOLEAN, sourced: BOOLEAN, patch: Patches \cup {NoPatch}]

NoRow == [status |-> "none", nonceUsed |-> FALSE, hashed |-> FALSE,
          revoked |-> FALSE, wfId |-> 0, wfAttempt |-> 0,
          cancelReq |-> FALSE, sourced |-> FALSE, patch |-> NoPatch]

\* What an actor still uses of a row after reading it.
Snapshot == [terminal: BOOLEAN, cancelReq: BOOLEAN,
             wfId: {0} \cup Runs, wfAttempt: 0..MaxAttempts]
NoSnap   == [terminal |-> FALSE, cancelReq |-> FALSE, wfId |-> 0, wfAttempt |-> 0]

PC == {"idle", "queued", "done",
       "rj_preflight", "rj_block", "rj_blockset", "rj_jobblock", "rj_create",
       "rj_post", "rj_dispfail", "rj_find", "rj_mark", "rj_jobfail",
       "x_claims", "x_consume", "x_setwf", "x_bind",
       "sp_start", "so_claim", "so_stream", "fa_body",
       "co_body", "co_fresh", "co_validating", "co_apply", "co_patch",
       "co_done", "co_revoke", "co_diff", "co_job", "co_gate",
       "fl_run", "fl_revoke", "fl_job", "fl_write",
       "ca_run", "ca_req", "ca_revoke", "ca_enqueue", "ca_job",
       "ct_req", "ct_revoke", "ct_set",
       "rc_look", "rc_reread", "rc_timeout", "rc_poll", "rc_cset", "rc_crevoke"}

\* attempt: the workflow attempt a request comes from; patch: what it reports;
\* to: the status the failure tail writes.
Proc == [pc: PC, run: {0} \cup Runs, snap: Snapshot, attempt: 0..MaxAttempts,
         patch: Patches \cup {NoPatch}, to: {"failed", "cancelled"}]
Idle == [pc |-> "idle", run |-> 0, snap |-> NoSnap, attempt |-> 0,
         patch |-> NoPatch, to |-> "failed"]

-----------------------------------------------------------------------------
VARIABLES
    job,        \* the job row: its status and its stored diff
    run,        \* the rows of execution_runs, by order of creation
    proc,       \* what each actor is doing
    loop,       \* the request that holds the event loop
    batch,      \* the runs each reconciler has still to look at
    attempts,   \* GitHub: attempts of the workflow each run dispatched
    holder,     \* GitHub: the attempt whose machine got the run token
    crashes,    \* crashes so far
    issued,     \* history: tokens bound to each run
    delivered   \* history: source downloads started for each run

rest == <<batch, attempts, holder, crashes, issued, delivered>>
vars == <<job, run, proc, loop, rest>>

TypeOK ==
    /\ job \in [status: JobStatus, diff: Patches \cup {NoPatch}]
    /\ run \in [Runs -> RunRow]
    /\ proc \in [Procs -> Proc]
    /\ loop \in Requests \cup {NoOne}
    /\ batch \in [Reconcilers -> SUBSET [run: Runs, snap: Snapshot]]
    /\ attempts \in [Runs -> 0..MaxAttempts]
    /\ holder \in [Runs -> 0..MaxAttempts]
    /\ crashes \in 0..MaxCrashes
    /\ issued \in [Runs -> Nat]
    /\ delivered \in [Runs -> Nat]

\* A queued job with its run_job task enqueued, and nothing else.
Init ==
    /\ job = [status |-> "queued", diff |-> NoPatch]
    /\ run = [r \in Runs |-> NoRow]
    /\ proc = [p \in Procs |->
                 IF p \in Dispatchers THEN [Idle EXCEPT !.pc = "queued"] ELSE Idle]
    /\ loop = NoOne
    /\ batch = [c \in Reconcilers |-> {}]
    /\ attempts = [r \in Runs |-> 0]
    /\ holder = [r \in Runs |-> 0]
    /\ crashes = 0
    /\ issued = [r \in Runs |-> 0]
    /\ delivered = [r \in Runs |-> 0]

-----------------------------------------------------------------------------
Created     == {r \in Runs : run[r].status # "none"}
ActiveRuns  == {r \in Created : run[r].status \notin TerminalRun}
IsLatest(r) == r \in Created /\ \A s \in Created : s <= r
Snap(r)     == [terminal |-> run[r].status \in TerminalRun,
                cancelReq |-> run[r].cancelReq,
                wfId |-> run[r].wfId, wfAttempt |-> run[r].wfAttempt]

\* What _authenticate_run accepts.  Expiry is left out: the executor may stop
\* using its token at any moment, so an expired one adds no behaviour.
TokenUsable(r) ==
    run[r].hashed /\ ~run[r].revoked /\ run[r].status \in TokenActive

At(p, l)   == proc[p].pc = l
Goto(p, l) == proc' = [proc EXCEPT ![p].pc = l]
Finish(p)  == proc' = [proc EXCEPT ![p] = Idle]
Done(d)    == proc' = [proc EXCEPT ![d] = [Idle EXCEPT !.pc = "done"]]
Begin(p, l, r, s, a) ==
    proc' = [proc EXCEPT ![p] = [Idle EXCEPT !.pc = l, !.run = r,
                                             !.snap = s, !.attempt = a]]
\* The end of a handler, which gives the event loop back if it holds it.
End(p) == Finish(p) /\ loop' = IF loop = p THEN NoOne ELSE loop

SetJob(s)       == job' = [job EXCEPT !.status = s]
SetStatus(r, s) == run' = [run EXCEPT ![r].status = s]
Revoke(r)       == run' = [run EXCEPT ![r].revoked = TRUE]
RequestCancellation(r) == run' = [run EXCEPT ![r].cancelReq = TRUE]

\* Enter the tail every failure path shares, with the status it writes.
FailWith(p, s) ==
    proc' = [proc EXCEPT ![p] = [Idle EXCEPT !.pc = "fl_run", !.run = proc[p].run,
                                             !.to = s]]

-----------------------------------------------------------------------------
(***************************************************************************)
(* The run_job task: preflight, run creation, workflow dispatch.           *)
(***************************************************************************)
RunJobStart(d) ==
    /\ At(d, "queued")
    /\ IF job.status \in TerminalJob THEN Done(d) ELSE Goto(d, "rj_preflight")
    /\ UNCHANGED <<job, run, loop, rest>>

\* Configuration, installation, base commit, executor head: the job fails, is
\* blocked, or gets a run.
RunJobPreflight(d) ==
    /\ At(d, "rj_preflight")
    /\ \E l \in {"rj_jobfail", "rj_block", "rj_create"} : Goto(d, l)
    /\ UNCHANGED <<job, run, loop, rest>>

CreateRun(d, next) ==
    \E r \in Runs \ Created :
        /\ \A s \in Runs : s < r => s \in Created
        /\ run' = [run EXCEPT ![r] = [NoRow EXCEPT !.status = "pending"]]
        /\ Begin(d, next, r, NoSnap, 0)

\* A faulty variant: the run the task created before it was redelivered is
\* blocked in place of a new one.
RunJobBlock_Reuses(d) ==
    /\ At(d, "rj_block")
    /\ \/ Created = {} /\ CreateRun(d, "rj_blockset")
       \/ \E r \in Runs : IsLatest(r) /\ Begin(d, "rj_blockset", r, NoSnap, 0) /\ UNCHANGED run
    /\ UNCHANGED <<job, loop, rest>>

RunJobBlock(d) ==
    /\ At(d, "rj_block")
    /\ CreateRun(d, "rj_blockset")
    /\ UNCHANGED <<job, loop, rest>>

RunJobBlockRun(d) ==
    /\ At(d, "rj_blockset")
    /\ SetStatus(proc[d].run, "blocked")
    /\ Goto(d, "rj_jobblock")
    /\ UNCHANGED <<job, loop, rest>>

RunJobBlockJob(d) ==
    /\ At(d, "rj_jobblock")
    /\ SetJob("blocked")
    /\ Done(d)
    /\ UNCHANGED <<run, loop, rest>>

RunJobCreate(d) ==
    /\ At(d, "rj_create")
    /\ CreateRun(d, "rj_post")
    /\ UNCHANGED <<job, loop, rest>>

\* POST workflow_dispatch: accepted, refused, or accepted with the answer lost.
RunJobPost(d) ==
    /\ At(d, "rj_post")
    /\ \/ Goto(d, "rj_dispfail") /\ UNCHANGED attempts
       \/ /\ \E l \in {"rj_find", "rj_dispfail"} : Goto(d, l)
          /\ attempts' = [attempts EXCEPT ![proc[d].run] = 1]
    /\ UNCHANGED <<job, run, loop, batch, holder, crashes, issued, delivered>>

\* A faulty variant: the run is failed and the job is forgotten.
RunJobDispatchFailed_RunOnly(d) ==
    /\ At(d, "rj_dispfail")
    /\ SetStatus(proc[d].run, "failed")
    /\ Done(d)
    /\ UNCHANGED <<job, loop, rest>>

RunJobDispatchFailed(d) ==
    /\ At(d, "rj_dispfail")
    /\ SetStatus(proc[d].run, "failed")
    /\ Goto(d, "rj_jobfail")
    /\ UNCHANGED <<job, loop, rest>>

\* find_run_by_name looks for the name of the JOB among recent workflow runs:
\* nothing yet, or any workflow dispatched for the job.
Findable == {f \in Runs : attempts[f] # 0}

RunJobFind(d) ==
    /\ At(d, "rj_find")
    /\ \/ Goto(d, "rj_mark")
       \/ \E f \in Findable :
            Begin(d, "rj_mark", proc[d].run,
                  [NoSnap EXCEPT !.wfId = f, !.wfAttempt = attempts[f]], 0)
    /\ UNCHANGED <<job, run, loop, rest>>

\* mark_dispatched writes what was found, whatever the row holds by now.
MarkDispatched(d) ==
    /\ At(d, "rj_mark")
    /\ run' = [run EXCEPT ![proc[d].run] =
                 [@ EXCEPT !.status = "dispatched", !.wfId = proc[d].snap.wfId,
                           !.wfAttempt = proc[d].snap.wfAttempt]]
    /\ Done(d)
    /\ UNCHANGED <<job, loop, rest>>

RunJobFail(d) ==
    /\ At(d, "rj_jobfail")
    /\ SetJob("failed")
    /\ Done(d)
    /\ UNCHANGED <<run, loop, rest>>

RunJob(d) ==
    \/ RunJobStart(d) \/ RunJobPreflight(d)
    \/ RunJobBlock(d) \/ RunJobBlockRun(d) \/ RunJobBlockJob(d)
    \/ RunJobCreate(d) \/ RunJobPost(d) \/ RunJobDispatchFailed(d)
    \/ RunJobFind(d) \/ MarkDispatched(d) \/ RunJobFail(d)

-----------------------------------------------------------------------------
(***************************************************************************)
(* POST oidc/exchange.  The machine of attempt a of run r's workflow       *)
(* presents r's nonce; the handler works on the job's latest run and       *)
(* answers 401 unless that is r and r was not terminal.                    *)
(***************************************************************************)
ExchangeStart(q, r, a) ==
    /\ "exchange" \in Endpoints
    /\ At(q, "idle") /\ loop = NoOne
    /\ a <= attempts[r]
    /\ IsLatest(r) /\ run[r].status \notin TerminalRun
    /\ Begin(q, "x_claims", r, Snap(r), a)
    /\ loop' = q
    /\ UNCHANGED <<job, run, rest>>

\* Do the workflow run and attempt a request names agree with those recorded,
\* if any were recorded when the row was read?
BindingAgrees(q) ==
    /\ proc[q].snap.wfId \in {0, proc[q].run}
    /\ proc[q].snap.wfAttempt \in {0, proc[q].attempt}

\* The identity token verifies and its claims agree, or the run is failed.
ExchangeClaims(q) ==
    /\ At(q, "x_claims")
    /\ FailWith(q, "failed") \/ (BindingAgrees(q) /\ Goto(q, "x_consume"))
    /\ UNCHANGED <<job, run, loop, rest>>

\* A faulty variant: consume_nonce checks the status and not the nonce.
ConsumeNonce_StatusOnly(q) ==
    /\ At(q, "x_consume")
    /\ LET r == proc[q].run IN
       IF run[r].status \in {"pending", "dispatched"}
       THEN /\ run' = [run EXCEPT ![r].nonceUsed = TRUE]
            /\ Goto(q, IF proc[q].snap.wfId = 0 THEN "x_setwf" ELSE "x_bind")
            /\ UNCHANGED loop
       ELSE End(q) /\ UNCHANGED run
    /\ UNCHANGED <<job, rest>>

ConsumeNonce(q) ==
    /\ At(q, "x_consume")
    /\ LET r == proc[q].run IN
       IF ~run[r].nonceUsed /\ run[r].status \in {"pending", "dispatched"}
       THEN /\ run' = [run EXCEPT ![r].nonceUsed = TRUE]
            /\ Goto(q, IF proc[q].snap.wfId = 0 THEN "x_setwf" ELSE "x_bind")
            /\ UNCHANGED loop
       ELSE End(q) /\ UNCHANGED run
    /\ UNCHANGED <<job, rest>>

SetWorkflowRun(q) ==
    /\ At(q, "x_setwf")
    /\ run' = [run EXCEPT ![proc[q].run] =
                 [@ EXCEPT !.wfId = proc[q].run, !.wfAttempt = proc[q].attempt]]
    /\ Goto(q, "x_bind")
    /\ UNCHANGED <<job, loop, rest>>

BindToken(q) ==
    /\ At(q, "x_bind")
    /\ LET r == proc[q].run IN
       /\ run' = [run EXCEPT ![r] = [@ EXCEPT !.hashed = TRUE, !.revoked = FALSE,
                                              !.status = "authenticated"]]
       /\ issued' = [issued EXCEPT ![r] = @ + 1]
       /\ holder' = [holder EXCEPT ![r] = proc[q].attempt]
    /\ End(q)
    /\ UNCHANGED <<job, batch, attempts, crashes, delivered>>

Exchange(q) ==
    ExchangeClaims(q) \/ ConsumeNonce(q) \/ SetWorkflowRun(q) \/ BindToken(q)

-----------------------------------------------------------------------------
(***************************************************************************)
(* The token-authenticated requests.  Each reads the row by token hash and *)
(* checks it; what follows uses that snapshot.  The two callbacks run on   *)
(* the event loop, which the wait for their body gives up.                 *)
(***************************************************************************)
Authenticate(q, r) ==
    /\ At(q, "idle") /\ TokenUsable(r)
    /\ \E e \in Endpoints :
         \/ e = "spec" /\ Begin(q, "sp_start", r, NoSnap, 0)
         \/ e = "source" /\ Begin(q, "so_claim", r, NoSnap, 0)
         \/ e = "failed" /\ loop = NoOne /\ Begin(q, "fa_body", r, Snap(r), holder[r])
         \/ e = "complete" /\ loop = NoOne /\ Begin(q, "co_body", r, Snap(r), holder[r])
    /\ UNCHANGED <<job, run, loop, rest>>

MarkStarted(q) ==
    /\ At(q, "sp_start")
    /\ SetStatus(proc[q].run, "running")
    /\ Finish(q)
    /\ UNCHANGED <<job, loop, rest>>

\* The archive was opened; the download is claimed unless somebody did before.
ClaimSource(q) ==
    /\ At(q, "so_claim")
    /\ LET r == proc[q].run IN
       IF run[r].sourced
       THEN Finish(q) /\ UNCHANGED <<run, delivered>>
       ELSE /\ run' = [run EXCEPT ![r].sourced = TRUE]
            /\ delivered' = [delivered EXCEPT ![r] = @ + 1]
            /\ Goto(q, "so_stream")
    /\ UNCHANGED <<job, loop, batch, attempts, holder, crashes, issued>>

\* The stream ends, or breaks and fails the run.
StreamSource(q) ==
    /\ At(q, "so_stream")
    /\ Finish(q) \/ FailWith(q, "failed")
    /\ UNCHANGED <<job, run, loop, rest>>

\* POST failed, once its body has arrived.
FailedBody(q) ==
    /\ At(q, "fa_body") /\ loop = NoOne
    /\ \/ Finish(q) /\ UNCHANGED loop
       \/ BindingAgrees(q) /\ FailWith(q, "failed") /\ loop' = q
    /\ UNCHANGED <<job, run, rest>>

\* POST complete, once its body has arrived.  Outputs that do not parse refuse
\* the request; a wrong base commit or an unsafe patch also fails the run.
CompleteBody(q) ==
    /\ At(q, "co_body") /\ loop = NoOne
    /\ \/ Finish(q) /\ UNCHANGED loop
       \/ /\ BindingAgrees(q) /\ loop' = q
          /\ \/ FailWith(q, "failed")
             \/ \E p \in Patches :
                  proc' = [proc EXCEPT ![q] =
                    [Idle EXCEPT !.pc = "co_fresh", !.run = proc[q].run, !.patch = p]]
    /\ UNCHANGED <<job, run, rest>>

\* A faulty variant: the row read at authentication is trusted.
CompleteFresh_Stale(q) ==
    /\ At(q, "co_fresh")
    /\ Goto(q, "co_validating")
    /\ UNCHANGED <<job, run, loop, rest>>

\* The row is read again: a recorded patch ends the request, as a duplicate or
\* with 409.
CompleteFresh(q) ==
    /\ At(q, "co_fresh")
    /\ IF run[proc[q].run].patch = NoPatch
       THEN Goto(q, "co_validating") /\ UNCHANGED loop
       ELSE End(q)
    /\ UNCHANGED <<job, run, rest>>

CompleteValidating(q) ==
    /\ At(q, "co_validating")
    /\ SetStatus(proc[q].run, "validating")
    /\ Goto(q, "co_apply")
    /\ UNCHANGED <<job, loop, rest>>

\* The patch applies to a clean checkout, does not, or the checkout cannot be
\* made and the exception leaves the row as it is.
CompleteApply(q) ==
    /\ At(q, "co_apply")
    /\ \/ (Goto(q, "co_patch") \/ FailWith(q, "failed")) /\ UNCHANGED loop
       \/ End(q)
    /\ UNCHANGED <<job, run, rest>>

SetPatchResult(q) ==
    /\ At(q, "co_patch")
    /\ run' = [run EXCEPT ![proc[q].run].patch = proc[q].patch]
    /\ Goto(q, "co_done")
    /\ UNCHANGED <<job, loop, rest>>

CompleteStatus(q) ==
    /\ At(q, "co_done")
    /\ SetStatus(proc[q].run, "completed")
    /\ Goto(q, "co_revoke")
    /\ UNCHANGED <<job, loop, rest>>

\* A faulty variant: the diff is not stored before the job is gated.
CompleteRevoke_NoDiff(q) ==
    /\ At(q, "co_revoke")
    /\ Revoke(proc[q].run)
    /\ Goto(q, "co_job")
    /\ UNCHANGED <<job, loop, rest>>

CompleteRevoke(q) ==
    /\ At(q, "co_revoke")
    /\ Revoke(proc[q].run)
    /\ Goto(q, "co_diff")
    /\ UNCHANGED <<job, loop, rest>>

SaveDiff(q) ==
    /\ At(q, "co_diff")
    /\ job' = [job EXCEPT !.diff = proc[q].patch]
    /\ Goto(q, "co_job")
    /\ UNCHANGED <<run, loop, rest>>

CompleteReadJob(q) ==
    /\ At(q, "co_job")
    /\ IF job.status \in TerminalJob
       THEN End(q) ELSE Goto(q, "co_gate") /\ UNCHANGED loop
    /\ UNCHANGED <<job, run, rest>>

GateJob(q) ==
    /\ At(q, "co_gate")
    /\ SetJob("awaiting_approval")
    /\ End(q)
    /\ UNCHANGED <<run, rest>>

Callback(q) ==
    \/ MarkStarted(q) \/ ClaimSource(q) \/ StreamSource(q) \/ FailedBody(q)
    \/ CompleteBody(q) \/ CompleteFresh(q) \/ CompleteValidating(q)
    \/ CompleteApply(q) \/ SetPatchResult(q) \/ CompleteStatus(q)
    \/ CompleteRevoke(q) \/ SaveDiff(q) \/ CompleteReadJob(q) \/ GateJob(q)

-----------------------------------------------------------------------------
(***************************************************************************)
(* The failure tail of the exchange, the callbacks, the source stream and  *)
(* the reconciler: set the run's status, revoke its token, read the job,   *)
(* and settle it unless it was terminal when read.                         *)
(***************************************************************************)
FailRun(p) ==
    /\ At(p, "fl_run")
    /\ SetStatus(proc[p].run, proc[p].to)
    /\ Goto(p, "fl_revoke")
    /\ UNCHANGED <<job, loop, rest>>

FailRevoke(p) ==
    /\ At(p, "fl_revoke")
    /\ Revoke(proc[p].run)
    /\ Goto(p, "fl_job")
    /\ UNCHANGED <<job, loop, rest>>

FailReadJob(p) ==
    /\ At(p, "fl_job")
    /\ IF job.status \in TerminalJob
       THEN End(p) ELSE Goto(p, "fl_write") /\ UNCHANGED loop
    /\ UNCHANGED <<job, run, rest>>

FailJob(p) ==
    /\ At(p, "fl_write")
    /\ SetJob(proc[p].to)
    /\ End(p)
    /\ UNCHANGED <<run, rest>>

Fail(p) == FailRun(p) \/ FailRevoke(p) \/ FailReadJob(p) \/ FailJob(p)

-----------------------------------------------------------------------------
(***************************************************************************)
(* POST /jobs/{id}/cancel (thread pool), and the task it enqueues.         *)
(***************************************************************************)
CancelStart(u) ==
    /\ At(u, "idle")
    /\ job.status \notin TerminalJob
    /\ Goto(u, "ca_run")
    /\ UNCHANGED <<job, run, loop, rest>>

CancelReadRun(u) ==
    /\ At(u, "ca_run")
    /\ \/ Created = {} /\ Goto(u, "ca_job")
       \/ \E r \in Runs : IsLatest(r) /\ Begin(u, "ca_req", r, NoSnap, 0)
    /\ UNCHANGED <<job, run, loop, rest>>

CancelRequest(u) ==
    /\ At(u, "ca_req")
    /\ RequestCancellation(proc[u].run)
    /\ Goto(u, "ca_revoke")
    /\ UNCHANGED <<job, loop, rest>>

CancelRevoke(u) ==
    /\ At(u, "ca_revoke")
    /\ Revoke(proc[u].run)
    /\ Goto(u, "ca_enqueue")
    /\ UNCHANGED <<job, loop, rest>>

\* The task is enqueued, or the queue is down and the failure is ignored.
CancelEnqueue(u) ==
    /\ At(u, "ca_enqueue")
    /\ \/ Goto(u, "ca_job")
       \/ \E t \in CancelTasks :
            /\ At(t, "idle")
            /\ proc' = [proc EXCEPT ![u].pc = "ca_job", ![t].pc = "queued"]
    /\ UNCHANGED <<job, run, loop, rest>>

\* A faulty variant: a status that is none of the enumeration's.
CancelJob_Unknown(u) ==
    /\ At(u, "ca_job")
    /\ SetJob("canceled")
    /\ Finish(u)
    /\ UNCHANGED <<run, loop, rest>>

CancelJob(u) ==
    /\ At(u, "ca_job")
    /\ SetJob("cancelled")
    /\ Finish(u)
    /\ UNCHANGED <<run, loop, rest>>

Cancel(u) ==
    \/ CancelReadRun(u) \/ CancelRequest(u) \/ CancelRevoke(u)
    \/ CancelEnqueue(u) \/ CancelJob(u)

TaskReadRun(t) ==
    /\ At(t, "queued")
    /\ \E r \in Runs : IsLatest(r) /\ Begin(t, "ct_req", r, Snap(r), 0)
    /\ UNCHANGED <<job, run, loop, rest>>

TaskRequest(t) ==
    /\ At(t, "ct_req")
    /\ RequestCancellation(proc[t].run)
    /\ Goto(t, "ct_revoke")
    /\ UNCHANGED <<job, loop, rest>>

\* A run that was terminal when read ends the task here.
TaskRevoke(t) ==
    /\ At(t, "ct_revoke")
    /\ Revoke(proc[t].run)
    /\ IF proc[t].snap.terminal THEN Finish(t) ELSE Goto(t, "ct_set")
    /\ UNCHANGED <<job, loop, rest>>

TaskCancelRun(t) ==
    /\ At(t, "ct_set")
    /\ SetStatus(proc[t].run, "cancelled")
    /\ Finish(t)
    /\ UNCHANGED <<job, loop, rest>>

CancelExecution(t) ==
    TaskReadRun(t) \/ TaskRequest(t) \/ TaskRevoke(t) \/ TaskCancelRun(t)

-----------------------------------------------------------------------------
(***************************************************************************)
(* The reconcile_executions task: it reads every active run, then looks at *)
(* them in order of creation, each with the snapshot read at the start.    *)
(***************************************************************************)
\* A faulty variant: runs that never got a token are not looked at.
ReconcileScan_TokensOnly(c) ==
    /\ At(c, "idle") /\ batch[c] = {}
    /\ LET found == {r \in ActiveRuns : run[r].status \in TokenActive} IN
       /\ found # {}
       /\ batch' = [batch EXCEPT ![c] = {[run |-> r, snap |-> Snap(r)] : r \in found}]
    /\ UNCHANGED <<job, run, proc, loop, attempts, holder, crashes, issued, delivered>>

ReconcileScan(c) ==
    /\ At(c, "idle") /\ batch[c] = {} /\ ActiveRuns # {}
    /\ batch' = [batch EXCEPT ![c] = {[run |-> r, snap |-> Snap(r)] : r \in ActiveRuns}]
    /\ UNCHANGED <<job, run, proc, loop, attempts, holder, crashes, issued, delivered>>

ReconcileTake(c) ==
    /\ At(c, "idle")
    /\ \E b \in batch[c] :
         /\ \A other \in batch[c] : b.run <= other.run
         /\ batch' = [batch EXCEPT ![c] = @ \ {b}]
         /\ Begin(c, IF b.snap.cancelReq THEN "rc_cset" ELSE "rc_look", b.run, b.snap, 0)
    /\ UNCHANGED <<job, run, loop, attempts, holder, crashes, issued, delivered>>

\* A requested cancellation is finalized on the run; the job is not touched.
ReconcileCancel(c) ==
    /\ At(c, "rc_cset")
    /\ SetStatus(proc[c].run, "cancelled")
    /\ Goto(c, "rc_crevoke")
    /\ UNCHANGED <<job, loop, rest>>

ReconcileCancelRevoke(c) ==
    /\ At(c, "rc_crevoke")
    /\ Revoke(proc[c].run)
    /\ Finish(c)
    /\ UNCHANGED <<job, loop, rest>>

\* A missing workflow id is looked up by name; when one is found it is
\* recorded and the row is read again.
ReconcileLook(c) ==
    /\ At(c, "rc_look")
    /\ \/ Goto(c, "rc_timeout") /\ UNCHANGED run
       \/ /\ proc[c].snap.wfId = 0
          /\ \E f \in Findable :
               run' = [run EXCEPT ![proc[c].run] =
                         [@ EXCEPT !.wfId = f, !.wfAttempt = attempts[f]]]
          /\ Goto(c, "rc_reread")
    /\ UNCHANGED <<job, loop, rest>>

ReconcileReread(c) ==
    /\ At(c, "rc_reread")
    /\ Begin(c, "rc_timeout", proc[c].run, Snap(proc[c].run), 0)
    /\ UNCHANGED <<job, run, loop, rest>>

\* The run is past its deadline, or GitHub is asked.  Age is not modelled: the
\* deadline may have passed at any look, and has passed eventually (Fairness).
ReconcileTimesOut(c) ==
    /\ At(c, "rc_timeout") /\ ~proc[c].snap.terminal
    /\ FailWith(c, "failed")
    /\ UNCHANGED <<job, run, loop, rest>>

ReconcileInTime(c) ==
    /\ At(c, "rc_timeout")
    /\ Goto(c, "rc_poll")
    /\ UNCHANGED <<job, run, loop, rest>>

\* GitHub is unreachable or the workflow still runs; or it has a newer attempt
\* or has ended, and the run is settled accordingly.
ReconcilePoll(c) ==
    /\ At(c, "rc_poll")
    /\ LET s == proc[c].snap IN
       \/ Finish(c)
       \/ /\ s.wfId # 0 /\ ~s.terminal
          /\ \/ FailWith(c, "failed")
             \/ s.wfAttempt \in {0, attempts[s.wfId]} /\ FailWith(c, "cancelled")
    /\ UNCHANGED <<job, run, loop, rest>>

Reconcile(c) ==
    \/ ReconcileTake(c) \/ ReconcileCancel(c) \/ ReconcileCancelRevoke(c)
    \/ ReconcileLook(c) \/ ReconcileReread(c)
    \/ ReconcileTimesOut(c) \/ ReconcileInTime(c) \/ ReconcilePoll(c)

-----------------------------------------------------------------------------
(***************************************************************************)
(* GitHub and crashes.                                                     *)
(***************************************************************************)
WorkflowRerun(r) ==
    /\ attempts[r] \in 1..(MaxAttempts - 1)
    /\ attempts' = [attempts EXCEPT ![r] = @ + 1]
    /\ UNCHANGED <<job, run, proc, loop, batch, holder, crashes, issued, delivered>>

\* The web process dies: every handler in it stops where it is.
CrashWeb ==
    /\ crashes < MaxCrashes /\ crashes' = crashes + 1
    /\ \E p \in Web : ~At(p, "idle")
    /\ proc' = [p \in Procs |-> IF p \in Web THEN Idle ELSE proc[p]]
    /\ loop' = NoOne
    /\ UNCHANGED <<job, run, batch, attempts, holder, issued, delivered>>

\* A worker dies: its task was not acknowledged (acks_late) and is delivered
\* again.  MaxRuns bounds the redeliveries that create runs.
CrashWorker(t) ==
    /\ crashes < MaxCrashes /\ crashes' = crashes + 1
    /\ ~(At(t, "idle") \/ At(t, "queued") \/ At(t, "done"))
    /\ t \in Dispatchers => Created # Runs
    /\ IF t \in Reconcilers
       THEN Finish(t) /\ batch' = [batch EXCEPT ![t] = {}]
       ELSE /\ proc' = [proc EXCEPT ![t] = [Idle EXCEPT !.pc = "queued"]]
            /\ UNCHANGED batch
    /\ UNCHANGED <<job, run, loop, attempts, holder, issued, delivered>>

-----------------------------------------------------------------------------
\* The steps an actor that has begun something takes on its own.
Step(p) ==
    \/ p \in Dispatchers /\ RunJob(p)
    \/ p \in Requests /\ (Exchange(p) \/ Callback(p))
    \/ p \in Users /\ Cancel(p)
    \/ p \in CancelTasks /\ CancelExecution(p)
    \/ p \in Reconcilers /\ Reconcile(p)
    \/ Fail(p)

Arrival ==
    \/ \E q \in Requests, r \in Runs :
         Authenticate(q, r) \/ \E a \in 1..MaxAttempts : ExchangeStart(q, r, a)
    \/ \E u \in Users : CancelStart(u)

Next ==
    \/ \E p \in Procs : Step(p)
    \/ Arrival
    \/ \E c \in Reconcilers : ReconcileScan(c)
    \/ \E r \in Runs : WorkflowRerun(r)
    \/ CrashWeb
    \/ \E t \in Tasks : CrashWorker(t)

\* Handlers and tasks that began run on, beat keeps a reconciler scanning, and
\* a run that is looked at again and again is one day past its deadline.
\* Nothing is assumed of the executor, the user or GitHub.
Fairness ==
    /\ \A p \in Procs : WF_vars(Step(p))
    /\ \A c \in Reconcilers : WF_vars(ReconcileScan(c))
    /\ \A c \in Reconcilers, r \in Runs :
         SF_vars(proc[c].run = r /\ ReconcileTimesOut(c))

Spec     == Init /\ [][Next]_vars
FairSpec == Spec /\ Fairness

-----------------------------------------------------------------------------
(***************************************************************************)
(* What the control plane guarantees.                                      *)
(***************************************************************************)

\* The single-use nonce yields one token: however many exchanges race, and
\* whatever the dispatching task, a cancellation or the reconciler write in
\* between, bind_token runs at most once for a run.
OneTokenPerRun == \A r \in Runs : issued[r] <= 1

\* A token that was issued and then revoked is never live again: a revocation
\* by any caller of revoke_token is final once bind_token has run.
NoTokenRevival ==
    [][\A r \in Runs : run[r].hashed /\ run[r].revoked => run'[r].revoked]_vars

\* The immutable source is streamed at most once for a run, however many
\* downloads are in flight (claim_source_download).
SourceDeliveredOnce == \A r \in Runs : delivered[r] <= 1

\* Once a completion is recorded no later one replaces its patch: handle_complete
\* re-reads the row before it validates, and holds the event loop until it wrote.
CompletionNotReplaced ==
    [][\A r \in Runs : run[r].patch # NoPatch => run'[r].patch = run[r].patch]_vars

\* A job waits for approval only with a stored diff that is the validated patch
\* of one of its runs, as approve and publish require.
GateHoldsValidatedPatch ==
    job.status = "awaiting_approval" =>
        \E r \in Runs : run[r].patch = job.diff /\ job.diff # NoPatch

\* A patch is recorded only for a run whose one token was issued.
PatchNeedsToken ==
    \A r \in Runs : run[r].patch # NoPatch => run[r].nonceUsed /\ issued[r] = 1

\* When everything has come to rest and no run is active, the job has been
\* settled too: it is terminal or waits for approval.  Failure tails end the run first,
\* so this holds only as long as no process dies.
AtRest ==
    /\ \A p \in Procs : At(p, "idle") \/ At(p, "done")
    /\ batch = [c \in Reconcilers |-> {}]
    /\ Created # {} /\ ActiveRuns = {}
RestingJobIsSettled ==
    AtRest /\ crashes = 0 => job.status \in TerminalJob \cup {"awaiting_approval"}

\* Every run ends: whatever callbacks and answers are lost, whatever stale
\* writes happen and processes crash, from some point on no run is active.
RunsSettle == <>[](ActiveRuns = {})

-----------------------------------------------------------------------------
(***************************************************************************)
(* What comments and docstrings say, and the interleavings above refute.   *)
(***************************************************************************)

\* executor/models.py:29, "no further automatic transition happens from these":
\* a stale callback or reconciler overwrites the terminal status of a run.
TerminalRunIsFinal ==
    [][\A r \in Runs : run[r].status \in TerminalRun =>
                          run'[r].status = run[r].status]_vars

\* orchestration/status.py:59, the same of a job: the dispatching task and the
\* gate write the status of a job that was cancelled after they read it.
TerminalJobIsFinal ==
    [][job.status \in TerminalJob => job'.status = job.status]_vars

\* service/api.py:1451, cancelling revokes the run token "so no further model
\* call or callback can succeed": an exchange past consume_nonce binds a token
\* after the revocation.
CancelledRunHasNoToken ==
    \A r \in Runs : job.status = "cancelled" /\ run[r].cancelReq => ~TokenUsable(r)

\* executor/models.py:18, the status of a run whose token is issued is past
\* dispatch: mark_dispatched takes it back and strands the token.
IssuedTokenIsNotStranded ==
    \A r \in Runs : run[r].hashed /\ ~run[r].revoked =>
                       run[r].status \notin {"pending", "dispatched"}
=============================================================================
