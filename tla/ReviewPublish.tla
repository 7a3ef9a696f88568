---------------------------- MODULE ReviewPublish ----------------------------
(***************************************************************************)
(* The human gate and what follows it: the approve and reject endpoints of *)
(* the dashboard (service/api.py) and of the public API (public_api.py),   *)
(* publish_run, and the publish_pr task (executor/publish.py).             *)
(*                                                                         *)
(* The model starts where RunControl ends, with a job that waits for       *)
(* approval and one completed run.  Meanwhile users cancel, and a          *)
(* redelivered run_job may have started further runs whose completion or   *)
(* failure arrives at any time.                                            *)
(*                                                                         *)
(* All endpoints here run in a thread pool and every store call is a       *)
(* transaction of its own: one action per store call or GitHub call.       *)
(* GitHub is external; its calls succeed, fail, or succeed with the answer *)
(* lost.                                                                   *)
(***************************************************************************)
EXTENDS Integers, FiniteSets

CONSTANTS
    MaxRuns,     \* bound: execution runs of the job
    MaxPRs,      \* bound: pull requests ever opened
    MaxCrashes,  \* bound: process crashes in a behaviour
    Patches,     \* contents of a validated patch
    Dashboard,   \* POST /jobs/{id}/approve requests in flight
    Api,         \* POST /v1/runs/{id}/approve requests in flight
    Rejecters,   \* reject requests in flight, of either kind
    Cancellers,  \* POST /jobs/{id}/cancel requests in flight
    Executors,   \* callbacks of further runs in flight
    Publishers,  \* deliveries of the publish_pr task
    NoPatch      \* nothing stored, bound or pushed

Approvers == Dashboard \cup Api
Web       == Approvers \cup Rejecters \cup Cancellers \cup Executors
Procs     == Web \cup Publishers
Runs      == 1..MaxRuns
Numbers   == 1..MaxPRs

ASSUME BoundsAssumption ==
    MaxRuns \in Nat \ {0} /\ MaxPRs \in Nat /\ MaxCrashes \in Nat
ASSUME NoPatchAssumption == NoPatch \notin Patches
ASSUME ActorsAssumption ==
    /\ Dashboard \cap Api = {} /\ Web \cap Publishers = {}
    /\ Approvers \cap (Rejecters \cup Cancellers \cup Executors) = {}

-----------------------------------------------------------------------------
Terminal == {"completed", "rejected", "failed", "cancelled"}
Status   == {"awaiting_approval", "approved", "publishing"} \cup Terminal
Content  == Patches \cup {NoPatch}

\* approval_binding, as far as it can drift: the run and its patch hash.
Binding   == [run: {0} \cup Runs, patch: Content, expired: BOOLEAN]
NoBinding == [run |-> 0, patch |-> NoPatch, expired |-> FALSE]

PullRequest == [state: {"none", "open", "closed"}, patch: Content]

PC == {"idle", "queued",
       "ap_run", "ap_diff", "ap_save", "ap_bind", "ap_status", "ap_enqueue",
       "rj_save", "rj_status", "cn_set",
       "ex_patch", "ex_diff", "ex_job", "ex_gate", "ex_fail",
       "pb_approval", "pb_run", "pb_diff", "pb_head", "pb_moved", "pb_start",
       "pb_push", "pb_meta", "pb_find", "pb_open", "pb_save", "pb_done",
       "pb_undo", "pb_fail"}

\* run, patch: what the actor read or reports; bound: the binding a publisher
\* read; pr: the pull request it works with.
Proc == [pc: PC, run: {0} \cup Runs, patch: Content, bound: Binding,
         pr: {0} \cup Numbers]
Idle == [pc |-> "idle", run |-> 0, patch |-> NoPatch, bound |-> NoBinding,
         pr |-> 0]

VARIABLES
    job,       \* the job row: status, stored diff, binding, PR metadata
    runs,      \* how many execution runs exist
    patchOf,   \* the patch recorded for each run
    decision,  \* the job's row of job_approvals
    proc,      \* what each actor is doing
    moved,     \* GitHub: the base branch left the approved commit
    branch,    \* GitHub: content of the job's branch
    prs,       \* GitHub: the pull requests opened for the branch
    crashes,   \* crashes so far
    reviewed   \* history: patches an approver found to be the stored diff

github == <<moved, branch, prs>>
vars   == <<job, runs, patchOf, decision, proc, github, crashes, reviewed>>

TypeOK ==
    /\ job \in [status: Status, diff: Content, bound: Binding,
                meta: {0} \cup Numbers]
    /\ runs \in Runs
    /\ patchOf \in [Runs -> Content]
    /\ decision \in {"none", "approved", "rejected"}
    /\ proc \in [Procs -> Proc]
    /\ moved \in BOOLEAN
    /\ branch \in Content
    /\ prs \in [Numbers -> PullRequest]
    /\ crashes \in 0..MaxCrashes
    /\ reviewed \subseteq Patches

Init ==
    /\ \E p \in Patches :
         /\ job = [status |-> "awaiting_approval", diff |-> p,
                   bound |-> NoBinding, meta |-> 0]
         /\ patchOf = [r \in Runs |-> IF r = 1 THEN p ELSE NoPatch]
    /\ runs = 1
    /\ decision = "none"
    /\ proc = [p \in Procs |-> Idle]
    /\ moved = FALSE
    /\ branch = NoPatch
    /\ prs = [n \in Numbers |-> [state |-> "none", patch |-> NoPatch]]
    /\ crashes = 0
    /\ reviewed = {}

-----------------------------------------------------------------------------
At(p, l)     == proc[p].pc = l
Goto(p, l)   == proc' = [proc EXCEPT ![p].pc = l]
Finish(p)    == proc' = [proc EXCEPT ![p] = Idle]
SetStatus(s) == job' = [job EXCEPT !.status = s]

\* publish_pr.delay: the task is enqueued, or the queue is down.
Enqueue(p) ==
    \/ Finish(p)
    \/ \E t \in Publishers :
         /\ At(t, "idle")
         /\ proc' = [proc EXCEPT ![p] = Idle, ![t].pc = "queued"]

-----------------------------------------------------------------------------
(***************************************************************************)
(* Approval, on either route.                                              *)
(***************************************************************************)
ApproveStart(a) ==
    /\ At(a, "idle") /\ job.status = "awaiting_approval"
    /\ Goto(a, "ap_run")
    /\ UNCHANGED <<job, runs, patchOf, decision, github, crashes, reviewed>>

\* The latest run must have a validated patch.
ApproveReadRun(a) ==
    /\ At(a, "ap_run")
    /\ IF patchOf[runs] = NoPatch THEN Finish(a)
       ELSE proc' = [proc EXCEPT ![a] = [Idle EXCEPT !.pc = "ap_diff", !.run = runs,
                                                     !.patch = patchOf[runs]]]
    /\ UNCHANGED <<job, runs, patchOf, decision, github, crashes, reviewed>>

\* The stored diff, which the reviewer was shown, must be that patch.
ApproveReadDiff(a) ==
    /\ At(a, "ap_diff")
    /\ IF job.diff = proc[a].patch
       THEN Goto(a, "ap_save") /\ reviewed' = reviewed \cup {proc[a].patch}
       ELSE Finish(a) /\ UNCHANGED reviewed
    /\ UNCHANGED <<job, runs, patchOf, decision, github, crashes>>

\* save_approval: the first decision wins.
Record(d) == decision' = IF decision = "none" THEN d ELSE decision

\* A faulty variant: the public API goes on whatever decision won.
ApproveSave_Unchecked(a) ==
    /\ At(a, "ap_save")
    /\ Record("approved")
    /\ Goto(a, "ap_bind")
    /\ UNCHANGED <<job, runs, patchOf, github, crashes, reviewed>>

\* Only the public API looks at which decision won.
ApproveSave(a) ==
    /\ At(a, "ap_save")
    /\ Record("approved")
    /\ IF a \in Api /\ decision = "rejected" THEN Finish(a) ELSE Goto(a, "ap_bind")
    /\ UNCHANGED <<job, runs, patchOf, github, crashes, reviewed>>

ApproveBind(a) ==
    /\ At(a, "ap_bind")
    /\ job' = [job EXCEPT !.bound = [run |-> proc[a].run, patch |-> proc[a].patch,
                                     expired |-> FALSE]]
    /\ Goto(a, "ap_status")
    /\ UNCHANGED <<runs, patchOf, decision, github, crashes, reviewed>>

\* The dashboard goes on to enqueue the publishing.
ApproveStatus(a) ==
    /\ At(a, "ap_status")
    /\ SetStatus("approved")
    /\ IF a \in Dashboard THEN Goto(a, "ap_enqueue") ELSE Finish(a)
    /\ UNCHANGED <<runs, patchOf, decision, github, crashes, reviewed>>

ApproveEnqueue(a) ==
    /\ At(a, "ap_enqueue")
    /\ Enqueue(a)
    /\ UNCHANGED <<job, runs, patchOf, decision, github, crashes, reviewed>>

Approve(a) ==
    \/ ApproveReadRun(a) \/ ApproveReadDiff(a) \/ ApproveSave(a)
    \/ ApproveBind(a) \/ ApproveStatus(a) \/ ApproveEnqueue(a)

\* POST /v1/runs/{id}/publish of an approved run.
PublishRun ==
    /\ job.status = "approved"
    /\ \E t \in Publishers : At(t, "idle") /\ Goto(t, "queued")
    /\ UNCHANGED <<job, runs, patchOf, decision, github, crashes, reviewed>>

-----------------------------------------------------------------------------
(***************************************************************************)
(* Rejection, cancellation, and the callbacks of further runs.             *)
(***************************************************************************)
RejectStart(x) ==
    /\ At(x, "idle") /\ job.status = "awaiting_approval"
    /\ Goto(x, "rj_save")
    /\ UNCHANGED <<job, runs, patchOf, decision, github, crashes, reviewed>>

RejectSave(x) ==
    /\ At(x, "rj_save")
    /\ Record("rejected")
    /\ Goto(x, "rj_status")
    /\ UNCHANGED <<job, runs, patchOf, github, crashes, reviewed>>

\* The loser of the race restores the winner's status.
RejectStatus(x) ==
    /\ At(x, "rj_status")
    /\ SetStatus(IF decision = "rejected" THEN "rejected" ELSE "approved")
    /\ Finish(x)
    /\ UNCHANGED <<runs, patchOf, decision, github, crashes, reviewed>>

CancelStart(u) ==
    /\ At(u, "idle") /\ job.status \notin Terminal
    /\ Goto(u, "cn_set")
    /\ UNCHANGED <<job, runs, patchOf, decision, github, crashes, reviewed>>

\* A faulty variant: a status the state machine does not have.
CancelSet_Unknown(u) ==
    /\ At(u, "cn_set")
    /\ SetStatus("canceled")
    /\ Finish(u)
    /\ UNCHANGED <<runs, patchOf, decision, github, crashes, reviewed>>

CancelSet(u) ==
    /\ At(u, "cn_set")
    /\ SetStatus("cancelled")
    /\ Finish(u)
    /\ UNCHANGED <<runs, patchOf, decision, github, crashes, reviewed>>

\* A redelivered run_job creates a run while the job is not terminal; its
\* executor will complete or fail it.
NewRun(e) ==
    /\ At(e, "idle") /\ job.status \notin Terminal
    /\ runs < MaxRuns /\ runs' = runs + 1
    /\ \/ Goto(e, "ex_job")
       \/ \E p \in Patches :
            proc' = [proc EXCEPT ![e] = [Idle EXCEPT !.pc = "ex_patch",
                                                     !.run = runs + 1, !.patch = p]]
    /\ UNCHANGED <<job, patchOf, decision, github, crashes, reviewed>>

CompletePatch(e) ==
    /\ At(e, "ex_patch")
    /\ patchOf' = [patchOf EXCEPT ![proc[e].run] = proc[e].patch]
    /\ Goto(e, "ex_diff")
    /\ UNCHANGED <<job, runs, decision, github, crashes, reviewed>>

CompleteDiff(e) ==
    /\ At(e, "ex_diff")
    /\ job' = [job EXCEPT !.diff = proc[e].patch]
    /\ Goto(e, "ex_job")
    /\ UNCHANGED <<runs, patchOf, decision, github, crashes, reviewed>>

\* Both tails settle the job unless it was terminal when read.
CallbackReadJob(e) ==
    /\ At(e, "ex_job")
    /\ IF job.status \in Terminal THEN Finish(e)
       ELSE Goto(e, IF proc[e].patch = NoPatch THEN "ex_fail" ELSE "ex_gate")
    /\ UNCHANGED <<job, runs, patchOf, decision, github, crashes, reviewed>>

CompleteGate(e) ==
    /\ At(e, "ex_gate")
    /\ SetStatus("awaiting_approval")
    /\ Finish(e)
    /\ UNCHANGED <<runs, patchOf, decision, github, crashes, reviewed>>

CallbackFail(e) ==
    /\ At(e, "ex_fail")
    /\ SetStatus("failed")
    /\ Finish(e)
    /\ UNCHANGED <<runs, patchOf, decision, github, crashes, reviewed>>

Other(p) ==
    \/ RejectSave(p) \/ RejectStatus(p) \/ CancelSet(p)
    \/ CompletePatch(p) \/ CompleteDiff(p) \/ CallbackReadJob(p)
    \/ CompleteGate(p) \/ CallbackFail(p)

-----------------------------------------------------------------------------
(***************************************************************************)
(* The publish_pr task.  An exception before PublishStart ends the task    *)
(* and leaves the job as it is.                                            *)
(***************************************************************************)
PublishRead(t) ==
    /\ At(t, "queued")
    /\ proc' = [proc EXCEPT ![t] = [Idle EXCEPT !.pc = "pb_approval",
                                                !.bound = job.bound]]
    /\ UNCHANGED <<job, runs, patchOf, decision, github, crashes, reviewed>>

PublishApproval(t) ==
    /\ At(t, "pb_approval")
    /\ IF decision = "approved" THEN Goto(t, "pb_run") ELSE Finish(t)
    /\ UNCHANGED <<job, runs, patchOf, decision, github, crashes, reviewed>>

PublishReadRun(t) ==
    /\ At(t, "pb_run")
    /\ IF patchOf[runs] = NoPatch THEN Finish(t)
       ELSE proc' = [proc EXCEPT ![t].pc = "pb_diff", ![t].run = runs]
    /\ UNCHANGED <<job, runs, patchOf, decision, github, crashes, reviewed>>

\* A faulty variant: the stored diff must be the latest run's patch, whatever the
\* approval was bound to.
PublishVerify_Unbound(t) ==
    /\ At(t, "pb_diff")
    /\ IF ~proc[t].bound.expired /\ job.diff = patchOf[proc[t].run]
       THEN proc' = [proc EXCEPT ![t].pc = "pb_head", ![t].patch = job.diff]
       ELSE Finish(t)
    /\ UNCHANGED <<job, runs, patchOf, decision, github, crashes, reviewed>>

\* verify_binding: the approval has not expired, is bound to the latest run and
\* its patch, and the stored diff is that patch.
PublishVerify(t) ==
    /\ At(t, "pb_diff")
    /\ LET b == proc[t].bound IN
       IF /\ ~b.expired /\ b.run = proc[t].run
          /\ b.patch = patchOf[proc[t].run] /\ job.diff = b.patch
       THEN proc' = [proc EXCEPT ![t].pc = "pb_head", ![t].patch = job.diff]
       ELSE Finish(t)
    /\ UNCHANGED <<job, runs, patchOf, decision, github, crashes, reviewed>>

\* Installation, token and head of the base branch: unreachable, moved, or as
\* approved.
PublishHead(t) ==
    /\ At(t, "pb_head")
    /\ \/ Finish(t)
       \/ Goto(t, IF moved THEN "pb_moved" ELSE "pb_start")
    /\ UNCHANGED <<job, runs, patchOf, decision, github, crashes, reviewed>>

PublishMoved(t) ==
    /\ At(t, "pb_moved")
    /\ SetStatus("failed")
    /\ Finish(t)
    /\ UNCHANGED <<runs, patchOf, decision, github, crashes, reviewed>>

PublishStart(t) ==
    /\ At(t, "pb_start")
    /\ SetStatus("publishing")
    /\ Goto(t, "pb_push")
    /\ UNCHANGED <<runs, patchOf, decision, github, crashes, reviewed>>

\* The commit is built and pushed.  A branch that is there already takes only
\* the very same commit, which needs the same content and the same second.
PublishPush(t) ==
    /\ At(t, "pb_push")
    /\ \/ Goto(t, "pb_fail") /\ UNCHANGED branch
       \/ /\ branch \in {NoPatch, proc[t].patch}
          /\ branch' = proc[t].patch
          /\ Goto(t, "pb_meta") \/ Goto(t, "pb_fail")
    /\ UNCHANGED <<job, runs, patchOf, decision, moved, prs, crashes, reviewed>>

PublishReadMeta(t) ==
    /\ At(t, "pb_meta")
    /\ IF job.meta # 0
       THEN proc' = [proc EXCEPT ![t].pc = "pb_save", ![t].pr = job.meta]
       ELSE Goto(t, "pb_find")
    /\ UNCHANGED <<job, runs, patchOf, decision, github, crashes, reviewed>>

Open == {n \in Numbers : prs[n].state = "open"}

PublishFind(t) ==
    /\ At(t, "pb_find")
    /\ \/ Goto(t, "pb_undo")
       \/ Open = {} /\ Goto(t, "pb_open")
       \/ \E n \in Open : proc' = [proc EXCEPT ![t].pc = "pb_save", ![t].pr = n]
    /\ UNCHANGED <<job, runs, patchOf, decision, github, crashes, reviewed>>

\* GitHub refuses a second pull request for a branch, and one for no branch.
PublishOpen(t) ==
    /\ At(t, "pb_open")
    /\ \/ Goto(t, "pb_undo") /\ UNCHANGED prs
       \/ /\ branch # NoPatch /\ Open = {}
          /\ \E n \in Numbers :
               /\ prs[n].state = "none" /\ \A k \in 1..(n - 1) : prs[k].state # "none"
               /\ prs' = [prs EXCEPT ![n] = [state |-> "open", patch |-> branch]]
               /\ \/ proc' = [proc EXCEPT ![t].pc = "pb_save", ![t].pr = n]
                  \/ Goto(t, "pb_undo")
    /\ UNCHANGED <<job, runs, patchOf, decision, moved, branch, crashes, reviewed>>

PublishSave(t) ==
    /\ At(t, "pb_save")
    /\ job' = [job EXCEPT !.meta = proc[t].pr]
    /\ Goto(t, "pb_done")
    /\ UNCHANGED <<runs, patchOf, decision, github, crashes, reviewed>>

PublishDone(t) ==
    /\ At(t, "pb_done")
    /\ SetStatus("completed")
    /\ Finish(t)
    /\ UNCHANGED <<runs, patchOf, decision, github, crashes, reviewed>>

\* What was pushed is taken back, unless that fails too; GitHub closes the pull
\* requests of a deleted branch.
PublishUndo(t) ==
    /\ At(t, "pb_undo")
    /\ Goto(t, "pb_fail")
    /\ \/ UNCHANGED <<branch, prs>>
       \/ /\ branch' = NoPatch
          /\ prs' = [n \in Numbers |->
                       IF n \in Open THEN [prs[n] EXCEPT !.state = "closed"] ELSE prs[n]]
    /\ UNCHANGED <<job, runs, patchOf, decision, moved, crashes, reviewed>>

\* A faulty variant: the exception is raised and the job is left as it is.
PublishFail_Raise(t) ==
    /\ At(t, "pb_fail")
    /\ Finish(t)
    /\ UNCHANGED <<job, runs, patchOf, decision, github, crashes, reviewed>>

PublishFail(t) ==
    /\ At(t, "pb_fail")
    /\ SetStatus("failed")
    /\ Finish(t)
    /\ UNCHANGED <<runs, patchOf, decision, github, crashes, reviewed>>

Publish(t) ==
    \/ PublishRead(t) \/ PublishApproval(t) \/ PublishReadRun(t)
    \/ PublishVerify(t) \/ PublishHead(t) \/ PublishMoved(t) \/ PublishStart(t)
    \/ PublishPush(t) \/ PublishReadMeta(t) \/ PublishFind(t) \/ PublishOpen(t)
    \/ PublishSave(t) \/ PublishDone(t) \/ PublishUndo(t) \/ PublishFail(t)

-----------------------------------------------------------------------------
(***************************************************************************)
(* Time, GitHub and crashes.                                               *)
(***************************************************************************)
ApprovalExpires ==
    /\ job.bound.run # 0
    /\ job' = [job EXCEPT !.bound.expired = TRUE]
    /\ UNCHANGED <<runs, patchOf, decision, proc, github, crashes, reviewed>>

BaseMoves ==
    /\ moved' = TRUE
    /\ UNCHANGED <<job, runs, patchOf, decision, proc, branch, prs, crashes, reviewed>>

CrashWeb ==
    /\ crashes < MaxCrashes /\ crashes' = crashes + 1
    /\ \E p \in Web : ~At(p, "idle")
    /\ proc' = [p \in Procs |-> IF p \in Web THEN Idle ELSE proc[p]]
    /\ UNCHANGED <<job, runs, patchOf, decision, github, reviewed>>

\* The task was not acknowledged and is delivered again.
CrashWorker(t) ==
    /\ crashes < MaxCrashes /\ crashes' = crashes + 1
    /\ ~(At(t, "idle") \/ At(t, "queued"))
    /\ proc' = [proc EXCEPT ![t] = [Idle EXCEPT !.pc = "queued"]]
    /\ UNCHANGED <<job, runs, patchOf, decision, github, reviewed>>

-----------------------------------------------------------------------------
Next ==
    \/ \E a \in Approvers : ApproveStart(a) \/ Approve(a)
    \/ \E x \in Rejecters : RejectStart(x)
    \/ \E u \in Cancellers : CancelStart(u)
    \/ \E e \in Executors : NewRun(e)
    \/ \E p \in Web : Other(p)
    \/ PublishRun
    \/ \E t \in Publishers : Publish(t)
    \/ ApprovalExpires
    \/ BaseMoves
    \/ CrashWeb
    \/ \E t \in Publishers : CrashWorker(t)

\* A task a worker took runs to its end; of users, callbacks and GitHub nothing
\* is assumed.
Fairness == \A t \in Publishers : WF_vars(Publish(t))

Spec     == Init /\ [][Next]_vars
FairSpec == Spec /\ Fairness

-----------------------------------------------------------------------------
(***************************************************************************)
(* What the gate guarantees.                                               *)
(***************************************************************************)

\* Whatever reaches the customer's repository is a patch that an approver was
\* shown, after the job's one decision was to approve; a rejected job is never
\* published.  This is the abstract gate, with the branch for what is published.
Gate == INSTANCE ReviewGate WITH published <- branch
GateIsKept == Gate!Spec

\* A pull request shows a patch that an approver was shown, and there is none
\* for a rejected job, whatever was approved, stored or bound in the meantime.
PullRequestWasReviewed ==
    \A n \in Numbers : prs[n].state # "none" =>
                          prs[n].patch \in reviewed /\ decision = "approved"

\* The status of the job and its one recorded decision agree: it is rejected, or
\* approved and beyond, only if that is what was decided.
StatusFollowsDecision ==
    /\ job.status = "rejected" => decision = "rejected"
    /\ job.status \in {"approved", "publishing", "completed"} => decision = "approved"

\* Publishing ends: the task completes the job or fails it, whatever GitHub
\* answers, unless its process dies.
PublishingEnds == job.status = "publishing" ~> job.status # "publishing" \/ crashes > 0

-----------------------------------------------------------------------------
(***************************************************************************)
(* What the documents and a message of the code say, and the code does not *)
(* keep.                                                                   *)
(***************************************************************************)

\* docs/public_api.md:446, publishing is "the separate, idempotent" action: a
\* second publish of a job whose pull request is out does not fail the job.
PublishIsIdempotent ==
    [][job.status = "completed" => job.status' # "failed"]_vars

\* executor/approval.py:55, "approval has expired; re-approve required": an
\* approved job whose approval expired can be approved again.
ExpiredApprovalCanBeRenewed ==
    job.status = "approved" /\ job.bound.expired =>
        \E a \in Approvers : ~At(a, "idle") \/ ENABLED ApproveStart(a)
=============================================================================
