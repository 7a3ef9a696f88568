# A verification project for GNSIS

GNSIS runs coding agents on a customer's repository: a job is dispatched to an
isolated executor, its patch waits for a human decision, and an approved patch
becomes a pull request.  A voice session on the desktop ("live" session) talks to
the user, starts background work and speaks its results; a public gateway sells
model calls from a prepaid balance.

This directory holds TLA+ models of the parts where several actors share state, the
TLC configurations that check them on small instances, and theorems about them that
the TLA+ proof system (TLAPS) checks for every value of the constants.  Line numbers
below and in the `map` of PROJECT.json refer to `src/`.

    S  = src/src/gnsis/service          (FastAPI, Celery, Postgres)
    X  = src/src/gnsis/service/executor (control plane of the executor)
    RT = src/runtime/gnsis_runtime/gnsis_runtime   (live sessions, asyncio)
    D  = src/desktop/src                (Electron host)

`docs/` is `src/docs`, `tests/` is `src/runtime/gnsis_runtime/tests`, `orchestration/` is
`src/src/gnsis/orchestration`.

## 1. Inventory

### Execution control plane (`X/`, `S/tasks.py`, `S/api.py`)
*State*: the job row (status, stored diff), the rows of `execution_runs` (status,
nonce, token hash, revocation, workflow id and attempt, cancel request, source
delivery, patch), the GitHub workflow.  *Operations*: `run_job` and
`ExecutionDispatcher.dispatch`, the OIDC exchange, the executor's callbacks (spec,
source, events, complete, failed), the user's cancellation and its task, the
reconciler that beat schedules every 60 s.  *Interaction*: one uvicorn process, two
Celery workers with `acks_late`, GitHub; they meet only in Postgres, and **every
store call is a transaction of its own**, so anything may happen between two.
`async def` endpoints hold the event loop once they have the request body; `def`
endpoints run in a thread pool.  *Hard*: all interleavings of the above, redelivery
after a crash, lost callbacks, writes that rely on an earlier read.  *Correct if*: a
run gets one token, which a revocation ends; the source is delivered once; a recorded
patch is not replaced; the approval gate holds a validated patch; every run and its
job come to an end.

### Approval gate and publishing (`S/api.py`, `S/public_api.py`, `X/approval.py`, `X/publish.py`)
*State*: job status and JSON context (binding of the approval, PR metadata), the
unique decision row, the customer's branch and pull requests.  *Operations*: approve
over two APIs, reject, cancel, `publish_run`, `publish_pr`.  *Hard*: the two APIs and
the publisher race; another run may replace the diff between approval and push; a
crash between push and its record; GitHub fails or its answer is lost.  *Correct if*:
only a reviewed patch reaches the repository, and only after a decision to approve;
`completed` means that the pull request is there; `publishing` ends.

### Billing, metering and limits (`S/billing.py`, `usage*.py`, `limits.py`, `public_gateway.py`, `X/gateway.py`)
*State*: the ledger, holds (`balance_reservations`, `limit_reservations`), usage
records, charges, the run's counters.  *Operations*: reserve, evaluate, forward,
meter, price, charge, reconcile, release, LiteLLM's callback, Stripe's webhook.
*Hard*: two sums read in two statements at READ COMMITTED; streams charge from a
thread; callbacks arrive late, twice or never; a crash between record and charge.
*Correct if*: the balance is explained by payments and charges, each once; holds and
limits keep parallel requests from overspending; no way out of a request forgets a hold.

### Delivery lane of a live session (`RT/delivery_gate.py`, `task_tools_online.py`, `supervision.py`, `online_duplex.py`)
*State*: the ledger's deliveries, the gate's results and pending playbacks, the lane's
`_delivery_outputs_pending`, the output queue, the socket.  *Operations*: enqueue,
resolve, the delivery loop, injection, send, acknowledge, device ACK, interruption,
lease expiry, drop, resume, close.  *Hard*: awaits between a check and its use, one
key that is not cleared blocks the lane, ACKs come late or not at all.  *Correct if*:
each result is spoken, once, not over another; what is called delivered was heard.

### Live tool calls (`RT/task_tools_online.py`, `online_duplex.py`, `D/main/wsClient.ts`, `D/host/hostSession.ts`, `actionBroker.ts`)
*State*: the one pending call with its deadline and `resolving`, the calls that are
finished, the socket and the client's outbox; on the host a record per remembered call,
the abort signal of each, the queue for the foreground desktop.  *Operations*: issue,
answer, inject, expire, redeliver after a reconnect; dispatch, ask the person, wait for
the desktop, run, look after it, answer; a typed command shares all of it.  *Hard*: the
answer races the deadline, the socket drops with the call or the answer on it, an action
that was declared lost goes on, calls are withdrawn while they wait.  *Correct if*: an
action runs at most once; the model is told one outcome and a true one; foreground
actions run one by one; no call and no answer is lost; nothing starts after it was
withdrawn.

### Task supervision and coordination (`RT/gateway.py`, `supervision.py`, `coordination.py`)
*State*: the session's SQLite ledger (tasks, commands, interactions, events, coordination
jobs and receipts) and, in memory, the runs of the workers, the owner and task locks, the
slots and the lock of each workspace.  *Operations*: start, send, resolve, cancel, the
dispatch of a task, the worker's events, standing grants, submit a turn, run the
coordinator, apply its plan, recover after a restart.  *Hard*: each write of the ledger is
a transaction, awaits lie between; the worker fails, hangs, answers late or dies; a crash
at any point; turns that supersede a job already with the model.  *Correct if*: a message
reaches its worker once; nobody is asked about a task that is over; a task and whoever
waits for one comes to an end; a turn is planned once.

### Codex worker (`RT/providers/codex.py`, `app_server.py`)
*State*: the one app-server process and its notifications, the active run, its turn, its
pending question, its side queries, the tool router's binding.  *Operations*: start, steer,
answer, query, cancel, close, watch notifications, restart the worker.  *Hard*: requests
that fail but were served, calls the gateway gives up, a run that ends while a call is on
its way, side queries that outlive their caller.  *Correct if*: a question is held until
it is answered; a closed run ends and its forks are released.

### Duplex sessions and the model slot (`RT/online_duplex.py`)
*State*: the sessions of a process, which sockets are attached, the one model slot, the
opens whose client left, the timers of parked sessions, the screen channel.
*Operations*: connect, start, abandon, resume, reset, stop, park, grace timeout, teardown.
*Hard*: a model is opened on a thread no cancellation reaches; the handler, the timer and
the abandoned open all release the slot; a client comes back at any moment.  *Correct if*:
there is one model at a time, and only while the slot is taken; what a session holds is
whole; the slot is free again and the screen ends in the end.

### Visual service and its usage (`RT/visual/service.py`, `metering.py`, `S/usage_api.py`, `visual_usage.py`)
*State*: sessions with frames, a task, quotas, answered requests and open decisions;
reports of closed sessions, the sink's queue, the control plane's ledger.  *Operations*:
create, frame, task, decide, perceive, close, sweep, collect, post, record.  *Hard*:
requests run on threads and wait for the session's inference lock while frames, tasks and
the close pass by; a post whose answer is lost arrives late.  *Correct if*: a request id is
answered by one inference; each unit of use is in one report, which is counted once and in
the end.

### Not modelled
| component | state and hard behaviour |
|---|---|
| Utterances, turns and the action policy (`D/host/utterances.ts`, `turns.ts`, `actionPolicy.ts`) | which words an action is judged with; ToolCalls takes any verdict |
| Screen capture and control (`RT/screen*.py`, `D/host/desktopVisualConnector.ts`) | operating system I/O around a small state machine; the screen's end with its session is in Duplex |
| Run creation (`S/public_api.py` 465-517) | idempotency keys against a crash before `run_job.delay` |
| Intelligence lifecycle, memory | an approval activates a candidate once; the rest is retrieval and scoring |
| Local orchestration engine | sequential |
| Resources and evolution | versions and rollback in memory |
| Accounts, keys, webhooks, credits | single transactions, save the welcome ceiling: the day's grants are counted and the credit is given in two transactions (`S/welcome_credits.py:141`), and concurrent sign-ups pass it |
| Fine-tuning, user interface, SDKs, deployment | numerical code, presentation, thin clients: no state machine worth checking |

## 2. Plan

Done, the control plane first because everything rests on it:

1. **RunControl** and its proofs;
2. **ReviewGate** (abstract), **ReviewPublish**, which starts where RunControl left a job
   waiting, and the proof that it implements the gate;
3. **Billing** and its proofs: the run's budget, the balance, the ledger;
4. **Delivery** and its proofs;
5. **ToolContract** (abstract), **ToolCalls** and its proofs, and the proof that it implements
   the contract;
6. **TaskGateway** and **Coordination**, lean mode and coordinator mode of the supervision,
   and their proofs;
7. **CodexRun**, the worker the gateway dispatches to, and its proofs;
8. **Duplex** and its proof, the sessions and the slot that Delivery and ToolCalls take for
   granted;
9. **Visual**, and the way of its usage to the control plane, and their proofs.

Next, in this order:

10. run creation (`S/public_api.py` 465-517): idempotency keys against a crash between
    `create_job` and `run_job.delay`; composed with RunControl's `queued` job;
11. utterances, turns and the action policy: composed with ToolCalls' `Judge`;
12. resources and evolution; the job row's JSON context, where two `merge_context` calls
    overlap.

## 3. Modules

Conventions: an actor has a program counter (`pc`) named after the step of its handler,
one action per store call (per await in Delivery); the header of each module says what
holds the event loop.  Faulty variants (`X_Something` before `X`) are what the mutants
of PROJECT.json put in the place of `X`; no specification uses them.  MC modules supply
values, put components side by side and choose sizes.

### RunControl
`run` is `execution_runs`, `job` the job row, `proc` what each handler or task read and
where it is, `loop` the request on the event loop, `batch` what a reconciler fetched,
`attempts`/`holder` GitHub's side; `issued` and `delivered` are history.  Actions named
`Exchange*`, `Complete*`, `Cancel*`, `Reconcile*`, `RunJob*`, `Fail*` are the store calls
of those functions in their order.  `FailRun`, `FailRevoke`, `FailReadJob`, `FailJob` are the
tail every failure shares (run first, then token, then job).  A crash of the web process
drops all its handlers; a crash of a worker delivers its task again.
*Abstracted*: what a patch contains (a model value, valid or not by choice), policy,
artifacts, events; token expiry and the age of a run (a deadline may have passed at any
look); GitHub's OIDC claims always carry the run they come from; database errors.

### ReviewGate and ReviewPublish
ReviewGate is what review promises: one decision, and only reviewed content published.
ReviewPublish is the code: the job that RunControl left waiting, approvers of both
kinds, rejecters, cancellers, callbacks of later runs, publishers, and GitHub's branch
and pull requests, each call of which succeeds, fails, or succeeds with its answer lost.
The mapping takes `branch` for `published`.

### Billing
Amounts are small naturals, one workspace and one virtual key.  `hold` and `limit` are the
two kinds of reservations, `seen` the sum a handler read before its second read, `loop`
the event loop that non-streaming requests hold from body to answer, `due` a callback
LiteLLM owes.  The row lock on the workspace is left out: only handlers that hold the loop
take it.  `cut` (nobody came back: a client left, the process died) and `slipped` (a stream's
charge between another request's two reads) are history.  A public call whose provider did
the work and whose answer was lost in an HTTP or connection error gives its holds back and
leaves no usage record (`S/public_gateway.py:89-93`, `293-296`); other exceptions leave a
failed one.  A run's slot may be refused at any time, as its status changes in RunControl.
`release_stale_reservations` (`S/billing.py:430`) is not modelled: nothing schedules it
(`docs/billing.md:45`, "optional").

### Delivery
One asyncio loop: an action is the code between two awaits.  `lane` is the delivery loop,
`pending` the outputs that keep it busy, `gate`/`playing`/`expired` the DeliveryGate, `voice`
where an announcement is on its way to the device.  The model's talker, the client and the
device are external; the owner is not muted and the gate `model_speaking`, which nothing
sets, is left out, as are claim tokens (one lane).  An injection may fail at each of its
awaits.  `Blocked` lists how the lane comes to wait for good.

### ToolContract and ToolCalls
ToolContract says what a call promises the model: what became of its action (`run`) and
what the model was told (`told`), and that "done" is told only of an action that ended,
"declined" only of one that never runs.  ToolCalls is the code.  `call`, `resolving`,
`timer`, `feed`, `finished` are the coordinator's; `timer` is the deadline task, `feed` the
answer the socket handler awaits the injection of (it reads nothing else meanwhile).
`link`, `toHost`, `toRuntime` are the socket; `toRuntime` is also the outbox of a client
that connects.  `work` lists every dispatch the broker began, `known` those it remembers,
`lease` the promise chain of `withDesktopLease`: its head runs, the rest wait.  A promise
that settles resumes its awaiter in the same turn of the loop, so `Passed` is part of
`RunEnds`.  *Abstracted*: arguments, results, the policy's verdict and permissions (a
choice in `Judge`), time (a deadline may have passed at any look, which subsumes
`tool.progress`), the grace timer of a parked session.

### TaskGateway and Coordination
TaskGateway is lean mode, which refuses `coordinate_turn` (`RT/gateway.py:1038`).  Permissions
expire at run time from there alone (`RT/gateway.py:1044`), so in this model they expire at a
restart only; the reply queued for an expired one then goes to a run that the same `start`
fails, as no provider resumes sessions.  Coordination leaves the expiry out.  `led` is the ledger's row of a task, `cmds`, `asks` and `outbox` its
commands, interactions and events; `busy` marks the middle of a handler that does not
suspend, where only a crash may come between two writes.  The owner lock makes the owner's
calls one at a time; what waits for a worker is the one call that holds a task lock.
Coordination is coordinator mode: `cjob` is the owner's coordination job, `runner` is
`_run_coordination`, `caller` each `coordinate_turn_and_wait`, `consult` a worker's question on
its way to the model; `applied`, `failed`, `finished`, `redone` and `replied` are history.
*Abstracted*: contracts, evidence, artifacts, context memory, pruning, the texts.

### CodexRun
`srv` is the app-server (external), `mail` what it notified and `_watch_notifications` has not
seen, `slot` the active run, `route` the router's binding.  A request and its response are
one step, a request that fails may have been served all the same, and the gateway gives a call
up after 30 s, at the awaits `GivesUp` names.  A restart is three awaits under the worker's
lock: `StopClient`, then `StartClient` or `RestartFails`, which leaves the worker without a
client (`srv.client`); `cx.cut` is history, a close that was left half-way.  A new client that
`_ensure_worker` fails to start changes nothing and is left out; so is the end of the watcher
when it refuses a request of a dead process, and whether the words after a denial (`TellWhy`)
arrive.  The dispatch's own cancel after its replay (`RT/gateway.py:3985-3997`) is the owner's
`Cancel`.  *Abstracted*: prompts and results, shares, terminal forks,
archiving.

### Duplex
`sock` is a socket's handler, `model` a model from its open to its close, also one whose
client left.  A socket names the session it opens.  The clock is left to chance: a grace
period ends at any moment.  *Abstracted*: what is said on a serving socket, which is
Delivery and ToolCalls; media modes, screen tokens.

### Visual
`vs` are the sessions, `vcall` the requests and where they are (`look` is a session's screen:
it moves or it rests), `pending`, `sink` and `net` the way of a report, `counted` the control
plane's ledger.  An action is what happens under one hold of a lock.  *Abstracted*: the
counters go the same way and are one number, where a decision that came too late or was not
legal counts (`spoiled`: its `inference_ms` is recorded before the check); `session_ms`, which
is a clock, is left out, and so is the split of a report at midnight.

### Modules that compose
Components that share no state are checked in one run: in MCComponents, MCOnce and
MCBilling a behaviour belongs to one component (`part`), the others rest in their initial
state; the variables are disjoint, so a property of one component says what it says in
its own module.  The parts of MCRunControl, MCComponents and MCDuplex are sizes of one
component: each restricts what the environment does, never the code.

## 4. Runs

`expect: pass`:

| run | what is in it | shows |
|---|---|---|
| `rc_callbacks` | three sizes: one run with a workflow that may be re-run, two requests at every executor endpoint, two patches; two runs of the job with a crash and a reconciler, one request at a time; a run that a user cancels, with one request at a time and a reconciler; symmetric in the requests and the patches | one token per run, never revived; one recorded patch; the gate holds a validated patch; without a crash a job at rest is settled |
| `rc_cancel` | fair; an exchange against the dispatching task, a user's cancel, its task and the reconciler | every run ends |
| `rp_gate` | fair; two runs, two patches, either route of approval, reject, cancel, a publisher; two requests at a time, or one beside a crash on the API's route | the code implements ReviewGate; a pull request was reviewed; the API's status and decision agree; publishing ends without a crash |
| `bl_overdraft` | a direct call beside a stream whose client may leave, or beside two model calls of a run, one of which may lose its answer while the other sends a trace id of its own; a balance of two holds, costs below and above a hold, callbacks that repeat or never come, a crash; and, fair, a visual session with a post that fails | overdraft and overspending are no more than what was charged beyond the requests' own holds; a run overshoots by less than one call; no way out of a request forgets a hold; every visual session is reported |
| `dl_lane` | fair; two results (one a question), an alert, two turns, or one beside an injection that fails or a drop, with and without device ACKs | spoken once; delivered was heard; no overlap; every result is delivered, unless the lane is `Blocked` for good |
| `once` | two calls and a typed command, all for the desktop, a lost socket or an answer the model refuses; a stream whose client may leave, two model calls (one whose answer may be lost), a payment, repeats, and a crash (then without the second model call) | the code implements ToolContract; one desktop action at a time, no late start; no answer and no call is lost; the ledger is explained |
| `cm_safety` | two tasks of one workspace and one slot, an ask, a crash, a failure; three turns of a coordinator; a Codex worker's runs with two side queries or a failure; a visual session with racing requests, and two with the way of their usage | a message is heard once; no ask of a task that is over; a turn is planned once; nobody waits in vain; a worker's question is held; use is counted once; a request is answered by one inference |
| `cm_liveness` | fair; the same components, smaller, without a coordinator's crash | a cancelled task ends; tasks that queue all end; a Codex run that is closed ends its stream, also with a failure, a dying server or a restart that fails, unless its close itself was cut; its forks are released |
| `dx_slot` | fair; a client that comes back twice, or once with a screen, without failures; a client that resets beside one of another session, with a failure | the slot has one owner; what is held is whole; the slot is freed; the screen ends |

`expect: violation`: `rc_cancelled_token` (an exchange past `consume_nonce` when the
cancellation revokes), `rp_dashboard` (the dashboard's approval turns a rejected job
approved) and `dx_reset` (a reset always ends its session); section 7 has these and the
other disagreements met while modelling.

*Bounds*.  Two competitors are enough for each race on a row (the store calls do not
count actors); a second run of a job arises only from a redelivered task, so one crash
gives `MaxRuns = 2`; two patches tell a replaced diff from the reviewed one.  The sizes of
`rc_callbacks` keep apart what would multiply: two requests meet on one run, while the second
run, the crash and the reconciler meet one request at a time, and the user meets both on a
run of their own.  Two results
and an alert give a head of the queue, something behind it and something that preempts
it.  The balance of Billing is two holds wide and the limits (`Cap`, `MaxRunCost`) are passed
by one call of the dearest cost, so that a competitor is refused or overspends; one cost is
below the hold and one above it, without which nothing would be charged beyond a hold but by a
race.
Two calls let a late answer of the first meet the second; with the typed command three
actions meet at the desktop, an owner and two behind it.  `Remembered = 2` is reached with
these three, and is enough for the contract: a call is forgotten, and would run twice when
it is delivered again, only after as many others were received while it was pending, and
only typed commands are (the code remembers 128).  Two tasks compete for a workspace and
a slot; one crash per behaviour reaches each point between two writes, and what recovery
does does not depend on how often.  Three turns give a turn before, one superseded by a
second, and one while the plan is applied.  Of Duplex, two returns of a client let the
timer of the first detach meet the second, and a socket of another session is what finds
the slot taken.  Caches and quotas of Visual are of size one or two, so that two requests
reach each limit.  `MaxTurns`, `MaxFaults`, `MaxCrashes` and the other bounds on what the
environment does are named in each module and given in each .cfg.  Where a proof exists
(section 6) the bound does not matter.

*Without a crash*: `rc_cancel` and `cm_liveness`'s coordinator have none, and
`RestingJobIsSettled` asks for none, because a crash really breaks what they ask (section 7).

*Deadlock* is checked in ReviewPublish.  In the others requests, tasks, calls, results and
what the environment may do are finitely many, and the system really stops when all of
them are done.

## 5. Fairness

RunControl: handlers and tasks that began run on (Celery and uvicorn), beat keeps the
reconciler scanning, and a run that is looked at again and again is one day past its
deadline (strong fairness of the deadline branch for each run).  Nothing is assumed of the
executor, the user, GitHub, or a workflow.  ReviewPublish: a task a worker took ends.
Billing: none; LiteLLM's callbacks are not guaranteed (`docs/billing.md:45`), so nothing is
claimed to happen.  Delivery: loop and senders run, the talker drains (strong fairness of
"is a pause": the loop polls), clocks advance, the user stops speaking, and a parked session
is resumed or closed, which is its grace timer.

TaskGateway: a dispatch runs on and a call of a worker returns or times out (`wait_for`
around each), and a dead process is started again; the worker itself need do nothing, as
`worker_timeout_s` ends its run.  Coordination: asyncio's locks serve in order, hence strong
fairness of who waits for one, and the model's calls are bounded by `coordinator_timeout_s`.
CodexRun: the watcher and every call that began run on, requests end, a restart stops its
client and starts the next one or fails, and a side query ends at its timeout; that a
request fails or a call is given up is never assumed, and neither the server nor the user
need do anything.  Duplex: the loop runs every task, opens and grace periods end; clients
need do nothing.  Visual: threads run on, the model's calls end, and the sink's thread wakes
every interval; hosts and planners need do nothing.

## 6. Proofs

Each property below is not inductive as it stands; what follows is the strengthening and
why the proof needs it.

* `RunControl_proofs`.  `Invariance` of `IInv == TypeOK /\ RefInv /\ RowInv /\ ExchangeInv /\
  CompleteInv`: that a nonce yields one token needs to know that a request between
  `consume_nonce` and `bind_token` is alone (`ExchangeInv`); that a recorded patch stays
  needs that a request past `CompleteFresh` holds the event loop and found no patch
  (`CompleteInv`).  `RowInv` relates the columns of a row and `RefInv` says that actors point
  to runs that exist.  From it: `TypeCorrect`, `AtMostOneToken`, `AtMostOneDownload`,
  `PatchFromTokenHolder`, `RevocationIsFinal`, `RecordedPatchIsFinal`.
  On top of it `GateInv`: whoever is about to store a diff or to open the gate carries the
  patch that is recorded for its run, because a completion holds the event loop and a recorded
  patch is final; hence `GateIsGenuine`.  And `SettleInv`: as long as the job is queued,
  whoever ended a run or asked for a cancellation is still on its way to settle the job;
  hence `JobIsSettledAtRest`, without a crash.  It needs that a dispatching task is not a
  cancelling one (`ActorsAssumption`).
* `ReviewPublish_proofs`.  `Invariance` (types; decisions and bindings follow a review; each
  actor carries what its step implies, above all a publisher past verification carries a
  reviewed patch), `EveryPullRequestWasReviewed`, and `ImplementsGate`: every step is a step of
  ReviewGate or a stutter.  `StatusIsTheDecision` adds that whoever is about to write a status
  knows the decision that won; its hypothesis is that nobody approves on the dashboard, which
  does not look (section 7).
* `Billing_proofs`.  `BudgetKept`: one request at a time holds the loop between the budget
  check and the accounting.  `TheLedgerIsExplained`: the cost of a request is fixed before
  it is charged, and it is charged once, so the sum of the charges grows by that cost.  What
  `MapThenSumSet` adds up, in whatever order it picks the elements, is the first part.
  `HoldsAreClosed`: where a request is says what became of its two holds (`HoldInv`), on
  every way out of it.  `OverdraftIsBounded`: `AccountInv` relates the balance and the spend
  on a key to the open holds and to what was charged beyond them, and what a request read in
  its first look to the same sums at its second, which only the charge of a stream changes
  meanwhile; there are no hypotheses on costs, estimate, streams, lost answers or callbacks.
* `Billing_proofs`, Visual, which adds up reports as the ledger adds up charges.  `VsInv == VsTypeOK
  /\ LockInv /\ Answers /\ UsageInv`: whoever infers for a session is alone and found its id in
  neither window, and it still is in neither, since only who infers or enters under the lock
  adds an answer (`LockInv`); each id that was answered is in the window of answers, or in the
  window of expired ids behind fewer entries than there were answers since, or long past
  (`Remembered`), so an id in neither window was answered long ago (`Answers`).  A session's
  reports are numbered, add up to what it reported, which is all it used once it is closed, and
  what may still arrive is known already (`UsageInv`); a report that goes from hand to hand,
  falls out of a queue or is counted twice leaves the set of reports as it is.  From it
  `OneAnswerAlways`, `UsageCountedOnceAlways`, `VisualTypeOK`.  The sizes of windows, queues and
  batches are positive (`VsAssumption`: the constructors refuse others, and a batch is of 500).
* `Delivery_proofs`.  `DeliveryInv == TypeOK /\ Kept /\ LaneInv /\ VoiceInv /\ PauseInv`: queue
  and ledger hold the same deliveries, each once (`Kept`, through the recursive definition
  of the queue); the lane holds one delivery from its claim to its injection; an announcement
  under way is a pending output, or the session is closed; the loop polls only while nothing is
  played, since `pending` keeps it from the poll.  From it `AnnouncedOnce`, `DeliveredIsHeard`,
  `ResultsWait`.
* `ToolCalls_proofs`.  The runtime's `CallInv` makes `resolving` a lock that an answer
  (`FeedHolds`) and the deadline (`TimerHolds`) compete for; the properties alone do not say
  who holds it.  From it `NoneStranded` and `ToldOnce`, whatever the host and the network do.
  The host's `HostInv` says that the lease lists exactly the foreground action that runs and,
  behind it, those that wait (`Queued`), and that what waits was not withdrawn.  From it
  `OneAtATime`, `LeasePasses` and `NoneStartsLate`.
  `NoAnswerIsLost` follows the one pending call through socket, outbox
  and host.  `ImplementsContract` needs that what a call is told is true of its work, and that a
  call that is sent again is found in the host's memory: calls arrive in their order (`InOrder`),
  so only typed commands come between a call and its second arrival; its hypothesis
  `FewLocals` is that they are fewer than the calls the host remembers (128 in the code).
* `Duplex_proofs`.  `SlotInv`: the slot is taken exactly while one socket answers for it, as it
  opens a model, has left the open behind, or made a session that has not released it
  (`OneSlot`); a model that may be alive belongs to that socket (`SessionOf`, `ResetOf`); and a
  handler or timer that tears a session down knows its model, since its locals say so
  (`LocalsOf`).  From it `SlotIsOwnedAlways`.  The hypothesis `Apart` is that clients come back or
  reset, not both: with both, a handler that resets a session another one has resumed puts a
  second model on the slot (section 7).  Most steps only move a handler and leave slot, models
  and sessions alone; `CalmKeeps` deals with them together.
  `HeldInv`, beside it: whoever tears a session down has made sure that nobody finds it
  (`TornOf`), a handler and a session have models and coordinators of that session only, or of
  the handler's own reset (`MineOf`, `PartsOf`), so tearing one session down leaves the others
  alone (`TearsDown`), and a session that can still be found is whole unless its handler is
  leaving it half reset (`WholeOf`).  Hence `HeldIsWholeAlways`, whose hypothesis `Untroubled` is
  that clients do not come back (any failures and resets are allowed), or that nothing fails and
  nobody resets.  Without it TLC refutes the property: two returns
  pass the check before either is bound, the detach of the first one fails, so the session it
  tears down can still be found, and the second one parks it again.
* `TaskGateway_proofs`.  `TaskInv == TypeOK /\ Heard /\ Course /\ Closed`: a message that was
  heard is on record as sent or failed, and what the replay, the owner's call and a standing
  grant have still to send is unheard (`Heard`); where a dispatch is says what the ledger may
  hold, and an event is reduced before the next is taken (`Course`); what is queued for the user
  is open, and a task that ended has nothing open (`Closed`), but for crashes in the middle
  (`cut`).  From it `MessagesAreHeardOnce`, `NobodyIsAskedInVain`, `TaskTypes`, `EndsAreFinal`.
* `Components_proofs`, Coordination.  `CoordInv`: the plan is applied under the owner lock (`Applies`), a
  runner's turns are those of the job unless it was superseded (`Claimed`), a job is superseded
  by a new turn (`Known`), and what an open job holds was in no plan, unless a crash cut it
  short (`NotPlannedYet`).  From it `EveryTurnIsPlannedOnce`, `NoCallerWaitsInVain`,
  `EveryTurnIsKept`.
* `Components_proofs`, CodexRun.  `CxInv == CxTyped /\ CallsFit /\ NamesKept /\ PlacesKept /\
  AsksKept`: where a call waits goes with what it is (`CallsFit`); a task of a side query has a
  fork, and there is a fork's name for every query that asks for one (`NamesKept`); a call has
  the slot and the route its step says, so the end of a close that was overtaken takes nothing
  from the next run (`PlacesKept`).  A question is `Held` by its run, or on its way *with no end
  of its turn or server behind it*: the end of a turn and a restart drop the run's questions,
  and the queue is in order, so a question the server asked later survives them; that a
  question said to be resolved is no longer open (`ResolvedFits`), that a turn that goes on has
  a number (`TurnsCount`) and that the run knows the query that may still answer (`SideKnown`)
  is what each step needs of the others.  From it `AskIsHeldAlways`, also with failing requests
  and dying servers, `RunKeepsItsPlaceAlways`, `CodexTypeOK`.

Assumptions: only the named `ASSUME`s on the constants, which TLC evaluates in every run, and
the hypotheses named above.  No number of actors, runs, tasks, calls or crashes is fixed.

Recursion over data: the library's induction theorems cannot be used, as they take an
operator as a parameter; the two inductions needed (over the length of the queue in Delivery,
over a finite set in Billing) take a smallest counterexample instead, from the
well-foundedness of strict inclusion among finite sets.

Proved, and in no run: the type invariants, `RunKeepsItsPlace`, `SourceDeliveredOnce`, `PatchNeedsToken`,
`OneOutcome`, `LeaseIsPassedOn`, `NoTurnLost`, `EndIsFinal`, and `StatusFollowsDecision` without
a dashboard: the proofs say more than a run would.

*Only model-checked*: liveness (`RunsSettle`, `PublishingEnds`,
`EverySessionIsReported`, `EveryResultIsDelivered`, `CancelEnds`, `EveryTaskEnds`,
`ForksAreReleased`, `ClosedRunEnds`, `SlotIsFreed`, `ScreenEnds`) and `ENABLED`, which are out of
the prover's reach.  The runs check `ApiStatusFollowsDecision` and `LedgerIsExplained` in the form
`MCReviewPublish` and `MCOnce` give them; `StatusIsTheDecision` and `TheLedgerIsExplained` are the
theorems about them.

## 7. Divergences seen while modelling

Three are runs (findings in PROJECT.json): `CancelledRunHasNoToken`, `StatusFollowsDecision`
under the dashboard's approval, and `ResetKeepsTheSession`.  Each of the following is a
property of its module, or a running one without the escape named here, that TLC refutes on
the instance given; it states the sentence quoted.  The instances are those of section 4
with the changes given, and no run has them.

| property | instance | what the code does | what it says |
|---|---|---|---|
| `TerminalRunIsFinal` | RunControl: one run, a request at `complete`, a reconciler | `set_status` (`X/store.py:327`) writes whatever it is given; callers decide on an earlier read | `X/models.py:29` "no further automatic transition happens from these" |
| `TerminalJobIsFinal` | RunControl: one run, a user | `run_job` (`S/tasks.py:271`) and `handle_complete` (`X/callbacks.py:286`) read the job once and write later | `orchestration/status.py:59` "states from which no further automatic transition happens" |
| `RestingJobIsSettled` | `rc_callbacks`, the property without its `crashes = 0` | failure tails end the run first; after a crash no sweep looks at the job again (`X/reconcile.py:80`) | `X/reconcile.py:8` "Every branch is idempotent and finalizes cleanly" |
| `IssuedTokenIsNotStranded` | RunControl: one run, a request at `exchange` | `mark_dispatched` (`X/store.py:213`) overwrites `authenticated` | `X/models.py:18` "OIDC exchanged, run token issued" |
| `PublishIsIdempotent` | ReviewPublish: two publishers | a second publish pushes before it looks for its pull request, and fails the job if it cannot (`X/publish.py:131`) | `docs/public_api.md:446` "Publishing remains the separate, idempotent" step |
| `ExpiredApprovalCanBeRenewed` | ReviewPublish: one run | both approval routes require `awaiting_approval` (`S/api.py:1676`) | `X/approval.py:55` "approval has expired; re-approve required" |
| `PublishingEnds` | `rp_gate`, the property without its "or a process died" | nothing sweeps jobs in `publishing` after a redelivery raised before `PublishStart` | (no sentence says so) |
| `OverdraftIsExplained` with `0` for `Overdraft(Requests)` | `bl_overdraft` with `Costs = {1}`: a call, a stream | a stream's charge commits between the two reads of `reserve` (`S/billing.py:268`) | `docs/billing.md:41` "concurrent requests cannot overspend" |
| the same | `bl_overdraft` with `Costs = {2}` and `Opening = 2`: two model calls | the hold is released when the answer is lost, the charge comes later (`X/gateway.py:372`), or it is not found (below); and a call may cost more than its estimate | the same |
| `SpendIsExplained` with `0` for `Overdraft(Public)` | `bl_overdraft` with `Costs = {2}`: a call, a stream | the same race in `evaluate` (`S/limits.py:308`) | `docs/spending_limits.md:49` "never a read-then-write race" |
| `NoHoldIsForgotten` without `\ cut` | `bl_overdraft`: the stream | `GeneratorExit` passes `except Exception` (`S/public_gateway.py:336`): neither usage nor charge, both holds stay | `docs/public_gateway.md:21-27` lists "balance reconciliation (the hold settles into the real debit)" |
| `NoHoldIsForgotten` without `OwnTrace` | `bl_overdraft`: the second model call | the hold is sought under the agent's own trace id (`X/gateway.py:127`) | `docs/billing.md:43` "The usage callback **settles** the hold" |
| `EveryResultIsDelivered` without `<>[]Blocked` | `dl_lane` with `AckModes = {TRUE}` | no ACK clears `_delivery_outputs_pending` (`RT/task_tools_online.py:1169`): after its first announcement the lane is blocked | `RT/delivery_gate.py:211` "the pending slot frees" |
| the same | `dl_lane` with `AckModes = {FALSE}`, `MaxDrops = 0` | a result whose injection failed is closed at the gate and stays at the head of the queue (`RT/task_tools_online.py:1386`) | `tests/test_delivery_gate.py:11` "serialized delivery" |
| the same | `dl_lane` with `AckModes = {FALSE}`, `MaxDrops = MaxFailures = 0` | a question is resolved while its announcement is on its way; acknowledging a cancelled delivery raises and leaves its key (`RT/online_duplex.py:2405`) | the same |
| the same | `dl_lane` with `AckModes = {FALSE}`, `Questions = {}`, `MaxFailures = 0` | the sender is cancelled between write and acknowledgement (`RT/online_duplex.py:3496`) | `RT/online_duplex.py:2581` "Only the connection is new" |
| `InterruptedIsNotSent` | Delivery: two results, `MaxTurns = 1` | queued outputs are sent without asking the gate (`RT/online_duplex.py:2398`) | `tests/test_delivery_gate.py:9` "stale output cancelled" |
| `LateAckIsIgnored` | the same with `AckModes = {TRUE}` | an ACK without an epoch is given the current one (`RT/delivery_gate.py:183`) | `RT/delivery_gate.py:112` "a late ACK for it is ignored" |
| `UnsubscribedWaits` | Delivery: an alert, `Subscribed = FALSE` | the timing is changed in a copy only (`RT/gateway.py:2053`) | `RT/gateway.py:2053` "Subscribed interrupts preempt output; other deliveries pause" |
| `RefusedCallIsNotStranded` | ToolCalls as in `once` | the deadline task returns while an answer is injected; when the model then refuses it, nobody is left to end the call, and the host, which is done, does not answer again (`RT/task_tools_online.py:1002`, `936`) | `RT/task_tools_online.py:937` "the call is still waiting, and the client may answer it again" |
| `ResultIsTold` | Coordination: two turns | a turn submitted again while its job runs gets the stored receipt, which says pending | `RT/gateway.py`, `coordinate_turn_and_wait`: "Submit one coordinator turn and wait for its bounded result." |
| `RejoinedIsKept` | Duplex: the first part of `dx_slot` | `_can_resume` and `active.attached = True` are a turn of the loop apart; the grace timer, or a second resume, comes between, and a client that is told "resumed" loses its model | `RT/online_duplex.py:2539` "A client re-bound between the timeout and this check." |
| `DecisionIsForTheTask` | Visual: one session, one request, a change of task | `decide` compares the frame after inference, not the task (`RT/visual/service.py:463`) | `skills/panoptic/SKILL.md:105-106` "so proposals stay inside what the host can actually do" |

Seen as well, and not stated as a property:

* ToolCalls: an action for which nobody is asked starts although its call has timed out, as
  only `ask` and the wait for the desktop look at the abort (`NoLateStart` speaks of these two).
* Billing: a public call whose answer is lost to an HTTP or connection error after the provider
  did the work is neither recorded nor charged (`S/public_gateway.py:89-93`, `293-296`; an
  `Exception` that is no `GatewayError` does leave a record).  A hold whose callback never comes
  is freed by `release_stale_reservations` alone, which the documentation wants run "from the
  beat service" (`docs/billing.md:46`) and which nothing calls.
* TaskGateway: a crash between the terminal row and the announcement loses the
  announcement.  A crash or an exception inside a standing grant's reply leaves the event
  unprocessed, and the restart puts a question of a task that is over to the user.  A reply
  that failed leaves the permission pending without putting it to the user
  (`RT/gateway.py:4443-4460`); one that timed out but was heard leaves it pending for good.
  No provider declares `session_resume`, so the branch of recovery that needs it is dead.
* CodexRun: the next call, while a timed-out side query is disposed of, cancels the
  disposal: the fork stays subscribed and `_side_query` names it, later results are
  attributed to it, and the pending question is dropped.  A steer under way when its run
  ends binds the router again and starts a turn nobody waits for (`Overtaken`).  The death
  of the app-server in a turn is never reported to the gateway.  A close goes on after an
  interrupt that failed.  A steer that timed out but was accepted may be sent again as a
  turn.  A close that the gateway gives up after 30 s, or that meets a worker without a
  client (`_client` raises, which `_interrupt_active` does not catch), leaves its run closed
  without the end of its stream, bound and in the slot until the next run takes it
  (`cx.cut`, the escape of `ClosedRunEnds`).  A restart that fails or is given up is how a
  worker gets there.  A cancel given up raises before the gateway notes it (`_cancelled`
  follows `cancel()`), and the dispatch goes on waiting for the run's events.  The words of
  a denial may be lost after the denial was sent.
* Duplex: a reset beside the race of `RejoinedIsKept` can put two models on the slot (the
  parts of `dx_slot` keep the two apart).  A client that drops while its coordinator is built
  parks a session without one, whose token was never sent; what was started of the
  coordinator is not closed.  A detach that fails with anything but a RuntimeError leaves
  the session in the table and the screen without its end (`ScreenEnds` is promised without
  a failure).  With two timers on a session the second frees the slot while the first still
  cancels its jobs.  The coordinator is closed after the slot is freed, so a session of the
  same id may open the ledger file while the old one closes it.
* Visual: `docs/smaller-gnsis-service.md` says that a changed frame is answered by
  `stale_perception`; the code answers `current = False`.  A reused perception counts as use
  without a look at the quota; a rejected or stale decision counts its time (`inference_ms`)
  and no decision.  An `HTTPException` of `urlopen`, which is neither OSError nor
  ValueError, ends the sink's thread for good.  One report the control plane refuses (a
  clock more than five minutes ahead) makes it refuse the batch, which blocks the head of
  the queue until it passes.
