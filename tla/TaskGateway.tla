----------------------------- MODULE TaskGateway -----------------------------
(***************************************************************************)
(* The tasks a live session gives to background workers: the gateway       *)
(* (gateway.py) that dispatches them, sends them the user's words, puts    *)
(* their questions to the user and ends them, and the session's ledger     *)
(* (supervision.py) it recovers from.  Lean mode, the default: the live    *)
(* model calls task_start, task_send and task_resolve.                     *)
(*                                                                         *)
(* The gateway is one asyncio loop: an action is what happens between two  *)
(* awaits that suspend, and each write of the ledger is a transaction of   *)
(* its own.  `busy` marks the middle of a handler, where nothing but a     *)
(* crash may intervene.  The owner's calls hold the owner lock, so one     *)
(* runs at a time; and as no task lock is held across an await but by such *)
(* a call, its holder is the call that waits for the worker.               *)
(*                                                                         *)
(* Workers are external.  No provider of the repository declares           *)
(* session_resume, so a restart fails every task that had a run; a side    *)
(* query or a continuation is a task of the same workspace.  Updates of a  *)
(* worker (they only add a delivery) and pruning are left out.             *)
(***************************************************************************)
EXTENDS Naturals, Sequences, FiniteSets

CONSTANTS
    Tasks,        \* what task_start may create
    Workspaces,   \* what _provider_project_resource_key tells apart
    WorkspaceOf,  \* the workspace of each task
    Slots,        \* max_parallel_projects
    Asks,         \* what a worker may ask during its run
    Permissions,  \* the asks that are permission requests
    MaxReplies,   \* bound: answers the user gives to one ask
    MaxFaults,    \* bound: sends, cancels and closes that fail or time out
    MaxCrashes,   \* bound: times the process dies
    NoTask        \* nothing

ASSUME NamesAssumption ==
    /\ WorkspaceOf \in [Tasks -> Workspaces] /\ NoTask \notin Tasks
    /\ Permissions \subseteq Asks /\ {"send", "done"} \cap Asks = {}
ASSUME BoundsAssumption ==
    Slots \in Nat \ {0} /\ MaxReplies \in Nat /\ MaxFaults \in Nat /\ MaxCrashes \in Nat

-----------------------------------------------------------------------------
(* A task as the ledger records it: its row, its interactions, the outbox    *)
(* of provider commands, the worker's events and the deliveries.             *)

Steer     == <<"send", 0>>                      \* the task_send of the model
Reply(a, n) == <<a, n>>                     \* the n-th answer; 0: a standing grant's
AskReplies(a) == {a} \X (0..MaxReplies)
Messages  == {Steer} \cup (Asks \X (0..MaxReplies))
Final     == "done"                         \* the worker's last event

Live      == {"running", "cancelling"}
Ended     == {"completed", "failed", "cancelled"}
Open      == {"pending", "resolving"}
Unsent    == {"pending", "sending"}
Marks     == {"none", "unprocessed", "processed"}

Record == [status  : {"none", "queued"} \cup Live \cup Ended,
           blocked : BOOLEAN,
           ask     : [Asks -> {"none", "resolved", "expired", "cancelled"} \cup Open],
           cmd     : [Messages -> {"none", "sent", "failed", "cancelled"} \cup Unsent],
           event   : [Asks \cup {Final} -> Marks],
           asked   : [Asks -> {"none", "queued", "cancelled"}],
           final   : {"none", "queued"}]

NoRecord == [status  |-> "none", blocked |-> FALSE,
             ask     |-> [a \in Asks |-> "none"],
             cmd     |-> [m \in Messages |-> "none"],
             event   |-> [e \in Asks \cup {Final} |-> "none"],
             asked   |-> [a \in Asks |-> "none"],
             final   |-> "none"]

HasEnded(r) == r.status \in Ended
OpenAsks(r) == {a \in Asks : r.ask[a] \in Open}

Refreshed(r) == IF HasEnded(r) THEN r ELSE [r EXCEPT !.blocked = OpenAsks(r) # {}]

\* cancel_provider_commands_for_interaction and cancel_interaction_deliveries
Withdrawn(r, A) ==
    [r EXCEPT !.cmd = [m \in Messages |->
                  IF r.cmd[m] \in Unsent /\ m[1] \in A
                  THEN "cancelled" ELSE r.cmd[m]],
              !.asked = [a \in Asks |->
                  IF a \in A /\ r.asked[a] = "queued" THEN "cancelled" ELSE r.asked[a]]]
NotAsked(r, a) == [r EXCEPT !.asked[a] = IF @ = "queued" THEN "cancelled" ELSE @]

\* A faulty variant: the questions already queued for the user stay.
AsksClosed_StillAsked(r) ==
    [r EXCEPT
        !.ask = [a \in Asks |-> IF r.ask[a] \in Open THEN "cancelled" ELSE r.ask[a]],
        !.blocked = FALSE]

AsksClosed(r) ==
    [Withdrawn(r, OpenAsks(r)) EXCEPT
        !.ask = [a \in Asks |-> IF r.ask[a] \in Open THEN "cancelled" ELSE r.ask[a]],
        !.blocked = FALSE]

CommandsFailed(r) ==
    [r EXCEPT !.cmd = [m \in Messages |-> IF @[m] \in Unsent THEN "failed" ELSE @[m]]]

\* What follows the write of the terminal row; the marker of the announcement
\* makes it once.
Settled(r) ==
    [CommandsFailed(AsksClosed(r)) EXCEPT
        !.final = "queued",
        !.event[Final] = IF @ = "unprocessed" THEN "processed" ELSE @]

\* An ask of the worker put to the user: save, block, deliver (once).
AskSaved(r, a) == Refreshed([r EXCEPT !.ask[a] = IF @ = "none" THEN "pending" ELSE @])
AskPut(r, a) ==
    [AskSaved(r, a) EXCEPT !.asked[a] = IF @ = "none" THEN "queued" ELSE @,
                           !.event[a] = "processed"]

\* The answer to an ask goes to the worker, or waits for its run.
Resolving(r, a, m, unsent) == [r EXCEPT !.ask[a] = "resolving", !.cmd[m] = unsent]

-----------------------------------------------------------------------------
VARIABLES
    led,       \* the ledger: durable
    job,       \* _task_jobs: where the dispatch of each task is
    todo,      \* commands _replay_provider_commands has still to look at
    run,       \* _runtime_runs has the task's run
    stopped,   \* the run's _cancelled event is set
    outbox,    \* events of the worker that its run has not yielded
    worker,    \* external: the worker is at work
    heard,     \* external: how often each message reached it
    call,      \* the owner's call that waits for a worker
    standing,  \* _standing_allow
    busy,      \* the handler a crash would cut short, and how far it is
    up,        \* the process runs and has started
    faults, crashes,  \* how much of each bound is used
    leaked,    \* history: workers whose close failed
    cut        \* history: endings, and answers to asks, that a crash cut short

volatile == <<job, todo, run, stopped, outbox, worker, call, standing, busy>>
vars     == <<led, volatile, heard, up, faults, crashes, leaked, cut>>

Waits   == {"resource", "slot", "lock"}
Holding == {"slot", "lock", "open", "start", "replay", "send", "cancel", "events",
            "reply", "failing", "close"}
InSlot  == Holding \ {"slot"}
Acts    == {"allow_once", "allow_session", "deny"}
Call    == [pc : {"idle", "steer", "reply", "cancel"}, task : Tasks \cup {NoTask},
            msg : Messages, act : Acts]
Idle    == [pc |-> "idle", task |-> NoTask, msg |-> Steer, act |-> "allow_once"]
Free    == [task |-> NoTask, at |-> "free", of |-> Final]

TypeOK ==
    /\ led \in [Tasks -> Record]
    /\ job \in [Tasks -> {"none", "resource"} \cup Holding]
    /\ todo \in [Tasks -> SUBSET Messages]
    /\ run \in [Tasks -> BOOLEAN] /\ stopped \in [Tasks -> BOOLEAN]
    /\ outbox \in [Tasks -> Seq(Asks \cup {Final})]
    /\ worker \in [Tasks -> BOOLEAN]
    /\ heard \in [Tasks -> [Messages -> Nat]]
    /\ call \in Call /\ standing \in BOOLEAN /\ up \in BOOLEAN
    /\ busy \in [task : Tasks \cup {NoTask}, at : {"free", "ask", "row", "rest"},
                 of : Asks \cup {Final}]
    /\ faults \in 0..MaxFaults /\ crashes \in 0..MaxCrashes
    /\ leaked \subseteq Tasks /\ cut \subseteq Tasks \X {"end", "ask"}

Init ==
    /\ led = [t \in Tasks |-> NoRecord]
    /\ job = [t \in Tasks |-> "none"] /\ todo = [t \in Tasks |-> {}]
    /\ run = [t \in Tasks |-> FALSE] /\ stopped = [t \in Tasks |-> FALSE]
    /\ outbox = [t \in Tasks |-> <<>>] /\ worker = [t \in Tasks |-> FALSE]
    /\ heard = [t \in Tasks |-> [m \in Messages |-> 0]]
    /\ call = Idle /\ standing = FALSE /\ busy = Free /\ up = TRUE
    /\ faults = 0 /\ crashes = 0 /\ leaked = {} /\ cut = {}

Running == up /\ busy = Free
Fault   == faults < MaxFaults /\ faults' = faults + 1
Unlocked(t) == ~(call.pc \in {"steer", "cancel"} /\ call.task = t)

\* The terminal row is written, and the rest of the ending follows.
EndRow(t, status) ==
    /\ led' = [led EXCEPT ![t].status = status]
    /\ busy' = [task |-> t, at |-> "rest", of |-> Final]
FinishEnding(t) ==
    /\ up /\ busy.task = t /\ busy.at = "rest"
    /\ led' = [led EXCEPT ![t] = Settled(@)]
    /\ busy' = Free
    /\ UNCHANGED <<job, todo, run, stopped, outbox, worker, heard, call, standing, up,
                   faults, crashes, leaked, cut>>

-----------------------------------------------------------------------------
(* The dispatch of a task (_dispatch).                                       *)

Goto(t, pc) == job' = [job EXCEPT ![t] = pc]
Others(t)   == {u \in Tasks : u # t}

TakeWorkspace(t) ==
    /\ Running /\ job[t] = "resource"
    /\ \A u \in Others(t) : WorkspaceOf[u] = WorkspaceOf[t] => job[u] \notin Holding
    /\ Goto(t, "slot")
    /\ UNCHANGED <<led, todo, run, stopped, outbox, worker, heard, call, standing, busy,
                   up, faults, crashes, leaked, cut>>

TakeSlot(t) ==
    /\ Running /\ job[t] = "slot"
    /\ Cardinality({u \in Tasks : job[u] \in InSlot}) < Slots
    /\ Goto(t, "lock")
    /\ UNCHANGED <<led, todo, run, stopped, outbox, worker, heard, call, standing, busy,
                   up, faults, crashes, leaked, cut>>

\* A faulty variant: a task that ended meanwhile keeps its place.
BeginRun_KeepsPlace(t) ==
    /\ Running /\ job[t] = "lock" /\ Unlocked(t)
    /\ ~HasEnded(led[t]) /\ Goto(t, "open")
    /\ led' = [led EXCEPT ![t].status = "running"]
    /\ UNCHANGED <<todo, run, stopped, outbox, worker, heard, call, standing, busy, up,
                   faults, crashes, leaked, cut>>

\* Under the task lock: a task that ended meanwhile is left alone.
BeginRun(t) ==
    /\ Running /\ job[t] = "lock" /\ Unlocked(t)
    /\ IF HasEnded(led[t])
       THEN Goto(t, "none") /\ UNCHANGED led
       ELSE Goto(t, "open") /\ led' = [led EXCEPT ![t].status = "running"]
    /\ UNCHANGED <<todo, run, stopped, outbox, worker, heard, call, standing, busy, up,
                   faults, crashes, leaked, cut>>

OpenProject(t) ==
    /\ Running /\ job[t] = "open" /\ Goto(t, "start")
    /\ UNCHANGED <<led, todo, run, stopped, outbox, worker, heard, call, standing, busy,
                   up, faults, crashes, leaked, cut>>

\* project_session.start returned: the run takes commands from now on, and those
\* that wait are sent to it first.
StartWorker(t) ==
    /\ Running /\ job[t] = "start" /\ Goto(t, "replay")
    /\ run' = [run EXCEPT ![t] = TRUE] /\ worker' = [worker EXCEPT ![t] = TRUE]
    /\ todo' = [todo EXCEPT ![t] = {m \in Messages : led[t].cmd[m] \in Unsent}]
    /\ UNCHANGED <<led, stopped, outbox, heard, call, standing, busy, up, faults, crashes,
                   leaked, cut>>

\* open_project or start failed or took too long.
StartFails(t) ==
    /\ Running /\ job[t] \in {"open", "start"} /\ Fault /\ Goto(t, "failing")
    /\ UNCHANGED <<led, todo, run, stopped, outbox, worker, heard, call, standing, busy,
                   up, crashes, leaked, cut>>

\* _deliver_provider_command up to its send: what is no longer unsent is skipped.
ReplayNext(t) ==
    /\ Running /\ job[t] = "replay"
    /\ \E m \in todo[t] :
          IF led[t].cmd[m] \in Unsent
          THEN Goto(t, "send") /\ led' = [led EXCEPT ![t].cmd[m] = "sending"]
               /\ todo' = [todo EXCEPT ![t] = {m} \cup @]
          ELSE todo' = [todo EXCEPT ![t] = @ \ {m}] /\ UNCHANGED <<led, job>>
    /\ UNCHANGED <<run, stopped, outbox, worker, heard, call, standing, busy, up, faults,
                   crashes, leaked, cut>>

\* What became of a message awaited by the gateway: the worker took it; it said
\* no (its question was answered already); or the wait ended with an error,
\* whether or not the worker had it.
Hears(t, m) == heard' = [heard EXCEPT ![t][m] = @ + 1]
Answered(t, m) == m # Steer /\ \E k \in AskReplies(m[1]) : heard[t][k] > 0
Send(t, m, accepted) ==
    \/ accepted /\ worker[t] /\ ~Answered(t, m) /\ Hears(t, m) /\ UNCHANGED faults
    \/ ~accepted /\ (~worker[t] \/ Answered(t, m)) /\ UNCHANGED <<heard, faults>>
    \/ ~accepted /\ Fault
       /\ (UNCHANGED heard \/ (worker[t] /\ ~Answered(t, m) /\ Hears(t, m)))

SentAs(accepted) == IF accepted THEN "sent" ELSE "failed"

\* A faulty variant: a message whose sending failed is tried again.
ReplaySent_Retries(t) ==
    /\ Running /\ job[t] = "send"
    /\ \E m \in todo[t], accepted \in BOOLEAN :
          /\ Send(t, m, accepted)
          /\ led' = [led EXCEPT ![t].cmd[m] = IF accepted THEN "sent" ELSE "pending"]
          /\ todo' = [todo EXCEPT ![t] = IF accepted THEN @ \ {m} ELSE @]
    /\ Goto(t, "replay")
    /\ UNCHANGED <<run, stopped, outbox, worker, call, standing, busy, up, crashes, leaked,
                   cut>>

\* A run that starts has no interaction yet, so what waits for it is a steer.
ReplaySent(t) ==
    /\ Running /\ job[t] = "send"
    /\ \E m \in todo[t], accepted \in BOOLEAN :
          /\ Send(t, m, accepted)
          /\ led' = [led EXCEPT ![t].cmd[m] = SentAs(accepted)]
          /\ todo' = [todo EXCEPT ![t] = @ \ {m}]
    /\ Goto(t, "replay")
    /\ UNCHANGED <<run, stopped, outbox, worker, call, standing, busy, up, crashes, leaked,
                   cut>>

\* A faulty variant: that the task was cancelled meanwhile is not looked at.
ReplayDone_Deaf(t) ==
    /\ Running /\ job[t] = "replay" /\ todo[t] = {}
    /\ Goto(t, "events")
    /\ UNCHANGED <<led, todo, run, stopped, outbox, worker, heard, call, standing, busy,
                   up, faults, crashes, leaked, cut>>

ReplayDone(t) ==
    /\ Running /\ job[t] = "replay" /\ todo[t] = {}
    /\ Goto(t, IF led[t].status = "cancelling" THEN "cancel" ELSE "events")
    /\ UNCHANGED <<led, todo, run, stopped, outbox, worker, heard, call, standing, busy,
                   up, faults, crashes, leaked, cut>>

\* run.cancel: the worker is stopped and its stream ends.
StopWorker(t) ==
    /\ worker' = [worker EXCEPT ![t] = FALSE] /\ stopped' = [stopped EXCEPT ![t] = TRUE]
Leave(t) == Goto(t, "close") /\ run' = [run EXCEPT ![t] = FALSE]

\* _terminal_from_cancel in the dispatch.
DispatchCancelled(t) ==
    /\ Running /\ job[t] = "cancel" /\ StopWorker(t) /\ Leave(t)
    /\ IF HasEnded(led[t]) THEN UNCHANGED <<led, busy>> ELSE EndRow(t, "cancelled")
    /\ UNCHANGED <<todo, outbox, heard, call, standing, up, faults, crashes, leaked, cut>>

DispatchCancelFails(t) ==
    /\ Running /\ job[t] = "cancel" /\ Fault /\ Goto(t, "failing")
    /\ UNCHANGED <<led, todo, run, stopped, outbox, worker, heard, call, standing, busy,
                   up, crashes, leaked, cut>>

\* ingest_worker_event: the ledger refuses an event of a run that is over.  The
\* stream ends with the worker's last event.
TakeEvent(t) ==
    /\ Running /\ job[t] = "events" /\ outbox[t] # <<>>
    /\ LET e == Head(outbox[t]) IN
       /\ outbox' = [outbox EXCEPT ![t] = Tail(@)]
       /\ IF led[t].status \in Live
          THEN /\ led' = [led EXCEPT ![t].event[e] = "unprocessed"]
               /\ busy' = [task |-> t, at |-> IF e = Final THEN "row" ELSE "ask", of |-> e]
               /\ UNCHANGED job
          ELSE /\ Goto(t, IF e = Final THEN "failing" ELSE "events")
               /\ UNCHANGED <<led, busy>>
    /\ UNCHANGED <<todo, run, stopped, worker, heard, call, standing, up, faults, crashes,
                   leaked, cut>>

StreamEnds(t) ==
    /\ Running /\ job[t] = "events" /\ stopped[t] /\ Goto(t, "failing")
    /\ UNCHANGED <<led, todo, run, stopped, outbox, worker, heard, call, standing, busy,
                   up, faults, crashes, leaked, cut>>

\* _reduce_event of the last event.
ReduceDone(t) ==
    /\ up /\ busy.task = t /\ busy.at = "row"
    /\ \E status \in {"completed", "failed"} : EndRow(t, status)
    /\ Leave(t)
    /\ UNCHANGED <<todo, stopped, outbox, worker, heard, call, standing, up, faults,
                   crashes, leaked, cut>>

\* _reduce_event of an ask: with a standing grant the gateway answers a permission
\* itself, and waits for the worker to take the answer.
ReduceAsk(t) ==
    /\ up /\ busy.task = t /\ busy.at = "ask" /\ busy' = Free
    /\ LET a == busy.of IN
       IF a \in Permissions /\ standing
       THEN led' = [led EXCEPT ![t] = Resolving(AskSaved(@, a), a, Reply(a, 0), "sending")]
            /\ Goto(t, "reply")
       ELSE led' = [led EXCEPT ![t] = AskPut(@, a)] /\ UNCHANGED job
    /\ UNCHANGED <<todo, run, stopped, outbox, worker, heard, call, standing, up, faults,
                   crashes, leaked, cut>>

\* The end of _resolve_interaction: it raises when the ask was closed meanwhile,
\* and by then has recorded the command's outcome.
ReplyOutcome(r, a, m, accepted) ==
    LET sent == [r EXCEPT !.cmd[m] = SentAs(accepted)] IN
    IF r.ask[a] # "resolving" THEN sent
    ELSE Refreshed(IF accepted THEN NotAsked([sent EXCEPT !.ask[a] = "resolved"], a)
                   ELSE [sent EXCEPT !.ask[a] = "pending"])

AutoReplied(t) ==
    /\ Running /\ job[t] = "reply"
    /\ \E a \in Permissions, accepted \in BOOLEAN :
          /\ led[t].event[a] = "unprocessed" /\ Send(t, Reply(a, 0), accepted)
          /\ LET r == ReplyOutcome(led[t], a, Reply(a, 0), accepted) IN
             IF led[t].ask[a] = "resolving"
             THEN led' = [led EXCEPT ![t] = [r EXCEPT !.event[a] = "processed"]]
                  /\ Goto(t, "events")
             ELSE led' = [led EXCEPT ![t] = r] /\ Goto(t, "failing")
    /\ UNCHANGED <<todo, run, stopped, outbox, worker, call, standing, busy, up, crashes,
                   leaked, cut>>

\* _fail_active_run_guarded
FailGuarded(t) ==
    /\ Running /\ job[t] = "failing" /\ Unlocked(t)
    /\ IF run[t] THEN Leave(t) ELSE Goto(t, "none") /\ UNCHANGED run
    /\ IF HasEnded(led[t]) THEN UNCHANGED <<led, busy>> ELSE EndRow(t, "failed")
    /\ UNCHANGED <<todo, stopped, outbox, worker, heard, call, standing, up, faults,
                   crashes, leaked, cut>>

\* run.close ends the worker, or fails; the workspace and the slot are free then.
CloseRun(t) ==
    /\ Running /\ job[t] = "close" /\ Goto(t, "none")
    /\ \/ worker' = [worker EXCEPT ![t] = FALSE] /\ UNCHANGED <<faults, leaked>>
       \/ Fault /\ worker[t] /\ leaked' = leaked \cup {t} /\ UNCHANGED worker
    /\ UNCHANGED <<led, todo, run, stopped, outbox, heard, call, standing, busy, up,
                   crashes, cut>>

Dispatch(t) ==
    \/ TakeWorkspace(t) \/ TakeSlot(t) \/ BeginRun(t) \/ OpenProject(t) \/ StartWorker(t)
    \/ ReplayNext(t) \/ ReplaySent(t) \/ ReplayDone(t) \/ DispatchCancelled(t)
    \/ TakeEvent(t) \/ StreamEnds(t) \/ ReduceDone(t) \/ ReduceAsk(t) \/ AutoReplied(t)
    \/ FailGuarded(t) \/ CloseRun(t) \/ FinishEnding(t)
DispatchFault(t) == StartFails(t) \/ DispatchCancelFails(t)

-----------------------------------------------------------------------------
(* The worker, external: it asks, it finishes, and it is heard no more once  *)
(* its run is over.                                                          *)

Emitted(t, e) ==
    led[t].event[e] # "none" \/ \E i \in DOMAIN outbox[t] : outbox[t][i] = e

WorkerAsks(t) ==
    /\ up /\ worker[t] /\ run[t]
    /\ \E a \in Asks : ~Emitted(t, a) /\ outbox' = [outbox EXCEPT ![t] = Append(@, a)]
    /\ UNCHANGED <<led, job, todo, run, stopped, worker, heard, call, standing, busy, up,
                   faults, crashes, leaked, cut>>

WorkerFinishes(t) ==
    /\ up /\ worker[t] /\ worker' = [worker EXCEPT ![t] = FALSE]
    /\ outbox' = [outbox EXCEPT ![t] = Append(@, Final)]
    /\ UNCHANGED <<led, job, todo, run, stopped, heard, call, standing, busy, up, faults,
                   crashes, leaked, cut>>

-----------------------------------------------------------------------------
(* The owner's calls: task_start, task_send, task_resolve, set_directive.    *)

Calling == Running /\ call = Idle
Waiting(pc, t, m, act) == call' = [pc |-> pc, task |-> t, msg |-> m, act |-> act]

\* The project row, the task row and its contract are one transaction.
TaskStart(t) ==
    /\ Calling /\ led[t].status = "none"
    /\ led' = [led EXCEPT ![t].status = "queued"] /\ Goto(t, "resource")
    /\ UNCHANGED <<todo, run, stopped, outbox, worker, heard, call, standing, busy, up,
                   faults, crashes, leaked, cut>>

\* _send_task: added to the instruction of a queued task; else a command, sent
\* under the task lock when the run is there, and found by its replay when not.
TaskSend(t) ==
    /\ Calling /\ led[t].status \in {"queued"} \cup Live /\ led[t].cmd[Steer] = "none"
    /\ \A a \in Asks : led[t].ask[a] # "pending"
    /\ IF led[t].status = "queued"
       THEN led' = [led EXCEPT ![t].cmd[Steer] = "sent"]
            /\ Hears(t, Steer) /\ UNCHANGED call
       ELSE IF run[t]
       THEN led' = [led EXCEPT ![t].cmd[Steer] = "sending"]
            /\ Waiting("steer", t, Steer, "allow_once") /\ UNCHANGED heard
       ELSE led' = [led EXCEPT ![t].cmd[Steer] = "pending"] /\ UNCHANGED <<call, heard>>
    /\ UNCHANGED <<job, todo, run, stopped, outbox, worker, standing, busy, up, faults,
                   crashes, leaked, cut>>

SteerSent ==
    /\ Running /\ call.pc = "steer" /\ call' = Idle
    /\ LET t == call.task IN
       \E accepted \in BOOLEAN :
          /\ Send(t, Steer, accepted)
          /\ led' = [led EXCEPT ![t].cmd[Steer] = SentAs(accepted)]
    /\ UNCHANGED <<job, todo, run, stopped, outbox, worker, standing, busy, up, crashes,
                   leaked, cut>>

\* The one pending ask of the task, when it is the only one: task_send answers a
\* question (_control_reply), task_resolve a permission; more than one is refused
\* as ambiguous.  Only a task that has not ended is addressed.
Answerable(t, a) ==
    /\ led[t].status \in Live /\ led[t].ask[a] = "pending"
    /\ \A b \in Asks \ {a} :
          led[t].ask[b] = "pending" => a \in Permissions /\ b \notin Permissions

\* _resolve_interaction up to the send
Resolve(t) ==
    /\ Calling
    /\ \E a \in Asks, n \in 1..MaxReplies, act \in Acts :
          /\ Answerable(t, a) /\ led[t].cmd[Reply(a, n)] = "none"
          /\ a \in Permissions \/ act = "allow_once"
          /\ IF run[t]
             THEN /\ led' = [led EXCEPT ![t] = Resolving(@, a, Reply(a, n), "sending")]
                  /\ Waiting("reply", t, Reply(a, n), act)
             ELSE /\ led' = [led EXCEPT ![t] =
                         Refreshed(NotAsked(Resolving(@, a, Reply(a, n), "pending"), a))]
                  /\ UNCHANGED call
    /\ UNCHANGED <<job, todo, run, stopped, outbox, worker, heard, standing, busy, up,
                   faults, crashes, leaked, cut>>

Resolved ==
    /\ Running /\ call.pc = "reply" /\ call' = Idle
    /\ LET t == call.task
           a == call.msg[1] IN
       \E accepted \in BOOLEAN :
          /\ Send(t, call.msg, accepted)
          /\ led' = [led EXCEPT ![t] = ReplyOutcome(@, a, call.msg, accepted)]
          /\ standing' = IF ~accepted \/ a \notin Permissions \/ led[t].ask[a] # "resolving"
                         THEN standing
                         ELSE (standing \/ call.act = "allow_session") /\ call.act # "deny"
    /\ UNCHANGED <<job, todo, run, stopped, outbox, worker, busy, up, crashes, leaked, cut>>

\* _cancel_task: a queued task ends here; a run is told to stop under the task
\* lock, or, when it is not there yet, finds the task cancelling once it is.
TaskCancel(t) ==
    /\ Calling /\ led[t].status \in {"queued"} \cup Live
    /\ IF led[t].status = "queued"
       THEN EndRow(t, "cancelled") /\ UNCHANGED call
       ELSE /\ led' = [led EXCEPT ![t].status = "cancelling"] /\ UNCHANGED busy
            /\ IF run[t] THEN Waiting("cancel", t, Steer, "deny") ELSE UNCHANGED call
    /\ UNCHANGED <<job, todo, run, stopped, outbox, worker, heard, standing, up, faults,
                   crashes, leaked, cut>>

\* run.cancel returned: _terminal_from_cancel
CancelAcked ==
    /\ Running /\ call.pc = "cancel" /\ call' = Idle
    /\ LET t == call.task IN
       /\ StopWorker(t)
       /\ IF HasEnded(led[t]) THEN UNCHANGED <<led, busy>> ELSE EndRow(t, "cancelled")
    /\ UNCHANGED <<job, todo, run, outbox, heard, standing, up, faults, crashes, leaked,
                   cut>>

\* It raised or took too long; the worker may have stopped all the same, and its
\* stream then ends with a failure.
CancelFails ==
    /\ Running /\ call.pc = "cancel" /\ call' = Idle /\ Fault
    /\ LET t == call.task IN
       \/ worker[t] /\ worker' = [worker EXCEPT ![t] = FALSE]
          /\ outbox' = [outbox EXCEPT ![t] = Append(@, Final)]
       \/ UNCHANGED <<worker, outbox>>
    /\ UNCHANGED <<led, job, todo, run, stopped, heard, standing, busy, up, crashes,
                   leaked, cut>>

\* set_directive("revoke_session"), and "deny" with nothing to deny
Revoke ==
    /\ Running /\ standing /\ standing' = FALSE
    /\ UNCHANGED <<led, job, todo, run, stopped, outbox, worker, heard, call, busy, up,
                   faults, crashes, leaked, cut>>

CallReturns == SteerSent \/ Resolved \/ CancelAcked

-----------------------------------------------------------------------------
(* The process dies, its workers with it, and a later one starts.            *)

Crash ==
    /\ up /\ crashes < MaxCrashes /\ crashes' = crashes + 1
    /\ up' = FALSE
    /\ job' = [t \in Tasks |-> "none"] /\ todo' = [t \in Tasks |-> {}]
    /\ run' = [t \in Tasks |-> FALSE] /\ stopped' = [t \in Tasks |-> FALSE]
    /\ outbox' = [t \in Tasks |-> <<>>] /\ worker' = [t \in Tasks |-> FALSE]
    /\ call' = Idle /\ standing' = FALSE /\ busy' = Free
    /\ cut' = cut \cup {<<t, "end">> : t \in {u \in Tasks : busy.task = u /\ busy.at = "rest"
                                              /\ led[u].event[Final] # "unprocessed"}}
                  \cup {<<t, "ask">> : t \in {u \in Tasks :
                            \E a \in Asks : led[u].event[a] = "unprocessed" /\ busy.task # u}}
    /\ leaked' = {}
    /\ UNCHANGED <<led, heard, faults>>

\* start(), in its order: every step of it is one pass over the ledger, and none
\* of its awaits suspends.
SendingReset(r) ==
    [r EXCEPT !.cmd = [m \in Messages |-> IF @[m] = "sending" THEN "pending" ELSE @[m]]]

\* Permissions do not outlive a process. In lean mode this is the only expiry: the
\* one at run time is reached from coordinate_turn alone, which lean mode refuses,
\* and the reply queued here goes to a run that the same start() fails.
PermissionsExpired(r) ==
    LET A == OpenAsks(r) \cap Permissions IN
    Refreshed([Withdrawn(r, A) EXCEPT
                  !.ask = [a \in Asks |-> IF a \in A THEN "expired" ELSE r.ask[a]]])

RepliesWith(r, a, states) == \E m \in AskReplies(a) : r.cmd[m] \in states
SentFinished(r) ==
    LET A == {a \in Asks : r.ask[a] = "resolving" /\ RepliesWith(r, a, {"sent"})} IN
    Refreshed([r EXCEPT
        !.ask   = [a \in Asks |-> IF a \in A THEN "resolved" ELSE @[a]],
        !.asked = [a \in Asks |-> IF a \in A /\ @[a] = "queued" THEN "cancelled" ELSE @[a]]])
ResolvingRecovered(r) ==
    Refreshed([r EXCEPT !.ask = [a \in Asks |->
        IF @[a] = "resolving" /\ ~RepliesWith(r, a, Unsent \cup {"sent"})
        THEN "pending" ELSE @[a]]])

\* The events that were not processed are reduced again, an ask always for the user.
AsksReplayed(r) ==
    LET A == {a \in Asks : r.event[a] = "unprocessed"} IN
    Refreshed([r EXCEPT
        !.ask   = [a \in Asks |-> IF a \in A /\ @[a] = "none" THEN "pending" ELSE @[a]],
        !.asked = [a \in Asks |-> IF a \in A /\ @[a] = "none" THEN "queued" ELSE @[a]],
        !.event = [e \in Asks \cup {Final} |-> IF e \in A THEN "processed" ELSE @[e]]])
\* What the worker reported, if it did; else the row as it was written, or failed.
Terminal(r, status) ==
    IF r.event[Final] = "unprocessed"
    THEN Settled([r EXCEPT !.status = IF HasEnded(r) THEN @ ELSE status])
    ELSE IF r.status \in Live THEN Settled([r EXCEPT !.status = "failed"]) ELSE r

Recovered(r, status) ==
    Terminal(AsksReplayed(ResolvingRecovered(SentFinished(PermissionsExpired(
        SendingReset(r))))), status)

Restart ==
    /\ ~up /\ up' = TRUE
    /\ \E status \in [Tasks -> {"completed", "failed"}] :
          led' = [t \in Tasks |-> Recovered(led[t], status[t])]
    /\ job' = [t \in Tasks |-> IF led[t].status = "queued" THEN "resource" ELSE "none"]
    /\ UNCHANGED <<todo, run, stopped, outbox, worker, heard, call, standing, busy, faults,
                   crashes, leaked, cut>>

-----------------------------------------------------------------------------
Next ==
    \/ \E t \in Tasks :
          \/ Dispatch(t) \/ DispatchFault(t) \/ WorkerAsks(t) \/ WorkerFinishes(t)
          \/ TaskStart(t) \/ TaskSend(t) \/ Resolve(t) \/ TaskCancel(t)
    \/ CallReturns \/ CancelFails \/ Revoke \/ Crash \/ Restart

Spec == Init /\ [][Next]_vars

\* What the loop runs when it can, and the providers' calls, which have timeouts;
\* not the workers' own pace, and not what the user does.
Fairness ==
    /\ \A t \in Tasks : WF_vars(Dispatch(t))
    /\ WF_vars(CallReturns) /\ WF_vars(Restart)
FairSpec == Spec /\ Fairness

-----------------------------------------------------------------------------
Quiet == busy = Free

\* A workspace has one run at a time: a worker that is at work there is the one
\* whose dispatch holds the workspace, unless its close failed.
OneWorkerPerWorkspace ==
    \A t, u \in Tasks :
       t # u /\ WorkspaceOf[t] = WorkspaceOf[u] /\ worker[t] /\ worker[u]
       => t \in leaked \/ u \in leaked

\* The flag that holds a task back says exactly whether one of its asks is open,
\* however the answer, the end of the task and a restart fell.
BlockedIsExact ==
    up => \A t \in Tasks : busy.task # t /\ <<t, "end">> \notin cut =>
       (led[t].blocked <=> ~HasEnded(led[t]) /\ OpenAsks(led[t]) # {})

\* The user hears of every end: nothing but a crash between the row and the
\* announcement loses it.
EndIsAnnounced ==
    \A t \in Tasks : up /\ HasEnded(led[t]) /\ busy.task # t =>
       led[t].final = "queued" \/ <<t, "end">> \in cut

\* An interaction on its way to the worker has somebody who waits for it.
ResolvingIsAttended ==
    up /\ Quiet => \A t \in Tasks, a \in Asks : led[t].ask[a] = "resolving" =>
       \/ call.pc = "reply" /\ call.task = t /\ call.msg \in AskReplies(a)
       \/ job[t] = "reply" /\ led[t].event[a] = "unprocessed"

\* Nobody is asked about a task that is over.
NoMootAsk ==
    up => \A t \in Tasks, a \in Asks :
       busy.task # t /\ HasEnded(led[t]) /\ led[t].asked[a] = "queued"
       => \E what \in {"end", "ask"} : <<t, what>> \in cut

\* A message reaches the worker once, through the replay, the direct send and a
\* restart.
HeardOnce == \A t \in Tasks, m \in Messages : heard[t][m] <= 1

\* How a task ended is how it stays.
EndIsFinal ==
    [][\A t \in Tasks : HasEnded(led[t]) => led'[t].status = led[t].status]_vars

\* A task told to stop ends, without the worker's help, unless the call failed.
CancelEnds ==
    \A t \in Tasks : led[t].status = "cancelling" ~> HasEnded(led[t]) \/ faults > 0

\* If every worker finishes, every task ends: none waits for ever for its workspace,
\* a slot, its task's lock or an answer, through failures, cancels and restarts.
EveryTaskEnds ==
    (\A t \in Tasks : WF_vars(WorkerFinishes(t))) =>
        \A t \in Tasks : led[t].status = "queued" ~> HasEnded(led[t])
=============================================================================
