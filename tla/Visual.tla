-------------------------------- MODULE Visual --------------------------------
(***************************************************************************)
(* The visual service: sessions over a host's screen stream that answer    *)
(* decide and perceive, and the way of their usage to the control plane's  *)
(* ledger (visual/service.py, visual/metering.py; usage_api.py and         *)
(* visual_usage.py of the service).                                        *)
(*                                                                         *)
(* Requests run on threads.  A session's inference lock is held over the   *)
(* model's call, its other lock is not, so frames and tasks change         *)
(* meanwhile.  An action is what happens under one hold of a lock.  All    *)
(* usage counters go the same way and are one number here; the split at    *)
(* midnight is left out.                                                   *)
(***************************************************************************)
EXTENDS Naturals, Sequences, FiniteSetsExt

CONSTANTS
    VsSessions,   \* sessions that may be created
    VsCallers,    \* requests in flight
    VsRequests,   \* request ids
    VsGoals,      \* goals a session's task may have
    MaxSessions,  \* max_sessions
    MaxFrames,    \* max_frames_per_session
    MaxAnswers,   \* max_decisions_per_session
    MaxReplay,    \* max_replay_entries
    MaxExpired,   \* max_expired_requests
    MaxOut,       \* max_outstanding_decisions
    MaxQueue,     \* max_pending of the sink
    MaxBatch,     \* max_batch_reports
    MaxTasks,     \* bound: changes of a session's task
    MaxFree,      \* bound: reads, reuses and illegal decisions, which no quota limits
    MaxVsFaults,  \* bound: posts that go wrong
    NoGoal, NoSession

\* The service and the sink refuse smaller sizes; a batch has up to 500 reports.
ASSUME VsAssumption == {MaxReplay, MaxExpired, MaxOut, MaxQueue, MaxBatch} \subseteq Nat \ {0}

VARIABLES
    vs,        \* the sessions
    vcall,      \* the requests
    pending,   \* reports of closed sessions that wait in the service
    sink,      \* the usage sink's thread, its queue, and the reports it collects
    net,       \* batches whose post timed out and that may still arrive
    counted,    \* reports the control plane has recorded
    life,      \* the process: "new", "up", "stopping" or "down"
    vsfaults,
    dropped,   \* history: reports that fell out of a full queue
    answered   \* history: request ids answered by an inference, in order

vsVars == <<vs, vcall, pending, sink, net, counted, life, vsfaults, dropped, answered>>

Kinds    == {"decision", "perception"}
Looks    == {"a", "b"}    \* what a screen shows that stood still for a second
Window   == [replay |-> <<>>, expired |-> <<>>]
NewVs    == [st |-> "none", frames |-> 0, look |-> "moving", goal |-> NoGoal,
             tasks |-> 0, win |-> [k \in Kinds |-> Window], reuse |-> {}, out |-> <<>>,
             issued |-> 0, reserved |-> 0, answers |-> 0, attempts |-> 0, reads |-> 0,
             spoiled |-> 0, reused |-> 0, reported |-> 0, rseq |-> 0]
NoCall   == [pc |-> "idle", s |-> NoSession, kind |-> "decision", req |-> NoSession,
             frame |-> 0, goal |-> NoGoal, seen |-> {}]
SinkOff  == [pc |-> "idle", todo |-> {}, got |-> <<>>, queue |-> <<>>, tries |-> 0]

VsInit ==
    /\ vs = [s \in VsSessions |-> NewVs] /\ vcall = [c \in VsCallers |-> NoCall]
    /\ pending = <<>> /\ sink = SinkOff /\ net = {} /\ counted = {} /\ life = "new"
    /\ vsfaults = 0 /\ dropped = {}
    /\ answered = [s \in VsSessions |-> [k \in Kinds |-> <<>>]]

Items(q)   == {q[i] : i \in DOMAIN q}
Used(s)    == vs[s].frames + vs[s].answers + vs[s].attempts + vs[s].reads
              + vs[s].spoiled
MayRepeat(v)    == v.reads + v.spoiled + v.reused < MaxFree
\* A request that found the session in the table may run until it is closed.
Reachable(s)    == vs[s].st \in {"open", "closing"}
\* q without its i-th item
Without(q, i)   == SubSeq(q, 1, i - 1) \o SubSeq(q, i + 1, Len(q))
\* the n last items of q
Newest(q, n) == SubSeq(q, IF Len(q) > n THEN Len(q) - n + 1 ELSE 1, Len(q))

Goals     == VsGoals \cup {NoGoal}
VsStates  == [st : {"none", "open", "closing", "closed"}, frames : Nat,
              look : Looks \cup {"moving"}, goal : Goals, tasks : Nat,
              win : [Kinds -> [replay : Seq(VsRequests), expired : Seq(VsRequests)]],
              reuse : SUBSET Looks, out : Seq([id : Nat, goal : Goals]), issued : Nat,
              reserved : Nat, answers : Nat, attempts : Nat, reads : Nat,
              spoiled : Nat, reused : Nat,
              reported : Nat, rseq : Nat]
VsCalls   == [pc : {"idle", "lock", "model"}, s : VsSessions \cup {NoSession}, kind : Kinds,
              req : VsRequests \cup {NoSession}, frame : Nat, goal : Goals,
              seen : SUBSET Looks]
VsReports == [sess : VsSessions, seq : Nat, units : Nat, last : BOOLEAN]
VsSinks   == [pc : {"idle", "collect", "post", "dead"}, todo : SUBSET VsSessions,
              got : Seq(VsReports), queue : Seq(VsReports), tries : Nat]

VsTypeOK ==
    /\ vs \in [VsSessions -> VsStates] /\ vcall \in [VsCallers -> VsCalls]
    /\ pending \in Seq(VsReports) /\ sink \in VsSinks
    /\ counted \in SUBSET VsReports /\ dropped \in SUBSET VsReports
    /\ net \in SUBSET SUBSET VsReports /\ vsfaults \in Nat
    /\ life \in {"new", "up", "stopping", "down"}
    /\ answered \in [VsSessions -> [Kinds -> Seq(VsRequests)]]

-----------------------------------------------------------------------------
(* The host's and the planner's short calls.                                 *)

\* create_session
CreateSession(s) ==
    /\ life = "up" /\ vs[s].st = "none" /\ vs' = [vs EXCEPT ![s].st = "open"]
    /\ Cardinality({x \in VsSessions : vs[x].st = "open"}) < MaxSessions
    /\ UNCHANGED <<vcall, pending, sink, net, counted, life, vsfaults, dropped, answered>>

\* publish_frame
PublishFrame(s) ==
    /\ life = "up" /\ Reachable(s) /\ vs[s].frames < MaxFrames
    /\ \E look \in Looks \cup {"moving"} :
          vs' = [vs EXCEPT ![s].frames = @ + 1, ![s].look = look]
    /\ UNCHANGED <<vcall, pending, sink, net, counted, life, vsfaults, dropped, answered>>

\* set_task and reset_task; the same task again changes nothing
SetTask(s) ==
    /\ life = "up" /\ Reachable(s) /\ vs[s].tasks < MaxTasks
    /\ \E goal \in (VsGoals \cup {NoGoal}) \ {vs[s].goal} :
          vs' = [vs EXCEPT ![s].goal = goal, ![s].tasks = @ + 1,
                           ![s].win["decision"] = Window, ![s].out = <<>>]
    /\ answered' = [answered EXCEPT ![s]["decision"] = <<>>]
    /\ UNCHANGED <<vcall, pending, sink, net, counted, life, vsfaults, dropped>>

\* record_attempt
RecordAttempt(s) ==
    /\ life = "up" /\ Reachable(s)
    /\ \E i \in DOMAIN vs[s].out :
          vs' = [vs EXCEPT ![s].attempts = @ + 1,
                           ![s].out = Without(@, i)]
    /\ UNCHANGED <<vcall, pending, sink, net, counted, life, vsfaults, dropped, answered>>

\* history, inspect and read_pixels; the first needs no frame
Read(s) ==
    /\ life = "up" /\ Reachable(s) /\ MayRepeat(vs[s])
    /\ vs' = [vs EXCEPT ![s].reads = @ + 1]
    /\ UNCHANGED <<vcall, pending, sink, net, counted, life, vsfaults, dropped, answered>>

-----------------------------------------------------------------------------
(* decide and perceive.                                                      *)

Ask(c) ==
    /\ life = "up" /\ vcall[c].pc = "idle"
    /\ \E s \in VsSessions, k \in Kinds, r \in VsRequests :
          /\ vs[s].st = "open"
          /\ vcall' = [vcall EXCEPT ![c] = [NoCall EXCEPT !.pc = "lock", !.s = s, !.kind = k,
                                                        !.req = r]]
    /\ UNCHANGED <<vs, pending, sink, net, counted, life, vsfaults, dropped, answered>>

InferenceLocked(s) == \E c \in VsCallers : vcall[c].pc = "model" /\ vcall[c].s = s
EnterAt(c) == life = "up" /\ vcall[c].pc = "lock" /\ ~InferenceLocked(vcall[c].s)

HasSubject(v, k) == v.frames > 0 /\ (k = "decision" => v.goal # NoGoal)
Reusable(v, k)   == HasSubject(v, k) /\ k = "perception" /\ v.look \in v.reuse
\* _reserve_inference
Reservable(v, k) == HasSubject(v, k) /\ v.answers + v.reserved < MaxAnswers
Fresh(w, r)      == r \notin Items(w.replay) \cup Items(w.expired)

\* A faulty variant: an answer that falls out of the window is forgotten.
Remember_ReplayOnly(w, r) ==
    [w EXCEPT !.replay = Newest(Append(w.replay, r), MaxReplay)]

Remember(w, r) ==
    LET grown == Append(w.replay, r)
    IN  IF Len(grown) <= MaxReplay THEN [w EXCEPT !.replay = grown]
        ELSE [replay |-> Tail(grown), expired |-> Newest(Append(w.expired, grown[1]), MaxExpired)]

\* An id in the window gets its answer again, and moves to the window's end.
Replayed(c) ==
    LET s == vcall[c].s  k == vcall[c].kind  r == vcall[c].req
    IN  /\ EnterAt(c) /\ Reachable(s)
        /\ \E i \in DOMAIN vs[s].win[k].replay :
              /\ vs[s].win[k].replay[i] = r
              /\ vs' = [vs EXCEPT ![s].win[k].replay = Append(Without(@, i), r)]
        /\ vcall' = [vcall EXCEPT ![c] = NoCall]
        /\ UNCHANGED <<pending, sink, net, counted, life, vsfaults, dropped, answered>>

AskRefused(c) ==
    LET s == vcall[c].s  k == vcall[c].kind  w == vs[s].win[k]
    IN  /\ EnterAt(c)
        /\ \/ ~Reachable(s) \/ vcall[c].req \in Items(w.expired)
           \/ /\ Fresh(w, vcall[c].req)
              /\ ~Reusable(vs[s], k) /\ ~Reservable(vs[s], k)
        /\ vcall' = [vcall EXCEPT ![c] = NoCall]
        /\ UNCHANGED <<vs, pending, sink, net, counted, life, vsfaults, dropped, answered>>

\* A still screen that was perceived is not perceived again.
Reused(c) ==
    LET s == vcall[c].s  k == vcall[c].kind
    IN  /\ EnterAt(c) /\ Reachable(s) /\ Fresh(vs[s].win[k], vcall[c].req) /\ Reusable(vs[s], k)
        /\ MayRepeat(vs[s])
        /\ vs' = [vs EXCEPT ![s].win[k] = Remember(@, vcall[c].req), ![s].answers = @ + 1,
                     ![s].reused = @ + 1]
        /\ vcall' = [vcall EXCEPT ![c] = NoCall]
        /\ answered' = [answered EXCEPT ![s][k] = Append(@, vcall[c].req)]
        /\ UNCHANGED <<pending, sink, net, counted, life, vsfaults, dropped>>

\* The snapshot that the model will see is taken.
Reserve(c) ==
    LET s == vcall[c].s  k == vcall[c].kind
    IN  /\ EnterAt(c) /\ Reachable(s) /\ Fresh(vs[s].win[k], vcall[c].req)
        /\ ~Reusable(vs[s], k) /\ Reservable(vs[s], k)
        /\ vs' = [vs EXCEPT ![s].reserved = @ + 1]
        /\ vcall' = [vcall EXCEPT ![c].pc = "model", ![c].frame = vs[s].frames,
                                ![c].goal = vs[s].goal,
                                ![c].seen = {vs[s].look} \cap Looks]
        /\ UNCHANGED <<pending, sink, net, counted, life, vsfaults, dropped, answered>>

\* The model fails; nothing is remembered.
ModelRefuses(c) ==
    /\ life = "up" /\ vcall[c].pc = "model"
    /\ vs' = [vs EXCEPT ![vcall[c].s].reserved = @ - 1]
    /\ vcall' = [vcall EXCEPT ![c] = NoCall]
    /\ UNCHANGED <<pending, sink, net, counted, life, vsfaults, dropped, answered>>

\* A decision that is not legal, or on an older frame, is not given; the time of the
\* inference is use all the same.
Spoiled(c) ==
    LET s == vcall[c].s
    IN  /\ life = "up" /\ vcall[c].pc = "model" /\ vcall[c].kind = "decision"
        /\ vs[s].frames # vcall[c].frame \/ MayRepeat(vs[s])
        /\ vs' = [vs EXCEPT ![s].reserved = @ - 1, ![s].spoiled = @ + 1]
        /\ vcall' = [vcall EXCEPT ![c] = NoCall]
        /\ UNCHANGED <<pending, sink, net, counted, life, vsfaults, dropped, answered>>

\* A decision is given; nobody looks at the task again.
Decided(c) ==
    LET s == vcall[c].s  v == vs[s]
    IN  /\ life = "up" /\ vcall[c].pc = "model" /\ vcall[c].kind = "decision"
        /\ v.frames = vcall[c].frame
        /\ vs' = [vs EXCEPT ![s].reserved = @ - 1, ![s].answers = @ + 1,
                     ![s].win["decision"] = Remember(@, vcall[c].req),
                     ![s].issued = @ + 1,
                     ![s].out = Newest(Append(@, [id   |-> v.issued + 1,
                                                goal |-> vcall[c].goal]), MaxOut)]
        /\ answered' = [answered EXCEPT ![s]["decision"] = Append(@, vcall[c].req)]
        /\ vcall' = [vcall EXCEPT ![c] = NoCall]
        /\ UNCHANGED <<pending, sink, net, counted, life, vsfaults, dropped>>

\* A perception is given whatever frames came meanwhile; a still one is kept for reuse.
Perceived(c) ==
    LET s == vcall[c].s
    IN  /\ life = "up" /\ vcall[c].pc = "model" /\ vcall[c].kind = "perception"
        /\ vs' = [vs EXCEPT ![s].reserved = @ - 1, ![s].answers = @ + 1,
                     ![s].win["perception"] = Remember(@, vcall[c].req),
                     ![s].reuse = @ \cup vcall[c].seen]
        /\ answered' = [answered EXCEPT ![s]["perception"] = Append(@, vcall[c].req)]
        /\ vcall' = [vcall EXCEPT ![c] = NoCall]
        /\ UNCHANGED <<pending, sink, net, counted, life, vsfaults, dropped>>

-----------------------------------------------------------------------------
(* The end of a session, by its host or the idle sweep, and its last report. *)

Report(s, last) == [sess |-> s, seq |-> vs[s].rseq + 1, units |-> Used(s) - vs[s].reported,
                    last |-> last]

\* A faulty variant: the next report gets the same event id.
Reports_SameId(s) == [vs EXCEPT ![s].reported = Used(s)]

Reports(s) == [vs EXCEPT ![s].rseq = @ + 1, ![s].reported = Used(s)]

\* The session leaves the table; its close waits for the inference lock.
CloseSession(s) ==
    /\ life = "up" /\ vs[s].st = "open" /\ vs' = [vs EXCEPT ![s].st = "closing"]
    /\ UNCHANGED <<vcall, pending, sink, net, counted, life, vsfaults, dropped, answered>>
Sweep(s) ==
    /\ life = "up" /\ vs[s].st = "open" /\ vs[s].reserved = 0
    /\ vs' = [vs EXCEPT ![s].st = "closing"]
    /\ UNCHANGED <<vcall, pending, sink, net, counted, life, vsfaults, dropped, answered>>

\* What does not fit any more falls out at the front.
Kept(q)    == Newest(q, MaxQueue)
Fallen(q)  == Items(q) \ Items(Kept(q))

\* _finish_close: the report that says closed has whatever was not reported yet.
FinishClose(s) ==
    LET grown == Append(pending, Report(s, TRUE))
    IN  /\ life = "up" /\ vs[s].st = "closing" /\ ~InferenceLocked(s)
        /\ vs' = [Reports(s) EXCEPT ![s].st = "closed", ![s].win = [k \in Kinds |-> Window],
                     ![s].out = <<>>, ![s].reuse = {}, ![s].goal = NoGoal]
        /\ pending' = Kept(grown) /\ dropped' = dropped \cup Fallen(grown)
        /\ answered' = [answered EXCEPT ![s] = [k \in Kinds |-> <<>>]]
        /\ UNCHANGED <<vcall, sink, net, counted, life, vsfaults>>

-----------------------------------------------------------------------------
(* The usage sink: _flush_locked, on its thread or in stop.                  *)

SinkRuns(pc) == life \in {"up", "stopping"} /\ sink.pc = pc

FlushBegins ==
    /\ SinkRuns("idle") \/ (SinkRuns("dead") /\ life = "stopping")
    /\ life = "stopping" => sink.tries < 3
    /\ sink' = [sink EXCEPT !.pc = "collect", !.got = pending,
                            !.todo = {s \in VsSessions : vs[s].st = "open"},
                            !.tries = IF life = "stopping" THEN @ + 1 ELSE @]
    /\ pending' = <<>>
    /\ UNCHANGED <<vs, vcall, net, counted, life, vsfaults, dropped, answered>>

Collect(s) ==
    /\ SinkRuns("collect") /\ s \in sink.todo
    /\ IF Reachable(s) /\ Used(s) # vs[s].reported
       THEN /\ sink' = [sink EXCEPT !.todo = @ \ {s}, !.got = Append(@, Report(s, FALSE))]
            /\ vs' = Reports(s)
       ELSE sink' = [sink EXCEPT !.todo = @ \ {s}] /\ UNCHANGED vs
    /\ UNCHANGED <<vcall, pending, net, counted, life, vsfaults, dropped, answered>>

Posts(queue) == IF queue = <<>> THEN "idle" ELSE "post"
Enqueue ==
    LET grown == sink.queue \o sink.got
    IN  /\ SinkRuns("collect") /\ sink.todo = {}
        /\ sink' = [sink EXCEPT !.pc = Posts(Kept(grown)), !.queue = Kept(grown), !.got = <<>>]
        /\ dropped' = dropped \cup Fallen(grown)
        /\ UNCHANGED <<vs, vcall, pending, net, counted, life, vsfaults, answered>>

Batch == SubSeq(sink.queue, 1, IF Len(sink.queue) < MaxBatch THEN Len(sink.queue) ELSE MaxBatch)

\* The control plane records the batch and says so (visual_usage_callback, record).
PostHeard ==
    /\ SinkRuns("post") /\ counted' = counted \cup Items(Batch)
    /\ LET rest == SubSeq(sink.queue, Len(Batch) + 1, Len(sink.queue))
       IN  sink' = [sink EXCEPT !.pc = Posts(rest), !.queue = rest]
    /\ UNCHANGED <<vs, vcall, pending, net, life, vsfaults, dropped, answered>>

\* A faulty variant: the batch leaves the queue before it is accepted.
PostFails_Pops ==
    /\ SinkRuns("post") /\ vsfaults < MaxVsFaults /\ vsfaults' = vsfaults + 1
    /\ sink' = [sink EXCEPT !.pc = "idle",
                            !.queue = SubSeq(@, Len(Batch) + 1, Len(@))]
    /\ UNCHANGED <<vs, vcall, pending, net, counted, life, dropped, answered>>

\* The post fails: nothing arrived, or some of the batch did before one report was
\* refused, or all of it may still arrive.  An error that is not an OSError or a
\* ValueError ends the thread.
PostFails ==
    /\ SinkRuns("post") /\ vsfaults < MaxVsFaults /\ vsfaults' = vsfaults + 1
    /\ \/ (\E n \in 0..Len(Batch) : counted' = counted \cup Items(SubSeq(Batch, 1, n)))
             /\ UNCHANGED net
       \/ net' = net \cup {Items(Batch)} /\ UNCHANGED counted
    /\ \E pc \in {"idle", "dead"} : sink' = [sink EXCEPT !.pc = pc]
    /\ UNCHANGED <<vs, vcall, pending, life, dropped, answered>>

Arrives ==
    /\ \E batch \in net : net' = net \ {batch} /\ counted' = counted \cup batch
    /\ UNCHANGED <<vs, vcall, pending, sink, life, vsfaults, dropped, answered>>

\* The service starts with its sink; the server has answered every request and stops; or
\* the process dies.
Boot ==
    /\ life = "new" /\ life' = "up"
    /\ UNCHANGED <<vs, vcall, pending, sink, net, counted, vsfaults, dropped, answered>>
Stop ==
    /\ life = "up" /\ life' = "stopping" /\ \A c \in VsCallers : vcall[c].pc = "idle"
    /\ UNCHANGED <<vs, vcall, pending, sink, net, counted, vsfaults, dropped, answered>>
Down ==
    /\ SinkRuns("idle") \/ SinkRuns("dead")
    /\ life = "stopping" /\ life' = "down"
    /\ sink.tries = 3 \/ (sink.tries > 0 /\ sink.queue = <<>>)
    /\ UNCHANGED <<vs, vcall, pending, sink, net, counted, vsfaults, dropped, answered>>
Dies ==
    /\ life \in {"up", "stopping"} /\ life' = "down"
    /\ vsfaults < MaxVsFaults /\ vsfaults' = vsfaults + 1
    /\ UNCHANGED <<vs, vcall, pending, sink, net, counted, dropped, answered>>

-----------------------------------------------------------------------------
VsCallStep(c) ==
    \/ Replayed(c) \/ AskRefused(c) \/ Reused(c) \/ Reserve(c)
    \/ ModelRefuses(c) \/ Spoiled(c) \/ Decided(c) \/ Perceived(c)
SinkStep == FlushBegins \/ (\E s \in VsSessions : Collect(s)) \/ Enqueue \/ PostHeard \/ PostFails

VsNext ==
    \/ \E s \in VsSessions :
          \/ CreateSession(s) \/ PublishFrame(s) \/ SetTask(s) \/ RecordAttempt(s) \/ Read(s)
          \/ CloseSession(s) \/ Sweep(s) \/ FinishClose(s)
    \/ \E c \in VsCallers : Ask(c) \/ VsCallStep(c)
    \/ SinkStep \/ Arrives \/ Boot \/ Stop \/ Down \/ Dies

\* Threads run on and the model's calls end; the sink wakes up every interval.  Hosts and
\* planners need do nothing.
VsFairness ==
    /\ \A c \in VsCallers : SF_vsVars(VsCallStep(c))
    /\ \A s \in VsSessions : SF_vsVars(FinishClose(s))
    /\ WF_vsVars(SinkStep)

VsSpec     == VsInit /\ [][VsNext]_vsVars
VsFairSpec == VsSpec /\ VsFairness

-----------------------------------------------------------------------------
AllReports == counted \cup Items(pending) \cup Items(sink.got) \cup Items(sink.queue) \cup dropped

OfSession(reports, s) == {r \in reports : r.sess = s}
UnitsIn(reports) == MapThenSumSet(LAMBDA r : r.units, reports)

\* Each unit of use is in one report, whatever was posted again or arrived late, and a
\* session's end leaves none out: "sum them once per unique event_id"
\* (docs/smaller-gnsis-service.md).
UsageIsCountedOnce ==
    \A s \in VsSessions :
       /\ UnitsIn(OfSession(AllReports, s)) = vs[s].reported
       /\ vs[s].st = "closed" => vs[s].reported = Used(s)
       /\ \A r, q \in OfSession(AllReports, s) : r.seq = q.seq => r = q

\* A request id is answered by one inference: it is given a new one only once it is out
\* of both windows, or the task changed.
OneAnswerPerRequest ==
    \A s \in VsSessions, k \in Kinds :
       LET a == answered[s][k]
       IN  \A i, j \in DOMAIN a : i < j /\ a[i] = a[j] => j - i > MaxExpired + 1

\* A decision that is handed out was made for the task the session has (SKILL.md).
DecisionIsForTheTask ==
    \A s \in VsSessions : \A i \in DOMAIN vs[s].out : vs[s].out[i].goal = vs[s].goal

\* The use of a session that is closed is in the ledger in the end, unless the process or
\* the sink's thread ended first or a full queue dropped a report.
EverySessionIsReported ==
    \A s \in VsSessions :
       vs[s].st = "closing" ~>
          \/ vs[s].st = "closed" /\ UnitsIn(OfSession(counted, s)) = Used(s)
          \/ life # "up" \/ sink.pc = "dead" \/ dropped # {}
=============================================================================
