------------------------------ MODULE ToolCalls ------------------------------
(***************************************************************************)
(* The actions a live session's model asks the person's computer for.  The *)
(* coordinator's call with its deadline (task_tools_online.py), the socket *)
(* that redelivers it (online_duplex.py, wsClient.ts, hostSession.ts) and  *)
(* the broker that asks, queues for the desktop, runs and answers          *)
(* (actionBroker.ts).                                                      *)
(*                                                                         *)
(* The runtime is one asyncio loop whose socket handler awaits an          *)
(* injection before it reads on; the host is one JavaScript thread: an     *)
(* action is what either does between two awaits.  The model and the       *)
(* person are external.  tool.progress only moves the deadline, which here *)
(* may pass at any look, so it is left out; so are calls refused before    *)
(* they become pending, and the end of the session.                        *)
(***************************************************************************)
EXTENDS Naturals, Sequences, FiniteSets, SequencesExt

CONSTANTS
    MaxCalls,     \* bound: calls the runtime issues, numbered in their order
    Locals,       \* call ids of commands the person typed (runLocal)
    Foreground,   \* those whose action changes the foreground desktop
    Remembered,   \* MAX_REMEMBERED_CALLS
    MaxDrops,     \* bound: times the socket, open or opening, drops
    MaxFailures,  \* bound: times the model's session takes no answer at all
    NoCall        \* no call is pending

Calls == 1..MaxCalls

ASSUME IdsAssumption ==
    /\ MaxCalls \in Nat
    /\ Calls \cap Locals = {} /\ NoCall \notin Calls \cup Locals
    /\ Foreground \subseteq Calls \cup Locals
ASSUME BoundsAssumption ==
    Remembered \in Nat \ {0} /\ MaxDrops \in Nat /\ MaxFailures \in Nat

-----------------------------------------------------------------------------
Answers == {"done", "failed", "declined"}     \* statuses the broker answers with
Stages  == {"prepare", "asking", "lease", "running", "looking", "done"}

VARIABLES
    issued,      \* how many calls were issued
    call,        \* _external_call, _external_tool_pending
    resolving,   \* record.resolving
    timer,       \* _expire_external_call of each call: off, armed, or feeding
    feed,        \* the answer inject_external_tool_response is feeding
    finished,    \* _finished_external_calls
    told,        \* history: what the model was given for each call
    controls,    \* tool.timeout controls not yet sent; they outlive a socket
    link,        \* the socket: up, down, or connecting (a new DuplexClient)
    toHost, toRuntime,   \* what is on it; toRuntime is also the client's outbox
    work,        \* each dispatch the broker began, in order, with its CallRecord
    known,       \* calls: the works remembered, in order of insertion
    lease,       \* the owner of the desktop and those behind it
    drops, failures      \* how much of each bound is used

runtime == <<issued, call, resolving, timer, feed, finished, told, controls>>
socket  == <<link, toHost, toRuntime, drops>>
host    == <<work, known, lease>>
vars    == <<runtime, socket, host, failures>>

Works  == 1..Len(work)
NoFeed == [call |-> NoCall, answer |-> "failed", try |-> 0]

TypeOK ==
    /\ issued \in 0..MaxCalls /\ finished \subseteq 1..issued
    /\ call \in {NoCall, issued} /\ call \notin finished
    /\ resolving \in BOOLEAN
    /\ timer \in [Calls -> {"off", "armed", "feeding"}]
    /\ feed \in [call : Calls, answer : Answers, try : {1, 2}] \cup {NoFeed}
    /\ told \in [Calls -> Seq(Answers \cup {"timeout"})]
    /\ controls \in Seq(1..issued)
    /\ link \in {"up", "down", "connecting"}
    /\ toHost \in Seq([type : {"call", "timeout"}, call : 1..issued])
    /\ toRuntime \in Seq([call : 1..issued, answer : Answers])
    /\ work \in Seq([call : Calls \cup Locals, stage : Stages, aborted : BOOLEAN,
                     ran : {"no", "started", "ended"}, answer : Answers \cup {"none"}])
    /\ known \in Seq(Works) /\ Len(known) <= Remembered
    /\ lease \in Seq(Works) /\ IsInjective(lease)
    /\ drops \in 0..MaxDrops /\ failures \in 0..MaxFailures

Init ==
    /\ issued = 0 /\ call = NoCall /\ resolving = FALSE
    /\ timer = [c \in Calls |-> "off"]
    /\ feed = NoFeed /\ finished = {}
    /\ told = [c \in Calls |-> <<>>]
    /\ controls = <<>>
    /\ link = "up" /\ toHost = <<>> /\ toRuntime = <<>>
    /\ work = <<>> /\ known = <<>> /\ lease = <<>>
    /\ drops = 0 /\ failures = 0

-----------------------------------------------------------------------------
(***************************************************************************)
(* The runtime: a call, its answer, and its deadline.                      *)
(***************************************************************************)
\* One external call at a time; the event that carries it is emitted by the
\* tasks of a connection.
Issue(c) ==
    /\ link = "up" /\ call = NoCall /\ c = issued + 1
    /\ issued' = c /\ call' = c
    /\ timer' = [timer EXCEPT ![c] = "armed"]
    /\ toHost' = Append(toHost, [type |-> "call", call |-> c])
    /\ UNCHANGED <<resolving, feed, finished, told, controls, link, toRuntime, drops,
                   host, failures>>

\* Any other answer is StaleToolResponse.
IsAwaited_Unmatched(m) == call # NoCall /\ ~resolving
IsAwaited(m) ==
    /\ m.call \notin finished
    /\ call # NoCall /\ call = m.call
    /\ ~resolving

TakeAnswer ==
    /\ link = "up" /\ toRuntime # <<>> /\ feed = NoFeed
    /\ LET m == Head(toRuntime)
       IN IF IsAwaited(m)
             THEN /\ resolving' = TRUE
                  /\ feed' = [call |-> call, answer |-> m.answer, try |-> 1]
             ELSE UNCHANGED <<resolving, feed>>
    /\ toRuntime' = Tail(toRuntime)
    /\ UNCHANGED <<issued, call, timer, finished, told, controls, link, toHost, drops,
                   host, failures>>

\* The call is over: the next one may be issued.
Clear(c) ==
    /\ call' = NoCall /\ resolving' = FALSE
    /\ finished' = finished \cup {c}

Fed ==
    /\ feed # NoFeed
    /\ told' = [told EXCEPT ![feed.call] = Append(@, feed.answer)]
    /\ Clear(feed.call)
    /\ feed' = NoFeed
    /\ UNCHANGED <<issued, timer, controls, socket, host, failures>>

\* ValueError: the model cannot take this answer in and is told that it failed.
FedUnreadable_Left ==
    /\ feed.try = 1
    /\ feed' = NoFeed
    /\ UNCHANGED <<issued, call, resolving, timer, finished, told, controls, socket,
                   host, failures>>
FedUnreadable ==
    /\ feed.try = 1
    /\ feed' = [feed EXCEPT !.answer = "failed", !.try = 2]
    /\ UNCHANGED <<issued, call, resolving, timer, finished, told, controls, socket,
                   host, failures>>

\* The model took neither.
FeedFails ==
    /\ feed # NoFeed /\ failures < MaxFailures
    /\ resolving' = FALSE /\ feed' = NoFeed
    /\ failures' = failures + 1
    /\ UNCHANGED <<issued, call, timer, finished, told, controls, socket, host>>

\* The deadline task looks: the call is over or being answered, or it is late.
Look(c) ==
    /\ timer[c] = "armed"
    /\ IF call # c \/ resolving
          THEN /\ timer' = [timer EXCEPT ![c] = "off"]
               /\ UNCHANGED <<resolving, controls>>
          ELSE /\ timer' = [timer EXCEPT ![c] = "feeding"]
               /\ resolving' = TRUE
               /\ controls' = Append(controls, c)
    /\ UNCHANGED <<issued, call, feed, finished, told, socket, host, failures>>

\* The model is told, unless its session fails; either way the call is over.
TellTimeout(c) ==
    /\ timer[c] = "feeding"
    /\ timer' = [timer EXCEPT ![c] = "off"]
    /\ Clear(c)
    /\ \/ /\ told' = [told EXCEPT ![c] = Append(@, "timeout")]
          /\ UNCHANGED failures
       \/ /\ failures < MaxFailures /\ failures' = failures + 1
          /\ UNCHANGED told
    /\ UNCHANGED <<issued, feed, controls, socket, host>>

-----------------------------------------------------------------------------
(***************************************************************************)
(* The socket.                                                             *)
(***************************************************************************)
SendControl ==
    /\ link = "up" /\ controls # <<>>
    /\ toHost' = Append(toHost, [type |-> "timeout", call |-> Head(controls)])
    /\ controls' = Tail(controls)
    /\ UNCHANGED <<issued, call, resolving, timer, feed, finished, told, link,
                   toRuntime, drops, host, failures>>

\* What was on the socket, or in the outbox of a client that never opened, is lost.
Drop ==
    /\ link # "down" /\ drops < MaxDrops
    /\ drops' = drops + 1
    /\ link' = "down" /\ toHost' = <<>> /\ toRuntime' = <<>>
    /\ UNCHANGED <<runtime, host, failures>>

Reconnect ==
    /\ link = "down"
    /\ link' = "connecting"
    /\ UNCHANGED <<runtime, toHost, toRuntime, drops, host, failures>>

\* The old connection's handler has returned, and with it the answer it was
\* feeding.  The pending call is sent again.
Redelivery_Never == <<>>
Redelivery == IF call = NoCall \/ resolving THEN <<>> ELSE <<[type |-> "call", call |-> call]>>

Resume ==
    /\ link = "connecting" /\ feed = NoFeed
    /\ link' = "up" /\ toHost' = Redelivery
    /\ UNCHANGED <<runtime, toRuntime, drops, host, failures>>

\* _send: to the socket, or to the outbox of a client that is connecting.
Send(c, a) ==
    toRuntime' = IF link = "down" \/ c \in Locals THEN toRuntime
                 ELSE Append(toRuntime, [call |-> c, answer |-> a])

-----------------------------------------------------------------------------
(***************************************************************************)
(* The host: receiving.                                                    *)
(***************************************************************************)
RecordOf(c) == {k \in Works : work[k].call = c /\ Contains(known, k)}

\* remember: the oldest calls are forgotten.
Remember_All(k) == Append(known, k)
Remember(k) ==
    LET all == Append(known, k)
    IN IF Len(all) > Remembered THEN Tail(all) ELSE all

Admit(c) ==
    /\ work' = Append(work, [call |-> c, stage |-> "prepare", aborted |-> FALSE,
                             ran |-> "no", answer |-> "none"])
    /\ known' = Remember(Len(work) + 1)
    /\ UNCHANGED lease

Receive(type) ==
    /\ link = "up" /\ toHost # <<>> /\ Head(toHost).type = type
    /\ toHost' = Tail(toHost)
    /\ UNCHANGED <<runtime, link, drops, failures>>

\* dispatch: a call that is known is answered again if it was, and not run again.
Dispatch ==
    /\ Receive("call")
    /\ LET c == Head(toHost).call
       IN IF RecordOf(c) = {}
             THEN Admit(c) /\ UNCHANGED toRuntime
             ELSE /\ \E k \in RecordOf(c) :
                        IF work[k].stage = "done" THEN Send(c, work[k].answer)
                        ELSE UNCHANGED toRuntime
                  /\ UNCHANGED host

\* handleControl, tool.timeout: abort.  A wait for the lease fails at once; those
\* behind it keep their order.
Withdraw ==
    /\ Receive("timeout")
    /\ LET c == Head(toHost).call
       IN \/ RecordOf(c) = {} /\ UNCHANGED <<work, lease, toRuntime>>
          \/ \E k \in RecordOf(c) :
                /\ work[k].stage # "lease"
                /\ work' = [work EXCEPT ![k].aborted = TRUE]
                /\ UNCHANGED <<lease, toRuntime>>
          \/ \E k \in RecordOf(c) :
                /\ work[k].stage = "lease"
                /\ work' = [work EXCEPT ![k].aborted = TRUE, ![k].stage = "done",
                                        ![k].answer = "failed"]
                /\ \E i \in DOMAIN lease : lease[i] = k /\ lease' = RemoveAt(lease, i)
                /\ Send(c, "failed")
    /\ UNCHANGED known

RunLocal(l) ==
    /\ \A k \in Works : work[k].call # l
    /\ Admit(l)
    /\ UNCHANGED <<runtime, socket, failures>>

-----------------------------------------------------------------------------
(***************************************************************************)
(* The host: carrying an action out (carryOut, for both kinds of call).    *)
(***************************************************************************)
Started(w, k) == [w EXCEPT ![k].stage = "running", ![k].ran = "started"]

Answered(w, k, a) == [w EXCEPT ![k].stage = "done", ![k].answer = a]

Answer(k, a) ==
    /\ work' = Answered(work, k, a)
    /\ Send(work[k].call, a)
    /\ UNCHANGED lease

\* withDesktopLease: the free lease is taken before an abort is looked at.
MustWait_Never(k) == FALSE
MustWait(k) == work[k].call \in Foreground /\ lease # <<>>

Begin(k) ==
    IF ~MustWait(k)
       THEN /\ work' = Started(work, k)
            /\ lease' = IF work[k].call \in Foreground THEN Append(lease, k) ELSE lease
            /\ UNCHANGED toRuntime
    ELSE IF work[k].aborted THEN Answer(k, "failed")
    ELSE /\ work' = [work EXCEPT ![k].stage = "lease"]
         /\ lease' = Append(lease, k)
         /\ UNCHANGED toRuntime

\* Not agreed, wrong arguments, nothing to act on, or a permission is missing;
\* or policy lets it run; or the person is to be asked.
Judge(k) ==
    /\ work[k].stage = "prepare"
    /\ \/ Answer(k, "failed")
       \/ Begin(k)
       \/ /\ work' = [work EXCEPT ![k].stage = "asking"]
          /\ UNCHANGED <<lease, toRuntime>>

MayRun_Late(k) == TRUE
MayRun(k) == ~work[k].aborted

\* ask: an answer that comes after the question was withdrawn is a no.
Ask(k) ==
    /\ work[k].stage = "asking"
    /\ (MayRun(k) /\ Begin(k)) \/ Answer(k, "declined")

\* release: the next in the queue owns the desktop in the same turn of the loop.
Owns(k) == lease # <<>> /\ Head(lease) = k
Rest(k) == IF Owns(k) THEN Tail(lease) ELSE lease
Passed(w, k) == IF Owns(k) /\ Rest(k) \notin {<<>>, lease} THEN Started(w, Head(Rest(k))) ELSE w

RunEnds(k) ==
    /\ work[k].stage = "running"
    /\ lease' = Rest(k)
    /\ LET w == Passed([work EXCEPT ![k].ran = "ended"], k)
       IN \/ /\ work' = [w EXCEPT ![k].stage = "looking"]
             /\ UNCHANGED toRuntime
          \/ /\ work' = Answered(w, k, "failed")
             /\ Send(work[k].call, "failed")

\* lookAfter; nothing to wait for when the action only read.
LookAfter(k) == work[k].stage = "looking" /\ Answer(k, "done")

Step(k) ==
    /\ Judge(k) \/ Ask(k) \/ RunEnds(k) \/ LookAfter(k)
    /\ UNCHANGED <<runtime, link, toHost, drops, known, failures>>

-----------------------------------------------------------------------------
Next ==
    \/ \E c \in Calls : Issue(c) \/ Look(c) \/ TellTimeout(c)
    \/ TakeAnswer \/ Fed \/ FedUnreadable \/ FeedFails
    \/ SendControl \/ Drop \/ Reconnect \/ Resume
    \/ Dispatch \/ Withdraw
    \/ \E l \in Locals : RunLocal(l)
    \/ \E k \in Works : Step(k)

Spec == Init /\ [][Next]_vars

-----------------------------------------------------------------------------
(***************************************************************************)
(* Properties.                                                             *)
(***************************************************************************)
RunsOf(c) == {k \in Works : work[k].call = c /\ work[k].ran # "no"}

\* A call's action runs at most once whatever is redelivered, the model gets
\* one outcome whatever the race of the answer with its deadline, and the
\* outcome is true of the action (ToolContract).
Contract == INSTANCE ToolContract WITH
    run  <- [c \in Calls |->
                IF RunsOf(c) = {} THEN "no"
                ELSE IF Cardinality(RunsOf(c)) > 1 THEN "again"
                ELSE work[CHOOSE k \in RunsOf(c) : TRUE].ran],
    told <- [c \in Calls |->
                IF told[c] = <<>> THEN "none"
                ELSE IF Len(told[c]) > 1 THEN "again" ELSE told[c][1]]
ContractIsKept == Contract!Spec

\* Foreground actions never overlap, though one that was declared lost goes on
\* and calls may be withdrawn while they wait behind it (withDesktopLease).
OneDesktopAction ==
    \A j, k \in Works :
       (/\ work[j].call \in Foreground /\ work[k].call \in Foreground
        /\ work[j].stage = "running" /\ work[k].stage = "running") => j = k

\* Nobody waits for a desktop that nobody uses, whichever of those behind it
\* were withdrawn and however the action before ended.
LeaseIsPassedOn ==
    lease # <<>> => /\ work[Head(lease)].stage = "running"
                    /\ \A i \in 2..Len(lease) : work[lease[i]].stage = "lease"

\* An action the person was asked about, or that waits for the desktop, does not
\* start once the host heard that the model was told it timed out.
NoLateStart ==
    [][\A k \in Works :
          work[k].aborted /\ work[k].stage \in {"asking", "lease"}
          => work'[k].ran = "no"]_vars

\* An answer is not lost with a socket: when the computer is connected and is
\* done with a call that still waits, its answer is on its way or the call was
\* sent again and will be answered (pending_external_dispatch, dispatch).
AnswerIsOnItsWay ==
    (link = "up" /\ call # NoCall /\ ~resolving /\ failures = 0)
    => \A k \in RecordOf(call) :
          work[k].stage = "done" =>
             \/ \E i \in DOMAIN toRuntime : toRuntime[i].call = call
             \/ \E i \in DOMAIN toHost : toHost[i] = [type |-> "call", call |-> call]

\* No call is left waiting for ever, which would keep every later one from being
\* issued: it is being answered, or its deadline task is there to end it.
NoCallIsStranded ==
    (call # NoCall /\ failures = 0)
    => IF resolving THEN feed.call = call \/ timer[call] = "feeding"
       ELSE timer[call] = "armed"

\* The model is given one outcome of a call, and the call is over with it.
OneOutcome ==
    \A c \in Calls : told[c] # <<>> => Len(told[c]) = 1 /\ call # c /\ c \in finished

\* NoCallIsStranded without its premise: "the call is still waiting, and the
\* client may answer it again" (inject_external_tool_response).
RefusedCallIsNotStranded ==
    (call # NoCall /\ ~resolving) =>
       \/ timer[call] = "armed"
       \/ \E i \in DOMAIN toRuntime : toRuntime[i].call = call
       \/ \E k \in RecordOf(call) : work[k].stage # "done"
       \/ link # "up"
=============================================================================
