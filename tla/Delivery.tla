-------------------------------- MODULE Delivery --------------------------------
(***************************************************************************)
(* The delivery lane of a live session: how the results of background      *)
(* workers get to be spoken.  The ledger's delivery records                *)
(* (supervision.py), the delivery gate (delivery_gate.py), the             *)
(* coordinator's delivery loop and acknowledgements                        *)
(* (task_tools_online.py) and the tasks of a connection that send model    *)
(* events (online_duplex.py).                                              *)
(*                                                                         *)
(* All of it runs on one asyncio loop: an action is what happens between   *)
(* two awaits.  The model, the client and its device are external.  The    *)
(* loop's other reasons to wait (tool calls under way) are taken to pass,  *)
(* and the owner is not muted.  A delivery has one lane, so the claim      *)
(* token and the attempt always match and are left out.                    *)
(***************************************************************************)
EXTENDS Naturals, Sequences, FiniteSets, SequencesExt

CONSTANTS
    Results,      \* deliveries that wait for a pause
    Alerts,       \* deliveries with timing "interrupt"
    Questions,    \* deliveries that may become moot
    AckModes,     \* values playback_ack_required may be configured with
    Subscribed,   \* interrupts preempt output: lean mode, or the owner subscribed
    MaxTurns,     \* bound: times the user starts to speak, and breaks
    MaxFailures,  \* bound: injections that fail
    MaxDrops,     \* bound: times the socket drops
    Nothing       \* no delivery is being injected

Deliveries == Results \cup Alerts

ASSUME DeliveriesAssumption ==
    /\ Results \cap Alerts = {} /\ Nothing \notin Deliveries
    /\ Questions \subseteq Deliveries
ASSUME SettingsAssumption ==
    /\ AckModes \subseteq BOOLEAN /\ Subscribed \in BOOLEAN
    /\ MaxTurns \in Nat /\ MaxFailures \in Nat /\ MaxDrops \in Nat

-----------------------------------------------------------------------------
GateTerminal == {"delivered", "cancelled", "failed"}
GateState    == {"none", "awaiting_delivery", "delivering"} \cup GateTerminal

\* Where an announcement is: with the model, in the output queue, in the socket,
\* with the client, and what the device reported of it; or lost with a socket.
Voice == {"none", "model", "queued", "sending", "sent", "finished", "cancelled", "lost"}

VARIABLES
    ledger,    \* state of each delivery record
    queue,     \* the pending records, in the order of their last write
    gate,      \* _results: the gate's state of each delivery
    playing,   \* _pending_playbacks: sent, and its ACK awaited or overdue
    expired,   \* _expired
    speaking,  \* the user spoke within the last moments
    lane,      \* the delivery loop: where it is, and with which delivery
    pending,   \* _delivery_outputs_pending
    acks,      \* _pending_acks
    voice,     \* where the announcement of each delivery is
    sender,    \* the tasks that send model events live
    session,   \* open, parked for a reconnect, or closed
    ackRequired,  \* playback_ack_required
    turns, failures, drops,  \* how much of each bound is used
    current,   \* history: deliveries sent and not interrupted since
    spoken     \* history: how often each announcement reached the client

gating  == <<gate, playing, expired>>
bounds  == <<ackRequired, turns, failures, drops>>
history == <<current, spoken>>
vars    == <<ledger, queue, gating, speaking, lane, pending, acks, voice, sender,
             session, bounds, history>>

Lane == [pc : {"poll", "pause", "start", "cut", "feed", "closed"},
         cur : Deliveries \cup {Nothing}]

TypeOK ==
    /\ ledger \in [Deliveries -> {"none", "pending", "claimed", "delivered", "cancelled"}]
    /\ queue \in Seq(Deliveries)
    /\ ToSet(queue) = {d \in Deliveries : ledger[d] = "pending"} /\ IsInjective(queue)
    /\ gate \in [Deliveries -> GateState]
    /\ playing \in [Deliveries -> {"no", "waiting", "late"}]
    /\ expired \subseteq Deliveries
    /\ speaking \in BOOLEAN
    /\ lane \in Lane
    /\ pending \subseteq Deliveries /\ acks \subseteq Deliveries
    /\ voice \in [Deliveries -> Voice]
    /\ sender \in BOOLEAN
    /\ session \in {"open", "parked", "closed"}
    /\ ackRequired \in BOOLEAN
    /\ turns \in 0..MaxTurns /\ failures \in 0..MaxFailures /\ drops \in 0..MaxDrops
    /\ current \subseteq Deliveries
    /\ spoken \in [Deliveries -> Nat]

Idle == [pc |-> "poll", cur |-> Nothing]

Init ==
    /\ ledger = [d \in Deliveries |-> "none"]
    /\ queue = <<>>
    /\ gate = [d \in Deliveries |-> "none"]
    /\ playing = [d \in Deliveries |-> "no"]
    /\ expired = {}
    /\ speaking = FALSE
    /\ lane = Idle
    /\ pending = {} /\ acks = {}
    /\ voice = [d \in Deliveries |-> "none"]
    /\ sender = TRUE /\ session = "open"
    /\ ackRequired \in AckModes
    /\ turns = 0 /\ failures = 0 /\ drops = 0
    /\ current = {}
    /\ spoken = [d \in Deliveries |-> 0]

-----------------------------------------------------------------------------
(***************************************************************************)
(* The ledger and the gate.                                                *)
(***************************************************************************)
\* What is left of a queue without some deliveries.
Without(q, S) ==
    LET kept[i \in 0..Len(q)] == IF i = 0 THEN <<>>
                                 ELSE IF q[i] \in S THEN kept[i - 1]
                                 ELSE Append(kept[i - 1], q[i])
    IN kept[Len(q)]

\* A delivery can still be finished while it is claimed, or was until its lease
\* expired.
Finishable(d) == ledger[d] \in {"claimed", "pending"}

\* acknowledge_consumed of undelivered ones: those it accepts are pending again.
LedgerWith(S) ==
    [d \in Deliveries |-> IF d \in S /\ Finishable(d) THEN "pending" ELSE ledger[d]]
QueueWith(S) ==
    LET R == {d \in S : Finishable(d)}
    IN Without(queue, R) \o SetToSeq(R)
Requeue(S) == ledger' = LedgerWith(S) /\ queue' = QueueWith(S)

Deliver(d) ==
    /\ ledger' = [ledger EXCEPT ![d] = "delivered"]
    /\ queue' = Without(queue, {d})

\* A registered result changes state until it is terminal.
Note(d, s) == IF gate[d] \in {"none"} \cup GateTerminal THEN gate[d] ELSE s

\* interrupt: a new output epoch.  No ACK is expected for the old one, and what
\* was being delivered is cancelled.
NewEpoch ==
    /\ playing' = [d \in Deliveries |-> "no"]
    /\ gate' = [d \in Deliveries |-> IF gate[d] = "delivering" THEN "cancelled" ELSE gate[d]]
    /\ current' = {}

-----------------------------------------------------------------------------
(***************************************************************************)
(* The delivery loop.                                                      *)
(***************************************************************************)
\* A faulty variant: the marker that a result was enqueued is not looked at.
Enqueue_Again(d) ==
    /\ ledger[d] \in {"none", "pending"} /\ session # "closed"
    /\ ledger' = [ledger EXCEPT ![d] = "pending"]
    /\ queue' = Append(queue, d)
    /\ UNCHANGED <<gating, speaking, lane, pending, acks, voice, sender, session, bounds,
                   history>>

\* A worker's result, once.
Enqueue(d) ==
    /\ ledger[d] = "none" /\ session # "closed"
    /\ ledger' = [ledger EXCEPT ![d] = "pending"]
    /\ queue' = Append(queue, d)
    /\ UNCHANGED <<gating, speaking, lane, pending, acks, voice, sender, session, bounds,
                   history>>

\* The question is answered, expires, or its task ends.
Resolve(d) ==
    /\ d \in Questions /\ Finishable(d)
    /\ ledger' = [ledger EXCEPT ![d] = "cancelled"]
    /\ queue' = Without(queue, {d})
    /\ UNCHANGED <<gating, speaking, lane, pending, acks, voice, sender, session, bounds,
                   history>>

\* The loop looks at the ledger and finds a claim older than its lease.
LeaseExpires(d) ==
    /\ lane.pc \in {"poll", "pause"} /\ ledger[d] = "claimed"
    /\ Requeue({d})
    /\ UNCHANGED <<gating, speaking, lane, pending, acks, voice, sender, session, bounds,
                   history>>

\* claim_delivery: an interrupt before everything else, then the oldest.
Claim(l, q) ==
    LET urgent == Without(q, Results)
        d == IF urgent = <<>> THEN Head(q) ELSE Head(urgent)
    IN /\ ledger' = [l EXCEPT ![d] = "claimed"]
       /\ queue' = Without(q, {d})
       /\ lane' = [pc |-> "start", cur |-> d]

\* pending_deliveries: without a subscription an interrupt waits for a pause too.
Preempts(d) == d \in Alerts /\ Subscribed

Late == {d \in Deliveries : playing[d] = "late"}

\* What a look at the queue does when nothing is under way: overdue playbacks are
\* finished as undelivered, and the first result is registered and let pass or
\* not.  The playbacks are looked at last, and only for one that needs a pause.
Look(quiet) ==
    LET first == Head(queue)
        lost  == {d \in expired \cap acks : Finishable(d)}
        asks  == gate[first] \notin GateTerminal /\ first \notin lost /\ ~speaking
        waits == asks /\ ~Preempts(first)
    IN /\ acks' = acks \ expired
       /\ gate' = [d \in Deliveries |->
                     IF d \in lost THEN Note(d, "failed")
                     ELSE IF d = first /\ gate[d] = "none" THEN "awaiting_delivery" ELSE gate[d]]
       /\ expired' = IF waits THEN Late ELSE {}
       /\ playing' = IF waits THEN [d \in Deliveries |-> IF d \in Late THEN "no" ELSE playing[d]]
                              ELSE playing
       /\ IF asks /\ Preempts(first) THEN Claim(LedgerWith(lost), QueueWith(lost))
          ELSE /\ Requeue(lost)
               /\ lane' = IF waits /\ quiet THEN [Idle EXCEPT !.pc = "pause"] ELSE Idle
    /\ UNCHANGED <<speaking, pending, voice, sender, session, bounds, history>>

\* A faulty variant: the loop does not wait for the output it injected.
Poll_NotBusy ==
    /\ lane.pc = "poll" /\ queue # <<>>
    /\ Look(\A d \in Deliveries : playing[d] # "waiting")

\* A faulty variant: the playback of an earlier announcement is not waited for.
Poll_NotDrained ==
    /\ lane.pc = "poll" /\ queue # <<>> /\ pending = {}
    /\ Look(TRUE)

Poll ==
    /\ lane.pc = "poll" /\ queue # <<>> /\ pending = {}
    /\ Look(\A d \in Deliveries : playing[d] # "waiting")

\* _safe_pause: the talker is drained, or not.
PauseIsNot ==
    /\ lane.pc = "pause"
    /\ lane' = Idle
    /\ UNCHANGED <<ledger, queue, gating, speaking, pending, acks, voice, sender, session,
                   bounds, history>>

PauseIs ==
    /\ lane.pc = "pause"
    /\ IF queue = <<>> THEN lane' = Idle /\ UNCHANGED <<ledger, queue>> ELSE Claim(ledger, queue)
    /\ UNCHANGED <<gating, speaking, pending, acks, voice, sender, session, bounds, history>>

\* What is being said is cut off for an interrupt.
Interrupt ==
    /\ lane.pc = "start" /\ lane.cur \in Alerts
    /\ NewEpoch
    /\ lane' = [lane EXCEPT !.pc = "cut"]
    /\ UNCHANGED <<ledger, queue, expired, speaking, pending, acks, voice, sender, session,
                   bounds, spoken>>

\* The injection raised: the record goes back, and the gate closes on the result.
Abandon(d) ==
    /\ gate' = [gate EXCEPT ![d] = Note(d, "failed")]
    /\ pending' = pending \ {d}
    /\ Requeue({d})
    /\ lane' = Idle

Prepare ==
    LET d == lane.cur IN
    /\ \/ lane.pc = "start" /\ d \in Results
       \/ lane.pc = "cut"
    /\ gate' = [gate EXCEPT ![d] = Note(d, "delivering")]
    /\ pending' = pending \cup {d}
    /\ lane' = [lane EXCEPT !.pc = "feed"]
    /\ UNCHANGED <<ledger, queue, playing, expired, speaking, acks, voice, sender, session,
                   bounds, history>>

\* The slate, the response or the model refuses.
FailInjection ==
    /\ lane.pc \in {"start", "cut", "feed"}
    /\ failures < MaxFailures /\ failures' = failures + 1
    /\ Abandon(lane.cur)
    /\ UNCHANGED <<playing, expired, speaking, acks, voice, sender, session, ackRequired,
                   turns, drops, history>>

\* The model answers at once, or with the next unit it produces.
Feed ==
    /\ lane.pc = "feed"
    /\ \E v \in {"queued", "model"} : voice' = [voice EXCEPT ![lane.cur] = v]
    /\ lane' = Idle
    /\ UNCHANGED <<ledger, queue, gating, speaking, pending, acks, sender, session, bounds,
                   history>>

-----------------------------------------------------------------------------
(***************************************************************************)
(* The connection.                                                         *)
(***************************************************************************)
Emit(d) ==
    /\ session = "open" /\ sender /\ voice[d] \in {"queued", "model"}
    /\ voice' = [voice EXCEPT ![d] = "sending"]
    /\ UNCHANGED <<ledger, queue, gating, speaking, lane, pending, acks, sender, session,
                   bounds, history>>

\* A faulty variant: the loop is not told that its output was acknowledged.
Finalize_Kept(d) ==
    IF ackRequired
    THEN acks' = acks \cup {d} /\ UNCHANGED <<ledger, queue, gate, pending, sender>>
    ELSE IF d \in pending /\ Finishable(d)
    THEN /\ Deliver(d)
         /\ acks' = acks \ {d}
         /\ gate' = [gate EXCEPT ![d] = Note(d, "delivered")]
         /\ UNCHANGED <<pending, sender>>
    ELSE sender' = FALSE /\ UNCHANGED <<ledger, queue, gate, pending, acks>>

\* A faulty variant: writing to the socket finalizes the delivery in any case.
Finalize_AtOnce(d) ==
    IF d \in pending /\ Finishable(d)
    THEN /\ Deliver(d)
         /\ pending' = pending \ {d} /\ acks' = acks \ {d}
         /\ gate' = [gate EXCEPT ![d] = Note(d, "delivered")]
         /\ UNCHANGED sender
    ELSE sender' = FALSE /\ UNCHANGED <<ledger, queue, gate, pending, acks>>

\* note_output_sent, and acknowledge_output unless a device ACK is required; when
\* it raises, the task that sent the output ends.
Finalize(d) ==
    IF ackRequired
    THEN acks' = acks \cup {d} /\ UNCHANGED <<ledger, queue, gate, pending, sender>>
    ELSE IF d \in pending /\ Finishable(d)
    THEN /\ Deliver(d)
         /\ pending' = pending \ {d} /\ acks' = acks \ {d}
         /\ gate' = [gate EXCEPT ![d] = Note(d, "delivered")]
         /\ UNCHANGED sender
    ELSE sender' = FALSE /\ UNCHANGED <<ledger, queue, gate, pending, acks>>

Sent(d) ==
    /\ voice[d] = "sending" /\ session = "open"
    /\ voice' = [voice EXCEPT ![d] = "sent"]
    /\ spoken' = [spoken EXCEPT ![d] = @ + 1]
    /\ playing' = [playing EXCEPT ![d] = "waiting"]
    /\ current' = current \cup {d}
    /\ Finalize(d)
    /\ UNCHANGED <<expired, speaking, lane, session, bounds>>

\* note_playback_ack: the device finished an announcement or cancelled it.  An ACK
\* that names its epoch is stale after an interruption; one that does not, never.
DeviceAck(d, phase, tagged) ==
    /\ voice[d] = "sent" /\ session = "open"
    /\ voice' = [voice EXCEPT ![d] = phase]
    /\ IF tagged /\ d \notin current
       THEN UNCHANGED <<ledger, queue, gate, playing, acks>>
       ELSE /\ playing' = [playing EXCEPT ![d] = "no"]
            /\ acks' = acks \ {d}
            /\ IF d \in acks /\ Finishable(d)
               THEN /\ IF phase = "finished" THEN Deliver(d) ELSE Requeue({d})
                    /\ gate' = [gate EXCEPT ![d] = Note(d, "delivered")]
               ELSE UNCHANGED <<ledger, queue, gate>>
    /\ UNCHANGED <<expired, speaking, lane, pending, sender, session, bounds, history>>

\* The ACK is overdue, which the gate finds when it next looks.
AckLate(d) ==
    /\ playing[d] = "waiting"
    /\ playing' = [playing EXCEPT ![d] = "late"]
    /\ UNCHANGED <<ledger, queue, gate, expired, speaking, lane, pending, acks, voice, sender,
                   session, bounds, history>>

Speak ==
    /\ session = "open" /\ ~speaking /\ turns < MaxTurns
    /\ speaking' = TRUE /\ turns' = turns + 1
    /\ UNCHANGED <<ledger, queue, gating, lane, pending, acks, voice, sender, session,
                   ackRequired, failures, drops, history>>

Quiet ==
    /\ speaking /\ speaking' = FALSE
    /\ UNCHANGED <<ledger, queue, gating, lane, pending, acks, voice, sender, session, bounds,
                   history>>

\* note_user_interruption: the client sends "break".
Break ==
    /\ session = "open" /\ turns < MaxTurns
    /\ turns' = turns + 1 /\ speaking' = TRUE
    /\ NewEpoch
    /\ UNCHANGED <<ledger, queue, expired, lane, pending, acks, voice, sender, session,
                   ackRequired, failures, drops, spoken>>

\* The socket drops and the session is parked; an output on its way reached the
\* client or did not, and is not acknowledged.
Drop ==
    /\ session = "open" /\ drops < MaxDrops /\ drops' = drops + 1
    /\ session' = "parked" /\ sender' = FALSE
    /\ voice' = [d \in Deliveries |-> IF voice[d] = "sending" THEN "lost" ELSE voice[d]]
    /\ \E S \in SUBSET {d \in Deliveries : voice[d] = "sending"} :
         spoken' = [d \in Deliveries |-> IF d \in S THEN spoken[d] + 1 ELSE spoken[d]]
    /\ UNCHANGED <<ledger, queue, gating, speaking, lane, pending, acks, ackRequired,
                   turns, failures, current>>

Resume ==
    /\ session = "parked"
    /\ session' = "open" /\ sender' = TRUE
    /\ UNCHANGED <<ledger, queue, gating, speaking, lane, pending, acks, voice, bounds,
                   history>>

\* close: the loop is cancelled, and what was not acknowledged is given back.
Close ==
    LET cut == IF lane.cur = Nothing THEN {} ELSE {lane.cur} IN
    /\ session # "closed" /\ session' = "closed"
    /\ lane' = [Idle EXCEPT !.pc = "closed"]
    /\ gate' = [d \in Deliveries |-> IF d \in cut THEN Note(d, "cancelled") ELSE gate[d]]
    /\ Requeue(pending \cup cut)
    /\ pending' = {d \in pending \ cut : ~Finishable(d)}
    /\ UNCHANGED <<playing, expired, speaking, acks, voice, sender, bounds, history>>

-----------------------------------------------------------------------------
Loop == Poll \/ PauseIsNot \/ PauseIs \/ Interrupt \/ Prepare \/ Feed

Next ==
    \/ Loop \/ FailInjection
    \/ Speak \/ Quiet \/ Break
    \/ Drop \/ Resume \/ Close
    \/ \E d \in Deliveries :
         \/ Enqueue(d) \/ Resolve(d) \/ LeaseExpires(d)
         \/ Emit(d) \/ Sent(d) \/ AckLate(d)
         \/ \E phase \in {"finished", "cancelled"}, tagged \in BOOLEAN : DeviceAck(d, phase, tagged)

\* The loop and the sending tasks run, the talker drains, clocks advance, the user
\* stops speaking, and a parked session is resumed or closed.
Fairness ==
    /\ WF_vars(Loop) /\ SF_vars(PauseIs)
    /\ \A d \in Deliveries : WF_vars(Emit(d)) /\ WF_vars(Sent(d)) /\ WF_vars(AckLate(d))
    /\ WF_vars(Quiet)
    /\ WF_vars(session = "parked" /\ (Resume \/ Close))

Spec     == Init /\ [][Next]_vars
FairSpec == Spec /\ Fairness

-----------------------------------------------------------------------------
\* A result is announced once, however its lease, the socket and the device's ACKs
\* interleave with the loop (_model_input_busy).
SpokenOnce == \A d \in Deliveries : spoken[d] <= 1

\* What the ledger calls delivered was heard: with device ACKs the device said so,
\* without them it reached the client (acknowledge_output, note_playback_ack).
DeliveredWasHeard ==
    \A d \in Deliveries : ledger[d] = "delivered" =>
        /\ spoken[d] > 0
        /\ ackRequired => voice[d] = "finished"

\* A result that waits for a pause is not begun while an earlier announcement is
\* being played (DeliveryGate.blocked_reason).
NoOverlap ==
    [][\A d \in Results : ledger[d] = "pending" /\ ledger'[d] = "claimed" =>
          \A e \in Deliveries : playing[e] # "waiting"]_vars

\* The lane waits for an output that it will not be told of: its question was resolved
\* meanwhile, its socket dropped, or the device's ACK is what counts, which the lane does
\* not hear.  Or the first result is one the gate has closed on, and lets nobody past.
Blocked ==
    /\ lane.pc = "poll"
    /\ \/ \E d \in pending :
            ledger[d] = "cancelled" \/ voice[d] = "lost"
              \/ (ackRequired /\ voice[d] \in {"sent", "finished", "cancelled"})
       \/ pending = {} /\ queue # <<>> /\ gate[Head(queue)] \in GateTerminal

\* Every result is delivered, unless its question is moot, the session ends or the lane
\* is blocked for good, which it is in the ways above and in no other: not by the user,
\* by late or stale ACKs, by a lease, or by a dropped socket with nothing on it.
EveryResultIsDelivered ==
    \/ <>[]Blocked
    \/ \A d \in Deliveries :
          ledger[d] = "pending" ~>
              ledger[d] \in {"delivered", "cancelled"} \/ session = "closed"

-----------------------------------------------------------------------------
(***************************************************************************)
(* What comments and tests of the code say, and the code does not keep.    *)
(***************************************************************************)

\* tests/test_delivery_gate.py:9-10, "stale output cancelled", "never played": an
\* announcement that was interrupted before it was sent is not sent.
InterruptedIsNotSent ==
    [][\A d \in Deliveries : gate[d] = "cancelled" => spoken'[d] = spoken[d]]_vars

\* delivery_gate.py:110, after an interruption "a late ACK for it is ignored": it
\* does not turn the delivery into a delivered one.
LateAckIsIgnored ==
    [][\A d \in Deliveries :
          voice[d] = "sent" /\ d \notin current /\ ledger'[d] = "delivered" =>
              ledger[d] = "delivered"]_vars

\* gateway.py:2053, "Subscribed interrupts preempt output; other deliveries pause":
\* without a subscription the loop cuts nothing off.
UnsubscribedWaits == ~Subscribed => lane.pc # "cut"
=============================================================================
