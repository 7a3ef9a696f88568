--------------------------- MODULE TaskGateway_proofs ---------------------------
(***************************************************************************)
(* The tasks of a live session, for any number of tasks, asks, answers,    *)
(* failures and crashes: a message reaches the worker once, nobody is      *)
(* asked about a task that is over, and the end of a task is final.        *)
(***************************************************************************)
EXTENDS TaskGateway, TLAPS

\* A dispatch that has no run yet, and a task that has seen no worker.
Early(t) == job[t] \in {"resource", "slot", "lock", "open", "start"}
Fresh(r) ==
    /\ r.event[Final] = "none"
    /\ \A a \in Asks : /\ r.ask[a] = "none" /\ r.asked[a] = "none" /\ r.event[a] = "none"
                       /\ \A n \in 0..MaxReplies : r.cmd[<<a, n>>] = "none"
WaitJobs == {"none", "resource", "slot", "lock"}
NoRunYet ==
    \A t \in Tasks :
        /\ led[t].status \in {"none", "queued"} => job[t] \in WaitJobs
        /\ led[t].status \in {"none", "queued"} \/ Early(t) => Fresh(led[t]) /\ ~run[t]

\* What was heard is recorded as sent, or as failed when the answer was lost.
HeardIsRecorded ==
    \A t \in Tasks, m \in Messages :
        /\ heard[t][m] <= 1
        /\ heard[t][m] > 0 => led[t].cmd[m] \in {"sent", "failed"}

\* What the replay, the owner's call and the dispatch have still to send is unheard.
ReplayIsUnheard ==
    \A t \in Tasks : \A m \in todo[t] :
        m = Steer /\ heard[t][m] = 0 /\ led[t].cmd[m] # "none"
CallIsUnheard ==
    call.pc # "idle" =>
        /\ call.task \in Tasks /\ ~Early(call.task)
        /\ led[call.task].status \notin {"none", "queued"}
        /\ call.pc = "steer" =>
              call.msg = Steer /\ heard[call.task][Steer] = 0 /\ Steer \notin todo[call.task]
        /\ call.pc = "reply" =>
              call.msg \in Asks \X (1..MaxReplies) /\ heard[call.task][call.msg] = 0
GrantIsUnheard ==
    \A t \in Tasks, a \in Asks :
        led[t].event[a] = "unprocessed" /\ heard[t][Reply(a, 0)] > 0 =>
            job[t] \in {"failing", "close", "none"}

\* An ask that was not taken from the stream is in no other state, and comes once.
Untouched(r, a) == r.ask[a] = "none" /\ r.asked[a] = "none" /\ r.cmd[Reply(a, 0)] = "none"
AskComesOnce ==
    \A t \in Tasks :
        /\ \A a \in Asks : led[t].event[a] = "none" => Untouched(led[t], a)
        /\ \A i \in DOMAIN outbox[t] : outbox[t][i] # Final => led[t].event[outbox[t][i]] = "none"
        /\ \A i, j \in DOMAIN outbox[t] : outbox[t][i] = outbox[t][j] /\ i # j =>
              outbox[t][i] = Final

\* The middle of a handler.
BusyWith ==
    /\ busy # Free => up /\ busy.task \in Tasks /\ busy.at # "free"
    /\ busy.at = "ask" =>
          LET r == led[busy.task] IN
          /\ job[busy.task] = "events" /\ r.status \in Live /\ busy.of \in Asks
          /\ r.event[busy.of] = "unprocessed" /\ Untouched(r, busy.of)
    /\ busy.at = "row" =>
          /\ job[busy.task] = "events" /\ led[busy.task].status \in Live
          /\ led[busy.task].event[Final] = "unprocessed"
    /\ busy.at = "rest" => HasEnded(led[busy.task])

\* An ask is reduced before the next event is taken.
Between(t) == job[t] \in {"replay", "send", "events"}
OneAtATime ==
    \A t \in Tasks, a \in Asks : led[t].event[a] = "unprocessed" =>
        /\ Between(t) => busy.task = t /\ busy.at = "ask" /\ busy.of = a
        /\ job[t] = "reply" => \A b \in Asks : led[t].event[b] = "unprocessed" => a = b
        /\ busy.task = t /\ busy.at = "rest" => led[t].event[Final] # "unprocessed"
LastIsReduced ==
    \A t \in Tasks : led[t].event[Final] = "unprocessed" /\ up =>
        busy.task = t /\ busy.at \in {"row", "rest"}

\* A question that is queued is open, and a task that has ended has none, unless a crash
\* cut an ending or an ask short.
CutShort(t) == \E what \in {"end", "ask"} : <<t, what>> \in cut
QueuedIsOpen ==
    \A t \in Tasks, a \in Asks :
        led[t].asked[a] = "queued" => led[t].ask[a] \in Open \/ CutShort(t)
EndedIsClosed ==
    \A t \in Tasks : HasEnded(led[t]) /\ busy.task # t =>
        OpenAsks(led[t]) = {} \/ CutShort(t) \/ (~up /\ led[t].event[Final] = "unprocessed")
DownIsRecoverable ==
    ~up => \A t \in Tasks, a \in Asks : led[t].event[a] = "unprocessed" =>
        CutShort(t) \/ (led[t].status \in Live /\ led[t].ask[a] = "none")

\* Nothing of a process that died is left.
NothingIsUp ==
    ~up => /\ call = Idle /\ busy = Free
           /\ \A t \in Tasks : job[t] = "none" /\ todo[t] = {} /\ ~run[t] /\ outbox[t] = <<>>

Heard  == HeardIsRecorded /\ ReplayIsUnheard /\ CallIsUnheard /\ GrantIsUnheard
Course == NoRunYet /\ AskComesOnce /\ BusyWith /\ OneAtATime /\ LastIsReduced /\ NothingIsUp
Closed == QueuedIsOpen /\ EndedIsClosed /\ DownIsRecoverable
TaskInv == TypeOK /\ Heard /\ Course /\ Closed

-----------------------------------------------------------------------------
(* Messages, and what the operators on a record do to its fields.            *)

\* Messages differ from each other, and no question is the final event.
LEMMA MessageFacts ==
    /\ Steer \in Messages
    /\ \A a \in Asks, n \in 0..MaxReplies : Reply(a, n) \in Messages /\ Reply(a, n) # Steer
    /\ \A a, b \in Asks, n \in 1..MaxReplies : Reply(a, n) # Reply(b, 0)
    /\ \A a, b \in Asks : \A n, k : Reply(a, n) = Reply(b, k) => a = b /\ n = k
    /\ \A a \in Asks : 0 \in 0..MaxReplies /\ a # Final
  BY NamesAssumption, BoundsAssumption DEF Steer, Messages, Reply, Final

\* What every step on a record keeps: what was sent, and what was never sent.
Sends(r, s) ==
    \A m \in Messages :
        /\ r.cmd[m] \in {"sent", "failed"} => s.cmd[m] = r.cmd[m]
        /\ r.cmd[m] = "none" <=> s.cmd[m] = "none"

\* Looking at a task again changes nothing but whether it is blocked.
LEMMA RefreshedFields ==
    ASSUME NEW r \in Record
    PROVE  LET s == Refreshed(r) IN
           /\ s \in Record /\ s.status = r.status /\ s.ask = r.ask /\ s.cmd = r.cmd
           /\ s.event = r.event /\ s.asked = r.asked /\ s.final = r.final
<1> DEFINE b == OpenAsks(r) # {}
<1>1. b \in BOOLEAN
  OBVIOUS
<1>2. Refreshed(r) = IF HasEnded(r) THEN r ELSE [r EXCEPT !.blocked = b]
  BY DEF Refreshed
<1> HIDE DEF b
<1> QED  BY <1>1, <1>2 DEF Record

\* Withdrawing what belongs to some questions touches unsent replies and queued asks.
LEMMA WithdrawnFields ==
    ASSUME NEW r \in Record, NEW A
    PROVE  LET s == Withdrawn(r, A) IN
           /\ s \in Record /\ s.status = r.status /\ s.ask = r.ask /\ s.blocked = r.blocked
           /\ s.event = r.event /\ s.final = r.final
           /\ \A m \in Messages : s.cmd[m] = IF r.cmd[m] \in Unsent /\ m[1] \in A
                                             THEN "cancelled" ELSE r.cmd[m]
           /\ \A a \in Asks : s.asked[a] = IF a \in A /\ r.asked[a] = "queued"
                                           THEN "cancelled" ELSE r.asked[a]
<1> DEFINE c == [m \in Messages |-> IF r.cmd[m] \in Unsent /\ m[1] \in A
                                    THEN "cancelled" ELSE r.cmd[m]]
           q == [a \in Asks |-> IF a \in A /\ r.asked[a] = "queued"
                                THEN "cancelled" ELSE r.asked[a]]
<1>1. c \in [Messages -> {"none", "sent", "failed", "cancelled"} \cup Unsent]
  BY DEF Record
<1>2. q \in [Asks -> {"none", "queued", "cancelled"}]
  BY DEF Record
<1>3. Withdrawn(r, A) = [r EXCEPT !.cmd = c, !.asked = q]
  BY DEF Withdrawn
<1>4. /\ \A m \in Messages : c[m] = IF r.cmd[m] \in Unsent /\ m[1] \in A
                                    THEN "cancelled" ELSE r.cmd[m]
      /\ \A a \in Asks : q[a] = IF a \in A /\ r.asked[a] = "queued"
                                THEN "cancelled" ELSE r.asked[a]
  OBVIOUS
<1> HIDE DEF c, q
<1> QED  BY <1>1, <1>2, <1>3, <1>4 DEF Record

\* Taking a question back from the user touches that question's ask only.
LEMMA NotAskedFields ==
    ASSUME NEW r \in Record, NEW a \in Asks
    PROVE  LET s == NotAsked(r, a) IN
           /\ s \in Record /\ s.status = r.status /\ s.ask = r.ask /\ s.cmd = r.cmd
           /\ s.event = r.event /\ s.final = r.final
           /\ s.asked[a] # "queued"
           /\ \A b \in Asks : s.asked[b] = r.asked[b] \/ (b = a /\ r.asked[a] = "queued")
  BY DEF NotAsked, Record

\* Closing a task's questions cancels the open ones and what is queued about them.
LEMMA AsksClosedFields ==
    ASSUME NEW r \in Record
    PROVE  LET s == AsksClosed(r) IN
           /\ s \in Record /\ s.status = r.status /\ s.event = r.event /\ s.final = r.final
           /\ \A a \in Asks : s.ask[a] = IF r.ask[a] \in Open THEN "cancelled" ELSE r.ask[a]
           /\ \A m \in Messages : /\ r.cmd[m] \notin Unsent => s.cmd[m] = r.cmd[m]
                                  /\ r.cmd[m] \in Unsent =>
                                        s.cmd[m] = r.cmd[m] \/ s.cmd[m] = "cancelled"
           /\ \A a \in Asks : s.asked[a] = IF r.ask[a] \in Open /\ r.asked[a] = "queued"
                                           THEN "cancelled" ELSE r.asked[a]
<1> DEFINE w == Withdrawn(r, OpenAsks(r))
           k == [a \in Asks |-> IF r.ask[a] \in Open THEN "cancelled" ELSE r.ask[a]]
<1>1. /\ w \in Record /\ w.status = r.status /\ w.event = r.event /\ w.final = r.final
      /\ \A m \in Messages : w.cmd[m] = IF r.cmd[m] \in Unsent /\ m[1] \in OpenAsks(r)
                                        THEN "cancelled" ELSE r.cmd[m]
      /\ \A a \in Asks : w.asked[a] = IF a \in OpenAsks(r) /\ r.asked[a] = "queued"
                                      THEN "cancelled" ELSE r.asked[a]
  BY WithdrawnFields
<1>2. k \in [Asks -> {"none", "resolved", "expired", "cancelled"} \cup Open]
  BY DEF Record
<1>3. AsksClosed(r) = [w EXCEPT !.ask = k, !.blocked = FALSE]
  BY DEF AsksClosed
<1>4. \A a \in Asks : k[a] = IF r.ask[a] \in Open THEN "cancelled" ELSE r.ask[a]
  OBVIOUS
<1> HIDE DEF w, k
<1>5. /\ AsksClosed(r) \in Record /\ AsksClosed(r).status = w.status
      /\ AsksClosed(r).event = w.event /\ AsksClosed(r).final = w.final
      /\ AsksClosed(r).ask = k /\ AsksClosed(r).cmd = w.cmd /\ AsksClosed(r).asked = w.asked
  BY <1>1, <1>2, <1>3 DEF Record
<1>6. \A a \in Asks : a \in OpenAsks(r) <=> r.ask[a] \in Open
  BY DEF OpenAsks
<1> QED  BY <1>1, <1>4, <1>5, <1>6

\* Failing the commands of a task fails those that were not sent.
LEMMA CommandsFailedFields ==
    ASSUME NEW r \in Record
    PROVE  LET s == CommandsFailed(r) IN
           /\ s \in Record /\ s.status = r.status /\ s.event = r.event /\ s.final = r.final
           /\ s.ask = r.ask /\ s.asked = r.asked
           /\ \A m \in Messages : s.cmd[m] = IF r.cmd[m] \in Unsent THEN "failed" ELSE r.cmd[m]
<1> DEFINE c == [m \in Messages |-> IF r.cmd[m] \in Unsent THEN "failed" ELSE r.cmd[m]]
<1>1. c \in [Messages -> {"none", "sent", "failed", "cancelled"} \cup Unsent]
  BY DEF Record
<1>2. CommandsFailed(r) = [r EXCEPT !.cmd = c]
  BY DEF CommandsFailed, Record
<1>3. \A m \in Messages : c[m] = IF r.cmd[m] \in Unsent THEN "failed" ELSE r.cmd[m]
  OBVIOUS
<1> HIDE DEF c
<1> QED  BY <1>1, <1>2, <1>3 DEF Record

\* Settling a task leaves no open question, no unsent command, no final event to reduce.
LEMMA SettledFields ==
    ASSUME NEW r \in Record
    PROVE  LET s == Settled(r) IN
           /\ s \in Record /\ s.status = r.status
           /\ \A a \in Asks : s.ask[a] = IF r.ask[a] \in Open THEN "cancelled" ELSE r.ask[a]
           /\ \A a \in Asks : s.asked[a] = IF r.ask[a] \in Open /\ r.asked[a] = "queued"
                                           THEN "cancelled" ELSE r.asked[a]
           /\ \A a \in Asks : s.event[a] = r.event[a]
           /\ s.event[Final] # "unprocessed" /\ (r.event[Final] = "none" => s.event[Final] = "none")
           /\ Sends(r, s)
<1> DEFINE k == AsksClosed(r)
           c == CommandsFailed(k)
<1>1. /\ k \in Record /\ k.status = r.status /\ k.event = r.event
      /\ \A a \in Asks : k.ask[a] = IF r.ask[a] \in Open THEN "cancelled" ELSE r.ask[a]
      /\ \A m \in Messages : /\ r.cmd[m] \notin Unsent => k.cmd[m] = r.cmd[m]
                             /\ r.cmd[m] \in Unsent =>
                                   k.cmd[m] = r.cmd[m] \/ k.cmd[m] = "cancelled"
      /\ \A a \in Asks : k.asked[a] = IF r.ask[a] \in Open /\ r.asked[a] = "queued"
                                      THEN "cancelled" ELSE r.asked[a]
  BY AsksClosedFields
<1>2. /\ c \in Record /\ c.status = k.status /\ c.event = k.event
      /\ c.ask = k.ask /\ c.asked = k.asked
      /\ \A m \in Messages : c.cmd[m] = IF k.cmd[m] \in Unsent THEN "failed" ELSE k.cmd[m]
  BY <1>1, CommandsFailedFields
<1>3. Settled(r) = [c EXCEPT !.final = "queued",
                             !.event[Final] = IF @ = "unprocessed" THEN "processed" ELSE @]
  BY DEF Settled
<1> HIDE DEF k, c
<1> DEFINE d == [c EXCEPT !.final = "queued"]
           e == [c.event EXCEPT ![Final] = IF @ = "unprocessed" THEN "processed" ELSE @]
<1>a. /\ e \in [Asks \cup {Final} -> Marks] /\ e[Final] # "unprocessed"
      /\ \A a \in Asks : e[a] = c.event[a]
      /\ c.event[Final] = "none" => e[Final] = "none"
  <2>1. c.event \in [Asks \cup {Final} -> Marks]
    BY <1>2 DEF Record
  <2> QED  BY <2>1, MessageFacts DEF Marks
<1>b. /\ d \in Record /\ d.status = c.status /\ d.ask = c.ask /\ d.asked = c.asked
      /\ d.cmd = c.cmd /\ d.event = c.event
  BY <1>2 DEF Record
<1>c. Settled(r) = [d EXCEPT !.event[Final] = IF @ = "unprocessed" THEN "processed" ELSE @]
  BY <1>3
<1> HIDE DEF d
<1>d. Settled(r) = [d EXCEPT !.event = e]
  BY <1>b, <1>c DEF Record
<1> HIDE DEF e
<1>4. /\ Settled(r) \in Record /\ Settled(r).status = c.status /\ Settled(r).ask = c.ask
      /\ Settled(r).asked = c.asked /\ Settled(r).cmd = c.cmd
      /\ \A a \in Asks : Settled(r).event[a] = c.event[a]
      /\ Settled(r).event[Final] # "unprocessed"
      /\ c.event[Final] = "none" => Settled(r).event[Final] = "none"
  BY <1>a, <1>b, <1>d DEF Record
<1>5. Sends(r, Settled(r))
  BY <1>1, <1>2, <1>4 DEF Sends, Unsent
<1> QED  BY <1>1, <1>2, <1>4, <1>5

\* A question is saved once.
LEMMA AskSavedFields ==
    ASSUME NEW r \in Record, NEW a \in Asks
    PROVE  LET s == AskSaved(r, a) IN
           /\ s \in Record /\ s.status = r.status /\ s.cmd = r.cmd
           /\ s.event = r.event /\ s.asked = r.asked
           /\ s.ask = [r.ask EXCEPT ![a] = IF @ = "none" THEN "pending" ELSE @]
<1> DEFINE p == [r EXCEPT !.ask[a] = IF @ = "none" THEN "pending" ELSE @]
<1>1. /\ p \in Record /\ p.status = r.status /\ p.cmd = r.cmd
      /\ p.event = r.event /\ p.asked = r.asked
      /\ p.ask = [r.ask EXCEPT ![a] = IF @ = "none" THEN "pending" ELSE @]
  BY DEF Record, Open
<1>2. AskSaved(r, a) = Refreshed(p)
  BY DEF AskSaved
<1> HIDE DEF p
<1> QED  BY <1>1, <1>2, RefreshedFields

\* A new question is saved, put to the user and its event is done with.
LEMMA AskPutFields ==
    ASSUME NEW r \in Record, NEW a \in Asks, Untouched(r, a)
    PROVE  LET s == AskPut(r, a) IN
           /\ s \in Record /\ s.status = r.status /\ s.cmd = r.cmd
           /\ s.ask[a] = "pending" /\ s.asked[a] = "queued" /\ s.event[a] = "processed"
           /\ s.event[Final] = r.event[Final]
           /\ \A b \in Asks \ {a} : /\ s.ask[b] = r.ask[b] /\ s.asked[b] = r.asked[b]
                                    /\ s.event[b] = r.event[b]
<1> DEFINE p == AskSaved(r, a)
<1>1. /\ p \in Record /\ p.status = r.status /\ p.cmd = r.cmd
      /\ p.event = r.event /\ p.asked = r.asked
      /\ p.ask = [r.ask EXCEPT ![a] = IF @ = "none" THEN "pending" ELSE @]
  BY AskSavedFields
<1>2. AskPut(r, a) = [p EXCEPT !.asked[a] = IF @ = "none" THEN "queued" ELSE @,
                               !.event[a] = "processed"]
  BY DEF AskPut
<1> DEFINE q == [p.asked EXCEPT ![a] = IF @ = "none" THEN "queued" ELSE @]
           e == [p.event EXCEPT ![a] = "processed"]
<1>a. AskPut(r, a) = [p EXCEPT !.asked = q, !.event = e]
  BY <1>1, <1>2 DEF Record
<1>b. /\ p.asked \in [Asks -> {"none", "queued", "cancelled"}]
      /\ p.event \in [Asks \cup {Final} -> Marks]
  BY <1>1 DEF Record
<1>c. /\ q \in [Asks -> {"none", "queued", "cancelled"}]
      /\ e \in [Asks \cup {Final} -> Marks]
  BY <1>b DEF Marks
<1>d. /\ q[a] = IF p.asked[a] = "none" THEN "queued" ELSE p.asked[a]
      /\ e[a] = "processed" /\ e[Final] = p.event[Final]
      /\ \A b \in Asks \ {a} : q[b] = p.asked[b] /\ e[b] = p.event[b]
  BY <1>b, MessageFacts
<1> HIDE DEF p, q, e
<1>3. /\ r.ask \in [Asks -> {"none", "resolved", "expired", "cancelled"} \cup Open]
      /\ r.asked[a] = "none" /\ r.ask[a] = "none"
  BY DEF Record, Untouched
<1>4. /\ AskPut(r, a) \in Record /\ AskPut(r, a).status = p.status /\ AskPut(r, a).cmd = p.cmd
      /\ AskPut(r, a).ask = p.ask /\ AskPut(r, a).asked = q /\ AskPut(r, a).event = e
  BY <1>1, <1>a, <1>c DEF Record
<1> QED  BY <1>1, <1>3, <1>4, <1>d

\* A reply's outcome is written on its command, and moves a question that resolves.
LEMMA ReplyOutcomeFields ==
    ASSUME NEW r \in Record, NEW a \in Asks, NEW m \in Messages, NEW accepted \in BOOLEAN
    PROVE  LET s == ReplyOutcome(r, a, m, accepted) IN
           /\ s \in Record /\ s.status = r.status /\ s.event = r.event
           /\ s.cmd = [r.cmd EXCEPT ![m] = SentAs(accepted)]
           /\ \A b \in Asks \ {a} : s.ask[b] = r.ask[b] /\ s.asked[b] = r.asked[b]
           /\ r.ask[a] # "resolving" => s.ask[a] = r.ask[a] /\ s.asked[a] = r.asked[a]
           /\ r.ask[a] = "resolving" =>
                 \/ s.ask[a] = "pending" /\ s.asked[a] = r.asked[a]
                 \/ s.ask[a] = "resolved" /\ s.asked[a] # "queued"
<1> DEFINE sent == [r EXCEPT !.cmd[m] = SentAs(accepted)]
<1>1. /\ sent \in Record /\ sent.status = r.status /\ sent.event = r.event
      /\ sent.ask = r.ask /\ sent.asked = r.asked
      /\ sent.cmd = [r.cmd EXCEPT ![m] = SentAs(accepted)]
  BY DEF Record, SentAs
<1>2. ReplyOutcome(r, a, m, accepted) =
        IF r.ask[a] # "resolving" THEN sent
        ELSE Refreshed(IF accepted THEN NotAsked([sent EXCEPT !.ask[a] = "resolved"], a)
                       ELSE [sent EXCEPT !.ask[a] = "pending"])
  BY DEF ReplyOutcome
<1> HIDE DEF sent
<1>3. CASE r.ask[a] # "resolving"
  BY <1>1, <1>2, <1>3
<1>4. CASE r.ask[a] = "resolving" /\ accepted
  <2> DEFINE p == [sent EXCEPT !.ask[a] = "resolved"]
             q == NotAsked(p, a)
  <2>1. /\ p \in Record /\ p.status = sent.status /\ p.event = sent.event
        /\ p.asked = sent.asked /\ p.cmd = sent.cmd
        /\ p.ask = [sent.ask EXCEPT ![a] = "resolved"]
    BY <1>1 DEF Record
  <2>2. ReplyOutcome(r, a, m, accepted) = Refreshed(q)
    BY <1>2, <1>4
  <2>3. /\ p.ask[a] = "resolved"
        /\ \A b \in Asks \ {a} : p.ask[b] = sent.ask[b]
    <3>1. sent.ask \in [Asks -> {"none", "resolved", "expired", "cancelled"} \cup Open]
      BY <1>1 DEF Record
    <3> QED  BY <2>1, <3>1
  <2> HIDE DEF p
  <2>4. /\ q \in Record /\ q.status = p.status /\ q.ask = p.ask /\ q.cmd = p.cmd
        /\ q.event = p.event /\ q.asked[a] # "queued"
        /\ \A b \in Asks \ {a} : q.asked[b] = p.asked[b]
    BY <2>1, NotAskedFields
  <2> HIDE DEF q
  <2>5. LET s == ReplyOutcome(r, a, m, accepted) IN
        /\ s \in Record /\ s.status = q.status /\ s.ask = q.ask /\ s.cmd = q.cmd
        /\ s.event = q.event /\ s.asked = q.asked
    BY <2>2, <2>4, RefreshedFields
  <2> DEFINE s == ReplyOutcome(r, a, m, accepted)
  <2>6. /\ s \in Record /\ s.status = r.status /\ s.event = r.event
        /\ s.cmd = [r.cmd EXCEPT ![m] = SentAs(accepted)]
    BY <1>1, <2>1, <2>4, <2>5
  <2>7. \A b \in Asks \ {a} : s.ask[b] = r.ask[b] /\ s.asked[b] = r.asked[b]
    BY <1>1, <2>1, <2>3, <2>4, <2>5
  <2>8. s.ask[a] = "resolved" /\ s.asked[a] # "queued"
    BY <2>3, <2>4, <2>5
  <2> HIDE DEF s
  <2> QED  BY <1>4, <2>6, <2>7, <2>8 DEF s
<1>5. CASE r.ask[a] = "resolving" /\ ~accepted
  <2> DEFINE p == [sent EXCEPT !.ask[a] = "pending"]
  <2>1. /\ p \in Record /\ p.status = sent.status /\ p.event = sent.event
        /\ p.asked = sent.asked /\ p.cmd = sent.cmd
        /\ p.ask = [sent.ask EXCEPT ![a] = "pending"]
    BY <1>1 DEF Record, Open
  <2>2. ReplyOutcome(r, a, m, accepted) = Refreshed(p)
    BY <1>2, <1>5
  <2>3. /\ p.ask[a] = "pending"
        /\ \A b \in Asks \ {a} : p.ask[b] = sent.ask[b]
    <3>1. sent.ask \in [Asks -> {"none", "resolved", "expired", "cancelled"} \cup Open]
      BY <1>1 DEF Record
    <3> QED  BY <2>1, <3>1
  <2> HIDE DEF p
  <2>4. LET s == ReplyOutcome(r, a, m, accepted) IN
        /\ s \in Record /\ s.status = p.status /\ s.ask = p.ask /\ s.cmd = p.cmd
        /\ s.event = p.event /\ s.asked = p.asked
    BY <2>1, <2>2, RefreshedFields
  <2> QED  BY <1>1, <1>5, <2>1, <2>3, <2>4
<1> QED  BY <1>3, <1>4, <1>5

\* A reply's outcome leaves the status of the task alone.
LEMMA ReplyOutcomeStatus ==
    ASSUME NEW r \in Record, NEW a \in Asks, NEW m \in Messages, NEW accepted \in BOOLEAN
    PROVE  /\ ReplyOutcome(r, a, m, accepted) \in Record
           /\ ReplyOutcome(r, a, m, accepted).status = r.status
<1> DEFINE s == ReplyOutcome(r, a, m, accepted)
<1>1. /\ s \in Record /\ s.status = r.status /\ s.event = r.event
      /\ s.cmd = [r.cmd EXCEPT ![m] = SentAs(accepted)]
      /\ \A b \in Asks \ {a} : s.ask[b] = r.ask[b] /\ s.asked[b] = r.asked[b]
      /\ r.ask[a] # "resolving" => s.ask[a] = r.ask[a] /\ s.asked[a] = r.asked[a]
      /\ r.ask[a] = "resolving" =>
            \/ s.ask[a] = "pending" /\ s.asked[a] = r.asked[a]
            \/ s.ask[a] = "resolved" /\ s.asked[a] # "queued"
  BY ReplyOutcomeFields
<1> HIDE DEF s
<1> QED  BY <1>1 DEF s

-----------------------------------------------------------------------------
(* The recovery of a record: what its first four passes have in common, and  *)
(* what the whole of it does.                                                *)

Recovers(r, s) ==
    /\ s \in Record /\ s.status = r.status /\ s.event = r.event /\ Sends(r, s)
    /\ \A a \in Asks :
          /\ r.ask[a] \notin Open => s.ask[a] = r.ask[a]
          /\ r.ask[a] \in Open => s.ask[a] # "none"
          /\ s.asked[a] = r.asked[a] \/ (r.asked[a] = "queued" /\ s.asked[a] = "cancelled")
          /\ s.asked[a] = "queued" /\ r.ask[a] \in Open => s.ask[a] \in Open

\* One part of the recovery after another is again a recovery.
LEMMA RecoversComposes ==
    ASSUME NEW r, NEW s, NEW u, Recovers(r, s), Recovers(s, u)
    PROVE  Recovers(r, u)
<1>1. Sends(r, u)
  BY DEF Recovers, Sends
<1>2. u \in Record /\ u.status = r.status /\ u.event = r.event
  BY DEF Recovers
<1>3. ASSUME NEW a \in Asks
      PROVE  /\ r.ask[a] \notin Open => u.ask[a] = r.ask[a]
             /\ r.ask[a] \in Open => u.ask[a] # "none"
             /\ u.asked[a] = r.asked[a] \/ (r.asked[a] = "queued" /\ u.asked[a] = "cancelled")
             /\ u.asked[a] = "queued" /\ r.ask[a] \in Open => u.ask[a] \in Open
  BY DEF Recovers, Open
<1> QED  BY <1>1, <1>2, <1>3 DEF Recovers

\* Commands that were being sent are queued again.
LEMMA SendingResetRecovers ==
    ASSUME NEW r \in Record
    PROVE  Recovers(r, SendingReset(r))
<1> DEFINE c == [m \in Messages |-> IF r.cmd[m] = "sending" THEN "pending" ELSE r.cmd[m]]
<1>1. c \in [Messages -> {"none", "sent", "failed", "cancelled"} \cup Unsent]
  BY DEF Record, Unsent
<1>2. SendingReset(r) = [r EXCEPT !.cmd = c]
  BY DEF SendingReset, Record
<1>3. \A m \in Messages : c[m] = IF r.cmd[m] = "sending" THEN "pending" ELSE r.cmd[m]
  OBVIOUS
<1> HIDE DEF c
<1>4. LET s == SendingReset(r) IN
      /\ s \in Record /\ s.status = r.status /\ s.event = r.event /\ s.ask = r.ask
      /\ s.asked = r.asked /\ s.cmd = c
  BY <1>1, <1>2 DEF Record
<1> QED  BY <1>3, <1>4 DEF Recovers, Sends, Open

\* Open permissions expire.
LEMMA PermissionsExpiredRecovers ==
    ASSUME NEW r \in Record
    PROVE  Recovers(r, PermissionsExpired(r))
<1> DEFINE A == OpenAsks(r) \cap Permissions
           w == Withdrawn(r, A)
           k == [a \in Asks |-> IF a \in A THEN "expired" ELSE r.ask[a]]
           p == [w EXCEPT !.ask = k]
<1>1. /\ w \in Record /\ w.status = r.status /\ w.event = r.event
      /\ \A m \in Messages : w.cmd[m] = IF r.cmd[m] \in Unsent /\ m[1] \in A
                                        THEN "cancelled" ELSE r.cmd[m]
      /\ \A a \in Asks : w.asked[a] = IF a \in A /\ r.asked[a] = "queued"
                                      THEN "cancelled" ELSE r.asked[a]
  BY WithdrawnFields
<1>2. k \in [Asks -> {"none", "resolved", "expired", "cancelled"} \cup Open]
  BY DEF Record
<1>3. PermissionsExpired(r) = Refreshed(p)
  BY DEF PermissionsExpired
<1>4. \A a \in Asks : k[a] = IF a \in A THEN "expired" ELSE r.ask[a]
  OBVIOUS
<1>5. \A a \in A : r.ask[a] \in Open
  BY DEF OpenAsks
<1> HIDE DEF A, w, k
<1>6. /\ p \in Record /\ p.status = w.status /\ p.event = w.event /\ p.cmd = w.cmd
      /\ p.asked = w.asked /\ p.ask = k
  BY <1>1, <1>2 DEF Record
<1> HIDE DEF p
<1>7. LET s == PermissionsExpired(r) IN
      /\ s \in Record /\ s.status = w.status /\ s.event = w.event /\ s.cmd = w.cmd
      /\ s.asked = w.asked /\ s.ask = k
  BY <1>3, <1>6, RefreshedFields
<1>8. Sends(r, PermissionsExpired(r))
  BY <1>1, <1>7 DEF Sends, Unsent
<1> QED  BY <1>1, <1>4, <1>5, <1>7, <1>8 DEF Recovers, Open

\* A question whose reply was sent is resolved.
LEMMA SentFinishedRecovers ==
    ASSUME NEW r \in Record
    PROVE  Recovers(r, SentFinished(r))
<1> DEFINE A == {a \in Asks : r.ask[a] = "resolving" /\ RepliesWith(r, a, {"sent"})}
           k == [a \in Asks |-> IF a \in A THEN "resolved" ELSE r.ask[a]]
           q == [a \in Asks |-> IF a \in A /\ r.asked[a] = "queued"
                                THEN "cancelled" ELSE r.asked[a]]
           p == [r EXCEPT !.ask = k, !.asked = q]
<1>1. SentFinished(r) = Refreshed(p)
  BY DEF SentFinished, Record
<1>2. /\ k \in [Asks -> {"none", "resolved", "expired", "cancelled"} \cup Open]
      /\ q \in [Asks -> {"none", "queued", "cancelled"}]
  BY DEF Record
<1>3. \A a \in Asks : /\ k[a] = IF a \in A THEN "resolved" ELSE r.ask[a]
                      /\ q[a] = IF a \in A /\ r.asked[a] = "queued" THEN "cancelled" ELSE r.asked[a]
  OBVIOUS
<1>4. \A a \in A : r.ask[a] = "resolving"
  OBVIOUS
<1> HIDE DEF A, k, q
<1>5. /\ p \in Record /\ p.status = r.status /\ p.event = r.event /\ p.cmd = r.cmd
      /\ p.asked = q /\ p.ask = k
  BY <1>2 DEF Record
<1> HIDE DEF p
<1>6. LET s == SentFinished(r) IN
      /\ s \in Record /\ s.status = r.status /\ s.event = r.event /\ s.cmd = r.cmd
      /\ s.asked = q /\ s.ask = k
  BY <1>1, <1>5, RefreshedFields
<1> QED  BY <1>3, <1>4, <1>6 DEF Recovers, Sends, Open

\* A question whose reply is lost is open again.
LEMMA ResolvingRecoveredRecovers ==
    ASSUME NEW r \in Record
    PROVE  Recovers(r, ResolvingRecovered(r))
<1> DEFINE Back(a) == r.ask[a] = "resolving" /\ ~RepliesWith(r, a, Unsent \cup {"sent"})
           k == [a \in Asks |-> IF Back(a) THEN "pending" ELSE r.ask[a]]
           p == [r EXCEPT !.ask = k]
<1>1. ResolvingRecovered(r) = Refreshed(p)
  BY DEF ResolvingRecovered, Record
<1>2. k \in [Asks -> {"none", "resolved", "expired", "cancelled"} \cup Open]
  BY DEF Record, Open
<1>3. \A a \in Asks : k[a] = r.ask[a] \/ (r.ask[a] = "resolving" /\ k[a] = "pending")
  OBVIOUS
<1> HIDE DEF k
<1>5. /\ p \in Record /\ p.status = r.status /\ p.event = r.event /\ p.cmd = r.cmd
      /\ p.asked = r.asked /\ p.ask = k
  BY <1>2 DEF Record
<1> HIDE DEF p
<1>6. LET s == ResolvingRecovered(r) IN
      /\ s \in Record /\ s.status = r.status /\ s.event = r.event /\ s.cmd = r.cmd
      /\ s.asked = r.asked /\ s.ask = k
  BY <1>1, <1>5, RefreshedFields
<1> QED  BY <1>3, <1>6 DEF Recovers, Sends, Open

\* Events of questions that were not processed are processed.
LEMMA AsksReplayedFields ==
    ASSUME NEW r \in Record
    PROVE  LET s == AsksReplayed(r) IN
           /\ s \in Record /\ s.status = r.status /\ s.cmd = r.cmd
           /\ s.event[Final] = r.event[Final]
           /\ \A a \in Asks :
                 LET new == r.event[a] = "unprocessed" IN
                 /\ s.ask[a] = IF new /\ r.ask[a] = "none" THEN "pending" ELSE r.ask[a]
                 /\ s.asked[a] = IF new /\ r.asked[a] = "none" THEN "queued" ELSE r.asked[a]
                 /\ s.event[a] = IF new THEN "processed" ELSE r.event[a]
<1> DEFINE A == {a \in Asks : r.event[a] = "unprocessed"}
           k == [a \in Asks |-> IF a \in A /\ r.ask[a] = "none" THEN "pending" ELSE r.ask[a]]
           q == [a \in Asks |-> IF a \in A /\ r.asked[a] = "none" THEN "queued" ELSE r.asked[a]]
           v == [e \in Asks \cup {Final} |-> IF e \in A THEN "processed" ELSE r.event[e]]
           p == [r EXCEPT !.ask = k, !.asked = q, !.event = v]
<1>1. AsksReplayed(r) = Refreshed(p)
  BY DEF AsksReplayed, Record
<1>2. /\ k \in [Asks -> {"none", "resolved", "expired", "cancelled"} \cup Open]
      /\ q \in [Asks -> {"none", "queued", "cancelled"}]
      /\ v \in [Asks \cup {Final} -> Marks]
  BY DEF Record, Open, Marks
<1>3. \A a \in Asks :
         /\ k[a] = IF a \in A /\ r.ask[a] = "none" THEN "pending" ELSE r.ask[a]
         /\ q[a] = IF a \in A /\ r.asked[a] = "none" THEN "queued" ELSE r.asked[a]
         /\ v[a] = IF a \in A THEN "processed" ELSE r.event[a]
  OBVIOUS
<1>4. v[Final] = r.event[Final]
  BY MessageFacts
<1>5. \A a \in Asks : a \in A <=> r.event[a] = "unprocessed"
  OBVIOUS
<1> HIDE DEF A, k, q, v
<1>6. /\ p \in Record /\ p.status = r.status /\ p.event = v /\ p.cmd = r.cmd
      /\ p.asked = q /\ p.ask = k
  BY <1>2 DEF Record
<1> HIDE DEF p
<1>7. LET s == AsksReplayed(r) IN
      /\ s \in Record /\ s.status = r.status /\ s.event = v /\ s.cmd = r.cmd
      /\ s.asked = q /\ s.ask = k
  BY <1>1, <1>6, RefreshedFields
<1> QED  BY <1>3, <1>4, <1>5, <1>7

\* The final event ends a task that is live, once, and closes its questions.
LEMMA TerminalFields ==
    ASSUME NEW r \in Record, NEW status \in {"completed", "failed"}
    PROVE  LET s == Terminal(r, status) IN
           /\ s \in Record
           /\ HasEnded(r) => s.status = r.status
           /\ r.status \in Live => HasEnded(s)
           /\ r.event[Final] # "unprocessed" /\ r.status \notin Live => s = r
           /\ r.event[Final] = "unprocessed" \/ r.status \in Live =>
                 \A a \in Asks :
                    /\ s.ask[a] = IF r.ask[a] \in Open THEN "cancelled" ELSE r.ask[a]
                    /\ s.asked[a] = IF r.ask[a] \in Open /\ r.asked[a] = "queued"
                                    THEN "cancelled" ELSE r.asked[a]
           /\ \A a \in Asks : s.event[a] = r.event[a]
           /\ s.event[Final] # "unprocessed" /\ (r.event[Final] = "none" => s.event[Final] = "none")
           /\ Sends(r, s)
<1>1. CASE r.event[Final] = "unprocessed"
  <2> DEFINE end == IF HasEnded(r) THEN r.status ELSE status
             p == [r EXCEPT !.status = end]
  <2>1. Terminal(r, status) = Settled(p)
    BY <1>1 DEF Terminal
  <2>2. end \in Ended
    BY DEF HasEnded, Ended
  <2>3. HasEnded(r) => end = r.status
    OBVIOUS
  <2> HIDE DEF end
  <2>4. /\ p \in Record /\ p.status = end /\ p.event = r.event /\ p.cmd = r.cmd
        /\ p.asked = r.asked /\ p.ask = r.ask
    BY <2>2 DEF Record
  <2> HIDE DEF p
  <2>5. Sends(r, Settled(p))
    BY <2>4, SettledFields DEF Sends
  <2> QED  BY <1>1, <2>1, <2>2, <2>3, <2>4, <2>5, SettledFields DEF HasEnded
<1>2. CASE r.event[Final] # "unprocessed" /\ r.status \in Live
  <2> DEFINE p == [r EXCEPT !.status = "failed"]
  <2>1. Terminal(r, status) = Settled(p)
    BY <1>2 DEF Terminal
  <2>2. /\ p \in Record /\ p.status = "failed" /\ p.event = r.event /\ p.cmd = r.cmd
        /\ p.asked = r.asked /\ p.ask = r.ask
    BY DEF Record, Ended
  <2> HIDE DEF p
  <2>3. Sends(r, Settled(p))
    BY <2>2, SettledFields DEF Sends
  <2>4. ~HasEnded(r) /\ "failed" \in Ended
    BY <1>2 DEF HasEnded, Ended, Live
  <2> QED  BY <1>2, <2>1, <2>2, <2>3, <2>4, SettledFields DEF HasEnded
<1>3. CASE r.event[Final] # "unprocessed" /\ r.status \notin Live
  <2>1. Terminal(r, status) = r
    BY <1>3 DEF Terminal
  <2> QED  BY <1>3, <2>1 DEF Sends
<1> QED  BY <1>1, <1>2, <1>3

\* What a recovered record is, by what the record was.
LEMMA RecoveredFields ==
    ASSUME NEW r \in Record, NEW status \in {"completed", "failed"}
    PROVE  LET s == Recovered(r, status) IN
           /\ s \in Record /\ Sends(r, s)
           /\ HasEnded(r) => s.status = r.status
           /\ r.status \in Live => HasEnded(s)
           /\ r.event[Final] # "unprocessed" /\ r.status \notin Live => s.status = r.status
           /\ s.event[Final] # "unprocessed" /\ (r.event[Final] = "none" => s.event[Final] = "none")
           /\ \A a \in Asks :
                 /\ s.event[a] = IF r.event[a] = "unprocessed" THEN "processed" ELSE r.event[a]
                 /\ s.event[a] = "none" /\ Untouched(r, a) => Untouched(s, a)
           /\ (\A a \in Asks : /\ r.asked[a] = "queued" => r.ask[a] \in Open
                               /\ r.event[a] = "unprocessed" => r.ask[a] = "none")
                 => \A a \in Asks : s.asked[a] = "queued" => s.ask[a] \in Open
           /\ r.event[Final] = "unprocessed" \/ r.status \in Live => OpenAsks(s) = {}
           /\ OpenAsks(r) = {} /\ (\A a \in Asks : r.event[a] # "unprocessed")
                 => OpenAsks(s) = {}
<1> DEFINE p == ResolvingRecovered(SentFinished(PermissionsExpired(SendingReset(r))))
           q == AsksReplayed(p)
           s == Terminal(q, status)
<1>1. Recovers(r, p)
  <2> DEFINE p1 == SendingReset(r)
             p2 == PermissionsExpired(p1)
             p3 == SentFinished(p2)
  <2>1. Recovers(r, p1)
    BY SendingResetRecovers
  <2> HIDE DEF p1
  <2>2. Recovers(p1, p2)
    BY <2>1, PermissionsExpiredRecovers DEF Recovers
  <2> HIDE DEF p2
  <2>3. Recovers(p2, p3)
    BY <2>2, SentFinishedRecovers DEF Recovers
  <2> HIDE DEF p3
  <2>4. Recovers(p3, ResolvingRecovered(p3))
    BY <2>3, ResolvingRecoveredRecovers DEF Recovers
  <2>5. Recovers(r, ResolvingRecovered(p3))
    BY <2>1, <2>2, <2>3, <2>4, RecoversComposes
  <2> QED  BY <2>5 DEF p1, p2, p3
<1>2. Recovered(r, status) = s
  BY DEF Recovered
<1> HIDE DEF p
<1>3. /\ q \in Record /\ q.status = r.status /\ q.cmd = p.cmd /\ q.event[Final] = r.event[Final]
      /\ \A a \in Asks :
            LET new == r.event[a] = "unprocessed" IN
            /\ q.ask[a] = IF new /\ p.ask[a] = "none" THEN "pending" ELSE p.ask[a]
            /\ q.asked[a] = IF new /\ p.asked[a] = "none" THEN "queued" ELSE p.asked[a]
            /\ q.event[a] = IF new THEN "processed" ELSE r.event[a]
  BY <1>1, AsksReplayedFields DEF Recovers
<1> HIDE DEF q
<1>4. /\ s \in Record
      /\ HasEnded(q) => s.status = q.status
      /\ q.status \in Live => HasEnded(s)
      /\ q.event[Final] # "unprocessed" /\ q.status \notin Live => s = q
      /\ q.event[Final] = "unprocessed" \/ q.status \in Live =>
            \A a \in Asks :
               /\ s.ask[a] = IF q.ask[a] \in Open THEN "cancelled" ELSE q.ask[a]
               /\ s.asked[a] = IF q.ask[a] \in Open /\ q.asked[a] = "queued"
                               THEN "cancelled" ELSE q.asked[a]
      /\ \A a \in Asks : s.event[a] = q.event[a]
      /\ s.event[Final] # "unprocessed" /\ (q.event[Final] = "none" => s.event[Final] = "none")
      /\ Sends(q, s)
  BY <1>3, TerminalFields
<1> HIDE DEF s
<1>5. Sends(r, s)
  BY <1>1, <1>3, <1>4 DEF Recovers, Sends
<1>6. /\ HasEnded(r) => s.status = r.status
      /\ r.status \in Live => HasEnded(s)
      /\ r.event[Final] # "unprocessed" /\ r.status \notin Live => s.status = r.status
  BY <1>3, <1>4 DEF HasEnded
<1>7. ASSUME NEW a \in Asks
      PROVE  /\ s.event[a] = IF r.event[a] = "unprocessed" THEN "processed" ELSE r.event[a]
             /\ s.event[a] = "none" /\ Untouched(r, a) => Untouched(s, a)
  <2>1. s.event[a] = IF r.event[a] = "unprocessed" THEN "processed" ELSE r.event[a]
    BY <1>3, <1>4
  <2>2. ASSUME s.event[a] = "none", Untouched(r, a)
        PROVE  Untouched(s, a)
    <3>1. p.ask[a] = "none" /\ p.asked[a] = "none"
      BY <1>1, <2>2 DEF Recovers, Untouched, Open
    <3>2. q.ask[a] = "none" /\ q.asked[a] = "none"
      BY <1>3, <2>1, <2>2, <3>1
    <3>3. s.ask[a] = "none" /\ s.asked[a] = "none"
      BY <1>4, <3>2 DEF Open
    <3>4. s.cmd[Reply(a, 0)] = "none"
      BY <1>5, <2>2, MessageFacts DEF Sends, Untouched
    <3> QED  BY <3>3, <3>4 DEF Untouched
  <2> QED  BY <2>1, <2>2
<1>8. ASSUME \A a \in Asks : /\ r.asked[a] = "queued" => r.ask[a] \in Open
                             /\ r.event[a] = "unprocessed" => r.ask[a] = "none",
             NEW a \in Asks, s.asked[a] = "queued"
      PROVE  s.ask[a] \in Open
  <2>1. q.asked[a] = "queued" => q.ask[a] \in Open
    BY <1>1, <1>3, <1>8 DEF Recovers, Open
  <2> QED  BY <1>4, <1>8, <2>1
<1>9. ASSUME r.event[Final] = "unprocessed" \/ r.status \in Live
      PROVE  OpenAsks(s) = {}
  BY <1>3, <1>4, <1>9 DEF OpenAsks, Open
<1>10. ASSUME OpenAsks(r) = {}, \A a \in Asks : r.event[a] # "unprocessed"
       PROVE  OpenAsks(s) = {}
  <2>1. \A a \in Asks : p.ask[a] \notin Open
    BY <1>1, <1>10 DEF Recovers, OpenAsks
  <2>2. \A a \in Asks : q.ask[a] \notin Open
    BY <1>3, <1>10, <2>1
  <2>3. \A a \in Asks : s.ask[a] \notin Open
    BY <1>4, <2>2 DEF Open
  <2> QED  BY <2>3 DEF OpenAsks
<1> QED  BY <1>2, <1>3, <1>4, <1>5, <1>6, <1>7, <1>8, <1>9, <1>10

-----------------------------------------------------------------------------
(* Single writes of the ledger.                                              *)

\* A write of a task's record leaves the other tasks alone.
LEMMA RecordWritten ==
    ASSUME TypeOK, NEW t \in Tasks, NEW s \in Record, led' = [led EXCEPT ![t] = s]
    PROVE  /\ led' \in [Tasks -> Record] /\ led'[t] = s
           /\ \A u \in Tasks \ {t} : led'[u] = led[u]
  BY DEF TypeOK

\* A write of the status leaves the rest of the record alone.
LEMMA StatusWritten ==
    ASSUME TypeOK, NEW t \in Tasks, NEW x \in {"none", "queued"} \cup Live \cup Ended,
           led' = [led EXCEPT ![t].status = x]
    PROVE  /\ led' \in [Tasks -> Record] /\ led'[t].status = x
           /\ led'[t].ask = led[t].ask /\ led'[t].asked = led[t].asked
           /\ led'[t].cmd = led[t].cmd /\ led'[t].event = led[t].event
           /\ \A u \in Tasks \ {t} : led'[u] = led[u]
<1> DEFINE s == [led[t] EXCEPT !.status = x]
<1>1. led[t] \in Record
  BY DEF TypeOK
<1>2. /\ s \in Record /\ s.status = x /\ s.ask = led[t].ask /\ s.asked = led[t].asked
      /\ s.cmd = led[t].cmd /\ s.event = led[t].event
  BY <1>1 DEF Record
<1>3. led' = [led EXCEPT ![t] = s]
  OBVIOUS
<1> HIDE DEF s
<1> QED  BY <1>2, <1>3, RecordWritten

\* A write of one command leaves the others alone.
LEMMA CommandWritten ==
    ASSUME TypeOK, NEW t \in Tasks, NEW m \in Messages,
           NEW x \in {"none", "sent", "failed", "cancelled"} \cup Unsent,
           led' = [led EXCEPT ![t].cmd[m] = x]
    PROVE  /\ led' \in [Tasks -> Record] /\ led'[t].status = led[t].status
           /\ led'[t].ask = led[t].ask /\ led'[t].asked = led[t].asked
           /\ led'[t].cmd[m] = x /\ led'[t].event = led[t].event
           /\ \A k \in Messages \ {m} : led'[t].cmd[k] = led[t].cmd[k]
           /\ \A u \in Tasks \ {t} : led'[u] = led[u]
<1> DEFINE s == [led[t] EXCEPT !.cmd[m] = x]
<1>1. led[t] \in Record
  BY DEF TypeOK
<1>2. /\ s \in Record /\ s.status = led[t].status /\ s.ask = led[t].ask
      /\ s.asked = led[t].asked /\ s.event = led[t].event
      /\ s.cmd[m] = x /\ \A k \in Messages \ {m} : s.cmd[k] = led[t].cmd[k]
  BY <1>1 DEF Record
<1>3. led' = [led EXCEPT ![t] = s]
  OBVIOUS
<1> HIDE DEF s
<1> QED  BY <1>2, <1>3, RecordWritten

\* A write of one event's mark leaves the others alone.
LEMMA EventWritten ==
    ASSUME TypeOK, NEW t \in Tasks, NEW e \in Asks \cup {Final}, NEW x \in Marks,
           led' = [led EXCEPT ![t].event[e] = x]
    PROVE  /\ led' \in [Tasks -> Record] /\ led'[t].status = led[t].status
           /\ led'[t].ask = led[t].ask /\ led'[t].asked = led[t].asked
           /\ led'[t].cmd = led[t].cmd /\ led'[t].event[e] = x
           /\ \A f \in (Asks \cup {Final}) \ {e} : led'[t].event[f] = led[t].event[f]
           /\ \A u \in Tasks \ {t} : led'[u] = led[u]
<1> DEFINE s == [led[t] EXCEPT !.event[e] = x]
<1>1. led[t] \in Record
  BY DEF TypeOK
<1>2. /\ s \in Record /\ s.status = led[t].status /\ s.ask = led[t].ask
      /\ s.asked = led[t].asked /\ s.cmd = led[t].cmd
      /\ s.event[e] = x
      /\ \A f \in (Asks \cup {Final}) \ {e} : s.event[f] = led[t].event[f]
  BY <1>1 DEF Record
<1>3. led' = [led EXCEPT ![t] = s]
  OBVIOUS
<1> HIDE DEF s
<1> QED  BY <1>2, <1>3, RecordWritten

\* What the types say of the single fields.
LEMMA OutboxElements ==
    ASSUME TypeOK, NEW t \in Tasks
    PROVE  /\ outbox[t] \in Seq(Asks \cup {Final})
           /\ \A i \in DOMAIN outbox[t] : outbox[t][i] \in Asks \cup {Final}
<1>1. outbox[t] \in Seq(Asks \cup {Final})
  BY DEF TypeOK
<1> QED  BY <1>1

\* What the types say of each field.
LEMMA GatewayFields ==
    ASSUME TypeOK
    PROVE  /\ \A t \in Tasks : led[t] \in Record
           /\ \A t \in Tasks, m \in Messages : heard[t][m] \in Nat
           /\ \A t \in Tasks : todo[t] \subseteq Messages
           /\ faults \in 0..MaxFaults /\ crashes \in 0..MaxCrashes
           /\ busy = Free => busy.task \notin Tasks /\ busy.at = "free"
<1>1. \A t \in Tasks : led[t] \in Record
  BY DEF TypeOK
<1>2. \A t \in Tasks, m \in Messages : heard[t][m] \in Nat
  BY DEF TypeOK
<1>3. \A t \in Tasks : todo[t] \subseteq Messages
  BY DEF TypeOK
<1>4. faults \in 0..MaxFaults /\ crashes \in 0..MaxCrashes
  BY DEF TypeOK
<1>5. busy = Free => busy.task \notin Tasks /\ busy.at = "free"
  BY NamesAssumption DEF Free
<1> QED  BY <1>1, <1>2, <1>3, <1>4, <1>5

-----------------------------------------------------------------------------
(* The dispatch.                                                             *)

EarlyJobs   == {"resource", "slot", "lock", "open", "start"}
BetweenJobs == {"replay", "send", "events"}
LateJobs    == {"failing", "close", "none"}

\* The dispatch of t moves on, or not, and never to where more is promised.
MovesOn(t) ==
    /\ \A u \in Tasks \ {t} : job'[u] = job[u]
    /\ job'[t] \in EarlyJobs => job[t] \in EarlyJobs
    /\ job'[t] \in BetweenJobs => job[t] \in BetweenJobs
    /\ job'[t] = "reply" => job[t] = "reply"
    /\ job[t] \in WaitJobs => job'[t] \in WaitJobs
    /\ job[t] \in LateJobs => job'[t] \in LateJobs

\* A step that only moves a dispatch on, and may end runs, keeps the invariant.
LEMMA JobMoves ==
    ASSUME TaskInv, busy = Free, up, NEW t \in Tasks, MovesOn(t),
           \A u \in Tasks : run'[u] => run[u], call' \in {call, Idle},
           UNCHANGED <<led, todo, heard, busy, up, cut>>, outbox' = outbox \/ AskComesOnce',
           TypeOK'
    PROVE  TaskInv'
<1>1. busy.task \notin Tasks /\ busy.at = "free"
  BY GatewayFields DEF TaskInv
<1>2. Heard'
  <2>1. HeardIsRecorded' /\ ReplayIsUnheard'
    BY DEF TaskInv, Heard, HeardIsRecorded, ReplayIsUnheard
  <2>2. CallIsUnheard'
    BY DEF TaskInv, Heard, CallIsUnheard, Early, EarlyJobs, Idle, MovesOn
  <2>3. GrantIsUnheard'
    BY DEF TaskInv, Heard, GrantIsUnheard, LateJobs, MovesOn
  <2> QED  BY <2>1, <2>2, <2>3 DEF Heard
<1>3. Course'
  <2>1. NoRunYet'
    BY DEF TaskInv, Course, NoRunYet, Early, EarlyJobs, Fresh, MovesOn
  <2>2. AskComesOnce' /\ LastIsReduced'
    BY DEF TaskInv, Course, AskComesOnce, LastIsReduced, Untouched
  <2>3. BusyWith'
    BY <1>1 DEF BusyWith
  <2>4. OneAtATime'
    BY <1>1 DEF TaskInv, Course, OneAtATime, Between, BetweenJobs, MovesOn
  <2>5. NothingIsUp'
    BY DEF NothingIsUp
  <2> QED  BY <2>1, <2>2, <2>3, <2>4, <2>5 DEF Course
<1>4. Closed'
  BY DEF TaskInv, Closed, QueuedIsOpen, EndedIsClosed, DownIsRecoverable, CutShort, OpenAsks,
         HasEnded
<1> QED  BY <1>2, <1>3, <1>4 DEF TaskInv

\* The row of a task that has ended is written, by its dispatch or by a call.
LEMMA Ending ==
    ASSUME TaskInv, up, NEW t \in Tasks, NEW x \in Ended, EndRow(t, x),
           busy = Free \/ (busy.task = t /\ busy.at = "row"), MovesOn(t),
           \A u \in Tasks : run'[u] => run[u], call' \in {call, Idle},
           UNCHANGED <<todo, outbox, heard, up, cut>>, TypeOK'
    PROVE  TaskInv'
<1>t. TypeOK
  BY DEF TaskInv
<1>1. /\ led'[t].status \in Ended
      /\ led'[t].ask = led[t].ask /\ led'[t].asked = led[t].asked
      /\ led'[t].cmd = led[t].cmd /\ led'[t].event = led[t].event
      /\ \A u \in Tasks \ {t} : led'[u] = led[u]
  BY <1>t, StatusWritten DEF EndRow
<1>2. /\ busy'.task = t /\ busy'.at = "rest"
      /\ busy = Free => busy.task \notin Tasks /\ busy.at = "free"
  BY <1>t, GatewayFields DEF EndRow
<1>3. Heard'
  <2>1. HeardIsRecorded' /\ ReplayIsUnheard'
    BY <1>1 DEF TaskInv, Heard, HeardIsRecorded, ReplayIsUnheard
  <2>2. CallIsUnheard'
    BY <1>1 DEF TaskInv, Heard, CallIsUnheard, Early, EarlyJobs, Idle, MovesOn, Ended
  <2>3. GrantIsUnheard'
    BY <1>1 DEF TaskInv, Heard, GrantIsUnheard, LateJobs, MovesOn
  <2> QED  BY <2>1, <2>2, <2>3 DEF Heard
<1>4. Course'
  <2>1. NoRunYet'
    BY <1>1 DEF TaskInv, Course, NoRunYet, Early, EarlyJobs, Fresh, MovesOn, Ended
  <2>2. AskComesOnce'
    BY <1>1 DEF TaskInv, Course, AskComesOnce, Untouched
  <2>3. LastIsReduced'
    BY <1>1, <1>2 DEF TaskInv, Course, LastIsReduced
  <2>4. BusyWith'
    BY <1>1, <1>2 DEF BusyWith, HasEnded
  <2>5. OneAtATime'
    <3>1. ASSUME NEW u \in Tasks, NEW a \in Asks, led[u].event[a] = "unprocessed"
          PROVE  /\ Between(u)' => FALSE
                 /\ (job[u] = "reply")' => \A b \in Asks : led[u].event[b] = "unprocessed" => a = b
                 /\ u = t => led[u].event[Final] # "unprocessed"
      BY <1>2, <3>1 DEF TaskInv, Course, OneAtATime, LastIsReduced, BusyWith, Between, BetweenJobs,
                        MovesOn
    <3> QED  BY <1>1, <1>2, <3>1 DEF OneAtATime
  <2>6. NothingIsUp'
    BY DEF NothingIsUp
  <2> QED  BY <2>1, <2>2, <2>3, <2>4, <2>5, <2>6 DEF Course
<1>5. Closed'
  <2>1. QueuedIsOpen'
    BY <1>1 DEF TaskInv, Closed, QueuedIsOpen, CutShort
  <2>2. EndedIsClosed'
    BY <1>1, <1>2 DEF TaskInv, Closed, EndedIsClosed, CutShort, OpenAsks, HasEnded
  <2>3. DownIsRecoverable'
    BY DEF DownIsRecoverable
  <2> QED  BY <2>1, <2>2, <2>3 DEF Closed
<1> QED  BY <1>3, <1>4, <1>5 DEF TaskInv

\* The steps of a dispatch that are such.
LEMMA MovesStep ==
    ASSUME TaskInv, NEW t \in Tasks,
           \/ TakeWorkspace(t) \/ TakeSlot(t) \/ OpenProject(t) \/ StartFails(t)
           \/ ReplayDone(t) \/ DispatchCancelFails(t) \/ StreamEnds(t) \/ CloseRun(t)
    PROVE  TaskInv'
<1> USE DEF WaitJobs, EarlyJobs, BetweenJobs, LateJobs, Goto
<1>t. TypeOK
  BY DEF TaskInv
<1>1. CASE TakeWorkspace(t)
  <2>1. TypeOK'
    BY <1>t, <1>1 DEF TakeWorkspace, TypeOK, Holding
  <2>2. MovesOn(t)
    BY <1>t, <1>1 DEF TakeWorkspace, TypeOK, MovesOn
  <2> QED  BY <1>1, <2>1, <2>2, JobMoves DEF TakeWorkspace, Running
<1>2. CASE TakeSlot(t)
  <2>1. TypeOK'
    BY <1>t, <1>2 DEF TakeSlot, TypeOK, Holding
  <2>2. MovesOn(t)
    BY <1>t, <1>2 DEF TakeSlot, TypeOK, MovesOn
  <2> QED  BY <1>2, <2>1, <2>2, JobMoves DEF TakeSlot, Running
<1>3. CASE OpenProject(t)
  <2>1. TypeOK'
    BY <1>t, <1>3 DEF OpenProject, TypeOK, Holding
  <2>2. MovesOn(t)
    BY <1>t, <1>3 DEF OpenProject, TypeOK, MovesOn
  <2> QED  BY <1>3, <2>1, <2>2, JobMoves DEF OpenProject, Running
<1>4. CASE StartFails(t)
  <2>1. TypeOK'
    BY <1>t, <1>4, BoundsAssumption DEF StartFails, Fault, TypeOK, Holding
  <2>2. MovesOn(t)
    BY <1>t, <1>4 DEF StartFails, TypeOK, MovesOn
  <2> QED  BY <1>4, <2>1, <2>2, JobMoves DEF StartFails, Running
<1>5. CASE ReplayDone(t)
  <2>1. TypeOK'
    BY <1>t, <1>5 DEF ReplayDone, TypeOK, Holding
  <2>2. MovesOn(t)
    BY <1>t, <1>5 DEF ReplayDone, TypeOK, MovesOn
  <2> QED  BY <1>5, <2>1, <2>2, JobMoves DEF ReplayDone, Running
<1>6. CASE DispatchCancelFails(t)
  <2>1. TypeOK'
    BY <1>t, <1>6, BoundsAssumption DEF DispatchCancelFails, Fault, TypeOK, Holding
  <2>2. MovesOn(t)
    BY <1>t, <1>6 DEF DispatchCancelFails, TypeOK, MovesOn
  <2> QED  BY <1>6, <2>1, <2>2, JobMoves DEF DispatchCancelFails, Running
<1>7. CASE StreamEnds(t)
  <2>1. TypeOK'
    BY <1>t, <1>7 DEF StreamEnds, TypeOK, Holding
  <2>2. MovesOn(t)
    BY <1>t, <1>7 DEF StreamEnds, TypeOK, MovesOn
  <2> QED  BY <1>7, <2>1, <2>2, JobMoves DEF StreamEnds, Running
<1>8. CASE CloseRun(t)
  <2>1. TypeOK'
    <3>1. worker' \in [Tasks -> BOOLEAN]
      BY <1>t, <1>8 DEF CloseRun, TypeOK
    <3>2. faults' \in 0..MaxFaults
      BY <1>t, <1>8, BoundsAssumption DEF CloseRun, Fault, TypeOK
    <3>3. leaked' \subseteq Tasks
      BY <1>t, <1>8 DEF CloseRun, TypeOK
    <3>4. job' \in [Tasks -> {"none", "resource"} \cup Holding]
      BY <1>t, <1>8 DEF CloseRun, TypeOK
    <3> QED  BY <1>t, <1>8, <3>1, <3>2, <3>3, <3>4 DEF CloseRun, TypeOK
  <2>2. MovesOn(t)
    BY <1>t, <1>8 DEF CloseRun, TypeOK, MovesOn
  <2> QED  BY <1>8, <2>1, <2>2, JobMoves DEF CloseRun, Running
<1> QED  BY <1>1, <1>2, <1>3, <1>4, <1>5, <1>6, <1>7, <1>8

\* A task that has its workspace and slot begins to run.
LEMMA BeginRunStep ==
    ASSUME TaskInv, NEW t \in Tasks, BeginRun(t)
    PROVE  TaskInv'
<1>t. TypeOK
  BY DEF TaskInv
<1>1. CASE HasEnded(led[t])
  <2>1. TypeOK'
    BY <1>t, <1>1 DEF BeginRun, Goto, TypeOK, Holding
  <2>2. MovesOn(t)
    BY <1>t, <1>1 DEF BeginRun, Goto, TypeOK, MovesOn, WaitJobs, EarlyJobs, BetweenJobs, LateJobs
  <2> QED  BY <1>1, <2>1, <2>2, JobMoves DEF BeginRun, Running
<1>2. CASE ~HasEnded(led[t])
  <2>1. /\ led' \in [Tasks -> Record] /\ led'[t].status = "running"
        /\ led'[t].ask = led[t].ask /\ led'[t].asked = led[t].asked
        /\ led'[t].cmd = led[t].cmd /\ led'[t].event = led[t].event
        /\ \A u \in Tasks \ {t} : led'[u] = led[u]
    BY <1>t, <1>2, StatusWritten DEF BeginRun, Live
  <2>2. job[t] = "lock" /\ job'[t] = "open" /\ \A u \in Tasks \ {t} : job'[u] = job[u]
    BY <1>t, <1>2 DEF BeginRun, Goto, TypeOK
  <2>3. busy.task \notin Tasks /\ busy.at = "free" /\ busy = Free /\ up
    BY <1>t, GatewayFields DEF BeginRun, Running
  <2>4. UNCHANGED <<todo, run, outbox, heard, call, busy, up, cut>>
    BY DEF BeginRun
  <2>5. TypeOK'
    <3>1. job' \in [Tasks -> {"none", "resource"} \cup Holding]
      BY <1>t, <1>2 DEF BeginRun, Goto, TypeOK, Holding
    <3> QED  BY <1>t, <2>1, <3>1 DEF BeginRun, TypeOK
  <2>6. Heard'
    <3>1. HeardIsRecorded' /\ ReplayIsUnheard'
      BY <2>1, <2>4 DEF TaskInv, Heard, HeardIsRecorded, ReplayIsUnheard
    <3>2. CallIsUnheard'
      BY <2>1, <2>2, <2>4 DEF TaskInv, Heard, CallIsUnheard, Early
    <3>3. GrantIsUnheard'
      BY <2>1, <2>2, <2>4 DEF TaskInv, Heard, GrantIsUnheard
    <3> QED  BY <3>1, <3>2, <3>3 DEF Heard
  <2>7. Course'
    <3>1. NoRunYet'
      BY <2>1, <2>2, <2>4 DEF TaskInv, Course, NoRunYet, WaitJobs, Early, Fresh
    <3>2. AskComesOnce' /\ LastIsReduced'
      BY <2>1, <2>4 DEF TaskInv, Course, AskComesOnce, LastIsReduced, Untouched
    <3>3. BusyWith'
      BY <2>3, <2>4 DEF BusyWith
    <3>4. OneAtATime'
      BY <2>1, <2>2, <2>3, <2>4 DEF TaskInv, Course, OneAtATime, Between
    <3>5. NothingIsUp'
      BY <2>3, <2>4 DEF NothingIsUp
    <3> QED  BY <3>1, <3>2, <3>3, <3>4, <3>5 DEF Course
  <2>8. Closed'
    <3>1. QueuedIsOpen'
      BY <2>1, <2>4 DEF TaskInv, Closed, QueuedIsOpen, CutShort
    <3>2. EndedIsClosed'
      BY <2>1, <2>4 DEF TaskInv, Closed, EndedIsClosed, CutShort, OpenAsks, HasEnded, Ended
    <3>3. DownIsRecoverable'
      BY <2>3, <2>4 DEF DownIsRecoverable
    <3> QED  BY <3>1, <3>2, <3>3 DEF Closed
  <2> QED  BY <2>5, <2>6, <2>7, <2>8 DEF TaskInv
<1> QED  BY <1>1, <1>2

\* The worker starts, and with it what is to be sent is fixed.
LEMMA StartWorkerStep ==
    ASSUME TaskInv, NEW t \in Tasks, StartWorker(t)
    PROVE  TaskInv'
<1>t. TypeOK
  BY DEF TaskInv
<1>1. /\ job[t] = "start" /\ job'[t] = "replay" /\ \A u \in Tasks \ {t} : job'[u] = job[u]
      /\ todo'[t] = {m \in Messages : led[t].cmd[m] \in Unsent}
      /\ \A u \in Tasks \ {t} : todo'[u] = todo[u] /\ run'[u] = run[u]
  BY <1>t DEF StartWorker, Goto, TypeOK
<1>2. busy.task \notin Tasks /\ busy.at = "free" /\ busy = Free /\ up
  BY <1>t, GatewayFields DEF StartWorker, Running
<1>3. UNCHANGED <<led, outbox, heard, call, busy, up, cut>>
  BY DEF StartWorker
<1>5. TypeOK'
  <2>1. job' \in [Tasks -> {"none", "resource"} \cup Holding]
    BY <1>t DEF StartWorker, Goto, TypeOK, Holding
  <2>2. todo' \in [Tasks -> SUBSET Messages]
    BY <1>t DEF StartWorker, TypeOK
  <2>3. run' \in [Tasks -> BOOLEAN] /\ worker' \in [Tasks -> BOOLEAN]
    BY <1>t DEF StartWorker, TypeOK
  <2> QED  BY <1>t, <2>1, <2>2, <2>3 DEF StartWorker, TypeOK
<1>6. Heard'
  <2>1. HeardIsRecorded'
    BY <1>3 DEF TaskInv, Heard, HeardIsRecorded
  <2>2. ReplayIsUnheard'
    <3>1. ASSUME NEW m \in todo'[t]
          PROVE  m = Steer /\ heard[t][m] = 0 /\ led[t].cmd[m] # "none"
      <4>1. m \in Messages /\ led[t].cmd[m] \in Unsent
        BY <1>1
      <4>2. Fresh(led[t])
        BY <1>1 DEF TaskInv, Course, NoRunYet, Early
      <4>3. m = Steer
        BY <4>1, <4>2 DEF Fresh, Messages, Unsent
      <4>4. heard[t][m] = 0
        BY <1>t, <4>1, GatewayFields DEF TaskInv, Heard, HeardIsRecorded, Unsent
      <4> QED  BY <4>1, <4>3, <4>4 DEF Unsent
    <3> QED  BY <1>1, <1>3, <3>1 DEF TaskInv, Heard, ReplayIsUnheard
  <2>3. CallIsUnheard'
    BY <1>1, <1>3 DEF TaskInv, Heard, CallIsUnheard, Early
  <2>4. GrantIsUnheard'
    BY <1>1, <1>3 DEF TaskInv, Heard, GrantIsUnheard
  <2> QED  BY <2>1, <2>2, <2>3, <2>4 DEF Heard
<1>7. Course'
  <2>1. NoRunYet'
    BY <1>1, <1>3 DEF TaskInv, Course, NoRunYet, WaitJobs, Early, Fresh
  <2>2. AskComesOnce' /\ LastIsReduced'
    BY <1>3 DEF TaskInv, Course, AskComesOnce, LastIsReduced, Untouched
  <2>3. BusyWith'
    BY <1>2, <1>3 DEF BusyWith
  <2>4. OneAtATime'
    BY <1>1, <1>2, <1>3 DEF TaskInv, Course, OneAtATime, Between, NoRunYet, Fresh, Early
  <2>5. NothingIsUp'
    BY <1>2, <1>3 DEF NothingIsUp
  <2> QED  BY <2>1, <2>2, <2>3, <2>4, <2>5 DEF Course
<1>8. Closed'
  BY <1>3 DEF TaskInv, Closed, QueuedIsOpen, EndedIsClosed, DownIsRecoverable, CutShort, OpenAsks,
              HasEnded
<1> QED  BY <1>5, <1>6, <1>7, <1>8 DEF TaskInv

\* A message that was not heard yet is sent, and the ledger says what became of it.
LEMMA SendHeard ==
    ASSUME TypeOK, NEW t \in Tasks, NEW m \in Messages, NEW accepted \in BOOLEAN,
           Send(t, m, accepted)
    PROVE  /\ heard' \in [Tasks -> [Messages -> Nat]] /\ faults' \in 0..MaxFaults
           /\ heard'[t][m] = heard[t][m] \/ heard'[t][m] = heard[t][m] + 1
           /\ \A u \in Tasks, k \in Messages :
                 heard'[u][k] = heard[u][k] \/ (u = t /\ k = m)
<1>1. CASE heard' = heard
  BY <1>1, BoundsAssumption DEF Send, Fault, TypeOK
<1>2. CASE heard' = [heard EXCEPT ![t][m] = @ + 1]
  BY <1>2, BoundsAssumption DEF Send, Fault, TypeOK
<1> QED  BY <1>1, <1>2 DEF Send, Hears

Records(t, m, accepted) == led' = [led EXCEPT ![t].cmd[m] = SentAs(accepted)]
\* The outcome of a send leaves the other commands and tasks alone.
LEMMA SentWritten ==
    ASSUME TypeOK, NEW t \in Tasks, NEW m \in Messages, NEW accepted \in BOOLEAN,
           Records(t, m, accepted)
    PROVE  /\ led' \in [Tasks -> Record] /\ led'[t].status = led[t].status
           /\ led'[t].ask = led[t].ask /\ led'[t].asked = led[t].asked
           /\ led'[t].cmd[m] = SentAs(accepted) /\ led'[t].event = led[t].event
           /\ \A k \in Messages \ {m} : led'[t].cmd[k] = led[t].cmd[k]
           /\ \A u \in Tasks \ {t} : led'[u] = led[u]
<1> DEFINE s == [led[t] EXCEPT !.cmd[m] = SentAs(accepted)]
<1>1. led[t] \in Record
  BY DEF TypeOK
<1>2. /\ s \in Record /\ s.status = led[t].status /\ s.ask = led[t].ask
      /\ s.asked = led[t].asked /\ s.event = led[t].event
      /\ s.cmd[m] = SentAs(accepted) /\ \A k \in Messages \ {m} : s.cmd[k] = led[t].cmd[k]
  BY <1>1 DEF Record, SentAs
<1>3. led' = [led EXCEPT ![t] = s]
  BY DEF Records
<1> HIDE DEF s
<1> QED  BY <1>2, <1>3, RecordWritten

\* A message nobody heard is sent: that it was heard is on record.
LEMMA SendRecorded ==
    ASSUME TypeOK, HeardIsRecorded, NEW t \in Tasks, NEW m \in Messages,
           NEW accepted \in BOOLEAN, Send(t, m, accepted), heard[t][m] = 0,
           led'[t].cmd[m] = SentAs(accepted),
           \A k \in Messages \ {m} : led'[t].cmd[k] = led[t].cmd[k],
           \A u \in Tasks \ {t} : led'[u] = led[u]
    PROVE  HeardIsRecorded'
<1>1. ASSUME NEW u \in Tasks, NEW k \in Messages
      PROVE  /\ heard'[u][k] <= 1
             /\ heard'[u][k] > 0 => led'[u].cmd[k] \in {"sent", "failed"}
  <2>1. CASE u = t /\ k = m
    BY <2>1, SendHeard DEF SentAs
  <2>2. CASE ~(u = t /\ k = m)
    BY <2>2, SendHeard DEF HeardIsRecorded
  <2> QED  BY <2>1, <2>2
<1> QED  BY <1>1 DEF HeardIsRecorded

\* A step that writes one steer, and moves the dispatch between the worker's events or
\* not at all, changes nothing in the course of the task.
LEMMA CourseKept ==
    ASSUME TaskInv, busy = Free, up, NEW t \in Tasks,
           UNCHANGED <<run, outbox, busy, up, cut>>,
           led'[t].status = led[t].status, led'[t].ask = led[t].ask,
           led'[t].asked = led[t].asked, led'[t].event = led[t].event,
           \A a \in Asks, n \in 0..MaxReplies : led'[t].cmd[Reply(a, n)] = led[t].cmd[Reply(a, n)],
           \A u \in Tasks \ {t} : led'[u] = led[u] /\ job'[u] = job[u],
           job'[t] = job[t] \/ (job[t] \in BetweenJobs /\ job'[t] \in BetweenJobs)
    PROVE  Course' /\ Closed'
<1>1. busy.task \notin Tasks /\ busy.at = "free"
  BY GatewayFields DEF TaskInv
<1>2. Course'
  <2>1. NoRunYet'
    BY DEF TaskInv, Course, NoRunYet, WaitJobs, Early, Fresh, BetweenJobs, Reply
  <2>2. AskComesOnce' /\ LastIsReduced'
    BY MessageFacts DEF TaskInv, Course, AskComesOnce, LastIsReduced, Untouched
  <2>3. BusyWith'
    BY <1>1 DEF BusyWith
  <2>4. OneAtATime'
    BY <1>1 DEF TaskInv, Course, OneAtATime, Between, BetweenJobs
  <2>5. NothingIsUp'
    BY DEF NothingIsUp
  <2> QED  BY <2>1, <2>2, <2>3, <2>4, <2>5 DEF Course
<1>3. Closed'
  <2>1. QueuedIsOpen'
    BY DEF TaskInv, Closed, QueuedIsOpen, CutShort
  <2>2. EndedIsClosed'
    BY DEF TaskInv, Closed, EndedIsClosed, CutShort, OpenAsks, HasEnded
  <2>3. DownIsRecoverable'
    BY DEF DownIsRecoverable
  <2> QED  BY <2>1, <2>2, <2>3 DEF Closed
<1> QED  BY <1>2, <1>3

\* The dispatch takes the next queued command.
LEMMA ReplayNextStep ==
    ASSUME TaskInv, NEW t \in Tasks, ReplayNext(t)
    PROVE  TaskInv'
<1>t. TypeOK
  BY DEF TaskInv
<1>1. busy.task \notin Tasks /\ busy.at = "free" /\ busy = Free /\ up
  BY <1>t, GatewayFields DEF ReplayNext, Running
<1>2. UNCHANGED <<run, outbox, heard, call, busy, up, cut>>
  BY DEF ReplayNext
<1>3. PICK m \in todo[t] :
         IF led[t].cmd[m] \in Unsent
         THEN Goto(t, "send") /\ led' = [led EXCEPT ![t].cmd[m] = "sending"]
              /\ todo' = [todo EXCEPT ![t] = {m} \cup @]
         ELSE todo' = [todo EXCEPT ![t] = @ \ {m}] /\ UNCHANGED <<led, job>>
  BY DEF ReplayNext
<1>4. m = Steer /\ heard[t][m] = 0 /\ led[t].cmd[m] # "none" /\ m \in Messages
  BY <1>t, MessageFacts DEF TaskInv, Heard, ReplayIsUnheard
<1>5. /\ led' \in [Tasks -> Record]
      /\ led'[t].status = led[t].status /\ led'[t].ask = led[t].ask /\ led'[t].asked = led[t].asked
      /\ led'[t].event = led[t].event /\ led'[t].cmd[m] # "none"
      /\ \A k \in Messages \ {m} : led'[t].cmd[k] = led[t].cmd[k]
      /\ \A u \in Tasks \ {t} : led'[u] = led[u]
  <2>1. CASE led[t].cmd[m] \in Unsent
    BY <1>t, <1>3, <1>4, <2>1, CommandWritten DEF Unsent
  <2>2. CASE led[t].cmd[m] \notin Unsent
    BY <1>t, <1>3, <1>4, <2>2 DEF TypeOK
  <2> QED  BY <2>1, <2>2
<1>6. /\ job[t] = "replay" /\ job'[t] \in {"replay", "send"}
      /\ \A u \in Tasks \ {t} : job'[u] = job[u]
  BY <1>t, <1>3 DEF ReplayNext, Goto, TypeOK
<1>7. todo'[t] \subseteq todo[t] /\ \A u \in Tasks \ {t} : todo'[u] = todo[u]
  BY <1>t, <1>3 DEF TypeOK
<1>8. TypeOK'
  <2>1. job' \in [Tasks -> {"none", "resource"} \cup Holding]
    <3>1. job' = job \/ job' = [job EXCEPT ![t] = "send"]
      BY <1>3 DEF Goto
    <3>2. "send" \in Holding
      BY DEF Holding
    <3> QED  BY <1>t, <3>1, <3>2 DEF TypeOK
  <2>2. todo' \in [Tasks -> SUBSET Messages]
    <3>1. todo \in [Tasks -> SUBSET Messages]
      BY <1>t DEF TypeOK
    <3>2. CASE todo' = [todo EXCEPT ![t] = {m} \cup @]
      BY <1>4, <3>1, <3>2
    <3>3. CASE todo' = [todo EXCEPT ![t] = @ \ {m}]
      BY <3>1, <3>3
    <3> QED  BY <1>3, <3>2, <3>3
  <2> QED  BY <1>t, <1>5, <2>1, <2>2 DEF ReplayNext, TypeOK
<1>9. Heard'
  <2>1. HeardIsRecorded'
    BY <1>2, <1>4, <1>5 DEF TaskInv, Heard, HeardIsRecorded
  <2>2. ReplayIsUnheard'
    BY <1>2, <1>4, <1>5, <1>7 DEF TaskInv, Heard, ReplayIsUnheard
  <2>3. CallIsUnheard'
    BY <1>2, <1>5, <1>6, <1>7 DEF TaskInv, Heard, CallIsUnheard, Early
  <2>4. GrantIsUnheard'
    BY <1>2, <1>5, <1>6 DEF TaskInv, Heard, GrantIsUnheard
  <2> QED  BY <2>1, <2>2, <2>3, <2>4 DEF Heard
<1>10. Course' /\ Closed'
  <2>1. \A a \in Asks, n \in 0..MaxReplies : led'[t].cmd[Reply(a, n)] = led[t].cmd[Reply(a, n)]
    BY <1>4, <1>5, MessageFacts
  <2> QED  BY <1>1, <1>2, <1>5, <1>6, <2>1, CourseKept DEF BetweenJobs
<1> QED  BY <1>8, <1>9, <1>10 DEF TaskInv

\* The dispatch sends it, and records the outcome.
LEMMA ReplaySentStep ==
    ASSUME TaskInv, NEW t \in Tasks, ReplaySent(t)
    PROVE  TaskInv'
<1>t. TypeOK
  BY DEF TaskInv
<1>1. busy.task \notin Tasks /\ busy.at = "free" /\ busy = Free /\ up
  BY <1>t, GatewayFields DEF ReplaySent, Running
<1>2. UNCHANGED <<run, outbox, call, busy, up, cut>>
  BY DEF ReplaySent
<1>3. PICK m \in todo[t], accepted \in BOOLEAN :
         /\ Send(t, m, accepted)
         /\ led' = [led EXCEPT ![t].cmd[m] = SentAs(accepted)]
         /\ todo' = [todo EXCEPT ![t] = @ \ {m}]
  BY DEF ReplaySent
<1>4. m = Steer /\ heard[t][m] = 0 /\ m \in Messages
  BY <1>t, MessageFacts DEF TaskInv, Heard, ReplayIsUnheard
<1>5. /\ led' \in [Tasks -> Record]
      /\ led'[t].status = led[t].status /\ led'[t].ask = led[t].ask /\ led'[t].asked = led[t].asked
      /\ led'[t].event = led[t].event /\ led'[t].cmd[m] = SentAs(accepted)
      /\ \A k \in Messages \ {m} : led'[t].cmd[k] = led[t].cmd[k]
      /\ \A u \in Tasks \ {t} : led'[u] = led[u]
  <2>1. Records(t, m, accepted)
    BY <1>3 DEF Records
  <2> QED  BY <1>t, <1>4, <2>1, SentWritten
<1>6. job[t] = "send" /\ job'[t] = "replay" /\ \A u \in Tasks \ {t} : job'[u] = job[u]
  BY <1>t DEF ReplaySent, Goto, TypeOK
<1>7. todo'[t] = todo[t] \ {m} /\ \A u \in Tasks \ {t} : todo'[u] = todo[u]
  BY <1>t, <1>3 DEF TypeOK
<1>h. /\ heard' \in [Tasks -> [Messages -> Nat]] /\ faults' \in 0..MaxFaults
      /\ \A u \in Tasks, k \in Messages : heard'[u][k] = heard[u][k] \/ (u = t /\ k = m)
  BY <1>t, <1>3, <1>4, SendHeard
<1>8. TypeOK'
  <2>1. job' \in [Tasks -> {"none", "resource"} \cup Holding]
    BY <1>t DEF ReplaySent, Goto, TypeOK, Holding
  <2>2. todo' \in [Tasks -> SUBSET Messages]
    BY <1>t, <1>3 DEF TypeOK
  <2> QED  BY <1>t, <1>5, <1>h, <2>1, <2>2 DEF ReplaySent, TypeOK
<1>9. Heard'
  <2>1. HeardIsRecorded'
    BY <1>t, <1>3, <1>4, <1>5, SendRecorded DEF TaskInv, Heard
  <2>2. ReplayIsUnheard'
    <3>1. \A u \in Tasks : \A k \in todo'[u] :
             k \in todo[u] /\ k = Steer /\ k \in Messages /\ (u = t => k # m)
      BY <1>4, <1>7 DEF TaskInv, Heard, ReplayIsUnheard
    <3> QED  BY <1>4, <1>5, <1>h, <3>1 DEF TaskInv, Heard, ReplayIsUnheard
  <2>3. CallIsUnheard'
    <3>1. call.pc = "steer" => call.task # t
      BY <1>4 DEF TaskInv, Heard, CallIsUnheard
    <3>2. call.pc = "reply" => call.msg # m /\ call.msg \in Messages
      BY <1>4, MessageFacts DEF TaskInv, Heard, CallIsUnheard, Messages, Reply, Steer
    <3> QED  BY <1>2, <1>4, <1>5, <1>6, <1>7, <1>h, <3>1, <3>2
             DEF TaskInv, Heard, CallIsUnheard, Early
  <2>4. GrantIsUnheard'
    BY <1>2, <1>4, <1>5, <1>6, <1>h, MessageFacts DEF TaskInv, Heard, GrantIsUnheard
  <2> QED  BY <2>1, <2>2, <2>3, <2>4 DEF Heard
<1>10. Course' /\ Closed'
  <2>1. \A a \in Asks, n \in 0..MaxReplies : led'[t].cmd[Reply(a, n)] = led[t].cmd[Reply(a, n)]
    BY <1>4, <1>5, MessageFacts
  <2> QED  BY <1>1, <1>2, <1>5, <1>6, <2>1, CourseKept DEF BetweenJobs
<1> QED  BY <1>8, <1>9, <1>10 DEF TaskInv

-----------------------------------------------------------------------------
(* The end of a task.                                                        *)

\* What the write of a terminal row leaves of the types.
LEMMA EndRowTypes ==
    ASSUME TypeOK, NEW t \in Tasks, NEW x \in Ended, EndRow(t, x)
    PROVE  /\ led' \in [Tasks -> Record]
           /\ busy' \in [task : Tasks \cup {NoTask}, at : {"free", "ask", "row", "rest"},
                         of : Asks \cup {Final}]
<1>1. led' \in [Tasks -> Record]
  BY StatusWritten DEF EndRow
<1>2. busy' = [task |-> t, at |-> "rest", of |-> Final]
  BY DEF EndRow
<1> QED  BY <1>1, <1>2

\* A dispatch that leaves only closes its own run.
LEMMA LeaveTypes ==
    ASSUME TypeOK, NEW t \in Tasks, Leave(t)
    PROVE  /\ job' \in [Tasks -> {"none", "resource"} \cup Holding] /\ run' \in [Tasks -> BOOLEAN]
           /\ job'[t] = "close" /\ \A u \in Tasks \ {t} : job'[u] = job[u]
           /\ \A u \in Tasks : run'[u] => run[u]
  BY DEF TypeOK, Leave, Goto, Holding

\* A dispatch that was cancelled leaves.
LEMMA DispatchCancelledStep ==
    ASSUME TaskInv, NEW t \in Tasks, DispatchCancelled(t)
    PROVE  TaskInv'
<1>t. TypeOK
  BY DEF TaskInv
<1>1. busy = Free /\ up /\ UNCHANGED <<todo, outbox, heard, call, up, cut>>
  BY DEF DispatchCancelled, Running
<1>2. MovesOn(t) /\ \A u \in Tasks : run'[u] => run[u]
  BY <1>t, LeaveTypes
     DEF DispatchCancelled, MovesOn, WaitJobs, EarlyJobs, BetweenJobs, LateJobs
<1>3. /\ worker' \in [Tasks -> BOOLEAN] /\ stopped' \in [Tasks -> BOOLEAN]
      /\ job' \in [Tasks -> {"none", "resource"} \cup Holding] /\ run' \in [Tasks -> BOOLEAN]
  BY <1>t, LeaveTypes DEF DispatchCancelled, StopWorker, TypeOK
<1>4. CASE HasEnded(led[t])
  <2>1. TypeOK'
    BY <1>t, <1>3, <1>4 DEF DispatchCancelled, TypeOK
  <2> QED  BY <1>1, <1>2, <1>4, <2>1, JobMoves DEF DispatchCancelled
<1>5. CASE ~HasEnded(led[t])
  <2>1. EndRow(t, "cancelled") /\ "cancelled" \in Ended
    BY <1>5 DEF DispatchCancelled, Ended
  <2>2. TypeOK'
    BY <1>t, <1>3, <2>1, EndRowTypes DEF DispatchCancelled, TypeOK
  <2> QED  BY <1>1, <1>2, <2>1, <2>2, Ending
<1> QED  BY <1>4, <1>5

\* A dispatch that failed ends its task, unless it has ended.
LEMMA FailGuardedStep ==
    ASSUME TaskInv, NEW t \in Tasks, FailGuarded(t)
    PROVE  TaskInv'
<1>t. TypeOK
  BY DEF TaskInv
<1>1. busy = Free /\ up /\ UNCHANGED <<todo, outbox, heard, call, up, cut>>
  BY DEF FailGuarded, Running
<1>2. /\ MovesOn(t) /\ \A u \in Tasks : run'[u] => run[u]
      /\ job' \in [Tasks -> {"none", "resource"} \cup Holding] /\ run' \in [Tasks -> BOOLEAN]
  <2>1. job[t] = "failing"
    BY DEF FailGuarded
  <2>2. CASE run[t]
    BY <1>t, <2>1, <2>2, LeaveTypes
       DEF FailGuarded, MovesOn, WaitJobs, EarlyJobs, BetweenJobs, LateJobs
  <2>3. CASE ~run[t]
    BY <1>t, <2>1, <2>3
       DEF FailGuarded, Goto, TypeOK, MovesOn, WaitJobs, EarlyJobs, BetweenJobs, LateJobs
  <2> QED  BY <2>2, <2>3
<1>4. CASE HasEnded(led[t])
  <2>1. TypeOK'
    BY <1>t, <1>2, <1>4 DEF FailGuarded, TypeOK
  <2> QED  BY <1>1, <1>2, <1>4, <2>1, JobMoves DEF FailGuarded
<1>5. CASE ~HasEnded(led[t])
  <2>1. EndRow(t, "failed") /\ "failed" \in Ended
    BY <1>5 DEF FailGuarded, Ended
  <2>2. TypeOK'
    BY <1>t, <1>2, <2>1, EndRowTypes DEF FailGuarded, TypeOK
  <2> QED  BY <1>1, <1>2, <2>1, <2>2, Ending
<1> QED  BY <1>4, <1>5

\* The worker acknowledges the cancellation.
LEMMA CancelAckedStep ==
    ASSUME TaskInv, CancelAcked
    PROVE  TaskInv'
<1> DEFINE t == call.task
<1>t. TypeOK
  BY DEF TaskInv
<1>1. /\ busy = Free /\ up /\ call' = Idle
      /\ UNCHANGED <<job, todo, run, outbox, heard, standing, up, faults, crashes, leaked, cut>>
  BY DEF CancelAcked, Running
<1>2. t \in Tasks
  BY DEF TaskInv, Heard, CallIsUnheard, CancelAcked
<1>3. MovesOn(t)
  BY <1>1 DEF MovesOn
<1>4. /\ worker' \in [Tasks -> BOOLEAN] /\ stopped' \in [Tasks -> BOOLEAN] /\ call' \in Call
  <2>1. worker' \in [Tasks -> BOOLEAN] /\ stopped' \in [Tasks -> BOOLEAN]
    BY <1>t, <1>2 DEF CancelAcked, StopWorker, TypeOK
  <2>2. Idle \in Call
    BY MessageFacts DEF Idle, Call, Acts
  <2> QED  BY <1>1, <2>1, <2>2
<1>5. IF HasEnded(led[t]) THEN UNCHANGED <<led, busy>> ELSE EndRow(t, "cancelled")
  BY DEF CancelAcked
<1> HIDE DEF t
<1>6. CASE HasEnded(led[t])
  <2>1. TypeOK'
    BY <1>t, <1>1, <1>4, <1>5, <1>6 DEF TypeOK
  <2> QED  BY <1>1, <1>2, <1>3, <1>5, <1>6, <2>1, JobMoves
<1>7. CASE ~HasEnded(led[t])
  <2>1. EndRow(t, "cancelled") /\ "cancelled" \in Ended
    BY <1>5, <1>7 DEF Ended
  <2>2. TypeOK'
    BY <1>t, <1>1, <1>2, <1>4, <2>1, EndRowTypes DEF TypeOK
  <2> QED  BY <1>1, <1>2, <1>3, <2>1, <2>2, Ending
<1> QED  BY <1>6, <1>7

\* The final event of the worker is reduced.
LEMMA ReduceDoneStep ==
    ASSUME TaskInv, NEW t \in Tasks, ReduceDone(t)
    PROVE  TaskInv'
<1>t. TypeOK
  BY DEF TaskInv
<1>1. /\ up /\ busy.task = t /\ busy.at = "row"
      /\ UNCHANGED <<todo, stopped, outbox, worker, heard, call, standing, up, faults, crashes,
                     leaked, cut>>
  BY DEF ReduceDone
<1>2. PICK x \in {"completed", "failed"} : EndRow(t, x)
  BY DEF ReduceDone
<1>3. job[t] = "events"
  BY <1>1 DEF TaskInv, Course, BusyWith
<1>4. MovesOn(t) /\ \A u \in Tasks : run'[u] => run[u]
  BY <1>t, <1>3, LeaveTypes
     DEF ReduceDone, MovesOn, WaitJobs, EarlyJobs, BetweenJobs, LateJobs
<1>5. x \in Ended
  BY DEF Ended
<1>6. TypeOK'
  <2>1. job' \in [Tasks -> {"none", "resource"} \cup Holding] /\ run' \in [Tasks -> BOOLEAN]
    BY <1>t, LeaveTypes DEF ReduceDone
  <2> QED  BY <1>t, <1>1, <1>2, <1>5, <2>1, EndRowTypes DEF TypeOK
<1> QED  BY <1>1, <1>2, <1>4, <1>5, <1>6, Ending

\* The end of a run is written.
LEMMA FinishEndingStep ==
    ASSUME TaskInv, NEW t \in Tasks, FinishEnding(t)
    PROVE  TaskInv'
<1>t. TypeOK
  BY DEF TaskInv
<1> DEFINE s == Settled(led[t])
<1>1. /\ up /\ busy.task = t /\ busy.at = "rest" /\ busy' = Free /\ led' = [led EXCEPT ![t] = s]
      /\ UNCHANGED <<job, todo, run, outbox, heard, call, up, cut>>
  BY DEF FinishEnding
<1>2. /\ s \in Record /\ s.status = led[t].status
      /\ \A a \in Asks : s.ask[a] = IF led[t].ask[a] \in Open THEN "cancelled" ELSE led[t].ask[a]
      /\ \A a \in Asks : s.asked[a] = IF led[t].ask[a] \in Open /\ led[t].asked[a] = "queued"
                                      THEN "cancelled" ELSE led[t].asked[a]
      /\ \A a \in Asks : s.event[a] = led[t].event[a]
      /\ s.event[Final] # "unprocessed" /\ (led[t].event[Final] = "none" => s.event[Final] = "none")
      /\ Sends(led[t], s)
  BY <1>t, GatewayFields, SettledFields
<1> HIDE DEF s
<1>3. led' \in [Tasks -> Record] /\ led'[t] = s /\ \A u \in Tasks \ {t} : led'[u] = led[u]
  BY <1>t, <1>1, <1>2, RecordWritten
<1>4. /\ HasEnded(led[t]) /\ led[t].status \notin {"none", "queued"}
      /\ busy'.task \notin Tasks /\ busy'.at = "free"
  BY <1>1, NamesAssumption DEF TaskInv, Course, BusyWith, HasEnded, Ended, Free
<1>5. TypeOK'
  <2>1. busy' \in [task : Tasks \cup {NoTask}, at : {"free", "ask", "row", "rest"},
                   of : Asks \cup {Final}]
    BY <1>1 DEF Free
  <2> QED  BY <1>t, <1>3, <2>1 DEF FinishEnding, TypeOK
<1>6. Heard'
  <2>1. HeardIsRecorded'
    BY <1>1, <1>2, <1>3 DEF TaskInv, Heard, HeardIsRecorded, Sends
  <2>2. ReplayIsUnheard'
    BY <1>t, <1>1, <1>2, <1>3, MessageFacts DEF TaskInv, Heard, ReplayIsUnheard, Sends
  <2>3. CallIsUnheard'
    BY <1>1, <1>2, <1>3 DEF TaskInv, Heard, CallIsUnheard, Early
  <2>4. GrantIsUnheard'
    BY <1>1, <1>2, <1>3 DEF TaskInv, Heard, GrantIsUnheard
  <2> QED  BY <2>1, <2>2, <2>3, <2>4 DEF Heard
<1>7. Course'
  <2>1. \A a \in Asks : Untouched(led[t], a) => Untouched(s, a)
    BY <1>2, MessageFacts DEF Untouched, Sends, Open
  <2>2. Fresh(led[t]) => \A a \in Asks, n \in 0..MaxReplies : s.cmd[<<a, n>>] = "none"
    BY <1>2, MessageFacts DEF Fresh, Sends, Reply
  <2>3. Fresh(led[t]) => Fresh(s)
    BY <1>1, <1>2, <2>2, MessageFacts DEF Fresh, Open
  <2>4. NoRunYet'
    BY <1>1, <1>2, <1>3, <1>4, <2>3 DEF TaskInv, Course, NoRunYet, Early
  <2>5. AskComesOnce'
    <3>1. \A u \in Tasks : AskComesOnce => \A i \in DOMAIN outbox[u] :
             outbox[u][i] # Final => led'[u].event[outbox[u][i]] = "none"
      BY <1>t, <1>2, <1>3, OutboxElements DEF AskComesOnce
    <3> QED  BY <1>1, <1>2, <1>3, <2>1, <3>1 DEF TaskInv, Course, AskComesOnce
  <2>6. LastIsReduced'
    BY <1>1, <1>2, <1>3 DEF TaskInv, Course, LastIsReduced
  <2>7. BusyWith'
    BY <1>1, <1>4 DEF BusyWith
  <2>8. OneAtATime'
    BY <1>1, <1>2, <1>3, <1>4 DEF TaskInv, Course, OneAtATime, Between
  <2>9. NothingIsUp'
    BY <1>1 DEF NothingIsUp
  <2> QED  BY <2>4, <2>5, <2>6, <2>7, <2>8, <2>9 DEF Course
<1>8. Closed'
  <2>1. QueuedIsOpen'
    BY <1>1, <1>2, <1>3 DEF TaskInv, Closed, QueuedIsOpen, CutShort
  <2>2. EndedIsClosed'
    <3>1. OpenAsks(s) = {}
      BY <1>2 DEF OpenAsks, Open
    <3> QED  BY <1>1, <1>3, <3>1 DEF TaskInv, Closed, EndedIsClosed, CutShort, OpenAsks, HasEnded
  <2>3. DownIsRecoverable'
    BY <1>1 DEF DownIsRecoverable
  <2> QED  BY <2>1, <2>2, <2>3 DEF Closed
<1> QED  BY <1>5, <1>6, <1>7, <1>8 DEF TaskInv

-----------------------------------------------------------------------------
(* What the worker says, and how it is taken.                                *)

\* A step that only adds to what the worker said, or ends the owner's call.
LEMMA OutboxStep ==
    ASSUME TaskInv, up, UNCHANGED <<led, job, todo, run, heard, busy, up, cut>>,
           call' \in {call, Idle}, outbox' = outbox \/ AskComesOnce', TypeOK'
    PROVE  TaskInv'
<1>1. Heard'
  <2>1. HeardIsRecorded' /\ ReplayIsUnheard' /\ GrantIsUnheard'
    BY DEF TaskInv, Heard, HeardIsRecorded, ReplayIsUnheard, GrantIsUnheard
  <2>2. CallIsUnheard'
    BY DEF TaskInv, Heard, CallIsUnheard, Early, Idle
  <2> QED  BY <2>1, <2>2 DEF Heard
<1>2. Course'
  <2>1. NoRunYet' /\ LastIsReduced' /\ NothingIsUp'
    BY DEF TaskInv, Course, NoRunYet, LastIsReduced, NothingIsUp, Early, Fresh
  <2>2. AskComesOnce'
    BY DEF TaskInv, Course, AskComesOnce, Untouched
  <2>3. BusyWith'
    BY DEF TaskInv, Course, BusyWith, Untouched, HasEnded
  <2>4. OneAtATime'
    BY DEF TaskInv, Course, OneAtATime, Between
  <2> QED  BY <2>1, <2>2, <2>3, <2>4 DEF Course
<1>3. Closed'
  BY DEF TaskInv, Closed, QueuedIsOpen, EndedIsClosed, DownIsRecoverable, CutShort, OpenAsks,
         HasEnded
<1> QED  BY <1>1, <1>2, <1>3 DEF TaskInv

\* What the worker says next, when it is no ask that it made before.
LEMMA Appended ==
    ASSUME TypeOK, AskComesOnce, NEW t \in Tasks, NEW e \in Asks \cup {Final},
           e # Final => ~Emitted(t, e), led' = led, outbox' = [outbox EXCEPT ![t] = Append(@, e)]
    PROVE  AskComesOnce' /\ outbox' \in [Tasks -> Seq(Asks \cup {Final})]
<1> DEFINE o == outbox[t]
           p == Append(o, e)
<1>1. o \in Seq(Asks \cup {Final}) /\ p \in Seq(Asks \cup {Final})
  BY OutboxElements
<1>2. /\ DOMAIN p = 1..(Len(o) + 1) /\ DOMAIN o = 1..Len(o) /\ Len(o) \in Nat
      /\ p[Len(o) + 1] = e /\ \A i \in 1..Len(o) : p[i] = o[i]
  BY <1>1
<1>3. outbox'[t] = p /\ \A u \in Tasks \ {t} : outbox'[u] = outbox[u]
  BY DEF TypeOK
<1>4. \A i \in DOMAIN o : o[i] # Final => led[t].event[o[i]] = "none"
  BY DEF AskComesOnce
<1>5. \A i, j \in DOMAIN o : o[i] = o[j] /\ i # j => o[i] = Final
  BY DEF AskComesOnce
<1>6. e # Final => led[t].event[e] = "none" /\ \A i \in DOMAIN o : o[i] # e
  BY DEF Emitted
<1> HIDE DEF o, p
<1>7. \A i \in DOMAIN p : p[i] # Final => led[t].event[p[i]] = "none"
  BY <1>2, <1>4, <1>6
<1>8. \A i, j \in DOMAIN p : p[i] = p[j] /\ i # j => p[i] = Final
  <2> SUFFICES ASSUME NEW i \in DOMAIN p, NEW j \in DOMAIN p, p[i] = p[j], i # j
               PROVE  p[i] = Final
    OBVIOUS
  <2>1. CASE i \in DOMAIN o /\ j \in DOMAIN o
    BY <1>2, <1>5, <2>1
  <2>2. CASE i = Len(o) + 1 \/ j = Len(o) + 1
    BY <1>2, <1>6, <2>2
  <2> QED  BY <1>2, <2>1, <2>2
<1>9. AskComesOnce'
  BY <1>3, <1>7, <1>8 DEF AskComesOnce, Untouched
<1>10. outbox' \in [Tasks -> Seq(Asks \cup {Final})]
  BY <1>1 DEF TypeOK, o, p
<1> QED  BY <1>9, <1>10

\* The worker asks.
LEMMA WorkerAsksStep ==
    ASSUME TaskInv, NEW t \in Tasks, WorkerAsks(t)
    PROVE  TaskInv'
<1>1. PICK a \in Asks : ~Emitted(t, a) /\ outbox' = [outbox EXCEPT ![t] = Append(@, a)]
  BY DEF WorkerAsks
<1>2. AskComesOnce' /\ outbox' \in [Tasks -> Seq(Asks \cup {Final})]
  BY <1>1, Appended DEF TaskInv, Course, WorkerAsks
<1>3. TypeOK'
  BY <1>2 DEF TaskInv, TypeOK, WorkerAsks
<1> QED  BY <1>2, <1>3, OutboxStep DEF WorkerAsks

\* The worker is done.
LEMMA WorkerFinishesStep ==
    ASSUME TaskInv, NEW t \in Tasks, WorkerFinishes(t)
    PROVE  TaskInv'
<1>1. AskComesOnce' /\ outbox' \in [Tasks -> Seq(Asks \cup {Final})]
  BY Appended DEF TaskInv, Course, WorkerFinishes
<1>2. TypeOK'
  <2>1. worker' \in [Tasks -> BOOLEAN]
    BY DEF TaskInv, TypeOK, WorkerFinishes
  <2> QED  BY <1>1, <2>1 DEF TaskInv, TypeOK, WorkerFinishes
<1> QED  BY <1>1, <1>2, OutboxStep DEF WorkerFinishes

\* run.cancel raised or took too long.
LEMMA CancelFailsStep ==
    ASSUME TaskInv, CancelFails
    PROVE  TaskInv'
<1> DEFINE t == call.task
<1>1. t \in Tasks
  BY DEF TaskInv, Heard, CallIsUnheard, CancelFails
<1>2. /\ up /\ call' = Idle /\ faults' \in 0..MaxFaults
      /\ UNCHANGED <<led, job, todo, run, stopped, heard, standing, busy, up, crashes, leaked, cut>>
  BY BoundsAssumption, GatewayFields DEF TaskInv, CancelFails, Running, Fault
<1>3. \/ worker' = [worker EXCEPT ![t] = FALSE] /\ outbox' = [outbox EXCEPT ![t] = Append(@, Final)]
      \/ UNCHANGED <<worker, outbox>>
  BY DEF CancelFails
<1> HIDE DEF t
<1>4. /\ outbox' = outbox \/ AskComesOnce'
      /\ outbox' \in [Tasks -> Seq(Asks \cup {Final})] /\ worker' \in [Tasks -> BOOLEAN]
  <2>1. CASE UNCHANGED <<worker, outbox>>
    BY <2>1 DEF TaskInv, TypeOK
  <2>2. CASE /\ worker' = [worker EXCEPT ![t] = FALSE]
             /\ outbox' = [outbox EXCEPT ![t] = Append(@, Final)]
    <3>1. worker' \in [Tasks -> BOOLEAN]
      BY <1>1, <2>2 DEF TaskInv, TypeOK
    <3> QED  BY <1>1, <1>2, <2>2, <3>1, Appended DEF TaskInv, Course
  <2> QED  BY <1>3, <2>1, <2>2
<1>5. Idle \in Call
  BY MessageFacts DEF Idle, Call, Acts
<1>6. TypeOK'
  BY <1>2, <1>4, <1>5 DEF TaskInv, TypeOK
<1> QED  BY <1>2, <1>4, <1>6, OutboxStep

\* The user withdraws a standing grant.
LEMMA RevokeStep ==
    ASSUME TaskInv, Revoke
    PROVE  TaskInv'
<1>1. TypeOK'
  BY DEF TaskInv, TypeOK, Revoke
<1> QED  BY <1>1, OutboxStep DEF Revoke, Running

\* An event of the worker is saved.
LEMMA TakeEventStep ==
    ASSUME TaskInv, NEW t \in Tasks, TakeEvent(t)
    PROVE  TaskInv'
<1> DEFINE e == Head(outbox[t])
           o == outbox[t]
           p == Tail(outbox[t])
<1>t. TypeOK
  BY DEF TaskInv
<1>1. /\ busy = Free /\ up /\ job[t] = "events" /\ o # <<>>
      /\ outbox' = [outbox EXCEPT ![t] = p]
      /\ UNCHANGED <<todo, run, stopped, worker, heard, call, standing, up, faults, crashes,
                     leaked, cut>>
  BY DEF TakeEvent, Running
<1>2. IF led[t].status \in Live
      THEN /\ led' = [led EXCEPT ![t].event[e] = "unprocessed"]
           /\ busy' = [task |-> t, at |-> IF e = Final THEN "row" ELSE "ask", of |-> e]
           /\ UNCHANGED job
      ELSE /\ Goto(t, IF e = Final THEN "failing" ELSE "events")
           /\ UNCHANGED <<led, busy>>
  BY DEF TakeEvent
<1>3. o \in Seq(Asks \cup {Final}) /\ p \in Seq(Asks \cup {Final})
  BY <1>t, <1>1, OutboxElements
<1>4. /\ Len(o) \in Nat /\ DOMAIN o = 1..Len(o) /\ 1 \in DOMAIN o /\ e = o[1]
      /\ DOMAIN p = 1..(Len(o) - 1) /\ \A i \in DOMAIN p : i + 1 \in DOMAIN o /\ p[i] = o[i + 1]
  BY <1>1, <1>3
<1>5. e \in Asks \cup {Final}
  BY <1>3, <1>4
<1>6. outbox'[t] = p /\ \A u \in Tasks \ {t} : outbox'[u] = outbox[u]
  BY <1>t, <1>1 DEF TypeOK
<1>7. \A i \in DOMAIN o : o[i] # Final => led[t].event[o[i]] = "none"
  BY DEF TaskInv, Course, AskComesOnce
<1>8. \A i, j \in DOMAIN o : o[i] = o[j] /\ i # j => o[i] = Final
  BY DEF TaskInv, Course, AskComesOnce
<1>9. outbox' \in [Tasks -> Seq(Asks \cup {Final})]
  BY <1>t, <1>1, <1>3 DEF TypeOK
<1> HIDE DEF e, o, p
<1>10. \A i, j \in DOMAIN p : p[i] = p[j] /\ i # j => p[i] = Final
  BY <1>4, <1>8
<1>11. \A i \in DOMAIN p : p[i] # Final => p[i] # e /\ p[i] \in Asks /\ led[t].event[p[i]] = "none"
  <2> SUFFICES ASSUME NEW i \in DOMAIN p, p[i] # Final
               PROVE  p[i] # e /\ p[i] \in Asks /\ led[t].event[p[i]] = "none"
    OBVIOUS
  <2>1. i + 1 \in DOMAIN o /\ p[i] = o[i + 1] /\ i + 1 # 1
    BY <1>4
  <2> QED  BY <1>3, <1>4, <1>7, <1>8, <2>1
<1>12. e # Final => e \in Asks /\ led[t].event[e] = "none"
  BY <1>4, <1>5, <1>7
<1>13. busy.task \notin Tasks /\ busy.at = "free"
  BY <1>t, <1>1, GatewayFields
<1>14. CASE led[t].status \notin Live
  <2>1. AskComesOnce'
    BY <1>2, <1>6, <1>10, <1>11, <1>14 DEF TaskInv, Course, AskComesOnce, Untouched
  <2>2. MovesOn(t) /\ job' \in [Tasks -> {"none", "resource"} \cup Holding]
    BY <1>t, <1>1, <1>2, <1>14
       DEF Goto, TypeOK, Holding, MovesOn, WaitJobs, EarlyJobs, BetweenJobs, LateJobs
  <2>3. TypeOK'
    BY <1>t, <1>1, <1>2, <1>9, <1>14, <2>2 DEF TypeOK
  <2> QED  BY <1>1, <1>2, <1>14, <2>1, <2>2, <2>3, JobMoves
<1>15. CASE led[t].status \in Live
  <2>1. /\ led' \in [Tasks -> Record] /\ led'[t].status = led[t].status
        /\ led'[t].ask = led[t].ask /\ led'[t].asked = led[t].asked
        /\ led'[t].cmd = led[t].cmd /\ led'[t].event[e] = "unprocessed"
        /\ \A f \in (Asks \cup {Final}) \ {e} : led'[t].event[f] = led[t].event[f]
        /\ \A u \in Tasks \ {t} : led'[u] = led[u]
    BY <1>t, <1>2, <1>5, <1>15, EventWritten DEF Marks
  <2>2. /\ busy'.task = t /\ busy'.of = e /\ job' = job
        /\ (e = Final /\ busy'.at = "row") \/ (e # Final /\ busy'.at = "ask")
    BY <1>2, <1>15
  <2>3. TypeOK'
    <3>1. busy' \in [task : Tasks \cup {NoTask}, at : {"free", "ask", "row", "rest"},
                     of : Asks \cup {Final}]
      BY <1>2, <1>5, <1>15
    <3> QED  BY <1>t, <1>1, <1>9, <2>1, <2>2, <3>1 DEF TypeOK
  <2>4. e # Final => Untouched(led[t], e)
    BY <1>12 DEF TaskInv, Course, AskComesOnce
  <2>5. Heard'
    <3>1. HeardIsRecorded' /\ ReplayIsUnheard'
      BY <1>1, <2>1 DEF TaskInv, Heard, HeardIsRecorded, ReplayIsUnheard
    <3>2. CallIsUnheard'
      BY <1>1, <2>1, <2>2 DEF TaskInv, Heard, CallIsUnheard, Early
    <3>3. e # Final => heard[t][Reply(e, 0)] = 0
      BY <1>t, <1>12, <2>4, MessageFacts, GatewayFields
         DEF Untouched, TaskInv, Heard, HeardIsRecorded
    <3>4. GrantIsUnheard'
      BY <1>1, <2>1, <2>2, <3>3, MessageFacts DEF TaskInv, Heard, GrantIsUnheard
    <3> QED  BY <3>1, <3>2, <3>3, <3>4 DEF Heard
  <2>6. Course'
    <3>1. NoRunYet'
      BY <1>1, <1>15, <2>1, <2>2 DEF TaskInv, Course, NoRunYet, Early, Live, Fresh
    <3>2. AskComesOnce'
      <4>1. \A a \in Asks : led'[t].event[a] = "none" => Untouched(led'[t], a)
        BY <2>1 DEF TaskInv, Course, AskComesOnce, Untouched
      <4>2. \A i \in DOMAIN p : p[i] # Final => led'[t].event[p[i]] = "none"
        BY <1>11, <2>1
      <4> QED  BY <1>6, <1>10, <2>1, <4>1, <4>2 DEF TaskInv, Course, AskComesOnce, Untouched
    <3>3. BusyWith'
      BY <1>1, <1>12, <1>15, <2>1, <2>2, <2>4 DEF BusyWith, Untouched
    <3>4. \A u \in Tasks, a \in Asks : led[u].event[a] = "unprocessed" =>
             ~Between(u) /\ u # t
      BY <1>1, <1>13 DEF TaskInv, Course, OneAtATime, Between
    <3>5. OneAtATime'
      BY <1>1, <2>1, <2>2, <3>4, MessageFacts DEF TaskInv, Course, OneAtATime, Between
    <3>6. LastIsReduced'
      BY <1>1, <1>13, <2>1, <2>2 DEF TaskInv, Course, LastIsReduced
    <3>7. NothingIsUp'
      BY <1>1 DEF NothingIsUp
    <3> QED  BY <3>1, <3>2, <3>3, <3>5, <3>6, <3>7 DEF Course
  <2>7. Closed'
    <3>1. QueuedIsOpen'
      BY <1>1, <2>1 DEF TaskInv, Closed, QueuedIsOpen, CutShort
    <3>2. EndedIsClosed'
      BY <1>1, <1>13, <1>15, <2>1, <2>2
         DEF TaskInv, Closed, EndedIsClosed, CutShort, OpenAsks, HasEnded
    <3>3. DownIsRecoverable'
      BY <1>1 DEF DownIsRecoverable
    <3> QED  BY <3>1, <3>2, <3>3 DEF Closed
  <2> QED  BY <2>3, <2>5, <2>6, <2>7 DEF TaskInv
<1> QED  BY <1>14, <1>15

\* The record of an ask whose answer is on its way.
LEMMA ResolvingFields ==
    ASSUME NEW r \in Record, NEW a \in Asks, NEW m \in Messages, NEW x \in Unsent
    PROVE  LET s == Resolving(r, a, m, x)
           IN  /\ s \in Record /\ s.status = r.status /\ s.event = r.event /\ s.asked = r.asked
               /\ s.ask[a] = "resolving" /\ \A b \in Asks \ {a} : s.ask[b] = r.ask[b]
               /\ s.cmd[m] = x /\ \A k \in Messages \ {m} : s.cmd[k] = r.cmd[k]
<1> DEFINE q == [r.ask EXCEPT ![a] = "resolving"]
           c == [r.cmd EXCEPT ![m] = x]
           d == [r EXCEPT !.ask = q]
           s == Resolving(r, a, m, x)
<1>1. /\ r.ask \in [Asks -> {"none", "resolved", "expired", "cancelled"} \cup Open]
      /\ r.cmd \in [Messages -> {"none", "sent", "failed", "cancelled"} \cup Unsent]
  BY DEF Record
<1>2. /\ q \in [Asks -> {"none", "resolved", "expired", "cancelled"} \cup Open]
      /\ q[a] = "resolving" /\ \A b \in Asks \ {a} : q[b] = r.ask[b]
  BY <1>1 DEF Open
<1>3. /\ c \in [Messages -> {"none", "sent", "failed", "cancelled"} \cup Unsent]
      /\ c[m] = x /\ \A k \in Messages \ {m} : c[k] = r.cmd[k]
  BY <1>1
<1>4. /\ d \in Record /\ d.status = r.status /\ d.event = r.event /\ d.asked = r.asked
      /\ d.ask = q /\ d.cmd = r.cmd
  BY <1>2 DEF Record
<1>5. s = [d EXCEPT !.cmd = c]
  BY DEF Record, Resolving
<1> HIDE DEF q, c, d
<1>6. /\ [d EXCEPT !.cmd = c] \in Record /\ [d EXCEPT !.cmd = c].status = d.status
      /\ [d EXCEPT !.cmd = c].event = d.event /\ [d EXCEPT !.cmd = c].asked = d.asked
      /\ [d EXCEPT !.cmd = c].ask = d.ask /\ [d EXCEPT !.cmd = c].cmd = c
  BY <1>3, <1>4 DEF Record
<1> HIDE DEF s
<1>7. /\ s \in Record /\ s.status = r.status /\ s.event = r.event /\ s.asked = r.asked
      /\ s.ask = q /\ s.cmd = c
  BY <1>4, <1>5, <1>6
<1> QED  BY <1>2, <1>3, <1>7 DEF s

\* The record of an ask that the standing grant answers.
LEMMA GrantedFields ==
    ASSUME NEW r \in Record, NEW a \in Asks
    PROVE  LET s == Resolving(AskSaved(r, a), a, Reply(a, 0), "sending")
           IN  /\ s \in Record /\ s.status = r.status /\ s.event = r.event /\ s.asked = r.asked
               /\ s.ask[a] = "resolving" /\ \A b \in Asks \ {a} : s.ask[b] = r.ask[b]
               /\ s.cmd[Reply(a, 0)] = "sending"
               /\ \A m \in Messages \ {Reply(a, 0)} : s.cmd[m] = r.cmd[m]
<1> DEFINE p == AskSaved(r, a)
           m == Reply(a, 0)
           x == "sending"
           s == Resolving(p, a, m, x)
<1>1. /\ p \in Record /\ p.status = r.status /\ p.cmd = r.cmd
      /\ p.event = r.event /\ p.asked = r.asked
      /\ p.ask = [r.ask EXCEPT ![a] = IF @ = "none" THEN "pending" ELSE @]
  BY AskSavedFields
<1>2. m \in Messages /\ x \in Unsent
  BY MessageFacts DEF Unsent
<1> HIDE DEF p, m, x
<1>3. /\ s \in Record /\ s.status = p.status /\ s.event = p.event /\ s.asked = p.asked
      /\ s.ask[a] = "resolving" /\ \A b \in Asks \ {a} : s.ask[b] = p.ask[b]
      /\ s.cmd[m] = x /\ \A k \in Messages \ {m} : s.cmd[k] = p.cmd[k]
  <2>1. s \in Record /\ s.status = p.status /\ s.event = p.event /\ s.asked = p.asked
    BY <1>1, <1>2, ResolvingFields
  <2>2. s.ask[a] = "resolving" /\ s.cmd[m] = x
    BY <1>1, <1>2, ResolvingFields
  <2>3. \A b \in Asks \ {a} : s.ask[b] = p.ask[b]
    <3>1. p \in Record
      BY <1>1
    <3> QED  BY <1>2, <3>1, ResolvingFields
  <2>4. \A k \in Messages \ {m} : s.cmd[k] = p.cmd[k]
    BY <1>1, <1>2, ResolvingFields
  <2> QED  BY <2>1, <2>2, <2>3, <2>4
<1>4. \A b \in Asks \ {a} : p.ask[b] = r.ask[b]
  BY <1>1 DEF Record
<1> HIDE DEF s
<1> QED  BY <1>1, <1>3, <1>4 DEF s, p, m, x

\* A question of the worker is reduced: put to the user, granted, or moot.
LEMMA ReduceAskStep ==
    ASSUME TaskInv, NEW t \in Tasks, ReduceAsk(t)
    PROVE  TaskInv'
<1> DEFINE a == busy.of
           granted == Resolving(AskSaved(led[t], a), a, Reply(a, 0), "sending")
           put == AskPut(led[t], a)
           s == led'[t]
<1>t. TypeOK
  BY DEF TaskInv
<1>1. /\ up /\ busy.task = t /\ busy.at = "ask" /\ busy' = Free
      /\ UNCHANGED <<todo, run, stopped, outbox, worker, heard, call, standing, up, faults, crashes,
                     leaked, cut>>
  BY DEF ReduceAsk
<1>2. IF a \in Permissions /\ standing
      THEN led' = [led EXCEPT ![t] = granted] /\ Goto(t, "reply")
      ELSE led' = [led EXCEPT ![t] = put] /\ UNCHANGED job
  BY DEF ReduceAsk
<1>3. /\ job[t] = "events" /\ led[t].status \in Live /\ a \in Asks
      /\ led[t].event[a] = "unprocessed" /\ Untouched(led[t], a)
  BY <1>1 DEF TaskInv, Course, BusyWith
<1>4. busy'.task \notin Tasks /\ busy'.at = "free"
  BY <1>1, NamesAssumption DEF Free
<1>5. led[t] \in Record /\ Reply(a, 0) \in Messages
  BY <1>t, <1>3, GatewayFields, MessageFacts
<1> HIDE DEF a
<1>6. /\ granted \in Record /\ granted.status = led[t].status /\ granted.event = led[t].event
      /\ granted.asked = led[t].asked
      /\ granted.ask[a] = "resolving" /\ \A b \in Asks \ {a} : granted.ask[b] = led[t].ask[b]
      /\ granted.cmd[Reply(a, 0)] = "sending"
      /\ \A m \in Messages \ {Reply(a, 0)} : granted.cmd[m] = led[t].cmd[m]
  BY <1>3, <1>5, GrantedFields
<1>7. /\ put \in Record /\ put.status = led[t].status /\ put.cmd = led[t].cmd
      /\ put.ask[a] = "pending" /\ put.asked[a] = "queued" /\ put.event[a] = "processed"
      /\ put.event[Final] = led[t].event[Final]
      /\ \A b \in Asks \ {a} : /\ put.ask[b] = led[t].ask[b] /\ put.asked[b] = led[t].asked[b]
                               /\ put.event[b] = led[t].event[b]
  BY <1>3, <1>5, AskPutFields
<1> HIDE DEF granted, put
<1>8. /\ led' \in [Tasks -> Record] /\ s \in Record /\ \A u \in Tasks \ {t} : led'[u] = led[u]
      /\ (s = granted /\ job'[t] = "reply") \/ (s = put /\ job'[t] = "events")
      /\ \A u \in Tasks \ {t} : job'[u] = job[u]
      /\ job' \in [Tasks -> {"none", "resource"} \cup Holding]
  <2>1. CASE a \in Permissions /\ standing
    <3>1. led' = [led EXCEPT ![t] = granted] /\ Goto(t, "reply")
      BY <1>2, <2>1
    <3>2. /\ led' \in [Tasks -> Record] /\ led'[t] = granted
          /\ \A u \in Tasks \ {t} : led'[u] = led[u]
      BY <1>t, <1>6, <3>1, RecordWritten
    <3>3. /\ job'[t] = "reply" /\ \A u \in Tasks \ {t} : job'[u] = job[u]
          /\ job' \in [Tasks -> {"none", "resource"} \cup Holding]
      BY <1>t, <3>1 DEF Goto, TypeOK, Holding
    <3> QED  BY <3>2, <3>3
  <2>2. CASE ~(a \in Permissions /\ standing)
    BY <1>t, <1>2, <1>3, <1>7, <2>2, RecordWritten DEF TypeOK
  <2> QED  BY <2>1, <2>2
<1>9. /\ s.status = led[t].status /\ s.event[Final] = led[t].event[Final]
      /\ \A b \in Asks \ {a} : /\ s.ask[b] = led[t].ask[b] /\ s.asked[b] = led[t].asked[b]
                               /\ s.event[b] = led[t].event[b]
      /\ s.ask[a] \in Open /\ s.event[a] \in {"unprocessed", "processed"}
      /\ s.event[a] = "unprocessed" => job'[t] = "reply"
      /\ s.cmd[Reply(a, 0)] \in {"none", "sending"}
      /\ \A m \in Messages \ {Reply(a, 0)} : s.cmd[m] = led[t].cmd[m]
  BY <1>3, <1>6, <1>7, <1>8, MessageFacts DEF Open, Untouched
<1> HIDE DEF s
<1>10. \A b \in Asks : led[t].event[b] = "unprocessed" => b = a
  BY <1>1, <1>3 DEF TaskInv, Course, OneAtATime, Between, a
<1>11. heard[t][Reply(a, 0)] = 0
  BY <1>t, <1>3, <1>5, GatewayFields DEF Untouched, TaskInv, Heard, HeardIsRecorded
<1>12. TypeOK'
  <2>1. busy' \in [task : Tasks \cup {NoTask}, at : {"free", "ask", "row", "rest"},
                   of : Asks \cup {Final}]
    BY <1>1 DEF Free
  <2> QED  BY <1>t, <1>1, <1>8, <2>1 DEF TypeOK
<1>13. Heard'
  <2>1. HeardIsRecorded'
    BY <1>1, <1>8, <1>9, <1>11 DEF TaskInv, Heard, HeardIsRecorded, s
  <2>2. ReplayIsUnheard'
    BY <1>1, <1>3, <1>8, <1>9, MessageFacts DEF TaskInv, Heard, ReplayIsUnheard, s
  <2>3. CallIsUnheard'
    BY <1>1, <1>8, <1>9 DEF TaskInv, Heard, CallIsUnheard, Early, s
  <2>4. GrantIsUnheard'
    BY <1>1, <1>8, <1>9, <1>10, <1>11 DEF TaskInv, Heard, GrantIsUnheard, s
  <2> QED  BY <2>1, <2>2, <2>3, <2>4 DEF Heard
<1>14. Course'
  <2>1. NoRunYet'
    BY <1>1, <1>3, <1>8, <1>9 DEF TaskInv, Course, NoRunYet, WaitJobs, Early, Live, s
  <2>2. AskComesOnce'
    <3>1. ASSUME NEW b \in Asks, s.event[b] = "none"
          PROVE  Untouched(s, b)
      <4>1. b # a /\ led[t].event[b] = "none"
        BY <1>9, <3>1
      <4>2. Untouched(led[t], b)
        BY <4>1 DEF TaskInv, Course, AskComesOnce
      <4>3. Reply(b, 0) \in Messages \ {Reply(a, 0)}
        BY <1>3, <4>1, MessageFacts
      <4> QED  BY <1>9, <4>1, <4>2, <4>3 DEF Untouched
    <3>2. ASSUME NEW i \in DOMAIN outbox[t], outbox[t][i] # Final
          PROVE  s.event[outbox[t][i]] = "none"
      <4>1. outbox[t][i] \in Asks
        BY <1>t, <3>2, OutboxElements
      <4>2. led[t].event[outbox[t][i]] = "none"
        BY <3>2 DEF TaskInv, Course, AskComesOnce
      <4>3. outbox[t][i] # a
        BY <1>3, <4>2
      <4> QED  BY <1>9, <4>1, <4>2, <4>3
    <3> QED  BY <1>1, <1>8, <3>1, <3>2 DEF TaskInv, Course, AskComesOnce, s
  <2>3. LastIsReduced'
    BY <1>1, <1>8, <1>9 DEF TaskInv, Course, LastIsReduced, s
  <2>4. BusyWith'
    BY <1>1, <1>4 DEF BusyWith
  <2>5. OneAtATime'
    BY <1>1, <1>4, <1>8, <1>9, <1>10 DEF TaskInv, Course, OneAtATime, Between, s
  <2>6. NothingIsUp'
    BY <1>1 DEF NothingIsUp
  <2> QED  BY <2>1, <2>2, <2>3, <2>4, <2>5, <2>6 DEF Course
<1>15. Closed'
  <2>1. QueuedIsOpen'
    BY <1>1, <1>8, <1>9 DEF TaskInv, Closed, QueuedIsOpen, CutShort, s
  <2>2. EndedIsClosed'
    BY <1>1, <1>3, <1>8, <1>9
       DEF TaskInv, Closed, EndedIsClosed, CutShort, OpenAsks, HasEnded, Live, Ended, s
  <2>3. DownIsRecoverable'
    BY <1>1 DEF DownIsRecoverable
  <2> QED  BY <2>1, <2>2, <2>3 DEF Closed
<1> QED  BY <1>12, <1>13, <1>14, <1>15 DEF TaskInv

-----------------------------------------------------------------------------
(* The answer to an ask is back from the worker.                             *)

ReplyTaken(t, a, m, accepted) ==
    /\ led' \in [Tasks -> Record] /\ \A u \in Tasks \ {t} : led'[u] = led[u]
    /\ led'[t].status = led[t].status /\ led'[t].event[Final] = led[t].event[Final]
    /\ led'[t].cmd[m] = SentAs(accepted)
    /\ \A k \in Messages \ {m} : led'[t].cmd[k] = led[t].cmd[k]
    /\ \A b \in Asks \ {a} : /\ led'[t].ask[b] = led[t].ask[b]
                             /\ led'[t].asked[b] = led[t].asked[b]
                             /\ led'[t].event[b] = led[t].event[b]
    /\ \/ led'[t].event[a] = led[t].event[a]
       \/ led[t].event[a] = "unprocessed" /\ led'[t].event[a] = "processed"
    /\ led[t].ask[a] # "resolving" =>
          led'[t].ask[a] = led[t].ask[a] /\ led'[t].asked[a] = led[t].asked[a]
    /\ led[t].ask[a] = "resolving" =>
          \/ led'[t].ask[a] = "pending" /\ led'[t].asked[a] = led[t].asked[a]
          \/ led'[t].ask[a] = "resolved" /\ led'[t].asked[a] # "queued"

\* It is the owner's call that waited for it, or the dispatch with a standing grant.
LEMMA ReplyTakenStep ==
    ASSUME TaskInv, busy = Free, up, NEW t \in Tasks, NEW a \in Asks, NEW n \in 0..MaxReplies,
           NEW accepted \in BOOLEAN, Send(t, Reply(a, n), accepted),
           heard[t][Reply(a, n)] = 0, ReplyTaken(t, a, Reply(a, n), accepted),
           led[t].status \notin {"none", "queued"}, ~Early(t),
           \/ n # 0 /\ job' = job /\ call' = Idle
           \/ /\ n = 0 /\ job[t] = "reply" /\ call' = call /\ led[t].event[a] = "unprocessed"
              /\ \/ job'[t] = "failing"
                 \/ job'[t] = "events" /\ led'[t].event[a] = "processed"
              /\ \A u \in Tasks \ {t} : job'[u] = job[u],
           UNCHANGED <<todo, run, outbox, busy, up, cut>>, TypeOK'
    PROVE  TaskInv'
<1> DEFINE m == Reply(a, n)
<1>t. TypeOK
  BY DEF TaskInv
<1>0. /\ m \in Messages /\ m # Steer /\ \A b \in Asks : Reply(b, 0) \in Messages
      /\ \A b \in Asks : m = Reply(b, 0) <=> b = a /\ n = 0
  BY MessageFacts
<1>1. busy.task \notin Tasks /\ busy.at = "free"
  BY <1>t, GatewayFields
<1>h. \A u \in Tasks, k \in Messages : heard'[u][k] = heard[u][k] \/ (u = t /\ k = m)
  BY <1>t, <1>0, SendHeard
<1>2. /\ \A u \in Tasks \ {t} : led'[u] = led[u] /\ job'[u] = job[u]
      /\ led'[t].status = led[t].status /\ led'[t].event[Final] = led[t].event[Final]
      /\ \A k \in Messages \ {m} : led'[t].cmd[k] = led[t].cmd[k]
      /\ \A b \in Asks \ {a} : /\ led'[t].ask[b] = led[t].ask[b]
                               /\ led'[t].asked[b] = led[t].asked[b]
                               /\ led'[t].event[b] = led[t].event[b]
  BY DEF ReplyTaken
<1>3. \A b \in Asks : \/ led'[t].event[b] = led[t].event[b]
                      \/ led[t].event[b] = "unprocessed" /\ led'[t].event[b] = "processed"
  BY DEF ReplyTaken
<1>5. led'[t].cmd[m] \in {"sent", "failed"}
  BY DEF ReplyTaken, SentAs
<1>6. Heard'
  <2>1. HeardIsRecorded'
    BY <1>t, <1>0, SendRecorded DEF TaskInv, Heard, ReplyTaken
  <2>2. ReplayIsUnheard'
    BY <1>0, <1>2, <1>h, MessageFacts DEF TaskInv, Heard, ReplayIsUnheard
  <2>3. CallIsUnheard'
    <3>1. CASE call' = Idle
      BY <3>1 DEF CallIsUnheard, Idle
    <3>2. CASE n = 0 /\ call' = call
      <4>1. call.pc = "reply" => call.msg # m /\ call.msg \in Messages
        BY <3>2, BoundsAssumption DEF TaskInv, Heard, CallIsUnheard, Reply, Messages
      <4> QED  BY <1>0, <1>2, <1>h, <3>2, <4>1, MessageFacts
               DEF TaskInv, Heard, CallIsUnheard, Early
    <3> QED  BY <3>1, <3>2
  <2>4. GrantIsUnheard'
    <3> SUFFICES ASSUME NEW u \in Tasks, NEW b \in Asks, led'[u].event[b] = "unprocessed",
                        heard'[u][Reply(b, 0)] > 0
                 PROVE  job'[u] \in {"failing", "close", "none"}
      BY DEF GrantIsUnheard
    <3>1. led[u].event[b] = "unprocessed"
      BY <1>2, <1>3
    <3>2. CASE u = t /\ Reply(b, 0) = m
      BY <1>0, <3>2
    <3>3. CASE ~(u = t /\ Reply(b, 0) = m)
      <4>1. job[u] \in {"failing", "close", "none"}
        BY <1>0, <1>h, <3>1, <3>3 DEF TaskInv, Heard, GrantIsUnheard
      <4> QED  BY <1>2, <4>1
    <3> QED  BY <3>2, <3>3
  <2> QED  BY <2>1, <2>2, <2>3, <2>4 DEF Heard
<1>7. Course'
  <2>1. NoRunYet'
    <3>1. ~Early(t)'
      BY DEF Early
    <3> QED  BY <1>2, <3>1 DEF TaskInv, Course, NoRunYet, Early, Fresh
  <2>2. AskComesOnce'
    <3>1. ASSUME NEW b \in Asks, led'[t].event[b] = "none"
          PROVE  Untouched(led'[t], b)
      <4>1. led[t].event[b] = "none" /\ Untouched(led[t], b)
        BY <1>3, <3>1 DEF TaskInv, Course, AskComesOnce
      <4>2. led'[t].ask[b] = "none" /\ led'[t].asked[b] = "none"
        BY <1>2, <4>1 DEF ReplyTaken, Untouched
      <4>3. led'[t].cmd[Reply(b, 0)] = "none"
        BY <1>0, <1>2, <4>1 DEF Untouched
      <4> QED  BY <4>2, <4>3 DEF Untouched
    <3>2. ASSUME NEW i \in DOMAIN outbox[t], outbox[t][i] # Final
          PROVE  led'[t].event[outbox[t][i]] = "none"
      <4>1. outbox[t][i] \in Asks /\ led[t].event[outbox[t][i]] = "none"
        BY <1>t, <3>2, OutboxElements DEF TaskInv, Course, AskComesOnce
      <4> QED  BY <1>3, <4>1
    <3> QED  BY <1>2, <3>1, <3>2 DEF TaskInv, Course, AskComesOnce
  <2>3. LastIsReduced'
    BY <1>2 DEF TaskInv, Course, LastIsReduced
  <2>4. BusyWith'
    BY <1>1 DEF BusyWith
  <2>5. OneAtATime'
    <3> SUFFICES ASSUME NEW u \in Tasks, NEW b \in Asks, led'[u].event[b] = "unprocessed"
                 PROVE  /\ ~Between(u)'
                        /\ job'[u] = "reply" =>
                              \A c \in Asks : led'[u].event[c] = "unprocessed" => b = c
      BY <1>1 DEF OneAtATime
    <3>1. led[u].event[b] = "unprocessed"
      BY <1>2, <1>3
    <3>2. ~Between(u)
      BY <1>1, <3>1 DEF TaskInv, Course, OneAtATime
    <3>3. job[u] = "reply" => \A c \in Asks : led'[u].event[c] = "unprocessed" => b = c
      BY <1>2, <1>3, <3>1 DEF TaskInv, Course, OneAtATime
    <3>4. CASE job'[u] = job[u]
      BY <3>2, <3>3, <3>4 DEF Between
    <3>5. CASE job'[u] # job[u]
      <4>1. u = t /\ n = 0 /\ job[t] = "reply" /\ led[t].event[a] = "unprocessed"
        BY <1>2, <3>5
      <4>2. b = a
        BY <3>1, <4>1 DEF TaskInv, Course, OneAtATime
      <4>3. job'[t] = "failing"
        BY <3>5, <4>1, <4>2
      <4> QED  BY <4>1, <4>3 DEF Between
    <3> QED  BY <3>4, <3>5
  <2>6. NothingIsUp'
    BY DEF NothingIsUp
  <2> QED  BY <2>1, <2>2, <2>3, <2>4, <2>5, <2>6 DEF Course
<1>8. Closed'
  <2>1. QueuedIsOpen'
    <3>1. ASSUME NEW b \in Asks, led'[t].asked[b] = "queued"
          PROVE  led'[t].ask[b] \in Open \/ CutShort(t)
      BY <1>2, <3>1 DEF ReplyTaken, TaskInv, Closed, QueuedIsOpen, Open
    <3> QED  BY <1>2, <3>1 DEF TaskInv, Closed, QueuedIsOpen, CutShort
  <2>2. EndedIsClosed'
    <3>1. ASSUME HasEnded(led'[t])
          PROVE  OpenAsks(led'[t]) = {} \/ CutShort(t)
      <4>1. OpenAsks(led[t]) = {} \/ CutShort(t)
        BY <1>1, <1>2, <3>1 DEF TaskInv, Closed, EndedIsClosed, HasEnded
      <4>2. ASSUME OpenAsks(led[t]) = {}
            PROVE  \A b \in Asks : led'[t].ask[b] = led[t].ask[b]
        BY <1>2, <4>2 DEF OpenAsks, Open, ReplyTaken
      <4> QED  BY <4>1, <4>2 DEF OpenAsks
    <3> QED  BY <1>1, <1>2, <3>1 DEF TaskInv, Closed, EndedIsClosed, CutShort
  <2>3. DownIsRecoverable'
    BY DEF DownIsRecoverable
  <2> QED  BY <2>1, <2>2, <2>3 DEF Closed
<1> QED  BY <1>6, <1>7, <1>8 DEF TaskInv

\* The reply of a standing grant comes back.
LEMMA AutoRepliedStep ==
    ASSUME TaskInv, NEW t \in Tasks, AutoReplied(t)
    PROVE  TaskInv'
<1>t. TypeOK
  BY DEF TaskInv
<1>1. /\ busy = Free /\ up /\ job[t] = "reply"
      /\ UNCHANGED <<todo, run, stopped, outbox, worker, call, standing, busy, up, crashes, leaked,
                     cut>>
  BY DEF AutoReplied, Running
<1>2. PICK a \in Permissions, accepted \in BOOLEAN :
         /\ led[t].event[a] = "unprocessed" /\ Send(t, Reply(a, 0), accepted)
         /\ LET r == ReplyOutcome(led[t], a, Reply(a, 0), accepted) IN
            IF led[t].ask[a] = "resolving"
            THEN led' = [led EXCEPT ![t] = [r EXCEPT !.event[a] = "processed"]]
                 /\ Goto(t, "events")
            ELSE led' = [led EXCEPT ![t] = r] /\ Goto(t, "failing")
  BY DEF AutoReplied
<1> DEFINE m == Reply(a, 0)
           r == ReplyOutcome(led[t], a, m, accepted)
           s == [r EXCEPT !.event[a] = "processed"]
<1>3. a \in Asks /\ m \in Messages /\ 0 \in 0..MaxReplies /\ led[t] \in Record
  BY <1>t, MessageFacts, GatewayFields, NamesAssumption
<1>4. /\ r \in Record /\ r.status = led[t].status /\ r.event = led[t].event
      /\ r.cmd = [led[t].cmd EXCEPT ![m] = SentAs(accepted)]
      /\ \A b \in Asks \ {a} : r.ask[b] = led[t].ask[b] /\ r.asked[b] = led[t].asked[b]
      /\ led[t].ask[a] # "resolving" =>
            r.ask[a] = led[t].ask[a] /\ r.asked[a] = led[t].asked[a]
      /\ led[t].ask[a] = "resolving" =>
            \/ r.ask[a] = "pending" /\ r.asked[a] = led[t].asked[a]
            \/ r.ask[a] = "resolved" /\ r.asked[a] # "queued"
  BY <1>3, ReplyOutcomeFields
<1>5. /\ r.cmd[m] = SentAs(accepted) /\ \A k \in Messages \ {m} : r.cmd[k] = led[t].cmd[k]
  <2>1. led[t].cmd \in [Messages -> {"none", "sent", "failed", "cancelled"} \cup Unsent]
    BY <1>3 DEF Record
  <2> QED  BY <1>3, <1>4, <2>1
<1>6. IF led[t].ask[a] = "resolving"
      THEN led' = [led EXCEPT ![t] = s] /\ Goto(t, "events")
      ELSE led' = [led EXCEPT ![t] = r] /\ Goto(t, "failing")
  BY <1>2
<1> HIDE DEF r
<1>7. /\ s \in Record /\ s.status = r.status /\ s.ask = r.ask /\ s.asked = r.asked
      /\ s.cmd = r.cmd /\ s.event[a] = "processed" /\ s.event[Final] = r.event[Final]
      /\ \A b \in Asks \ {a} : s.event[b] = r.event[b]
  BY <1>3, <1>4, MessageFacts DEF Record, Marks
<1> HIDE DEF s
<1>8. ReplyTaken(t, a, m, accepted)
  <2>1. CASE led[t].ask[a] = "resolving"
    <3>1. /\ led' \in [Tasks -> Record] /\ led'[t] = s /\ \A u \in Tasks \ {t} : led'[u] = led[u]
      BY <1>t, <1>6, <1>7, <2>1, RecordWritten
    <3>2. /\ s.event[Final] = led[t].event[Final] /\ s.event[a] = "processed"
          /\ led[t].event[a] = "unprocessed" /\ \A b \in Asks \ {a} : s.event[b] = led[t].event[b]
      BY <1>2, <1>4, <1>7
    <3>3. s.status = led[t].status /\ s.cmd = r.cmd /\ s.ask = r.ask /\ s.asked = r.asked
      BY <1>4, <1>7
    <3>4. /\ \A b \in Asks \ {a} : s.ask[b] = led[t].ask[b] /\ s.asked[b] = led[t].asked[b]
          /\ \/ s.ask[a] = "pending" /\ s.asked[a] = led[t].asked[a]
             \/ s.ask[a] = "resolved" /\ s.asked[a] # "queued"
      BY <1>4, <2>1, <3>3
    <3> QED  BY <1>5, <2>1, <3>1, <3>2, <3>3, <3>4 DEF ReplyTaken
  <2>2. CASE led[t].ask[a] # "resolving"
    <3>1. /\ led' \in [Tasks -> Record] /\ led'[t] = r /\ \A u \in Tasks \ {t} : led'[u] = led[u]
      BY <1>t, <1>4, <1>6, <2>2, RecordWritten
    <3> QED  BY <1>4, <1>5, <2>2, <3>1 DEF ReplyTaken
  <2> QED  BY <2>1, <2>2
<1>9. /\ job' \in [Tasks -> {"none", "resource"} \cup Holding]
      /\ \A u \in Tasks \ {t} : job'[u] = job[u]
      /\ \/ job'[t] = "failing"
         \/ job'[t] = "events" /\ led'[t].event[a] = "processed"
  <2>1. CASE led[t].ask[a] = "resolving"
    BY <1>t, <1>6, <1>7, <2>1, RecordWritten DEF Goto, TypeOK, Holding
  <2>2. CASE led[t].ask[a] # "resolving"
    BY <1>t, <1>6, <2>2 DEF Goto, TypeOK, Holding
  <2> QED  BY <2>1, <2>2
<1>10. heard[t][m] = 0
  BY <1>t, <1>1, <1>2, <1>3, GatewayFields DEF TaskInv, Heard, GrantIsUnheard
<1>11. TypeOK'
  <2>1. heard' \in [Tasks -> [Messages -> Nat]] /\ faults' \in 0..MaxFaults
    BY <1>t, <1>2, <1>3, SendHeard
  <2>2. led' \in [Tasks -> Record]
    BY <1>8 DEF ReplyTaken
  <2> QED  BY <1>t, <1>1, <1>9, <2>1, <2>2 DEF TypeOK
<1>12. led[t].status \notin {"none", "queued"} /\ ~Early(t)
  BY <1>1 DEF TaskInv, Course, NoRunYet, WaitJobs, Early
<1> QED  BY <1>1, <1>2, <1>3, <1>8, <1>9, <1>10, <1>11, <1>12, ReplyTakenStep

\* The user's reply comes back.
LEMMA ResolvedStep ==
    ASSUME TaskInv, Resolved
    PROVE  TaskInv'
<1> DEFINE t == call.task
           a == call.msg[1]
<1>t. TypeOK
  BY DEF TaskInv
<1>1. /\ busy = Free /\ up /\ call.pc = "reply" /\ call' = Idle
      /\ UNCHANGED <<job, todo, run, stopped, outbox, worker, busy, up, crashes, leaked, cut>>
  BY DEF Resolved, Running
<1>2. PICK accepted \in BOOLEAN :
         /\ Send(t, call.msg, accepted)
         /\ led' = [led EXCEPT ![t] = ReplyOutcome(@, a, call.msg, accepted)]
         /\ standing' = IF ~accepted \/ a \notin Permissions \/ led[t].ask[a] # "resolving"
                        THEN standing
                        ELSE (standing \/ call.act = "allow_session") /\ call.act # "deny"
  BY DEF Resolved
<1>3. /\ t \in Tasks /\ ~Early(t) /\ led[t].status \notin {"none", "queued"}
      /\ call.msg \in Asks \X (1..MaxReplies) /\ heard[t][call.msg] = 0
  BY <1>1 DEF TaskInv, Heard, CallIsUnheard
<1>4. PICK n \in 1..MaxReplies : call.msg = <<a, n>> /\ a \in Asks
  BY <1>3
<1> DEFINE m == Reply(a, n)
           r == ReplyOutcome(led[t], a, m, accepted)
<1>5. m = call.msg /\ n \in 0..MaxReplies /\ n # 0 /\ m \in Messages
  BY <1>4, BoundsAssumption, MessageFacts DEF Reply
<1>6. led' = [led EXCEPT ![t] = r] /\ Send(t, m, accepted) /\ heard[t][m] = 0
  BY <1>2, <1>3, <1>5
<1>7. standing' \in BOOLEAN
  BY <1>t, <1>2 DEF TypeOK
<1> HIDE DEF t, a, m
<1>8. /\ r \in Record /\ r.status = led[t].status /\ r.event = led[t].event
      /\ r.cmd = [led[t].cmd EXCEPT ![m] = SentAs(accepted)]
      /\ \A b \in Asks \ {a} : r.ask[b] = led[t].ask[b] /\ r.asked[b] = led[t].asked[b]
      /\ led[t].ask[a] # "resolving" =>
            r.ask[a] = led[t].ask[a] /\ r.asked[a] = led[t].asked[a]
      /\ led[t].ask[a] = "resolving" =>
            \/ r.ask[a] = "pending" /\ r.asked[a] = led[t].asked[a]
            \/ r.ask[a] = "resolved" /\ r.asked[a] # "queued"
  <2>1. led[t] \in Record
    BY <1>t, <1>3, GatewayFields
  <2>2. accepted \in BOOLEAN /\ a \in Asks /\ m \in Messages
    BY <1>4, <1>5
  <2> QED  BY <2>1, <2>2, ReplyOutcomeFields
<1>9. /\ r.cmd[m] = SentAs(accepted) /\ \A k \in Messages \ {m} : r.cmd[k] = led[t].cmd[k]
  <2>1. led[t].cmd \in [Messages -> {"none", "sent", "failed", "cancelled"} \cup Unsent]
    BY <1>t, <1>3, GatewayFields DEF Record
  <2> QED  BY <1>5, <1>8, <2>1
<1> HIDE DEF r
<1>10. /\ led' \in [Tasks -> Record] /\ led'[t] = r /\ \A u \in Tasks \ {t} : led'[u] = led[u]
  BY <1>t, <1>3, <1>6, <1>8, RecordWritten
<1>11. ReplyTaken(t, a, m, accepted)
  BY <1>8, <1>9, <1>10 DEF ReplyTaken
<1>12. TypeOK'
  <2>1. heard' \in [Tasks -> [Messages -> Nat]] /\ faults' \in 0..MaxFaults
    BY <1>t, <1>3, <1>5, <1>6, SendHeard
  <2>2. call' \in Call
    BY <1>1, MessageFacts DEF Idle, Call, Acts
  <2> QED  BY <1>t, <1>1, <1>7, <1>10, <2>1, <2>2 DEF TypeOK
<1> QED  BY <1>1, <1>3, <1>4, <1>5, <1>6, <1>11, <1>12, ReplyTakenStep DEF m

-----------------------------------------------------------------------------
(* The owner's calls.                                                        *)

\* A task is started.
LEMMA TaskStartStep ==
    ASSUME TaskInv, NEW t \in Tasks, TaskStart(t)
    PROVE  TaskInv'
<1>t. TypeOK
  BY DEF TaskInv
<1>1. /\ busy = Free /\ up /\ call = Idle /\ led[t].status = "none"
      /\ UNCHANGED <<todo, run, stopped, outbox, worker, heard, call, standing, busy, up, faults,
                     crashes, leaked, cut>>
  BY DEF TaskStart, Calling, Running
<1>2. /\ led' \in [Tasks -> Record] /\ led'[t].status = "queued"
      /\ led'[t].ask = led[t].ask /\ led'[t].asked = led[t].asked
      /\ led'[t].cmd = led[t].cmd /\ led'[t].event = led[t].event
      /\ \A u \in Tasks \ {t} : led'[u] = led[u]
  BY <1>t, StatusWritten DEF TaskStart
<1>3. job'[t] = "resource" /\ \A u \in Tasks \ {t} : job'[u] = job[u]
  BY <1>t DEF TaskStart, Goto, TypeOK
<1>4. busy.task \notin Tasks /\ busy.at = "free"
  BY <1>t, <1>1, GatewayFields
<1>5. Fresh(led[t]) /\ ~run[t] /\ job[t] \in WaitJobs
  BY <1>1 DEF TaskInv, Course, NoRunYet
<1>6. TypeOK'
  <2>1. job' \in [Tasks -> {"none", "resource"} \cup Holding]
    BY <1>t DEF TaskStart, Goto, TypeOK
  <2> QED  BY <1>t, <1>1, <1>2, <2>1 DEF TypeOK
<1>7. Heard'
  <2>1. HeardIsRecorded' /\ ReplayIsUnheard'
    BY <1>1, <1>2 DEF TaskInv, Heard, HeardIsRecorded, ReplayIsUnheard
  <2>2. CallIsUnheard'
    BY <1>1 DEF CallIsUnheard, Idle
  <2>3. GrantIsUnheard'
    BY <1>1, <1>2, <1>3, <1>5 DEF TaskInv, Heard, GrantIsUnheard, Fresh
  <2> QED  BY <2>1, <2>2, <2>3 DEF Heard
<1>8. Course'
  <2>1. NoRunYet'
    BY <1>1, <1>2, <1>3, <1>5 DEF TaskInv, Course, NoRunYet, WaitJobs, Early, Fresh
  <2>2. AskComesOnce' /\ LastIsReduced'
    BY <1>1, <1>2 DEF TaskInv, Course, AskComesOnce, LastIsReduced, Untouched
  <2>3. BusyWith'
    BY <1>1, <1>4 DEF BusyWith
  <2>4. OneAtATime'
    BY <1>1, <1>2, <1>3, <1>4 DEF TaskInv, Course, OneAtATime, Between
  <2>5. NothingIsUp'
    BY <1>1 DEF NothingIsUp
  <2> QED  BY <2>1, <2>2, <2>3, <2>4, <2>5 DEF Course
<1>9. Closed'
  <2>1. QueuedIsOpen'
    BY <1>1, <1>2 DEF TaskInv, Closed, QueuedIsOpen, CutShort
  <2>2. EndedIsClosed'
    BY <1>1, <1>2 DEF TaskInv, Closed, EndedIsClosed, CutShort, OpenAsks, HasEnded, Ended
  <2>3. DownIsRecoverable'
    BY <1>1 DEF DownIsRecoverable
  <2> QED  BY <2>1, <2>2, <2>3 DEF Closed
<1> QED  BY <1>6, <1>7, <1>8, <1>9 DEF TaskInv

\* A message to a task is recorded, and queued or sent.
LEMMA TaskSendStep ==
    ASSUME TaskInv, NEW t \in Tasks, TaskSend(t)
    PROVE  TaskInv'
<1>t. TypeOK
  BY DEF TaskInv
<1>1. /\ busy = Free /\ up /\ call = Idle
      /\ led[t].status \in {"queued"} \cup Live /\ led[t].cmd[Steer] = "none"
      /\ UNCHANGED <<job, todo, run, stopped, outbox, worker, standing, busy, up, faults, crashes,
                     leaked, cut>>
  BY DEF TaskSend, Calling, Running
<1>2. IF led[t].status = "queued"
      THEN led' = [led EXCEPT ![t].cmd[Steer] = "sent"]
           /\ Hears(t, Steer) /\ UNCHANGED call
      ELSE IF run[t]
      THEN led' = [led EXCEPT ![t].cmd[Steer] = "sending"]
           /\ Waiting("steer", t, Steer, "allow_once") /\ UNCHANGED heard
      ELSE led' = [led EXCEPT ![t].cmd[Steer] = "pending"] /\ UNCHANGED <<call, heard>>
  BY DEF TaskSend
<1>3. Steer \in Messages /\ heard[t][Steer] = 0 /\ Steer \notin todo[t]
  BY <1>t, <1>1, MessageFacts, GatewayFields
     DEF TaskInv, Heard, HeardIsRecorded, ReplayIsUnheard
<1>4. /\ led' \in [Tasks -> Record] /\ led'[t].status = led[t].status
      /\ led'[t].ask = led[t].ask /\ led'[t].asked = led[t].asked
      /\ led'[t].cmd[Steer] # "none" /\ led'[t].event = led[t].event
      /\ \A k \in Messages \ {Steer} : led'[t].cmd[k] = led[t].cmd[k]
      /\ \A u \in Tasks \ {t} : led'[u] = led[u]
  <2>1. CASE led[t].status = "queued"
    BY <1>t, <1>2, <1>3, <2>1, CommandWritten
  <2>2. CASE led[t].status # "queued" /\ run[t]
    BY <1>t, <1>2, <1>3, <2>2, CommandWritten DEF Unsent
  <2>3. CASE led[t].status # "queued" /\ ~run[t]
    BY <1>t, <1>2, <1>3, <2>3, CommandWritten DEF Unsent
  <2> QED  BY <2>1, <2>2, <2>3
<1>5. /\ heard' \in [Tasks -> [Messages -> Nat]]
      /\ \A u \in Tasks, k \in Messages : heard'[u][k] = heard[u][k] \/ (u = t /\ k = Steer)
      /\ heard'[t][Steer] <= 1
      /\ heard'[t][Steer] > 0 => led'[t].cmd[Steer] = "sent"
  <2>1. CASE led[t].status = "queued"
    <3>1. led'[t].cmd[Steer] = "sent"
      BY <1>t, <1>2, <1>3, <2>1, CommandWritten
    <3>2. heard' = [heard EXCEPT ![t][Steer] = @ + 1]
      BY <1>2, <2>1 DEF Hears
    <3> QED  BY <1>t, <1>3, <3>1, <3>2 DEF TypeOK
  <2>2. CASE led[t].status # "queued"
    <3>1. heard' = heard
      BY <1>2, <2>2
    <3> QED  BY <1>t, <1>3, <3>1 DEF TypeOK
  <2> QED  BY <2>1, <2>2
<1>6. \/ call' = Idle
      \/ /\ led[t].status # "queued" /\ run[t] /\ heard' = heard
         /\ call' = [pc |-> "steer", task |-> t, msg |-> Steer, act |-> "allow_once"]
  BY <1>1, <1>2 DEF Waiting
<1>7. TypeOK'
  <2>1. call' \in Call
    BY <1>3, <1>6 DEF Idle, Call, Acts
  <2> QED  BY <1>t, <1>1, <1>4, <1>5, <2>1 DEF TypeOK
<1>8. Heard'
  <2>1. HeardIsRecorded'
    BY <1>3, <1>4, <1>5 DEF TaskInv, Heard, HeardIsRecorded
  <2>2. ReplayIsUnheard'
    BY <1>1, <1>3, <1>4, <1>5 DEF TaskInv, Heard, ReplayIsUnheard
  <2>3. CallIsUnheard'
    <3>1. CASE call' = Idle
      BY <3>1 DEF CallIsUnheard, Idle
    <3>2. CASE call' # Idle
      <4>1. ~Early(t)
        BY <1>6, <3>2 DEF TaskInv, Course, NoRunYet
      <4>2. led[t].status \notin {"none", "queued"}
        BY <1>1, <1>6, <3>2 DEF Live
      <4> QED  BY <1>1, <1>3, <1>4, <1>6, <3>2, <4>1, <4>2 DEF CallIsUnheard, Early
    <3> QED  BY <3>1, <3>2
  <2>4. GrantIsUnheard'
    BY <1>1, <1>4, <1>5, MessageFacts DEF TaskInv, Heard, GrantIsUnheard
  <2> QED  BY <2>1, <2>2, <2>3, <2>4 DEF Heard
<1>9. Course' /\ Closed'
  <2>1. \A a \in Asks, n \in 0..MaxReplies : led'[t].cmd[Reply(a, n)] = led[t].cmd[Reply(a, n)]
    BY <1>4, MessageFacts
  <2> QED  BY <1>1, <1>4, <2>1, CourseKept
<1> QED  BY <1>7, <1>8, <1>9 DEF TaskInv

\* A message to a running worker comes back.
LEMMA SteerSentStep ==
    ASSUME TaskInv, SteerSent
    PROVE  TaskInv'
<1> DEFINE t == call.task
<1>t. TypeOK
  BY DEF TaskInv
<1>1. /\ busy = Free /\ up /\ call.pc = "steer" /\ call' = Idle
      /\ UNCHANGED <<job, todo, run, stopped, outbox, worker, standing, busy, up, crashes, leaked,
                     cut>>
  BY DEF SteerSent, Running
<1>2. PICK accepted \in BOOLEAN : Send(t, Steer, accepted) /\ Records(t, Steer, accepted)
  BY DEF SteerSent, Records
<1>3. t \in Tasks /\ heard[t][Steer] = 0 /\ Steer \notin todo[t] /\ Steer \in Messages
  BY <1>1, MessageFacts DEF TaskInv, Heard, CallIsUnheard
<1> HIDE DEF t
<1>4. /\ led' \in [Tasks -> Record] /\ led'[t].status = led[t].status
      /\ led'[t].ask = led[t].ask /\ led'[t].asked = led[t].asked
      /\ led'[t].cmd[Steer] = SentAs(accepted) /\ led'[t].event = led[t].event
      /\ \A k \in Messages \ {Steer} : led'[t].cmd[k] = led[t].cmd[k]
      /\ \A u \in Tasks \ {t} : led'[u] = led[u]
  BY <1>t, <1>2, <1>3, SentWritten
<1>5. /\ heard' \in [Tasks -> [Messages -> Nat]] /\ faults' \in 0..MaxFaults
      /\ \A u \in Tasks, k \in Messages : heard'[u][k] = heard[u][k] \/ (u = t /\ k = Steer)
  BY <1>t, <1>2, <1>3, SendHeard
<1>7. TypeOK'
  <2>1. call' \in Call
    BY <1>1, <1>3 DEF Idle, Call, Acts
  <2> QED  BY <1>t, <1>1, <1>4, <1>5, <2>1 DEF TypeOK
<1>8. Heard'
  <2>1. HeardIsRecorded'
    BY <1>t, <1>2, <1>3, <1>4, SendRecorded DEF TaskInv, Heard
  <2>2. ReplayIsUnheard'
    BY <1>1, <1>3, <1>4, <1>5 DEF TaskInv, Heard, ReplayIsUnheard
  <2>3. CallIsUnheard'
    BY <1>1 DEF CallIsUnheard, Idle
  <2>4. GrantIsUnheard'
    BY <1>1, <1>4, <1>5, MessageFacts DEF TaskInv, Heard, GrantIsUnheard
  <2> QED  BY <2>1, <2>2, <2>3, <2>4 DEF Heard
<1>9. Course' /\ Closed'
  <2>1. \A a \in Asks, n \in 0..MaxReplies : led'[t].cmd[Reply(a, n)] = led[t].cmd[Reply(a, n)]
    BY <1>4, MessageFacts
  <2> QED  BY <1>1, <1>3, <1>4, <2>1, CourseKept
<1> QED  BY <1>7, <1>8, <1>9 DEF TaskInv

\* The user replies to a question.
LEMMA ResolveStep ==
    ASSUME TaskInv, NEW t \in Tasks, Resolve(t)
    PROVE  TaskInv'
<1>t. TypeOK
  BY DEF TaskInv
<1>1. /\ busy = Free /\ up /\ call = Idle
      /\ UNCHANGED <<job, todo, run, stopped, outbox, worker, heard, standing, busy, up, faults,
                     crashes, leaked, cut>>
  BY DEF Resolve, Calling, Running
<1>2. PICK a \in Asks, n \in 1..MaxReplies, act \in Acts :
          /\ Answerable(t, a) /\ led[t].cmd[Reply(a, n)] = "none"
          /\ IF run[t]
             THEN /\ led' = [led EXCEPT ![t] = Resolving(@, a, Reply(a, n), "sending")]
                  /\ Waiting("reply", t, Reply(a, n), act)
             ELSE /\ led' = [led EXCEPT ![t] =
                         Refreshed(NotAsked(Resolving(@, a, Reply(a, n), "pending"), a))]
                  /\ UNCHANGED call
  BY DEF Resolve
<1> DEFINE m == Reply(a, n)
           x == "sending"
           y == "pending"
           sending == Resolving(led[t], a, m, x)
           pending == Resolving(led[t], a, m, y)
           s == led'[t]
<1>3. /\ n \in 0..MaxReplies /\ n # 0 /\ m \in Messages /\ m # Steer
      /\ \A b \in Asks : Reply(b, 0) \in Messages \ {m}
      /\ m \in Asks \X (1..MaxReplies)
  <2>1. n \in 0..MaxReplies /\ n # 0
    BY BoundsAssumption
  <2>2. m \in Messages /\ m # Steer /\ \A b \in Asks : Reply(b, 0) \in Messages \ {m}
    BY <2>1, MessageFacts
  <2>3. m \in Asks \X (1..MaxReplies)
    BY DEF Reply
  <2> QED  BY <2>1, <2>2, <2>3
<1>4. /\ led[t] \in Record /\ led[t].status \in Live /\ led[t].ask[a] = "pending"
      /\ led[t].cmd[m] = "none" /\ led[t].event[a] # "none"
      /\ heard[t][m] = 0
  BY <1>t, <1>2, <1>3, GatewayFields
     DEF Answerable, TaskInv, Course, AskComesOnce, Untouched, Heard, HeardIsRecorded
<1>5. IF run[t]
      THEN led' = [led EXCEPT ![t] = sending] /\ Waiting("reply", t, m, act)
      ELSE led' = [led EXCEPT ![t] = Refreshed(NotAsked(pending, a))] /\ call' = call
  BY <1>2
<1>u. x \in Unsent /\ y \in Unsent /\ x # "none" /\ y # "none"
  BY DEF Unsent
<1> HIDE DEF m, x, y
<1>6. /\ sending \in Record /\ sending.status = led[t].status /\ sending.event = led[t].event
      /\ sending.asked = led[t].asked
      /\ sending.ask[a] = "resolving" /\ \A b \in Asks \ {a} : sending.ask[b] = led[t].ask[b]
      /\ sending.cmd[m] # "none"
      /\ \A k \in Messages \ {m} : sending.cmd[k] = led[t].cmd[k]
  <2>0. led[t] \in Record /\ m \in Messages /\ x \in Unsent
    BY <1>3, <1>4, <1>u
  <2>1. /\ sending \in Record /\ sending.status = led[t].status
        /\ sending.event = led[t].event /\ sending.asked = led[t].asked
    BY <1>3, <1>4, <1>u, ResolvingFields
  <2>2. sending.ask[a] = "resolving" /\ sending.cmd[m] # "none"
    BY <1>3, <1>4, <1>u, ResolvingFields
  <2>3. \A b \in Asks \ {a} : sending.ask[b] = led[t].ask[b]
    BY <2>0, ResolvingFields
  <2>4. \A k \in Messages \ {m} : sending.cmd[k] = led[t].cmd[k]
    BY <2>0, ResolvingFields
  <2> QED  BY <2>1, <2>2, <2>3, <2>4
<1>7. /\ pending \in Record /\ pending.status = led[t].status /\ pending.event = led[t].event
      /\ pending.asked = led[t].asked
      /\ pending.ask[a] = "resolving" /\ \A b \in Asks \ {a} : pending.ask[b] = led[t].ask[b]
      /\ pending.cmd[m] # "none"
      /\ \A k \in Messages \ {m} : pending.cmd[k] = led[t].cmd[k]
  <2>0. led[t] \in Record /\ m \in Messages /\ y \in Unsent
    BY <1>3, <1>4, <1>u
  <2>1. /\ pending \in Record /\ pending.status = led[t].status
        /\ pending.event = led[t].event /\ pending.asked = led[t].asked
    BY <1>3, <1>4, <1>u, ResolvingFields
  <2>2. pending.ask[a] = "resolving" /\ pending.cmd[m] # "none"
    BY <1>3, <1>4, <1>u, ResolvingFields
  <2>3. \A b \in Asks \ {a} : pending.ask[b] = led[t].ask[b]
    BY <2>0, ResolvingFields
  <2>4. \A k \in Messages \ {m} : pending.cmd[k] = led[t].cmd[k]
    BY <2>0, ResolvingFields
  <2> QED  BY <2>1, <2>2, <2>3, <2>4
<1> HIDE DEF sending, pending
<1> DEFINE q == NotAsked(pending, a)
           p == Refreshed(q)
<1>8. /\ q \in Record /\ q.status = pending.status /\ q.ask = pending.ask
      /\ q.cmd = pending.cmd /\ q.event = pending.event
      /\ q.asked[a] # "queued" /\ \A b \in Asks \ {a} : q.asked[b] = pending.asked[b]
  BY <1>7, NotAskedFields
<1> HIDE DEF q
<1>9. /\ p \in Record /\ p.status = q.status /\ p.ask = q.ask /\ p.cmd = q.cmd
      /\ p.event = q.event /\ p.asked = q.asked
  BY <1>8, RefreshedFields
<1> HIDE DEF p
<1>10. /\ led' \in [Tasks -> Record] /\ \A u \in Tasks \ {t} : led'[u] = led[u]
       /\ s.status = led[t].status /\ s.event = led[t].event
       /\ s.ask[a] = "resolving" /\ \A b \in Asks \ {a} : s.ask[b] = led[t].ask[b]
       /\ s.cmd[m] # "none" /\ \A k \in Messages \ {m} : s.cmd[k] = led[t].cmd[k]
       /\ \A b \in Asks \ {a} : s.asked[b] = led[t].asked[b]
  <2>1. CASE run[t]
    <3>1. /\ led' \in [Tasks -> Record] /\ s = sending /\ \A u \in Tasks \ {t} : led'[u] = led[u]
      BY <1>t, <1>5, <1>6, <2>1, RecordWritten
    <3> QED  BY <1>6, <3>1
  <2>2. CASE ~run[t]
    <3>0. led' = [led EXCEPT ![t] = p]
      BY <1>5, <2>2 DEF p, q
    <3>1. /\ led' \in [Tasks -> Record] /\ s = p /\ \A u \in Tasks \ {t} : led'[u] = led[u]
      BY <1>t, <1>9, <3>0, RecordWritten
    <3> QED  BY <1>7, <1>8, <1>9, <3>1
  <2> QED  BY <2>1, <2>2
<1>11. \/ call' = Idle
       \/ run[t] /\ call' = [pc |-> "reply", task |-> t, msg |-> m, act |-> act]
  BY <1>1, <1>5 DEF Waiting
<1>12. busy.task \notin Tasks /\ busy.at = "free"
  BY <1>t, <1>1, GatewayFields
<1> HIDE DEF s
<1>13. TypeOK'
  <2>1. call' \in Call
    BY <1>3, <1>11, MessageFacts DEF Idle, Call, Acts
  <2> QED  BY <1>t, <1>1, <1>10, <2>1 DEF TypeOK
<1>14. Heard'
  <2>1. HeardIsRecorded'
    <3>1. ASSUME NEW k \in Messages
          PROVE  heard[t][k] <= 1 /\ (heard[t][k] > 0 => s.cmd[k] \in {"sent", "failed"})
      BY <1>3, <1>4, <1>10 DEF TaskInv, Heard, HeardIsRecorded
    <3> QED  BY <1>1, <1>10, <3>1 DEF TaskInv, Heard, HeardIsRecorded, s
  <2>2. ReplayIsUnheard'
    BY <1>1, <1>3, <1>10, MessageFacts DEF TaskInv, Heard, ReplayIsUnheard, s
  <2>3. CallIsUnheard'
    <3>1. CASE call' = Idle
      BY <3>1 DEF CallIsUnheard, Idle
    <3>2. CASE call' # Idle
      <4>1. ~Early(t)
        BY <1>11, <3>2 DEF TaskInv, Course, NoRunYet
      <4>2. led'[t].status \notin {"none", "queued"}
        BY <1>4, <1>10 DEF Live, s
      <4> QED  BY <1>1, <1>3, <1>4, <1>11, <3>2, <4>1, <4>2 DEF CallIsUnheard, Early
    <3> QED  BY <3>1, <3>2
  <2>4. GrantIsUnheard'
    BY <1>1, <1>10 DEF TaskInv, Heard, GrantIsUnheard, s
  <2> QED  BY <2>1, <2>2, <2>3, <2>4 DEF Heard
<1>15. Course'
  <2>1. NoRunYet'
    <3>1. ~Early(t) /\ led'[t].status \notin {"none", "queued"}
      BY <1>4, <1>10 DEF TaskInv, Course, NoRunYet, Fresh, Live, s
    <3> QED  BY <1>1, <1>10, <3>1 DEF TaskInv, Course, NoRunYet, Early
  <2>2. AskComesOnce'
    <3>1. ASSUME NEW b \in Asks, s.event[b] = "none"
          PROVE  Untouched(s, b)
      <4>1. b # a /\ Untouched(led[t], b)
        BY <1>4, <1>10, <3>1 DEF TaskInv, Course, AskComesOnce
      <4> QED  BY <1>3, <1>10, <4>1 DEF Untouched
    <3> QED  BY <1>1, <1>10, <3>1 DEF TaskInv, Course, AskComesOnce, s
  <2>3. LastIsReduced'
    BY <1>1, <1>10 DEF TaskInv, Course, LastIsReduced, s
  <2>4. BusyWith'
    BY <1>1, <1>12 DEF BusyWith
  <2>5. OneAtATime'
    BY <1>1, <1>10, <1>12 DEF TaskInv, Course, OneAtATime, Between, s
  <2>6. NothingIsUp'
    BY <1>1 DEF NothingIsUp
  <2> QED  BY <2>1, <2>2, <2>3, <2>4, <2>5, <2>6 DEF Course
<1>16. Closed'
  <2>1. QueuedIsOpen'
    BY <1>1, <1>10 DEF TaskInv, Closed, QueuedIsOpen, CutShort, Open, s
  <2>2. EndedIsClosed'
    <3>1. ~HasEnded(led'[t])
      BY <1>4, <1>10 DEF HasEnded, Live, Ended, s
    <3> QED  BY <1>1, <1>10, <3>1 DEF TaskInv, Closed, EndedIsClosed, CutShort
  <2>3. DownIsRecoverable'
    BY <1>1 DEF DownIsRecoverable
  <2> QED  BY <2>1, <2>2, <2>3 DEF Closed
<1> QED  BY <1>13, <1>14, <1>15, <1>16 DEF TaskInv

\* The user cancels a task.
LEMMA TaskCancelStep ==
    ASSUME TaskInv, NEW t \in Tasks, TaskCancel(t)
    PROVE  TaskInv'
<1>t. TypeOK
  BY DEF TaskInv
<1>1. /\ busy = Free /\ up /\ call = Idle /\ led[t].status \in {"queued"} \cup Live
      /\ UNCHANGED <<job, todo, run, stopped, outbox, worker, heard, standing, up, faults, crashes,
                     leaked, cut>>
  BY DEF TaskCancel, Calling, Running
<1>2. CASE led[t].status = "queued"
  <2>1. EndRow(t, "cancelled") /\ call' = call
    BY <1>2 DEF TaskCancel
  <2>2. TypeOK'
    BY <1>t, <1>1, <2>1, EndRowTypes DEF TypeOK, Ended
  <2>3. MovesOn(t)
    BY <1>1 DEF MovesOn
  <2> QED  BY <1>1, <2>1, <2>2, <2>3, Ending DEF Ended
<1>3. CASE led[t].status \in Live
  <2>1. /\ led' \in [Tasks -> Record] /\ led'[t].status = "cancelling"
        /\ led'[t].ask = led[t].ask /\ led'[t].asked = led[t].asked
        /\ led'[t].cmd = led[t].cmd /\ led'[t].event = led[t].event
        /\ \A u \in Tasks \ {t} : led'[u] = led[u]
    BY <1>t, <1>3, StatusWritten DEF TaskCancel, Live
  <2>2. /\ busy' = busy
        /\ \/ call' = Idle
           \/ run[t] /\ call' = [pc |-> "cancel", task |-> t, msg |-> Steer, act |-> "deny"]
    BY <1>1, <1>3 DEF TaskCancel, Live, Waiting
  <2>3. busy.task \notin Tasks /\ busy.at = "free"
    BY <1>t, <1>1, GatewayFields
  <2>4. TypeOK'
    <3>1. call' \in Call
      BY <2>2, MessageFacts DEF Idle, Call, Acts
    <3> QED  BY <1>t, <1>1, <2>1, <2>2, <3>1 DEF TypeOK
  <2>5. Heard'
    <3>1. HeardIsRecorded' /\ ReplayIsUnheard' /\ GrantIsUnheard'
      BY <1>1, <2>1 DEF TaskInv, Heard, HeardIsRecorded, ReplayIsUnheard, GrantIsUnheard
    <3>2. CallIsUnheard'
      <4>1. run[t] => ~Early(t)
        BY DEF TaskInv, Course, NoRunYet
      <4> QED  BY <1>1, <2>1, <2>2, <4>1 DEF CallIsUnheard, Idle, Early
    <3> QED  BY <3>1, <3>2 DEF Heard
  <2>6. Course'
    <3>1. NoRunYet'
      BY <1>1, <2>1 DEF TaskInv, Course, NoRunYet, Early, Fresh
    <3>2. AskComesOnce' /\ LastIsReduced'
      BY <1>1, <2>1, <2>2 DEF TaskInv, Course, AskComesOnce, LastIsReduced, Untouched
    <3>3. BusyWith'
      BY <1>1, <2>2, <2>3 DEF BusyWith
    <3>4. OneAtATime'
      BY <1>1, <2>1, <2>2, <2>3 DEF TaskInv, Course, OneAtATime, Between
    <3>5. NothingIsUp'
      BY <1>1 DEF NothingIsUp
    <3> QED  BY <3>1, <3>2, <3>3, <3>4, <3>5 DEF Course
  <2>7. Closed'
    <3>1. QueuedIsOpen'
      BY <1>1, <2>1 DEF TaskInv, Closed, QueuedIsOpen, CutShort
    <3>2. EndedIsClosed'
      BY <1>1, <2>1, <2>2 DEF TaskInv, Closed, EndedIsClosed, CutShort, OpenAsks, HasEnded, Ended
    <3>3. DownIsRecoverable'
      BY <1>1 DEF DownIsRecoverable
    <3> QED  BY <3>1, <3>2, <3>3 DEF Closed
  <2> QED  BY <2>4, <2>5, <2>6, <2>7 DEF TaskInv
<1> QED  BY <1>1, <1>2, <1>3

-----------------------------------------------------------------------------
(* The process dies, and a later one starts.                                 *)

\* The process dies: runs and calls are gone, the ledger stays.
LEMMA CrashStep ==
    ASSUME TaskInv, Crash
    PROVE  TaskInv'
<1> DEFINE ends == {u \in Tasks : busy.task = u /\ busy.at = "rest"
                                  /\ led[u].event[Final] # "unprocessed"}
           asking == {u \in Tasks :
                        \E a \in Asks : led[u].event[a] = "unprocessed" /\ busy.task # u}
<1>t. TypeOK
  BY DEF TaskInv
<1>1. /\ up /\ up' = FALSE /\ call' = Idle /\ busy' = Free /\ led' = led /\ heard' = heard
      /\ \A t \in Tasks : job'[t] = "none" /\ todo'[t] = {} /\ ~run'[t] /\ outbox'[t] = <<>>
  BY DEF Crash
<1>2. cut' = cut \cup {<<t, "end">> : t \in ends} \cup {<<t, "ask">> : t \in asking}
  BY DEF Crash
<1>3. /\ \A t \in Tasks : CutShort(t) => CutShort(t)'
      /\ \A t \in ends \cup asking : CutShort(t)'
  BY <1>2 DEF CutShort
<1>4. busy'.task \notin Tasks /\ busy'.at = "free"
  BY <1>1, NamesAssumption DEF Free
<1>5. TypeOK'
  <2>1. /\ job' \in [Tasks -> {"none", "resource"} \cup Holding]
        /\ todo' \in [Tasks -> SUBSET Messages]
        /\ run' \in [Tasks -> BOOLEAN] /\ stopped' \in [Tasks -> BOOLEAN]
        /\ worker' \in [Tasks -> BOOLEAN] /\ standing' \in BOOLEAN /\ up' \in BOOLEAN
    BY DEF Crash
  <2>2. outbox' \in [Tasks -> Seq(Asks \cup {Final})]
    <3>1. <<>> \in Seq(Asks \cup {Final})
      OBVIOUS
    <3> QED  BY <3>1 DEF Crash
  <2>3. call' \in Call
    BY <1>1, MessageFacts DEF Idle, Call, Acts
  <2>4. busy' \in [task : Tasks \cup {NoTask}, at : {"free", "ask", "row", "rest"},
                   of : Asks \cup {Final}]
    BY <1>1 DEF Free
  <2>5. cut' \subseteq Tasks \X {"end", "ask"}
    BY <1>t, <1>2 DEF TypeOK
  <2>6. crashes' \in 0..MaxCrashes /\ leaked' \subseteq Tasks /\ faults' = faults
    BY <1>t, BoundsAssumption, GatewayFields DEF Crash
  <2> QED  BY <1>t, <1>1, <2>1, <2>2, <2>3, <2>4, <2>5, <2>6 DEF TypeOK
<1>6. Heard'
  <2>1. HeardIsRecorded' /\ ReplayIsUnheard' /\ GrantIsUnheard'
    BY <1>1 DEF TaskInv, Heard, HeardIsRecorded, ReplayIsUnheard, GrantIsUnheard
  <2>2. CallIsUnheard'
    BY <1>1 DEF CallIsUnheard, Idle
  <2> QED  BY <2>1, <2>2 DEF Heard
<1>7. Course'
  <2>1. NoRunYet'
    BY <1>1 DEF TaskInv, Course, NoRunYet, Early, WaitJobs, Fresh
  <2>2. AskComesOnce'
    BY <1>1 DEF TaskInv, Course, AskComesOnce, Untouched
  <2>3. BusyWith'
    BY <1>1, <1>4 DEF BusyWith
  <2>4. OneAtATime'
    BY <1>1, <1>4 DEF OneAtATime, Between
  <2>5. LastIsReduced'
    BY <1>1 DEF LastIsReduced
  <2>6. NothingIsUp'
    BY <1>1 DEF NothingIsUp
  <2> QED  BY <2>1, <2>2, <2>3, <2>4, <2>5, <2>6 DEF Course
<1>8. Closed'
  <2>1. QueuedIsOpen'
    BY <1>1, <1>3 DEF TaskInv, Closed, QueuedIsOpen
  <2>2. EndedIsClosed'
    <3> SUFFICES ASSUME NEW t \in Tasks, HasEnded(led[t])
                 PROVE  OpenAsks(led[t]) = {} \/ CutShort(t)' \/ led[t].event[Final] = "unprocessed"
      BY <1>1 DEF EndedIsClosed
    <3>1. CASE busy.task # t
      BY <1>1, <1>3, <3>1 DEF TaskInv, Closed, EndedIsClosed
    <3>2. CASE busy.task = t
      <4>1. busy # Free /\ busy.at \in {"free", "ask", "row", "rest"}
        BY <1>t, <3>2, GatewayFields DEF TypeOK
      <4>2. busy.at = "rest"
        BY <3>2, <4>1 DEF TaskInv, Course, BusyWith, HasEnded, Ended, Live
      <4> QED  BY <1>3, <3>2, <4>2
    <3> QED  BY <3>1, <3>2
  <2>3. DownIsRecoverable'
    <3> SUFFICES ASSUME NEW t \in Tasks, NEW a \in Asks, led[t].event[a] = "unprocessed"
                 PROVE  CutShort(t)' \/ (led[t].status \in Live /\ led[t].ask[a] = "none")
      BY <1>1 DEF DownIsRecoverable
    <3>1. CASE busy.task # t
      BY <1>3, <3>1
    <3>2. CASE busy.task = t
      <4>1. busy # Free /\ busy.at \in {"free", "ask", "row", "rest"}
        BY <1>t, <3>2, GatewayFields DEF TypeOK
      <4>2. busy.at \in {"ask", "row"} => Between(t)
        BY <3>2 DEF TaskInv, Course, BusyWith, Between
      <4>3. CASE busy.at = "rest"
        BY <1>3, <3>2, <4>3 DEF TaskInv, Course, OneAtATime
      <4>4. CASE busy.at # "rest"
        <5>1. busy.at = "ask" /\ busy.of = a
          BY <4>1, <4>2, <4>4 DEF TaskInv, Course, OneAtATime, BusyWith
        <5> QED  BY <3>2, <5>1 DEF TaskInv, Course, BusyWith, Untouched
      <4> QED  BY <4>3, <4>4
    <3> QED  BY <3>1, <3>2
  <2> QED  BY <2>1, <2>2, <2>3 DEF Closed
<1> QED  BY <1>5, <1>6, <1>7, <1>8 DEF TaskInv

\* The process starts again and recovers every task.
LEMMA RestartStep ==
    ASSUME TaskInv, Restart
    PROVE  TaskInv'
<1>t. TypeOK
  BY DEF TaskInv
<1>1. /\ ~up /\ up' = TRUE
      /\ UNCHANGED <<todo, run, stopped, outbox, worker, heard, call, standing, busy, faults,
                     crashes, leaked, cut>>
  BY DEF Restart
<1>2. PICK status \in [Tasks -> {"completed", "failed"}] :
         led' = [t \in Tasks |-> Recovered(led[t], status[t])]
  BY DEF Restart
<1>3. /\ call = Idle /\ busy = Free
      /\ \A t \in Tasks : job[t] = "none" /\ todo[t] = {} /\ ~run[t] /\ outbox[t] = <<>>
  BY <1>1 DEF TaskInv, Course, NothingIsUp
<1>4. \A t \in Tasks : job'[t] = IF led[t].status = "queued" THEN "resource" ELSE "none"
  BY DEF Restart
<1>5. busy.task \notin Tasks /\ busy.at = "free"
  BY <1>t, <1>3, GatewayFields
<1>6. ASSUME NEW t \in Tasks
      PROVE  LET r == led[t]
                 s == led'[t] IN
             /\ s \in Record /\ Sends(r, s)
             /\ s.status \in {"none", "queued"} => r.status \in {"none", "queued"}
             /\ r.event[Final] # "unprocessed" /\ r.status \notin Live => s.status = r.status
             /\ s.event[Final] # "unprocessed"
             /\ r.event[Final] = "none" => s.event[Final] = "none"
             /\ \A a \in Asks :
                   /\ s.event[a] # "unprocessed"
                   /\ s.event[a] = "none" <=> r.event[a] = "none"
                   /\ s.event[a] = "none" /\ Untouched(r, a) => Untouched(s, a)
             /\ (\A a \in Asks : /\ r.asked[a] = "queued" => r.ask[a] \in Open
                                 /\ r.event[a] = "unprocessed" => r.ask[a] = "none")
                   => \A a \in Asks : s.asked[a] = "queued" => s.ask[a] \in Open
             /\ r.event[Final] = "unprocessed" \/ r.status \in Live => OpenAsks(s) = {}
             /\ OpenAsks(r) = {} /\ (\A a \in Asks : r.event[a] # "unprocessed")
                   => OpenAsks(s) = {}
  <2> DEFINE r == led[t]
             how == status[t]
  <2>1. r \in Record /\ how \in {"completed", "failed"} /\ led'[t] = Recovered(r, how)
    BY <1>t, <1>2, GatewayFields
  <2>2. r.status \in {"none", "queued"} \cup Live \cup Ended
    BY <2>1 DEF Record
  <2> HIDE DEF r, how
  <2> DEFINE s == Recovered(r, how)
  <2>3. /\ s \in Record /\ Sends(r, s)
        /\ HasEnded(r) => s.status = r.status
        /\ r.status \in Live => HasEnded(s)
        /\ r.event[Final] # "unprocessed" /\ r.status \notin Live => s.status = r.status
    BY <2>1, RecoveredFields
  <2>4. /\ s.event[Final] # "unprocessed" /\ (r.event[Final] = "none" => s.event[Final] = "none")
        /\ \A a \in Asks :
              /\ s.event[a] = IF r.event[a] = "unprocessed" THEN "processed" ELSE r.event[a]
              /\ s.event[a] = "none" /\ Untouched(r, a) => Untouched(s, a)
    BY <2>1, RecoveredFields
  <2>5. (\A a \in Asks : /\ r.asked[a] = "queued" => r.ask[a] \in Open
                         /\ r.event[a] = "unprocessed" => r.ask[a] = "none")
           => \A a \in Asks : s.asked[a] = "queued" => s.ask[a] \in Open
    BY <2>1, RecoveredFields
  <2>6. /\ r.event[Final] = "unprocessed" \/ r.status \in Live => OpenAsks(s) = {}
        /\ OpenAsks(r) = {} /\ (\A a \in Asks : r.event[a] # "unprocessed")
              => OpenAsks(s) = {}
    BY <2>1, RecoveredFields
  <2> HIDE DEF s
  <2>7. s.status \in {"none", "queued"} => r.status \in {"none", "queued"}
    BY <2>2, <2>3 DEF HasEnded, Ended
  <2>8. \A a \in Asks : s.event[a] # "unprocessed" /\ (s.event[a] = "none" <=> r.event[a] = "none")
    BY <2>4
  <2>9. led'[t] = s
    BY <2>1 DEF s
  <2> QED  BY <2>3, <2>4, <2>5, <2>6, <2>7, <2>8, <2>9 DEF r
<1>7. TypeOK'
  <2>1. led' \in [Tasks -> Record]
    BY <1>2, <1>6
  <2>2. job' \in [Tasks -> {"none", "resource"} \cup Holding]
    BY DEF Restart
  <2> QED  BY <1>t, <1>1, <2>1, <2>2 DEF TypeOK
<1>8. Heard'
  <2>1. HeardIsRecorded'
    BY <1>1, <1>6 DEF TaskInv, Heard, HeardIsRecorded, Sends
  <2>2. ReplayIsUnheard' /\ CallIsUnheard'
    BY <1>1, <1>3 DEF ReplayIsUnheard, CallIsUnheard, Idle
  <2>3. GrantIsUnheard'
    BY <1>6 DEF GrantIsUnheard
  <2> QED  BY <2>1, <2>2, <2>3 DEF Heard
<1>9. Course'
  <2>1. NoRunYet'
    <3> SUFFICES ASSUME NEW t \in Tasks, led'[t].status \in {"none", "queued"} \/ Early(t)'
                 PROVE  Fresh(led'[t])
      BY <1>1, <1>3, <1>4 DEF NoRunYet, WaitJobs
    <3>1. led[t].status \in {"none", "queued"}
      BY <1>4, <1>6 DEF Early
    <3>2. Fresh(led[t])
      BY <3>1 DEF TaskInv, Course, NoRunYet
    <3>3. led'[t].event[Final] = "none" /\ \A a \in Asks : led'[t].event[a] = "none"
      BY <1>6, <3>2 DEF Fresh
    <3>4. \A a \in Asks : Untouched(led[t], a)
      BY <3>2, MessageFacts DEF Fresh, Untouched, Reply
    <3>5. \A a \in Asks : led'[t].ask[a] = "none" /\ led'[t].asked[a] = "none"
      BY <1>6, <3>3, <3>4 DEF Untouched
    <3>6. ASSUME NEW a \in Asks, NEW n \in 0..MaxReplies
          PROVE  led'[t].cmd[<<a, n>>] = "none"
      <4>1. <<a, n>> \in Messages
        BY DEF Messages
      <4> QED  BY <1>6, <3>2, <4>1 DEF Fresh, Sends
    <3> QED  BY <3>3, <3>5, <3>6 DEF Fresh
  <2>2. AskComesOnce'
    BY <1>1, <1>3, <1>6 DEF TaskInv, Course, AskComesOnce
  <2>3. BusyWith'
    BY <1>1, <1>3, <1>5 DEF BusyWith
  <2>4. OneAtATime' /\ LastIsReduced'
    BY <1>6 DEF OneAtATime, LastIsReduced
  <2>5. NothingIsUp'
    BY <1>1 DEF NothingIsUp
  <2> QED  BY <2>1, <2>2, <2>3, <2>4, <2>5 DEF Course
<1>10. Closed'
  <2>0. \A t \in Tasks : CutShort(t)' <=> CutShort(t)
    BY <1>1 DEF CutShort
  <2>1. QueuedIsOpen'
    <3> SUFFICES ASSUME NEW t \in Tasks, NEW a \in Asks, led'[t].asked[a] = "queued",
                        ~CutShort(t)
                 PROVE  led'[t].ask[a] \in Open
      BY <2>0 DEF QueuedIsOpen
    <3>1. \A b \in Asks : /\ led[t].asked[b] = "queued" => led[t].ask[b] \in Open
                          /\ led[t].event[b] = "unprocessed" => led[t].ask[b] = "none"
      BY <1>1 DEF TaskInv, Closed, QueuedIsOpen, DownIsRecoverable
    <3> QED  BY <1>6, <3>1
  <2>2. EndedIsClosed'
    <3> SUFFICES ASSUME NEW t \in Tasks, HasEnded(led'[t]), ~CutShort(t)
                 PROVE  OpenAsks(led'[t]) = {}
      BY <2>0 DEF EndedIsClosed
    <3>1. CASE led[t].event[Final] = "unprocessed" \/ led[t].status \in Live
      BY <1>6, <3>1
    <3>2. CASE led[t].event[Final] # "unprocessed" /\ led[t].status \notin Live
      <4>1. led'[t].status = led[t].status
        BY <1>6, <3>2
      <4>2. HasEnded(led[t])
        BY <4>1 DEF HasEnded
      <4>3. OpenAsks(led[t]) = {}
        BY <1>5, <3>2, <4>2 DEF TaskInv, Closed, EndedIsClosed
      <4>4. \A a \in Asks : led[t].event[a] # "unprocessed"
        BY <1>1, <3>2 DEF TaskInv, Closed, DownIsRecoverable
      <4> QED  BY <1>6, <4>3, <4>4
    <3> QED  BY <3>1, <3>2
  <2>3. DownIsRecoverable'
    BY <1>1 DEF DownIsRecoverable
  <2> QED  BY <2>1, <2>2, <2>3 DEF Closed
<1> QED  BY <1>7, <1>8, <1>9, <1>10 DEF TaskInv

-----------------------------------------------------------------------------
(* The invariant, and what it says.                                          *)

\* Nothing was started, asked or sent at first.
LEMMA InitHolds == Init => TaskInv
<1> SUFFICES ASSUME Init PROVE TaskInv
  OBVIOUS
<1>1. \A t \in Tasks : led[t] = NoRecord /\ heard[t] = [m \in Messages |-> 0]
  BY DEF Init
<1>2. NoRecord \in Record
  BY DEF NoRecord, Record, Marks
<1>3. \A t \in Tasks : led[t].status = "none" /\ Fresh(led[t])
  BY <1>1, MessageFacts DEF NoRecord, Fresh, Reply
<1>4. \A t \in Tasks, a \in Asks :
         led[t].event[a] = "none" /\ led[t].asked[a] = "none" /\ Untouched(led[t], a)
  BY <1>1, MessageFacts DEF NoRecord, Untouched
<1>5. /\ call = Idle /\ busy = Free /\ busy.task \notin Tasks /\ busy.at = "free" /\ up
      /\ \A t \in Tasks : job[t] = "none" /\ todo[t] = {} /\ ~run[t] /\ outbox[t] = <<>>
  BY NamesAssumption DEF Init, Free
<1>6. TypeOK
  <2>1. led \in [Tasks -> Record] /\ heard \in [Tasks -> [Messages -> Nat]]
    BY <1>1, <1>2 DEF Init
  <2>2. /\ job \in [Tasks -> {"none", "resource"} \cup Holding]
        /\ todo \in [Tasks -> SUBSET Messages] /\ run \in [Tasks -> BOOLEAN]
        /\ stopped \in [Tasks -> BOOLEAN] /\ worker \in [Tasks -> BOOLEAN]
    BY DEF Init
  <2>3. outbox \in [Tasks -> Seq(Asks \cup {Final})]
    <3>1. <<>> \in Seq(Asks \cup {Final})
      OBVIOUS
    <3> QED  BY <3>1 DEF Init
  <2>4. call \in Call
    BY <1>5, MessageFacts DEF Idle, Call, Acts
  <2>5. busy \in [task : Tasks \cup {NoTask}, at : {"free", "ask", "row", "rest"},
                  of : Asks \cup {Final}]
    BY <1>5 DEF Free
  <2>6. standing \in BOOLEAN /\ up \in BOOLEAN
    BY DEF Init
  <2>7. faults \in 0..MaxFaults /\ crashes \in 0..MaxCrashes
    BY BoundsAssumption DEF Init
  <2>8. leaked \subseteq Tasks /\ cut \subseteq Tasks \X {"end", "ask"}
    <3>1. leaked = {} /\ cut = {}
      BY DEF Init
    <3> QED  BY <3>1
  <2> QED  BY <2>1, <2>2, <2>3, <2>4, <2>5, <2>6, <2>7, <2>8 DEF TypeOK
<1>7. Heard
  <2>1. HeardIsRecorded
    BY <1>1 DEF HeardIsRecorded
  <2>2. ReplayIsUnheard /\ CallIsUnheard /\ GrantIsUnheard
    BY <1>4, <1>5 DEF ReplayIsUnheard, CallIsUnheard, GrantIsUnheard, Idle
  <2> QED  BY <2>1, <2>2 DEF Heard
<1>8. Course
  <2>1. NoRunYet /\ AskComesOnce /\ BusyWith /\ OneAtATime /\ NothingIsUp
    BY <1>3, <1>4, <1>5 DEF NoRunYet, WaitJobs, AskComesOnce, BusyWith, OneAtATime, NothingIsUp
  <2>2. LastIsReduced
    BY <1>3 DEF LastIsReduced, Fresh
  <2> QED  BY <2>1, <2>2 DEF Course
<1>9. Closed
  <2>1. QueuedIsOpen /\ DownIsRecoverable
    BY <1>4 DEF QueuedIsOpen, DownIsRecoverable
  <2>2. EndedIsClosed
    BY <1>3 DEF EndedIsClosed, HasEnded, Ended
  <2> QED  BY <2>1, <2>2 DEF Closed
<1> QED  BY <1>6, <1>7, <1>8, <1>9 DEF TaskInv

\* A step that changes nothing keeps the invariant.
LEMMA StutterStep ==
    ASSUME TaskInv, UNCHANGED vars
    PROVE  TaskInv'
<1> USE DEF vars, volatile
<1>1. TypeOK'
  BY DEF TaskInv, TypeOK
<1>2. Heard'
  BY DEF TaskInv, Heard, HeardIsRecorded, ReplayIsUnheard, CallIsUnheard, GrantIsUnheard, Early
<1>3. Course'
  <2>1. NoRunYet' /\ AskComesOnce' /\ LastIsReduced' /\ NothingIsUp'
    BY DEF TaskInv, Course, NoRunYet, AskComesOnce, LastIsReduced, NothingIsUp, Early, Fresh,
           Untouched
  <2>2. BusyWith' /\ OneAtATime'
    BY DEF TaskInv, Course, BusyWith, OneAtATime, Between, Untouched, HasEnded
  <2> QED  BY <2>1, <2>2 DEF Course
<1>4. Closed'
  BY DEF TaskInv, Closed, QueuedIsOpen, EndedIsClosed, DownIsRecoverable, CutShort, OpenAsks,
         HasEnded
<1> QED  BY <1>1, <1>2, <1>3, <1>4 DEF TaskInv

\* Every step keeps the invariant.
LEMMA NextKeepsInvariant == TaskInv /\ [Next]_vars => TaskInv'
<1> SUFFICES ASSUME TaskInv, [Next]_vars PROVE TaskInv'
  OBVIOUS
<1>1. ASSUME NEW t \in Tasks, Dispatch(t) \/ DispatchFault(t)
      PROVE  TaskInv'
  <2>1. CASE \/ TakeWorkspace(t) \/ TakeSlot(t) \/ OpenProject(t) \/ StartFails(t)
             \/ ReplayDone(t) \/ DispatchCancelFails(t) \/ StreamEnds(t) \/ CloseRun(t)
    BY <2>1, MovesStep
  <2>2. CASE BeginRun(t) \/ StartWorker(t) \/ ReplayNext(t) \/ ReplaySent(t)
    BY <2>2, BeginRunStep, StartWorkerStep, ReplayNextStep, ReplaySentStep
  <2>3. CASE DispatchCancelled(t) \/ TakeEvent(t) \/ ReduceDone(t) \/ ReduceAsk(t)
    BY <2>3, DispatchCancelledStep, TakeEventStep, ReduceDoneStep, ReduceAskStep
  <2>4. CASE AutoReplied(t) \/ FailGuarded(t) \/ FinishEnding(t)
    BY <2>4, AutoRepliedStep, FailGuardedStep, FinishEndingStep
  <2> QED  BY <1>1, <2>1, <2>2, <2>3, <2>4 DEF Dispatch, DispatchFault
<1>2. ASSUME NEW t \in Tasks,
             \/ WorkerAsks(t) \/ WorkerFinishes(t)
             \/ TaskStart(t) \/ TaskSend(t) \/ Resolve(t) \/ TaskCancel(t)
      PROVE  TaskInv'
  BY <1>2, WorkerAsksStep, WorkerFinishesStep, TaskStartStep, TaskSendStep, ResolveStep,
     TaskCancelStep
<1>3. CASE CallReturns \/ CancelFails \/ Revoke \/ Crash \/ Restart
  BY <1>3, SteerSentStep, ResolvedStep, CancelAckedStep, CancelFailsStep, RevokeStep, CrashStep,
     RestartStep DEF CallReturns
<1>4. CASE UNCHANGED vars
  BY <1>4, StutterStep
<1> QED  BY <1>1, <1>2, <1>3, <1>4 DEF Next

\* The inductive invariant holds of every run of the gateway.
THEOREM TaskInvariance == Spec => []TaskInv
<1>1. Init => TaskInv
  BY InitHolds
<1>2. TaskInv /\ [Next]_vars => TaskInv'
  BY NextKeepsInvariant
<1> QED  BY <1>1, <1>2, PTL DEF Spec

\* A message reaches the worker once, whether the replay, the direct send or the standing
\* grant sends it, through errors, timeouts, crashes and restarts (_deliver_provider_command,
\* _send_task and _resolve_interaction).
THEOREM MessagesAreHeardOnce == Spec => []HeardOnce
<1>1. TaskInv => HeardOnce
  BY DEF TaskInv, Heard, HeardIsRecorded, HeardOnce
<1> QED  BY <1>1, TaskInvariance, PTL

\* Nobody is asked about a task that is over, unless a crash cut its ending or one of its
\* asks short.
THEOREM NobodyIsAskedInVain == Spec => []NoMootAsk
<1>1. TaskInv => NoMootAsk
  BY DEF TaskInv, Closed, QueuedIsOpen, EndedIsClosed, CutShort, OpenAsks, NoMootAsk
<1> QED  BY <1>1, TaskInvariance, PTL

\* The types, in every reachable state.
THEOREM TaskTypes == Spec => []TypeOK
<1>1. TaskInv => TypeOK
  BY DEF TaskInv
<1> QED  BY <1>1, TaskInvariance, PTL

\* What a step does to how a task ended.
StatusKept(t) == led'[t].status = led[t].status

\* No step of a task or of its user moves the status of a task that has ended.
LEMMA LedgerSteps ==
    ASSUME TaskInv, NEW t \in Tasks, HasEnded(led[t]), NEW u \in Tasks,
           \/ Dispatch(u) \/ DispatchFault(u) \/ WorkerAsks(u) \/ WorkerFinishes(u)
           \/ TaskStart(u) \/ TaskSend(u) \/ Resolve(u) \/ TaskCancel(u)
    PROVE  StatusKept(t)
<1> USE DEF StatusKept
<1>t. TypeOK /\ led[u] \in Record
  BY GatewayFields DEF TaskInv
<1>0. led[t].status \notin Live \cup {"none", "queued"}
  BY DEF HasEnded, Live, Ended
<1>e. ASSUME NEW x \in Ended, EndRow(u, x), t # u
      PROVE  led'[t] = led[t]
  BY <1>t, <1>e, StatusWritten DEF EndRow
<1>1. CASE \/ TakeWorkspace(u) \/ TakeSlot(u) \/ OpenProject(u) \/ StartFails(u)
           \/ ReplayDone(u) \/ DispatchCancelFails(u) \/ StreamEnds(u) \/ CloseRun(u)
           \/ StartWorker(u) \/ WorkerAsks(u) \/ WorkerFinishes(u)
  BY <1>1 DEF TakeWorkspace, TakeSlot, OpenProject, StartFails, ReplayDone, DispatchCancelFails,
              StreamEnds, CloseRun, StartWorker, WorkerAsks, WorkerFinishes
<1>2. CASE BeginRun(u)
  <2>1. CASE HasEnded(led[u])
    BY <1>2, <2>1 DEF BeginRun
  <2>2. CASE ~HasEnded(led[u])
    <3>1. \A v \in Tasks \ {u} : led'[v] = led[v]
      BY <1>t, <1>2, <2>2, StatusWritten DEF BeginRun, Live
    <3> QED  BY <2>2, <3>1
  <2> QED  BY <2>1, <2>2
<1>3. CASE ReplayNext(u)
  <2>1. PICK m \in todo[u] :
           led' = led \/ (led[u].cmd[m] \in Unsent /\ led' = [led EXCEPT ![u].cmd[m] = "sending"])
    BY <1>3 DEF ReplayNext
  <2>2. m \in Messages
    BY <1>t, GatewayFields
  <2>3. CASE led' = [led EXCEPT ![u].cmd[m] = "sending"]
    <3>1. led'[u].status = led[u].status /\ \A v \in Tasks \ {u} : led'[v] = led[v]
      BY <1>t, <2>2, <2>3, CommandWritten DEF Unsent
    <3> QED  BY <3>1
  <2> QED  BY <2>1, <2>3
<1>4. CASE ReplaySent(u)
  <2>1. PICK m \in todo[u], accepted \in BOOLEAN : Records(u, m, accepted)
    BY <1>4 DEF ReplaySent, Records
  <2>2. m \in Messages
    BY <1>t, GatewayFields
  <2>3. led'[u].status = led[u].status /\ \A v \in Tasks \ {u} : led'[v] = led[v]
    BY <1>t, <2>1, <2>2, SentWritten
  <2> QED  BY <2>3
<1>5. CASE DispatchCancelled(u) \/ ReduceDone(u) \/ FailGuarded(u) \/ TaskCancel(u)
  <2>1. CASE HasEnded(led[u])
    <3>1. led' = led
      BY <1>5, <2>1 DEF DispatchCancelled, ReduceDone, FailGuarded, TaskCancel, TaskInv, Course,
                        BusyWith, HasEnded, Live, Ended
    <3> QED  BY <3>1
  <2>2. CASE ~HasEnded(led[u])
    <3>1. CASE \E x \in Ended : EndRow(u, x)
      BY <1>e, <2>2, <3>1
    <3>2. CASE TaskCancel(u) /\ led[u].status \in Live
      <4>1. \A v \in Tasks \ {u} : led'[v] = led[v]
        BY <1>t, <3>2, StatusWritten DEF TaskCancel, Live
      <4> QED  BY <2>2, <4>1
    <3>3. \/ \E x \in Ended : EndRow(u, x)
          \/ TaskCancel(u) /\ led[u].status \in Live
      BY <1>5, <2>2 DEF DispatchCancelled, ReduceDone, FailGuarded, TaskCancel, Ended
    <3> QED  BY <3>1, <3>2, <3>3
  <2> QED  BY <2>1, <2>2
<1>6. CASE TakeEvent(u)
  <2>1. led[u].status \notin Live => led' = led
    BY <1>6 DEF TakeEvent
  <2>2. CASE led[u].status \in Live
    <3>1. \A v \in Tasks \ {u} : led'[v] = led[v]
      BY <1>t, <1>6, <2>2 DEF TakeEvent, TypeOK
    <3> QED  BY <1>0, <2>2, <3>1
  <2> QED  BY <2>1, <2>2
<1>7. CASE ReduceAsk(u) \/ AutoReplied(u) \/ FinishEnding(u) \/ TaskStart(u) \/ Resolve(u)
  <2>1. CASE ReduceAsk(u)
    <3>1. led[u].status \in Live
      BY <2>1 DEF ReduceAsk, TaskInv, Course, BusyWith
    <3>2. \A v \in Tasks \ {u} : led'[v] = led[v]
      BY <1>t, <2>1 DEF ReduceAsk, TypeOK
    <3> QED  BY <1>0, <3>1, <3>2
  <2>2. CASE AutoReplied(u)
    <3>1. PICK a \in Permissions, accepted \in BOOLEAN :
             LET r == ReplyOutcome(led[u], a, Reply(a, 0), accepted) IN
             \/ led' = [led EXCEPT ![u] = [r EXCEPT !.event[a] = "processed"]]
             \/ led' = [led EXCEPT ![u] = r]
      BY <2>2 DEF AutoReplied
    <3> DEFINE r == ReplyOutcome(led[u], a, Reply(a, 0), accepted)
               s == [r EXCEPT !.event[a] = "processed"]
    <3>a. a \in Asks /\ Reply(a, 0) \in Messages
      BY MessageFacts, NamesAssumption
    <3>2. r \in Record /\ r.status = led[u].status
      BY <1>t, <3>a, ReplyOutcomeStatus
    <3> HIDE DEF r
    <3>3. s.status = r.status
      BY <3>2 DEF Record
    <3>4. led' = [led EXCEPT ![u] = s] \/ led' = [led EXCEPT ![u] = r]
      BY <3>1 DEF r
    <3> HIDE DEF s
    <3> QED  BY <1>t, <3>2, <3>3, <3>4 DEF TypeOK
  <2>3. CASE FinishEnding(u)
    <3>1. led' = [led EXCEPT ![u] = Settled(led[u])]
      BY <2>3 DEF FinishEnding
    <3>2. Settled(led[u]).status = led[u].status
      BY <1>t, SettledFields
    <3> QED  BY <1>t, <3>1, <3>2 DEF TypeOK
  <2>4. CASE TaskStart(u) \/ Resolve(u)
    <3>1. led[u].status \in Live \cup {"none"}
      BY <2>4 DEF TaskStart, Resolve, Answerable
    <3>2. \A v \in Tasks \ {u} : led'[v] = led[v]
      BY <1>t, <2>4 DEF TaskStart, Resolve, TypeOK
    <3> QED  BY <1>0, <3>1, <3>2
  <2> QED  BY <1>7, <2>1, <2>2, <2>3, <2>4
<1>8. CASE TaskSend(u)
  <2>1. led[u].status \in {"queued"} \cup Live
    BY <1>8 DEF TaskSend
  <2>2. \A v \in Tasks \ {u} : led'[v] = led[v]
    BY <1>t, <1>8 DEF TaskSend, TypeOK
  <2> QED  BY <1>0, <2>1, <2>2
<1> QED  BY <1>1, <1>2, <1>3, <1>4, <1>5, <1>6, <1>7, <1>8 DEF Dispatch, DispatchFault

\* How a task ended is how it stays, whoever ends it first: the worker's last event, a
\* cancel that races it, the failure of the run or a restart (_terminal_from_cancel,
\* _fail_active_run_guarded, _recover_after_restart).
THEOREM EndsAreFinal == Spec => EndIsFinal
<1>1. ASSUME TaskInv, [Next]_vars, NEW t \in Tasks, HasEnded(led[t])
      PROVE  led'[t].status = led[t].status
  <2>t. TypeOK
    BY <1>1 DEF TaskInv
  <2>1. ASSUME NEW u \in Tasks,
               \/ Dispatch(u) \/ DispatchFault(u) \/ WorkerAsks(u) \/ WorkerFinishes(u)
               \/ TaskStart(u) \/ TaskSend(u) \/ Resolve(u) \/ TaskCancel(u)
        PROVE  led'[t].status = led[t].status
    BY <1>1, <2>1, LedgerSteps DEF StatusKept
  <2>2. CASE CancelFails \/ Revoke \/ Crash \/ UNCHANGED vars
    BY <2>2 DEF CancelFails, Revoke, Crash, vars
  <2>3. CASE SteerSent
    <3> DEFINE u == call.task
    <3>1. u \in Tasks
      BY <1>1, <2>3 DEF TaskInv, Heard, CallIsUnheard, SteerSent
    <3>2. PICK accepted \in BOOLEAN : Records(u, Steer, accepted)
      BY <2>3 DEF SteerSent, Records
    <3> HIDE DEF u
    <3>3. led'[u].status = led[u].status /\ \A v \in Tasks \ {u} : led'[v] = led[v]
      BY <2>t, <3>1, <3>2, MessageFacts, SentWritten
    <3> QED  BY <3>3
  <2>4. CASE Resolved
    <3> DEFINE u == call.task
               a == call.msg[1]
               m == call.msg
    <3>1. u \in Tasks /\ a \in Asks /\ m \in Messages
      BY <1>1, <2>4, <2>t DEF TaskInv, Heard, CallIsUnheard, Resolved, TypeOK, Call
    <3>2. PICK accepted \in BOOLEAN :
             led' = [led EXCEPT ![u] = ReplyOutcome(led[u], a, m, accepted)]
      BY <2>4 DEF Resolved
    <3> HIDE DEF u, a, m
    <3>a. led[u] \in Record
      BY <2>t, <3>1, GatewayFields
    <3>3. ReplyOutcome(led[u], a, m, accepted).status = led[u].status
      BY <3>1, <3>a, ReplyOutcomeStatus
    <3> QED  BY <2>t, <3>1, <3>2, <3>3 DEF TypeOK
  <2>5. CASE CancelAcked
    <3> DEFINE u == call.task
    <3>1. u \in Tasks
      BY <1>1, <2>5 DEF TaskInv, Heard, CallIsUnheard, CancelAcked
    <3>2. IF HasEnded(led[u]) THEN led' = led ELSE EndRow(u, "cancelled")
      BY <2>5 DEF CancelAcked
    <3> HIDE DEF u
    <3>3. CASE ~HasEnded(led[u])
      <4>1. \A v \in Tasks \ {u} : led'[v] = led[v]
        BY <2>t, <3>1, <3>2, <3>3, StatusWritten DEF EndRow, Ended
      <4> QED  BY <1>1, <3>3, <4>1
    <3> QED  BY <3>2, <3>3
  <2>6. CASE Restart
    <3>1. PICK status \in [Tasks -> {"completed", "failed"}] :
             led' = [u \in Tasks |-> Recovered(led[u], status[u])]
      BY <2>6 DEF Restart
    <3>2. led[t] \in Record /\ status[t] \in {"completed", "failed"}
      BY <2>t, GatewayFields
    <3>3. Recovered(led[t], status[t]).status = led[t].status
      BY <1>1, <3>2, RecoveredFields
    <3> QED  BY <3>1, <3>3
  <2> QED  BY <1>1, <2>1, <2>2, <2>3, <2>4, <2>5, <2>6 DEF Next, CallReturns
<1>2. TaskInv /\ [Next]_vars =>
         [\A t \in Tasks : HasEnded(led[t]) => led'[t].status = led[t].status]_vars
  BY <1>1
<1> QED  BY <1>2, TaskInvariance, PTL DEF Spec, EndIsFinal

=============================================================================
