--------------------------- MODULE ToolCalls_proofs ---------------------------
(***************************************************************************)
(* For any number of calls, drops and failures.  The runtime's side: a     *)
(* call has someone to end it and is given one outcome, whatever the host  *)
(* and the network do, because resolving is a lock that the answer and the *)
(* deadline compete for (FeedHolds, TimerHolds).  The host's side: the     *)
(* lease lists the action that has the desktop and those that wait for it  *)
(* (Queued), so that they run one by one and none after it was withdrawn.  *)
(* Both: an answer is not lost with a socket; and ToolCalls implements     *)
(* ToolContract: an action runs at most once, and the one outcome the      *)
(* model is given is true of it.  This rests on the host's memory: a call  *)
(* that is sent again is found there, because calls arrive in their order  *)
(* and only typed commands come between (InOrder).                         *)
(***************************************************************************)
EXTENDS ToolCalls, SequenceTheorems, FiniteSetTheorems, FunctionTheorems, TLAPS

\* The types of what the runtime keeps of a call.
CallTypes ==
    /\ issued \in Nat
    /\ call \in Calls \cup {NoCall}
    /\ resolving \in BOOLEAN
    /\ timer \in [Calls -> {"off", "armed", "feeding"}]
    /\ feed = NoFeed \/ \E c \in Calls, t \in {1, 2} : \E a :
                            feed = [call |-> c, answer |-> a, try |-> t]
    /\ finished \subseteq Calls
    /\ told = [c \in Calls |-> told[c]]
    /\ \A c \in Calls : told[c] = <<>> \/ \E a : told[c] = <<a>>
    /\ failures \in Nat

\* An answer is fed for the pending call, under the lock, and by it alone.
FeedHolds ==
    feed # NoFeed => call = feed.call /\ resolving /\ timer[call] # "feeding"

\* The same for a deadline that passed.
TimerHolds ==
    \A c \in Calls : timer[c] = "feeding" => call = c /\ resolving /\ feed = NoFeed

\* A call that was never issued, or is over, is not the pending one.
CallsInOrder ==
    /\ call # NoCall => call = issued /\ call \notin finished
    /\ \A c \in finished : c <= issued
    /\ \A c \in Calls : told[c] # <<>> => c <= issued
    /\ call = NoCall => ~resolving

CallInv ==
    CallTypes /\ FeedHolds /\ TimerHolds /\ CallsInOrder /\ NoCallIsStranded /\ OneOutcome

\* What the host and the socket do is not the runtime's: it keeps what a call is.
CallParts == <<issued, call, resolving, timer, feed, finished, told, failures>>

-----------------------------------------------------------------------------
\* Nothing was issued yet.
LEMMA CallInit == Init => CallInv
<1> SUFFICES ASSUME Init PROVE CallInv
  OBVIOUS
<1> USE DEF Init
<1>1. CallTypes
  BY DEF CallTypes
<1>2. FeedHolds /\ TimerHolds /\ CallsInOrder
  BY DEF FeedHolds, TimerHolds, CallsInOrder
<1>3. NoCallIsStranded /\ OneOutcome
  BY DEF NoCallIsStranded, OneOutcome
<1> QED  BY <1>1, <1>2, <1>3 DEF CallInv

\* A step that leaves the runtime's part alone keeps the invariant.
LEMMA CallStutter ==
    ASSUME CallInv, UNCHANGED CallParts
    PROVE  CallInv'
  BY DEF CallInv, CallTypes, FeedHolds, TimerHolds, CallsInOrder, NoCallIsStranded,
         OneOutcome, CallParts, NoFeed, Calls

\* The event of a new call takes the free place and arms its deadline.
LEMMA IssueStep ==
    ASSUME CallInv, NEW c \in Calls, Issue(c)
    PROVE  CallInv'
<1> USE IdsAssumption DEF CallInv, Issue, CallTypes
<1>1. CallTypes' /\ c \in Nat /\ c = issued + 1 /\ call' = c
  BY DEF Calls
<1>2. FeedHolds'
  BY DEF FeedHolds, CallsInOrder
<1>3. TimerHolds'
  BY DEF TimerHolds, CallsInOrder
<1>4. CallsInOrder'
  BY <1>1 DEF CallsInOrder, Calls
<1>5. NoCallIsStranded'
  BY <1>1 DEF NoCallIsStranded, CallsInOrder
<1>6. OneOutcome'
  BY <1>1 DEF OneOutcome, CallsInOrder, Calls
<1> QED  BY <1>1, <1>2, <1>3, <1>4, <1>5, <1>6

\* An answer takes the lock only of the call it names, or is refused as stale.
LEMMA TakeAnswerStep ==
    ASSUME CallInv, TakeAnswer
    PROVE  CallInv'
<1> DEFINE m == Head(toRuntime)
<1>1. CASE ~IsAwaited(m)
  <2>1. UNCHANGED CallParts
    BY <1>1 DEF TakeAnswer, CallParts
  <2> QED  BY <2>1, CallStutter
<1>2. CASE IsAwaited(m)
  <2> USE <1>2 DEF CallInv
  <2>1. /\ call \in Calls /\ ~resolving /\ resolving' = TRUE
        /\ feed' = [call |-> call, answer |-> m.answer, try |-> 1]
        /\ feed = NoFeed
        /\ UNCHANGED <<issued, call, timer, finished, told, failures>>
    BY DEF TakeAnswer, IsAwaited, CallTypes
  <2>2. CallTypes'
    BY <2>1 DEF CallTypes
  <2>3. FeedHolds' /\ TimerHolds'
    BY <2>1 DEF FeedHolds, TimerHolds
  <2>4. CallsInOrder' /\ OneOutcome'
    BY <2>1, IdsAssumption DEF CallsInOrder, OneOutcome
  <2>5. NoCallIsStranded'
    BY <2>1 DEF NoCallIsStranded
  <2> QED  BY <2>2, <2>3, <2>4, <2>5
<1> QED  BY <1>1, <1>2

\* An answer that was fed ends the call, which is the one that was fed for.
LEMMA FedStep ==
    ASSUME CallInv, Fed
    PROVE  CallInv'
<1> USE DEF CallInv
<1> DEFINE c == feed.call
<1>1. /\ c \in Calls /\ call = c /\ resolving /\ timer[c] # "feeding"
      /\ call' = NoCall /\ resolving' = FALSE /\ feed' = NoFeed
      /\ finished' = finished \cup {c}
      /\ told' = [told EXCEPT ![c] = Append(@, feed.answer)]
      /\ UNCHANGED <<issued, timer, failures>>
  BY DEF Fed, Clear, CallTypes, FeedHolds
<1>2. c = issued /\ c \notin finished /\ told[c] = <<>>
  BY <1>1, IdsAssumption DEF CallsInOrder, OneOutcome
<1>3. told'[c] = <<feed.answer>> /\ \A d \in Calls \ {c} : told'[d] = told[d]
  BY <1>1, <1>2 DEF CallTypes
<1>4. CallTypes'
  <2>1. told' = [d \in Calls |-> told'[d]]
    BY <1>1 DEF CallTypes
  <2>2. \A d \in Calls : told'[d] = <<>> \/ \E a : told'[d] = <<a>>
    BY <1>3 DEF CallTypes
  <2> QED  BY <1>1, <2>1, <2>2 DEF CallTypes
<1>5. FeedHolds' /\ TimerHolds'
  BY <1>1 DEF FeedHolds, TimerHolds
<1>6. CallsInOrder'
  BY <1>1, <1>2, <1>3 DEF CallsInOrder, Calls
<1>7. OneOutcome'
  BY <1>1, <1>3, IdsAssumption DEF OneOutcome
<1>8. NoCallIsStranded'
  BY <1>1 DEF NoCallIsStranded
<1> QED  BY <1>4, <1>5, <1>6, <1>7, <1>8

\* An unreadable answer is replaced by another for the same call.
LEMMA FedUnreadableStep ==
    ASSUME CallInv, FedUnreadable
    PROVE  CallInv'
<1> USE DEF CallInv
<1>1. feed # NoFeed /\ UNCHANGED <<issued, call, resolving, timer, finished, told, failures>>
  BY DEF FedUnreadable, NoFeed
<1>2. PICK c \in Calls, t \in {1, 2} : \E a : feed = [call |-> c, answer |-> a, try |-> t]
  BY <1>1 DEF CallTypes
<1>3. feed' = [call |-> c, answer |-> "failed", try |-> 2] /\ feed.call = c
  <2>1. PICK a : feed = [call |-> c, answer |-> a, try |-> t]
    BY <1>2
  <2> QED  BY <2>1 DEF FedUnreadable
<1>4. CallTypes'
  BY <1>1, <1>3 DEF CallTypes
<1>5. FeedHolds' /\ TimerHolds'
  BY <1>1, <1>3 DEF FeedHolds, TimerHolds
<1>6. CallsInOrder' /\ OneOutcome' /\ NoCallIsStranded'
  BY <1>1, <1>3 DEF CallsInOrder, OneOutcome, NoCallIsStranded
<1> QED  BY <1>4, <1>5, <1>6

\* A call whose answer was refused is left as it was, but for its deadline.
LEMMA FeedFailsStep ==
    ASSUME CallInv, FeedFails
    PROVE  CallInv'
<1> USE DEF CallInv
<1>1. /\ feed # NoFeed /\ feed' = NoFeed /\ resolving' = FALSE /\ failures' = failures + 1
      /\ UNCHANGED <<issued, call, timer, finished, told>>
  BY DEF FeedFails
<1>2. failures \in Nat /\ failures' \in Nat /\ failures' # 0
  BY <1>1 DEF CallTypes
<1>5. CallTypes'
  BY <1>1, <1>2 DEF CallTypes
<1>3. FeedHolds' /\ TimerHolds'
  BY <1>1 DEF FeedHolds, TimerHolds
<1>4. CallsInOrder' /\ OneOutcome' /\ NoCallIsStranded'
  BY <1>1, <1>2 DEF CallsInOrder, OneOutcome, NoCallIsStranded
<1> QED  BY <1>3, <1>4, <1>5

\* The deadline task leaves a call that is over or being answered, or takes the
\* lock.
LEMMA LookStep ==
    ASSUME CallInv, NEW c \in Calls, Look(c)
    PROVE  CallInv'
<1> USE DEF CallInv
<1>1. /\ timer[c] = "armed"
      /\ UNCHANGED <<issued, call, feed, finished, told, failures>>
  BY DEF Look
<1>2. CASE call # c \/ resolving
  <2>1. timer' = [timer EXCEPT ![c] = "off"] /\ resolving' = resolving
    BY <1>2 DEF Look
  <2>2. CallTypes'
    BY <1>1, <2>1 DEF CallTypes
  <2>3. FeedHolds' /\ TimerHolds'
    BY <1>1, <2>1 DEF FeedHolds, TimerHolds, CallTypes
  <2>4. CallsInOrder' /\ OneOutcome'
    BY <1>1, <2>1 DEF CallsInOrder, OneOutcome
  <2>5. NoCallIsStranded'
    BY <1>1, <1>2, <2>1 DEF NoCallIsStranded, CallTypes
  <2> QED  BY <2>2, <2>3, <2>4, <2>5
<1>3. CASE call = c /\ ~resolving
  <2>1. timer' = [timer EXCEPT ![c] = "feeding"] /\ resolving' = TRUE
    BY <1>3 DEF Look
  <2>2. CallTypes' /\ timer'[c] = "feeding"
    BY <1>1, <2>1 DEF CallTypes
  <2>3. FeedHolds' /\ TimerHolds'
    BY <1>1, <1>3, <2>1 DEF FeedHolds, TimerHolds, CallTypes
  <2>4. CallsInOrder' /\ OneOutcome'
    BY <1>1, <1>3, <2>1, IdsAssumption DEF CallsInOrder, OneOutcome
  <2>5. NoCallIsStranded'
    BY <1>1, <1>3, <2>1, <2>2 DEF NoCallIsStranded
  <2> QED  BY <2>2, <2>3, <2>4, <2>5
<1> QED  BY <1>2, <1>3

\* A timeout ends the call, whether or not the model could be told.
LEMMA TellTimeoutStep ==
    ASSUME CallInv, NEW c \in Calls, TellTimeout(c)
    PROVE  CallInv'
<1> USE DEF CallInv
<1>1. /\ call = c /\ resolving /\ feed = NoFeed
      /\ call' = NoCall /\ resolving' = FALSE /\ finished' = finished \cup {c}
      /\ timer' = [timer EXCEPT ![c] = "off"]
      /\ UNCHANGED <<issued, feed>>
  BY DEF TellTimeout, Clear, TimerHolds
<1>2. c = issued /\ told[c] = <<>>
  BY <1>1, IdsAssumption DEF CallsInOrder, OneOutcome
<1>3. /\ failures' = failures \/ failures' = failures + 1
      /\ told' = told \/ told' = [told EXCEPT ![c] = <<"timeout">>]
  BY <1>2 DEF TellTimeout, CallTypes
<1>4. CallTypes'
  <2>1. told' = [d \in Calls |-> told'[d]]
    BY <1>3 DEF CallTypes
  <2>2. \A d \in Calls : told'[d] = <<>> \/ \E a : told'[d] = <<a>>
    BY <1>3 DEF CallTypes
  <2>3. failures' \in Nat
    BY <1>3 DEF CallTypes
  <2>4. timer' \in [Calls -> {"off", "armed", "feeding"}]
    BY <1>1 DEF CallTypes
  <2> QED  BY <1>1, <2>1, <2>2, <2>3, <2>4 DEF CallTypes
<1>5. FeedHolds' /\ TimerHolds'
  BY <1>1 DEF FeedHolds, TimerHolds, CallTypes
<1>6. CallsInOrder'
  <2>1. \A d \in Calls : d # c => told'[d] = told[d]
    BY <1>3 DEF CallTypes
  <2>2. c <= issued /\ issued' = issued
    BY <1>1, <1>2 DEF CallTypes
  <2>3. \A d \in Calls : told'[d] # <<>> => d <= issued
    BY <2>1, <2>2 DEF CallsInOrder
  <2> QED  BY <1>1, <2>2, <2>3 DEF CallsInOrder
<1>7. OneOutcome'
  BY <1>1, <1>3, IdsAssumption DEF OneOutcome, CallTypes
<1>8. NoCallIsStranded'
  BY <1>1 DEF NoCallIsStranded
<1> QED  BY <1>4, <1>5, <1>6, <1>7, <1>8

-----------------------------------------------------------------------------
\* One step of the runtime, the socket or the host.
LEMMA CallNext ==
    ASSUME CallInv, [Next]_vars
    PROVE  CallInv'
<1>1. CASE \E c \in Calls : Issue(c) \/ Look(c) \/ TellTimeout(c)
  BY <1>1, IssueStep, LookStep, TellTimeoutStep
<1>2. CASE TakeAnswer \/ Fed \/ FedUnreadable \/ FeedFails
  BY <1>2, TakeAnswerStep, FedStep, FedUnreadableStep, FeedFailsStep
<1>3. CASE SendControl \/ Drop \/ Reconnect \/ Resume
  <2>1. UNCHANGED CallParts
    BY <1>3 DEF CallParts, SendControl, Drop, Reconnect, Resume, runtime
  <2> QED  BY <2>1, CallStutter
<1>4. CASE Dispatch \/ Withdraw
  <2>1. UNCHANGED CallParts
    BY <1>4 DEF CallParts, Dispatch, Withdraw, Receive, runtime
  <2> QED  BY <2>1, CallStutter
<1>5. CASE \E l \in Locals : RunLocal(l)
  <2>1. UNCHANGED CallParts
    BY <1>5 DEF CallParts, RunLocal, runtime
  <2> QED  BY <2>1, CallStutter
<1>6. CASE \E k \in Works : Step(k)
  <2>1. UNCHANGED CallParts
    BY <1>6 DEF CallParts, Step, runtime
  <2> QED  BY <2>1, CallStutter
<1>7. CASE UNCHANGED vars
  <2>1. UNCHANGED CallParts
    BY <1>7 DEF CallParts, vars, runtime
  <2> QED  BY <2>1, CallStutter
<1> QED
  BY <1>1, <1>2, <1>3, <1>4, <1>5, <1>6, <1>7 DEF Next

\* The lock of a call is held by at most one of its answer and its deadline, in
\* every reachable state.
THEOREM CallInvariance == Spec => []CallInv
<1> QED  BY CallInit, CallNext, PTL DEF Spec

\* As long as the model takes what it is given, a call always has an answer being
\* fed or a deadline to end it: it cannot keep every later call from being issued.
THEOREM NoneStranded == Spec => []NoCallIsStranded
<1>1. CallInv => NoCallIsStranded
  BY DEF CallInv
<1> QED  BY <1>1, CallInvariance, PTL

\* The model is given at most one outcome of each call, and only as the call ends,
\* whatever answers are late, repeated or lost.
THEOREM ToldOnce == Spec => []OneOutcome
<1>1. CallInv => OneOutcome
  BY DEF CallInv
<1> QED  BY <1>1, CallInvariance, PTL

-----------------------------------------------------------------------------
(***************************************************************************)
(* The host's side: what a work was until it runs, and the queue for the   *)
(* desktop.                                                                *)
(***************************************************************************)
Work == [call : Calls \cup Locals, stage : Stages, aborted : BOOLEAN,
         ran : {"no", "started", "ended"}, answer : Answers \cup {"none"}]

\* A work that has, or waits for, the desktop.
InQueue(w) == w.stage = "lease" \/ (w.stage = "running" /\ w.call \in Foreground)

\* The lease lists them: the one that runs, and behind it those that wait.
Queued(w, q) ==
    /\ q \in Seq(1..Len(w))
    /\ \A i, j \in 1..Len(q) : q[i] = q[j] => i = j
    /\ \A i \in 1..Len(q) : /\ w[q[i]].call \in Foreground
                            /\ w[q[i]].stage = IF i = 1 THEN "running" ELSE "lease"
    /\ \A k \in 1..Len(w) : InQueue(w[k]) => \E i \in 1..Len(q) : q[i] = k

\* An action that was not begun did not run, and one whose call was withdrawn does
\* not wait for the desktop.
NotBegun(w) ==
    /\ w.stage \in {"prepare", "asking", "lease"} => w.ran = "no"
    /\ w.stage = "lease" => ~w.aborted

\* The works and the lease, and what travels to the host.
WorkInv(w, q) ==
    /\ w \in Seq(Work)
    /\ \A k \in 1..Len(w) : NotBegun(w[k])
    /\ Queued(w, q)

Mail ==
    /\ toHost \in Seq([type : {"call", "timeout"}, call : Calls])
    /\ controls \in Seq(Calls)

HostInv == Mail /\ WorkInv(work, lease)

\* What no step may do to a work.
Steady(w, x) == w.aborted /\ w.stage \in {"asking", "lease"} => x.ran = "no"

\* A step of the host keeps the invariant, and starts nothing that was withdrawn.
Steadily ==
    /\ WorkInv(work', lease')
    /\ \A k \in 1..Len(work) : Steady(work[k], work'[k])

-----------------------------------------------------------------------------
\* A sequence of which one element was replaced, and one that an element left.
LEMMA Replaced ==
    ASSUME NEW w \in Seq(Work), NEW k \in 1..Len(w), NEW r \in Work
    PROVE  LET v == [w EXCEPT ![k] = r]
           IN /\ v \in Seq(Work) /\ Len(v) = Len(w) /\ v[k] = r
              /\ \A j \in 1..Len(w) : j # k => v[j] = w[j]
  OBVIOUS

\* What is left of a sequence without its i-th element.
LEMMA Removed ==
    ASSUME NEW S, NEW q \in Seq(S), NEW i \in 1..Len(q)
    PROVE  /\ RemoveAt(q, i) \in Seq(S) /\ Len(RemoveAt(q, i)) = Len(q) - 1
           /\ \A j \in 1..(Len(q) - 1) :
                 RemoveAt(q, i)[j] = IF j < i THEN q[j] ELSE q[j + 1]
<1> DEFINE a == SubSeq(q, 1, i - 1)
           b == SubSeq(q, i + 1, Len(q))
<1>1. Len(q) \in Nat /\ i \in Nat /\ 1 <= i /\ i <= Len(q)
  OBVIOUS
<1>2. a \in Seq(S) /\ Len(a) = i - 1
  BY <1>1
<1>3. b \in Seq(S) /\ Len(b) = Len(q) - i
  BY <1>1
<1>4. \A j \in 1..(i - 1) : a[j] = q[j]
  BY <1>1
<1>5. \A j \in 1..(Len(q) - i) : b[j] = q[i + j]
  BY <1>1
<1>6. RemoveAt(q, i) = a \o b
  BY DEF RemoveAt
<1> HIDE DEF a, b
<1>7. a \o b \in Seq(S) /\ Len(a \o b) = Len(a) + Len(b)
  BY <1>2, <1>3
<1>8. Len(a) + Len(b) = Len(q) - 1
  BY <1>1, <1>2, <1>3
<1>9. ASSUME NEW j \in 1..(Len(q) - 1)
      PROVE  (a \o b)[j] = IF j < i THEN q[j] ELSE q[j + 1]
  <2> DEFINE d == j - Len(a)
  <2>1. j \in 1..(Len(a) + Len(b))
    BY <1>8
  <2>2. (a \o b)[j] = IF j <= Len(a) THEN a[j] ELSE b[d]
    BY <1>2, <1>3, <2>1, ConcatProperties
  <2>3. CASE j < i
    <3>1. j \in 1..(i - 1) /\ j <= Len(a)
      BY <1>1, <1>2, <2>3
    <3> QED  BY <1>4, <2>2, <2>3, <3>1
  <2>4. CASE ~(j < i)
    <3>1. ~(j <= Len(a)) /\ d \in 1..(Len(q) - i) /\ i + d = j + 1
      BY <1>1, <1>2, <2>4
    <3> HIDE DEF d
    <3> QED  BY <1>5, <2>2, <2>4, <3>1
  <2> QED  BY <2>3, <2>4
<1> QED  BY <1>6, <1>7, <1>8, <1>9

\* Starting a work, and answering it.
LEMMA StartedWork ==
    ASSUME NEW w \in Seq(Work), NEW k \in 1..Len(w)
    PROVE  /\ Started(w, k) \in Seq(Work) /\ Len(Started(w, k)) = Len(w)
           /\ Started(w, k)[k].stage = "running" /\ Started(w, k)[k].ran = "started"
           /\ Started(w, k)[k].call = w[k].call
           /\ \A j \in 1..Len(w) : j # k => Started(w, k)[j] = w[j]
<1> DEFINE r == [w[k] EXCEPT !.stage = "running", !.ran = "started"]
<1>0. w[k] \in Work
  OBVIOUS
<1>1. r \in Work /\ r.stage = "running" /\ r.ran = "started" /\ r.call = w[k].call
  BY <1>0 DEF Work, Stages
<1>2. Started(w, k) = [w EXCEPT ![k] = r]
  BY DEF Started
<1> QED  BY <1>1, <1>2, Replaced

\* An answer ends one piece of work and leaves the others alone.
LEMMA AnsweredWork ==
    ASSUME NEW w \in Seq(Work), NEW k \in 1..Len(w), NEW a \in Answers
    PROVE  /\ Answered(w, k, a) \in Seq(Work) /\ Len(Answered(w, k, a)) = Len(w)
           /\ Answered(w, k, a)[k].stage = "done" /\ Answered(w, k, a)[k].ran = w[k].ran
           /\ \A j \in 1..Len(w) : j # k => Answered(w, k, a)[j] = w[j]
<1> DEFINE r == [w[k] EXCEPT !.stage = "done", !.answer = a]
<1>0. w[k] \in Work
  OBVIOUS
<1>1. r \in Work /\ r.stage = "done" /\ r.ran = w[k].ran
  BY <1>0 DEF Work, Stages
<1>2. Answered(w, k, a) = [w EXCEPT ![k] = r]
  BY DEF Answered
<1> QED  BY <1>1, <1>2, Replaced

-----------------------------------------------------------------------------
\* The queue stands when what changes is not in it, before or after.
LEMMA QueueStands ==
    ASSUME NEW w \in Seq(Work), NEW v \in Seq(Work), NEW q, Queued(w, q),
           Len(v) >= Len(w),
           \A k \in 1..Len(w) : \/ v[k].stage = w[k].stage /\ v[k].call = w[k].call
                                \/ ~InQueue(w[k]) /\ ~InQueue(v[k]),
           \A k \in (Len(w) + 1)..Len(v) : ~InQueue(v[k])
    PROVE  Queued(v, q)
<1> USE DEF Queued
<1>1. q \in Seq(1..Len(v))
  OBVIOUS
<1>2. ASSUME NEW i \in 1..Len(q)
      PROVE  /\ v[q[i]].call \in Foreground
             /\ v[q[i]].stage = IF i = 1 THEN "running" ELSE "lease"
  <2>1. q[i] \in 1..Len(w) /\ InQueue(w[q[i]])
    BY DEF InQueue
  <2> QED  BY <2>1
<1>3. ASSUME NEW k \in 1..Len(v), InQueue(v[k])
      PROVE  \E i \in 1..Len(q) : q[i] = k
  <2>1. k \in 1..Len(w) /\ InQueue(w[k])
    BY <1>3 DEF InQueue
  <2> QED  BY <2>1
<1> QED  BY <1>1, <1>2, <1>3

\* A work that gets the desktop at once owns it.
LEMMA QueueBegins ==
    ASSUME NEW w \in Seq(Work), NEW v \in Seq(Work), NEW q, Queued(w, q), q = <<>>,
           NEW k \in 1..Len(w), Len(v) = Len(w),
           v[k].stage = "running", v[k].call \in Foreground,
           \A j \in 1..Len(w) : j # k => v[j] = w[j]
    PROVE  Queued(v, Append(q, k))
<1>1. Append(q, k) = <<k>> /\ <<k>> \in Seq(1..Len(v))
  OBVIOUS
<1>2. \A j \in 1..Len(w) : ~InQueue(w[j])
  BY DEF Queued
<1> QED  BY <1>1, <1>2 DEF Queued, InQueue

\* One that has to wait is the last.
LEMMA QueueGrows ==
    ASSUME NEW w \in Seq(Work), NEW v \in Seq(Work), NEW q, Queued(w, q), q # <<>>,
           NEW k \in 1..Len(w), ~InQueue(w[k]), Len(v) = Len(w),
           v[k].stage = "lease", v[k].call \in Foreground,
           \A j \in 1..Len(w) : j # k => v[j] = w[j]
    PROVE  Queued(v, Append(q, k))
<1> DEFINE p == Append(q, k)
<1> USE DEF Queued
<1>1. /\ p \in Seq(1..Len(v)) /\ Len(p) = Len(q) + 1 /\ Len(q) \in Nat /\ Len(q) > 0
      /\ p[Len(p)] = k /\ \A i \in 1..Len(q) : p[i] = q[i]
  OBVIOUS
<1>2. \A i \in 1..Len(q) : q[i] \in 1..Len(w) /\ q[i] # k
  BY DEF InQueue
<1>3. \A i, j \in 1..Len(p) : p[i] = p[j] => i = j
  BY <1>1, <1>2
<1>4. ASSUME NEW i \in 1..Len(p)
      PROVE  /\ v[p[i]].call \in Foreground
             /\ v[p[i]].stage = IF i = 1 THEN "running" ELSE "lease"
  <2> HIDE DEF p
  <2>1. CASE i \in 1..Len(q)
    <3>1. p[i] = q[i] /\ v[q[i]] = w[q[i]]
      BY <1>1, <1>2, <2>1
    <3> QED  BY <2>1, <3>1
  <2>2. CASE i = Len(p)
    BY <1>1, <2>2
  <2> QED  BY <1>1, <2>1, <2>2
<1>5. ASSUME NEW j \in 1..Len(v), InQueue(v[j])
      PROVE  \E i \in 1..Len(p) : p[i] = j
  <2>1. CASE j = k
    BY <1>1, <2>1
  <2>2. CASE j # k
    BY <1>1, <1>5, <2>2
  <2> QED  BY <2>1, <2>2
<1> QED  BY <1>1, <1>3, <1>4, <1>5

\* One that gives up its place leaves the others in their order.
LEMMA QueueShrinks ==
    ASSUME NEW w \in Seq(Work), NEW v \in Seq(Work), NEW q, Queued(w, q),
           NEW n \in 1..Len(q), NEW k \in 1..Len(w), q[n] = k, n # 1,
           Len(v) = Len(w), ~InQueue(v[k]),
           \A j \in 1..Len(w) : j # k => v[j] = w[j]
    PROVE  Queued(v, RemoveAt(q, n))
<1> DEFINE p == RemoveAt(q, n)
           f(j) == IF j < n THEN j ELSE j + 1
<1>1. q \in Seq(1..Len(w)) /\ Len(q) \in Nat
  BY DEF Queued
<1>2. p \in Seq(1..Len(w)) /\ Len(p) = Len(q) - 1
  BY <1>1, Removed
<1>3. \A j \in 1..Len(p) : p[j] = q[f(j)] /\ f(j) \in 1..Len(q) /\ f(j) # n
  <2>1. \A j \in 1..(Len(q) - 1) : p[j] = IF j < n THEN q[j] ELSE q[j + 1]
    BY <1>1, Removed
  <2>2. \A j \in 1..(Len(q) - 1) : p[j] = q[f(j)] /\ f(j) \in 1..Len(q) /\ f(j) # n
    <3> HIDE DEF p
    <3> QED  BY <1>1, <2>1
  <2> HIDE DEF p, f
  <2> QED  BY <1>2, <2>2
<1> HIDE DEF p
<1>4. ASSUME NEW i \in 1..Len(p), NEW j \in 1..Len(p), p[i] = p[j]
      PROVE  i = j
  <2>1. q[f(i)] = q[f(j)] /\ f(i) \in 1..Len(q) /\ f(j) \in 1..Len(q)
    BY <1>3, <1>4
  <2>2. f(i) = f(j)
    <3> HIDE DEF f
    <3> QED  BY <2>1 DEF Queued
  <2>3. i \in Nat /\ j \in Nat /\ n \in Nat
    BY <1>1, <1>2
  <2> QED  BY <2>2, <2>3
<1>5. ASSUME NEW i \in 1..Len(p)
      PROVE  /\ v[p[i]].call \in Foreground
             /\ v[p[i]].stage = IF i = 1 THEN "running" ELSE "lease"
  <2>1. f(i) \in 1..Len(q) /\ f(i) # n /\ p[i] = q[f(i)]
    BY <1>3
  <2>2. f(i) = 1 <=> i = 1
    BY <1>1, <1>2
  <2> HIDE DEF f
  <2>3. /\ q[f(i)] \in 1..Len(w) /\ w[q[f(i)]].call \in Foreground
        /\ w[q[f(i)]].stage = IF f(i) = 1 THEN "running" ELSE "lease"
    BY <2>1 DEF Queued
  <2>4. q[f(i)] # k
    BY <2>1 DEF Queued
  <2>5. v[p[i]] = w[q[f(i)]]
    BY <2>1, <2>3, <2>4
  <2> QED  BY <2>2, <2>3, <2>5
<1>6. ASSUME NEW j \in 1..Len(v), InQueue(v[j])
      PROVE  \E i \in 1..Len(p) : p[i] = j
  <2>1. j \in 1..Len(w) /\ j # k /\ InQueue(w[j])
    BY <1>6
  <2>2. PICK i \in 1..Len(q) : q[i] = j
    BY <2>1 DEF Queued
  <2>3. PICK h \in 1..Len(p) : f(h) = i
    <3>1. i # n /\ i \in Nat /\ n \in Nat /\ n <= Len(q) /\ i <= Len(q) /\ 1 <= i /\ 1 <= n
      BY <2>1, <2>2, <1>1
    <3>2. CASE i < n
      <4>1. i \in 1..Len(p) /\ f(i) = i
        BY <3>1, <3>2, <1>1, <1>2
      <4> QED  BY <4>1
    <3>3. CASE i > n
      <4>1. i - 1 \in 1..Len(p) /\ f(i - 1) = i
        BY <3>1, <3>3, <1>1, <1>2
      <4> QED  BY <4>1
    <3> QED  BY <3>1, <3>2, <3>3
  <2> QED  BY <1>3, <2>2, <2>3
<1>7. Len(v) = Len(w) /\ p \in Seq(1..Len(v))
  BY <1>2
<1>8. Queued(v, p)
  BY <1>4, <1>5, <1>6, <1>7 DEF Queued
<1> QED  BY <1>8 DEF p

\* The owner leaves the desktop to the next, who runs.
LEMMA QueuePasses ==
    ASSUME NEW w \in Seq(Work), NEW v \in Seq(Work), NEW q, Queued(w, q), q # <<>>,
           Len(v) = Len(w), ~InQueue(v[q[1]]),
           Len(q) > 1 => v[q[2]].stage = "running" /\ v[q[2]].call = w[q[2]].call,
           \A j \in 1..Len(w) :
              j # q[1] /\ (Len(q) > 1 => j # q[2]) => v[j].stage = w[j].stage
                                                     /\ v[j].call = w[j].call
    PROVE  Queued(v, Tail(q))
<1> DEFINE p == Tail(q)
<1>1. q \in Seq(1..Len(w)) /\ Len(q) \in Nat /\ Len(q) > 0
  BY DEF Queued
<1>2. p \in Seq(1..Len(w)) /\ Len(p) = Len(q) - 1
  BY <1>1
<1>3. \A j \in 1..Len(p) : p[j] = q[j + 1] /\ j + 1 \in 1..Len(q)
  <2>1. \A j \in 1..(Len(q) - 1) : p[j] = q[j + 1]
    BY <1>1
  <2> HIDE DEF p
  <2> QED  BY <1>1, <1>2, <2>1
<1> HIDE DEF p
<1>4. ASSUME NEW i \in 1..Len(p), NEW j \in 1..Len(p), p[i] = p[j]
      PROVE  i = j
  <2>1. q[i + 1] = q[j + 1] /\ i + 1 \in 1..Len(q) /\ j + 1 \in 1..Len(q)
    BY <1>3, <1>4
  <2>2. i + 1 = j + 1
    BY <2>1 DEF Queued
  <2>3. i \in Nat /\ j \in Nat
    OBVIOUS
  <2> QED  BY <2>2, <2>3
<1>5. ASSUME NEW i \in 1..Len(p)
      PROVE  /\ v[p[i]].call \in Foreground
             /\ v[p[i]].stage = IF i = 1 THEN "running" ELSE "lease"
  <2> DEFINE m == i + 1
  <2>1. m \in 1..Len(q) /\ m # 1 /\ p[i] = q[m] /\ Len(q) > 1 /\ (m = 2 <=> i = 1)
    BY <1>1, <1>2, <1>3
  <2>2. 1 \in 1..Len(q) /\ (Len(q) > 1 => 2 \in 1..Len(q))
    BY <1>1
  <2> HIDE DEF m
  <2>3. q[m] \in 1..Len(w) /\ w[q[m]].call \in Foreground /\ w[q[m]].stage = "lease"
    <3>1. q[m] \in 1..Len(w)
      BY <1>1, <2>1, ElementOfSeq
    <3>2. /\ w[q[m]].call \in Foreground
          /\ w[q[m]].stage = IF m = 1 THEN "running" ELSE "lease"
      BY <2>1 DEF Queued
    <3> QED  BY <2>1, <3>1, <3>2
  <2>4. CASE m = 2
    BY <2>1, <2>3, <2>4
  <2>5. CASE m # 2
    <3>1. q[m] # q[1] /\ q[m] # q[2]
      BY <2>1, <2>2, <2>5 DEF Queued
    <3>2. v[q[m]].stage = "lease" /\ v[q[m]].call = w[q[m]].call
      BY <2>3, <3>1
    <3> QED  BY <2>1, <2>3, <2>5, <3>2
  <2> QED  BY <2>4, <2>5
<1>6. ASSUME NEW j \in 1..Len(v), InQueue(v[j])
      PROVE  \E i \in 1..Len(p) : p[i] = j
  <2>1. j # q[1]
    BY <1>6
  <2>2. PICK i \in 1..Len(q) : q[i] = j
    <3>1. CASE Len(q) > 1 /\ j = q[2]
      BY <3>1
    <3>2. CASE ~(Len(q) > 1 /\ j = q[2])
      <4>1. InQueue(w[j])
        BY <1>6, <2>1, <3>2 DEF InQueue
      <4> QED  BY <4>1 DEF Queued
    <3> QED  BY <3>1, <3>2
  <2>3. i - 1 \in 1..Len(p) /\ (i - 1) + 1 = i
    <3>1. i \in Nat /\ i # 1 /\ 1 <= i /\ i <= Len(q)
      BY <1>1, <2>1, <2>2
    <3>2. Len(p) = Len(q) - 1 /\ Len(q) \in Nat
      BY <1>1, <1>2
    <3> QED  BY <3>1, <3>2
  <2>4. p[i - 1] = j
    BY <1>3, <2>2, <2>3
  <2> QED  BY <2>3, <2>4
<1>7. p \in Seq(1..Len(v))
  BY <1>2
<1>8. Queued(v, p)
  BY <1>4, <1>5, <1>6, <1>7 DEF Queued
<1> QED  BY <1>8 DEF p

-----------------------------------------------------------------------------
\* A step of one work: the rest is as it was.
LEMMA OneWork ==
    ASSUME HostInv, NEW k \in 1..Len(work),
           work' \in Seq(Work), Len(work') = Len(work),
           \A j \in 1..Len(work) : j # k => work'[j] = work[j],
           NotBegun(work'[k]), Steady(work[k], work'[k]),
           Queued(work', lease')
    PROVE  Steadily
<1>1. \A j \in 1..Len(work) : NotBegun(work[j])
  BY DEF HostInv, WorkInv
<1>2. \A j \in 1..Len(work) : NotBegun(work'[j])
  BY <1>1
<1>3. \A j \in 1..Len(work) : Steady(work[j], work'[j])
  BY <1>1 DEF Steady, NotBegun
<1> QED  BY <1>2, <1>3 DEF Steadily, WorkInv

\* A step that leaves the work and the lease alone is steady.
LEMMA QuietStep ==
    ASSUME HostInv, UNCHANGED <<work, lease>>
    PROVE  Steadily
<1>1. \A j \in 1..Len(work) : Steady(work[j], work[j])
  BY DEF HostInv, WorkInv, Steady, NotBegun
<1> QED  BY <1>1 DEF HostInv, Steadily

\* dispatch and runLocal add a work that is not begun.
LEMMA AdmitStep ==
    ASSUME HostInv, NEW c \in Calls \cup Locals, Admit(c)
    PROVE  Steadily
<1> DEFINE x == [call |-> c, stage |-> "prepare", aborted |-> FALSE, ran |-> "no",
                 answer |-> "none"]
<1>1. x \in Work /\ NotBegun(x) /\ ~InQueue(x)
  BY DEF Work, NotBegun, Stages, InQueue
<1>2. /\ work' = Append(work, x) /\ work \in Seq(Work) /\ lease' = lease
      /\ Queued(work, lease) /\ \A k \in 1..Len(work) : NotBegun(work[k])
  BY DEF Admit, HostInv, WorkInv
<1> HIDE DEF x
<1>3. /\ work' \in Seq(Work) /\ Len(work') = Len(work) + 1 /\ Len(work) \in Nat
      /\ \A k \in 1..Len(work) : work'[k] = work[k]
      /\ work'[Len(work) + 1] = x
  BY <1>1, <1>2
<1>4. \A k \in 1..Len(work') : NotBegun(work'[k])
  BY <1>1, <1>2, <1>3
<1>5. \A k \in (Len(work) + 1)..Len(work') : ~InQueue(work'[k])
  BY <1>1, <1>3
<1>6. Len(work') >= Len(work)
  BY <1>3
<1>7. Queued(work', lease')
  BY <1>2, <1>3, <1>5, <1>6, QueueStands
<1>8. \A k \in 1..Len(work) : Steady(work[k], work'[k])
  BY <1>2, <1>3 DEF Steady, NotBegun
<1> QED  BY <1>3, <1>4, <1>7, <1>8 DEF Steadily, WorkInv

\* tool.timeout: whoever waits for the desktop is answered and leaves the queue.
LEMMA WithdrawStep ==
    ASSUME HostInv, Withdraw
    PROVE  Steadily
<1>1. work \in Seq(Work) /\ Queued(work, lease)
  BY DEF HostInv, WorkInv
<1>2. \A k \in 1..Len(work) : work[k] \in Work /\ NotBegun(work[k])
  BY <1>1 DEF HostInv, WorkInv
<1>3. CASE UNCHANGED <<work, lease>>
  BY <1>3, QuietStep
<1>4. ASSUME NEW k \in 1..Len(work), work[k].stage # "lease",
             work' = [work EXCEPT ![k].aborted = TRUE], lease' = lease
      PROVE  Steadily
  <2> DEFINE r == [work[k] EXCEPT !.aborted = TRUE]
  <2>1. r \in Work /\ NotBegun(r) /\ r.stage = work[k].stage /\ r.call = work[k].call
        /\ Steady(work[k], r)
    BY <1>2, <1>4 DEF Work, NotBegun, Steady
  <2>2. /\ work' \in Seq(Work) /\ Len(work') = Len(work) /\ work'[k] = r
        /\ \A j \in 1..Len(work) : j # k => work'[j] = work[j]
    <3>1. work' = [work EXCEPT ![k] = r]
      BY <1>4
    <3>2. work \in Seq(Work) /\ r \in Work
      BY <1>1, <2>1
    <3> HIDE DEF r
    <3> QED  BY <3>1, <3>2, Replaced
  <2> HIDE DEF r
  <2>3. Len(work) \in Nat /\ (Len(work) + 1)..Len(work) = {} /\ Len(work') >= Len(work)
    BY <1>1, <2>2
  <2>4. \A j \in 1..Len(work) :
           work'[j].stage = work[j].stage /\ work'[j].call = work[j].call
    BY <2>1, <2>2
  <2>5. Queued(work', lease')
    BY <1>1, <1>4, <2>2, <2>3, <2>4, QueueStands
  <2> QED  BY <2>1, <2>2, <2>5, OneWork
<1>5. ASSUME NEW k \in 1..Len(work), work[k].stage = "lease",
             work' = [work EXCEPT ![k].aborted = TRUE, ![k].stage = "done",
                                  ![k].answer = "failed"],
             NEW i \in DOMAIN lease, lease[i] = k, lease' = RemoveAt(lease, i)
      PROVE  Steadily
  <2> DEFINE r == [work[k] EXCEPT !.aborted = TRUE, !.stage = "done", !.answer = "failed"]
  <2>1. r \in Work /\ NotBegun(r) /\ ~InQueue(r) /\ Steady(work[k], r)
    BY <1>2, <1>5 DEF Work, NotBegun, Steady, Stages, Answers, InQueue
  <2>2. /\ work' \in Seq(Work) /\ Len(work') = Len(work) /\ work'[k] = r
        /\ \A j \in 1..Len(work) : j # k => work'[j] = work[j]
    <3>1. work' = [work EXCEPT ![k] = r]
      BY <1>5
    <3>2. work \in Seq(Work) /\ r \in Work
      BY <1>1, <2>1
    <3> HIDE DEF r
    <3> QED  BY <3>1, <3>2, Replaced
  <2> HIDE DEF r
  <2>3. i \in 1..Len(lease) /\ i # 1
    BY <1>1, <1>5 DEF Queued
  <2>4. Queued(work', lease')
    <3>1. ~InQueue(work'[k]) /\ lease[i] = k
      BY <1>5, <2>1, <2>2
    <3>2. Queued(work', RemoveAt(lease, i))
      BY <1>1, <2>2, <2>3, <3>1, QueueShrinks
    <3> QED  BY <1>5, <3>2
  <2> QED  BY <2>1, <2>2, <2>4, OneWork
<1> QED  BY <1>3, <1>4, <1>5 DEF Withdraw, RecordOf, Works

\* An answer of a work that is not in the queue.
LEMMA AnswerStep ==
    ASSUME HostInv, NEW k \in 1..Len(work), ~InQueue(work[k]), NEW a \in Answers,
           Answer(k, a)
    PROVE  Steadily
<1>1. work \in Seq(Work) /\ Queued(work, lease) /\ NotBegun(work[k])
  BY DEF HostInv, WorkInv
<1>2. work' = Answered(work, k, a) /\ lease' = lease
  BY DEF Answer
<1>3. /\ work' \in Seq(Work) /\ Len(work') = Len(work)
      /\ work'[k].stage = "done" /\ work'[k].ran = work[k].ran
      /\ \A j \in 1..Len(work) : j # k => work'[j] = work[j]
  BY <1>1, <1>2, AnsweredWork
<1>4. NotBegun(work'[k]) /\ Steady(work[k], work'[k]) /\ ~InQueue(work'[k])
  BY <1>1, <1>3 DEF NotBegun, Steady, InQueue
<1>5. Len(work) \in Nat /\ (Len(work) + 1)..Len(work) = {} /\ Len(work') >= Len(work)
  BY <1>1, <1>3
<1>6. \A j \in 1..Len(work) :
          \/ work'[j].stage = work[j].stage /\ work'[j].call = work[j].call
          \/ ~InQueue(work[j]) /\ ~InQueue(work'[j])
  BY <1>3, <1>4
<1>7. Queued(work', lease')
  BY <1>1, <1>2, <1>3, <1>5, <1>6, QueueStands
<1> QED  BY <1>3, <1>4, <1>7, OneWork

\* withDesktopLease, and actions that need no desktop.
LEMMA BeginStep ==
    ASSUME HostInv, NEW k \in 1..Len(work), Begin(k),
           \/ work[k].stage = "prepare"
           \/ work[k].stage = "asking" /\ ~work[k].aborted
    PROVE  Steadily
<1>1. /\ work \in Seq(Work) /\ Queued(work, lease)
      /\ work[k] \in Work /\ NotBegun(work[k]) /\ ~InQueue(work[k])
  BY DEF HostInv, WorkInv, InQueue
<1>2. CASE ~MustWait(k)
  <2>1. work' = Started(work, k)
    BY <1>2 DEF Begin
  <2>2. /\ work' \in Seq(Work) /\ Len(work') = Len(work)
        /\ work'[k].stage = "running" /\ work'[k].ran = "started"
        /\ work'[k].call = work[k].call
        /\ \A j \in 1..Len(work) : j # k => work'[j] = work[j]
    BY <1>1, <2>1, StartedWork
  <2>3. NotBegun(work'[k]) /\ Steady(work[k], work'[k])
    BY <2>2 DEF NotBegun, Steady
  <2>4. CASE work[k].call \in Foreground
    <3>1. lease = <<>> /\ lease' = Append(lease, k)
      BY <1>2, <2>4 DEF Begin, MustWait
    <3>2. Queued(work', lease')
      BY <1>1, <2>2, <2>4, <3>1, QueueBegins
    <3> QED  BY <2>2, <2>3, <3>2, OneWork
  <2>5. CASE work[k].call \notin Foreground
    <3>1. lease' = lease /\ ~InQueue(work'[k])
      BY <1>2, <2>2, <2>5 DEF Begin, InQueue
    <3>2. Len(work) \in Nat /\ (Len(work) + 1)..Len(work) = {} /\ Len(work') >= Len(work)
      BY <1>1, <2>2
    <3>3. \A j \in 1..Len(work) :
             \/ work'[j].stage = work[j].stage /\ work'[j].call = work[j].call
             \/ ~InQueue(work[j]) /\ ~InQueue(work'[j])
      BY <1>1, <2>2, <3>1
    <3>4. Queued(work', lease')
      BY <1>1, <2>2, <3>1, <3>2, <3>3, QueueStands
    <3> QED  BY <2>2, <2>3, <3>4, OneWork
  <2> QED  BY <2>4, <2>5
<1>3. CASE MustWait(k) /\ work[k].aborted
  <2>1. Answer(k, "failed")
    BY <1>3 DEF Begin
  <2> QED  BY <1>1, <2>1, AnswerStep DEF Answers
<1>4. CASE MustWait(k) /\ ~work[k].aborted
  <2> DEFINE r == [work[k] EXCEPT !.stage = "lease"]
  <2>1. /\ r \in Work /\ NotBegun(r) /\ Steady(work[k], r)
        /\ r.stage = "lease" /\ r.call = work[k].call
    BY <1>1, <1>4 DEF Work, NotBegun, Steady, Stages
  <2>2. work' = [work EXCEPT ![k] = r] /\ lease' = Append(lease, k)
    BY <1>4 DEF Begin
  <2> HIDE DEF r
  <2>3. /\ work' \in Seq(Work) /\ Len(work') = Len(work) /\ work'[k] = r
        /\ \A j \in 1..Len(work) : j # k => work'[j] = work[j]
    BY <1>1, <2>1, <2>2, Replaced
  <2>4. lease # <<>> /\ work[k].call \in Foreground
    BY <1>4 DEF MustWait
  <2>5. Queued(work', lease')
    BY <1>1, <2>1, <2>2, <2>3, <2>4, QueueGrows
  <2> QED  BY <2>1, <2>3, <2>5, OneWork
<1> QED  BY <1>2, <1>3, <1>4

\* Judging an action is steady.
LEMMA JudgeStep ==
    ASSUME HostInv, NEW k \in 1..Len(work), Judge(k)
    PROVE  Steadily
<1>1. /\ work \in Seq(Work) /\ Queued(work, lease) /\ work[k].stage = "prepare"
      /\ work[k] \in Work /\ NotBegun(work[k]) /\ ~InQueue(work[k])
  BY DEF HostInv, WorkInv, InQueue, Judge
<1>2. CASE Answer(k, "failed")
  BY <1>1, <1>2, AnswerStep DEF Answers
<1>3. CASE Begin(k)
  BY <1>1, <1>3, BeginStep
<1>4. CASE work' = [work EXCEPT ![k].stage = "asking"] /\ lease' = lease
  <2> DEFINE r == [work[k] EXCEPT !.stage = "asking"]
  <2>1. r \in Work /\ NotBegun(r) /\ Steady(work[k], r) /\ ~InQueue(r)
    BY <1>1 DEF Work, NotBegun, Steady, Stages, InQueue
  <2>2. work' = [work EXCEPT ![k] = r]
    BY <1>4
  <2> HIDE DEF r
  <2>3. /\ work' \in Seq(Work) /\ Len(work') = Len(work) /\ work'[k] = r
        /\ \A j \in 1..Len(work) : j # k => work'[j] = work[j]
    BY <1>1, <2>1, <2>2, Replaced
  <2>4. Len(work) \in Nat /\ (Len(work) + 1)..Len(work) = {} /\ Len(work') >= Len(work)
    BY <1>1, <2>3
  <2>5. \A j \in 1..Len(work) :
           \/ work'[j].stage = work[j].stage /\ work'[j].call = work[j].call
           \/ ~InQueue(work[j]) /\ ~InQueue(work'[j])
    BY <1>1, <2>1, <2>3
  <2>6. Queued(work', lease')
    BY <1>1, <1>4, <2>3, <2>4, <2>5, QueueStands
  <2> QED  BY <2>1, <2>3, <2>6, OneWork
<1> QED  BY <1>2, <1>3, <1>4 DEF Judge

\* Asking the person is steady.
LEMMA AskStep ==
    ASSUME HostInv, NEW k \in 1..Len(work), Ask(k)
    PROVE  Steadily
<1>1. work[k].stage = "asking" /\ ~InQueue(work[k])
  BY DEF Ask, InQueue
<1>2. CASE MayRun(k) /\ Begin(k)
  BY <1>1, <1>2, BeginStep DEF MayRun
<1>3. CASE Answer(k, "declined")
  BY <1>1, <1>3, AnswerStep DEF Answers
<1> QED  BY <1>2, <1>3 DEF Ask

\* Looking after an action that runs is steady.
LEMMA LookAfterStep ==
    ASSUME HostInv, NEW k \in 1..Len(work), LookAfter(k)
    PROVE  Steadily
<1>1. ~InQueue(work[k]) /\ Answer(k, "done")
  BY DEF LookAfter, InQueue
<1> QED  BY <1>1, AnswerStep DEF Answers

\* The action of a work ends: the desktop passes to the next, if it was its.
LEMMA RunEndsStep ==
    ASSUME HostInv, NEW k \in 1..Len(work), RunEnds(k)
    PROVE  Steadily
<1> DEFINE e == [work EXCEPT ![k].ran = "ended"]
           u == Passed(e, k)
<1>1. /\ work \in Seq(Work) /\ Queued(work, lease) /\ work[k].stage = "running"
      /\ \A j \in 1..Len(work) : work[j] \in Work /\ NotBegun(work[j])
      /\ lease' = Rest(k)
      /\ lease \in Seq(1..Len(work)) /\ Len(work) \in Nat
  BY DEF HostInv, WorkInv, RunEnds, Queued
<1>2. /\ e \in Seq(Work) /\ Len(e) = Len(work)
      /\ e[k].stage = "running" /\ e[k].ran = "ended"
      /\ \A j \in 1..Len(work) : j # k => e[j] = work[j]
  <2> DEFINE r == [work[k] EXCEPT !.ran = "ended"]
  <2>1. work \in Seq(Work) /\ r \in Work /\ r.stage = "running" /\ r.ran = "ended"
    BY <1>1 DEF Work
  <2>2. e = [work EXCEPT ![k] = r]
    OBVIOUS
  <2> HIDE DEF r, e
  <2> QED  BY <2>1, <2>2, Replaced
<1> HIDE DEF e
\* What the works are, apart from the one that ended, and the queue after it.
<1>3. /\ u \in Seq(Work) /\ Len(u) = Len(work) /\ u[k].ran = "ended"
      /\ \A j \in 1..Len(work) : j # k => NotBegun(u[j]) /\ Steady(work[j], u[j])
      /\ \A v \in Seq(Work) :
            /\ Len(v) = Len(work) /\ ~InQueue(v[k])
            /\ \A j \in 1..Len(work) : j # k => v[j] = u[j]
            => Queued(v, Rest(k))
  <2>1. CASE ~Owns(k)
    <3>1. u = e /\ Rest(k) = lease
      BY <2>1 DEF Passed, Rest
    <3>2. ~InQueue(work[k])
      <4>1. ASSUME InQueue(work[k]) PROVE FALSE
        <5>1. PICK i \in 1..Len(lease) : lease[i] = k
          BY <1>1, <4>1 DEF Queued
        <5>2. i = 1
          BY <1>1, <5>1 DEF Queued
        <5>3. lease # <<>> /\ Head(lease) = k
          BY <1>1, <5>1, <5>2
        <5> QED  BY <2>1, <5>3 DEF Owns
      <4> QED  BY <4>1
    <3>3. \A j \in 1..Len(work) : j # k => NotBegun(e[j]) /\ Steady(work[j], e[j])
      BY <1>1, <1>2 DEF Steady, NotBegun
    <3>4. ASSUME NEW v \in Seq(Work), Len(v) = Len(work), ~InQueue(v[k]),
                 \A j \in 1..Len(work) : j # k => v[j] = e[j]
          PROVE  Queued(v, lease)
      <4>1. \A j \in 1..Len(work) :
               \/ v[j].stage = work[j].stage /\ v[j].call = work[j].call
               \/ ~InQueue(work[j]) /\ ~InQueue(v[j])
        BY <1>2, <3>2, <3>4
      <4>2. (Len(work) + 1)..Len(v) = {} /\ Len(v) >= Len(work)
        BY <1>1, <3>4
      <4> QED  BY <1>1, <4>1, <4>2, QueueStands
    <3> QED  BY <1>2, <3>1, <3>3, <3>4
  <2>2. CASE Owns(k) /\ Len(lease) = 1
    <3>1. lease[1] = k /\ lease # <<>> /\ Rest(k) = Tail(lease) /\ Tail(lease) = <<>>
      <4>1. lease # <<>> /\ Head(lease) = k /\ Rest(k) = Tail(lease)
        BY <2>2 DEF Owns, Rest
      <4>2. /\ Tail(lease) \in Seq(1..Len(work)) /\ Len(Tail(lease)) = Len(lease) - 1
            /\ Head(lease) = lease[1]
        BY <1>1, <4>1, HeadTailProperties
      <4>3. Tail(lease) = <<>>
        <5>1. Len(Tail(lease)) = 0
          BY <2>2, <4>2
        <5> QED  BY <4>2, <5>1, EmptySeq
      <4> QED  BY <4>1, <4>2, <4>3
    <3>2. u = e
      BY <3>1 DEF Passed
    <3>3. \A j \in 1..Len(work) : j # k => NotBegun(e[j]) /\ Steady(work[j], e[j])
      BY <1>1, <1>2 DEF Steady, NotBegun
    <3>4. ASSUME NEW v \in Seq(Work), Len(v) = Len(work), ~InQueue(v[k]),
                 \A j \in 1..Len(work) : j # k => v[j] = e[j]
          PROVE  Queued(v, Tail(lease))
      <4>1. \A j \in 1..Len(work) : j # k => v[j].stage = work[j].stage
                                            /\ v[j].call = work[j].call
        BY <1>2, <3>4
      <4>2. ~(Len(lease) > 1)
        BY <2>2
      <4> QED  BY <1>1, <3>1, <3>4, <4>1, <4>2, QueuePasses
    <3> QED  BY <1>2, <3>1, <3>2, <3>3, <3>4
  <2>3. CASE Owns(k) /\ Len(lease) > 1
    <3> DEFINE n == lease[2]
    <3>1. /\ lease[1] = k /\ lease # <<>> /\ Rest(k) = Tail(lease)
          /\ Tail(lease) # <<>> /\ Tail(lease) # lease /\ Head(Tail(lease)) = n
      <4>1. lease # <<>> /\ Head(lease) = k /\ Rest(k) = Tail(lease)
        BY <2>3 DEF Owns, Rest
      <4>2. lease \in Seq(1..Len(work)) /\ Len(lease) \in Nat /\ Len(lease) > 1
        BY <1>1, <2>3
      <4>3. /\ lease[1] = Head(lease) /\ Len(Tail(lease)) = Len(lease) - 1
            /\ Head(Tail(lease)) = lease[2]
        BY <4>1, <4>2
      <4>4. Len(Tail(lease)) # 0 /\ Len(Tail(lease)) # Len(lease)
        BY <4>2, <4>3
      <4>5. Tail(lease) # <<>>
        <5> DEFINE t == Tail(lease)
        <5>1. Len(t) # 0
          BY <4>4
        <5> HIDE DEF t
        <5>2. t # <<>>
          BY <5>1
        <5> QED  BY <5>2 DEF t
      <4>6. Tail(lease) # lease
        BY <4>4, Zenon
      <4> QED  BY <4>1, <4>3, <4>5, <4>6
    <3>2. n \in 1..Len(work) /\ n # k /\ work[n].stage = "lease" /\ ~work[n].aborted
      <4>1. 1 \in 1..Len(lease) /\ 2 \in 1..Len(lease)
        BY <1>1, <2>3
      <4>2. n \in 1..Len(work) /\ n # k /\ work[n].stage = "lease"
        BY <1>1, <3>1, <4>1 DEF Queued
      <4> QED  BY <1>1, <4>2 DEF NotBegun
    <3>3. u = Started(e, n)
      BY <2>3, <3>1 DEF Passed
    <3> HIDE DEF n, u
    <3>4. /\ u \in Seq(Work) /\ Len(u) = Len(work)
          /\ u[n].stage = "running" /\ u[n].call = work[n].call
          /\ \A j \in 1..Len(work) : j # n => u[j] = e[j]
      <4>1. e \in Seq(Work) /\ n \in 1..Len(e) /\ e[n].call = work[n].call
        BY <1>2, <3>2
      <4>2. /\ Started(e, n) \in Seq(Work) /\ Len(Started(e, n)) = Len(e)
            /\ Started(e, n)[n].stage = "running" /\ Started(e, n)[n].call = e[n].call
            /\ \A j \in 1..Len(e) : j # n => Started(e, n)[j] = e[j]
        BY <4>1, StartedWork
      <4> QED  BY <1>2, <3>3, <4>1, <4>2
    <3>5. u[k].ran = "ended"
      BY <1>2, <3>2, <3>4
    <3>6. \A j \in 1..Len(work) : j # k => NotBegun(u[j]) /\ Steady(work[j], u[j])
      BY <1>1, <1>2, <3>2, <3>4 DEF Steady, NotBegun
    <3>7. ASSUME NEW v \in Seq(Work), Len(v) = Len(work), ~InQueue(v[k]),
                 \A j \in 1..Len(work) : j # k => v[j] = u[j]
          PROVE  Queued(v, Tail(lease))
      <4>1. v[n].stage = "running" /\ v[n].call = work[n].call
        BY <3>2, <3>4, <3>7
      <4>2. \A j \in 1..Len(work) :
               j # k /\ j # n => v[j].stage = work[j].stage /\ v[j].call = work[j].call
        BY <1>2, <3>4, <3>7
      <4> QED  BY <1>1, <2>3, <3>1, <3>7, <4>1, <4>2, QueuePasses DEF n
    <3> QED  BY <3>1, <3>4, <3>5, <3>6, <3>7
  <2>4. Owns(k) => Len(lease) = 1 \/ Len(lease) > 1
    <3>1. lease \in Seq(1..Len(work))
      BY <1>1
    <3>2. lease # <<>> => Len(lease) \in Nat /\ Len(lease) > 0
      BY <3>1
    <3> QED  BY <3>2 DEF Owns
  <2> QED  BY <2>1, <2>2, <2>3, <2>4
<1> HIDE DEF u
<1>4. ASSUME NEW r \in Work, r.stage \in {"looking", "done"},
             work' = [u EXCEPT ![k] = r]
      PROVE  Steadily
  <2>1. /\ work' \in Seq(Work) /\ Len(work') = Len(work) /\ work'[k] = r
        /\ \A j \in 1..Len(work) : j # k => work'[j] = u[j]
    BY <1>3, <1>4, Replaced
  <2>2. ~InQueue(r) /\ NotBegun(r) /\ Steady(work[k], r)
    BY <1>1, <1>4 DEF InQueue, NotBegun, Steady
  <2>3. Queued(work', lease')
    BY <1>1, <1>3, <2>1, <2>2
  <2>4. \A j \in 1..Len(work) : NotBegun(work'[j]) /\ Steady(work[j], work'[j])
    BY <1>3, <2>1, <2>2
  <2> QED  BY <2>1, <2>3, <2>4 DEF Steadily, WorkInv
<1>5. u \in Seq(Work) /\ u[k] \in Work
  BY <1>3
<1>6. CASE work' = [u EXCEPT ![k].stage = "looking"]
  <2> DEFINE r == [u[k] EXCEPT !.stage = "looking"]
  <2>1. r \in Work /\ r.stage \in {"looking", "done"}
    BY <1>5 DEF Work, Stages
  <2>2. work' = [u EXCEPT ![k] = r]
    BY <1>6
  <2> HIDE DEF r
  <2> QED  BY <1>4, <2>1, <2>2
<1>7. CASE work' = Answered(u, k, "failed")
  <2> DEFINE r == [u[k] EXCEPT !.stage = "done", !.answer = "failed"]
  <2>1. r \in Work /\ r.stage \in {"looking", "done"}
    BY <1>5 DEF Work, Stages, Answers
  <2>2. work' = [u EXCEPT ![k] = r]
    BY <1>7 DEF Answered
  <2> HIDE DEF r
  <2> QED  BY <1>4, <2>1, <2>2
<1> QED  BY <1>6, <1>7 DEF RunEnds, u, e

-----------------------------------------------------------------------------
\* What travels to the host names calls that were issued.
LEMMA MailStep ==
    ASSUME Mail, CallInv, [Next]_vars
    PROVE  Mail'
<1> USE DEF Mail
<1> DEFINE Msg == [type : {"call", "timeout"}, call : Calls]
<1>1. ASSUME NEW c \in Calls, Issue(c) PROVE Mail'
  <2>1. [type |-> "call", call |-> c] \in Msg
    OBVIOUS
  <2> QED  BY <1>1, <2>1 DEF Issue
<1>2. ASSUME NEW c \in Calls, Look(c) PROVE Mail'
  <2>1. toHost' = toHost /\ (controls' = controls \/ controls' = Append(controls, c))
    BY <1>2 DEF Look, socket
  <2> QED  BY <2>1
<1>3. CASE SendControl
  <2>1. Head(controls) \in Calls /\ Tail(controls) \in Seq(Calls)
    BY <1>3 DEF SendControl
  <2>2. [type |-> "timeout", call |-> Head(controls)] \in Msg
    BY <2>1
  <2> QED  BY <1>3, <2>1, <2>2 DEF SendControl
<1>4. CASE Drop
  BY <1>4 DEF Drop, runtime
<1>5. CASE Resume
  <2>1. Redelivery = <<>> \/ (call \in Calls /\ Redelivery = <<[type |-> "call", call |-> call]>>)
    BY DEF Redelivery, CallInv, CallTypes
  <2>2. ASSUME call \in Calls PROVE <<[type |-> "call", call |-> call]>> \in Seq(Msg)
    <3>1. [type |-> "call", call |-> call] \in Msg
      BY <2>2
    <3> QED  BY <3>1
  <2>3. Redelivery \in Seq(Msg)
    <3>1. <<>> \in Seq(Msg)
      OBVIOUS
    <3> QED  BY <2>1, <2>2, <3>1
  <2> QED  BY <1>5, <2>3 DEF Resume, runtime
<1>6. CASE Dispatch \/ Withdraw
  <2>1. toHost # <<>> /\ toHost' = Tail(toHost) /\ controls' = controls
    BY <1>6 DEF Dispatch, Withdraw, Receive, runtime
  <2> QED  BY <2>1
<1>7. ASSUME UNCHANGED <<toHost, controls>> PROVE Mail'
  BY <1>7
<1>8. CASE TakeAnswer \/ Fed \/ FedUnreadable \/ FeedFails \/ Reconnect
  BY <1>8, <1>7 DEF TakeAnswer, Fed, FedUnreadable, FeedFails, Reconnect, runtime, socket
<1>9. ASSUME NEW c \in Calls, TellTimeout(c) PROVE Mail'
  BY <1>9, <1>7 DEF TellTimeout, socket
<1>10. ASSUME NEW l \in Locals, RunLocal(l) PROVE Mail'
  BY <1>10, <1>7 DEF RunLocal, runtime, socket
<1>11. ASSUME NEW k \in Works, Step(k) PROVE Mail'
  BY <1>11, <1>7 DEF Step, runtime
<1>12. CASE UNCHANGED vars
  BY <1>12, <1>7 DEF vars, runtime, socket
<1> QED
  BY <1>1, <1>2, <1>3, <1>4, <1>5, <1>6, <1>8, <1>9, <1>10, <1>11, <1>12 DEF Next

\* Whatever happens to the works happens steadily.
LEMMA HostNext ==
    ASSUME HostInv, [Next]_vars
    PROVE  Steadily
<1>1. CASE Dispatch
  <2>1. CASE UNCHANGED host
    BY <2>1, QuietStep DEF host
  <2>2. CASE Admit(Head(toHost).call)
    <3>1. toHost # <<>> /\ toHost \in Seq([type : {"call", "timeout"}, call : Calls])
      BY <1>1 DEF Dispatch, Receive, HostInv, Mail
    <3>2. Head(toHost) \in [type : {"call", "timeout"}, call : Calls]
      BY <3>1, HeadTailProperties
    <3>3. Head(toHost).call \in Calls
      BY <3>2
    <3> QED  BY <2>2, <3>3, AdmitStep
  <2> QED  BY <1>1, <2>1, <2>2 DEF Dispatch
<1>2. CASE Withdraw
  BY <1>2, WithdrawStep
<1>3. ASSUME NEW l \in Locals, RunLocal(l) PROVE Steadily
  BY <1>3, AdmitStep DEF RunLocal
<1>4. ASSUME NEW k \in Works, Step(k) PROVE Steadily
  BY <1>4, JudgeStep, AskStep, RunEndsStep, LookAfterStep DEF Step, Works
<1>5. ASSUME UNCHANGED <<work, lease>> PROVE Steadily
  BY <1>5, QuietStep
<1>6. ASSUME NEW c \in Calls, Issue(c) \/ Look(c) \/ TellTimeout(c) PROVE Steadily
  BY <1>6, <1>5 DEF Issue, Look, TellTimeout, host
<1>7. CASE TakeAnswer \/ Fed \/ FedUnreadable \/ FeedFails
  BY <1>7, <1>5 DEF TakeAnswer, Fed, FedUnreadable, FeedFails, host
<1>8. CASE SendControl \/ Drop \/ Reconnect \/ Resume
  BY <1>8, <1>5 DEF SendControl, Drop, Reconnect, Resume, host
<1>9. CASE UNCHANGED vars
  BY <1>9, <1>5 DEF vars, host
<1> QED  BY <1>1, <1>2, <1>3, <1>4, <1>6, <1>7, <1>8, <1>9 DEF Next

\* Nothing was received at first.
LEMMA HostInit == Init => HostInv
<1> SUFFICES ASSUME Init PROVE HostInv
  OBVIOUS
<1>1. Mail
  BY DEF Init, Mail
<1>2. work \in Seq(Work) /\ lease \in Seq(1..Len(work)) /\ Len(work) = 0 /\ Len(lease) = 0
  BY DEF Init
<1> QED  BY <1>1, <1>2 DEF HostInv, WorkInv, Queued

\* The queue of the desktop lists its owner and those that wait, in every reachable
\* state.
THEOREM HostInvariance == Spec => [](CallInv /\ HostInv)
<1>1. CallInv /\ HostInv /\ [Next]_vars => (CallInv /\ HostInv)'
  <2> SUFFICES ASSUME CallInv, HostInv, [Next]_vars PROVE (CallInv /\ HostInv)'
    OBVIOUS
  <2>1. CallInv'
    BY CallNext
  <2>2. Mail'
    BY MailStep DEF HostInv
  <2>3. WorkInv(work', lease')
    BY HostNext DEF Steadily
  <2> QED  BY <2>1, <2>2, <2>3 DEF HostInv
<1> QED  BY CallInit, HostInit, <1>1, PTL DEF Spec

\* At most one foreground action runs, however calls are redelivered or withdrawn,
\* and commands typed, while it does.
THEOREM OneAtATime == Spec => []OneDesktopAction
<1>1. HostInv => OneDesktopAction
  <2> SUFFICES ASSUME HostInv, NEW j \in Works, NEW k \in Works,
                      work[j].call \in Foreground, work[k].call \in Foreground,
                      work[j].stage = "running", work[k].stage = "running"
               PROVE  j = k
    BY DEF OneDesktopAction
  <2>1. Queued(work, lease) /\ j \in 1..Len(work) /\ k \in 1..Len(work)
    BY DEF HostInv, WorkInv, Works
  <2>2. PICK m \in 1..Len(lease) : lease[m] = j
    BY <2>1 DEF Queued, InQueue
  <2>3. PICK n \in 1..Len(lease) : lease[n] = k
    BY <2>1 DEF Queued, InQueue
  <2>4. m = 1 /\ n = 1
    BY <2>1, <2>2, <2>3 DEF Queued
  <2> QED  BY <2>2, <2>3, <2>4
<1> QED  BY <1>1, HostInvariance, PTL

\* The desktop is never kept for an action that is over, whoever left the queue.
THEOREM LeasePasses == Spec => []LeaseIsPassedOn
<1>1. HostInv => LeaseIsPassedOn
  <2> SUFFICES ASSUME HostInv, lease # <<>>
               PROVE  /\ work[Head(lease)].stage = "running"
                      /\ \A i \in 2..Len(lease) : work[lease[i]].stage = "lease"
    BY DEF LeaseIsPassedOn
  <2>1. Queued(work, lease) /\ lease \in Seq(1..Len(work))
    BY DEF HostInv, WorkInv, Queued
  <2>2. Len(lease) \in Nat /\ Len(lease) > 0 /\ Head(lease) = lease[1]
    BY <2>1
  <2>3. 1 \in 1..Len(lease) /\ \A i \in 2..Len(lease) : i \in 1..Len(lease) /\ i # 1
    BY <2>2
  <2> QED  BY <2>1, <2>2, <2>3 DEF Queued
<1> QED  BY <1>1, HostInvariance, PTL

\* Once the host heard that a call timed out, an action still being asked about or
\* waiting for the desktop does not start.
THEOREM NoneStartsLate == Spec => NoLateStart
<1>1. HostInv /\ [Next]_vars =>
         [\A k \in Works : work[k].aborted /\ work[k].stage \in {"asking", "lease"}
                              => work'[k].ran = "no"]_vars
  BY HostNext DEF Steadily, Steady, Works
<1> QED  BY <1>1, HostInvariance, PTL DEF Spec, NoLateStart
-----------------------------------------------------------------------------
(* The calls and their contract.                                           *)

\* What a work is at each stage, and what its answer says of its action.
Honest(w) ==
    /\ w.stage \in {"prepare", "asking", "lease"} => w.ran = "no"
    /\ w.stage = "running" => w.ran = "started"
    /\ w.stage = "looking" => w.ran = "ended"
    /\ w.stage = "done" => w.answer # "none"
    /\ w.stage = "done" /\ w.answer = "done" => w.ran = "ended"
    /\ w.stage = "done" /\ w.answer = "declined" => w.ran = "no"

\* What may become of a work in a step.
Follows(w, x) ==
    /\ x.call = w.call
    /\ \/ x.ran = w.ran
       \/ w.ran = "no" /\ x.ran = "started"
       \/ w.ran = "started" /\ x.ran = "ended"
    /\ w.stage = "done" => x.stage = "done" /\ x.answer = w.answer /\ x.ran = w.ran
    /\ Honest(x)

Message(w) == [call |-> w.call, answer |-> w.answer]

\* A step of the host on the works it has.  Who is done now has sent its answer, unless
\* there is nowhere to send it; nothing else is sent.
HostStep ==
    /\ work' \in Seq(Work) /\ Len(work') = Len(work) /\ known' = known
    /\ \A j \in 1..Len(work) :
          /\ Follows(work[j], work'[j])
          /\ work'[j].stage = "done" /\ work[j].stage # "done" =>
                \/ link = "down" \/ work[j].call \in Locals
                \/ toRuntime' = Append(toRuntime, Message(work'[j]))
    /\ \/ toRuntime' = toRuntime
       \/ \E k \in 1..Len(work) :
             /\ work'[k].stage = "done" /\ work[k].call \notin Locals
             /\ toRuntime' = Append(toRuntime, Message(work'[k]))

HonestHost == HostInv /\ \A k \in 1..Len(work) : Honest(work[k])

-----------------------------------------------------------------------------
\* One work changes, and sends its answer if it is done.
LEMMA OneFollows ==
    ASSUME HonestHost, NEW k \in 1..Len(work), NEW x \in Work, Follows(work[k], x),
           work' = [work EXCEPT ![k] = x], known' = known,
           \/ /\ toRuntime' = toRuntime
              /\ x.stage = "done" =>
                    work[k].stage = "done" \/ link = "down" \/ work[k].call \in Locals
           \/ /\ toRuntime' = Append(toRuntime, Message(x))
              /\ x.stage = "done" /\ work[k].call \notin Locals
    PROVE  HostStep
<1>1. work \in Seq(Work)
  BY DEF HonestHost, HostInv, WorkInv
<1>2. /\ work' \in Seq(Work) /\ Len(work') = Len(work) /\ work'[k] = x
      /\ \A j \in 1..Len(work) : j # k => work'[j] = work[j]
  BY <1>1, Replaced
<1>3. \A j \in 1..Len(work) : j # k => Follows(work[j], work'[j])
  BY <1>2 DEF Follows, HonestHost
<1> QED  BY <1>2, <1>3 DEF HostStep

\* A work that is not done yet is answered, as its action went.
LEMMA AnswerFollows ==
    ASSUME HonestHost, NEW k \in 1..Len(work), NEW a \in Answers, Answer(k, a),
           known' = known, work[k].stage # "done",
           a = "done" => work[k].ran = "ended", a = "declined" => work[k].ran = "no"
    PROVE  HostStep
<1> DEFINE x == [work[k] EXCEPT !.stage = "done", !.answer = a]
<1>1. work[k] \in Work /\ Honest(work[k])
  BY DEF HonestHost, HostInv, WorkInv
<1>2. /\ x \in Work /\ x.stage = "done" /\ x.answer = a /\ x.ran = work[k].ran
      /\ x.call = work[k].call
  BY <1>1 DEF Work, Stages
<1>3. Follows(work[k], x)
  <2> HIDE DEF x
  <2> QED  BY <1>1, <1>2 DEF Follows, Honest, Answers
<1>4. work' = [work EXCEPT ![k] = x]
  BY DEF Answer, Answered
<1>5. Message(x) = [call |-> work[k].call, answer |-> a]
  BY <1>2 DEF Message
<1>6. \/ toRuntime' = toRuntime /\ (link = "down" \/ work[k].call \in Locals)
      \/ toRuntime' = Append(toRuntime, Message(x)) /\ work[k].call \notin Locals
  BY <1>5 DEF Answer, Send
<1> HIDE DEF x
<1> QED  BY <1>2, <1>3, <1>4, <1>6, OneFollows

\* A work that is not done yet goes on to another stage, and sends nothing.
LEMMA StageFollows ==
    ASSUME HonestHost, NEW k \in 1..Len(work), NEW x \in Work, work[k].stage # "done",
           x.stage # "done", x.call = work[k].call, Honest(x),
           x.ran = work[k].ran \/ (work[k].ran = "no" /\ x.ran = "started"),
           work' = [work EXCEPT ![k] = x], UNCHANGED <<known, toRuntime>>
    PROVE  HostStep
<1>1. Follows(work[k], x)
  BY DEF Follows
<1> QED  BY <1>1, OneFollows

\* withDesktopLease, and actions that need no desktop.
LEMMA BeginFollows ==
    ASSUME HonestHost, NEW k \in 1..Len(work), Begin(k), known' = known,
           work[k].stage \in {"prepare", "asking"}
    PROVE  HostStep
<1>1. work[k] \in Work /\ Honest(work[k]) /\ work[k].ran = "no"
  BY DEF HonestHost, HostInv, WorkInv, Honest
<1>2. CASE ~MustWait(k)
  <2> DEFINE x == [work[k] EXCEPT !.stage = "running", !.ran = "started"]
  <2>1. x \in Work /\ x.stage = "running" /\ x.ran = "started" /\ x.call = work[k].call
    BY <1>1 DEF Work, Stages
  <2>2. work' = [work EXCEPT ![k] = x] /\ toRuntime' = toRuntime
    BY <1>2 DEF Begin, Started
  <2> HIDE DEF x
  <2>3. Honest(x)
    BY <2>1 DEF Honest
  <2> QED  BY <1>1, <2>1, <2>2, <2>3, StageFollows
<1>3. CASE MustWait(k) /\ work[k].aborted
  <2>1. Answer(k, "failed")
    BY <1>3 DEF Begin
  <2> QED  BY <2>1, AnswerFollows DEF Answers
<1>4. CASE MustWait(k) /\ ~work[k].aborted
  <2> DEFINE x == [work[k] EXCEPT !.stage = "lease"]
  <2>1. x \in Work /\ x.stage = "lease" /\ x.ran = "no" /\ x.call = work[k].call
    BY <1>1 DEF Work, Stages
  <2>2. work' = [work EXCEPT ![k] = x] /\ toRuntime' = toRuntime
    BY <1>4 DEF Begin
  <2> HIDE DEF x
  <2>3. Honest(x)
    BY <2>1 DEF Honest
  <2> QED  BY <1>1, <2>1, <2>2, <2>3, StageFollows
<1> QED  BY <1>2, <1>3, <1>4

\* Whether an action may run is judged, or asked.
LEMMA JudgeAskFollow ==
    ASSUME HonestHost, NEW k \in 1..Len(work), Judge(k) \/ Ask(k), known' = known
    PROVE  HostStep
<1>1. work[k] \in Work /\ Honest(work[k])
  BY DEF HonestHost, HostInv, WorkInv
<1>2. work[k].stage \in {"prepare", "asking"} /\ work[k].ran = "no"
  BY <1>1 DEF Judge, Ask, Honest
<1>3. CASE Answer(k, "failed") \/ Answer(k, "declined")
  BY <1>2, <1>3, AnswerFollows DEF Answers
<1>4. CASE Begin(k)
  BY <1>2, <1>4, BeginFollows
<1>5. CASE work' = [work EXCEPT ![k].stage = "asking"] /\ toRuntime' = toRuntime
  <2> DEFINE x == [work[k] EXCEPT !.stage = "asking"]
  <2>1. x \in Work /\ x.stage = "asking" /\ x.ran = "no" /\ x.call = work[k].call
    BY <1>1, <1>2 DEF Work, Stages
  <2>2. work' = [work EXCEPT ![k] = x]
    BY <1>5
  <2> HIDE DEF x
  <2>3. Honest(x)
    BY <2>1 DEF Honest
  <2> QED  BY <1>2, <1>5, <2>1, <2>2, <2>3, StageFollows
<1> QED  BY <1>3, <1>4, <1>5 DEF Judge, Ask

\* What was looked after is answered "done".
LEMMA LookAfterFollows ==
    ASSUME HonestHost, NEW k \in 1..Len(work), LookAfter(k), known' = known
    PROVE  HostStep
<1>1. work[k].stage = "looking" /\ work[k].ran = "ended" /\ Answer(k, "done")
  BY DEF LookAfter, HonestHost, Honest
<1> QED  BY <1>1, AnswerFollows DEF Answers

\* Who is behind the owner of the desktop waits for it.
LEMMA NextInLine ==
    ASSUME HostInv, NEW k \in 1..Len(work), Owns(k), Rest(k) \notin {<<>>, lease}
    PROVE  /\ Head(Rest(k)) \in 1..Len(work) /\ Head(Rest(k)) # k
           /\ work[Head(Rest(k))].stage = "lease"
<1>1. Queued(work, lease) /\ lease \in Seq(1..Len(work))
  BY DEF HostInv, WorkInv, Queued
<1>2. lease # <<>> /\ Head(lease) = k /\ Rest(k) = Tail(lease)
  BY DEF Owns, Rest
<1>3. Len(lease) \in Nat /\ Len(lease) > 0 /\ lease[1] = k
  BY <1>1, <1>2
<1>4. Len(lease) > 1
  <2>1. Tail(lease) \in Seq(1..Len(work)) /\ Len(Tail(lease)) = Len(lease) - 1
    BY <1>1, <1>2, HeadTailProperties
  <2>2. Len(Tail(lease)) \in Nat \ {0}
    BY <1>2, <2>1, EmptySeq
  <2> QED  BY <1>3, <2>1, <2>2
<1>5. Head(Tail(lease)) = lease[2]
  BY <1>1, <1>4
<1>6. 1 \in 1..Len(lease) /\ 2 \in 1..Len(lease)
  BY <1>3, <1>4
<1> QED  BY <1>1, <1>2, <1>3, <1>5, <1>6 DEF Queued

\* An action ends, and another may start in the same turn.
LEMMA RunEndsFollows ==
    ASSUME HonestHost, NEW k \in 1..Len(work), RunEnds(k), known' = known
    PROVE  HostStep
<1> DEFINE e == [work EXCEPT ![k].ran = "ended"]
           u == Passed(e, k)
           r == [work[k] EXCEPT !.ran = "ended"]
<1>1. /\ work \in Seq(Work) /\ work[k].stage = "running" /\ work[k].ran = "started"
      /\ \A j \in 1..Len(work) : work[j] \in Work /\ Honest(work[j])
  BY DEF HonestHost, HostInv, WorkInv, RunEnds, Honest
<1>2. r \in Work /\ r.ran = "ended" /\ r.call = work[k].call
  BY <1>1 DEF Work
<1>3. /\ e \in Seq(Work) /\ Len(e) = Len(work) /\ e[k] = r
      /\ \A j \in 1..Len(work) : j # k => e[j] = work[j]
  <2>1. e = [work EXCEPT ![k] = r]
    OBVIOUS
  <2> HIDE DEF e, r
  <2> QED  BY <1>1, <1>2, <2>1, Replaced
<1> HIDE DEF e
<1>4. /\ u \in Seq(Work) /\ Len(u) = Len(work) /\ u[k] = r
      /\ \A j \in 1..Len(work) :
            j # k => Follows(work[j], u[j]) /\ (u[j].stage = "done" => work[j].stage = "done")
  <2>0. \A j \in 1..Len(work) : Follows(work[j], work[j])
    BY <1>1 DEF Follows
  <2>1. CASE u = e
    <3> HIDE DEF u, r
    <3> QED  BY <1>3, <2>0, <2>1
  <2>2. CASE Owns(k) /\ Rest(k) \notin {<<>>, lease}
    <3> DEFINE n == Head(Rest(k))
    <3>1. n \in 1..Len(work) /\ n # k /\ work[n].stage = "lease"
      BY <2>2, NextInLine DEF HonestHost
    <3>2. u = Started(e, n)
      BY <2>2 DEF Passed
    <3> HIDE DEF n, u, r
    <3>3. /\ u \in Seq(Work) /\ Len(u) = Len(e)
          /\ u[n].stage = "running" /\ u[n].ran = "started" /\ u[n].call = e[n].call
          /\ \A j \in 1..Len(e) : j # n => u[j] = e[j]
      BY <1>3, <3>1, <3>2, StartedWork
    <3>4. work[n].ran = "no"
      BY <1>1, <3>1 DEF Honest
    <3>5. Follows(work[n], u[n]) /\ u[n].stage # "done"
      BY <1>3, <3>1, <3>3, <3>4 DEF Follows, Honest
    <3> QED  BY <1>3, <2>0, <3>1, <3>3, <3>5
  <2> QED  BY <2>1, <2>2 DEF Passed
<1> HIDE DEF u
<1>5. ASSUME NEW x \in Work, x.stage \in {"looking", "done"}, x.ran = "ended",
             x.call = work[k].call, x.stage = "done" => x.answer = "failed",
             work' = [u EXCEPT ![k] = x],
             \/ x.stage = "looking" /\ toRuntime' = toRuntime
             \/ x.stage = "done" /\ Send(work[k].call, "failed")
      PROVE  HostStep
  <2>1. /\ work' \in Seq(Work) /\ Len(work') = Len(work) /\ work'[k] = x
        /\ \A j \in 1..Len(work) : j # k => work'[j] = u[j]
    BY <1>4, <1>5, Replaced
  <2>2. Follows(work[k], x)
    BY <1>1, <1>5 DEF Follows, Honest
  <2>3. \A j \in 1..Len(work) : Follows(work[j], work'[j])
    BY <1>4, <2>1, <2>2
  <2>4. x.stage = "done" => Message(x) = [call |-> work[k].call, answer |-> "failed"]
    BY <1>5 DEF Message
  <2>5. \/ toRuntime' = toRuntime
           /\ (x.stage = "done" => link = "down" \/ work[k].call \in Locals)
        \/ /\ toRuntime' = Append(toRuntime, Message(x))
           /\ x.stage = "done" /\ work[k].call \notin Locals
    BY <1>5, <2>4 DEF Send
  <2>6. \A j \in 1..Len(work) :
           j # k => ~(work'[j].stage = "done" /\ work[j].stage # "done")
    BY <1>4, <2>1
  <2> QED  BY <2>1, <2>3, <2>5, <2>6 DEF HostStep
<1>6. CASE work' = [u EXCEPT ![k].stage = "looking"] /\ toRuntime' = toRuntime
  <2> DEFINE x == [r EXCEPT !.stage = "looking"]
  <2>1. x \in Work /\ x.stage = "looking" /\ x.ran = "ended" /\ x.call = work[k].call
    BY <1>2 DEF Work, Stages
  <2>2. work' = [u EXCEPT ![k] = x]
    <3>1. u[k] = r
      BY <1>4
    <3> HIDE DEF r
    <3> QED  BY <1>6, <3>1
  <2> HIDE DEF x, r
  <2> QED  BY <1>5, <1>6, <2>1, <2>2
<1>7. CASE work' = Answered(u, k, "failed") /\ Send(work[k].call, "failed")
  <2> DEFINE x == [r EXCEPT !.stage = "done", !.answer = "failed"]
  <2>1. /\ x \in Work /\ x.stage = "done" /\ x.ran = "ended" /\ x.call = work[k].call
        /\ x.answer = "failed"
    BY <1>2 DEF Work, Stages, Answers
  <2>2. work' = [u EXCEPT ![k] = x]
    <3>1. u[k] = r
      BY <1>4
    <3> HIDE DEF r
    <3> QED  BY <1>7, <3>1 DEF Answered
  <2> HIDE DEF x, r
  <2> QED  BY <1>5, <1>7, <2>1, <2>2
<1> QED  BY <1>6, <1>7 DEF RunEnds, u, e

\* tool.timeout: whoever waits for the desktop is answered.
LEMMA WithdrawFollows ==
    ASSUME HonestHost, Withdraw
    PROVE  HostStep
<1>1. /\ work \in Seq(Work) /\ known' = known
      /\ \A j \in 1..Len(work) : work[j] \in Work /\ Honest(work[j])
  <2>1. work \in Seq(Work) /\ \A j \in 1..Len(work) : work[j] \in Work /\ Honest(work[j])
    BY DEF HonestHost, HostInv, WorkInv
  <2> QED  BY <2>1 DEF Withdraw
<1>2. CASE UNCHANGED <<work, toRuntime>>
  BY <1>1, <1>2 DEF HostStep, Follows
<1>3. ASSUME NEW k \in 1..Len(work), work' = [work EXCEPT ![k].aborted = TRUE],
             toRuntime' = toRuntime
      PROVE  HostStep
  <2> DEFINE x == [work[k] EXCEPT !.aborted = TRUE]
  <2>1. /\ x \in Work /\ x.stage = work[k].stage /\ x.ran = work[k].ran
        /\ x.call = work[k].call /\ x.answer = work[k].answer
    BY <1>1 DEF Work
  <2>2. work' = [work EXCEPT ![k] = x]
    BY <1>3
  <2> HIDE DEF x
  <2>3. Follows(work[k], x)
    BY <1>1, <2>1 DEF Follows, Honest
  <2> QED  BY <1>1, <1>3, <2>1, <2>2, <2>3, OneFollows
<1>4. ASSUME NEW k \in 1..Len(work), work[k].stage = "lease",
             work' = [work EXCEPT ![k].aborted = TRUE, ![k].stage = "done",
                                  ![k].answer = "failed"],
             Send(work[k].call, "failed")
      PROVE  HostStep
  <2> DEFINE x == [work[k] EXCEPT !.aborted = TRUE, !.stage = "done", !.answer = "failed"]
  <2>1. /\ x \in Work /\ x.stage = "done" /\ x.ran = work[k].ran
        /\ x.call = work[k].call /\ x.answer = "failed"
    BY <1>1 DEF Work, Stages, Answers
  <2>2. work' = [work EXCEPT ![k] = x]
    BY <1>4
  <2>3. Message(x) = [call |-> work[k].call, answer |-> "failed"]
    BY <2>1 DEF Message
  <2> HIDE DEF x
  <2>4. Follows(work[k], x)
    BY <1>1, <1>4, <2>1 DEF Follows, Honest
  <2>5. \/ toRuntime' = toRuntime /\ (link = "down" \/ work[k].call \in Locals)
        \/ toRuntime' = Append(toRuntime, Message(x)) /\ work[k].call \notin Locals
    BY <1>4, <2>3 DEF Send
  <2> QED  BY <1>1, <2>1, <2>2, <2>4, <2>5, OneFollows
<1> QED  BY <1>2, <1>3, <1>4 DEF Withdraw, RecordOf, Works

-----------------------------------------------------------------------------
(***************************************************************************)
(* The host's memory, and what a step is to the works: the host goes on    *)
(* with those it has, takes one in, or leaves them alone.                  *)
(***************************************************************************)
\* calls keeps the last works, in their order.
KnownInv ==
    /\ known \in Seq(Nat)
    /\ Len(known) = IF Len(work) <= Remembered THEN Len(work) ELSE Remembered
    /\ \A i \in 1..Len(known) : known[i] = Len(work) - Len(known) + i

Kept(k) == k > Len(work) - Remembered

\* A work is remembered until enough others came after it.
LEMMA KnownIsKept ==
    ASSUME KnownInv, work \in Seq(Work), NEW k \in 1..Len(work)
    PROVE  Contains(known, k) <=> Kept(k)
<1>1. Len(work) \in Nat /\ Remembered \in Nat \ {0} /\ Len(known) \in Nat
  BY BoundsAssumption DEF KnownInv
<1>2. Len(known) <= Remembered /\ (Len(known) = Remembered \/ Len(known) = Len(work))
  BY <1>1 DEF KnownInv
<1>3. k \in Nat /\ 1 <= k /\ k <= Len(work)
  BY <1>1
<1>4. \A i \in 1..Len(known) : known[i] = (Len(work) - Len(known)) + i
  BY DEF KnownInv
<1>5. ASSUME Contains(known, k) PROVE Kept(k)
  <2>1. PICK i \in 1..Len(known) : known[i] = k
    BY <1>5 DEF Contains
  <2>2. k = (Len(work) - Len(known)) + i /\ i \in Nat /\ 1 <= i
    <3>1. known[i] = (Len(work) - Len(known)) + i
      BY <1>4, <2>1
    <3>2. i \in Nat /\ 1 <= i
      BY <1>1
    <3> QED  BY <2>1, <3>1, <3>2
  <2> QED  BY <1>1, <1>2, <1>3, <2>2 DEF Kept
<1>6. ASSUME Kept(k) PROVE Contains(known, k)
  <2> DEFINE i == k - (Len(work) - Len(known))
  <2>1. i \in 1..Len(known) /\ (Len(work) - Len(known)) + i = k
    BY <1>1, <1>2, <1>3, <1>6 DEF Kept
  <2> HIDE DEF i
  <2>2. known[i] = k
    BY <1>4, <2>1
  <2> QED  BY <2>1, <2>2 DEF Contains
<1> QED  BY <1>5, <1>6

NewWork(c) == [call |-> c, stage |-> "prepare", aborted |-> FALSE, ran |-> "no",
               answer |-> "none"]

Others == <<issued, call, resolving, feed, told, link, failures>>

\* The host goes on; of what it received it has the work, and sends its answer again if
\* that work is done.
Worked ==
    /\ HostStep /\ UNCHANGED Others
    /\ \/ toHost' = toHost
       \/ /\ toHost # <<>> /\ toHost' = Tail(toHost) /\ link = "up"
          /\ Head(toHost).type = "call" =>
                \E k \in 1..Len(work) :
                   /\ Kept(k) /\ work[k].call = Head(toHost).call
                   /\ work[k].stage = "done" =>
                         \/ work[k].call \in Locals
                         \/ toRuntime' = Append(toRuntime, Message(work'[k]))

\* The host takes in a work: a command, or a call that it does not remember.
Admitted(c) ==
    /\ Admit(c) /\ UNCHANGED <<Others, toRuntime>>
    /\ \/ /\ c \in Locals /\ toHost' = toHost
          /\ \A k \in 1..Len(work) : work[k].call # c
       \/ /\ toHost # <<>> /\ toHost' = Tail(toHost)
          /\ Head(toHost).type = "call" /\ Head(toHost).call = c /\ c \in Calls
          /\ \A k \in 1..Len(work) : Kept(k) => work[k].call # c

\* A step that is the runtime's or the socket's leaves the works alone.
LEMMA HostMoves ==
    ASSUME HonestHost, KnownInv, [Next]_vars
    PROVE  \/ Worked
           \/ \E c \in Calls \cup Locals : Admitted(c)
           \/ /\ UNCHANGED <<work, known>>
              /\ \/ \E c \in Calls : Issue(c)
                 \/ TakeAnswer \/ SendControl \/ Drop \/ Resume
           \/ /\ UNCHANGED <<work, known, toRuntime, toHost>>
              /\ \/ \E c \in Calls : Look(c) \/ TellTimeout(c)
                 \/ Fed \/ FedUnreadable \/ FeedFails \/ Reconnect \/ UNCHANGED vars
<1>1. /\ work \in Seq(Work)
      /\ \A k \in 1..Len(work) : Contains(known, k) <=> Kept(k)
      /\ \A k \in 1..Len(work) : Follows(work[k], work[k])
  <2>1. work \in Seq(Work) /\ \A k \in 1..Len(work) : Honest(work[k])
    BY DEF HonestHost, HostInv, WorkInv
  <2>2. \A k \in 1..Len(work) : Contains(known, k) <=> Kept(k)
    BY <2>1, KnownIsKept
  <2> QED  BY <2>1, <2>2 DEF Follows
<1>2. \A c : RecordOf(c) = {k \in 1..Len(work) : work[k].call = c /\ Kept(k)}
  BY <1>1 DEF RecordOf, Works
<1>3. CASE Dispatch
  <2>1. /\ toHost # <<>> /\ toHost' = Tail(toHost) /\ Head(toHost).type = "call"
        /\ link = "up" /\ UNCHANGED Others
    <3>1. Receive("call")
      BY <1>3 DEF Dispatch
    <3> QED  BY <3>1 DEF Receive, runtime, Others
  <2>2. Head(toHost).call \in Calls
    <3>1. toHost \in Seq([type : {"call", "timeout"}, call : Calls])
      BY DEF HonestHost, HostInv, Mail
    <3>2. Head(toHost) \in [type : {"call", "timeout"}, call : Calls]
      BY <2>1, <3>1, HeadTailProperties
    <3> QED  BY <3>2
  <2>3. CASE RecordOf(Head(toHost).call) = {}
    <3>1. Admit(Head(toHost).call) /\ UNCHANGED toRuntime
      BY <1>3, <2>3 DEF Dispatch
    <3>2. \A k \in 1..Len(work) : Kept(k) => work[k].call # Head(toHost).call
      BY <1>2, <2>3
    <3>3. Admitted(Head(toHost).call)
      BY <2>1, <2>2, <3>1, <3>2 DEF Admitted
    <3> QED  BY <2>2, <3>3
  <2>4. CASE RecordOf(Head(toHost).call) # {}
    <3>1. /\ UNCHANGED host
          /\ \E k \in RecordOf(Head(toHost).call) :
                IF work[k].stage = "done" THEN Send(Head(toHost).call, work[k].answer)
                ELSE UNCHANGED toRuntime
      BY <1>3, <2>4 DEF Dispatch
    <3>2. PICK k \in 1..Len(work) :
             /\ work[k].call = Head(toHost).call /\ Kept(k)
             /\ IF work[k].stage = "done" THEN Send(Head(toHost).call, work[k].answer)
                ELSE UNCHANGED toRuntime
      BY <1>2, <3>1
    <3>3. UNCHANGED <<work, known>>
      BY <3>1 DEF host
    <3>4. work[k].call \notin Locals /\ link # "down"
      BY <2>1, <2>2, <3>2, IdsAssumption
    <3>5. work[k].stage = "done" => toRuntime' = Append(toRuntime, Message(work'[k]))
      BY <3>2, <3>3, <3>4 DEF Send, Message
    <3>6. HostStep
      <4>1. \/ toRuntime' = toRuntime
            \/ work'[k].stage = "done" /\ toRuntime' = Append(toRuntime, Message(work'[k]))
        BY <3>2, <3>3, <3>5
      <4> QED  BY <1>1, <3>3, <3>4, <4>1 DEF HostStep
    <3>7. Worked
      BY <2>1, <3>2, <3>5, <3>6 DEF Worked
    <3> QED  BY <3>7
  <2> QED  BY <2>3, <2>4
<1>4. CASE Withdraw
  <2>1. /\ toHost # <<>> /\ toHost' = Tail(toHost) /\ Head(toHost).type = "timeout"
        /\ link = "up" /\ UNCHANGED Others
    BY <1>4 DEF Withdraw, Receive, runtime, Others
  <2>2. Worked
    BY <1>4, <2>1, WithdrawFollows DEF Worked
  <2> QED  BY <2>2
<1>5. ASSUME NEW l \in Locals, RunLocal(l)
      PROVE  \E c \in Calls \cup Locals : Admitted(c)
  <2>1. Admit(l) /\ UNCHANGED <<Others, toRuntime, toHost>>
    BY <1>5 DEF RunLocal, runtime, socket, Others
  <2>2. \A k \in 1..Len(work) : work[k].call # l
    BY <1>5 DEF RunLocal, Works
  <2>3. Admitted(l)
    BY <2>1, <2>2 DEF Admitted
  <2> QED  BY <2>3
<1>6. ASSUME NEW k \in Works, Step(k) PROVE Worked
  <2>1. HostStep
    BY <1>6, JudgeAskFollow, RunEndsFollows, LookAfterFollows DEF Step, Works
  <2>2. UNCHANGED Others /\ toHost' = toHost
    BY <1>6 DEF Step, runtime, Others
  <2> QED  BY <2>1, <2>2 DEF Worked
<1>7. CASE \E c \in Calls : Issue(c)
  BY <1>7 DEF Issue, host
<1>8. ASSUME NEW c \in Calls, Look(c) \/ TellTimeout(c)
      PROVE  UNCHANGED <<work, known, toRuntime, toHost>>
  BY <1>8 DEF Look, TellTimeout, host, socket
<1>9. CASE TakeAnswer \/ SendControl \/ Drop \/ Resume
  BY <1>9 DEF TakeAnswer, SendControl, Drop, Resume, host
<1>10. CASE Fed \/ FedUnreadable \/ FeedFails \/ Reconnect \/ UNCHANGED vars
  BY <1>10 DEF Fed, FedUnreadable, FeedFails, Reconnect, vars, host, socket
<1> QED
  BY <1>3, <1>4, <1>5, <1>6, <1>7, <1>8, <1>9, <1>10 DEF Next

\* A work that is taken in is the last, and the last that is remembered.
LEMMA AdmittedKnown ==
    ASSUME HonestHost, KnownInv, NEW c \in Calls \cup Locals, Admitted(c)
    PROVE  /\ Len(work) \in Nat /\ Len(work') = Len(work) + 1
           /\ work'[Len(work) + 1] = NewWork(c)
           /\ \A k \in 1..Len(work) : work'[k] = work[k]
           /\ KnownInv'
<1> DEFINE n == Len(work)
           all == Append(known, n + 1)
<1>0. NewWork(c) \in Work
  BY DEF NewWork, Work, Stages
<1>1. /\ work \in Seq(Work) /\ work' = Append(work, NewWork(c)) /\ known' = Remember(n + 1)
  <2>1. work \in Seq(Work)
    BY DEF HonestHost, HostInv, WorkInv
  <2>2. Admit(c)
    BY DEF Admitted
  <2> QED  BY <2>1, <2>2 DEF Admit, NewWork
<1>2. /\ n \in Nat /\ Len(work') = n + 1 /\ work'[n + 1] = NewWork(c)
      /\ \A k \in 1..n : work'[k] = work[k]
  <2> HIDE DEF NewWork
  <2> QED  BY <1>0, <1>1
<1>3. /\ known \in Seq(Nat) /\ Len(known) \in Nat /\ Remembered \in Nat \ {0}
      /\ Len(known) = IF n <= Remembered THEN n ELSE Remembered
      /\ \A i \in 1..Len(known) : known[i] = n - Len(known) + i
  <2>1. known \in Seq(Nat) /\ Remembered \in Nat \ {0}
    BY BoundsAssumption DEF KnownInv
  <2>2. Len(known) \in Nat
    BY <2>1, LenProperties
  <2>3. /\ Len(known) = IF n <= Remembered THEN n ELSE Remembered
        /\ \A i \in 1..Len(known) : known[i] = n - Len(known) + i
    BY DEF KnownInv
  <2> QED  BY <2>1, <2>2, <2>3
<1> HIDE DEF n
<1>4. /\ all \in Seq(Nat) /\ Len(all) = Len(known) + 1 /\ all # <<>>
      /\ \A i \in 1..Len(all) : all[i] = (n + 1) - Len(all) + i
  <2>1. all \in Seq(Nat) /\ Len(all) = Len(known) + 1 /\ all[Len(known) + 1] = n + 1
    BY <1>2, <1>3
  <2>2. \A i \in 1..Len(known) : all[i] = known[i]
    BY <1>2, <1>3
  <2>3. \A i \in 1..Len(known) : all[i] = (n + 1) - (Len(known) + 1) + i
    BY <1>2, <1>3, <2>2
  <2>4. \A i \in 1..(Len(known) + 1) : i \in 1..Len(known) \/ i = Len(known) + 1
    BY <1>3
  <2>5. (n + 1) - (Len(known) + 1) + (Len(known) + 1) = n + 1
    BY <1>2, <1>3
  <2>6. all # <<>>
    BY <1>3, <2>1, EmptySeq
  <2> HIDE DEF all
  <2> QED  BY <2>1, <2>3, <2>4, <2>5, <2>6
<1>5. known' = IF Len(all) > Remembered THEN Tail(all) ELSE all
  BY <1>1 DEF Remember
<1> HIDE DEF all
<1>6. KnownInv'
  <2>1. CASE Len(all) > Remembered
    <3>1. /\ known' = Tail(all) /\ Tail(all) \in Seq(Nat) /\ Len(Tail(all)) = Len(all) - 1
          /\ \A i \in 1..Len(Tail(all)) : Tail(all)[i] = all[i + 1]
      BY <1>4, <1>5, <2>1, HeadTailProperties
    <3>2. Len(known) = Remembered /\ Len(known') = Remembered /\ n >= Remembered
      BY <1>2, <1>3, <1>4, <2>1, <3>1
    <3>3. \A i \in 1..Len(known') : known'[i] = (n + 1) - Len(known') + i
      <4>1. ASSUME NEW i \in 1..Len(known')
            PROVE  known'[i] = (n + 1) - Len(known') + i
        <5>1. i \in Nat /\ i + 1 \in 1..Len(all) /\ known'[i] = all[i + 1]
          BY <1>3, <1>4, <3>1, <3>2
        <5>2. all[i + 1] = (n + 1) - Len(all) + (i + 1)
          BY <1>4, <5>1
        <5> QED  BY <1>2, <1>3, <1>4, <3>2, <5>1, <5>2
      <4> QED  BY <4>1
    <3>4. Len(work') = n + 1 /\ ~(n + 1 <= Remembered)
      BY <1>2, <1>3, <3>2
    <3> QED  BY <3>1, <3>2, <3>3, <3>4 DEF KnownInv
  <2>2. CASE ~(Len(all) > Remembered)
    <3>1. known' = all /\ n + 1 <= Remembered /\ Len(known') = n + 1
      BY <1>2, <1>3, <1>4, <1>5, <2>2
    <3> QED  BY <1>2, <1>4, <3>1 DEF KnownInv
  <2> QED  BY <2>1, <2>2
<1> QED  BY <1>2, <1>6 DEF n

\* Every work goes on as it may, and the host remembers the last of them.
LEMMA WorksGo ==
    ASSUME HonestHost, KnownInv, [Next]_vars
    PROVE  /\ Len(work) \in Nat /\ Len(work') \in Nat /\ Len(work') >= Len(work)
           /\ \A k \in 1..Len(work) : k \in 1..Len(work') /\ Follows(work[k], work'[k])
           /\ \A k \in 1..Len(work') : Honest(work'[k])
           /\ \A k \in 1..Len(work') : k \in 1..Len(work) \/ work'[k].ran = "no"
           /\ KnownInv'
<1>1. /\ work \in Seq(Work) /\ Len(work) \in Nat
      /\ \A k \in 1..Len(work) : Honest(work[k]) /\ Follows(work[k], work[k])
  <2>1. work \in Seq(Work) /\ \A k \in 1..Len(work) : Honest(work[k])
    BY DEF HonestHost, HostInv, WorkInv
  <2> QED  BY <2>1 DEF Follows
<1>2. CASE UNCHANGED <<work, known>>
  <2>1. KnownInv'
    BY <1>2 DEF KnownInv
  <2>2. work' = work
    BY <1>2
  <2> QED  BY <1>1, <2>1, <2>2
<1>3. CASE HostStep
  <2>1. /\ Len(work') = Len(work) /\ known' = known
        /\ \A k \in 1..Len(work) : Follows(work[k], work'[k])
    BY <1>3 DEF HostStep
  <2>2. \A k \in 1..Len(work) : Honest(work'[k])
    BY <2>1 DEF Follows
  <2>3. KnownInv'
    BY <2>1 DEF KnownInv
  <2>4. Len(work') \in Nat /\ Len(work') >= Len(work)
    BY <1>1, <2>1
  <2> QED  BY <1>1, <2>1, <2>2, <2>3, <2>4
<1>4. ASSUME NEW c \in Calls \cup Locals, Admitted(c)
      PROVE  /\ Len(work') \in Nat /\ Len(work') >= Len(work)
             /\ \A k \in 1..Len(work) : k \in 1..Len(work') /\ Follows(work[k], work'[k])
             /\ \A k \in 1..Len(work') : Honest(work'[k])
             /\ \A k \in 1..Len(work') : k \in 1..Len(work) \/ work'[k].ran = "no"
             /\ KnownInv'
  <2>1. /\ Len(work') = Len(work) + 1 /\ work'[Len(work) + 1] = NewWork(c)
        /\ \A k \in 1..Len(work) : work'[k] = work[k]
        /\ KnownInv'
    BY <1>4, AdmittedKnown
  <2>2. Honest(NewWork(c)) /\ NewWork(c).ran = "no"
    BY DEF Honest, NewWork
  <2>3. \A k \in 1..Len(work') : k \in 1..Len(work) \/ k = Len(work) + 1
    BY <1>1, <2>1
  <2>4. \A k \in 1..Len(work') : Honest(work'[k])
    BY <1>1, <2>1, <2>2, <2>3
  <2>5. \A k \in 1..Len(work) : k \in 1..Len(work') /\ Follows(work[k], work'[k])
    BY <1>1, <2>1
  <2>6. \A k \in 1..Len(work') : k \in 1..Len(work) \/ work'[k].ran = "no"
    BY <2>1, <2>2, <2>3
  <2> QED  BY <1>1, <2>1, <2>4, <2>5, <2>6
<1>5. \/ UNCHANGED <<work, known>> \/ HostStep
      \/ \E c \in Calls \cup Locals : Admitted(c)
  BY HostMoves DEF Worked
<1> QED  BY <1>1, <1>2, <1>3, <1>4, <1>5

-----------------------------------------------------------------------------
(***************************************************************************)
(* No answer is lost with a socket.                                        *)
(***************************************************************************)
\* The answer to a call is on its way, or the call itself is.
InTransit(c) ==
    \/ \E i \in 1..Len(toRuntime) : toRuntime[i].call = c
    \/ \E i \in 1..Len(toHost) : toHost[i] = [type |-> "call", call |-> c]

OnItsWay ==
    (link = "up" /\ call # NoCall /\ ~resolving /\ failures = 0)
    => \A k \in 1..Len(work) :
          Kept(k) /\ work[k].call = call /\ work[k].stage = "done" => InTransit(call)

\* A call that was not issued has no work, and one that is remembered is known once.
Arrivals ==
    /\ toRuntime \in Seq([call : Calls, answer : Answers])
    /\ \A k \in 1..Len(work) : work[k].call \in Calls => work[k].call <= issued
    /\ \A i \in 1..Len(toHost) : toHost[i].type = "call" => toHost[i].call <= issued
    /\ \A j, k \in 1..Len(work) :
          Kept(j) /\ Kept(k) /\ work[j].call = work[k].call => j = k
    /\ OnItsWay

ArriveInv == HonestHost /\ CallInv /\ KnownInv /\ Arrivals

\* What the steps need to know of the sequences.
LEMMA ArriveTypes ==
    ASSUME ArriveInv
    PROVE  /\ work \in Seq(Work) /\ Len(work) \in Nat
           /\ \A k \in 1..Len(work) : work[k] \in Work
           /\ toHost \in Seq([type : {"call", "timeout"}, call : Calls])
           /\ Len(toHost) \in Nat
           /\ \A i \in 1..Len(toHost) : toHost[i] \in [type : {"call", "timeout"}, call : Calls]
           /\ toRuntime \in Seq([call : Calls, answer : Answers]) /\ Len(toRuntime) \in Nat
           /\ issued \in Nat /\ failures \in Nat
           /\ call # NoCall => call = issued /\ call \in Calls /\ call \notin finished
<1>1. work \in Seq(Work) /\ toHost \in Seq([type : {"call", "timeout"}, call : Calls])
  BY DEF ArriveInv, HonestHost, HostInv, WorkInv, Mail
<1>2. toRuntime \in Seq([call : Calls, answer : Answers])
  BY DEF ArriveInv, Arrivals
<1>3. /\ issued \in Nat /\ failures \in Nat
      /\ call # NoCall => call = issued /\ call \in Calls /\ call \notin finished
  BY DEF ArriveInv, CallInv, CallTypes, CallsInOrder
<1> DEFINE T == [type : {"call", "timeout"}, call : Calls]
<1> HIDE DEF T
<1>4. Len(work) \in Nat /\ \A k \in 1..Len(work) : work[k] \in Work
  BY <1>1
<1>5. toHost \in Seq(T) => Len(toHost) \in Nat /\ \A i \in 1..Len(toHost) : toHost[i] \in T
  OBVIOUS
<1>6. Len(toRuntime) \in Nat
  BY <1>2, LenProperties
<1> QED  BY <1>1, <1>2, <1>3, <1>4, <1>5, <1>6 DEF T

\* What the host sends is an answer to a call.
LEMMA MessageTypes ==
    ASSUME NEW x \in Work, Honest(x), x.stage = "done", x.call \notin Locals
    PROVE  /\ Message(x) \in [call : Calls, answer : Answers]
           /\ Message(x).call = x.call /\ Message(x).answer = x.answer
  BY DEF Work, Honest, Message

\* A first message that is taken leaves the others.
LEMMA TakenFirst ==
    ASSUME NEW S, NEW s \in Seq(S), s # <<>>
    PROVE  /\ Tail(s) \in Seq(S) /\ Len(Tail(s)) = Len(s) - 1 /\ Len(s) \in Nat
           /\ Len(s) > 0 /\ Head(s) = s[1]
           /\ \A i \in 1..Len(Tail(s)) : i + 1 \in 1..Len(s) /\ Tail(s)[i] = s[i + 1]
           /\ \A i \in 1..Len(s) : i = 1 \/ (i - 1 \in 1..Len(Tail(s)) /\ Tail(s)[i - 1] = s[i])
<1>1. /\ Tail(s) \in Seq(S) /\ Len(Tail(s)) = Len(s) - 1
      /\ \A i \in 1..Len(Tail(s)) : Tail(s)[i] = s[i + 1]
  BY HeadTailProperties
<1>2. Len(s) \in Nat /\ Len(s) > 0 /\ Head(s) = s[1]
  BY EmptySeq
<1>3. ASSUME NEW i \in 1..Len(s), i # 1
      PROVE  i - 1 \in 1..Len(Tail(s)) /\ Tail(s)[i - 1] = s[i]
  <2>1. i - 1 \in 1..Len(Tail(s)) /\ (i - 1) + 1 = i
    BY <1>1, <1>2, <1>3
  <2>2. Tail(s)[i - 1] = s[(i - 1) + 1]
    BY <1>1, <2>1
  <2> QED  BY <2>1, <2>2
<1>4. \A i \in 1..Len(Tail(s)) : i + 1 \in 1..Len(s)
  BY <1>1, <1>2
<1> QED  BY <1>1, <1>2, <1>3, <1>4

\* A message that is added leaves the others.
LEMMA AddedLast ==
    ASSUME NEW S, NEW s \in Seq(S), NEW m \in S
    PROVE  /\ Append(s, m) \in Seq(S) /\ Len(Append(s, m)) = Len(s) + 1 /\ Len(s) \in Nat
           /\ \A i \in 1..Len(s) : i \in 1..(Len(s) + 1) /\ Append(s, m)[i] = s[i]
           /\ Append(s, m)[Len(s) + 1] = m
           /\ \A i \in 1..(Len(s) + 1) : i \in 1..Len(s) \/ i = Len(s) + 1
  OBVIOUS

\* The host goes on: who was done has its answer on the way, or again; who is done now
\* has sent it.
LEMMA WorkedArrives ==
    ASSUME ArriveInv, Worked
    PROVE  Arrivals'
<1>0. Arrivals /\ HonestHost /\ HostStep /\ UNCHANGED Others
  BY DEF ArriveInv, Worked
<1>1. /\ Len(work) \in Nat /\ \A k \in 1..Len(work) : work[k] \in Work
      /\ toHost \in Seq([type : {"call", "timeout"}, call : Calls])
      /\ toRuntime \in Seq([call : Calls, answer : Answers])
      /\ call # NoCall => call \in Calls
  BY ArriveTypes
<1>2. /\ work' \in Seq(Work) /\ Len(work') = Len(work)
      /\ \A k \in 1..Len(work) : /\ work'[k] \in Work /\ Honest(work'[k])
                                 /\ work'[k].call = work[k].call
                                 /\ work[k].stage = "done" => work'[k].stage = "done"
  <2>1. work' \in Seq(Work) /\ Len(work') = Len(work)
    BY <1>0 DEF HostStep
  <2>2. \A k \in 1..Len(work) : Follows(work[k], work'[k])
    BY <1>0 DEF HostStep
  <2> QED  BY <2>1, <2>2 DEF Follows
<1>3. /\ UNCHANGED <<issued, call, resolving, link, failures>>
      /\ \A k \in 1..Len(work) : Kept(k)' <=> Kept(k)
  BY <1>0, <1>2 DEF Others, Kept
\* What is sent is added to what was.
<1>4. /\ toRuntime' \in Seq([call : Calls, answer : Answers])
      /\ \A i \in 1..Len(toRuntime) : i \in 1..Len(toRuntime') /\ toRuntime'[i] = toRuntime[i]
      /\ \A k \in 1..Len(work) :
            toRuntime' = Append(toRuntime, Message(work'[k])) /\ work'[k].stage = "done"
               /\ work[k].call \notin Locals
            => \E i \in 1..Len(toRuntime') : toRuntime'[i].call = work[k].call
  <2>1. ASSUME NEW k \in 1..Len(work), work'[k].stage = "done", work[k].call \notin Locals,
               toRuntime' = Append(toRuntime, Message(work'[k]))
        PROVE  /\ toRuntime' \in Seq([call : Calls, answer : Answers])
               /\ \A i \in 1..Len(toRuntime) :
                     i \in 1..Len(toRuntime') /\ toRuntime'[i] = toRuntime[i]
               /\ \E i \in 1..Len(toRuntime') : toRuntime'[i].call = work[k].call
    <3> DEFINE m == Message(work'[k])
    <3>1. m \in [call : Calls, answer : Answers] /\ m.call = work[k].call
      BY <1>2, <2>1, MessageTypes
    <3> HIDE DEF m
    <3>2. toRuntime' = Append(toRuntime, m)
      BY <2>1 DEF m
    <3>3. /\ toRuntime' \in Seq([call : Calls, answer : Answers])
          /\ Len(toRuntime') = Len(toRuntime) + 1 /\ Len(toRuntime) \in Nat
          /\ \A i \in 1..Len(toRuntime) :
                i \in 1..(Len(toRuntime) + 1) /\ toRuntime'[i] = toRuntime[i]
          /\ toRuntime'[Len(toRuntime) + 1] = m
      BY <1>1, <3>1, <3>2, AddedLast
    <3>4. Len(toRuntime) + 1 \in 1..Len(toRuntime')
      BY <3>3
    <3> QED  BY <3>1, <3>3, <3>4
  <2>2. CASE toRuntime' = toRuntime
    <3>1. /\ toRuntime' \in Seq([call : Calls, answer : Answers])
          /\ \A i \in 1..Len(toRuntime) :
                i \in 1..Len(toRuntime') /\ toRuntime'[i] = toRuntime[i]
      BY <1>1, <2>2
    <3> QED  BY <2>1, <3>1
  <2>3. CASE toRuntime' # toRuntime
    <3>1. PICK k \in 1..Len(work) :
             /\ work'[k].stage = "done" /\ work[k].call \notin Locals
             /\ toRuntime' = Append(toRuntime, Message(work'[k]))
      BY <1>0, <2>3 DEF HostStep
    <3> QED  BY <2>1, <3>1
  <2> QED  BY <2>2, <2>3
\* What is received was there.
<1>5. \A i \in 1..Len(toHost') :
         \E j \in 1..Len(toHost) : toHost'[i] = toHost[j]
  <2>1. CASE toHost' = toHost
    BY <2>1
  <2>2. CASE toHost # <<>> /\ toHost' = Tail(toHost)
    BY <1>1, <2>2, TakenFirst
  <2> QED  BY <2>1, <2>2 DEF Worked
<1>6. OnItsWay'
  <2> SUFFICES ASSUME link = "up", call # NoCall, ~resolving, failures = 0,
                      NEW k \in 1..Len(work), Kept(k), work[k].call = call,
                      work'[k].stage = "done"
               PROVE  InTransit(call)'
    BY <1>2, <1>3 DEF OnItsWay
  <2>0. call \in Calls /\ work[k].call \notin Locals
    BY <1>1, IdsAssumption
  <2>1. ASSUME toRuntime' = Append(toRuntime, Message(work'[k]))
        PROVE  InTransit(call)'
    <3>1. \E i \in 1..Len(toRuntime') : toRuntime'[i].call = call
      BY <1>4, <2>0, <2>1
    <3> QED  BY <1>3, <3>1 DEF InTransit
  <2>2. CASE work[k].stage # "done"
    <3>1. toRuntime' = Append(toRuntime, Message(work'[k]))
      BY <1>0, <2>0, <2>2 DEF HostStep
    <3> QED  BY <2>1, <3>1
  <2>3. CASE work[k].stage = "done"
    <3>1. InTransit(call)
      BY <1>0, <2>3 DEF Arrivals, OnItsWay
    <3>2. CASE \E i \in 1..Len(toRuntime) : toRuntime[i].call = call
      BY <1>3, <1>4, <3>2 DEF InTransit
    <3>3. ASSUME NEW i \in 1..Len(toHost), toHost[i] = [type |-> "call", call |-> call]
          PROVE  InTransit(call)'
      <4>1. CASE toHost' = toHost
        BY <1>3, <3>3, <4>1 DEF InTransit
      <4>2. CASE /\ toHost # <<>> /\ toHost' = Tail(toHost)
                 /\ i # 1
        <5>1. i - 1 \in 1..Len(toHost') /\ toHost'[i - 1] = toHost[i]
          BY <1>1, <4>2, TakenFirst
        <5> QED  BY <1>3, <3>3, <5>1 DEF InTransit
      <4>3. CASE /\ toHost # <<>> /\ toHost' = Tail(toHost)
                 /\ Head(toHost).type = "call" =>
                       \E j \in 1..Len(work) :
                          /\ Kept(j) /\ work[j].call = Head(toHost).call
                          /\ work[j].stage = "done" =>
                                \/ work[j].call \in Locals
                                \/ toRuntime' = Append(toRuntime, Message(work'[j]))
                 /\ i = 1
        <5>1. Head(toHost) = toHost[1]
          BY <1>1, <4>3, TakenFirst
        <5>2. Head(toHost).type = "call" /\ Head(toHost).call = call
          BY <3>3, <4>3, <5>1
        <5>3. PICK j \in 1..Len(work) :
                 /\ Kept(j) /\ work[j].call = call
                 /\ work[j].stage = "done" =>
                       \/ work[j].call \in Locals
                       \/ toRuntime' = Append(toRuntime, Message(work'[j]))
          BY <4>3, <5>2
        <5>4. j = k
          BY <1>0, <5>3 DEF Arrivals
        <5> QED  BY <2>0, <2>1, <2>3, <5>3, <5>4
      <4> QED  BY <4>1, <4>2, <4>3 DEF Worked
    <3> QED  BY <3>1, <3>2, <3>3 DEF InTransit
  <2> QED  BY <2>2, <2>3
<1>7. \A i \in 1..Len(toHost') : toHost'[i].type = "call" => toHost'[i].call <= issued'
  BY <1>0, <1>3, <1>5 DEF Arrivals
<1>8. /\ \A k \in 1..Len(work') : work'[k].call \in Calls => work'[k].call <= issued'
      /\ \A j, k \in 1..Len(work') :
            Kept(j)' /\ Kept(k)' /\ work'[j].call = work'[k].call => j = k
  BY <1>0, <1>2, <1>3 DEF Arrivals
<1> QED  BY <1>4, <1>6, <1>7, <1>8 DEF Arrivals

\* A work that is taken in has no answer yet, and is the one work of its call.
LEMMA AdmittedArrives ==
    ASSUME ArriveInv, NEW c \in Calls \cup Locals, Admitted(c)
    PROVE  Arrivals'
<1>0. Arrivals /\ UNCHANGED <<Others, toRuntime>>
  BY DEF ArriveInv, Admitted
<1>1. /\ Len(work) \in Nat /\ issued \in Nat
      /\ toHost \in Seq([type : {"call", "timeout"}, call : Calls])
      /\ toRuntime \in Seq([call : Calls, answer : Answers])
      /\ call # NoCall => call \in Calls
  BY ArriveTypes
<1>2. /\ Len(work') = Len(work) + 1 /\ work'[Len(work) + 1] = NewWork(c)
      /\ \A k \in 1..Len(work) : work'[k] = work[k]
  BY AdmittedKnown DEF ArriveInv
<1>3. \A k \in 1..Len(work') : k \in 1..Len(work) \/ k = Len(work) + 1
  BY <1>1, <1>2
<1>4. \A k \in 1..Len(work) : Kept(k)' => Kept(k)
  BY <1>1, <1>2, BoundsAssumption DEF Kept
<1>5. \A k \in 1..Len(work) : Kept(k) => work[k].call # c
  BY DEF Admitted
<1>6. NewWork(c).call = c /\ NewWork(c).stage = "prepare"
  BY DEF NewWork
<1> HIDE DEF NewWork
<1>7. \A i \in 1..Len(toHost') : \E j \in 1..Len(toHost) : toHost'[i] = toHost[j]
  <2>1. CASE toHost' = toHost
    BY <2>1
  <2>2. CASE toHost # <<>> /\ toHost' = Tail(toHost)
    BY <1>1, <2>2, TakenFirst
  <2> QED  BY <2>1, <2>2 DEF Admitted
<1>8. c \in Calls => c <= issued
  <2> SUFFICES ASSUME c \in Calls PROVE c <= issued
    OBVIOUS
  <2>1. toHost # <<>> /\ Head(toHost).type = "call" /\ Head(toHost).call = c
    BY IdsAssumption DEF Admitted
  <2>2. Head(toHost) = toHost[1] /\ Len(toHost) \in Nat /\ Len(toHost) > 0
    BY <1>1, <2>1, TakenFirst
  <2>3. 1 \in 1..Len(toHost)
    BY <2>2
  <2> QED  BY <1>0, <2>1, <2>2, <2>3 DEF Arrivals
<1>9. \A j, k \in 1..Len(work') :
         Kept(j)' /\ Kept(k)' /\ work'[j].call = work'[k].call => j = k
  BY <1>0, <1>2, <1>3, <1>4, <1>5, <1>6 DEF Arrivals
<1>10. OnItsWay'
  <2> SUFFICES ASSUME link = "up", call # NoCall, ~resolving, failures = 0,
                      NEW k \in 1..Len(work'), Kept(k)', work'[k].call = call,
                      work'[k].stage = "done"
               PROVE  InTransit(call)'
    BY <1>0 DEF OnItsWay, Others
  <2>1. k \in 1..Len(work) /\ Kept(k) /\ work[k].call = call /\ work[k].stage = "done"
    BY <1>2, <1>3, <1>4, <1>6
  <2>2. call # c /\ InTransit(call) /\ call' = call
    BY <1>0, <1>5, <2>1 DEF Arrivals, OnItsWay, Others
  <2>3. CASE \E i \in 1..Len(toRuntime) : toRuntime[i].call = call
    BY <1>0, <2>2, <2>3 DEF InTransit
  <2>4. ASSUME NEW i \in 1..Len(toHost), toHost[i] = [type |-> "call", call |-> call]
        PROVE  InTransit(call)'
    <3>1. CASE toHost' = toHost
      BY <2>2, <2>4, <3>1 DEF InTransit
    <3>2. CASE toHost # <<>> /\ toHost' = Tail(toHost) /\ Head(toHost).call = c
      <4>1. i # 1
        <5>1. Head(toHost) = toHost[1]
          BY <1>1, <3>2, TakenFirst
        <5> QED  BY <2>2, <2>4, <3>2, <5>1
      <4>2. i - 1 \in 1..Len(toHost') /\ toHost'[i - 1] = toHost[i]
        BY <1>1, <3>2, <4>1, TakenFirst
      <4> QED  BY <2>2, <2>4, <4>2 DEF InTransit
    <3> QED  BY <3>1, <3>2 DEF Admitted
  <2> QED  BY <2>2, <2>3, <2>4 DEF InTransit
<1>11. \A k \in 1..Len(work') : work'[k].call \in Calls => work'[k].call <= issued
  BY <1>0, <1>2, <1>3, <1>6, <1>8 DEF Arrivals
<1>12. issued' = issued /\ toRuntime' = toRuntime
  BY <1>0 DEF Others
<1> QED  BY <1>0, <1>7, <1>9, <1>10, <1>11, <1>12 DEF Arrivals

\* A new call has no work yet.
LEMMA IssueArrives ==
    ASSUME ArriveInv, NEW c \in Calls, Issue(c), UNCHANGED <<work, known>>
    PROVE  Arrivals'
<1> DEFINE m == [type |-> "call", call |-> c]
<1>0. /\ Arrivals /\ c = issued + 1 /\ issued' = c /\ call' = c
      /\ toHost' = Append(toHost, m) /\ UNCHANGED <<resolving, link, toRuntime, failures>>
  BY DEF ArriveInv, Issue, host
<1>1. /\ issued \in Nat
      /\ toHost \in Seq([type : {"call", "timeout"}, call : Calls])
      /\ m \in [type : {"call", "timeout"}, call : Calls] /\ m.call = c
  BY ArriveTypes
<1> HIDE DEF m
<1>2. /\ Len(toHost') = Len(toHost) + 1
      /\ \A i \in 1..Len(toHost) : toHost'[i] = toHost[i]
      /\ toHost'[Len(toHost) + 1] = m
      /\ \A i \in 1..(Len(toHost) + 1) : i \in 1..Len(toHost) \/ i = Len(toHost) + 1
  BY <1>0, <1>1, AddedLast
<1>3. \A i \in 1..Len(toHost') : toHost'[i].type = "call" => toHost'[i].call <= issued'
  <2>1. \A i \in 1..Len(toHost) : toHost[i].type = "call" => toHost[i].call <= issued
    BY <1>0 DEF Arrivals
  <2>2. ASSUME NEW i \in 1..Len(toHost), toHost[i].type = "call"
        PROVE  toHost[i].call <= issued'
    <3>1. toHost[i] \in [type : {"call", "timeout"}, call : Calls]
      BY ArriveTypes
    <3>2. toHost[i].call \in Nat
      BY <3>1 DEF Calls
    <3> QED  BY <1>0, <1>1, <2>1, <2>2, <3>2
  <2>3. m.call <= issued'
    BY <1>0, <1>1
  <2> QED  BY <1>2, <2>2, <2>3
<1>4. \A k \in 1..Len(work) : work[k].call \in Calls =>
                                 work[k].call <= issued' /\ work[k].call # c
  BY <1>0, <1>1 DEF Arrivals, Calls
<1>5. OnItsWay'
  BY <1>0, <1>4 DEF OnItsWay
<1>6. \A j, k \in 1..Len(work) :
         Kept(j)' /\ Kept(k)' /\ work[j].call = work[k].call => j = k
  BY <1>0 DEF Arrivals, Kept
<1> QED  BY <1>0, <1>3, <1>4, <1>5, <1>6 DEF Arrivals

\* An answer that is taken is fed to its call, or is for a call that is over.
LEMMA TakeAnswerArrives ==
    ASSUME ArriveInv, TakeAnswer, UNCHANGED <<work, known>>
    PROVE  Arrivals'
<1> DEFINE m == Head(toRuntime)
<1>0. /\ Arrivals /\ toRuntime # <<>> /\ toRuntime' = Tail(toRuntime)
      /\ UNCHANGED <<issued, call, link, toHost, failures, finished>>
      /\ resolving' = resolving \/ resolving' = TRUE
      /\ resolving' = resolving => ~IsAwaited(m) \/ resolving
  BY DEF ArriveInv, TakeAnswer, IsAwaited
<1>1. /\ toRuntime \in Seq([call : Calls, answer : Answers])
      /\ call # NoCall => call \notin finished
  BY ArriveTypes
<1>2. /\ toRuntime' \in Seq([call : Calls, answer : Answers]) /\ m = toRuntime[1]
      /\ \A i \in 1..Len(toRuntime) :
            i = 1 \/ (i - 1 \in 1..Len(toRuntime') /\ toRuntime'[i - 1] = toRuntime[i])
  BY <1>0, <1>1, TakenFirst
<1> HIDE DEF m
<1>3. OnItsWay'
  <2> SUFFICES ASSUME link = "up", call # NoCall, ~resolving', failures = 0,
                      NEW k \in 1..Len(work), Kept(k), work[k].call = call,
                      work[k].stage = "done"
               PROVE  InTransit(call)'
    BY <1>0 DEF OnItsWay, Kept
  <2>1. ~resolving /\ ~IsAwaited(m)
    BY <1>0
  <2>2. m.call # call
    BY <1>1, <2>1 DEF IsAwaited
  <2>3. InTransit(call)
    BY <1>0, <2>1 DEF Arrivals, OnItsWay
  <2>4. CASE \E i \in 1..Len(toRuntime) : toRuntime[i].call = call
    <3>1. PICK i \in 1..Len(toRuntime) : toRuntime[i].call = call
      BY <2>4
    <3>2. i # 1
      BY <1>2, <2>2, <3>1
    <3> QED  BY <1>0, <1>2, <3>1, <3>2 DEF InTransit
  <2>5. CASE \E i \in 1..Len(toHost) : toHost[i] = [type |-> "call", call |-> call]
    BY <1>0, <2>5 DEF InTransit
  <2> QED  BY <2>3, <2>4, <2>5 DEF InTransit
<1>4. \A j, k \in 1..Len(work) :
         Kept(j)' /\ Kept(k)' /\ work[j].call = work[k].call => j = k
  BY <1>0 DEF Arrivals, Kept
<1> QED  BY <1>0, <1>2, <1>3, <1>4 DEF Arrivals

\* The control of a timeout changes no call that is on its way; a socket that drops
\* loses what is on it, and one that resumes carries the pending call again.
LEMMA SocketArrives ==
    ASSUME ArriveInv, SendControl \/ Drop \/ Resume, UNCHANGED <<work, known>>
    PROVE  Arrivals'
<1> DEFINE Msg == [type : {"call", "timeout"}, call : Calls]
<1>0. Arrivals
  BY DEF ArriveInv
<1>1. /\ toHost \in Seq(Msg)
      /\ \A i \in 1..Len(toHost) : toHost[i] \in Msg
      /\ toRuntime \in Seq([call : Calls, answer : Answers])
      /\ call # NoCall => call = issued /\ call \in Calls
      /\ controls \in Seq(Calls)
  BY ArriveTypes DEF ArriveInv, HonestHost, HostInv, Mail
<1>2. UNCHANGED <<issued, call, resolving, failures>>
  BY DEF SendControl, Drop, Resume, runtime
<1>3. \A j, k \in 1..Len(work) :
         Kept(j)' /\ Kept(k)' /\ work[j].call = work[k].call => j = k
  BY <1>0 DEF Arrivals, Kept
<1>4. CASE SendControl
  <2> DEFINE m == [type |-> "timeout", call |-> Head(controls)]
  <2>1. /\ controls # <<>> /\ toHost' = Append(toHost, m) /\ UNCHANGED <<link, toRuntime>>
    BY <1>4 DEF SendControl
  <2>2. m \in Msg /\ m.type = "timeout"
    <3>1. Head(controls) \in Calls
      BY <1>1, <2>1, HeadTailProperties
    <3> QED  BY <3>1
  <2> HIDE DEF m, Msg
  <2>3. /\ Len(toHost') = Len(toHost) + 1
        /\ \A i \in 1..Len(toHost) : i \in 1..(Len(toHost) + 1) /\ toHost'[i] = toHost[i]
        /\ toHost'[Len(toHost) + 1] = m
        /\ \A i \in 1..(Len(toHost) + 1) : i \in 1..Len(toHost) \/ i = Len(toHost) + 1
    BY <1>1, <2>1, <2>2, AddedLast
  <2>4. \A i \in 1..Len(toHost') : toHost'[i].type = "call" => toHost'[i].call <= issued'
    BY <1>0, <1>2, <2>2, <2>3 DEF Arrivals
  <2>5. InTransit(call) => InTransit(call)'
    BY <1>2, <2>1, <2>3 DEF InTransit
  <2>6. OnItsWay'
    BY <1>0, <1>2, <2>1, <2>5 DEF Arrivals, OnItsWay, Kept
  <2> QED  BY <1>0, <1>2, <1>3, <2>1, <2>4, <2>6 DEF Arrivals
<1>5. CASE Drop
  <2>1. /\ link' = "down" /\ toHost' = <<>> /\ toRuntime' = <<>>
    BY <1>5 DEF Drop
  <2>2. OnItsWay' /\ <<>> \in Seq([call : Calls, answer : Answers]) /\ 1..Len(toHost') = {}
    BY <2>1 DEF OnItsWay
  <2> QED  BY <1>0, <1>2, <1>3, <2>1, <2>2 DEF Arrivals
<1>6. CASE Resume
  <2>1. link' = "up" /\ toRuntime' = toRuntime /\ toHost' = Redelivery
    BY <1>6 DEF Resume
  <2>2. CASE call = NoCall \/ resolving
    <3>1. toHost' = <<>> /\ 1..Len(toHost') = {}
      BY <2>1, <2>2 DEF Redelivery
    <3>2. OnItsWay'
      BY <1>2, <2>2 DEF OnItsWay
    <3> QED  BY <1>0, <1>2, <1>3, <2>1, <3>1, <3>2 DEF Arrivals
  <2>3. CASE call # NoCall /\ ~resolving
    <3> DEFINE m == [type |-> "call", call |-> call]
    <3>1. toHost' = <<m>> /\ m.call = call /\ call = issued /\ issued \in Nat
      BY <1>1, <2>1, <2>3, ArriveTypes DEF Redelivery
    <3>2. Len(toHost') = 1 /\ toHost'[1] = m /\ 1 \in 1..Len(toHost')
      BY <3>1
    <3>3. InTransit(call)'
      BY <1>2, <3>2 DEF InTransit
    <3>4. OnItsWay'
      BY <1>2, <3>3 DEF OnItsWay
    <3>5. \A i \in 1..Len(toHost') : toHost'[i].call <= issued
      BY <3>1, <3>2
    <3> QED  BY <1>0, <1>2, <1>3, <2>1, <3>4, <3>5 DEF Arrivals
  <2> QED  BY <2>2, <2>3
<1> QED  BY <1>4, <1>5, <1>6

\* The runtime is busy with the call, or done with it.
LEMMA RuntimeArrives ==
    ASSUME ArriveInv, UNCHANGED <<work, known, toRuntime, toHost>>,
           \/ \E c \in Calls : Look(c) \/ TellTimeout(c)
           \/ Fed \/ FedUnreadable \/ FeedFails \/ Reconnect \/ UNCHANGED vars
    PROVE  Arrivals'
<1>0. Arrivals /\ failures \in Nat
  BY ArriveTypes DEF ArriveInv
<1>1. issued' = issued
  BY DEF Look, TellTimeout, Fed, FedUnreadable, FeedFails, Reconnect, vars, runtime
<1>2. \/ link' # "up" \/ call' = NoCall \/ resolving' = TRUE \/ failures' = failures + 1
      \/ UNCHANGED <<link, call, resolving, failures>>
  BY DEF Look, TellTimeout, Clear, Fed, FedUnreadable, FeedFails, Reconnect, vars, runtime, socket
<1>3. OnItsWay'
  BY <1>0, <1>2 DEF Arrivals, OnItsWay, InTransit, Kept
<1>4. \A j, k \in 1..Len(work) :
         Kept(j)' /\ Kept(k)' /\ work[j].call = work[k].call => j = k
  BY <1>0 DEF Arrivals, Kept
<1> QED  BY <1>0, <1>1, <1>3, <1>4 DEF Arrivals

\* Nothing is on its way at first.
LEMMA ArriveInit == Init => ArriveInv
<1> SUFFICES ASSUME Init PROVE ArriveInv
  OBVIOUS
<1>1. work = <<>> /\ known = <<>> /\ Len(work) = 0 /\ Len(known) = 0 /\ 1..0 = {}
      /\ toHost = <<>> /\ toRuntime = <<>> /\ call = NoCall
  BY DEF Init
<1>2. HonestHost
  BY <1>1, HostInit DEF HonestHost
<1>3. KnownInv
  BY <1>1, BoundsAssumption DEF KnownInv
<1>4. Arrivals
  BY <1>1 DEF Arrivals, OnItsWay
<1> QED  BY <1>2, <1>3, <1>4, CallInit DEF ArriveInv

\* Every step keeps them.
LEMMA ArriveStep == ArriveInv /\ [Next]_vars => ArriveInv'
<1> SUFFICES ASSUME ArriveInv, [Next]_vars PROVE ArriveInv'
  OBVIOUS
<1>1. HonestHost /\ CallInv /\ KnownInv /\ HostInv
  BY DEF ArriveInv, HonestHost
<1>2. CallInv' /\ Mail' /\ WorkInv(work', lease')
  BY <1>1, CallNext, MailStep, HostNext DEF HostInv, Steadily
<1>3. HonestHost' /\ KnownInv'
  BY <1>1, <1>2, WorksGo DEF HonestHost, HostInv
<1>4. Arrivals'
  BY <1>1, HostMoves, WorkedArrives, AdmittedArrives, IssueArrives, TakeAnswerArrives,
     SocketArrives, RuntimeArrives
<1> QED  BY <1>2, <1>3, <1>4 DEF ArriveInv

\* When the computer is connected and done with a call that still waits, its answer is on
\* its way or the call was sent again, however often the socket dropped.
THEOREM NoAnswerIsLost == Spec => []AnswerIsOnItsWay
<1>1. ArriveInv => AnswerIsOnItsWay
  <2> SUFFICES ASSUME ArriveInv, link = "up", call # NoCall, ~resolving, failures = 0,
                      NEW k \in RecordOf(call), work[k].stage = "done"
               PROVE  \/ \E i \in DOMAIN toRuntime : toRuntime[i].call = call
                      \/ \E i \in DOMAIN toHost :
                            toHost[i] = [type |-> "call", call |-> call]
    BY DEF AnswerIsOnItsWay
  <2>1. /\ work \in Seq(Work)
        /\ toHost \in Seq([type : {"call", "timeout"}, call : Calls])
        /\ toRuntime \in Seq([call : Calls, answer : Answers])
    BY ArriveTypes
  <2>2. k \in 1..Len(work) /\ work[k].call = call /\ Contains(known, k)
    BY DEF RecordOf, Works
  <2>3. Kept(k)
    BY <2>1, <2>2, KnownIsKept DEF ArriveInv
  <2>4. InTransit(call)
    BY <2>2, <2>3 DEF ArriveInv, Arrivals, OnItsWay
  <2>5. DOMAIN toRuntime = 1..Len(toRuntime) /\ DOMAIN toHost = 1..Len(toHost)
    BY <2>1
  <2> QED  BY <2>4, <2>5 DEF InTransit
<1> QED  BY <1>1, ArriveInit, ArriveStep, PTL DEF Spec

-----------------------------------------------------------------------------
(***************************************************************************)
(* The model is told the truth.                                            *)
(***************************************************************************)
\* The host answered the call so.
Gave(w, c, a) ==
    \E k \in 1..Len(w) : w[k].call = c /\ w[k].stage = "done" /\ w[k].answer = a

Outcome(w, c, a) ==
    /\ a \in Answers \cup {"timeout"}
    /\ a \in {"done", "declined"} => Gave(w, c, a)

\* What travels to the model, is fed to it, or was told, the host answered; but for a
\* failure or a timeout, which promise nothing.
Truth ==
    /\ \A i \in 1..Len(toRuntime) : Gave(work, toRuntime[i].call, toRuntime[i].answer)
    /\ feed # NoFeed => Outcome(work, feed.call, feed.answer)
    /\ \A c \in Calls : told[c] = <<>> \/ \E a : told[c] = <<a>> /\ Outcome(work, c, a)

\* An answer stands.
LEMMA GivenStands ==
    ASSUME ArriveInv, [Next]_vars, NEW c, NEW a, Gave(work, c, a)
    PROVE  Gave(work', c, a)
<1>1. PICK k \in 1..Len(work) : work[k].call = c /\ work[k].stage = "done" /\ work[k].answer = a
  BY DEF Gave
<1>2. k \in 1..Len(work') /\ Follows(work[k], work'[k])
  BY WorksGo DEF ArriveInv
<1> QED  BY <1>1, <1>2 DEF Gave, Follows

\* The outcome the model is given is the first, and the host gave it or it promises
\* nothing.
LEMMA ToldMoves ==
    ASSUME ArriveInv, Truth, [Next]_vars, NEW c \in Calls
    PROVE  \/ told'[c] = told[c]
           \/ told[c] = <<>> /\ \E a : told'[c] = <<a>> /\ Outcome(work, c, a)
<1>0. CallInv
  BY DEF ArriveInv
<1>1. /\ told = [d \in Calls |-> told[d]]
      /\ call # NoCall /\ call \in Calls => told[call] = <<>>
  BY <1>0 DEF CallInv, CallTypes, OneOutcome
<1>2. CASE Fed
  <2>1. /\ feed # NoFeed /\ told' = [told EXCEPT ![feed.call] = Append(@, feed.answer)]
        /\ feed.call \in Calls /\ call = feed.call /\ call # NoCall
    BY <1>0, <1>2, IdsAssumption DEF Fed, CallInv, CallTypes, FeedHolds, NoFeed
  <2>2. told[feed.call] = <<>> /\ Outcome(work, feed.call, feed.answer)
    BY <1>1, <2>1 DEF Truth
  <2>3. told' = [told EXCEPT ![feed.call] = <<feed.answer>>]
    BY <2>1, <2>2
  <2> QED  BY <1>1, <2>1, <2>2, <2>3
<1>3. ASSUME NEW d \in Calls, TellTimeout(d)
      PROVE  \/ told'[c] = told[c]
             \/ told[c] = <<>> /\ \E a : told'[c] = <<a>> /\ Outcome(work, c, a)
  <2>1. told[d] = <<>>
    BY <1>0, <1>1, <1>3, IdsAssumption DEF TellTimeout, CallInv, TimerHolds
  <2>2. told' = told \/ told' = [told EXCEPT ![d] = <<"timeout">>]
    BY <1>3, <2>1 DEF TellTimeout
  <2>3. Outcome(work, c, "timeout")
    BY DEF Outcome
  <2> QED  BY <1>1, <2>1, <2>2, <2>3
<1>4. CASE ~Fed /\ ~\E d \in Calls : TellTimeout(d)
  <2>1. told' = told
    BY <1>4 DEF Next, Issue, Look, TakeAnswer, FedUnreadable, FeedFails, SendControl, Drop,
       Reconnect, Resume, Dispatch, Withdraw, Receive, RunLocal, Step, vars, runtime
  <2> QED  BY <2>1
<1> QED  BY <1>2, <1>3, <1>4

\* Every step keeps it.
LEMMA TruthStep ==
    ASSUME ArriveInv, Truth, [Next]_vars
    PROVE  Truth'
<1>0. /\ toRuntime \in Seq([call : Calls, answer : Answers]) /\ Len(toRuntime) \in Nat
      /\ HonestHost /\ KnownInv
  BY ArriveTypes DEF ArriveInv
<1>1. \A c, a : Outcome(work, c, a) => Outcome(work', c, a)
  BY GivenStands DEF Outcome
<1>2. \A c \in Calls : told'[c] = <<>> \/ \E a : told'[c] = <<a>> /\ Outcome(work', c, a)
  BY <1>1, ToldMoves DEF Truth
<1>3. \A i \in 1..Len(toRuntime) : Gave(work', toRuntime[i].call, toRuntime[i].answer)
  BY GivenStands DEF Truth
<1>4. CASE Worked
  <2>1. feed' = feed
    BY <1>4 DEF Worked, Others
  <2>2. CASE toRuntime' = toRuntime
    BY <1>1, <1>2, <1>3, <2>1, <2>2 DEF Truth
  <2>3. CASE toRuntime' # toRuntime
    <3>1. PICK k \in 1..Len(work) :
             /\ work'[k].stage = "done" /\ work[k].call \notin Locals
             /\ toRuntime' = Append(toRuntime, Message(work'[k]))
      BY <1>4, <2>3 DEF Worked, HostStep
    <3>2. /\ work'[k] \in Work /\ Honest(work'[k]) /\ work'[k].call \notin Locals
          /\ k \in 1..Len(work')
      <4>1. work' \in Seq(Work) /\ Len(work') = Len(work) /\ Follows(work[k], work'[k])
        BY <1>4 DEF Worked, HostStep
      <4> QED  BY <3>1, <4>1 DEF Follows
    <3> DEFINE m == Message(work'[k])
    <3>3. /\ m \in [call : Calls, answer : Answers]
          /\ m.call = work'[k].call /\ m.answer = work'[k].answer
      BY <3>1, <3>2, MessageTypes
    <3>4. Gave(work', m.call, m.answer)
      BY <3>1, <3>2, <3>3 DEF Gave
    <3> HIDE DEF m
    <3>5. toRuntime' = Append(toRuntime, m)
      BY <3>1 DEF m
    <3>6. /\ Len(toRuntime') = Len(toRuntime) + 1
          /\ \A i \in 1..Len(toRuntime) : toRuntime'[i] = toRuntime[i]
          /\ toRuntime'[Len(toRuntime) + 1] = m
          /\ \A i \in 1..(Len(toRuntime) + 1) : i \in 1..Len(toRuntime) \/ i = Len(toRuntime) + 1
      BY <1>0, <3>3, <3>5, AddedLast
    <3>7. \A i \in 1..Len(toRuntime') : Gave(work', toRuntime'[i].call, toRuntime'[i].answer)
      BY <1>3, <3>4, <3>6
    <3> QED  BY <1>1, <1>2, <2>1, <3>7 DEF Truth
  <2> QED  BY <2>2, <2>3
<1>5. ASSUME NEW c \in Calls \cup Locals, Admitted(c) PROVE Truth'
  <2>1. UNCHANGED <<feed, toRuntime>>
    BY <1>5 DEF Admitted, Others
  <2> QED  BY <1>1, <1>2, <1>3, <2>1 DEF Truth
<1>6. CASE TakeAnswer
  <2> DEFINE m == Head(toRuntime)
  <2>1. /\ toRuntime # <<>> /\ toRuntime' = Tail(toRuntime)
        /\ \/ feed' = feed
           \/ feed' = [call |-> m.call, answer |-> m.answer, try |-> 1]
    BY <1>6 DEF TakeAnswer, IsAwaited
  <2>2. /\ m = toRuntime[1] /\ 1 \in 1..Len(toRuntime) /\ m.answer \in Answers
        /\ \A i \in 1..Len(Tail(toRuntime)) :
              i + 1 \in 1..Len(toRuntime) /\ Tail(toRuntime)[i] = toRuntime[i + 1]
    <3>1. m \in [call : Calls, answer : Answers]
      BY <1>0, <2>1, HeadTailProperties
    <3>2. Len(toRuntime) > 0 /\ m = toRuntime[1]
      BY <1>0, <2>1, TakenFirst
    <3>3. \A i \in 1..Len(Tail(toRuntime)) :
              i + 1 \in 1..Len(toRuntime) /\ Tail(toRuntime)[i] = toRuntime[i + 1]
      BY <1>0, <2>1, TakenFirst
    <3> QED  BY <1>0, <3>1, <3>2, <3>3
  <2> HIDE DEF m
  <2>3. \A i \in 1..Len(toRuntime') : Gave(work', toRuntime'[i].call, toRuntime'[i].answer)
    BY <1>3, <2>1, <2>2
  <2>4. Outcome(work', m.call, m.answer)
    BY <1>3, <2>2 DEF Outcome
  <2>5. feed' # NoFeed => Outcome(work', feed'.call, feed'.answer)
    BY <1>1, <2>1, <2>4 DEF Truth
  <2> QED  BY <1>2, <2>3, <2>5 DEF Truth
<1>7. CASE (\E c \in Calls : Issue(c)) \/ SendControl \/ Drop \/ Resume
  <2>1. feed' = feed /\ (toRuntime' = toRuntime \/ toRuntime' = <<>>)
    BY <1>7 DEF Issue, SendControl, Drop, Resume, runtime
  <2> QED  BY <1>1, <1>2, <1>3, <2>1 DEF Truth
<1>8. CASE /\ toRuntime' = toRuntime
           /\ \/ \E c \in Calls : Look(c) \/ TellTimeout(c)
              \/ Fed \/ FedUnreadable \/ FeedFails \/ Reconnect \/ UNCHANGED vars
  <2>1. \/ feed' \in {feed, NoFeed}
        \/ feed' = [feed EXCEPT !.answer = "failed", !.try = 2] /\ feed # NoFeed
    BY <1>8 DEF Look, TellTimeout, Fed, FedUnreadable, FeedFails, Reconnect, vars, runtime, NoFeed
  <2>2. CASE feed' \in {feed, NoFeed}
    BY <1>1, <1>2, <1>3, <1>8, <2>2 DEF Truth, NoFeed
  <2>3. CASE feed' = [feed EXCEPT !.answer = "failed", !.try = 2] /\ feed # NoFeed
    <3>1. feed'.answer = "failed"
      BY <2>3 DEF ArriveInv, CallInv, CallTypes
    <3>2. feed' # NoFeed => Outcome(work', feed'.call, feed'.answer)
      BY <3>1 DEF Outcome, Answers
    <3> QED  BY <1>2, <1>3, <1>8, <3>2 DEF Truth
  <2> QED  BY <2>1, <2>2, <2>3
<1> QED  BY <1>0, <1>4, <1>5, <1>6, <1>7, <1>8, HostMoves

-----------------------------------------------------------------------------
(***************************************************************************)
(* A call has one work.  The host forgets a call once enough others came   *)
(* after it; but calls arrive in their order, so that what came after one  *)
(* that is sent again are commands the person typed, and of these there    *)
(* are fewer.                                                              *)
(***************************************************************************)
FewLocals == IsFiniteSet(Locals) /\ Cardinality(Locals) < Remembered

IsCall(m) == m.type = "call"

InOrder ==
    /\ \A i, j \in 1..Len(toHost) :
          i < j /\ IsCall(toHost[i]) /\ IsCall(toHost[j]) => toHost[i].call < toHost[j].call
    /\ \A k \in 1..Len(work), i \in 1..Len(toHost) :
          work[k].call \in Calls /\ IsCall(toHost[i]) => work[k].call <= toHost[i].call
    /\ \A j, k \in 1..Len(work) :
          j < k /\ work[j].call \in Calls /\ work[k].call \in Calls
          => work[j].call < work[k].call
    /\ \A j, k \in 1..Len(work) : work[j].call = work[k].call => j = k

\* A call that arrives again is remembered.
LEMMA StillRemembered ==
    ASSUME FewLocals, ArriveInv, InOrder, toHost # <<>>, IsCall(Head(toHost)),
           NEW k \in 1..Len(work), work[k].call = Head(toHost).call
    PROVE  Kept(k)
<1> SUFFICES ASSUME ~Kept(k) PROVE FALSE
  OBVIOUS
<1> DEFINE n == Len(work)
           f == [j \in (k + 1)..n |-> work[j].call]
<1>1. /\ n \in Nat /\ k \in Nat /\ k <= n /\ Remembered \in Nat /\ n - k >= Remembered
      /\ \A j \in 1..n : work[j] \in Work
  <2>1. n \in Nat /\ Remembered \in Nat /\ \A j \in 1..n : work[j] \in Work
    BY ArriveTypes, BoundsAssumption
  <2> QED  BY <2>1 DEF Kept
<1>2. /\ Head(toHost) = toHost[1] /\ 1 \in 1..Len(toHost) /\ work[k].call \in Calls
      /\ IsCall(toHost[1]) /\ toHost[1].call = work[k].call
  <2>1. Head(toHost) = toHost[1] /\ Len(toHost) \in Nat /\ Len(toHost) > 0
    BY ArriveTypes, TakenFirst
  <2>2. 1 \in 1..Len(toHost)
    BY <2>1
  <2>3. toHost[1].call \in Calls
    BY <2>2, ArriveTypes
  <2> QED  BY <2>1, <2>2, <2>3
<1>3. \A j \in (k + 1)..n : j \in 1..n /\ k < j
  BY <1>1
\* What came after it are commands.
<1>4. \A j \in (k + 1)..n : work[j].call \in Locals
  <2> SUFFICES ASSUME NEW j \in (k + 1)..n, work[j].call \notin Locals PROVE FALSE
    OBVIOUS
  <2>1. j \in 1..n /\ k < j /\ work[j].call \in Calls
    <3>1. j \in 1..n /\ k < j
      BY <1>3
    <3>2. work[j] \in Work
      BY <1>1, <3>1
    <3> QED  BY <3>1, <3>2 DEF Work
  <2>2. work[k].call < work[j].call
    BY <1>2, <2>1 DEF InOrder
  <2>3. work[j].call <= work[k].call
    BY <1>2, <2>1 DEF InOrder
  <2>4. work[k].call \in Nat /\ work[j].call \in Nat
    BY <1>2, <2>1 DEF Calls
  <2> QED  BY <2>2, <2>3, <2>4
<1>5. f \in Injection((k + 1)..n, Locals)
  <2>1. f \in [(k + 1)..n -> Locals]
    BY <1>4
  <2>2. \A i, j \in (k + 1)..n : f[i] = f[j] => i = j
    BY <1>3 DEF InOrder
  <2> HIDE DEF f
  <2> QED  BY <2>1, <2>2, Fun_IsInj
<1> HIDE DEF f
<1>6. Cardinality((k + 1)..n) <= Cardinality(Locals)
  BY <1>5, FS_Injection DEF FewLocals
<1>7. Cardinality((k + 1)..n) = n - k
  <2>1. k + 1 \in Int /\ n \in Int
    BY <1>1
  <2>2. Cardinality((k + 1)..n) = IF k + 1 > n THEN 0 ELSE n - (k + 1) + 1
    BY <2>1, FS_Interval
  <2> QED  BY <1>1, <2>2
<1>8. Cardinality(Locals) \in Nat /\ Cardinality(Locals) < Remembered
  BY FS_CardinalityType DEF FewLocals
<1> QED  BY <1>1, <1>6, <1>7, <1>8

\* The host takes in what arrives, or a command that is new.
LEMMA AdmittedInOrder ==
    ASSUME FewLocals, ArriveInv, InOrder, NEW c \in Calls \cup Locals, Admitted(c)
    PROVE  InOrder'
<1>1. /\ Len(work) \in Nat
      /\ \A k \in 1..Len(work) : work[k] \in Work
      /\ toHost \in Seq([type : {"call", "timeout"}, call : Calls])
      /\ \A i \in 1..Len(toHost) : toHost[i] \in [type : {"call", "timeout"}, call : Calls]
  BY ArriveTypes
<1>2. /\ Len(work') = Len(work) + 1 /\ work'[Len(work) + 1] = NewWork(c)
      /\ \A k \in 1..Len(work) : work'[k] = work[k]
  BY AdmittedKnown DEF ArriveInv
<1>3. \A k \in 1..Len(work') : k \in 1..Len(work) \/ k = Len(work) + 1
  BY <1>1, <1>2
<1>4. NewWork(c).call = c
  BY DEF NewWork
<1> HIDE DEF NewWork
\* The message it came in is the first.
<1>5. c \in Calls => /\ toHost # <<>> /\ toHost' = Tail(toHost) /\ IsCall(Head(toHost))
                     /\ Head(toHost).call = c
  BY IdsAssumption DEF Admitted, IsCall
<1>6. toHost' = toHost \/ (toHost # <<>> /\ toHost' = Tail(toHost))
  BY DEF Admitted
<1>7. \A k \in 1..Len(work) : work[k].call # c
  <2>1. CASE c \in Calls
    BY <1>5, <2>1, StillRemembered DEF Admitted
  <2>2. CASE c \notin Calls
    BY <2>2 DEF Admitted
  <2> QED  BY <2>1, <2>2
<1>8. \A i \in 1..Len(toHost') : \E j \in 1..Len(toHost) :
         toHost'[i] = toHost[j] /\ (IF toHost' = toHost THEN j = i ELSE j = i + 1)
  BY <1>1, <1>6, TakenFirst
<1>9. Len(toHost') \in Nat /\ Len(toHost) \in Nat
  <2>1. toHost # <<>> => Tail(toHost) \in Seq([type : {"call", "timeout"}, call : Calls])
    BY <1>1, TakenFirst
  <2>2. toHost' \in Seq([type : {"call", "timeout"}, call : Calls])
    BY <1>1, <1>6, <2>1
  <2> QED  BY <1>1, <2>2, LenProperties
<1>10. (\A i, j \in 1..Len(toHost) : i < j /\ IsCall(toHost[i]) /\ IsCall(toHost[j])
                                       => toHost[i].call < toHost[j].call)'
  <2> SUFFICES ASSUME NEW i \in 1..Len(toHost'), NEW j \in 1..Len(toHost'), i < j,
                      IsCall(toHost'[i]), IsCall(toHost'[j])
               PROVE  toHost'[i].call < toHost'[j].call
    BY DEF IsCall
  <2>1. PICK a \in 1..Len(toHost) :
           toHost'[i] = toHost[a] /\ (IF toHost' = toHost THEN a = i ELSE a = i + 1)
    BY <1>8
  <2>2. PICK b \in 1..Len(toHost) :
           toHost'[j] = toHost[b] /\ (IF toHost' = toHost THEN b = j ELSE b = j + 1)
    BY <1>8
  <2>3. a < b
    BY <1>9, <2>1, <2>2
  <2> QED  BY <2>1, <2>2, <2>3 DEF InOrder
<1>11. c \in Calls => \A i \in 1..Len(toHost') : IsCall(toHost'[i]) => c <= toHost'[i].call
  <2> SUFFICES ASSUME c \in Calls, NEW i \in 1..Len(toHost'), IsCall(toHost'[i])
               PROVE  c <= toHost'[i].call
    OBVIOUS
  <2>0. toHost # <<>> /\ toHost' = Tail(toHost) /\ i \in 1..Len(Tail(toHost))
    BY <1>5
  <2>1. /\ Head(toHost) = toHost[1] /\ Len(toHost) > 0
        /\ i + 1 \in 1..Len(toHost) /\ toHost'[i] = toHost[i + 1]
    <3>1. Head(toHost) = toHost[1] /\ Len(toHost) > 0
      BY <1>1, <2>0, TakenFirst
    <3>2. i + 1 \in 1..Len(toHost) /\ Tail(toHost)[i] = toHost[i + 1]
      BY <1>1, <2>0, TakenFirst
    <3> QED  BY <2>0, <3>1, <3>2
  <2>2. 1 \in 1..Len(toHost) /\ 1 < i + 1
    BY <1>9, <2>1
  <2>3. toHost[1].call < toHost[i + 1].call
    BY <1>5, <2>1, <2>2 DEF InOrder
  <2>4. toHost[1].call \in Nat /\ toHost[i + 1].call \in Nat
    BY <1>1, <2>1, <2>2 DEF Calls
  <2> QED  BY <1>5, <2>1, <2>3, <2>4
<1>12. \A k \in 1..Len(work'), i \in 1..Len(toHost') :
          work'[k].call \in Calls /\ IsCall(toHost'[i]) => work'[k].call <= toHost'[i].call
  <2>1. \A k \in 1..Len(work), i \in 1..Len(toHost') :
           work[k].call \in Calls /\ IsCall(toHost'[i]) => work[k].call <= toHost'[i].call
    BY <1>8 DEF InOrder
  <2> QED  BY <1>2, <1>3, <1>4, <1>11, <2>1
<1>13. c \in Calls => \A k \in 1..Len(work) : work[k].call \in Calls => work[k].call < c
  <2> SUFFICES ASSUME c \in Calls, NEW k \in 1..Len(work), work[k].call \in Calls
               PROVE  work[k].call < c
    OBVIOUS
  <2>1. Head(toHost) = toHost[1] /\ Len(toHost) > 0
    BY <1>1, <1>5, TakenFirst
  <2>2. 1 \in 1..Len(toHost)
    BY <1>9, <2>1
  <2>3. work[k].call <= c
    BY <1>5, <2>1, <2>2 DEF InOrder
  <2>4. work[k].call \in Nat /\ c \in Nat /\ work[k].call # c
    BY <1>7 DEF Calls
  <2> QED  BY <2>3, <2>4
<1>14. \A j, k \in 1..Len(work') :
          j < k /\ work'[j].call \in Calls /\ work'[k].call \in Calls
          => work'[j].call < work'[k].call
  <2> SUFFICES ASSUME NEW j \in 1..Len(work'), NEW k \in 1..Len(work'), j < k,
                      work'[j].call \in Calls, work'[k].call \in Calls
               PROVE  work'[j].call < work'[k].call
    OBVIOUS
  <2>1. j \in 1..Len(work)
    BY <1>1, <1>2
  <2>2. CASE k \in 1..Len(work)
    BY <1>2, <2>1, <2>2 DEF InOrder
  <2>3. CASE k = Len(work) + 1
    BY <1>2, <1>4, <1>13, <2>1, <2>3
  <2> QED  BY <1>3, <2>2, <2>3
<1>15. \A j, k \in 1..Len(work') : work'[j].call = work'[k].call => j = k
  BY <1>2, <1>3, <1>4, <1>7 DEF InOrder
<1> QED  BY <1>10, <1>12, <1>14, <1>15 DEF InOrder, IsCall

\* The host goes on with the works it has.
LEMMA WorkedInOrder ==
    ASSUME ArriveInv, InOrder, Worked
    PROVE  InOrder'
<1>1. /\ Len(work) \in Nat
      /\ toHost \in Seq([type : {"call", "timeout"}, call : Calls]) /\ Len(toHost) \in Nat
  BY ArriveTypes
<1>2. Len(work') = Len(work) /\ \A k \in 1..Len(work) : work'[k].call = work[k].call
  BY DEF Worked, HostStep, Follows
<1>3. toHost' = toHost \/ (toHost # <<>> /\ toHost' = Tail(toHost))
  BY DEF Worked
<1>4. \A i \in 1..Len(toHost') : \E j \in 1..Len(toHost) :
         toHost'[i] = toHost[j] /\ (IF toHost' = toHost THEN j = i ELSE j = i + 1)
  BY <1>1, <1>3, TakenFirst
<1>5. Len(toHost') \in Nat
  <2>1. toHost # <<>> => Tail(toHost) \in Seq([type : {"call", "timeout"}, call : Calls])
    BY <1>1, TakenFirst
  <2>2. toHost' \in Seq([type : {"call", "timeout"}, call : Calls])
    BY <1>1, <1>3, <2>1
  <2> QED  BY <2>2, LenProperties
<1>6. ASSUME NEW i \in 1..Len(toHost'), NEW j \in 1..Len(toHost'), i < j,
             IsCall(toHost'[i]), IsCall(toHost'[j])
      PROVE  toHost'[i].call < toHost'[j].call
  <2>1. PICK a \in 1..Len(toHost) :
           toHost'[i] = toHost[a] /\ (IF toHost' = toHost THEN a = i ELSE a = i + 1)
    BY <1>4
  <2>2. PICK b \in 1..Len(toHost) :
           toHost'[j] = toHost[b] /\ (IF toHost' = toHost THEN b = j ELSE b = j + 1)
    BY <1>4
  <2>3. a < b
    BY <1>1, <1>5, <2>1, <2>2, <1>6
  <2> QED  BY <1>6, <2>1, <2>2, <2>3 DEF InOrder
<1>7. \A k \in 1..Len(work), i \in 1..Len(toHost') :
         work[k].call \in Calls /\ IsCall(toHost'[i]) => work[k].call <= toHost'[i].call
  BY <1>4 DEF InOrder
<1>8. /\ \A j, k \in 1..Len(work') :
            j < k /\ work'[j].call \in Calls /\ work'[k].call \in Calls
            => work'[j].call < work'[k].call
      /\ \A j, k \in 1..Len(work') : work'[j].call = work'[k].call => j = k
  BY <1>2 DEF InOrder
<1> QED  BY <1>2, <1>6, <1>7, <1>8 DEF InOrder, IsCall

\* What is added to the socket is the newest call, or no call; a socket that resumes
\* carries the newest alone.
LEMMA SocketInOrder ==
    ASSUME ArriveInv, InOrder, UNCHANGED work,
           (\E c \in Calls : Issue(c)) \/ TakeAnswer \/ SendControl \/ Drop \/ Resume
    PROVE  InOrder'
<1> DEFINE Msg == [type : {"call", "timeout"}, call : Calls]
<1>0. /\ toHost \in Seq(Msg) /\ Len(toHost) \in Nat /\ issued \in Nat
      /\ \A i \in 1..Len(toHost) : toHost[i] \in Msg
      /\ \A i \in 1..Len(toHost) : IsCall(toHost[i]) => toHost[i].call <= issued
      /\ \A k \in 1..Len(work) : work[k].call \in Calls => work[k].call <= issued
      /\ call # NoCall => call = issued /\ call \in Calls
      /\ controls \in Seq(Calls)
  BY ArriveTypes DEF ArriveInv, Arrivals, HonestHost, HostInv, Mail, IsCall
<1>1. Calls \subseteq Nat
  BY DEF Calls
<1>2. CASE toHost' = toHost
  BY <1>2 DEF InOrder, IsCall
<1>3. ASSUME NEW m \in Msg, toHost' = Append(toHost, m),
             IsCall(m) => m.call = issued + 1
      PROVE  InOrder'
  <2> HIDE DEF Msg
  <2>1. /\ Len(toHost') = Len(toHost) + 1
        /\ \A i \in 1..Len(toHost) : toHost'[i] = toHost[i]
        /\ toHost'[Len(toHost) + 1] = m
        /\ \A i \in 1..(Len(toHost) + 1) : i \in 1..Len(toHost) \/ i = Len(toHost) + 1
    BY <1>0, <1>3, AddedLast
  <2>2. \A i \in 1..Len(toHost) : IsCall(toHost[i]) /\ IsCall(m) => toHost[i].call < m.call
    <3>1. ASSUME NEW i \in 1..Len(toHost), IsCall(toHost[i]), IsCall(m)
          PROVE  toHost[i].call < m.call
      <4>1. toHost[i].call \in Nat
        BY <1>0, <1>1 DEF Msg
      <4> QED  BY <1>0, <1>3, <3>1, <4>1
    <3> QED  BY <3>1
  <2>3. \A k \in 1..Len(work) : work[k].call \in Calls /\ IsCall(m) => work[k].call <= m.call
    <3>1. ASSUME NEW k \in 1..Len(work), work[k].call \in Calls, IsCall(m)
          PROVE  work[k].call <= m.call
      <4>1. work[k].call \in Nat /\ work[k].call <= issued /\ m.call = issued + 1
        BY <1>0, <1>1, <1>3, <3>1
      <4> QED  BY <1>0, <4>1
    <3> QED  BY <3>1
  <2>4. ASSUME NEW i \in 1..Len(toHost'), NEW j \in 1..Len(toHost'), i < j,
               IsCall(toHost'[i]), IsCall(toHost'[j])
        PROVE  toHost'[i].call < toHost'[j].call
    <3>1. i \in 1..Len(toHost)
      BY <1>0, <2>1, <2>4
    <3>2. j \in 1..Len(toHost) \/ j = Len(toHost) + 1
      BY <2>1
    <3> QED  BY <2>1, <2>2, <2>4, <3>1, <3>2 DEF InOrder
  <2>5. \A k \in 1..Len(work), i \in 1..Len(toHost') :
           work[k].call \in Calls /\ IsCall(toHost'[i]) => work[k].call <= toHost'[i].call
    BY <2>1, <2>3 DEF InOrder
  <2> QED  BY <2>4, <2>5 DEF InOrder, IsCall
<1>4. CASE toHost' = <<>>
  BY <1>4 DEF InOrder
<1>5. CASE toHost' = <<[type |-> "call", call |-> call]>> /\ call # NoCall
  <2>1. Len(toHost') = 1 /\ toHost'[1].call = call /\ \A i \in 1..Len(toHost') : i = 1
    BY <1>5
  <2>2. \A i \in 1..Len(toHost') : toHost'[i].call = issued
    BY <1>0, <1>5, <2>1
  <2>3. \A i, j \in 1..Len(toHost') : ~(i < j)
    BY <2>1
  <2> QED  BY <1>0, <2>2, <2>3 DEF InOrder
<1>6. CASE \E c \in Calls : Issue(c)
  <2>1. PICK c \in Calls : c = issued + 1 /\ toHost' = Append(toHost, [type |-> "call", call |-> c])
    BY <1>6 DEF Issue
  <2>2. [type |-> "call", call |-> c] \in Msg
    OBVIOUS
  <2> QED  BY <1>3, <2>1, <2>2
<1>7. CASE SendControl
  <2> DEFINE m == [type |-> "timeout", call |-> Head(controls)]
  <2>1. Head(controls) \in Calls /\ toHost' = Append(toHost, m)
    BY <1>0, <1>7, HeadTailProperties DEF SendControl
  <2>2. m \in Msg /\ ~IsCall(m)
    BY <2>1 DEF IsCall
  <2> HIDE DEF m
  <2> QED  BY <1>3, <2>1, <2>2
<1>8. CASE TakeAnswer \/ Drop \/ Resume
  <2>1. \/ toHost' = toHost \/ toHost' = <<>>
        \/ toHost' = <<[type |-> "call", call |-> call]>> /\ call # NoCall
    BY <1>8 DEF TakeAnswer, Drop, Resume, Redelivery
  <2> QED  BY <1>2, <1>4, <1>5, <2>1
<1> QED  BY <1>6, <1>7, <1>8

\* Every step keeps the order.
LEMMA OrderStep ==
    ASSUME FewLocals, ArriveInv, InOrder, [Next]_vars
    PROVE  InOrder'
<1>1. CASE UNCHANGED <<work, toHost>>
  BY <1>1 DEF InOrder, IsCall
<1>2. HonestHost /\ KnownInv
  BY DEF ArriveInv
<1> QED
  BY <1>1, <1>2, HostMoves, WorkedInOrder, AdmittedInOrder, SocketInOrder

-----------------------------------------------------------------------------
(***************************************************************************)
(* ToolCalls implements ToolContract.                                      *)
(***************************************************************************)
ContractInv == ArriveInv /\ Truth /\ InOrder

\* What the contract sees of the action of a call, and of its outcome.
RunOf(c) ==
    IF RunsOf(c) = {} THEN "no"
    ELSE IF Cardinality(RunsOf(c)) > 1 THEN "again"
    ELSE work[CHOOSE k \in RunsOf(c) : TRUE].ran
ToldOf(c) ==
    IF told[c] = <<>> THEN "none" ELSE IF Len(told[c]) > 1 THEN "again" ELSE told[c][1]

\* A call has one work, and what became of its action is what became of that work.
RunIs(c) ==
    /\ \A k \in 1..Len(work) : work[k].call = c => RunOf(c) = work[k].ran
    /\ (\A k \in 1..Len(work) : work[k].call # c) => RunOf(c) = "no"
    /\ RunOf(c) \in {"no", "started", "ended"}

\* Whether a call ran is what its work says.
LEMMA RunIsTheWork == ContractInv => \A c \in Calls : RunIs(c)
<1> SUFFICES ASSUME ContractInv, NEW c \in Calls PROVE RunIs(c)
  OBVIOUS
<1>1. /\ \A k \in 1..Len(work) : work[k] \in Work
      /\ \A j, k \in 1..Len(work) : work[j].call = work[k].call => j = k
  BY ArriveTypes DEF ContractInv, InOrder
<1>2. ASSUME NEW k \in 1..Len(work), work[k].call = c
      PROVE  RunOf(c) = work[k].ran
  <2>1. CASE work[k].ran = "no"
    <3>1. RunsOf(c) = {}
      BY <1>1, <1>2, <2>1 DEF RunsOf, Works
    <3> QED  BY <2>1, <3>1 DEF RunOf
  <2>2. CASE work[k].ran # "no"
    <3>1. RunsOf(c) = {k}
      BY <1>1, <1>2, <2>2 DEF RunsOf, Works
    <3>2. Cardinality({k}) = 1 /\ (CHOOSE j \in {k} : TRUE) = k
      BY FS_Singleton
    <3> QED  BY <3>1, <3>2 DEF RunOf
  <2> QED  BY <2>1, <2>2
<1>3. ASSUME \A k \in 1..Len(work) : work[k].call # c
      PROVE  RunOf(c) = "no"
  <2>1. RunsOf(c) = {}
    BY <1>3 DEF RunsOf, Works
  <2> QED  BY <2>1 DEF RunOf
<1>4. \A k \in 1..Len(work) : work[k].ran \in {"no", "started", "ended"}
  BY <1>1 DEF Work
<1> QED  BY <1>2, <1>3, <1>4 DEF RunIs

\* The outcome the model was given, if any.
LEMMA ToldIsTheFirst ==
    ASSUME NEW t, t = <<>> \/ \E a \in Answers \cup {"timeout"} : t = <<a>>
    PROVE  LET o == IF t = <<>> THEN "none" ELSE IF Len(t) > 1 THEN "again" ELSE t[1]
           IN /\ t = <<>> => o = "none"
              /\ \A a \in Answers \cup {"timeout"} : t = <<a>> => o = a
  BY DEF Answers

\* What was declined has not run, and what is done ended.
LEMMA GivenIsTrue ==
    ASSUME ContractInv, NEW c \in Calls, NEW a, Gave(work, c, a)
    PROVE  /\ a = "done" => RunOf(c) = "ended"
           /\ a = "declined" => RunOf(c) = "no"
<1>1. PICK k \in 1..Len(work) : work[k].call = c /\ work[k].stage = "done" /\ work[k].answer = a
  BY DEF Gave
<1>2. Honest(work[k]) /\ RunOf(c) = work[k].ran
  BY <1>1, RunIsTheWork DEF RunIs, ContractInv, ArriveInv, HonestHost
<1> QED  BY <1>1, <1>2 DEF Honest

\* The invariants hold at first, and every step keeps them.
LEMMA ContractInvInit == Init => ContractInv
<1> SUFFICES ASSUME Init PROVE ContractInv
  OBVIOUS
<1>1. ArriveInv
  BY ArriveInit
<1>2. Truth /\ InOrder
  <2>1. /\ work = <<>> /\ toHost = <<>> /\ toRuntime = <<>> /\ feed = NoFeed
        /\ \A c \in Calls : told[c] = <<>>
        /\ 1..Len(work) = {} /\ 1..Len(toHost) = {} /\ 1..Len(toRuntime) = {}
    BY DEF Init
  <2> QED  BY <2>1 DEF Truth, InOrder
<1> QED  BY <1>1, <1>2 DEF ContractInv

\* Every step keeps the invariant.
LEMMA ContractInvStep ==
    ASSUME FewLocals, ContractInv, [Next]_vars
    PROVE  ContractInv'
  BY ArriveStep, TruthStep, OrderStep DEF ContractInv

\* So it is after a step.
LEMMA RunIsTheWorkNext == ContractInv' => \A c \in Calls : RunIs(c)'
<1>1. (ContractInv => \A c \in Calls : RunIs(c))'
  BY RunIsTheWork, PTL
<1> QED  BY <1>1

\* An action starts, or ends, and it does neither once it was declined.
LEMMA RunMoves ==
    ASSUME FewLocals, ContractInv, [Next]_vars, NEW c \in Calls
    PROVE  \/ RunOf(c)' = RunOf(c)
           \/ /\ RunOf(c) = "no" /\ RunOf(c)' = "started"
              /\ \A k \in 1..Len(work) : ~(work[k].call = c /\ work[k].stage = "done")
           \/ RunOf(c) = "started" /\ RunOf(c)' = "ended"
<1>1. RunIs(c) /\ RunIs(c)'
  BY ContractInvStep, RunIsTheWork, RunIsTheWorkNext
<1>2. /\ \A k \in 1..Len(work) : k \in 1..Len(work') /\ Follows(work[k], work'[k])
      /\ \A k \in 1..Len(work') : k \in 1..Len(work) \/ work'[k].ran = "no"
  BY WorksGo DEF ContractInv, ArriveInv
<1>3. ASSUME NEW k \in 1..Len(work), work[k].call = c
      PROVE  \/ RunOf(c)' = RunOf(c)
             \/ /\ RunOf(c) = "no" /\ RunOf(c)' = "started"
                /\ \A j \in 1..Len(work) : ~(work[j].call = c /\ work[j].stage = "done")
             \/ RunOf(c) = "started" /\ RunOf(c)' = "ended"
  <2>1. RunOf(c) = work[k].ran /\ RunOf(c)' = work'[k].ran
    BY <1>1, <1>2, <1>3 DEF RunIs, Follows
  <2>2. \A j \in 1..Len(work) : work[j].call = c => j = k
    BY <1>3 DEF ContractInv, InOrder
  <2> QED  BY <1>2, <2>1, <2>2 DEF Follows
<1>4. CASE \A k \in 1..Len(work) : work[k].call # c
  <2>1. RunOf(c) = "no"
    BY <1>1, <1>4 DEF RunIs
  <2>2. RunOf(c)' = "no"
    <3>1. CASE \E k \in 1..Len(work') : work'[k].call = c
      <4>1. PICK k \in 1..Len(work') : work'[k].call = c
        BY <3>1
      <4>2. k \notin 1..Len(work)
        BY <1>2, <1>4, <4>1 DEF Follows
      <4> QED  BY <1>1, <1>2, <4>1, <4>2 DEF RunIs
    <3> QED  BY <1>1, <3>1 DEF RunIs
  <2> QED  BY <2>1, <2>2
<1> QED  BY <1>3, <1>4

\* The outcome the model was given is one, and true; the next is the first.
LEMMA ToldIs ==
    ASSUME ContractInv, NEW c \in Calls
    PROVE  /\ ToldOf(c) \in Answers \cup {"timeout", "none"}
           /\ ToldOf(c) = "none" <=> told[c] = <<>>
           /\ ToldOf(c) \in {"done", "declined"} => Gave(work, c, ToldOf(c))
<1>1. CASE told[c] = <<>>
  BY <1>1 DEF ToldOf
<1>2. ASSUME NEW a, told[c] = <<a>>, Outcome(work, c, a)
      PROVE  /\ ToldOf(c) \in Answers \cup {"timeout", "none"}
             /\ ToldOf(c) = "none" <=> told[c] = <<>>
             /\ ToldOf(c) \in {"done", "declined"} => Gave(work, c, ToldOf(c))
  <2>1. told[c] # <<>> /\ Len(told[c]) = 1 /\ told[c][1] = a
    BY <1>2
  <2>2. ToldOf(c) = a /\ a \in Answers \cup {"timeout"}
    BY <1>2, <2>1 DEF ToldOf, Outcome
  <2> QED  BY <1>2, <2>1, <2>2 DEF Outcome, Answers
<1> QED  BY <1>1, <1>2 DEF ContractInv, Truth

\* A call is told one outcome, and one that is true of its run.
LEMMA ToldOfMoves ==
    ASSUME ContractInv, [Next]_vars, NEW c \in Calls
    PROVE  \/ ToldOf(c)' = ToldOf(c)
           \/ /\ ToldOf(c) = "none" /\ ToldOf(c)' \in Answers \cup {"timeout"}
              /\ ToldOf(c)' = "done" => RunOf(c) = "ended"
              /\ ToldOf(c)' = "declined" => RunOf(c) = "no"
<1>1. CASE told'[c] = told[c]
  BY <1>1 DEF ToldOf
<1>2. ASSUME told[c] = <<>>, NEW a, told'[c] = <<a>>, Outcome(work, c, a)
      PROVE  /\ ToldOf(c) = "none" /\ ToldOf(c)' \in Answers \cup {"timeout"}
             /\ ToldOf(c)' = "done" => RunOf(c) = "ended"
             /\ ToldOf(c)' = "declined" => RunOf(c) = "no"
  <2>1. told'[c] # <<>> /\ Len(told'[c]) = 1 /\ told'[c][1] = a
    BY <1>2
  <2>2. ToldOf(c)' = a /\ ToldOf(c) = "none"
    BY <1>2, <2>1 DEF ToldOf
  <2>3. a \in {"done", "declined"} => Gave(work, c, a)
    BY <1>2 DEF Outcome
  <2> QED  BY <1>2, <2>2, <2>3, GivenIsTrue DEF Outcome
<1> QED  BY <1>1, <1>2, ToldMoves DEF ContractInv

\* A call's action runs at most once, the model is given one outcome, and the outcome is
\* true of the action, whatever is redelivered, late or lost; as long as the commands a
\* person types in the session are fewer than the calls the host remembers.
THEOREM ImplementsContract ==
    ASSUME FewLocals
    PROVE  Spec => ContractIsKept
<1>1. Init => Contract!Init
  <2> SUFFICES ASSUME Init PROVE Contract!Init
    OBVIOUS
  <2>1. ASSUME NEW c \in Calls PROVE RunOf(c) = "no" /\ ToldOf(c) = "none"
    <3>1. RunIs(c) /\ Len(work) = 0 /\ told[c] = <<>>
      BY ContractInvInit, RunIsTheWork DEF Init
    <3>2. \A k \in 1..Len(work) : FALSE
      BY <3>1
    <3> QED  BY <3>1, <3>2 DEF RunIs, ToldOf
  <2> QED  BY <2>1 DEF Contract!Init, RunOf, ToldOf
<1>2. ContractInv /\ [Next]_vars => [Contract!Next]_(Contract!vars)
  <2> SUFFICES ASSUME ContractInv, [Next]_vars PROVE Contract!Next
    OBVIOUS
  <2>1. ASSUME NEW c \in Calls
        PROVE  /\ RunOf(c)' \in {"no", "started", "ended"}
               /\ ToldOf(c)' \in Answers \cup {"timeout", "none"}
    <3>1. RunIs(c) /\ ToldOf(c) \in Answers \cup {"timeout", "none"}
      BY RunIsTheWork, ToldIs
    <3>2. RunOf(c) \in {"no", "started", "ended"}
      BY <3>1 DEF RunIs
    <3> QED  BY <3>1, <3>2, RunMoves, ToldOfMoves
  <2>2. ASSUME NEW c \in Calls
        PROVE  \/ RunOf(c)' = RunOf(c)
               \/ RunOf(c) = "no" /\ RunOf(c)' = "started" /\ ToldOf(c) # "declined"
               \/ RunOf(c) = "started" /\ RunOf(c)' = "ended"
    <3>1. ToldOf(c) = "declined" =>
             \E k \in 1..Len(work) : work[k].call = c /\ work[k].stage = "done"
      BY ToldIs DEF Gave
    <3> QED  BY <3>1, RunMoves
  <2>3. /\ [c \in Calls |-> RunOf(c)]' \in [Calls -> {"no", "started", "ended"}]
        /\ [c \in Calls |-> ToldOf(c)]' \in [Calls -> Answers \cup {"timeout", "none"}]
    BY <2>1
  <2> QED
    BY <2>2, <2>3, ToldOfMoves
    DEF Contract!Next, Contract!Starts, Contract!Ends, Contract!Tells, Contract!Outcomes,
        RunOf, ToldOf, Answers
<1>3. FewLocals /\ ContractInv /\ [Next]_vars => ContractInv'
  BY ContractInvStep
<1>4. Spec => []ContractInv
  BY <1>3, ContractInvInit, PTL DEF Spec
<1> QED  BY <1>1, <1>2, <1>4, PTL DEF Spec, ContractIsKept, Contract!Spec
=============================================================================
