---------------------------- MODULE Billing_proofs ----------------------------
(***************************************************************************)
(* The cost budget of an execution run, for any number of requests, any    *)
(* costs and any limits.  reserve_model_call reads the cost of the calls   *)
(* that came back; record_model_usage adds to it later.  That no more than *)
(* one call slips in between rests on the event loop, which a model call   *)
(* keeps from its first step to its last: LoopKept is the strengthening.   *)
(* The second part is the ledger, which payments and charges explain, each *)
(* once.  The third is the holds, which are closed by the time a request   *)
(* is done.  The fourth is what concurrent requests may overspend:         *)
(* AccountInv relates the balance and the spend on a key to the holds and  *)
(* to what was charged beyond them, and what a request read to the same    *)
(* sums, which only a stream's charge changes behind its back.             *)
(*                                                                         *)
(* The last part is the visual service and its usage, for any number of    *)
(* sessions, requests, reports and failures; it is here since it adds up   *)
(* reports as the ledger adds up charges.  That a request id is answered   *)
(* once rests on the inference lock (LockInv): whoever infers for an id    *)
(* found it in neither window, and nobody else answers meanwhile.  The     *)
(* windows are a part of the past that is long enough (Remembered).  That  *)
(* a unit of use is in one report rests on a numbering: a session's report *)
(* has the next number and takes what was not reported, and from there on  *)
(* reports only go from hand to hand (UsageInv).                           *)
(***************************************************************************)
EXTENDS Billing, Visual, FiniteSetTheorems, SequenceTheorems, TLAPS

\* The parts of the type invariant that the budget needs.
BudgetTypes ==
    /\ run \in [calls : Nat, cost : Nat, revoked : BOOLEAN]
    /\ pc \in [Requests -> PC]
    /\ cost \in [Requests -> {0} \cup Costs]

\* A request in its head, and any but a stream throughout, has the event loop.
AtHead == {"balance", "holds", "committed", "held"}
LoopKept ==
    \A r \in Requests :
        \/ pc[r] \in AtHead
        \/ r \notin Streams /\ pc[r] \notin {"idle", "done"}
        => loop = r

\* A call that is on its way or just came back found the budget open, and nothing
\* was accounted since.
BudgetOpen ==
    \A r \in ExecCalls : pc[r] \in {"forward", "account"} => run.cost < MaxRunCost

\* What is accounted is the cost of an answer to a model call.
AccountedCost ==
    \A r \in Requests : pc[r] = "account" => r \in ExecCalls /\ cost[r] \in Costs

BudgetInv ==
    BudgetTypes /\ LoopKept /\ BudgetOpen /\ AccountedCost /\ OvershootIsOneCall

-----------------------------------------------------------------------------
\* Budget and loop hold before the first request.
LEMMA BudgetInit == Init => BudgetInv
  BY AmountsAssumption, SMT
  DEF Init, BudgetInv, BudgetTypes, LoopKept, BudgetOpen, AccountedCost,
      OvershootIsOneCall, AtHead, Requests, PC

\* What most steps do: run and cost stay, one request moves to a place that is
\* neither its head nor a call under way, and keeps the loop or is done with it.
Quiet(r) ==
    /\ UNCHANGED <<run, cost>>
    /\ \E l \in PC :
         /\ pc' = [pc EXCEPT ![r] = l]
         /\ l # "account" /\ (l = "forward" => r \notin ExecCalls)
         /\ l \in AtHead => pc[r] \in AtHead
         /\ r \notin Streams => (l = "done" \/ pc[r] # "idle")
         /\ \/ loop' = loop /\ (r \notin Streams => pc[r] # "done" \/ l = "done")
            \/ loop' = (IF loop = r THEN NoOne ELSE loop) /\ l = "done"

\* A quiet step keeps the invariant.
LEMMA QuietStep ==
    ASSUME BudgetInv, NEW r \in Requests, Quiet(r)
    PROVE  BudgetInv'
<1> USE DEF BudgetInv, Quiet
<1>1. BudgetTypes'
  BY DEF BudgetTypes
<1>2. LoopKept'
  BY RequestsAssumption DEF LoopKept, BudgetTypes, AtHead, Requests, PC
<1>3. BudgetOpen'
  BY DEF BudgetOpen, BudgetTypes, Requests, PC
<1>4. AccountedCost'
  BY DEF AccountedCost, BudgetTypes, Requests, PC
<1>5. OvershootIsOneCall'
  BY DEF OvershootIsOneCall
<1> QED  BY <1>1, <1>2, <1>3, <1>4, <1>5

-----------------------------------------------------------------------------
\* The steps that touch the budget or take the loop.

\* A request starts when nobody has the loop.
LEMMA StartStep ==
    ASSUME BudgetInv, NEW r \in Requests, Start(r)
    PROVE  BudgetInv'
<1> USE DEF BudgetInv, Start, At, meter
<1>1. BudgetTypes'
  BY DEF BudgetTypes, PC
<1>2. LoopKept'
  BY RequestsAssumption DEF LoopKept, BudgetTypes, Requests
<1>3. BudgetOpen' /\ AccountedCost' /\ OvershootIsOneCall'
  BY DEF BudgetOpen, AccountedCost, OvershootIsOneCall, BudgetTypes, Requests
<1> QED  BY <1>1, <1>2, <1>3

\* A callback is taken when nobody has the loop.
LEMMA CallbackStep ==
    ASSUME BudgetInv, NEW r \in ExecCalls, Callback(r)
    PROVE  BudgetInv'
<1> USE DEF BudgetInv, Callback, At, meter
<1>1. BudgetTypes'
  BY DEF BudgetTypes, PC
<1>2. LoopKept'
  BY RequestsAssumption DEF LoopKept, BudgetTypes, Requests
<1>3. BudgetOpen' /\ AccountedCost' /\ OvershootIsOneCall'
  BY DEF BudgetOpen, AccountedCost, OvershootIsOneCall, BudgetTypes, Requests
<1> QED  BY <1>1, <1>2, <1>3

\* The head of a stream gives the loop back when its generator starts.
LEMMA ReadHeldStep ==
    ASSUME BudgetInv, NEW r \in Public, ReadHeld(r)
    PROVE  BudgetInv'
<1> USE DEF BudgetInv, ReadHeld, At, Goto, meter
<1>1. BudgetTypes'
  BY DEF BudgetTypes, PC, Requests
<1>2. LoopKept'
  BY RequestsAssumption DEF LoopKept, BudgetTypes, Requests, Public, AtHead, PC
<1>3. BudgetOpen' /\ AccountedCost' /\ OvershootIsOneCall'
  BY RequestsAssumption
  DEF BudgetOpen, AccountedCost, OvershootIsOneCall, BudgetTypes, Requests
<1> QED  BY <1>1, <1>2, <1>3

\* The slot is claimed only while the budget is open.
LEMMA ReserveSlotStep ==
    ASSUME BudgetInv, NEW r \in Requests, ReserveSlot(r)
    PROVE  BudgetInv'
<1> USE DEF BudgetInv, ReserveSlot, At, Goto, meter
<1>1. BudgetTypes'
  BY DEF BudgetTypes, PC
<1>2. LoopKept'
  BY RequestsAssumption DEF LoopKept, BudgetTypes, Requests, AtHead, PC
<1>3. BudgetOpen' /\ AccountedCost' /\ OvershootIsOneCall'
  BY DEF BudgetOpen, AccountedCost, OvershootIsOneCall, BudgetTypes, Requests
<1> QED  BY <1>1, <1>2, <1>3

\* A model call comes back, and its cost is known.
LEMMA UpstreamStep ==
    ASSUME BudgetInv, NEW r \in Requests, Upstream(r)
    PROVE  BudgetInv'
<1> USE DEF BudgetInv, Upstream, Worked, At, Goto
<1>1. BudgetTypes'
  BY DEF BudgetTypes, PC
<1>2. LoopKept'
  BY DEF LoopKept, BudgetTypes, Requests, AtHead, PC
<1>3. BudgetOpen' /\ AccountedCost' /\ OvershootIsOneCall'
  BY DEF BudgetOpen, AccountedCost, OvershootIsOneCall, BudgetTypes, Requests
<1> QED  BY <1>1, <1>2, <1>3

\* The answer to a request of the public gateway is not accounted on the run.
LEMMA AnswerStep ==
    ASSUME BudgetInv, NEW r \in Requests, Forward(r) \/ Stream(r)
    PROVE  BudgetInv'
<1> USE DEF BudgetInv, Forward, Stream, Worked, At, Goto, Finish
<1>1. BudgetTypes'
  BY DEF BudgetTypes, PC
<1>2. LoopKept'
  BY RequestsAssumption DEF LoopKept, BudgetTypes, Requests, Public, AtHead, PC
<1>3. run' = run /\ \A q \in Requests \ {r} : pc'[q] = pc[q] /\ cost'[q] = cost[q]
  BY DEF BudgetTypes
<1>4. pc'[r] \notin {"account"} /\ (pc'[r] = "forward" => r \notin ExecCalls)
  BY DEF BudgetTypes
<1>5. BudgetOpen' /\ AccountedCost' /\ OvershootIsOneCall'
  BY <1>3, <1>4 DEF BudgetOpen, AccountedCost, OvershootIsOneCall, Requests
<1> QED  BY <1>1, <1>2, <1>5

\* The run is charged with one call, by the one call that has the loop, and the
\* budget was open when that call left.
LEMMA AccountStep ==
    ASSUME BudgetInv, NEW r \in ExecCalls, Account(r)
    PROVE  BudgetInv'
<1> USE DEF BudgetInv, Account, At, Goto, Finish, meter
<1>1. cost[r] \in Costs /\ cost[r] \in Nat /\ run.cost \in Nat /\ run.cost < MaxRunCost
  BY AmountsAssumption DEF AccountedCost, BudgetOpen, BudgetTypes, Requests
<1>2. run'.cost = run.cost + cost[r]
  BY DEF BudgetTypes
<1>3. BudgetTypes'
  BY <1>1 DEF BudgetTypes, PC, Requests
<1>4. LoopKept'
  BY RequestsAssumption DEF LoopKept, BudgetTypes, Requests, AtHead, PC
<1>5. loop = r /\ \A q \in ExecCalls \ {r} : pc'[q] \in {"idle", "done"}
  BY RequestsAssumption DEF Public, LoopKept, BudgetTypes, Requests
<1>6. BudgetOpen' /\ AccountedCost'
  BY <1>5 DEF BudgetOpen, AccountedCost, BudgetTypes, Requests
<1>7. OvershootIsOneCall'
  <2> SUFFICES ASSUME NEW m \in Costs, \A c \in Costs : c <= m
               PROVE  run'.cost < MaxRunCost + m
    BY DEF OvershootIsOneCall
  <2>1. cost[r] <= m /\ m \in Nat /\ MaxRunCost \in Nat
    BY <1>1, AmountsAssumption
  <2> QED  BY <1>1, <1>2, <2>1
<1> QED  BY <1>3, <1>4, <1>6, <1>7

\* A run over its budget is revoked.
LEMMA RevokeStep ==
    ASSUME BudgetInv, NEW r \in Requests, RevokeRun(r)
    PROVE  BudgetInv'
<1> USE DEF BudgetInv, RevokeRun, At, Finish, meter
<1>1. BudgetTypes'
  BY DEF BudgetTypes, PC
<1>2. LoopKept'
  BY DEF LoopKept, BudgetTypes, Requests, AtHead, PC
<1>3. BudgetOpen' /\ AccountedCost' /\ OvershootIsOneCall'
  BY DEF BudgetOpen, AccountedCost, OvershootIsOneCall, BudgetTypes, Requests
<1> QED  BY <1>1, <1>2, <1>3

\* A crash ends the calls under way; none of them is accounted.
LEMMA CrashStep ==
    ASSUME BudgetInv, CrashWeb
    PROVE  BudgetInv'
  BY DEF BudgetInv, CrashWeb, meter, At, BudgetTypes, LoopKept, BudgetOpen,
         AccountedCost, OvershootIsOneCall, AtHead, PC, Requests

\* A payment or a stuttering step leaves the requests and the run alone.
LEMMA StillStep ==
    ASSUME BudgetInv, UNCHANGED vars \/ \E e \in Payments : TopUp(e)
    PROVE  BudgetInv'
<1>1. UNCHANGED <<run, cost, pc, loop>>
  BY DEF vars, TopUp, meter
<1> QED  BY <1>1 DEF BudgetInv, BudgetTypes, LoopKept, BudgetOpen, AccountedCost,
                     OvershootIsOneCall

\* The steps of a request that are quiet.
QuietAction(r) ==
    \/ ReserveBalance(r) \/ ReserveHolds(r) \/ Release(r) \/ UndoHold(r)
    \/ Record(r) \/ Price(r) \/ Charge(r)
    \/ r \in Public /\ (ReadCommitted(r) \/ UndoLimit(r) \/ Reconcile(r))

\* The steps that are quiet.
LEMMA QuietActions ==
    ASSUME BudgetInv, NEW r \in Requests, QuietAction(r)
    PROVE  Quiet(r)
<1> USE RequestsAssumption
    DEF BudgetInv, BudgetTypes, Quiet, At, Goto, Finish, AtHead, PC, Requests, meter
<1>1. CASE ReserveBalance(r)
  BY <1>1 DEF ReserveBalance
<1>2. CASE ReserveHolds(r)
  BY <1>2 DEF ReserveHolds, Public
<1>3. CASE Release(r)
  BY <1>3 DEF Release
<1>4. CASE UndoHold(r)
  BY <1>4 DEF UndoHold
<1>5. CASE Record(r)
  BY <1>5 DEF Record
<1>6. CASE Price(r)
  BY <1>6 DEF Price
<1>7. CASE Charge(r)
  BY <1>7 DEF Charge, AfterCharge
<1>8. CASE r \in Public /\ ReadCommitted(r)
  BY <1>8 DEF ReadCommitted
<1>9. CASE r \in Public /\ UndoLimit(r)
  BY <1>9 DEF UndoLimit
<1>10. CASE r \in Public /\ Reconcile(r)
  BY <1>10 DEF Reconcile
<1> QED  BY <1>1, <1>2, <1>3, <1>4, <1>5, <1>6, <1>7, <1>8, <1>9, <1>10
         DEF QuietAction

-----------------------------------------------------------------------------
\* Every step keeps the budget's invariant.
LEMMA BudgetStep == BudgetInv /\ [Next]_vars => BudgetInv'
<1> SUFFICES ASSUME BudgetInv, [Next]_vars  PROVE BudgetInv'
  OBVIOUS
<1>1. ASSUME NEW r \in Requests, Start(r) \/ Step(r)  PROVE BudgetInv'
  <2>1. CASE QuietAction(r)
    BY <2>1, QuietActions, QuietStep
  <2>2. CASE Account(r)
    <3>1. r \in ExecCalls
      BY <2>2 DEF Account, At, BudgetInv, AccountedCost
    <3> QED  BY <2>2, <3>1, AccountStep
  <2> QED
    BY <1>1, <2>1, <2>2, StartStep, ReserveSlotStep, UpstreamStep, AnswerStep, RevokeStep
    DEF Step, QuietAction
<1>2. ASSUME NEW r \in Public, PublicStep(r)  PROVE BudgetInv'
  <2>1. r \in Requests
    BY DEF Requests
  <2> QED  BY <1>2, <2>1, ReadHeldStep, QuietActions, QuietStep DEF PublicStep, QuietAction
<1> QED  BY <1>1, <1>2, CallbackStep, CrashStep, StillStep DEF Next

\* A run overshoots its cost budget by less than one call, for any number of model
\* calls, public requests and callbacks that interleave.
THEOREM BudgetKept == Spec => []OvershootIsOneCall
<1>1. BudgetInv => OvershootIsOneCall
  BY DEF BudgetInv
<1> QED  BY <1>1, BudgetInit, BudgetStep, PTL DEF Spec

-----------------------------------------------------------------------------
(***************************************************************************)
(* Sums.  What MapThenSumSet adds up is a function on the subsets of a     *)
(* set, defined by recursion.  That it is there, and that the order in     *)
(* which it takes the elements does not matter, is shown by taking a       *)
(* smallest set for which it is not so.                                    *)
(***************************************************************************)
Choice(s) == CHOOSE x \in s : TRUE

\* g adds up the values of f over each subset of U.
Adds(g, f, U) ==
    g = [s \in SUBSET U |-> IF s = {} THEN 0 ELSE f[Choice(s)] + g[s \ {Choice(s)}]]

Total(f, U) == (CHOOSE g : Adds(g, f, U))[U]

\* The charges of some requests, as such a sum.
LEMMA ChargesAreTotal ==
  ASSUME NEW S
  PROVE  Charges(S) = Total(cost, S \cap Charged)
  BY DEF Charges, MapThenSumSet, MapThenFoldSet, Total, Adds, Choice

\* Among subsets of a finite set there is one that has no other below it.
LEMMA SmallestSet ==
  ASSUME NEW U, IsFiniteSet(U), NEW C \in SUBSET (SUBSET U), C # {}
  PROVE  \E s \in C : \A t \in C : t \subseteq s => t = s
<1>1. C \subseteq FiniteSubsetsOf(U)
  BY FS_FiniteSubsetsOfFinite
<1>2. PICK s \in C : \A t \in C : <<t, s>> \notin StrictSubsetOrdering(U)
  BY <1>1, FS_StrictSubsetOrderingWellFounded, WFMin
<1>3. QED
  BY <1>2 DEF StrictSubsetOrdering

\* What a function that adds up says of one subset.
LEMMA AddsOne ==
  ASSUME NEW g, NEW f, NEW U, Adds(g, f, U), NEW s \in SUBSET U
  PROVE  /\ s = {} => g[s] = 0
         /\ s # {} => /\ Choice(s) \in s /\ s \ {Choice(s)} \in SUBSET U
                      /\ g[s] = f[Choice(s)] + g[s \ {Choice(s)}]
<1>1. s # {} => Choice(s) \in s
  BY DEF Choice
<1>2. g[s] = IF s = {} THEN 0 ELSE f[Choice(s)] + g[s \ {Choice(s)}]
  BY DEF Adds
<1>3. QED
  BY <1>1, <1>2

\* Two functions that add up the same values agree.
LEMMA AddsAgree ==
  ASSUME NEW g, NEW h, NEW e, NEW f, NEW U, IsFiniteSet(U), Adds(g, e, U), Adds(h, f, U),
         \A x \in U : e[x] = f[x]
  PROVE  \A s \in SUBSET U : g[s] = h[s]
<1> DEFINE C == {s \in SUBSET U : g[s] # h[s]}
<1>1. SUFFICES ASSUME C # {}
               PROVE  FALSE
  OBVIOUS
<1>2. C \in SUBSET (SUBSET U)
  OBVIOUS
<1>3. PICK s \in C : \A t \in C : t \subseteq s => t = s
  <2> HIDE DEF C
  <2>1. QED
    BY <1>1, <1>2, SmallestSet
<1>4. s \in SUBSET U /\ g[s] # h[s]
  BY <1>3
<1>5. s # {}
  BY <1>4, AddsOne
<1> DEFINE t == s \ {Choice(s)}
<1>6. /\ Choice(s) \in s /\ t \in SUBSET U
      /\ g[s] = e[Choice(s)] + g[t] /\ h[s] = f[Choice(s)] + h[t]
  BY <1>4, <1>5, AddsOne
<1>7. t \notin C
  BY <1>3, <1>6
<1>8. QED
  BY <1>4, <1>6, <1>7

\* On part of the set the function is the one of that part.
LEMMA AddsPart ==
  ASSUME NEW g, NEW f, NEW U, Adds(g, f, U), NEW V \in SUBSET U
  PROVE  Adds([s \in SUBSET V |-> g[s]], f, V)
<1> DEFINE h == [s \in SUBSET V |-> g[s]]
           k == [s \in SUBSET V |->
                    IF s = {} THEN 0 ELSE f[Choice(s)] + h[s \ {Choice(s)}]]
<1>1. ASSUME NEW s \in SUBSET V
      PROVE  h[s] = k[s]
  <2>1. s \in SUBSET U /\ s \ {Choice(s)} \in SUBSET V
    OBVIOUS
  <2>2. h[s] = g[s] /\ h[s \ {Choice(s)}] = g[s \ {Choice(s)}]
    BY <2>1
  <2>3. /\ s = {} => g[s] = 0
        /\ s # {} => g[s] = f[Choice(s)] + g[s \ {Choice(s)}]
    BY <2>1, AddsOne
  <2>4. k[s] = IF s = {} THEN 0 ELSE f[Choice(s)] + h[s \ {Choice(s)}]
    <3> HIDE DEF h
    <3>1. QED
      OBVIOUS
  <2> HIDE DEF h, k
  <2>5. QED
    BY <2>2, <2>3, <2>4
<1>2. h = k
  <2>1. h = [s \in SUBSET V |-> h[s]] /\ k = [s \in SUBSET V |-> k[s]]
    OBVIOUS
  <2> HIDE DEF h, k
  <2>2. QED
    BY <1>1, <2>1
<1>3. QED
  BY <1>2 DEF Adds

\* The sum over a finite set is there.
LEMMA TotalIsDefined ==
  ASSUME NEW f, NEW U, IsFiniteSet(U)
  PROVE  \E g : Adds(g, f, U)
<1> DEFINE C == {V \in SUBSET U : \A g : ~Adds(g, f, V)}
<1>1. SUFFICES ASSUME C # {}
               PROVE  FALSE
  OBVIOUS
<1>2. C \in SUBSET (SUBSET U)
  OBVIOUS
<1>3. \E V \in C : \A W \in C : W \subseteq V => W = V
  <2> HIDE DEF C
  <2>1. QED
    BY <1>1, <1>2, SmallestSet
<1> PICK V \in C : \A W \in C : W \subseteq V => W = V
  BY <1>3
<1>4. V \in SUBSET U /\ IsFiniteSet(V) /\ \A g : ~Adds(g, f, V)
  <2>1. V \in SUBSET U /\ \A g : ~Adds(g, f, V)
    OBVIOUS
  <2>2. QED
    BY <2>1, FS_Subset
<1> DEFINE F(W) == CHOOSE g : Adds(g, f, W)
<1>5. \A W \in SUBSET V : W # V => Adds(F(W), f, W)
  <2> SUFFICES ASSUME NEW W \in SUBSET V, W # V
               PROVE  Adds(F(W), f, W)
    OBVIOUS
  <2>1. W \notin C /\ W \in SUBSET U
    BY <1>4
  <2>2. \E g : Adds(g, f, W)
    BY <2>1
  <2>3. QED
    BY <2>2
<1> DEFINE c == Choice(V)
           g == [W \in SUBSET V |-> IF W # V THEN F(W)[W]
                                    ELSE IF V = {} THEN 0
                                    ELSE f[c] + F(V \ {c})[V \ {c}]]
           k == [s \in SUBSET V |->
                    IF s = {} THEN 0 ELSE f[Choice(s)] + g[s \ {Choice(s)}]]
<1>6. ASSUME NEW W \in SUBSET V, W # V, NEW X \in SUBSET W
      PROVE  F(W)[X] = F(X)[X]
  <2>1. X \in SUBSET V /\ X # V
    BY <1>6
  <2>2. Adds(F(W), f, W) /\ Adds(F(X), f, X)
    BY <1>5, <1>6, <2>1
  <2> HIDE DEF F
  <2> DEFINE p == [s \in SUBSET X |-> F(W)[s]]
  <2>3. Adds(p, f, X)
    BY <2>2, AddsPart
  <2>4. IsFiniteSet(X)
    BY <1>4, <2>1, FS_Subset
  <2>5. X \in SUBSET X /\ p[X] = F(W)[X]
    OBVIOUS
  <2> HIDE DEF p
  <2>6. p[X] = F(X)[X]
    BY <2>2, <2>3, <2>4, <2>5, AddsAgree
  <2>7. QED
    BY <2>5, <2>6
<1>7. ASSUME NEW W \in SUBSET V
      PROVE  g[W] = k[W]
  <2>1. CASE W = {}
    <3>1. CASE V = {}
      BY <2>1, <3>1
    <3>2. CASE V # {}
      <4>1. Adds(F(W), f, W) /\ W \in SUBSET W
        BY <1>5, <2>1, <3>2
      <4>2. F(W)[W] = 0
        <5> HIDE DEF F
        <5>1. QED
          BY <2>1, <4>1, AddsOne
      <4>3. g[W] = F(W)[W] /\ k[W] = 0
        BY <2>1, <3>2
      <4>4. QED
        BY <4>2, <4>3
    <3>3. QED
      BY <3>1, <3>2
  <2>2. CASE W # {}
    <3> DEFINE x == Choice(W)
               X == W \ {x}
    <3>1. x \in W
      BY <2>2 DEF Choice
    <3>2. X \in SUBSET V /\ X # V /\ X \in SUBSET W
      BY <3>1
    <3>3. k[W] = f[x] + g[X] /\ g[X] = F(X)[X]
      <4>1. g[X] = F(X)[X]
        BY <3>2
      <4> HIDE DEF g
      <4>2. k[W] = f[x] + g[X]
        BY <2>2
      <4>3. QED
        BY <4>1, <4>2
    <3>4. CASE W = V
      <4>1. g[W] = f[x] + F(X)[X]
        BY <2>2, <3>4
      <4>2. QED
        BY <3>3, <4>1
    <3>5. CASE W # V
      <4>1. g[W] = F(W)[W]
        BY <3>5
      <4>2. Adds(F(W), f, W) /\ W \in SUBSET W
        BY <1>5, <3>5
      <4>3. F(W)[X] = F(X)[X]
        BY <1>6, <3>2, <3>5
      <4> HIDE DEF F, g, k
      <4>4. F(W)[W] = f[x] + F(W)[X]
        BY <2>2, <4>2, AddsOne
      <4>5. QED
        BY <3>3, <4>1, <4>3, <4>4
    <3>6. QED
      BY <3>4, <3>5
  <2>3. QED
    BY <2>1, <2>2
<1>8. g = k
  <2>1. g = [W \in SUBSET V |-> g[W]] /\ k = [W \in SUBSET V |-> k[W]]
    OBVIOUS
  <2> HIDE DEF g, k
  <2>2. QED
    BY <1>7, <2>1
<1>9. Adds(g, f, V)
  <2> HIDE DEF F
  <2>1. QED
    BY <1>8 DEF Adds
<1>10. QED
  <2> HIDE DEF g
  <2>1. QED
    BY <1>4, <1>9


\* The sum over a finite set, as the recursion takes it.
LEMMA TotalStep ==
  ASSUME NEW f, NEW U, IsFiniteSet(U)
  PROVE  /\ U = {} => Total(f, U) = 0
         /\ U # {} => /\ Choice(U) \in U
                      /\ Total(f, U) = f[Choice(U)] + Total(f, U \ {Choice(U)})
<1> DEFINE g == CHOOSE g : Adds(g, f, U)
<1>1. Adds(g, f, U) /\ U \in SUBSET U /\ Total(f, U) = g[U]
  BY TotalIsDefined DEF Total
<1>2. \A V \in SUBSET U : g[V] = Total(f, V)
  <2> SUFFICES ASSUME NEW V \in SUBSET U
               PROVE  g[V] = Total(f, V)
    OBVIOUS
  <2> HIDE DEF g
  <2> DEFINE h == CHOOSE h : Adds(h, f, V)
             p == [s \in SUBSET V |-> g[s]]
  <2>1. IsFiniteSet(V)
    BY FS_Subset
  <2>2. Adds(h, f, V) /\ V \in SUBSET V /\ Total(f, V) = h[V]
    BY <2>1, TotalIsDefined DEF Total
  <2>3. Adds(p, f, V) /\ p[V] = g[V]
    <3>1. Adds(p, f, V)
      <4> HIDE DEF p
      <4>1. Adds([s \in SUBSET V |-> g[s]], f, V)
        BY <1>1, AddsPart
      <4>2. QED
        BY <4>1 DEF p
    <3>2. QED
      BY <3>1, <2>2
  <2> HIDE DEF h, p
  <2>4. p[V] = h[V]
    BY <2>1, <2>2, <2>3, AddsAgree
  <2>5. QED
    BY <2>2, <2>3, <2>4
<1> HIDE DEF g
<1>3. U = {} => g[U] = 0
  BY <1>1, AddsOne
<1>4. U # {} => /\ Choice(U) \in U /\ U \ {Choice(U)} \in SUBSET U
                /\ g[U] = f[Choice(U)] + g[U \ {Choice(U)}]
  BY <1>1, AddsOne
<1>5. QED
  BY <1>1, <1>2, <1>3, <1>4

\* A sum depends on the values over its set only.
LEMMA TotalSame ==
  ASSUME NEW e, NEW f, NEW U, IsFiniteSet(U), \A x \in U : e[x] = f[x]
  PROVE  Total(e, U) = Total(f, U)
<1> DEFINE g == CHOOSE g : Adds(g, e, U)
           h == CHOOSE h : Adds(h, f, U)
<1>1. Adds(g, e, U) /\ Adds(h, f, U)
  BY TotalIsDefined
<1>2. Total(e, U) = g[U] /\ Total(f, U) = h[U] /\ U \in SUBSET U
  BY DEF Total
<1> HIDE DEF g, h
<1>3. g[U] = h[U]
  BY <1>1, <1>2, AddsAgree
<1>4. QED
  BY <1>2, <1>3

\* A sum of natural numbers is one, and any element may be taken out first.
LEMMA TotalTakes ==
  ASSUME NEW f, NEW U, IsFiniteSet(U), \A x \in U : f[x] \in Nat
  PROVE  /\ Total(f, U) \in Nat
         /\ \A x \in U : Total(f, U) = f[x] + Total(f, U \ {x})
<1> DEFINE Good(V) == /\ Total(f, V) \in Nat
                      /\ \A x \in V : Total(f, V) = f[x] + Total(f, V \ {x})
           C == {V \in SUBSET U : ~Good(V)}
<1>1. SUFFICES ASSUME C # {}
               PROVE  FALSE
  OBVIOUS
<1>2. C \in SUBSET (SUBSET U)
  OBVIOUS
<1>3. \E V \in C : \A W \in C : W \subseteq V => W = V
  <2> HIDE DEF C
  <2>1. QED
    BY <1>1, <1>2, SmallestSet
<1> PICK V \in C : \A W \in C : W \subseteq V => W = V
  BY <1>3
<1>4. V \in SUBSET U /\ IsFiniteSet(V) /\ ~Good(V)
  BY FS_Subset
<1>5. \A x \in V : Good(V \ {x})
  <2> SUFFICES ASSUME NEW x \in V
               PROVE  Good(V \ {x})
    OBVIOUS
  <2>1. V \ {x} \in SUBSET U /\ V \ {x} \subseteq V /\ V \ {x} # V
    BY <1>4
  <2> HIDE DEF Good
  <2>2. QED
    BY <2>1
<1> DEFINE c == Choice(V)
<1>6. CASE V = {}
  <2>1. Total(f, V) = 0
    BY <1>4, <1>6, TotalStep
  <2>2. QED
    BY <1>4, <1>6, <2>1
<1>7. CASE V # {}
  <2>1. c \in V /\ Total(f, V) = f[c] + Total(f, V \ {c}) /\ f[c] \in Nat
    BY <1>4, <1>7, TotalStep
  <2>2. Total(f, V \ {c}) \in Nat /\ \A x \in V \ {c} :
          Total(f, V \ {c}) = f[x] + Total(f, (V \ {c}) \ {x})
    BY <1>5, <2>1
  <2> HIDE DEF c
  <2>3. ASSUME NEW x \in V
        PROVE  Total(f, V) = f[x] + Total(f, V \ {x})
    <3>1. CASE x = c
      BY <2>1, <3>1
    <3>2. CASE x # c
      <4>1. Total(f, V \ {x}) = f[c] + Total(f, (V \ {x}) \ {c})
        <5>1. Good(V \ {x}) /\ c \in V \ {x}
          BY <1>5, <2>1, <3>2
        <5>2. QED
          BY <5>1
      <4>2. Total(f, V \ {c}) = f[x] + Total(f, (V \ {c}) \ {x})
        BY <2>2, <3>2
      <4>3. (V \ {x}) \ {c} = (V \ {c}) \ {x}
        OBVIOUS
      <4> DEFINE T == (V \ {x}) \ {c}
      <4>4. Total(f, T) \in Nat
        <5>1. c \in V /\ x \in V \ {c} /\ V \ {c} \in SUBSET U /\ T \in SUBSET U
              /\ T \subseteq V /\ T # V
          BY <1>4, <2>1, <3>2
        <5>2. T \notin C
          BY <5>1
        <5>3. QED
          BY <5>1, <5>2
      <4> HIDE DEF T
      <4>5. Total(f, V \ {x}) = f[c] + Total(f, T) /\ Total(f, V \ {c}) = f[x] + Total(f, T)
        BY <4>1, <4>2, <4>3 DEF T
      <4>6. f[x] \in Nat
        BY <1>4
      <4>7. QED
        BY <2>1, <4>4, <4>5, <4>6
    <3>3. QED
      BY <3>1, <3>2
  <2>4. QED
    BY <1>4, <2>1, <2>2, <2>3
<1>8. QED
  BY <1>6, <1>7


-----------------------------------------------------------------------------
(***************************************************************************)
(* The ledger.  A request's cost is fixed before it is charged, and it is  *)
(* charged once; so the sum of the charges grows by the cost of whoever is *)
(* charged and changes in no other way.                                    *)
(***************************************************************************)
Paid == {e \in Payments : delivered[e] > 0}

LedgerTypes ==
    /\ ledger \in Int
    /\ cost \in [Requests -> {0} \cup Costs]
    /\ debits \in [Requests -> Nat]
    /\ pc \in [Requests -> PC]
    /\ delivered \in [ExecCalls \cup Payments -> Nat]
    /\ IsFiniteSet(Charged) /\ IsFiniteSet(Paid)

\* Who has not been answered yet was not charged.
Incoming   == {"idle", "balance", "holds"}
Before     == {"slot", "committed", "held", "forward"}
Unanswered == Incoming \cup Before \cup {"stream"}
UnansweredIsFree == \A r \in Requests : pc[r] \in Unanswered => debits[r] = 0

Explained == ledger = Opening + Credit * Cardinality(Paid) - Total(cost, Charged)

LedgerInv == LedgerTypes /\ UnansweredIsFree /\ Explained

\* The invariant says what the property says.
LEMMA ExplainedIsIt == Explained <=> LedgerIsExplained
<1>1. Charges(Requests) = Total(cost, Requests \cap Charged)
  BY ChargesAreTotal
<1>2. Requests \cap Charged = Charged
  BY DEF Charged
<1>3. QED
  BY <1>1, <1>2 DEF Explained, LedgerIsExplained, Paid

\* Costs are amounts.
LEMMA CostsAreNat ==
  ASSUME LedgerTypes
  PROVE  \A r \in Requests : cost[r] \in Nat
<1>1. {0} \cup Costs \subseteq Nat
  BY AmountsAssumption
<1>2. cost \in [Requests -> {0} \cup Costs]
  BY DEF LedgerTypes
<1>3. QED
  BY <1>1, <1>2

\* What the charges amount to.
LEMMA ChargesAreNat ==
  ASSUME LedgerTypes
  PROVE  Total(cost, Charged) \in Nat
<1>1. IsFiniteSet(Charged) /\ Charged \subseteq Requests
  BY DEF LedgerTypes, Charged
<1>2. \A r \in Charged : cost[r] \in Nat
  BY <1>1, CostsAreNat
<1> DEFINE U == Charged
<1>3. IsFiniteSet(U) /\ \A r \in U : cost[r] \in Nat
  BY <1>1, <1>2
<1> HIDE DEF U
<1>4. Total(cost, U) \in Nat
  BY <1>3, TotalTakes
<1>5. QED
  BY <1>4 DEF U

\* A step of a request that moves no money: the cost of one that was not charged may
\* change, and nobody returns to where it has not been answered.
Moves(r) ==
    /\ UNCHANGED <<ledger, debits>>
    /\ \/ delivered' = delivered
       \/ (r \in ExecCalls /\ delivered' = [delivered EXCEPT ![r] = @ + 1])
    /\ \E l \in PC : /\ pc' = [pc EXCEPT ![r] = l]
                     /\ l \in Unanswered => pc[r] \in Unanswered
    /\ \/ cost' = cost
       \/ (pc[r] \in Unanswered /\ \E c \in Costs : cost' = [cost EXCEPT ![r] = c])

\* Such a step keeps the ledger explained.
LEMMA MoneyRests ==
  ASSUME LedgerInv, NEW r \in Requests, Moves(r)
  PROVE  LedgerInv'
<1>1. Charged' = Charged /\ ledger' = ledger /\ debits' = debits
  BY DEF Moves, Charged
<1>2. Paid' = Paid
  BY RequestsAssumption DEF Moves, LedgerInv, LedgerTypes, Paid
<1>3. \A x \in Charged : cost'[x] = cost[x]
  <2>1. pc[r] \in Unanswered => r \notin Charged
    BY DEF LedgerInv, UnansweredIsFree, Charged
  <2>2. CASE cost' = cost
    BY <2>2
  <2>3. CASE pc[r] \in Unanswered /\ \E c \in Costs : cost' = [cost EXCEPT ![r] = c]
    BY <2>1, <2>3 DEF LedgerInv, LedgerTypes, Charged
  <2>4. QED
    BY <2>2, <2>3 DEF Moves
<1>4. Total(cost', Charged) = Total(cost, Charged)
  BY <1>3, TotalSame DEF LedgerInv, LedgerTypes
<1>5. Explained'
  BY <1>1, <1>2, <1>4 DEF LedgerInv, Explained
<1>6. /\ cost' \in [Requests -> {0} \cup Costs]
      /\ pc' \in [Requests -> PC]
      /\ delivered' \in [ExecCalls \cup Payments -> Nat]
  <2>1. cost' \in [Requests -> {0} \cup Costs]
    BY DEF Moves, LedgerInv, LedgerTypes
  <2>2. pc' \in [Requests -> PC]
    BY DEF Moves, LedgerInv, LedgerTypes
  <2>3. delivered' \in [ExecCalls \cup Payments -> Nat]
    BY DEF Moves, LedgerInv, LedgerTypes
  <2>4. QED
    BY <2>1, <2>2, <2>3
<1>7. LedgerTypes'
  BY <1>1, <1>2, <1>6 DEF LedgerInv, LedgerTypes
<1>8. UnansweredIsFree'
  BY DEF Moves, LedgerInv, LedgerTypes, UnansweredIsFree
<1>9. QED
  BY <1>5, <1>7, <1>8 DEF LedgerInv

\* The steps that are such.
LEMMA OthersMove ==
  ASSUME LedgerInv, NEW r \in Requests,
         \/ Start(r) \/ ReserveBalance(r) \/ ReserveHolds(r) \/ ReserveSlot(r) \/ Release(r)
         \/ Upstream(r) \/ Account(r) \/ RevokeRun(r) \/ Forward(r) \/ Stream(r)
         \/ UndoHold(r) \/ Record(r) \/ Price(r)
         \/ r \in Public /\ PublicStep(r)
         \/ r \in ExecCalls /\ Callback(r)
  PROVE  Moves(r)
<1> USE DEF At, Goto, Finish, money, holds, meter, world, Unanswered, Incoming, Before, PC
<1>1. CASE Start(r)
  BY <1>1 DEF Start, Moves, LedgerInv, LedgerTypes
<1>2. CASE ReserveBalance(r)
  BY <1>2 DEF ReserveBalance, Moves, LedgerInv, LedgerTypes
<1>3. CASE ReserveHolds(r)
  BY <1>3 DEF ReserveHolds, Moves, LedgerInv, LedgerTypes
<1>4. CASE ReserveSlot(r)
  BY <1>4 DEF ReserveSlot, Moves, LedgerInv, LedgerTypes
<1>5. CASE Release(r)
  BY <1>5 DEF Release, Moves, LedgerInv, LedgerTypes
<1>6. CASE Upstream(r)
  BY <1>6 DEF Upstream, Worked, Moves, LedgerInv, LedgerTypes
<1>7. CASE Account(r)
  BY <1>7 DEF Account, Moves, LedgerInv, LedgerTypes
<1>8. CASE RevokeRun(r)
  BY <1>8 DEF RevokeRun, Moves, LedgerInv, LedgerTypes
<1>9. CASE Forward(r)
  BY <1>9 DEF Forward, Worked, Moves, LedgerInv, LedgerTypes
<1>10. CASE Stream(r)
  BY <1>10 DEF Stream, Worked, Moves, LedgerInv, LedgerTypes
<1>11. CASE UndoHold(r)
  BY <1>11 DEF UndoHold, Moves, LedgerInv, LedgerTypes
<1>12. CASE Record(r)
  BY <1>12 DEF Record, Moves, LedgerInv, LedgerTypes
<1>13. CASE Price(r)
  BY <1>13 DEF Price, Moves, LedgerInv, LedgerTypes
<1>14. CASE ReadCommitted(r)
  BY <1>14 DEF ReadCommitted, Moves, LedgerInv, LedgerTypes
<1>15. CASE ReadHeld(r)
  BY <1>15 DEF ReadHeld, Moves, LedgerInv, LedgerTypes
<1>16. CASE UndoLimit(r)
  BY <1>16 DEF UndoLimit, Moves, LedgerInv, LedgerTypes
<1>17. CASE Reconcile(r)
  BY <1>17 DEF Reconcile, Moves, LedgerInv, LedgerTypes
<1>18. CASE r \in ExecCalls /\ Callback(r)
  BY <1>18 DEF Callback, Moves, LedgerInv, LedgerTypes
<1>19. QED
  BY <1>1, <1>2, <1>3, <1>4, <1>5, <1>6, <1>7, <1>8, <1>9, <1>10, <1>11,
     <1>12, <1>13, <1>14, <1>15, <1>16, <1>17, <1>18 DEF PublicStep

\* A charge: the ledger loses what the sum gains, or nothing happens to either.
LEMMA ChargeIsExplained ==
  ASSUME LedgerInv, NEW r \in Requests, Charge(r)
  PROVE  LedgerInv'
<1>1. /\ pc[r] = "charge" /\ UNCHANGED <<cost, delivered>>
      /\ \E l \in PC \ Unanswered : pc' = [pc EXCEPT ![r] = l]
  BY DEF Charge, At, AfterCharge, Goto, Finish, meter, world, PC, Unanswered, Incoming, Before
<1>2. CASE UNCHANGED money
  <2>1. Moves(r)
    BY <1>1, <1>2 DEF Moves, money, PC
  <2>2. QED
    BY <2>1, MoneyRests
<1>3. CASE /\ debits[r] = 0
           /\ ledger' = ledger - cost[r] /\ debits' = [debits EXCEPT ![r] = 1]
  <2>1. Charged' = Charged \cup {r} /\ r \notin Charged
    <3>1. debits' = [x \in Requests |-> IF x = r THEN 1 ELSE debits[x]]
      BY <1>3 DEF LedgerInv, LedgerTypes
    <3>2. \A x \in Requests : debits'[x] > 0 <=> (debits[x] > 0 \/ x = r)
      BY <1>3, <3>1
    <3>3. QED
      BY <1>3, <3>2 DEF Charged
  <2>2. IsFiniteSet(Charged) /\ IsFiniteSet(Charged')
    BY <2>1, FS_AddElement DEF LedgerInv, LedgerTypes
  <2>3. \A x \in Charged' : cost[x] \in Nat
    BY CostsAreNat DEF LedgerInv, Charged
  <2>4. Total(cost, Charged') = cost[r] + Total(cost, Charged' \ {r}) /\ Charged' \ {r} = Charged
    <3> DEFINE U == Charged'
    <3>1. r \in U /\ IsFiniteSet(U) /\ \A x \in U : cost[x] \in Nat
      BY <2>1, <2>2, <2>3
    <3> HIDE DEF U
    <3>2. Total(cost, U) = cost[r] + Total(cost, U \ {r})
      BY <3>1, TotalTakes
    <3>3. QED
      BY <2>1, <3>2 DEF U
  <2>5. Total(cost, Charged) \in Nat /\ cost[r] \in Nat
    BY <2>1, <2>3, ChargesAreNat DEF LedgerInv
  <2>6. Paid' = Paid
    BY <1>1 DEF Paid
  <2>7. Explained'
    <3>1. Credit * Cardinality(Paid) \in Nat
      <4>1. Cardinality(Paid) \in Nat
        BY FS_CardinalityType DEF LedgerInv, LedgerTypes
      <4>2. \A a, b \in Nat : a * b \in Nat
        OBVIOUS
      <4>3. QED
        BY <4>1, <4>2, AmountsAssumption
    <3>2. ledger = Opening + Credit * Cardinality(Paid) - Total(cost, Charged)
      BY DEF LedgerInv, Explained
    <3>3. ledger' = Opening + Credit * Cardinality(Paid) - (cost[r] + Total(cost, Charged))
      BY <1>3, <2>5, <3>1, <3>2, AmountsAssumption
    <3>4. QED
      BY <1>1, <2>4, <2>6, <3>3 DEF Explained
  <2>8. LedgerTypes'
    <3>1. ledger' \in Int /\ debits' \in [Requests -> Nat] /\ pc' \in [Requests -> PC]
      BY <1>1, <1>3, <2>5 DEF LedgerInv, LedgerTypes
    <3>2. QED
      BY <1>1, <2>2, <2>6, <3>1 DEF LedgerInv, LedgerTypes
  <2>9. UnansweredIsFree'
    BY <1>1, <1>3 DEF LedgerInv, LedgerTypes, UnansweredIsFree
  <2>10. QED
    BY <2>7, <2>8, <2>9 DEF LedgerInv
<1>4. QED
  BY <1>2, <1>3 DEF Charge

\* A payment counts the first time its event is delivered.
LEMMA TopUpIsExplained ==
  ASSUME LedgerInv, NEW e \in Payments, TopUp(e)
  PROVE  LedgerInv'
<1>1. /\ UNCHANGED <<cost, debits, pc>> /\ delivered' = [delivered EXCEPT ![e] = @ + 1]
      /\ ledger' = IF delivered[e] = 0 THEN ledger + Credit ELSE ledger
  BY DEF TopUp, meter
<1>2. /\ ledger \in Int /\ delivered[e] \in Nat /\ IsFiniteSet(Paid)
      /\ delivered' \in [ExecCalls \cup Payments -> Nat]
  BY <1>1 DEF LedgerInv, LedgerTypes
<1>3. Paid' = Paid \cup {e} /\ (e \in Paid <=> delivered[e] # 0)
  BY <1>1, <1>2 DEF Paid, LedgerInv, LedgerTypes
<1>4. /\ IsFiniteSet(Paid')
      /\ Cardinality(Paid') = IF delivered[e] = 0 THEN Cardinality(Paid) + 1
                                                  ELSE Cardinality(Paid)
  BY <1>2, <1>3, FS_AddElement
<1>5. Charged' = Charged
  BY <1>1 DEF Charged
<1>6. Explained'
  <2>1. Cardinality(Paid) \in Nat /\ Total(cost, Charged) \in Nat
    BY <1>2, FS_CardinalityType, ChargesAreNat DEF LedgerInv
  <2>2. Credit * (Cardinality(Paid) + 1) = Credit * Cardinality(Paid) + Credit
        /\ Credit * Cardinality(Paid) \in Nat
    <3>1. \A a, b \in Nat : a * (b + 1) = a * b + a /\ a * b \in Nat
      OBVIOUS
    <3>2. QED
      BY <2>1, <3>1, AmountsAssumption
  <2>3. ledger = Opening + Credit * Cardinality(Paid) - Total(cost, Charged)
    BY DEF LedgerInv, Explained
  <2> DEFINE n == Cardinality(Paid)
             t == Total(cost, Charged)
             a == Credit * n
  <2>4. ledger' = Opening + Credit * Cardinality(Paid') - t
    <3>1. CASE delivered[e] = 0
      <4>1. Cardinality(Paid') = n + 1 /\ ledger' = ledger + Credit
        BY <1>1, <1>4, <3>1
      <4>2. ledger = Opening + a - t /\ Credit * (n + 1) = a + Credit /\ a \in Nat /\ t \in Nat
        BY <2>1, <2>2, <2>3
      <4> HIDE DEF a, t, n
      <4>3. QED
        BY <4>1, <4>2, AmountsAssumption
    <3>2. CASE delivered[e] # 0
      BY <1>1, <1>4, <2>3, <3>2
    <3>3. QED
      BY <3>1, <3>2
  <2>5. QED
    BY <1>1, <1>5, <2>4 DEF Explained
<1>7. LedgerTypes'
  <2>1. ledger' \in Int
    BY <1>1, <1>2, AmountsAssumption
  <2>2. QED
    BY <1>1, <1>2, <1>4, <1>5, <2>1 DEF LedgerInv, LedgerTypes
<1>8. UnansweredIsFree'
  BY <1>1 DEF LedgerInv, UnansweredIsFree
<1>9. QED
  BY <1>6, <1>7, <1>8 DEF LedgerInv

\* A crash moves no money, and whoever it ends is done.
LEMMA CrashIsExplained ==
  ASSUME LedgerInv, CrashWeb \/ UNCHANGED vars
  PROVE  LedgerInv'
<1>1. UNCHANGED <<ledger, debits, cost, delivered>>
  BY DEF CrashWeb, vars, money, meter, world
<1>2. Charged' = Charged /\ Paid' = Paid
  BY <1>1 DEF Charged, Paid
<1>3. pc' \in [Requests -> PC] /\ \A r \in Requests : pc'[r] \in {pc[r], "done"}
  <2>1. CASE CrashWeb
    BY <2>1 DEF CrashWeb, At, PC
  <2>2. CASE UNCHANGED vars
    BY <2>2 DEF vars, LedgerInv, LedgerTypes
  <2>3. QED
    BY <2>1, <2>2
<1>4. UnansweredIsFree'
  BY <1>1, <1>3 DEF LedgerInv, UnansweredIsFree, Unanswered, Incoming, Before
<1>5. LedgerTypes' /\ Explained'
  BY <1>1, <1>2, <1>3 DEF LedgerInv, LedgerTypes, Explained
<1>6. QED
  BY <1>4, <1>5 DEF LedgerInv

\* Nothing is paid or charged at first.
LEMMA LedgerInit == Init => LedgerInv
<1> SUFFICES ASSUME Init
             PROVE  LedgerInv
  OBVIOUS
<1>1. Charged = {} /\ Paid = {}
  BY DEF Init, Charged, Paid
<1>2. IsFiniteSet({}) /\ Cardinality({}) = 0
  BY FS_EmptySet
<1>3. Total(cost, Charged) = 0
  BY <1>1, <1>2, TotalStep
<1>4. Explained
  BY <1>1, <1>2, <1>3, AmountsAssumption DEF Explained, Init
<1>5. LedgerTypes /\ UnansweredIsFree
  BY <1>1, <1>2, AmountsAssumption DEF Init, LedgerTypes, UnansweredIsFree, PC
<1>6. QED
  BY <1>4, <1>5 DEF LedgerInv

\* Every step keeps the ledger explained.
LEMMA LedgerStep == LedgerInv /\ [Next]_vars => LedgerInv'
<1> SUFFICES ASSUME LedgerInv, [Next]_vars
             PROVE  LedgerInv'
  OBVIOUS
<1>1. ASSUME NEW r \in Requests, Start(r) \/ Step(r)
      PROVE  LedgerInv'
  <2>1. CASE Charge(r)
    BY <2>1, ChargeIsExplained
  <2>2. CASE ~Charge(r)
    <3>1. Moves(r)
      BY <1>1, <2>2, OthersMove DEF Step
    <3>2. QED
      BY <3>1, MoneyRests
  <2>3. QED
    BY <2>1, <2>2
<1>2. ASSUME NEW r \in Requests,
             (r \in Public /\ PublicStep(r)) \/ (r \in ExecCalls /\ Callback(r))
      PROVE  LedgerInv'
  BY <1>2, OthersMove, MoneyRests
<1>3. QED
  BY <1>1, <1>2, TopUpIsExplained, CrashIsExplained DEF Next, Requests

\* The balance is the opening one, each payment once, less each charge once: for any
\* number of requests, streams, callbacks delivered again or late, payments and crashes.
THEOREM TheLedgerIsExplained == Spec => []LedgerIsExplained
<1>1. LedgerInv => LedgerIsExplained
  BY ExplainedIsIt DEF LedgerInv
<1>2. QED
  BY <1>1, LedgerInit, LedgerStep, PTL DEF Spec

-----------------------------------------------------------------------------
(***************************************************************************)
(* The holds.  Where a request is says what became of its hold on the      *)
(* balance and of the one under its key's limit, and what was charged      *)
(* already; all of it is about one request, so a step has to show it of    *)
(* the request that takes it only.                                         *)
(***************************************************************************)
HoldTypes ==
    /\ hold \in [Requests -> HoldStatus]
    /\ limit \in [Public -> HoldStatus]
    /\ usage \in [Requests -> {"none", "billable", "failed", "unknown"}]
    /\ due \in [ExecCalls -> BOOLEAN]
    /\ cut \subseteq Requests /\ slipped \subseteq Streams

Holding  == {"slot", "committed", "held", "forward", "stream", "undo_hold"}
Metering == {"record", "price", "charge"}

\* The hold on the balance: one that is settled without a debit is of a record that is
\* never charged.
HoldFits(r) ==
    /\ pc[r] \in Incoming => hold[r] = "none"
    /\ pc[r] \in Holding => hold[r] = "active"
    /\ pc[r] = "undo_limit" => hold[r] = "released"
    /\ pc[r] \notin Incoming \cup {"done"} => hold[r] # "none"
    /\ debits[r] > 0 /\ r \notin OwnTrace => hold[r] # "active"
    /\ hold[r] = "settled" /\ debits[r] = 0 =>
         usage[r] \in {"failed", "unknown"} /\ pc[r] # "price"
    /\ pc[r] \in {"price", "charge"} => usage[r] # "none"

\* A public request: both holds are there until it failed or was charged.
PublicFits(r) ==
    /\ pc[r] \notin {"slot", "release", "account", "revoke"}
    /\ pc[r] \in Incoming \cup {"committed", "held", "refuse"} => limit[r] = "none"
    /\ pc[r] \in {"forward", "stream", "undo_hold"} => limit[r] = "active"
    /\ pc[r] \in Metering =>
         \/ hold[r] = "active" /\ limit[r] = "active"
         \/ hold[r] = "released" /\ usage[r] \in {"none", "failed", "unknown"}
    /\ pc[r] \notin {"reconcile", "done"} => debits[r] = 0
    /\ pc[r] \notin {"price", "charge", "reconcile", "done"} => usage[r] = "none"
    /\ pc[r] = "reconcile" => hold[r] # "active"
    /\ pc[r] = "done" /\ r \notin cut => hold[r] # "active" /\ limit[r] # "active"

\* A model call: whoever has its hold when it is done waits for its callback.
ExecFits(r) ==
    /\ pc[r] \notin {"committed", "held", "refuse", "stream", "undo_hold", "undo_limit",
                     "reconcile"}
    /\ pc[r] \in {"account", "revoke"} \cup Metering => due[r]
    /\ pc[r] \notin Metering \cup {"done"} => delivered[r] = 0
    /\ due[r] => hold[r] # "none"
    /\ pc[r] = "done" /\ r \notin cut /\ hold[r] = "active" =>
         due[r] /\ (delivered[r] = 0 \/ r \in OwnTrace)

Fits(r) == HoldFits(r) /\ (r \in Public => PublicFits(r)) /\ (r \in ExecCalls => ExecFits(r))

HoldInv == HoldTypes /\ \A r \in Requests : Fits(r)

\* A step that is about r only.
About(r) ==
    \A q \in Requests \ {r} :
        /\ pc'[q] = pc[q] /\ hold'[q] = hold[q] /\ usage'[q] = usage[q] /\ debits'[q] = debits[q]
        /\ q \in cut' <=> q \in cut
        /\ q \in Public => limit'[q] = limit[q]
        /\ q \in ExecCalls => due'[q] = due[q] /\ delivered'[q] = delivered[q]

\* Nothing changes about the others, so it is enough to look at r.
LEMMA OthersFit ==
  ASSUME HoldInv, HoldTypes', NEW r \in Requests, About(r), Fits(r)'
  PROVE  HoldInv'
<1>1. ASSUME NEW q \in Requests, q # r
      PROVE  Fits(q)'
  BY <1>1 DEF About, HoldInv, Fits, HoldFits, PublicFits, ExecFits
<1>2. QED
  BY <1>1 DEF HoldInv

\* Every step of a request keeps what fits it.
LEMMA HoldsFit ==
  ASSUME LedgerInv, HoldInv, NEW r \in Requests,
         Start(r) \/ Step(r) \/ (r \in Public /\ PublicStep(r)) \/ (r \in ExecCalls /\ Callback(r))
  PROVE  HoldInv'
<1>1. HoldTypes' /\ About(r) /\ Fits(r)'
  <2> USE RequestsAssumption
      DEF LedgerInv, LedgerTypes, HoldInv, HoldTypes, HoldStatus, About, Fits, HoldFits, PublicFits,
          ExecFits, Incoming, Holding, Metering, At, Goto, Finish, money, holds, meter, world, past,
          Requests, Public, PC
  <2>1. CASE Start(r)
    BY <2>1 DEF Start
  <2>2. CASE ReserveBalance(r)
    BY <2>2 DEF ReserveBalance
  <2>3. CASE ReserveHolds(r)
    BY <2>3 DEF ReserveHolds, UnansweredIsFree, Unanswered
  <2>4. CASE ReserveSlot(r)
    BY <2>4 DEF ReserveSlot
  <2>5. CASE Release(r)
    BY <2>5 DEF Release, Close
  <2>6. CASE Upstream(r)
    <3>1. /\ pc[r] = "forward" /\ r \in ExecCalls
          /\ UNCHANGED <<ledger, debits, hold, limit, usage, delivered, cut, slipped>>
          /\ \/ due' = [due EXCEPT ![r] = TRUE] /\ \E l \in {"account", "release"} : Goto(r, l)
             \/ \E b \in BOOLEAN : due' = [due EXCEPT ![r] = b] /\ Goto(r, "release")
      BY <2>6 DEF Upstream
    <3>2. due' \in [ExecCalls -> BOOLEAN] /\ \A q \in ExecCalls \ {r} : due'[q] = due[q]
      <4>1. due \in [ExecCalls -> BOOLEAN] /\ \E b \in BOOLEAN : due' = [due EXCEPT ![r] = b]
        BY <3>1
      <4>2. PICK b \in BOOLEAN : due' = [due EXCEPT ![r] = b]
        BY <4>1
      <4>3. QED
        BY <4>1, <4>2, Zenon
    <3>3. HoldTypes' /\ About(r)
      BY <3>1, <3>2
    <3>4. Fits(r)'
      BY <3>1
    <3>5. QED
      BY <3>3, <3>4
  <2>7. CASE Account(r)
    BY <2>7 DEF Account
  <2>8. CASE RevokeRun(r)
    BY <2>8 DEF RevokeRun
  <2>9. CASE Forward(r)
    BY <2>9 DEF Forward
  <2>10. CASE Stream(r)
    BY <2>10 DEF Stream
  <2>11. CASE UndoHold(r)
    BY <2>11 DEF UndoHold, Close
  <2>12. CASE Record(r)
    BY <2>12 DEF Record, Failed
  <2>13. CASE Price(r)
    BY <2>13 DEF Price, Failed
  <2>14. CASE Charge(r)
    <3>1. /\ pc[r] = "charge" /\ UNCHANGED <<limit, usage, due, delivered, cut>>
          /\ hold' = [hold EXCEPT ![r] = IF r \notin OwnTrace /\ @ = "active" THEN "settled" ELSE @]
          /\ \/ usage[r] = "billable" /\ debits[r] = 0 /\ debits' = [debits EXCEPT ![r] = 1]
             \/ (usage[r] # "billable" \/ debits[r] # 0) /\ debits' = debits
          /\ IF r \in Public /\ limit[r] = "active" THEN Goto(r, "reconcile") ELSE Finish(r)
      BY <2>14 DEF Charge, Settle, AfterCharge, Close
    <3>2. slipped' \subseteq Streams
      BY <2>14 DEF Charge, Slips
    <3>3. HoldTypes' /\ About(r)
      BY <3>1, <3>2
    <3>4. HoldFits(r)'
      BY <3>1
    <3>5. r \in Public => PublicFits(r)'
      BY <3>1
    <3>6. r \in ExecCalls => ExecFits(r)'
      BY <3>1
    <3>7. QED
      BY <3>3, <3>4, <3>5, <3>6
  <2>15. CASE r \in Public /\ ReadCommitted(r)
    BY <2>15 DEF ReadCommitted
  <2>16. CASE r \in Public /\ ReadHeld(r)
    BY <2>16 DEF ReadHeld
  <2>17. CASE r \in Public /\ UndoLimit(r)
    BY <2>17 DEF UndoLimit, CloseLimit
  <2>18. CASE r \in Public /\ Reconcile(r)
    BY <2>18 DEF Reconcile, CloseLimit
  <2>19. CASE r \in ExecCalls /\ Callback(r)
    BY <2>19 DEF Callback
  <2>20. QED
    BY <2>1, <2>2, <2>3, <2>4, <2>5, <2>6, <2>7, <2>8, <2>9, <2>10, <2>11, <2>12, <2>13, <2>14,
       <2>15, <2>16, <2>17, <2>18, <2>19 DEF Step, PublicStep
<1>2. QED
  BY <1>1, OthersFit

\* The rest of the world: a payment is not about a request, and whoever a crash ends is
\* one that nobody comes back to.
LEMMA HoldsOutlive ==
  ASSUME LedgerInv, HoldInv, (\E e \in Payments : TopUp(e)) \/ CrashWeb \/ UNCHANGED vars
  PROVE  HoldInv'
<1>1. /\ UNCHANGED <<hold, limit, usage, debits, due, slipped>>
      /\ \A q \in ExecCalls : delivered'[q] = delivered[q]
      /\ cut \subseteq cut' /\ cut' \subseteq Requests
      /\ \A q \in Requests : \/ pc'[q] = pc[q]
                             \/ pc'[q] = "done" /\ q \in cut'
  <2>1. CASE \E e \in Payments : TopUp(e)
    BY <2>1, RequestsAssumption
       DEF TopUp, holds, meter, past, LedgerInv, LedgerTypes, HoldInv, HoldTypes
  <2>2. CASE CrashWeb
    BY <2>2 DEF CrashWeb, money, holds, meter, At, HoldInv, HoldTypes
  <2>3. CASE UNCHANGED vars
    BY <2>3 DEF vars, money, holds, meter, world, past, HoldInv, HoldTypes
  <2>4. QED
    BY <2>1, <2>2, <2>3
<1>2. HoldTypes'
  BY <1>1 DEF HoldInv, HoldTypes
<1>3. ASSUME NEW q \in Requests
      PROVE  Fits(q)'
  <2>1. /\ Fits(q) /\ (pc'[q] = pc[q] \/ (pc'[q] = "done" /\ q \in cut'))
        /\ UNCHANGED <<hold, limit, usage, debits, due>> /\ (q \in cut => q \in cut')
        /\ q \in ExecCalls => delivered'[q] = delivered[q]
    BY <1>1 DEF HoldInv
  <2>2. HoldFits(q)'
    <3>1. CASE pc'[q] = pc[q]
      BY <2>1, <3>1, Zenon DEF Fits, HoldFits
    <3>2. CASE pc'[q] = "done"
      <4>1. pc'[q] \notin Incoming \cup Holding \cup {"undo_limit", "price", "charge"}
        BY <3>2 DEF Incoming, Holding
      <4>2. QED
        BY <2>1, <3>2, <4>1 DEF Fits, HoldFits
    <3>3. QED
      BY <2>1, <3>1, <3>2
  <2>3. q \in Public => PublicFits(q)'
    BY <2>1 DEF Fits, PublicFits, Incoming, Metering
  <2>4. q \in ExecCalls => ExecFits(q)'
    BY <2>1 DEF Fits, ExecFits, Metering
  <2>5. QED
    BY <2>2, <2>3, <2>4 DEF Fits
<1>4. QED
  BY <1>2, <1>3 DEF HoldInv

\* Nobody has a hold at first.
LEMMA HoldInit == Init => HoldInv
  BY DEF Init, HoldInv, HoldTypes, HoldStatus, Fits, HoldFits, PublicFits, ExecFits, Incoming,
         Holding, Metering, Requests

\* Every step keeps it.
LEMMA HoldStep == LedgerInv /\ HoldInv /\ [Next]_vars => HoldInv'
  BY HoldsFit, HoldsOutlive DEF Next, Requests

\* No hold is forgotten, for any number of requests, lost answers, clients that leave,
\* callbacks and crashes.
THEOREM HoldsAreClosed == Spec => []NoHoldIsForgotten
<1>1. HoldInv => NoHoldIsForgotten
  BY DEF HoldInv, Fits, PublicFits, ExecFits, NoHoldIsForgotten, At, Requests
<1>2. LedgerInv /\ HoldInv /\ [Next]_vars => LedgerInv' /\ HoldInv'
  BY LedgerStep, HoldStep
<1>3. QED
  BY <1>1, <1>2, LedgerInit, HoldInit, PTL DEF Spec

-----------------------------------------------------------------------------
(***************************************************************************)
(* Overdraft and spend.  Both limits read one sum after the other, and a   *)
(* stream may be charged in between; no other charge may, since whoever    *)
(* reads has the event loop.  What such a stream took away unseen counts   *)
(* as uncovered, so that what was read still bounds what there is.         *)
(***************************************************************************)
Active  == {r \in Requests : hold[r] = "active"}
Limited == {r \in Public : limit[r] = "active"}
Open    == {r \in Limited : debits[r] = 0}
Spent   == Public \cap Charged

AccountTypes ==
    /\ seen = [r \in Requests |-> seen[r]]
    /\ IsFiniteSet(Active) /\ IsFiniteSet(Limited)

BalanceSeen ==
    \A r \in Requests : pc[r] = "holds" =>
        seen[r] \in Int /\ seen[r] <= ledger + Total(uncovered, Charged)
BalanceCovers ==
    ledger - Estimate * Cardinality(Active) + Total(uncovered, Charged) >= 0

SpendSeen ==
    \A r \in Requests : pc[r] = "held" =>
        seen[r] \in Nat /\ Total(cost, Spent) <= seen[r] + Total(uncovered, Spent)
SpendCovers ==
    Total(cost, Spent) + Estimate * Cardinality(Open) <= Cap + Total(uncovered, Spent)

AccountInv == AccountTypes /\ BalanceSeen /\ BalanceCovers /\ SpendSeen /\ SpendCovers

\* What n holds amount to.
LEMMA Amounts ==
  ASSUME NEW n \in Nat, NEW m \in Nat
  PROVE  /\ Estimate * n \in Nat
         /\ Estimate * (n + 1) = Estimate * n + Estimate
         /\ n <= m => Estimate * n <= Estimate * m
<1>1. Estimate \in Nat
  BY AmountsAssumption
<1>2. \A a, b \in Nat : a * b \in Nat /\ a * (b + 1) = a * b + a
  OBVIOUS
<1>3. ASSUME n <= m PROVE Estimate * n <= Estimate * m
  <2>1. m - n \in Nat /\ m = n + (m - n)
    BY <1>3
  <2>2. \A a, b, c \in Nat : a * (b + c) = a * b + a * c /\ a * c \in Nat
    OBVIOUS
  <2>3. Estimate * m = Estimate * n + Estimate * (m - n) /\ Estimate * (m - n) \in Nat
    BY <1>1, <2>1, <2>2
  <2>4. Estimate * n \in Nat
    BY <1>1, <1>2
  <2>5. QED
    BY <2>3, <2>4
<1>4. QED
  BY <1>1, <1>2, <1>3

\* Holds of a set that only gets smaller, loses one, or gets one more.
LEMMA HoldsOf ==
  ASSUME NEW A, NEW B, IsFiniteSet(A), NEW r
  PROVE  /\ Estimate * Cardinality(A) \in Nat
         /\ B \subseteq A => /\ IsFiniteSet(B) /\ Estimate * Cardinality(B) \in Nat
                             /\ Estimate * Cardinality(B) <= Estimate * Cardinality(A)
         /\ r \in A /\ B \subseteq A \ {r} =>
              /\ IsFiniteSet(B) /\ Estimate * Cardinality(B) \in Nat
              /\ Estimate * Cardinality(B) + Estimate <= Estimate * Cardinality(A)
         /\ B \subseteq A \cup {r} =>
              /\ IsFiniteSet(B) /\ Estimate * Cardinality(B) \in Nat
              /\ Estimate * Cardinality(B) <= Estimate * Cardinality(A) + Estimate
<1> DEFINE n == Cardinality(A)
           m == Cardinality(B)
<1>1. n \in Nat /\ Estimate * n \in Nat /\ Estimate \in Nat
  BY FS_CardinalityType, Amounts, AmountsAssumption
<1>2. ASSUME B \subseteq A
      PROVE  /\ IsFiniteSet(B) /\ Estimate * m \in Nat
             /\ Estimate * m <= Estimate * n
  <2>1. IsFiniteSet(B) /\ m \in Nat /\ m <= n
    BY <1>2, FS_Subset, FS_CardinalityType
  <2>2. QED
    BY <1>1, <2>1, Amounts
<1>3. ASSUME r \in A, B \subseteq A \ {r}
      PROVE  /\ IsFiniteSet(B) /\ Estimate * m \in Nat
             /\ Estimate * m + Estimate <= Estimate * n
  <2>1. IsFiniteSet(A \ {r}) /\ Cardinality(A \ {r}) = n - 1 /\ Cardinality(A \ {r}) \in Nat
    BY <1>3, FS_RemoveElement, FS_CardinalityType
  <2>2. IsFiniteSet(B) /\ m \in Nat /\ m <= n - 1
    BY <1>3, <2>1, FS_Subset, FS_CardinalityType
  <2>3. m + 1 \in Nat /\ m + 1 <= n
    BY <1>1, <2>2
  <2> HIDE DEF n, m
  <2>4. Estimate * (m + 1) <= Estimate * n /\ Estimate * (m + 1) = Estimate * m + Estimate
        /\ Estimate * m \in Nat
    BY <1>1, <2>2, <2>3, Amounts
  <2>5. QED
    BY <2>2, <2>4
<1>4. ASSUME B \subseteq A \cup {r}
      PROVE  /\ IsFiniteSet(B) /\ Estimate * m \in Nat
             /\ Estimate * m <= Estimate * n + Estimate
  <2>1. IsFiniteSet(A \cup {r}) /\ Cardinality(A \cup {r}) \in {n, n + 1}
    BY FS_AddElement
  <2>2. IsFiniteSet(B) /\ m \in Nat /\ m <= Cardinality(A \cup {r})
    BY <1>4, <2>1, FS_Subset, FS_CardinalityType
  <2>3. n + 1 \in Nat /\ m <= n + 1
    BY <1>1, <2>1, <2>2
  <2> HIDE DEF n, m
  <2>4. Estimate * m <= Estimate * (n + 1) /\ Estimate * (n + 1) = Estimate * n + Estimate
        /\ Estimate * m \in Nat
    BY <1>1, <2>2, <2>3, Amounts
  <2>5. QED
    BY <2>2, <2>4
<1>5. QED
  BY <1>1, <1>2, <1>3, <1>4

-----------------------------------------------------------------------------
\* What is uncovered of a request is an amount, and no less than what its charge takes
\* beyond its hold.
LEMMA UncoveredIs ==
  ASSUME LedgerInv, NEW r \in Requests
  PROVE  /\ uncovered[r] = Uncovered(r) /\ uncovered[r] \in Nat /\ cost[r] \in Nat
         /\ cost[r] <= uncovered[r] + Estimate
         /\ Unheld(r) => uncovered[r] = cost[r]
<1>1. cost[r] \in Nat /\ Estimate \in Nat
  BY CostsAreNat, AmountsAssumption DEF LedgerInv
<1>2. uncovered[r] = Uncovered(r)
  BY DEF uncovered
<1>3. QED
  BY <1>1, <1>2 DEF Uncovered

\* The sums the properties are about.
LEMMA SumsAre ==
  ASSUME LedgerInv
  PROVE  /\ Overdraft(Requests) = Total(uncovered, Charged)
         /\ Overdraft(Public) = Total(uncovered, Spent)
         /\ Charges(Public) = Total(cost, Spent)
         /\ Total(uncovered, Charged) \in Nat /\ Total(uncovered, Spent) \in Nat
         /\ Total(cost, Spent) \in Nat
         /\ IsFiniteSet(Charged) /\ IsFiniteSet(Spent)
<1>1. Requests \cap Charged = Charged /\ Spent \subseteq Charged /\ Charged \subseteq Requests
  BY DEF Charged, Spent
<1>2. \A S : Overdraft(S) = Total(uncovered, S \cap Charged)
  BY DEF Overdraft, MapThenSumSet, MapThenFoldSet, Total, Adds, Choice
<1>3. Charges(Public) = Total(cost, Spent)
  BY ChargesAreTotal DEF Spent
<1>4. IsFiniteSet(Charged) /\ IsFiniteSet(Spent)
  BY <1>1, FS_Subset DEF LedgerInv, LedgerTypes
<1>5. /\ \A x \in Charged : uncovered[x] \in Nat
      /\ \A x \in Spent : uncovered[x] \in Nat
      /\ \A x \in Spent : cost[x] \in Nat
  BY <1>1, UncoveredIs
<1> DEFINE U == uncovered
           C == Charged
           S == Spent
<1>6. Total(U, C) \in Nat /\ Total(U, S) \in Nat /\ Total(cost, S) \in Nat
  <2> HIDE DEF U, C, S
  <2>1. IsFiniteSet(C) /\ \A x \in C : U[x] \in Nat
    BY <1>4, <1>5 DEF U, C
  <2>2. IsFiniteSet(S) /\ (\A x \in S : U[x] \in Nat) /\ (\A x \in S : cost[x] \in Nat)
    BY <1>4, <1>5 DEF U, S
  <2>3. QED
    BY <2>1, <2>2, TotalTakes
<1>7. QED
  BY <1>1, <1>2, <1>3, <1>4, <1>6 DEF Spent

\* A step that charges nobody.
Calm ==
    /\ debits' = debits /\ ledger' \in Int /\ ledger' >= ledger
    /\ \A x \in Charged : cost'[x] = cost[x] /\ uncovered'[x] = uncovered[x]
    /\ seen' = [x \in Requests |-> seen'[x]]
    /\ \/ Active' \subseteq Active
       \/ \E r \in Requests : /\ pc[r] = "holds" /\ seen[r] - ActiveHolds >= Estimate
                              /\ Active' \subseteq Active \cup {r} /\ ledger' = ledger
    /\ \/ Limited' \subseteq Limited
       \/ \E r \in Requests : /\ pc[r] = "held" /\ seen[r] + ActiveLimits + Estimate <= Cap
                              /\ Limited' \subseteq Limited \cup {r}
    /\ \A x \in Requests : pc'[x] = "holds" =>
         \/ pc[x] = "holds" /\ seen'[x] = seen[x]
         \/ seen'[x] = ledger
    /\ \A x \in Requests : pc'[x] = "held" =>
         \/ pc[x] = "held" /\ seen'[x] = seen[x]
         \/ seen'[x] = Charges(Public)

\* The sums stay in such a step.
LEMMA SumsStay ==
  ASSUME LedgerInv, Calm
  PROVE  /\ Charged' = Charged /\ Spent' = Spent
         /\ Total(uncovered', Charged') = Total(uncovered, Charged)
         /\ Total(uncovered', Spent') = Total(uncovered, Spent)
         /\ Total(cost', Spent') = Total(cost, Spent)
<1>1. Charged' = Charged /\ Spent' = Spent /\ Spent \subseteq Charged
  BY DEF Calm, Charged, Spent
<1>2. IsFiniteSet(Charged) /\ IsFiniteSet(Spent)
  BY SumsAre
<1> DEFINE u == uncovered'
           v == uncovered
           C == Charged
           S == Spent
<1>3. /\ \A x \in C : u[x] = v[x]
      /\ \A x \in S : u[x] = v[x] /\ cost'[x] = cost[x]
  BY <1>1 DEF Calm
<1>4. Total(u, C) = Total(v, C) /\ Total(u, S) = Total(v, S) /\ Total(cost', S) = Total(cost, S)
  <2>1. IsFiniteSet(C) /\ IsFiniteSet(S)
    BY <1>2
  <2> HIDE DEF u, v, C, S
  <2>2. QED
    BY <1>3, <2>1, TotalSame
<1>5. QED
  BY <1>1, <1>4

\* It keeps the invariant: a hold is opened on what was read.
LEMMA CalmKeeps ==
  ASSUME LedgerInv, AccountInv, Calm
  PROVE  AccountInv'
<1> DEFINE u == Total(uncovered, Charged)
           w == Total(uncovered, Spent)
           c == Total(cost, Spent)
<1>1. /\ Total(uncovered', Charged') = u /\ Total(uncovered', Spent') = w
      /\ Total(cost', Spent') = c /\ u \in Nat /\ w \in Nat /\ c \in Nat
      /\ Charges(Public) = c
  BY SumsStay, SumsAre
<1>2. /\ ledger \in Int /\ ledger' \in Int /\ ledger' >= ledger
      /\ Estimate \in Nat /\ Cap \in Nat
  BY AmountsAssumption DEF LedgerInv, LedgerTypes, Calm
<1>3. IsFiniteSet(Active) /\ IsFiniteSet(Limited) /\ IsFiniteSet(Open)
  BY FS_Subset DEF AccountInv, AccountTypes, Open
<1>4. /\ ActiveHolds = Estimate * Cardinality(Active) /\ ActiveHolds \in Nat
      /\ ActiveLimits = Estimate * Cardinality(Limited) /\ ActiveLimits \in Nat
      /\ Estimate * Cardinality(Open) <= ActiveLimits /\ Estimate * Cardinality(Open) \in Nat
  <2>1. Estimate * Cardinality(Active) \in Nat
    BY <1>3, HoldsOf
  <2>2. /\ Estimate * Cardinality(Limited) \in Nat /\ Estimate * Cardinality(Open) \in Nat
        /\ Estimate * Cardinality(Open) <= Estimate * Cardinality(Limited)
    BY <1>3, HoldsOf DEF Open
  <2>3. QED
    BY <2>1, <2>2 DEF ActiveHolds, ActiveLimits, Active, Limited
<1> HIDE DEF u, w, c
<1>5. AccountTypes' /\ ledger' - Estimate * Cardinality(Active') + u >= 0
  <2>1. CASE Active' \subseteq Active
    <3>1. /\ IsFiniteSet(Active') /\ Estimate * Cardinality(Active') \in Nat
          /\ Estimate * Cardinality(Active') <= ActiveHolds
      BY <1>3, <1>4, <2>1, HoldsOf
    <3>2. ledger - ActiveHolds + u >= 0
      BY <1>4 DEF AccountInv, BalanceCovers, u
    <3>3. ledger' - Estimate * Cardinality(Active') + u >= 0
      BY <1>1, <1>2, <1>4, <3>1, <3>2
    <3>4. IsFiniteSet(Limited')
      <4>1. CASE Limited' \subseteq Limited
        BY <1>3, <4>1, HoldsOf
      <4>2. CASE \E r \in Requests : Limited' \subseteq Limited \cup {r}
        BY <1>3, <4>2, HoldsOf
      <4>3. QED
        BY <4>1, <4>2 DEF Calm
    <3>5. QED
      BY <3>1, <3>3, <3>4 DEF AccountTypes, Calm
  <2>2. ASSUME NEW r \in Requests, pc[r] = "holds", seen[r] - ActiveHolds >= Estimate,
               Active' \subseteq Active \cup {r}, ledger' = ledger
        PROVE  AccountTypes' /\ ledger' - Estimate * Cardinality(Active') + u >= 0
    <3>1. /\ IsFiniteSet(Active') /\ Estimate * Cardinality(Active') \in Nat
          /\ Estimate * Cardinality(Active') <= ActiveHolds + Estimate
      BY <1>3, <1>4, <2>2, HoldsOf
    <3>2. seen[r] \in Int /\ seen[r] <= ledger + u
      BY <2>2 DEF AccountInv, BalanceSeen, u
    <3>3. ledger' - Estimate * Cardinality(Active') + u >= 0
      BY <1>1, <1>2, <1>4, <2>2, <3>1, <3>2
    <3>4. IsFiniteSet(Limited')
      <4>1. CASE Limited' \subseteq Limited
        BY <1>3, <4>1, HoldsOf
      <4>2. CASE \E q \in Requests : Limited' \subseteq Limited \cup {q}
        BY <1>3, <4>2, HoldsOf
      <4>3. QED
        BY <4>1, <4>2 DEF Calm
    <3>5. QED
      BY <3>1, <3>3, <3>4 DEF AccountTypes, Calm
  <2>3. QED
    BY <2>1, <2>2 DEF Calm
<1>6. c + Estimate * Cardinality(Open') <= Cap + w
  <2>1. CASE Limited' \subseteq Limited
    <3>1. Open' \subseteq Open
      BY <2>1 DEF Open, Calm
    <3>2. /\ Estimate * Cardinality(Open') \in Nat
          /\ Estimate * Cardinality(Open') <= Estimate * Cardinality(Open)
      BY <1>3, <3>1, HoldsOf
    <3>3. c + Estimate * Cardinality(Open) <= Cap + w
      BY DEF AccountInv, SpendCovers, c, w
    <3>4. QED
      BY <1>1, <1>2, <1>4, <3>2, <3>3
  <2>2. ASSUME NEW r \in Requests, pc[r] = "held", seen[r] + ActiveLimits + Estimate <= Cap,
               Limited' \subseteq Limited \cup {r}
        PROVE  c + Estimate * Cardinality(Open') <= Cap + w
    <3>1. Open' \subseteq Limited \cup {r}
      BY <2>2 DEF Open
    <3>2. /\ Estimate * Cardinality(Open') \in Nat
          /\ Estimate * Cardinality(Open') <= ActiveLimits + Estimate
      BY <1>3, <1>4, <3>1, HoldsOf
    <3>3. seen[r] \in Nat /\ c <= seen[r] + w
      BY <2>2 DEF AccountInv, SpendSeen, c, w
    <3>4. QED
      BY <1>1, <1>2, <1>4, <2>2, <3>2, <3>3
  <2>3. QED
    BY <2>1, <2>2 DEF Calm
<1>7. ASSUME NEW x \in Requests, pc'[x] = "holds"
      PROVE  seen'[x] \in Int /\ seen'[x] <= ledger' + u
  <2>1. CASE pc[x] = "holds" /\ seen'[x] = seen[x]
    <3>1. seen[x] \in Int /\ seen[x] <= ledger + u
      BY <2>1 DEF AccountInv, BalanceSeen, u
    <3>2. QED
      BY <1>1, <1>2, <2>1, <3>1
  <2>2. CASE seen'[x] = ledger
    <3>1. ledger \in Int /\ ledger <= ledger' + u
      <4>1. u \in Nat /\ ledger \in Int /\ ledger' \in Int /\ ledger <= ledger'
        BY <1>1, <1>2
      <4>2. \A i, j \in Int : \A n \in Nat : i <= j => i <= j + n
        OBVIOUS
      <4>3. QED
        BY <4>1, <4>2
    <3>2. QED
      BY <2>2, <3>1
  <2>3. QED
    BY <1>7, <2>1, <2>2 DEF Calm
<1>8. ASSUME NEW x \in Requests, pc'[x] = "held"
      PROVE  seen'[x] \in Nat /\ c <= seen'[x] + w
  <2>1. CASE pc[x] = "held" /\ seen'[x] = seen[x]
    BY <2>1 DEF AccountInv, SpendSeen, c, w
  <2>2. CASE seen'[x] = Charges(Public)
    BY <1>1, <2>2
  <2>3. QED
    BY <1>8, <2>1, <2>2 DEF Calm
<1>9. BalanceSeen' /\ BalanceCovers'
  BY <1>1, <1>5, <1>7 DEF BalanceSeen, BalanceCovers
<1>10. SpendSeen' /\ SpendCovers'
  BY <1>1, <1>6, <1>8 DEF SpendSeen, SpendCovers
<1>11. QED
  BY <1>5, <1>9, <1>10 DEF AccountInv

-----------------------------------------------------------------------------
\* Someone is charged now.
Pays(r) == Charge(r) /\ usage[r] = "billable" /\ debits[r] = 0

\* What steps do to holds and to what was read.
Books ==
    /\ slipped' = slipped
    /\ \A x \in Requests : hold'[x] = hold[x] \/ hold[x] = "active" \/ pc[x] = "holds"
    /\ seen' = [x \in Requests |-> seen'[x]]
    /\ \/ Active' \subseteq Active
       \/ \E r \in Requests : /\ pc[r] = "holds" /\ seen[r] - ActiveHolds >= Estimate
                              /\ Active' \subseteq Active \cup {r} /\ ledger' = ledger
    /\ \/ Limited' \subseteq Limited
       \/ \E r \in Requests : /\ pc[r] = "held" /\ seen[r] + ActiveLimits + Estimate <= Cap
                              /\ Limited' \subseteq Limited \cup {r}
    /\ \A x \in Requests : pc'[x] = "holds" =>
         \/ pc[x] = "holds" /\ seen'[x] = seen[x]
         \/ seen'[x] = ledger
    /\ \A x \in Requests : pc'[x] = "held" =>
         \/ pc[x] = "held" /\ seen'[x] = seen[x]
         \/ seen'[x] = Charges(Public)

\* Such a step is calm if it charges nobody.
LEMMA BooksAreCalm ==
  ASSUME LedgerInv, HoldInv, Books, debits' = debits, ledger' \in Int, ledger' >= ledger,
         \A x \in Charged : cost'[x] = cost[x]
  PROVE  Calm
<1>1. ASSUME NEW x \in Charged
      PROVE  uncovered'[x] = uncovered[x]
  <2>1. x \in Requests /\ debits[x] > 0 /\ cost'[x] = cost[x]
    BY DEF Charged
  <2>2. pc[x] # "holds" /\ (x \in OwnTrace \/ hold[x] # "active")
    <3>1. debits[x] # 0
      BY <2>1
    <3>2. QED
      BY <2>1, <3>1 DEF LedgerInv, UnansweredIsFree, Unanswered, Incoming, HoldInv, Fits, HoldFits
  <2>3. slipped' = slipped /\ (x \in OwnTrace \/ hold'[x] = hold[x])
    BY <2>1, <2>2 DEF Books
  <2>4. Uncovered(x)' = Uncovered(x)
    BY <2>1, <2>3 DEF Uncovered, Unheld
  <2>5. QED
    BY <2>1, <2>4 DEF uncovered
<1>2. QED
  BY <1>1 DEF Calm, Books

\* The steps of a request that charge nobody.
LEMMA StepsKeepBooks ==
  ASSUME LedgerInv, HoldInv, AccountInv, NEW r \in Requests, ~Pays(r),
         Start(r) \/ Step(r) \/ (r \in Public /\ PublicStep(r)) \/ (r \in ExecCalls /\ Callback(r))
  PROVE  Books
<1> USE DEF LedgerInv, LedgerTypes, HoldInv, HoldTypes, AccountInv, AccountTypes, Books, Active,
            Limited, At, Goto, Finish, money, holds, meter, world, past
<1>1. CASE Start(r)
  BY <1>1 DEF Start
<1>2. CASE ReserveBalance(r)
  BY <1>2 DEF ReserveBalance
<1>3. CASE ReserveHolds(r)
  BY <1>3 DEF ReserveHolds
<1>4. CASE ReserveSlot(r)
  BY <1>4 DEF ReserveSlot
<1>5. CASE Release(r)
  BY <1>5 DEF Release, Close
<1>6. CASE Upstream(r)
  BY <1>6 DEF Upstream
<1>7. CASE Account(r)
  BY <1>7 DEF Account
<1>8. CASE RevokeRun(r)
  BY <1>8 DEF RevokeRun
<1>9. CASE Forward(r)
  BY <1>9 DEF Forward
<1>10. CASE Stream(r)
  BY <1>10 DEF Stream
<1>11. CASE UndoHold(r)
  BY <1>11 DEF UndoHold, Close
<1>12. CASE Record(r)
  BY <1>12 DEF Record
<1>13. CASE Price(r)
  BY <1>13 DEF Price
<1>14. CASE Charge(r)
  <2>1. /\ UNCHANGED <<limit, seen, slipped>>
        /\ hold' = hold \/ hold' = [hold EXCEPT ![r] = IF @ = "active" THEN "settled" ELSE @]
        /\ \E l \in {"reconcile", "done"} : pc' = [pc EXCEPT ![r] = l]
    BY <1>14 DEF Charge, Pays, Settle, AfterCharge, Close
  <2>2. \A x \in Requests : pc'[x] \in {"holds", "held"} => pc'[x] = pc[x]
    BY <2>1
  <2>3. \A x \in Requests : hold'[x] = hold[x] \/ (hold[x] = "active" /\ hold'[x] # "active")
    BY <2>1
  <2>4. QED
    BY <2>1, <2>2, <2>3
<1>15. CASE r \in Public /\ ReadCommitted(r)
  BY <1>15 DEF ReadCommitted
<1>16. CASE r \in Public /\ ReadHeld(r)
  <2>1. /\ pc[r] = "held" /\ UNCHANGED <<ledger, hold, seen, slipped>>
        /\ \/ limit' = limit
           \/ /\ seen[r] + ActiveLimits + Estimate <= Cap
              /\ limit' = [limit EXCEPT ![r] = "active"]
        /\ \E l \in {"refuse", "forward", "stream"} : pc' = [pc EXCEPT ![r] = l]
    <3>1. ~(seen[r] + ActiveLimits + Estimate > Cap) => seen[r] + ActiveLimits + Estimate <= Cap
      <4>1. seen[r] \in Nat /\ Cap \in Nat /\ Estimate \in Nat
        BY <1>16, AmountsAssumption DEF ReadHeld, SpendSeen
      <4>2. ActiveLimits \in Nat
        BY HoldsOf DEF ActiveLimits
      <4>3. QED
        BY <4>1, <4>2
    <3>2. QED
      BY <1>16, <3>1 DEF ReadHeld
  <2>2. \A x \in Requests : pc'[x] \in {"holds", "held"} => pc'[x] = pc[x]
    BY <2>1
  <2>3. limit' = limit \/ Limited' \subseteq Limited \cup {r}
    BY <2>1
  <2>4. QED
    BY <2>1, <2>2, <2>3
<1>17. CASE r \in Public /\ UndoLimit(r)
  BY <1>17 DEF UndoLimit, CloseLimit
<1>18. CASE r \in Public /\ Reconcile(r)
  BY <1>18 DEF Reconcile, CloseLimit
<1>19. CASE r \in ExecCalls /\ Callback(r)
  BY <1>19 DEF Callback
<1>20. QED
  BY <1>1, <1>2, <1>3, <1>4, <1>5, <1>6, <1>7, <1>8, <1>9, <1>10, <1>11, <1>12, <1>13, <1>14,
     <1>15, <1>16, <1>17, <1>18, <1>19 DEF Step, PublicStep

\* So does the rest of the world.
LEMMA WorldKeepsBooks ==
  ASSUME LedgerInv, HoldInv, AccountInv,
         (\E e \in Payments : TopUp(e)) \/ CrashWeb \/ UNCHANGED vars
  PROVE  Calm
<1>1. UNCHANGED <<hold, limit, seen, debits, cost, slipped>>
      /\ \A x \in Requests : pc'[x] = pc[x] \/ pc'[x] = "done"
  BY DEF TopUp, CrashWeb, At, vars, money, holds, meter, world, past
<1>2. Books
  BY <1>1 DEF Books, Active, Limited, AccountInv, AccountTypes
<1>3. ledger' \in Int /\ ledger' >= ledger
  <2>1. ledger' = ledger \/ ledger' = ledger + Credit
    BY DEF TopUp, CrashWeb, vars, money
  <2>2. QED
    BY <2>1, AmountsAssumption DEF LedgerInv, LedgerTypes
<1>4. QED
  BY <1>1, <1>2, <1>3, BooksAreCalm

\* Every step that charges nobody is calm.
LEMMA StepsAreCalm ==
  ASSUME LedgerInv, HoldInv, AccountInv, NEW r \in Requests, ~Pays(r),
         Start(r) \/ Step(r) \/ (r \in Public /\ PublicStep(r)) \/ (r \in ExecCalls /\ Callback(r))
  PROVE  Calm
<1>1. Books
  BY StepsKeepBooks
<1>2. Moves(r) \/ (Charge(r) /\ UNCHANGED <<ledger, debits, cost>>)
  <2>1. CASE Charge(r)
    BY <2>1 DEF Charge, Pays, money, meter
  <2>2. CASE ~Charge(r)
    BY <2>2, OthersMove DEF Step
  <2>3. QED
    BY <2>1, <2>2
<1>3. /\ debits' = debits /\ ledger' = ledger
      /\ \A x \in Charged : cost'[x] = cost[x]
  <2>1. pc[r] \in Unanswered => r \notin Charged
    BY DEF LedgerInv, UnansweredIsFree, Charged
  <2>2. QED
    BY <1>2, <2>1 DEF Moves, LedgerInv, LedgerTypes, Charged
<1>4. ledger' \in Int /\ ledger' >= ledger
  BY <1>3 DEF LedgerInv, LedgerTypes
<1>5. QED
  BY <1>1, <1>3, <1>4, BooksAreCalm

\* A charge takes at most what the request's hold kept back, and what is uncovered of it;
\* nobody else is in the head of a request, or the charge is one that slipped through.
LEMMA PayKeeps ==
  ASSUME BudgetInv, LedgerInv, HoldInv, AccountInv, NEW r \in Requests, Pays(r)
  PROVE  AccountInv'
<1> DEFINE u == Total(uncovered, Charged)
           w == Total(uncovered, Spent)
           c == Total(cost, Spent)
           t == uncovered'[r]
<1>1. /\ pc[r] = "charge" /\ debits[r] = 0 /\ usage[r] = "billable"
      /\ UNCHANGED <<limit, usage, cost, seen>>
      /\ hold' = IF r \in OwnTrace THEN hold
                 ELSE [hold EXCEPT ![r] = IF @ = "active" THEN "settled" ELSE @]
      /\ ledger' = ledger - cost[r] /\ debits' = [debits EXCEPT ![r] = 1]
      /\ slipped' = IF Slips(r) THEN slipped \cup {r} ELSE slipped
      /\ \E l \in {"reconcile", "done"} : pc' = [pc EXCEPT ![r] = l]
  BY DEF Pays, Charge, Settle, AfterCharge, Close, At, Goto, Finish, meter
<1>2. /\ hold \in [Requests -> HoldStatus] /\ debits \in [Requests -> Nat]
      /\ pc \in [Requests -> PC] /\ ledger \in Int /\ HoldFits(r)
      /\ r \in Public => PublicFits(r)
  BY DEF HoldInv, HoldTypes, LedgerInv, LedgerTypes, Fits
<1>3. /\ LedgerInv'
      /\ \A x \in Requests : /\ uncovered'[x] \in Nat /\ cost'[x] \in Nat
                             /\ cost'[x] <= uncovered'[x] + Estimate
                             /\ Unheld(x)' => uncovered'[x] = cost'[x]
  <2>1. LedgerInv'
    BY ChargeIsExplained DEF Pays
  <2>2. Estimate \in Nat /\ \A x \in Requests : cost'[x] \in Nat
    BY <1>1, UncoveredIs, AmountsAssumption
  <2>3. \A x \in Requests : uncovered'[x] = Uncovered(x)'
    BY DEF uncovered
  <2>4. QED
    BY <2>1, <2>2, <2>3 DEF Uncovered
<1>4. /\ cost[r] \in Nat /\ t \in Nat /\ cost[r] <= t + Estimate /\ cost'[r] = cost[r]
      /\ Unheld(r)' => t = cost[r]
  <2>1. /\ t \in Nat /\ cost'[r] \in Nat /\ cost'[r] <= t + Estimate
        /\ Unheld(r)' => t = cost'[r]
    BY <1>3
  <2>2. QED
    BY <1>1, <2>1
<1>5. /\ Charged' = Charged \cup {r} /\ r \notin Charged
      /\ r \in Public => Spent' = Spent \cup {r} /\ r \notin Spent
      /\ r \notin Public => Spent' = Spent
  <2>1. \A x \in Requests : debits'[x] > 0 <=> debits[x] > 0 \/ x = r
    BY <1>1, <1>2
  <2>2. Charged' = Charged \cup {r} /\ r \notin Charged
    BY <1>1, <2>1 DEF Charged
  <2>3. QED
    BY <2>2 DEF Spent
<1>6. ASSUME NEW x \in Charged
      PROVE  uncovered'[x] = uncovered[x] /\ cost'[x] = cost[x]
  <2>1. x \in Requests /\ x # r
    BY <1>5 DEF Charged
  <2>2. hold'[x] = hold[x] /\ cost'[x] = cost[x] /\ (x \in slipped' <=> x \in slipped)
    BY <1>1, <1>2, <2>1
  <2>3. Uncovered(x)' = Uncovered(x)
    BY <2>2 DEF Uncovered, Unheld
  <2>4. QED
    BY <2>1, <2>2, <2>3 DEF uncovered
<1>7. /\ u \in Nat /\ w \in Nat /\ c \in Nat
      /\ IsFiniteSet(Charged) /\ IsFiniteSet(Spent)
      /\ IsFiniteSet(Charged') /\ IsFiniteSet(Spent')
  <2>1. /\ u \in Nat /\ w \in Nat /\ c \in Nat
        /\ IsFiniteSet(Charged) /\ IsFiniteSet(Spent)
    BY SumsAre
  <2>2. IsFiniteSet(Charged') /\ IsFiniteSet(Spent')
    BY <1>5, <2>1, FS_AddElement
  <2>3. QED
    BY <2>1, <2>2
<1>8. /\ Total(uncovered', Charged') = u + t
      /\ r \in Public => Total(uncovered', Spent') = w + t /\ Total(cost', Spent') = c + cost[r]
      /\ r \notin Public => Total(uncovered', Spent') = w /\ Total(cost', Spent') = c
  <2> DEFINE f == uncovered'
             g == uncovered
             k == cost'
             C == Charged
             S == Spent
             D == Charged'
             T == Spent'
  <2>1. /\ \A x \in D : f[x] \in Nat
        /\ \A x \in T : f[x] \in Nat /\ k[x] \in Nat
        /\ \A x \in C : f[x] = g[x]
        /\ \A x \in S : f[x] = g[x] /\ k[x] = cost[x]
    <3>1. \A x \in Requests : f[x] \in Nat /\ k[x] \in Nat
      BY <1>3
    <3>2. D \subseteq Requests /\ T \subseteq D /\ S \subseteq C
      BY DEF Charged, Spent
    <3>3. QED
      BY <1>6, <3>1, <3>2
  <2>2. /\ D = C \cup {r} /\ r \notin C /\ IsFiniteSet(C) /\ IsFiniteSet(D)
        /\ r \in Public => T = S \cup {r} /\ r \notin S
        /\ r \notin Public => T = S
        /\ IsFiniteSet(S) /\ IsFiniteSet(T)
    BY <1>5, <1>7
  <2> HIDE DEF f, g, k, C, S, D, T
  <2>3. Total(f, C) = Total(g, C) /\ Total(f, S) = Total(g, S) /\ Total(k, S) = Total(cost, S)
    BY <2>1, <2>2, TotalSame
  <2>4. Total(f, D) = f[r] + Total(f, D \ {r}) /\ D \ {r} = C
    BY <2>1, <2>2, TotalTakes
  <2>5. r \in Public => /\ Total(f, T) = f[r] + Total(f, T \ {r})
                        /\ Total(k, T) = k[r] + Total(k, T \ {r})
                        /\ T \ {r} = S
    BY <2>1, <2>2, TotalTakes
  <2>6. /\ Total(f, D) = f[r] + Total(g, C)
        /\ r \in Public => Total(f, T) = f[r] + Total(g, S) /\ Total(k, T) = k[r] + Total(cost, S)
        /\ r \notin Public => Total(f, T) = Total(g, S) /\ Total(k, T) = Total(cost, S)
    BY <2>2, <2>3, <2>4, <2>5
  <2>7. /\ Total(g, C) = u /\ Total(g, S) = w /\ Total(cost, S) = c
        /\ f[r] = t /\ k[r] = cost[r]
    BY <1>4 DEF f, g, k, C, S
  <2>8. /\ Total(f, D) = u + t
        /\ r \in Public => Total(f, T) = w + t /\ Total(k, T) = c + cost[r]
        /\ r \notin Public => Total(f, T) = w /\ Total(k, T) = c
    <3> HIDE DEF u, w, c, t
    <3>1. QED
      BY <1>4, <1>7, <2>6, <2>7
  <2>9. QED
    BY <2>8 DEF f, k, D, T
<1>9. /\ ledger' \in Int /\ Estimate \in Nat /\ Cap \in Nat
      /\ IsFiniteSet(Active) /\ IsFiniteSet(Limited) /\ IsFiniteSet(Open)
  BY <1>3, AmountsAssumption, FS_Subset DEF LedgerInv, LedgerTypes, AccountInv, AccountTypes, Open
<1> HIDE DEF u, w, c, t
<1>10. AccountTypes' /\ ledger' - Estimate * Cardinality(Active') + (u + t) >= 0
  <2> DEFINE a == Estimate * Cardinality(Active)
             b == Estimate * Cardinality(Active')
  <2>1. ledger - a + u >= 0 /\ a \in Nat
    BY <1>9, HoldsOf DEF AccountInv, BalanceCovers, u
  <2>2. Active' \subseteq Active
    BY <1>1, <1>2 DEF Active
  <2>3. IsFiniteSet(Active') /\ b \in Nat /\ b <= a
    BY <1>9, <2>2, HoldsOf
  <2>4. ASSUME Unheld(r)'
        PROVE  ledger' - Estimate * Cardinality(Active') + (u + t) >= 0
    <3> HIDE DEF a, b
    <3>1. ledger' = ledger - t
      BY <1>1, <1>4, <2>4
    <3>2. ledger' - b + (u + t) >= 0
      BY <1>2, <1>4, <1>7, <2>1, <2>3, <3>1
    <3>3. QED
      BY <3>2 DEF b
  <2>5. ASSUME ~Unheld(r)'
        PROVE  ledger' - Estimate * Cardinality(Active') + (u + t) >= 0
    <3>1. r \notin OwnTrace /\ hold[r] = "active"
      <4>1. r \notin OwnTrace
        BY <2>5 DEF Unheld
      <4>2. hold[r] \notin {"none", "settled"}
        BY <1>1, <1>2 DEF HoldFits, Incoming
      <4>3. CASE r \in ExecCalls
        <5>1. hold'[r] # "released"
          BY <2>5, <4>3 DEF Unheld
        <5>2. hold[r] # "released"
          BY <1>1, <1>2, <5>1
        <5>3. QED
          BY <1>2, <4>1, <4>2, <5>2 DEF HoldStatus
      <4>4. CASE r \in Public
        BY <1>1, <1>2, <4>1, <4>4 DEF PublicFits, Metering
      <4>5. QED
        BY <4>3, <4>4 DEF Requests
    <3>2. r \in Active /\ Active' \subseteq Active \ {r}
      BY <1>1, <1>2, <3>1 DEF Active
    <3>3. b + Estimate <= a
      BY <1>9, <3>2, HoldsOf
    <3> HIDE DEF a, b
    <3>4. ledger' - b + (u + t) >= 0
      BY <1>1, <1>2, <1>4, <1>7, <1>9, <2>1, <2>3, <3>3
    <3>5. QED
      BY <3>4 DEF b
  <2>6. Limited' = Limited
    BY <1>1 DEF Limited
  <2>7. QED
    BY <1>1, <1>9, <2>3, <2>4, <2>5, <2>6 DEF AccountTypes, AccountInv
<1>11. Total(cost', Spent') + Estimate * Cardinality(Open') <= Cap + Total(uncovered', Spent')
  <2> DEFINE a == Estimate * Cardinality(Open)
             b == Estimate * Cardinality(Open')
  <2>1. c + a <= Cap + w /\ a \in Nat
    BY <1>9, HoldsOf DEF AccountInv, SpendCovers, c, w
  <2>2. CASE r \notin Public
    <3>1. Open' \subseteq Open
      BY <1>1, <1>2, <2>2 DEF Open, Limited
    <3>2. b \in Nat /\ b <= a
      BY <1>9, <3>1, HoldsOf
    <3> HIDE DEF a, b
    <3>3. c + b <= Cap + w
      BY <1>7, <1>9, <2>1, <3>2
    <3>4. QED
      BY <1>8, <2>2, <3>3 DEF b
  <2>3. CASE r \in Public
    <3>1. limit[r] = "active"
      BY <1>1, <1>2, <2>3 DEF PublicFits, Metering
    <3>2. r \in Open /\ Open' \subseteq Open \ {r}
      BY <1>1, <1>2, <2>3, <3>1 DEF Open, Limited, Public
    <3>3. b \in Nat /\ b + Estimate <= a
      BY <1>9, <3>2, HoldsOf
    <3> HIDE DEF a, b
    <3>4. (c + cost[r]) + b <= Cap + (w + t)
      BY <1>4, <1>7, <1>9, <2>1, <3>3
    <3>5. QED
      BY <1>8, <2>3, <3>4 DEF b
  <2>4. QED
    BY <2>2, <2>3
<1>12. ASSUME NEW x \in Requests, pc'[x] \in {"holds", "held"}
       PROVE  pc[x] = pc'[x] /\ t = cost[r]
  <2>1. pc[x] = pc'[x] /\ x # r
    BY <1>1, <1>2, <1>12
  <2>2. loop = x
    BY <1>12, <2>1 DEF BudgetInv, LoopKept, AtHead
  <2>3. r \in Streams
    BY <1>1, <2>1, <2>2 DEF BudgetInv, LoopKept
  <2>4. Slips(r)
    BY <1>12, <2>1, <2>3 DEF Slips
  <2>5. Unheld(r)'
    BY <1>1, <2>4 DEF Unheld
  <2>6. QED
    BY <1>4, <2>1, <2>5
<1>13. BalanceSeen'
  <2> SUFFICES ASSUME NEW x \in Requests, pc'[x] = "holds"
               PROVE  seen'[x] \in Int /\ seen'[x] <= ledger' + Total(uncovered', Charged')
    BY DEF BalanceSeen
  <2>1. seen[x] \in Int /\ seen[x] <= ledger + u
    BY <1>12 DEF AccountInv, BalanceSeen, u
  <2>2. ledger' = ledger - t /\ seen'[x] = seen[x]
    BY <1>1, <1>12
  <2>3. seen[x] <= (ledger - t) + (u + t)
    BY <1>2, <1>4, <1>7, <2>1
  <2>4. QED
    BY <1>8, <2>1, <2>2, <2>3
<1>14. SpendSeen'
  <2> SUFFICES ASSUME NEW x \in Requests, pc'[x] = "held"
               PROVE  /\ seen'[x] \in Nat
                      /\ Total(cost', Spent') <= seen'[x] + Total(uncovered', Spent')
    BY DEF SpendSeen
  <2>1. seen[x] \in Nat /\ c <= seen[x] + w
    BY <1>12 DEF AccountInv, SpendSeen, c, w
  <2>2. t = cost[r] /\ seen'[x] = seen[x]
    BY <1>1, <1>12
  <2>3. c + t <= seen[x] + (w + t)
    BY <1>4, <1>7, <2>1
  <2>4. QED
    BY <1>8, <2>1, <2>2, <2>3
<1>15. BalanceCovers' /\ SpendCovers'
  BY <1>8, <1>10, <1>11 DEF BalanceCovers, SpendCovers
<1>16. QED
  BY <1>10, <1>13, <1>14, <1>15 DEF AccountInv

\* Before the first request nothing is held or charged.
LEMMA AccountsInit == Init => AccountInv
<1> SUFFICES ASSUME Init
             PROVE  AccountInv
  OBVIOUS
<1>1. /\ Active = {} /\ Limited = {} /\ Open = {} /\ Charged = {} /\ Spent = {}
      /\ ledger = Opening
  BY DEF Init, Active, Limited, Open, Charged, Spent
<1>2. IsFiniteSet({}) /\ Cardinality({}) = 0 /\ Estimate * 0 = 0
  <2>1. \A a \in Nat : a * 0 = 0
    OBVIOUS
  <2>2. QED
    BY <2>1, FS_EmptySet, AmountsAssumption
<1>3. Total(uncovered, {}) = 0 /\ Total(cost, {}) = 0
  BY <1>2, TotalStep
<1>4. AccountTypes
  BY <1>1, <1>2 DEF Init, AccountTypes
<1>5. BalanceSeen /\ SpendSeen
  BY DEF Init, BalanceSeen, SpendSeen
<1>6. BalanceCovers
  <2>1. Opening - 0 + 0 >= 0
    BY AmountsAssumption
  <2>2. QED
    BY <1>1, <1>2, <1>3, <2>1 DEF BalanceCovers
<1>7. SpendCovers
  <2>1. 0 + 0 <= Cap + 0
    BY AmountsAssumption
  <2>2. QED
    BY <1>1, <1>2, <1>3, <2>1 DEF SpendCovers
<1>8. QED
  BY <1>4, <1>5, <1>6, <1>7 DEF AccountInv

\* The four invariants together are inductive.
LEMMA AccountsStep ==
  ASSUME BudgetInv, LedgerInv, HoldInv, AccountInv, [Next]_vars
  PROVE  AccountInv'
<1>1. ASSUME NEW r \in Requests,
             Start(r) \/ Step(r) \/ (r \in Public /\ PublicStep(r))
               \/ (r \in ExecCalls /\ Callback(r))
      PROVE  AccountInv'
  <2>1. CASE Pays(r)
    BY <2>1, PayKeeps
  <2>2. CASE ~Pays(r)
    BY <1>1, <2>2, StepsAreCalm, CalmKeeps
  <2>3. QED
    BY <2>1, <2>2
<1>2. CASE (\E e \in Payments : TopUp(e)) \/ CrashWeb \/ UNCHANGED vars
  BY <1>2, WorldKeepsBooks, CalmKeeps
<1>3. QED
  BY <1>1, <1>2 DEF Next, Requests

\* Concurrent requests overspend by no more than what they were charged beyond their own
\* holds, on the balance and on a key: for any costs and estimate, with streams, lost
\* answers, repeated and missing callbacks, payments and crashes.
THEOREM OverdraftIsBounded == Spec => [](OverdraftIsExplained /\ SpendIsExplained)
<1>1. LedgerInv /\ AccountInv => OverdraftIsExplained /\ SpendIsExplained
  <2> SUFFICES ASSUME LedgerInv, AccountInv
               PROVE  OverdraftIsExplained /\ SpendIsExplained
    OBVIOUS
  <2>1. ActiveHolds = Estimate * Cardinality(Active)
    BY DEF ActiveHolds, Active
  <2>2. OverdraftIsExplained
    BY <2>1, SumsAre DEF AccountInv, BalanceCovers, OverdraftIsExplained
  <2>3. Estimate * Cardinality(Open) \in Nat
    <3>1. IsFiniteSet(Open)
      BY FS_Subset DEF AccountInv, AccountTypes, Open
    <3>2. QED
      BY <3>1, HoldsOf
  <2> DEFINE a == Estimate * Cardinality(Open)
             c == Total(cost, Spent)
             w == Total(uncovered, Spent)
  <2>4. /\ c + a <= Cap + w /\ a \in Nat /\ c \in Nat /\ w \in Nat /\ Cap \in Nat
        /\ Charges(Public) = c /\ Overdraft(Public) = w
    BY <2>3, SumsAre, AmountsAssumption DEF AccountInv, SpendCovers
  <2> HIDE DEF a, c, w
  <2>5. c <= Cap + w
    BY <2>4
  <2>6. QED
    BY <2>2, <2>4, <2>5 DEF SpendIsExplained
<1>2. BudgetInv /\ LedgerInv /\ HoldInv /\ AccountInv /\ [Next]_vars
        => BudgetInv' /\ LedgerInv' /\ HoldInv' /\ AccountInv'
  BY BudgetStep, LedgerStep, HoldStep, AccountsStep
<1>3. QED
  BY <1>1, <1>2, BudgetInit, LedgerInit, HoldInit, AccountsInit, PTL DEF Spec

-----------------------------------------------------------------------------
(***************************************************************************)
(* The visual service.  First what a session is, and how its windows and   *)
(* the sequence of its answers go together.                                *)
(***************************************************************************)
VsFields ==
    {"st", "frames", "look", "goal", "tasks", "win", "reuse", "out", "issued", "reserved",
     "answers", "attempts", "reads", "spoiled", "reused", "reported", "rseq"}
Windows  == [replay : Seq(VsRequests), expired : Seq(VsRequests)]
Outs     == Seq([id : Nat, goal : Goals])
VsFits(x) ==
    /\ x.st \in {"none", "open", "closing", "closed"} /\ x.frames \in Nat
    /\ x.look \in Looks \cup {"moving"} /\ x.goal \in Goals /\ x.tasks \in Nat
    /\ x.win \in [Kinds -> Windows]
    /\ x.reuse \in SUBSET Looks /\ x.out \in Outs /\ x.issued \in Nat
    /\ x.reserved \in Nat /\ x.answers \in Nat /\ x.attempts \in Nat /\ x.reads \in Nat
    /\ x.spoiled \in Nat /\ x.reused \in Nat /\ x.reported \in Nat /\ x.rseq \in Nat

\* A session is a record of its fields.
LEMMA VsIs == \A x \in VsStates : VsFits(x) /\ x = [f \in VsFields |-> x[f]]
  BY SMT DEF VsStates, VsFits, VsFields, Windows, Outs

\* A record of such fields is a session.
LEMMA IsVs == \A x : VsFits(x) /\ x = [f \in VsFields |-> x[f]] => x \in VsStates
  BY SMT DEF VsStates, VsFits, VsFields, Windows, Outs

\* What the types say of one session.
LEMMA VsHas ==
    ASSUME VsTypeOK, NEW s \in VsSessions
    PROVE  vs[s] \in VsStates /\ VsFits(vs[s]) /\ vs[s] = [f \in VsFields |-> vs[s][f]]
  BY VsIs DEF VsTypeOK

\* A session is written.
LEMMA VsMoves ==
    ASSUME VsTypeOK, NEW s \in VsSessions, NEW x \in VsStates, vs' = [vs EXCEPT ![s] = x]
    PROVE  /\ vs' \in [VsSessions -> VsStates] /\ vs'[s] = x
           /\ \A u \in VsSessions : u # s => vs'[u] = vs[u]
  BY SMT DEF VsTypeOK

-----------------------------------------------------------------------------
(* Sequences.                                                                *)

\* The newest of a sequence are its end.
LEMMA NewestIs ==
    ASSUME NEW S, NEW q \in Seq(S), NEW n \in Nat \ {0}
    PROVE  /\ Newest(q, n) \in Seq(S)
           /\ Len(Newest(q, n)) = IF Len(q) > n THEN n ELSE Len(q)
           /\ \A i \in DOMAIN Newest(q, n) :
                 /\ i + Len(q) - Len(Newest(q, n)) \in DOMAIN q
                 /\ Newest(q, n)[i] = q[i + Len(q) - Len(Newest(q, n))]
<1>1. Len(q) \in Nat /\ Seq(S) # {}
  OBVIOUS
<1>2. CASE Len(q) > n
  <2> DEFINE m == Len(q) - n
  <2>1. m + 1 \in 1..Len(q) /\ m \in Nat /\ Len(q) - (m + 1) + 1 = n
    BY <1>1, <1>2
  <2>2. Newest(q, n) = SubSeq(q, m + 1, Len(q))
    BY <1>2 DEF Newest
  <2> HIDE DEF m
  <2>3. /\ SubSeq(q, m + 1, Len(q)) \in Seq(S) /\ Len(SubSeq(q, m + 1, Len(q))) = n
        /\ \A i \in 1..n : SubSeq(q, m + 1, Len(q))[i] = q[m + i]
    BY <1>1, <2>1
  <2>4. /\ Newest(q, n) \in Seq(S) /\ Len(Newest(q, n)) = n /\ DOMAIN Newest(q, n) = 1..n
        /\ \A i \in 1..n : Newest(q, n)[i] = q[m + i]
    BY <2>2, <2>3
  <2>5. \A i \in 1..n : i + Len(q) - n = m + i /\ m + i \in DOMAIN q
    BY <1>1, <1>2 DEF m
  <2> QED BY <1>2, <2>4, <2>5
<1>3. CASE ~(Len(q) > n)
  <2>1. Newest(q, n) = SubSeq(q, 1, Len(q))
    BY <1>3 DEF Newest
  <2>2. SubSeq(q, 1, Len(q)) = q
    BY <1>1
  <2> QED BY <1>1, <1>3, <2>1, <2>2
<1> QED BY <1>2, <1>3

\* What is in a sequence is of its kind.
LEMMA ItemsAre == ASSUME NEW S, NEW q \in Seq(S) PROVE Items(q) \subseteq S
  BY DEF Items

\* What a window remembers is a window.
LEMMA WindowGrows ==
    ASSUME VsAssumption, NEW w \in Windows, NEW r \in VsRequests
    PROVE  Remember(w, r) \in Windows
<1> DEFINE grown == Append(w.replay, r)
<1>1. /\ w.replay \in Seq(VsRequests) /\ w.expired \in Seq(VsRequests)
      /\ w = [replay |-> w.replay, expired |-> w.expired]
  BY DEF Windows
<1>2. MaxReplay \in Nat \ {0} /\ MaxExpired \in Nat \ {0}
  BY DEF VsAssumption
<1>3. grown \in Seq(VsRequests) /\ Len(grown) = Len(w.replay) + 1
  BY <1>1
<1> HIDE DEF grown
<1>4. CASE Len(grown) <= MaxReplay
  <2>1. Remember(w, r) = [w EXCEPT !.replay = grown]
    BY <1>4 DEF Remember, grown
  <2> QED BY <2>1, <1>1, <1>3 DEF Windows
<1>5. CASE ~(Len(grown) <= MaxReplay)
  <2>1. Remember(w, r) = [replay |-> Tail(grown),
                          expired |-> Newest(Append(w.expired, grown[1]), MaxExpired)]
    BY <1>5 DEF Remember, grown
  <2>2. Tail(grown) \in Seq(VsRequests) /\ grown[1] \in VsRequests
    BY <1>3, <1>1, LenProperties
  <2>3. Newest(Append(w.expired, grown[1]), MaxExpired) \in Seq(VsRequests)
    <3>1. Append(w.expired, grown[1]) \in Seq(VsRequests)
      BY <1>1, <2>2
    <3> QED BY <1>2, <3>1, NewestIs
  <2> QED BY <2>1, <2>2, <2>3 DEF Windows
<1> QED BY <1>4, <1>5

-----------------------------------------------------------------------------
(* The answers to a request id.                                              *)

\* What was answered is in one of the windows, or long past.
Placed(w, a, i) ==
    \/ a[i] \in Items(w.replay)
    \/ \E e \in DOMAIN w.expired : w.expired[e] = a[i] /\ Len(w.expired) - e < Len(a) - i
    \/ Len(a) - i > MaxExpired
Remembered(w, a) == \A i \in DOMAIN a : Placed(w, a, i)
Spaced(a) == \A i, j \in DOMAIN a : i < j /\ a[i] = a[j] => j - i > MaxExpired + 1

\* An id that is in neither window is answered long after its last answer.
LEMMA FreshIsSpaced ==
    ASSUME VsAssumption, NEW w \in Windows, NEW a \in Seq(VsRequests), NEW r \in VsRequests,
           Remembered(w, a), Spaced(a), Fresh(w, r)
    PROVE  Spaced(Append(a, r))
<1> DEFINE b == Append(a, r)
<1>1. /\ b \in Seq(VsRequests) /\ Len(b) = Len(a) + 1 /\ b[Len(a) + 1] = r
      /\ \A i \in 1..Len(a) : b[i] = a[i]
      /\ DOMAIN b = 1..(Len(a) + 1) /\ DOMAIN a = 1..Len(a) /\ Len(a) \in Nat
  OBVIOUS
<1>2. MaxExpired \in Nat
  BY DEF VsAssumption
<1> HIDE DEF b
<1>3. ASSUME NEW i \in 1..Len(a), a[i] = r PROVE Len(a) - i > MaxExpired
  <2>1. a[i] \notin Items(w.replay) /\ \A e \in DOMAIN w.expired : w.expired[e] # a[i]
    BY <1>3 DEF Fresh, Items
  <2>2. Placed(w, a, i)
    BY <1>1 DEF Remembered
  <2> QED BY <2>1, <2>2 DEF Placed
<1>4. Spaced(b)
  <2> SUFFICES ASSUME NEW i \in DOMAIN b, NEW j \in DOMAIN b, i < j, b[i] = b[j]
               PROVE  j - i > MaxExpired + 1
    BY DEF Spaced
  <2>1. CASE j \in 1..Len(a)
    <3>1. i \in DOMAIN a /\ j \in DOMAIN a /\ a[i] = a[j]
      BY <1>1, <2>1
    <3> QED BY <3>1 DEF Spaced
  <2>2. CASE j = Len(a) + 1
    <3>1. i \in 1..Len(a) /\ a[i] = r
      BY <1>1, <2>2
    <3> QED BY <1>1, <1>2, <1>3, <2>2, <3>1
  <2> QED BY <1>1, <2>1, <2>2
<1> QED BY <1>4 DEF b

\* A new answer pushes the others one place on.
LEMMA AnswerIsRemembered ==
    ASSUME VsAssumption, NEW w \in Windows, NEW a \in Seq(VsRequests), NEW r \in VsRequests,
           Remembered(w, a)
    PROVE  Remembered(Remember(w, r), Append(a, r))
<1> DEFINE b == Append(a, r)
           grown == Append(w.replay, r)
           x == Remember(w, r)
<1>1. /\ b \in Seq(VsRequests) /\ Len(b) = Len(a) + 1 /\ b[Len(a) + 1] = r
      /\ \A i \in 1..Len(a) : b[i] = a[i]
      /\ DOMAIN b = 1..(Len(a) + 1) /\ DOMAIN a = 1..Len(a) /\ Len(a) \in Nat
  OBVIOUS
<1>2. MaxExpired \in Nat \ {0} /\ MaxReplay \in Nat \ {0}
  BY DEF VsAssumption
<1>3. w.replay \in Seq(VsRequests) /\ w.expired \in Seq(VsRequests)
      /\ w = [replay |-> w.replay, expired |-> w.expired]
  BY DEF Windows
<1>4. /\ grown \in Seq(VsRequests) /\ Len(grown) = Len(w.replay) + 1
      /\ grown[Len(grown)] = r /\ \A i \in 1..Len(w.replay) : grown[i] = w.replay[i]
      /\ DOMAIN grown = 1..Len(grown) /\ DOMAIN w.replay = 1..Len(w.replay)
      /\ Len(w.replay) \in Nat
  BY <1>3
<1> HIDE DEF b, grown
<1>5. CASE Len(grown) <= MaxReplay
  <2>1. x.replay = grown /\ x.expired = w.expired
    <3>1. x = [w EXCEPT !.replay = grown]
      BY <1>5 DEF Remember, grown
    <3> HIDE DEF x
    <3> QED BY <3>1, <1>3
  <2> HIDE DEF x
  <2>2. Items(w.replay) \subseteq Items(x.replay) /\ r \in Items(x.replay)
    BY <1>4, <2>1 DEF Items
  <2>3. ASSUME NEW i \in DOMAIN b PROVE Placed(x, b, i)
    <3>1. CASE i = Len(a) + 1
      BY <1>1, <2>2, <3>1 DEF Placed
    <3>2. CASE i \in 1..Len(a)
      <4>1. Placed(w, a, i) /\ b[i] = a[i]
        BY <1>1, <3>2 DEF Remembered
      <4>2. CASE a[i] \in Items(w.replay)
        BY <2>2, <4>1, <4>2 DEF Placed
      <4>3. CASE \E e \in DOMAIN w.expired :
                    w.expired[e] = a[i] /\ Len(w.expired) - e < Len(a) - i
        <5>1. PICK e \in DOMAIN w.expired :
                    w.expired[e] = a[i] /\ Len(w.expired) - e < Len(a) - i
          BY <4>3
        <5>2. e \in Nat /\ Len(w.expired) \in Nat
          BY <1>3
        <5>3. Len(x.expired) - e < Len(b) - i
          BY <1>1, <2>1, <3>2, <5>1, <5>2, SMTT(30)
        <5> QED BY <2>1, <4>1, <5>1, <5>3 DEF Placed
      <4>4. CASE Len(a) - i > MaxExpired
        <5>1. Len(b) - i > MaxExpired
          BY <1>1, <1>2, <3>2, <4>4
        <5> QED BY <5>1 DEF Placed
      <4> QED BY <4>1, <4>2, <4>3, <4>4 DEF Placed
    <3> QED BY <1>1, <3>1, <3>2
  <2> QED BY <2>3 DEF Remembered, b, x
<1>6. CASE ~(Len(grown) <= MaxReplay)
  <2> DEFINE old == Append(w.expired, grown[1])
             new == Newest(old, MaxExpired)
  <2>1. x.replay = Tail(grown) /\ x.expired = new
    BY <1>6 DEF Remember, grown
  <2>2. /\ grown[1] \in VsRequests /\ Len(grown) >= 2
        /\ Tail(grown) \in Seq(VsRequests) /\ Len(Tail(grown)) = Len(grown) - 1
        /\ \A i \in 1..(Len(grown) - 1) : Tail(grown)[i] = grown[i + 1]
        /\ DOMAIN Tail(grown) = 1..(Len(grown) - 1)
    BY <1>2, <1>4, <1>6, SMTT(30)
  <2>3. /\ old \in Seq(VsRequests) /\ Len(old) = Len(w.expired) + 1
        /\ old[Len(w.expired) + 1] = grown[1]
        /\ \A i \in 1..Len(w.expired) : old[i] = w.expired[i]
        /\ Len(w.expired) \in Nat /\ DOMAIN w.expired = 1..Len(w.expired)
    BY <1>3, <2>2
  <2> HIDE DEF old, x
  <2>4. /\ new \in Seq(VsRequests)
        /\ Len(new) = IF Len(old) > MaxExpired THEN MaxExpired ELSE Len(old)
        /\ \A i \in DOMAIN new : new[i] = old[i + Len(old) - Len(new)]
    BY <1>2, <2>3, NewestIs
  <2> HIDE DEF new
  <2>5. DOMAIN new = 1..Len(new) /\ Len(new) \in Nat /\ Len(old) \in Nat
    BY <2>3, <2>4
  \* What was at j in the grown queue is as far from its end, or fell out.
  <2>6. ASSUME NEW j \in 1..Len(old), Len(old) - j < MaxExpired
        PROVE  \E e \in DOMAIN new : new[e] = old[j] /\ Len(new) - e = Len(old) - j
    <3> DEFINE e == j - (Len(old) - Len(new))
    <3>1. Len(new) <= Len(old) /\ (Len(new) = Len(old) \/ Len(new) = MaxExpired)
      BY <1>2, <2>4, <2>5
    <3>2. e \in 1..Len(new) /\ e + Len(old) - Len(new) = j /\ Len(new) - e = Len(old) - j
      <4>1. j \in Nat /\ 1 <= j /\ j <= Len(old) /\ MaxExpired \in Nat
        BY <1>2, <2>5
      <4>2. CASE Len(new) = Len(old)
        BY <2>5, <4>1, <4>2
      <4>3. CASE Len(new) = MaxExpired
        BY <2>6, <2>5, <3>1, <4>1, <4>3
      <4> QED BY <3>1, <4>2, <4>3
    <3> HIDE DEF e
    <3> QED BY <2>4, <2>5, <3>2
  <2>7. r \in Items(x.replay)
    <3>1. Len(grown) - 1 \in DOMAIN x.replay /\ x.replay[Len(grown) - 1] = r
      BY <1>4, <2>1, <2>2
    <3> QED BY <3>1 DEF Items
  <2>8. ASSUME NEW y \in Items(w.replay), y # grown[1] PROVE y \in Items(x.replay)
    <3>1. PICK i \in 1..Len(w.replay) : y = w.replay[i]
      BY <1>4 DEF Items
    <3>2. i # 1 /\ grown[i] = y
      BY <1>4, <2>8, <3>1
    <3>3. i - 1 \in DOMAIN x.replay /\ x.replay[i - 1] = y
      BY <1>4, <2>1, <2>2, <3>2
    <3> QED BY <3>3 DEF Items
  <2>9. ASSUME NEW i \in DOMAIN b PROVE Placed(x, b, i)
    <3>1. CASE i = Len(a) + 1
      BY <1>1, <2>7, <3>1 DEF Placed
    <3>2. CASE i \in 1..Len(a)
      <4>1. Placed(w, a, i) /\ b[i] = a[i]
        BY <1>1, <3>2 DEF Remembered
      <4>2. ASSUME NEW j \in 1..Len(old), old[j] = a[i], Len(old) - j < Len(b) - i
            PROVE  Placed(x, b, i)
        <5>1. CASE Len(old) - j < MaxExpired
          <6>1. PICK e \in DOMAIN new : new[e] = old[j] /\ Len(new) - e = Len(old) - j
            BY <2>6, <5>1
          <6>2. e \in DOMAIN x.expired /\ x.expired[e] = b[i]
                /\ Len(x.expired) - e < Len(b) - i
            BY <2>1, <4>1, <4>2, <6>1
          <6> QED BY <6>2 DEF Placed
        <5>2. CASE ~(Len(old) - j < MaxExpired)
          <6>1. Len(b) - i > MaxExpired
            BY <1>1, <1>2, <2>3, <3>2, <4>2, <5>2
          <6> QED BY <6>1 DEF Placed
        <5> QED BY <5>1, <5>2
      <4>3. CASE a[i] \in Items(w.replay)
        <5>1. CASE a[i] = grown[1]
          <6>1. Len(old) \in 1..Len(old) /\ old[Len(old)] = a[i]
                /\ Len(old) - Len(old) < Len(b) - i
            BY <1>1, <2>3, <3>2, <5>1
          <6> QED BY <4>2, <6>1
        <5>2. CASE a[i] # grown[1]
          BY <2>8, <4>1, <4>3, <5>2 DEF Placed
        <5> QED BY <5>1, <5>2
      <4>4. CASE \E e \in DOMAIN w.expired :
                    w.expired[e] = a[i] /\ Len(w.expired) - e < Len(a) - i
        <5>1. PICK e \in DOMAIN w.expired :
                    w.expired[e] = a[i] /\ Len(w.expired) - e < Len(a) - i
          BY <4>4
        <5>2. e \in 1..Len(w.expired)
          BY <2>3, <5>1
        <5>3. e \in 1..Len(old) /\ Len(old) - e < Len(b) - i
          <6>1. /\ Len(old) = Len(w.expired) + 1 /\ Len(b) = Len(a) + 1 /\ Len(a) \in Nat
                /\ Len(w.expired) \in Nat /\ i \in Nat /\ e \in Nat /\ 1 <= e
                /\ e <= Len(w.expired)
            BY <1>1, <2>3, <3>2, <5>2
          <6>2. Len(w.expired) - e < Len(a) - i
            BY <5>1
          <6>3. Len(w.expired) + 1 - e < Len(a) + 1 - i /\ e <= Len(w.expired) + 1
            BY <6>1, <6>2, SMTT(30)
          <6> QED BY <6>1, <6>3
        <5>4. old[e] = a[i]
          BY <2>3, <5>1, <5>2
        <5> QED BY <4>2, <5>3, <5>4
      <4>5. CASE Len(a) - i > MaxExpired
        <5>1. Len(b) - i > MaxExpired
          BY <1>1, <1>2, <3>2, <4>5
        <5> QED BY <5>1 DEF Placed
      <4> QED BY <4>1, <4>3, <4>4, <4>5 DEF Placed
    <3> QED BY <1>1, <3>1, <3>2
  <2> QED BY <2>9 DEF Remembered, b, x
<1> QED BY <1>5, <1>6

\* An answer that is given again is remembered as before.
LEMMA ReplayIsRemembered ==
    ASSUME NEW w \in Windows, NEW i \in DOMAIN w.replay, NEW a,
           Remembered(w, a)
    PROVE  LET q == Append(Without(w.replay, i), w.replay[i])
           IN  /\ q \in Seq(VsRequests) /\ [w EXCEPT !.replay = q] \in Windows
               /\ Remembered([w EXCEPT !.replay = q], a)
<1> DEFINE p == w.replay
           q == Append(Without(p, i), p[i])
<1>1. p \in Seq(VsRequests) /\ w = [replay |-> p, expired |-> w.expired]
      /\ w.expired \in Seq(VsRequests)
  BY DEF Windows
<1> HIDE DEF p
<1>2. i \in 1..Len(p) /\ Len(p) \in Nat
  BY <1>1 DEF p
<1>3. /\ SubSeq(p, 1, i - 1) \in Seq(VsRequests) /\ Len(SubSeq(p, 1, i - 1)) = i - 1
      /\ \A j \in 1..(i - 1) : SubSeq(p, 1, i - 1)[j] = p[j]
  BY <1>1, <1>2
<1>4. /\ SubSeq(p, i + 1, Len(p)) \in Seq(VsRequests)
      /\ Len(SubSeq(p, i + 1, Len(p))) = Len(p) - i
      /\ \A j \in 1..(Len(p) - i) : SubSeq(p, i + 1, Len(p))[j] = p[i + j]
  BY <1>1, <1>2
<1> DEFINE h == Without(p, i)
           u == SubSeq(p, 1, i - 1)
           v == SubSeq(p, i + 1, Len(p))
<1>5. h = u \o v
  BY DEF Without
<1> HIDE DEF h, u, v
<1>6. /\ u \in Seq(VsRequests) /\ v \in Seq(VsRequests)
       /\ Len(u) = i - 1 /\ Len(v) = Len(p) - i
       /\ (\A j \in 1..(i - 1) : u[j] = p[j]) /\ \A j \in 1..(Len(p) - i) : v[j] = p[i + j]
  BY <1>3, <1>4 DEF u, v
<1>7. /\ h \in Seq(VsRequests) /\ Len(h) = Len(u) + Len(v)
       /\ \A j \in 1..(Len(u) + Len(v)) : h[j] = IF j <= Len(u) THEN u[j] ELSE v[j - Len(u)]
  <2>1. /\ u \o v \in Seq(VsRequests) /\ Len(u \o v) = Len(u) + Len(v)
        /\ \A j \in 1..(Len(u) + Len(v)) :
              (u \o v)[j] = IF j <= Len(u) THEN u[j] ELSE v[j - Len(u)]
    BY <1>6, ConcatProperties
  <2> QED BY <1>5, <2>1
<1>8. /\ h \in Seq(VsRequests) /\ Len(h) = Len(p) - 1
      /\ \A j \in 1..(i - 1) : h[j] = p[j]
      /\ \A j \in 1..(Len(p) - i) : h[i - 1 + j] = p[i + j]
  <2>1. h \in Seq(VsRequests) /\ Len(h) = Len(p) - 1
    BY <1>2, <1>6, <1>7
  <2>2. ASSUME NEW j \in 1..(i - 1) PROVE h[j] = p[j]
    <3>1. j \in 1..(Len(u) + Len(v)) /\ j <= Len(u)
      BY <1>2, <1>6
    <3> QED BY <1>6, <1>7, <3>1
  <2>3. ASSUME NEW j \in 1..(Len(p) - i) PROVE h[i - 1 + j] = p[i + j]
    <3>1. /\ i - 1 + j \in 1..(Len(u) + Len(v)) /\ ~(i - 1 + j <= Len(u))
          /\ (i - 1 + j) - Len(u) = j
      BY <1>2, <1>6, SMTT(30)
    <3>2. h[i - 1 + j] = v[j]
      BY <1>7, <3>1
    <3> QED BY <1>6, <3>2
  <2> QED BY <2>1, <2>2, <2>3
<1>9. q \in Seq(VsRequests) /\ Len(q) = Len(p) /\ q[Len(p)] = p[i]
      /\ \A j \in 1..(Len(p) - 1) : q[j] = h[j]
  <2>1. q = Append(h, p[i]) /\ p[i] \in VsRequests
    BY <1>1, <1>2 DEF h
  <2> HIDE DEF q
  <2> QED BY <1>2, <1>8, <2>1
<1> HIDE DEF q
<1>10. ASSUME NEW y \in Items(p) PROVE y \in Items(q)
  <2>1. PICK j \in 1..Len(p) : y = p[j]
    BY <1>1 DEF Items
  <2>2. CASE j = i
    BY <1>2, <1>9, <2>1, <2>2 DEF Items
  <2>3. CASE j < i
    <3>1. j \in 1..(i - 1) /\ j \in 1..(Len(p) - 1)
      BY <1>2, <2>1, <2>3
    <3>2. q[j] = y
      BY <1>8, <1>9, <2>1, <3>1
    <3>3. j \in DOMAIN q
      BY <1>2, <1>9, <2>1
    <3> QED BY <3>2, <3>3 DEF Items
  <2>4. CASE j > i
    <3>1. j - i \in 1..(Len(p) - i) /\ i - 1 + (j - i) = j - 1 /\ i + (j - i) = j
          /\ j - 1 \in 1..(Len(p) - 1)
      BY <1>2, <2>1, <2>4
    <3>2. h[j - 1] = p[j]
      BY <1>8, <3>1
    <3>3. j - 1 \in DOMAIN q /\ q[j - 1] = y
      BY <1>2, <1>9, <2>1, <3>1, <3>2
    <3> QED BY <3>3 DEF Items
  <2> QED BY <1>2, <2>1, <2>2, <2>3, <2>4
<1> DEFINE x == [w EXCEPT !.replay = q]
<1>11. x.replay = q /\ x.expired = w.expired /\ x \in Windows
  BY <1>1, <1>9 DEF Windows
<1> HIDE DEF x
<1>12. Remembered(x, a)
  BY <1>10, <1>11 DEF Remembered, Placed, p
<1> QED BY <1>9, <1>11, <1>12 DEF x, q, p

-----------------------------------------------------------------------------
(* What the steps do to a session.                                           *)

UsedBy(v) == v.frames + v.answers + v.attempts + v.reads + v.spoiled
\* Nothing is reported; what is not closed may be used.
SameUse(v, x) ==
    /\ x.reported = v.reported /\ x.rseq = v.rseq /\ UsedBy(v) \in Nat /\ UsedBy(x) \in Nat
    /\ UsedBy(x) >= UsedBy(v)
    /\ v.st = "closed" => UsedBy(x) = UsedBy(v)
    /\ x.st = "closed" <=> v.st = "closed"
\* Who infers goes on.
SameLock(v, x) ==
    x.reserved = v.reserved /\ (v.st \in {"open", "closing"} => x.st \in {"open", "closing"})
Rests(v, x) == SameUse(v, x) /\ SameLock(v, x) /\ x.win = v.win

\* A sequence without an element is one of the others.
LEMMA WithoutIs ==
    ASSUME NEW S, NEW q \in Seq(S), NEW i \in DOMAIN q
    PROVE  Without(q, i) \in Seq(S)
<1>1. i \in 1..Len(q) /\ Len(q) \in Nat
  OBVIOUS
<1>2. SubSeq(q, 1, i - 1) \in Seq(S) /\ SubSeq(q, i + 1, Len(q)) \in Seq(S)
  BY <1>1
<1> QED BY <1>2 DEF Without

\* A session is created.
LEMMA CreateMoves ==
    ASSUME VsAssumption, VsTypeOK, NEW s \in VsSessions, CreateSession(s)
    PROVE  \E x \in VsStates : vs' = [vs EXCEPT ![s] = x] /\ Rests(vs[s], x)
<1>1. VsFits(vs[s]) /\ vs[s] = [f \in VsFields |-> vs[s][f]]
  BY VsHas
<1>2. vs[s].st = "none"
  BY DEF CreateSession
<1> DEFINE x == [vs[s] EXCEPT !.st = "open"]
<1>3. vs' = [vs EXCEPT ![s] = x]
  BY Zenon DEF CreateSession
<1>4. x = [f \in VsFields |-> x[f]]
  BY <1>1
<1>5. VsFits(x)
  BY <1>1, <1>2 DEF VsFits, VsFields
<1>6. Rests(vs[s], x)
  BY <1>1, <1>2 DEF VsFits, VsFields, Rests, SameUse, SameLock, UsedBy
<1> HIDE DEF x
<1>7. x \in VsStates
  BY <1>4, <1>5, IsVs, Zenon
<1> QED BY <1>3, <1>6, <1>7

\* A frame comes.
LEMMA FrameMoves ==
    ASSUME VsAssumption, VsTypeOK, NEW s \in VsSessions, PublishFrame(s)
    PROVE  \E x \in VsStates : vs' = [vs EXCEPT ![s] = x] /\ Rests(vs[s], x)
<1>1. VsFits(vs[s]) /\ vs[s] = [f \in VsFields |-> vs[s][f]]
  BY VsHas
<1>2. vs[s].st # "closed" /\ \E look \in Looks \cup {"moving"} :
          vs' = [vs EXCEPT ![s].frames = @ + 1, ![s].look = look]
  BY DEF PublishFrame, Reachable
<1> PICK look \in Looks \cup {"moving"} :
          vs' = [vs EXCEPT ![s].frames = @ + 1, ![s].look = look]
  BY <1>2
<1> DEFINE x == [vs[s] EXCEPT !.frames = @ + 1, !.look = look]
<1>3. vs' = [vs EXCEPT ![s] = x]
  BY Zenon
<1>4. x = [f \in VsFields |-> x[f]]
  BY <1>1
<1>5. VsFits(x)
  BY <1>1, <1>2 DEF VsFits, VsFields
<1>6. Rests(vs[s], x)
  BY <1>1, <1>2 DEF VsFits, VsFields, Rests, SameUse, SameLock, UsedBy
<1> HIDE DEF x
<1>7. x \in VsStates
  BY <1>4, <1>5, IsVs, Zenon
<1> QED BY <1>3, <1>6, <1>7

\* A decision was carried out.
LEMMA AttemptMoves ==
    ASSUME VsAssumption, VsTypeOK, NEW s \in VsSessions, RecordAttempt(s)
    PROVE  \E x \in VsStates : vs' = [vs EXCEPT ![s] = x] /\ Rests(vs[s], x)
<1>1. VsFits(vs[s]) /\ vs[s] = [f \in VsFields |-> vs[s][f]]
  BY VsHas
<1>2. vs[s].st # "closed" /\ \E i \in DOMAIN vs[s].out :
          vs' = [vs EXCEPT ![s].attempts = @ + 1, ![s].out = Without(@, i)]
  BY DEF RecordAttempt, Reachable
<1> PICK i \in DOMAIN vs[s].out :
          vs' = [vs EXCEPT ![s].attempts = @ + 1, ![s].out = Without(@, i)]
  BY <1>2
<1>3. Without(vs[s].out, i) \in Outs
  <2>1. vs[s].out \in Outs
    BY <1>1 DEF VsFits
  <2> QED BY <2>1, WithoutIs DEF Outs
<1> DEFINE x == [vs[s] EXCEPT !.attempts = @ + 1, !.out = Without(@, i)]
<1>4. vs' = [vs EXCEPT ![s] = x]
  BY Zenon
<1>5. x = [f \in VsFields |-> x[f]]
  BY <1>1
<1>6. VsFits(x)
  BY <1>1, <1>2, <1>3 DEF VsFits, VsFields
<1>7. Rests(vs[s], x)
  BY <1>1, <1>2, <1>3 DEF VsFits, VsFields, Rests, SameUse, SameLock, UsedBy
<1> HIDE DEF x
<1>8. x \in VsStates
  BY <1>5, <1>6, IsVs, Zenon
<1> QED BY <1>4, <1>7, <1>8

\* The history is read.
LEMMA ReadMoves ==
    ASSUME VsAssumption, VsTypeOK, NEW s \in VsSessions, Read(s)
    PROVE  \E x \in VsStates : vs' = [vs EXCEPT ![s] = x] /\ Rests(vs[s], x)
<1>1. VsFits(vs[s]) /\ vs[s] = [f \in VsFields |-> vs[s][f]]
  BY VsHas
<1>2. vs[s].st # "closed"
  BY DEF Read, Reachable
<1> DEFINE x == [vs[s] EXCEPT !.reads = @ + 1]
<1>3. vs' = [vs EXCEPT ![s] = x]
  BY Zenon DEF Read
<1>4. x = [f \in VsFields |-> x[f]]
  BY <1>1
<1>5. VsFits(x)
  BY <1>1, <1>2 DEF VsFits, VsFields
<1>6. Rests(vs[s], x)
  BY <1>1, <1>2 DEF VsFits, VsFields, Rests, SameUse, SameLock, UsedBy
<1> HIDE DEF x
<1>7. x \in VsStates
  BY <1>4, <1>5, IsVs, Zenon
<1> QED BY <1>3, <1>6, <1>7

\* A session is closed.
LEMMA CloseMoves ==
    ASSUME VsAssumption, VsTypeOK, NEW s \in VsSessions, CloseSession(s) \/ Sweep(s)
    PROVE  \E x \in VsStates : vs' = [vs EXCEPT ![s] = x] /\ Rests(vs[s], x)
<1>1. VsFits(vs[s]) /\ vs[s] = [f \in VsFields |-> vs[s][f]]
  BY VsHas
<1>2. vs[s].st = "open"
  BY DEF CloseSession, Sweep
<1> DEFINE x == [vs[s] EXCEPT !.st = "closing"]
<1>3. vs' = [vs EXCEPT ![s] = x]
  BY Zenon DEF CloseSession, Sweep
<1>4. x = [f \in VsFields |-> x[f]]
  BY <1>1
<1>5. VsFits(x)
  BY <1>1, <1>2 DEF VsFits, VsFields
<1>6. Rests(vs[s], x)
  BY <1>1, <1>2 DEF VsFits, VsFields, Rests, SameUse, SameLock, UsedBy
<1> HIDE DEF x
<1>7. x \in VsStates
  BY <1>4, <1>5, IsVs, Zenon
<1> QED BY <1>3, <1>6, <1>7

\* A session has a new task.
LEMMA TaskMoves ==
    ASSUME VsAssumption, VsTypeOK, NEW s \in VsSessions, SetTask(s)
    PROVE  \E x \in VsStates :
              /\ vs' = [vs EXCEPT ![s] = x] /\ SameUse(vs[s], x) /\ SameLock(vs[s], x)
              /\ x.win["decision"] = Window /\ x.win["perception"] = vs[s].win["perception"]
<1>1. VsFits(vs[s]) /\ vs[s] = [f \in VsFields |-> vs[s][f]]
  BY VsHas
<1>2. vs[s].st # "closed"
  BY DEF SetTask, Reachable
<1>3. PICK goal \in Goals :
          vs' = [vs EXCEPT ![s].goal = goal, ![s].tasks = @ + 1,
                           ![s].win["decision"] = Window, ![s].out = <<>>]
  BY DEF SetTask, Goals
<1> DEFINE g == [vs[s].win EXCEPT !["decision"] = Window]
<1>4. vs' = [vs EXCEPT ![s] = [vs[s] EXCEPT !.goal = goal, !.tasks = @ + 1, !.win = g,
                                           !.out = <<>>]]
  BY <1>3, Zenon
<1>5. /\ g \in [Kinds -> Windows] /\ <<>> \in Outs
      /\ g["decision"] = Window /\ g["perception"] = vs[s].win["perception"]
  <2>1. Window \in Windows /\ <<>> \in Outs
    BY DEF Window, Windows, Outs
  <2>2. vs[s].win \in [Kinds -> Windows]
    BY <1>1 DEF VsFits
  <2> QED BY <2>1, <2>2 DEF Kinds
<1> HIDE DEF g
<1> DEFINE x == [vs[s] EXCEPT !.goal = goal, !.tasks = @ + 1, !.win = g, !.out = <<>>]
<1>6. vs' = [vs EXCEPT ![s] = x]
  BY <1>4
<1>7. x = [f \in VsFields |-> x[f]]
  BY <1>1
<1>8. VsFits(x)
  BY <1>1, <1>2, <1>5, SMTT(90) DEF VsFits, VsFields
<1>9. SameUse(vs[s], x) /\ SameLock(vs[s], x)
              /\ x.win["decision"] = Window /\ x.win["perception"] = vs[s].win["perception"]
  <2>1. x.win = g
    BY <1>1 DEF VsFields
  <2>2. SameUse(vs[s], x) /\ SameLock(vs[s], x)
    BY <1>1, <1>2, SMTT(30) DEF VsFits, VsFields, SameUse, SameLock, UsedBy
  <2> QED BY <1>5, <2>1, <2>2, Zenon
<1> HIDE DEF x
<1>10. x \in VsStates
  BY <1>7, <1>8, IsVs, Zenon
<1> QED BY <1>6, <1>9, <1>10

\* Who inferred is done.
Frees(v, x) == x.reserved = 0 /\ x.st = v.st
\* All use is reported.
Reported(v, x) ==
    /\ UsedBy(v) \in Nat /\ UsedBy(x) = UsedBy(v)
    /\ x.reported = UsedBy(v) /\ x.rseq = v.rseq + 1

ReusesAs(s, k, r) ==
    vs' = [vs EXCEPT ![s].win[k] = Remember(@, r), ![s].answers = @ + 1,
                   ![s].reused = @ + 1]

PerceivesAs(s, k, r, shown) ==
    vs' = [vs EXCEPT ![s].reserved = @ - 1, ![s].answers = @ + 1,
                   ![s].win[k] = Remember(@, r), ![s].reuse = @ \cup shown]

DecidesAs(s, k, r, goal) ==
    vs' = [vs EXCEPT ![s].reserved = @ - 1, ![s].answers = @ + 1,
                   ![s].win[k] = Remember(@, r), ![s].issued = @ + 1,
                   ![s].out = Newest(Append(@, [id   |-> vs[s].issued + 1,
                                                         goal |-> goal]), MaxOut)]

ReplaysAs(s, k, i) ==
    vs' = [vs EXCEPT ![s].win[k].replay =
                               Append(Without(@, i), vs[s].win[k].replay[i])]

ReservesAs(s) ==
    vs' = [vs EXCEPT ![s].reserved = @ + 1]

RefusesAs(s) ==
    vs' = [vs EXCEPT ![s].reserved = @ - 1]

SpoilsAs(s) ==
    vs' = [vs EXCEPT ![s].reserved = @ - 1, ![s].spoiled = @ + 1]

FinishesAs(s) ==
    vs' = [Reports(s) EXCEPT ![s].st = "closed", ![s].win = [k \in Kinds |-> Window],
                                  ![s].out = <<>>, ![s].reuse = {}, ![s].goal = NoGoal]

\* An answer to r is remembered; the answer at i is the newest again.
Given(v, x, k, r) ==
    x.win[k] = Remember(v.win[k], r) /\ \A j \in Kinds : j # k => x.win[j] = v.win[j]
Again(v, x, k, i) ==
    /\ x.win[k] = [v.win[k] EXCEPT !.replay =
                      Append(Without(v.win[k].replay, i), v.win[k].replay[i])]
    /\ \A j \in Kinds : j # k => x.win[j] = v.win[j]

\* A perception is given again.
LEMMA ReuseMoves ==
    ASSUME VsAssumption, VsTypeOK, NEW s \in VsSessions,
           NEW k \in Kinds, NEW r \in VsRequests, vs[s].st # "closed"
    PROVE  ReusesAs(s, k, r)
           => \E x \in VsStates :
                 /\ vs' = [vs EXCEPT ![s] = x]
                 /\ SameUse(vs[s], x) /\ SameLock(vs[s], x)
                 /\ Given(vs[s], x, k, r)
<1> DEFINE w == Remember(vs[s].win[k], r)
           g == [vs[s].win EXCEPT ![k] = w]
           x == [vs[s] EXCEPT !.win = g, !.answers = @ + 1, !.reused = @ + 1]
<1>1. ReusesAs(s, k, r) => vs' = [vs EXCEPT ![s] = x]
  BY ZenonT(60) DEF ReusesAs
<1>2. VsFits(vs[s]) /\ vs[s] = [f \in VsFields |-> vs[s][f]]
  BY VsHas
<1>3. vs[s].win \in [Kinds -> Windows] /\ vs[s].win[k] \in Windows
  BY <1>2 DEF VsFits
<1>4. w \in Windows
  BY <1>3, WindowGrows
<1> HIDE DEF w
<1>5. g \in [Kinds -> Windows] /\ g[k] = w /\ \A j \in Kinds : j # k => g[j] = vs[s].win[j]
  BY <1>3, <1>4
<1> HIDE DEF g
<1>6. g[k] = Remember(vs[s].win[k], r)
  BY <1>5 DEF w
<1>7. x = [f \in VsFields |-> x[f]]
  BY <1>2
<1>8. VsFits(x)
  BY <1>2, <1>5, <1>6 DEF VsFits, VsFields
<1>9. /\ SameUse(vs[s], x) /\ SameLock(vs[s], x)
      /\ Given(vs[s], x, k, r)
  BY <1>2, <1>5, <1>6 DEF VsFits, VsFields, SameUse, SameLock, Given, UsedBy
<1> HIDE DEF x
<1>10. x \in VsStates
  BY <1>7, <1>8, IsVs, Zenon
<1> QED BY <1>1, <1>9, <1>10, Zenon

\* A perception is given.
LEMMA PerceiveMoves ==
    ASSUME VsAssumption, VsTypeOK, NEW s \in VsSessions,
           NEW k \in Kinds, NEW r \in VsRequests, vs[s].st # "closed",
           vs[s].reserved = 1, NEW shown \in SUBSET Looks
    PROVE  PerceivesAs(s, k, r, shown)
           => \E x \in VsStates :
                 /\ vs' = [vs EXCEPT ![s] = x]
                 /\ SameUse(vs[s], x) /\ Frees(vs[s], x)
                 /\ Given(vs[s], x, k, r)
<1> DEFINE w == Remember(vs[s].win[k], r)
           g == [vs[s].win EXCEPT ![k] = w]
           x == [vs[s] EXCEPT !.reserved = @ - 1, !.answers = @ + 1, !.win = g,
                              !.reuse = @ \cup shown]
<1>1. PerceivesAs(s, k, r, shown) => vs' = [vs EXCEPT ![s] = x]
  <2> SUFFICES ASSUME PerceivesAs(s, k, r, shown) PROVE vs' = [vs EXCEPT ![s] = x]
    OBVIOUS
  <2> QED BY ZenonT(60) DEF PerceivesAs
<1>2. VsFits(vs[s]) /\ vs[s] = [f \in VsFields |-> vs[s][f]]
  BY VsHas
<1>3. vs[s].win \in [Kinds -> Windows] /\ vs[s].win[k] \in Windows
  BY <1>2 DEF VsFits
<1>4. w \in Windows
  BY <1>3, WindowGrows
<1> HIDE DEF w
<1>5. g \in [Kinds -> Windows] /\ g[k] = w /\ \A j \in Kinds : j # k => g[j] = vs[s].win[j]
  BY <1>3, <1>4
<1> HIDE DEF g
<1>6. g[k] = Remember(vs[s].win[k], r)
  BY <1>5 DEF w
<1>7. x = [f \in VsFields |-> x[f]]
  BY <1>2
<1>8. VsFits(x)
  BY <1>2, <1>5, <1>6 DEF VsFits, VsFields
<1>9. /\ SameUse(vs[s], x) /\ Frees(vs[s], x)
      /\ Given(vs[s], x, k, r)
  BY <1>2, <1>5, <1>6 DEF VsFits, VsFields, SameUse, Frees, Given, UsedBy
<1> HIDE DEF x
<1>10. x \in VsStates
  BY <1>7, <1>8, IsVs, Zenon
<1> QED BY <1>1, <1>9, <1>10, Zenon

\* A decision is given.
LEMMA DecideMoves ==
    ASSUME VsAssumption, VsTypeOK, NEW s \in VsSessions,
           NEW k \in Kinds, NEW r \in VsRequests, vs[s].st # "closed",
           vs[s].reserved = 1, NEW goal \in Goals
    PROVE  DecidesAs(s, k, r, goal)
           => \E x \in VsStates :
                 /\ vs' = [vs EXCEPT ![s] = x]
                 /\ SameUse(vs[s], x) /\ Frees(vs[s], x)
                 /\ Given(vs[s], x, k, r)
<1> DEFINE m == [id |-> vs[s].issued + 1, goal |-> goal]
           o == Newest(Append(vs[s].out, m), MaxOut)
           w == Remember(vs[s].win[k], r)
           g == [vs[s].win EXCEPT ![k] = w]
           x == [vs[s] EXCEPT !.reserved = @ - 1, !.answers = @ + 1, !.win = g,
                              !.issued = @ + 1, !.out = o]
<1>1. DecidesAs(s, k, r, goal) => vs' = [vs EXCEPT ![s] = x]
  <2> SUFFICES ASSUME DecidesAs(s, k, r, goal) PROVE vs' = [vs EXCEPT ![s] = x]
    OBVIOUS
  <2> QED BY ZenonT(60) DEF DecidesAs
<1>2. VsFits(vs[s]) /\ vs[s] = [f \in VsFields |-> vs[s][f]]
  BY VsHas
<1>3. vs[s].win \in [Kinds -> Windows] /\ vs[s].win[k] \in Windows
  BY <1>2 DEF VsFits
<1>4. w \in Windows
  BY <1>3, WindowGrows
<1> HIDE DEF w
<1>5. g \in [Kinds -> Windows] /\ g[k] = w /\ \A j \in Kinds : j # k => g[j] = vs[s].win[j]
  BY <1>3, <1>4
<1> HIDE DEF g
<1>6. g[k] = Remember(vs[s].win[k], r)
  BY <1>5 DEF w
<1>7. o \in Outs
  <2>1. m \in [id : Nat, goal : Goals] /\ vs[s].out \in Seq([id : Nat, goal : Goals])
    <3>1. vs[s].issued + 1 \in Nat /\ vs[s].out \in Outs
      BY <1>2 DEF VsFits
    <3> QED BY <3>1 DEF Outs
  <2> HIDE DEF m
  <2>2. Append(vs[s].out, m) \in Seq([id : Nat, goal : Goals]) /\ MaxOut \in Nat \ {0}
    BY <2>1 DEF VsAssumption
  <2> QED BY <2>2, NewestIs DEF Outs
<1> HIDE DEF o, m
<1>8. x = [f \in VsFields |-> x[f]]
  BY <1>2
<1>9. VsFits(x)
  BY <1>2, <1>5, <1>6, <1>7 DEF VsFits, VsFields
<1>10. /\ SameUse(vs[s], x) /\ Frees(vs[s], x)
      /\ Given(vs[s], x, k, r)
  BY <1>2, <1>5, <1>6, <1>7 DEF VsFits, VsFields, SameUse, Frees, Given, UsedBy
<1> HIDE DEF x
<1>11. x \in VsStates
  BY <1>8, <1>9, IsVs, Zenon
<1> QED BY <1>1, <1>10, <1>11, Zenon

\* An answer is given again.
LEMMA ReplayMoves ==
    ASSUME VsAssumption, VsTypeOK, NEW s \in VsSessions,
           NEW k \in Kinds, NEW i \in DOMAIN vs[s].win[k].replay
    PROVE  ReplaysAs(s, k, i)
           => \E x \in VsStates :
                 /\ vs' = [vs EXCEPT ![s] = x]
                 /\ SameUse(vs[s], x) /\ SameLock(vs[s], x)
                 /\ Again(vs[s], x, k, i)
<1> DEFINE q == Append(Without(vs[s].win[k].replay, i), vs[s].win[k].replay[i])
           w == [vs[s].win[k] EXCEPT !.replay = q]
           g == [vs[s].win EXCEPT ![k] = w]
           x == [vs[s] EXCEPT !.win = g]
<1>1. ReplaysAs(s, k, i) => vs' = [vs EXCEPT ![s] = x]
  BY ZenonT(60) DEF ReplaysAs
<1>2. VsFits(vs[s]) /\ vs[s] = [f \in VsFields |-> vs[s][f]]
  BY VsHas
<1>3. vs[s].win \in [Kinds -> Windows] /\ vs[s].win[k] \in Windows
  BY <1>2 DEF VsFits
<1>4. w \in Windows
  <2>1. vs[s].win[k].replay \in Seq(VsRequests) /\ vs[s].win[k].replay[i] \in VsRequests
    BY <1>3 DEF Windows
  <2>2. q \in Seq(VsRequests)
    BY <2>1, WithoutIs
  <2> HIDE DEF q
  <2> QED BY <1>3, <2>2 DEF Windows
<1> HIDE DEF w
<1>5. g \in [Kinds -> Windows] /\ g[k] = w /\ \A j \in Kinds : j # k => g[j] = vs[s].win[j]
  BY <1>3, <1>4
<1> HIDE DEF g
<1>6. g[k] = [vs[s].win[k] EXCEPT !.replay =
                  Append(Without(vs[s].win[k].replay, i), vs[s].win[k].replay[i])]
  BY <1>5 DEF w
<1>7. x = [f \in VsFields |-> x[f]]
  BY <1>2
<1>8. VsFits(x)
  BY <1>2, <1>5 DEF VsFits, VsFields
<1>9. /\ SameUse(vs[s], x) /\ SameLock(vs[s], x)
      /\ Again(vs[s], x, k, i)
  <2>1. SameUse(vs[s], x) /\ SameLock(vs[s], x) /\ x.win = g
    BY <1>2 DEF VsFits, VsFields, SameUse, SameLock, UsedBy
  <2> HIDE DEF x
  <2>2. Again(vs[s], x, k, i)
    BY <1>5, <1>6, <2>1, Zenon DEF Again
  <2> QED BY <2>1, <2>2
<1> HIDE DEF x
<1>10. x \in VsStates
  BY <1>7, <1>8, IsVs, Zenon
<1> QED BY <1>1, <1>9, <1>10, Zenon

\* An inference begins.
LEMMA ReserveMoves ==
    ASSUME VsAssumption, VsTypeOK, NEW s \in VsSessions
    PROVE  ReservesAs(s)
           => \E x \in VsStates :
                 /\ vs' = [vs EXCEPT ![s] = x]
                 /\ SameUse(vs[s], x) /\ x.win = vs[s].win
                 /\ x.reserved = vs[s].reserved + 1 /\ x.st = vs[s].st
<1> DEFINE x == [vs[s] EXCEPT !.reserved = @ + 1]
<1>1. ReservesAs(s) => vs' = [vs EXCEPT ![s] = x]
  BY ZenonT(60) DEF ReservesAs
<1>2. VsFits(vs[s]) /\ vs[s] = [f \in VsFields |-> vs[s][f]]
  BY VsHas
<1>3. x = [f \in VsFields |-> x[f]]
  BY <1>2
<1>4. VsFits(x)
  BY <1>2 DEF VsFits, VsFields
<1>5. /\ SameUse(vs[s], x) /\ x.win = vs[s].win
      /\ x.reserved = vs[s].reserved + 1 /\ x.st = vs[s].st
  BY <1>2 DEF VsFits, VsFields, SameUse, UsedBy
<1> HIDE DEF x
<1>6. x \in VsStates
  BY <1>3, <1>4, IsVs, Zenon
<1> QED BY <1>1, <1>5, <1>6, Zenon

\* An inference ends.
LEMMA RefuseMoves ==
    ASSUME VsAssumption, VsTypeOK, NEW s \in VsSessions,
           vs[s].reserved = 1
    PROVE  RefusesAs(s)
           => \E x \in VsStates :
                 /\ vs' = [vs EXCEPT ![s] = x]
                 /\ SameUse(vs[s], x) /\ Frees(vs[s], x) /\ x.win = vs[s].win
<1> DEFINE x == [vs[s] EXCEPT !.reserved = @ - 1]
<1>1. RefusesAs(s) => vs' = [vs EXCEPT ![s] = x]
  BY ZenonT(60) DEF RefusesAs
<1>2. VsFits(vs[s]) /\ vs[s] = [f \in VsFields |-> vs[s][f]]
  BY VsHas
<1>3. x = [f \in VsFields |-> x[f]]
  BY <1>2
<1>4. VsFits(x)
  BY <1>2 DEF VsFits, VsFields
<1>5. /\ SameUse(vs[s], x) /\ Frees(vs[s], x) /\ x.win = vs[s].win
  BY <1>2 DEF VsFits, VsFields, SameUse, Frees, UsedBy
<1> HIDE DEF x
<1>6. x \in VsStates
  BY <1>3, <1>4, IsVs, Zenon
<1> QED BY <1>1, <1>5, <1>6, Zenon

\* An inference was for nothing, and is use all the same.
LEMMA SpoilMoves ==
    ASSUME VsAssumption, VsTypeOK, NEW s \in VsSessions,
           vs[s].reserved = 1, vs[s].st # "closed"
    PROVE  SpoilsAs(s)
           => \E x \in VsStates :
                 /\ vs' = [vs EXCEPT ![s] = x]
                 /\ SameUse(vs[s], x) /\ Frees(vs[s], x) /\ x.win = vs[s].win
<1> DEFINE x == [vs[s] EXCEPT !.reserved = @ - 1, !.spoiled = @ + 1]
<1>1. SpoilsAs(s) => vs' = [vs EXCEPT ![s] = x]
  BY ZenonT(60) DEF SpoilsAs
<1>2. VsFits(vs[s]) /\ vs[s] = [f \in VsFields |-> vs[s][f]]
  BY VsHas
<1>3. x = [f \in VsFields |-> x[f]]
  BY <1>2
<1>4. VsFits(x)
  BY <1>2 DEF VsFits, VsFields
<1>5. /\ SameUse(vs[s], x) /\ Frees(vs[s], x) /\ x.win = vs[s].win
  BY <1>2 DEF VsFits, VsFields, SameUse, Frees, UsedBy
<1> HIDE DEF x
<1>6. x \in VsStates
  BY <1>3, <1>4, IsVs, Zenon
<1> QED BY <1>1, <1>5, <1>6, Zenon

\* The use of a session is reported.
LEMMA CollectMoves ==
    ASSUME VsAssumption, VsTypeOK, NEW s \in VsSessions
    PROVE  vs' = Reports(s)
           => \E x \in VsStates :
                 /\ vs' = [vs EXCEPT ![s] = x]
                 /\ Reported(vs[s], x) /\ SameLock(vs[s], x)
                 /\ x.win = vs[s].win /\ x.st = vs[s].st
<1> DEFINE x == [vs[s] EXCEPT !.rseq = @ + 1, !.reported = Used(s)]
<1>1. vs' = Reports(s) => vs' = [vs EXCEPT ![s] = x]
  BY Zenon DEF Reports
<1>2. VsFits(vs[s]) /\ vs[s] = [f \in VsFields |-> vs[s][f]]
  BY VsHas
<1>3. Used(s) = UsedBy(vs[s]) /\ Used(s) \in Nat
  BY <1>2 DEF Used, UsedBy, VsFits
<1>4. x = [f \in VsFields |-> x[f]]
  BY <1>2
<1>5. VsFits(x)
  BY <1>2, <1>3 DEF VsFits, VsFields
<1>6. /\ Reported(vs[s], x) /\ SameLock(vs[s], x) /\ x.win = vs[s].win /\ x.st = vs[s].st
  BY <1>2, <1>3 DEF VsFits, VsFields, SameLock, Reported, UsedBy
<1> HIDE DEF x
<1>7. x \in VsStates
  BY <1>4, <1>5, IsVs, Zenon
<1> QED BY <1>1, <1>6, <1>7, Zenon

\* A session is closed for good.
LEMMA FinishMoves ==
    ASSUME VsAssumption, VsTypeOK, NEW s \in VsSessions
    PROVE  FinishesAs(s)
           => \E x \in VsStates :
                 /\ vs' = [vs EXCEPT ![s] = x]
                 /\ Reported(vs[s], x) /\ x.reserved = vs[s].reserved /\ x.st = "closed"
                 /\ \A k \in Kinds : x.win[k] = Window
<1> DEFINE e == [k \in Kinds |-> Window]
           a == [vs[s] EXCEPT !.rseq = @ + 1, !.reported = Used(s)]
           x == [vs[s] EXCEPT !.rseq = @ + 1, !.reported = Used(s), !.st = "closed",
                              !.win = e, !.out = <<>>, !.reuse = {}, !.goal = NoGoal]
<1>1. FinishesAs(s) => vs' = [vs EXCEPT ![s] = x]
  <2>1. Reports(s) = [vs EXCEPT ![s] = a]
    BY Zenon DEF Reports
  <2>2. [Reports(s) EXCEPT ![s].st = "closed", ![s].win = [k \in Kinds |-> Window],
                           ![s].out = <<>>, ![s].reuse = {}, ![s].goal = NoGoal]
        = [Reports(s) EXCEPT ![s] = [Reports(s)[s] EXCEPT !.st = "closed", !.win = e,
                                        !.out = <<>>, !.reuse = {}, !.goal = NoGoal]]
    BY Zenon
  <2>3. x = [a EXCEPT !.st = "closed", !.win = e, !.out = <<>>, !.reuse = {}, !.goal = NoGoal]
    BY Zenon
  <2> HIDE DEF a, e, x
  <2>4. Reports(s)[s] = a /\ [Reports(s) EXCEPT ![s] = x] = [vs EXCEPT ![s] = x]
    BY <2>1 DEF VsTypeOK
  <2> QED BY <2>2, <2>3, <2>4, Zenon DEF e, FinishesAs
<1>2. VsFits(vs[s]) /\ vs[s] = [f \in VsFields |-> vs[s][f]]
  BY VsHas
<1>3. Used(s) = UsedBy(vs[s]) /\ Used(s) \in Nat
  BY <1>2 DEF Used, UsedBy, VsFits
<1>4. e \in [Kinds -> Windows] /\ (\A k \in Kinds : e[k] = Window) /\ <<>> \in Outs
      /\ NoGoal \in Goals
  BY DEF Window, Windows, Outs, Goals
<1> HIDE DEF e
<1>5. x = [f \in VsFields |-> x[f]]
  BY <1>2
<1>6. VsFits(x)
  BY <1>2, <1>3, <1>4, SMTT(60) DEF VsFits, VsFields
<1>7. /\ Reported(vs[s], x) /\ x.reserved = vs[s].reserved /\ x.st = "closed"
      /\ \A k \in Kinds : x.win[k] = Window
  BY <1>2, <1>3, <1>4 DEF VsFits, VsFields, Reported, UsedBy
<1> HIDE DEF x
<1>8. x \in VsStates
  BY <1>5, <1>6, IsVs, Zenon
<1> QED BY <1>1, <1>7, <1>8, Zenon

-----------------------------------------------------------------------------
(* The inference lock, and what it protects.                                 *)

\* A request knows its session; one at a time infers for it, and nobody else was given
\* its id meanwhile.
CallsKnown ==
    \A c \in VsCallers :
       vcall[c].pc # "idle" => vcall[c].s \in VsSessions /\ vcall[c].req \in VsRequests
Reserved  == \A s \in VsSessions : vs[s].reserved = IF InferenceLocked(s) THEN 1 ELSE 0
OneInfers ==
    \A c, d \in VsCallers :
       vcall[c].pc = "model" /\ vcall[d].pc = "model" /\ vcall[c].s = vcall[d].s => c = d
StillFresh ==
    \A c \in VsCallers :
       vcall[c].pc = "model" =>
          /\ vs[vcall[c].s].st \in {"open", "closing"}
          /\ Fresh(vs[vcall[c].s].win[vcall[c].kind], vcall[c].req)
LockInv == CallsKnown /\ Reserved /\ OneInfers /\ StillFresh

\* What was answered is remembered long enough.
Answers ==
    \A s \in VsSessions, k \in Kinds :
       Remembered(vs[s].win[k], answered[s][k]) /\ Spaced(answered[s][k])

\* What a step may do to what is remembered: nothing, forget it with the answers, add an
\* answer, or give one again.
AnswersMove(s, k) ==
    \/ vs'[s].win[k] = vs[s].win[k] /\ answered'[s][k] = answered[s][k]
    \/ vs'[s].win[k] = Window /\ answered'[s][k] = <<>>
    \/ \E r \in VsRequests :
          /\ Fresh(vs[s].win[k], r) /\ vs'[s].win[k] = Remember(vs[s].win[k], r)
          /\ answered'[s][k] = Append(answered[s][k], r)
    \/ \E i \in DOMAIN vs[s].win[k].replay :
          /\ vs'[s].win[k] = [vs[s].win[k] EXCEPT !.replay =
                                 Append(Without(vs[s].win[k].replay, i),
                                        vs[s].win[k].replay[i])]
          /\ answered'[s][k] = answered[s][k]

\* Such a step keeps the answers remembered.
LEMMA AnswersKept ==
    ASSUME VsAssumption, VsTypeOK, Answers, \A s \in VsSessions, k \in Kinds : AnswersMove(s, k)
    PROVE  Answers'
<1> SUFFICES ASSUME NEW s \in VsSessions, NEW k \in Kinds
             PROVE  Remembered(vs'[s].win[k], answered'[s][k]) /\ Spaced(answered'[s][k])
  BY DEF Answers
<1> DEFINE w == vs[s].win[k]
           a == answered[s][k]
<1>1. w \in Windows /\ a \in Seq(VsRequests)
  BY VsHas DEF VsFits, VsTypeOK
<1>2. Remembered(w, a) /\ Spaced(a) /\ AnswersMove(s, k)
  BY DEF Answers
<1>3. CASE vs'[s].win[k] = w /\ answered'[s][k] = a
  BY <1>2, <1>3
<1>4. CASE vs'[s].win[k] = Window /\ answered'[s][k] = <<>>
  BY <1>4 DEF Remembered, Spaced
<1>5. ASSUME NEW r \in VsRequests, Fresh(w, r), vs'[s].win[k] = Remember(w, r),
             answered'[s][k] = Append(a, r)
      PROVE  Remembered(vs'[s].win[k], answered'[s][k]) /\ Spaced(answered'[s][k])
  <2> HIDE DEF w, a
  <2>1. Remembered(Remember(w, r), Append(a, r))
    BY <1>1, <1>2, AnswerIsRemembered
  <2>2. Spaced(Append(a, r))
    BY <1>1, <1>2, <1>5, FreshIsSpaced
  <2> QED BY <1>5, <2>1, <2>2
<1>6. ASSUME NEW i \in DOMAIN w.replay, answered'[s][k] = a,
             vs'[s].win[k] = [w EXCEPT !.replay = Append(Without(w.replay, i), w.replay[i])]
      PROVE  Remembered(vs'[s].win[k], answered'[s][k]) /\ Spaced(answered'[s][k])
  <2> HIDE DEF w, a
  <2>1. Remembered([w EXCEPT !.replay = Append(Without(w.replay, i), w.replay[i])], a)
    BY <1>1, <1>2, ReplayIsRemembered
  <2> QED BY <1>2, <1>6, <2>1
<1> QED BY <1>2, <1>3, <1>4, <1>5, <1>6 DEF AnswersMove

\* Calls come and go while the others infer.
LEMMA LockKeeps ==
    ASSUME LockInv, VsTypeOK,
           \A c \in VsCallers :
              \/ vcall'[c] = vcall[c]
              \/ /\ vcall[c].pc # "model" /\ vcall'[c].pc # "model"
                 /\ vcall'[c].pc # "idle" =>
                       vcall'[c].s \in VsSessions /\ vcall'[c].req \in VsRequests,
           \A s \in VsSessions :
              /\ vs'[s].reserved = vs[s].reserved
              /\ InferenceLocked(s) =>
                    /\ vs[s].st \in {"open", "closing"} => vs'[s].st \in {"open", "closing"}
                    /\ \A k \in Kinds : vs'[s].win[k] \in {vs[s].win[k], Window}
    PROVE  LockInv'
<1>1. CallsKnown'
  BY DEF LockInv, CallsKnown
<1>2. \A s : InferenceLocked(s)' <=> InferenceLocked(s)
  BY DEF InferenceLocked
<1>3. Reserved'
  BY <1>2 DEF LockInv, Reserved
<1>4. OneInfers'
  BY DEF LockInv, OneInfers
<1>5. StillFresh'
  <2> SUFFICES ASSUME NEW c \in VsCallers, vcall'[c].pc = "model"
               PROVE  /\ vs'[vcall'[c].s].st \in {"open", "closing"}
                      /\ Fresh(vs'[vcall'[c].s].win[vcall'[c].kind], vcall'[c].req)
    BY DEF StillFresh
  <2>1. vcall'[c] = vcall[c] /\ vcall[c].pc = "model"
    OBVIOUS
  <2>2. vcall[c].s \in VsSessions /\ vcall[c].kind \in Kinds /\ InferenceLocked(vcall[c].s)
    BY <2>1 DEF LockInv, CallsKnown, InferenceLocked, VsTypeOK, VsCalls
  <2>3. /\ vs[vcall[c].s].st \in {"open", "closing"}
        /\ Fresh(vs[vcall[c].s].win[vcall[c].kind], vcall[c].req)
    BY <2>1 DEF LockInv, StillFresh
  <2>4. Fresh(Window, vcall[c].req)
    BY DEF Fresh, Window, Items
  <2>5. vs'[vcall[c].s].win[vcall[c].kind] \in {vs[vcall[c].s].win[vcall[c].kind], Window}
    BY <2>2
  <2>6. Fresh(vs'[vcall[c].s].win[vcall[c].kind], vcall[c].req)
    BY <2>3, <2>4, <2>5
  <2> QED BY <2>1, <2>2, <2>3, <2>6
<1> QED BY <1>1, <1>3, <1>4, <1>5 DEF LockInv

\* The lock is given back.
LEMMA LockFrees ==
    ASSUME LockInv, VsTypeOK, NEW c \in VsCallers, vcall[c].pc = "model",
           vcall' = [vcall EXCEPT ![c] = NoCall], vs'[vcall[c].s].reserved = 0,
           \A s \in VsSessions : s # vcall[c].s => vs'[s] = vs[s]
    PROVE  LockInv'
<1>1. /\ vcall'[c].pc = "idle" /\ \A d \in VsCallers : d # c => vcall'[d] = vcall[d]
      /\ vcall[c].s \in VsSessions
  BY DEF VsTypeOK, NoCall, LockInv, CallsKnown
<1>2. CallsKnown'
  BY <1>1 DEF LockInv, CallsKnown
<1>3. OneInfers'
  BY <1>1 DEF LockInv, OneInfers
<1>4. \A d \in VsCallers : vcall'[d].pc = "model" =>
            d # c /\ vcall'[d] = vcall[d] /\ vcall[d].s # vcall[c].s /\ vcall[d].s \in VsSessions
  BY <1>1 DEF LockInv, OneInfers, CallsKnown
<1>5. Reserved'
  <2>1. ASSUME NEW s \in VsSessions, s # vcall[c].s
        PROVE  InferenceLocked(s)' <=> InferenceLocked(s)
    <3>1. ASSUME NEW d \in VsCallers, vcall'[d].pc = "model", vcall'[d].s = s
          PROVE  vcall[d].pc = "model" /\ vcall[d].s = s
      BY <1>4, <3>1
    <3>2. ASSUME NEW d \in VsCallers, vcall[d].pc = "model", vcall[d].s = s
          PROVE  vcall'[d].pc = "model" /\ vcall'[d].s = s
      BY <1>1, <2>1, <3>2
    <3> QED BY <3>1, <3>2 DEF InferenceLocked
  <2>2. \A s \in VsSessions : s = vcall[c].s => ~InferenceLocked(s)'
    BY <1>4 DEF InferenceLocked
  <2>3. ASSUME NEW s \in VsSessions
        PROVE  vs'[s].reserved = IF InferenceLocked(s)' THEN 1 ELSE 0
    BY <2>1, <2>2, <2>3 DEF LockInv, Reserved
  <2> QED BY <2>3 DEF Reserved
<1>6. StillFresh'
  <2> SUFFICES ASSUME NEW d \in VsCallers, vcall'[d].pc = "model"
               PROVE  /\ vs'[vcall'[d].s].st \in {"open", "closing"}
                      /\ Fresh(vs'[vcall'[d].s].win[vcall'[d].kind], vcall'[d].req)
    BY DEF StillFresh
  <2>1. vcall'[d] = vcall[d] /\ vs'[vcall[d].s] = vs[vcall[d].s] /\ vcall[d].pc = "model"
    BY <1>4
  <2>2. /\ vs[vcall[d].s].st \in {"open", "closing"}
        /\ Fresh(vs[vcall[d].s].win[vcall[d].kind], vcall[d].req)
    BY <2>1 DEF LockInv, StillFresh
  <2> QED BY <2>1, <2>2
<1> QED BY <1>2, <1>3, <1>5, <1>6 DEF LockInv

\* The lock is taken.
LEMMA LockTakes ==
    ASSUME LockInv, VsTypeOK, NEW c \in VsCallers, vcall[c].pc = "lock",
           ~InferenceLocked(vcall[c].s), vs[vcall[c].s].st \in {"open", "closing"},
           Fresh(vs[vcall[c].s].win[vcall[c].kind], vcall[c].req),
           vcall'[c].pc = "model", vcall'[c].s = vcall[c].s, vcall'[c].kind = vcall[c].kind,
           vcall'[c].req = vcall[c].req, \A d \in VsCallers : d # c => vcall'[d] = vcall[d],
           vs'[vcall[c].s].reserved = vs[vcall[c].s].reserved + 1,
           \A s \in VsSessions : vs'[s].st = vs[s].st /\ vs'[s].win = vs[s].win,
           \A s \in VsSessions : s # vcall[c].s => vs'[s] = vs[s]
    PROVE  LockInv'
<1>1. vcall[c].s \in VsSessions
  BY DEF LockInv, CallsKnown
<1>2. CallsKnown'
  BY DEF LockInv, CallsKnown
<1>3. \A d \in VsCallers : vcall[d].pc = "model" => vcall[d].s # vcall[c].s
  BY DEF InferenceLocked
<1>4. OneInfers'
  BY <1>3 DEF LockInv, OneInfers
<1>5. Reserved'
  <2>1. ASSUME NEW s \in VsSessions, s # vcall[c].s
        PROVE  InferenceLocked(s)' <=> InferenceLocked(s)
    BY <2>1 DEF InferenceLocked
  <2>2. InferenceLocked(vcall[c].s)'
    BY DEF InferenceLocked
  <2>3. vs[vcall[c].s].reserved = 0
    BY <1>1 DEF LockInv, Reserved
  <2>4. ASSUME NEW s \in VsSessions
        PROVE  vs'[s].reserved = IF InferenceLocked(s)' THEN 1 ELSE 0
    BY <2>1, <2>2, <2>3, <2>4 DEF LockInv, Reserved
  <2> QED BY <2>4 DEF Reserved
<1>6. StillFresh'
  <2> SUFFICES ASSUME NEW d \in VsCallers, vcall'[d].pc = "model"
               PROVE  /\ vs'[vcall'[d].s].st \in {"open", "closing"}
                      /\ Fresh(vs'[vcall'[d].s].win[vcall'[d].kind], vcall'[d].req)
    BY DEF StillFresh
  <2>1. CASE d = c
    BY <1>1, <2>1
  <2>2. CASE d # c
    <3>1. vcall'[d] = vcall[d] /\ vcall[d].pc = "model"
      BY <2>2
    <3>2. vcall[d].s \in VsSessions
      BY <3>1 DEF LockInv, CallsKnown
    <3>3. /\ vs[vcall[d].s].st \in {"open", "closing"}
          /\ Fresh(vs[vcall[d].s].win[vcall[d].kind], vcall[d].req)
      BY <3>1 DEF LockInv, StillFresh
    <3> QED BY <3>1, <3>2, <3>3
  <2> QED BY <2>1, <2>2
<1> QED BY <1>2, <1>4, <1>5, <1>6 DEF LockInv

-----------------------------------------------------------------------------
(* Every step of a request or of a session keeps all that.                   *)
VsSound == VsTypeOK /\ LockInv /\ Answers
SessionTypes ==
    /\ vs \in [VsSessions -> VsStates] /\ vcall \in [VsCallers -> VsCalls]
    /\ answered \in [VsSessions -> [Kinds -> Seq(VsRequests)]]
Sound     == SessionTypes /\ LockInv /\ Answers
NoReport  == \A s \in VsSessions : SameUse(vs[s], vs'[s])
Elsewhere == UNCHANGED <<pending, sink, net, counted, life, vsfaults, dropped>>

\* What a session uses does not change by itself.
LEMMA SameIsUse ==
    ASSUME NEW v \in VsStates
    PROVE  SameUse(v, v)
<1>1. VsFits(v)
  BY VsIs
<1> QED BY <1>1 DEF SameUse, VsFits, UsedBy

\* What a session that is written means for all of them.
LEMMA WritesUse ==
    ASSUME VsTypeOK, NEW s \in VsSessions, NEW x \in VsStates, vs' = [vs EXCEPT ![s] = x],
           SameUse(vs[s], x)
    PROVE  NoReport
<1>1. vs'[s] = x /\ \A u \in VsSessions : u # s => vs'[u] = vs[u]
  BY VsMoves
<1>2. \A u \in VsSessions : vs[u] \in VsStates
  BY DEF VsTypeOK
<1> QED BY <1>1, <1>2, SameIsUse DEF NoReport

\* A step of a host that asks nothing.
LEMMA HostStep ==
    ASSUME VsAssumption, VsSound, NEW s \in VsSessions,
           \/ CreateSession(s) \/ PublishFrame(s) \/ SetTask(s) \/ RecordAttempt(s) \/ Read(s)
           \/ CloseSession(s) \/ Sweep(s)
    PROVE  Sound' /\ NoReport /\ Elsewhere
<1>1. VsTypeOK /\ LockInv /\ Answers
  BY DEF VsSound
<1>2. UNCHANGED vcall /\ Elsewhere
  BY DEF CreateSession, PublishFrame, SetTask, RecordAttempt, Read, CloseSession, Sweep,
         Elsewhere
<1>3. vcall' \in [VsCallers -> VsCalls]
  BY <1>1, <1>2 DEF VsTypeOK
<1>4. CASE ~SetTask(s)
  <2>1. PICK x \in VsStates : vs' = [vs EXCEPT ![s] = x] /\ Rests(vs[s], x)
    BY <1>1, <1>4, CreateMoves, FrameMoves, AttemptMoves, ReadMoves, CloseMoves
  <2>2. /\ vs' \in [VsSessions -> VsStates] /\ vs'[s] = x
        /\ \A u \in VsSessions : u # s => vs'[u] = vs[u]
    BY <1>1, <2>1, VsMoves
  <2>3. UNCHANGED answered
    BY <1>4 DEF CreateSession, PublishFrame, RecordAttempt, Read, CloseSession, Sweep
  <2>4. \A u \in VsSessions, k \in Kinds : AnswersMove(u, k)
    BY <2>1, <2>2, <2>3 DEF AnswersMove, Rests
  <2>5. LockInv'
    <3>1. \A u \in VsSessions :
             /\ vs'[u].reserved = vs[u].reserved
             /\ vs[u].st \in {"open", "closing"} => vs'[u].st \in {"open", "closing"}
             /\ \A k \in Kinds : vs'[u].win[k] \in {vs[u].win[k], Window}
      BY <2>1, <2>2 DEF Rests, SameLock
    <3> QED BY <1>1, <1>2, <3>1, LockKeeps
  <2>6. NoReport
    BY <1>1, <2>1, WritesUse DEF Rests
  <2>7. Answers'
    BY <1>1, <2>4, AnswersKept
  <2>8. SessionTypes'
    BY <1>1, <1>3, <2>2, <2>3 DEF SessionTypes, VsTypeOK
  <2> QED BY <1>2, <2>5, <2>6, <2>7, <2>8 DEF Sound
<1>5. CASE SetTask(s)
  <2>1. PICK x \in VsStates :
           /\ vs' = [vs EXCEPT ![s] = x] /\ SameUse(vs[s], x) /\ SameLock(vs[s], x)
           /\ x.win["decision"] = Window /\ x.win["perception"] = vs[s].win["perception"]
    BY <1>1, <1>5, TaskMoves
  <2>2. /\ vs' \in [VsSessions -> VsStates] /\ vs'[s] = x
        /\ \A u \in VsSessions : u # s => vs'[u] = vs[u]
    BY <1>1, <2>1, VsMoves
  <2>3. /\ answered' \in [VsSessions -> [Kinds -> Seq(VsRequests)]]
        /\ answered'[s]["decision"] = <<>>
        /\ answered'[s]["perception"] = answered[s]["perception"]
        /\ \A u \in VsSessions : u # s => answered'[u] = answered[u]
    <3>1. answered' = [answered EXCEPT ![s]["decision"] = <<>>]
      BY <1>5 DEF SetTask
    <3>2. answered \in [VsSessions -> [Kinds -> Seq(VsRequests)]]
      BY <1>1 DEF VsTypeOK
    <3> QED BY <3>1, <3>2 DEF Kinds
  <2>4. \A u \in VsSessions, k \in Kinds : AnswersMove(u, k)
    BY <2>1, <2>2, <2>3 DEF AnswersMove, Kinds
  <2>5. LockInv'
    <3>1. \A u \in VsSessions :
             /\ vs'[u].reserved = vs[u].reserved
             /\ vs[u].st \in {"open", "closing"} => vs'[u].st \in {"open", "closing"}
             /\ \A k \in Kinds : vs'[u].win[k] \in {vs[u].win[k], Window}
      BY <2>1, <2>2 DEF SameLock, Kinds
    <3> QED BY <1>1, <1>2, <3>1, LockKeeps
  <2>6. NoReport
    BY <1>1, <2>1, WritesUse
  <2>7. Answers'
    BY <1>1, <2>4, AnswersKept
  <2>8. SessionTypes'
    BY <1>3, <2>2, <2>3 DEF SessionTypes
  <2> QED BY <1>2, <2>5, <2>6, <2>7, <2>8 DEF Sound
<1> QED BY <1>4, <1>5

\* A call is over.
LEMMA CallEnds ==
    ASSUME VsTypeOK, NEW c \in VsCallers, vcall' = [vcall EXCEPT ![c] = NoCall]
    PROVE  /\ vcall' \in [VsCallers -> VsCalls] /\ vcall'[c].pc = "idle"
           /\ \A d \in VsCallers : d # c => vcall'[d] = vcall[d]
<1>1. NoCall \in VsCalls /\ NoCall.pc = "idle"
  BY DEF NoCall, VsCalls, Kinds, Goals
<1>2. vcall \in [VsCallers -> VsCalls]
  BY DEF VsTypeOK
<1> HIDE DEF NoCall
<1> QED BY <1>1, <1>2

\* r is answered.
AnswersAs(s, k, r) == answered' = [answered EXCEPT ![s][k] = Append(@, r)]

\* Nothing else changes of the answers.
LEMMA AnswerAdded ==
    ASSUME VsTypeOK, NEW s \in VsSessions, NEW k \in Kinds, NEW r \in VsRequests,
           AnswersAs(s, k, r)
    PROVE  /\ answered' \in [VsSessions -> [Kinds -> Seq(VsRequests)]]
           /\ answered'[s][k] = Append(answered[s][k], r)
           /\ \A u \in VsSessions, j \in Kinds :
                 u # s \/ j # k => answered'[u][j] = answered[u][j]
<1> DEFINE b == Append(answered[s][k], r)
           g == [answered[s] EXCEPT ![k] = b]
<1>1. answered' = [answered EXCEPT ![s] = g]
  BY ZenonT(60) DEF AnswersAs
<1>2. answered \in [VsSessions -> [Kinds -> Seq(VsRequests)]]
  BY DEF VsTypeOK
<1>3. b \in Seq(VsRequests)
  BY <1>2
<1> HIDE DEF b
<1>4. /\ g \in [Kinds -> Seq(VsRequests)] /\ g[k] = b
      /\ \A j \in Kinds : j # k => g[j] = answered[s][j]
  BY <1>2, <1>3
<1> HIDE DEF g
<1>5. /\ answered' \in [VsSessions -> [Kinds -> Seq(VsRequests)]]
      /\ answered'[s] = g /\ \A u \in VsSessions : u # s => answered'[u] = answered[u]
  BY <1>1, <1>2, <1>4
<1> QED BY <1>4, <1>5 DEF b

\* An answer that is given is remembered.
LEMMA AnswerMoves ==
    ASSUME VsTypeOK, NEW s \in VsSessions, NEW k \in Kinds, NEW r \in VsRequests,
           NEW x \in VsStates, vs' = [vs EXCEPT ![s] = x], Given(vs[s], x, k, r),
           Fresh(vs[s].win[k], r), AnswersAs(s, k, r)
    PROVE  /\ answered' \in [VsSessions -> [Kinds -> Seq(VsRequests)]]
           /\ \A u \in VsSessions, j \in Kinds : AnswersMove(u, j)
<1>1. vs'[s] = x /\ \A u \in VsSessions : u # s => vs'[u] = vs[u]
  BY VsMoves
<1>2. /\ answered' \in [VsSessions -> [Kinds -> Seq(VsRequests)]]
      /\ answered'[s][k] = Append(answered[s][k], r)
      /\ \A u \in VsSessions, j \in Kinds :
            u # s \/ j # k => answered'[u][j] = answered[u][j]
  BY AnswerAdded, Zenon
<1>3. AnswersMove(s, k)
  BY <1>1, <1>2, Zenon DEF AnswersMove, Given
<1>4. ASSUME NEW u \in VsSessions, NEW j \in Kinds, u # s \/ j # k PROVE AnswersMove(u, j)
  BY <1>1, <1>2, <1>4, Zenon DEF AnswersMove, Given
<1> QED BY <1>2, <1>3, <1>4, Zenon

\* A request is of a session, and has an id.
LEMMA CallIs ==
    ASSUME VsTypeOK, LockInv, NEW c \in VsCallers, vcall[c].pc # "idle"
    PROVE  vcall[c].s \in VsSessions /\ vcall[c].kind \in Kinds /\ vcall[c].req \in VsRequests
  BY DEF LockInv, CallsKnown, VsTypeOK, VsCalls

\* A request comes.
LEMMA AskStep ==
    ASSUME VsAssumption, VsSound, NEW c \in VsCallers, Ask(c)
    PROVE  Sound' /\ NoReport /\ Elsewhere
<1>1. VsTypeOK /\ LockInv /\ Answers
  BY DEF VsSound
<1>2. UNCHANGED <<vs, answered>> /\ Elsewhere /\ vcall[c].pc = "idle"
  BY DEF Ask, Elsewhere
<1>3. PICK s \in VsSessions, k \in Kinds, r \in VsRequests :
         vcall' = [vcall EXCEPT ![c] = [NoCall EXCEPT !.pc = "lock", !.s = s, !.kind = k,
                                                      !.req = r]]
  BY DEF Ask
<1> DEFINE x == [NoCall EXCEPT !.pc = "lock", !.s = s, !.kind = k, !.req = r]
<1>4. x \in VsCalls /\ x.pc = "lock" /\ x.s = s /\ x.req = r
  BY DEF NoCall, VsCalls, Kinds, Goals
<1> HIDE DEF x
<1>5. /\ vcall' \in [VsCallers -> VsCalls] /\ vcall'[c] = x
      /\ \A d \in VsCallers : d # c => vcall'[d] = vcall[d]
  <2>1. vcall' = [vcall EXCEPT ![c] = x] /\ vcall \in [VsCallers -> VsCalls]
    BY <1>1, <1>3 DEF x, VsTypeOK
  <2> QED BY <1>4, <2>1
<1>6. LockInv'
  <2>1. \A d \in VsCallers :
           \/ vcall'[d] = vcall[d]
           \/ /\ vcall[d].pc # "model" /\ vcall'[d].pc # "model"
              /\ vcall'[d].pc # "idle" => vcall'[d].s \in VsSessions /\ vcall'[d].req \in VsRequests
    BY <1>2, <1>4, <1>5
  <2> QED BY <1>1, <1>2, <2>1, LockKeeps
<1>7. \A u \in VsSessions, j \in Kinds : AnswersMove(u, j)
  BY <1>2 DEF AnswersMove
<1>8. Answers'
  BY <1>1, <1>7, AnswersKept
<1>9. SessionTypes' /\ NoReport
  BY <1>1, <1>2, <1>5, SameIsUse DEF SessionTypes, VsTypeOK, NoReport
<1> QED BY <1>2, <1>6, <1>8, <1>9 DEF Sound

\* A request that did not infer is over, and says what was answered.
LEMMA ShortCall ==
    ASSUME VsAssumption, VsSound, NEW c \in VsCallers, vcall[c].pc = "lock",
           vcall' = [vcall EXCEPT ![c] = NoCall],
           NEW x \in VsStates, ~InferenceLocked(vcall[c].s),
           vs' = [vs EXCEPT ![vcall[c].s] = x], SameUse(vs[vcall[c].s], x),
           SameLock(vs[vcall[c].s], x),
           answered' \in [VsSessions -> [Kinds -> Seq(VsRequests)]],
           \A u \in VsSessions, j \in Kinds : AnswersMove(u, j), Elsewhere
    PROVE  Sound' /\ NoReport /\ Elsewhere
<1>1. VsTypeOK /\ LockInv /\ Answers
  BY DEF VsSound
<1>2. PICK s \in VsSessions : s = vcall[c].s
  BY <1>1, CallIs
<1>3. /\ vs' \in [VsSessions -> VsStates] /\ vs'[s] = x
      /\ \A u \in VsSessions : u # s => vs'[u] = vs[u]
  BY <1>1, <1>2, VsMoves
<1>4. /\ vcall' \in [VsCallers -> VsCalls] /\ vcall'[c].pc = "idle"
      /\ \A d \in VsCallers : d # c => vcall'[d] = vcall[d]
  BY <1>1, CallEnds
<1>5. LockInv'
  <2>1. \A d \in VsCallers :
           \/ vcall'[d] = vcall[d]
           \/ /\ vcall[d].pc # "model" /\ vcall'[d].pc # "model"
              /\ vcall'[d].pc # "idle" => vcall'[d].s \in VsSessions /\ vcall'[d].req \in VsRequests
    BY <1>4
  <2>2. \A u \in VsSessions :
           /\ vs'[u].reserved = vs[u].reserved
           /\ InferenceLocked(u) =>
                 /\ vs[u].st \in {"open", "closing"} => vs'[u].st \in {"open", "closing"}
                 /\ \A k \in Kinds : vs'[u].win[k] \in {vs[u].win[k], Window}
    BY <1>2, <1>3 DEF SameLock
  <2> QED BY <1>1, <2>1, <2>2, LockKeeps
<1>6. Answers'
  BY <1>1, AnswersKept
<1>7. NoReport
  BY <1>1, <1>2, WritesUse
<1> QED BY <1>3, <1>4, <1>5, <1>6, <1>7 DEF Sound, SessionTypes

\* It gives an answer again.
LEMMA ReplayedStep ==
    ASSUME VsAssumption, VsSound, NEW c \in VsCallers, Replayed(c)
    PROVE  Sound' /\ NoReport /\ Elsewhere
<1>1. VsTypeOK /\ LockInv /\ Answers /\ vcall[c].pc = "lock"
  BY DEF VsSound, Replayed, EnterAt
<1>2. PICK s \in VsSessions, k \in Kinds : s = vcall[c].s /\ k = vcall[c].kind
  BY <1>1, CallIs
<1>3. /\ vcall' = [vcall EXCEPT ![c] = NoCall] /\ UNCHANGED answered /\ Elsewhere
      /\ ~InferenceLocked(s)
  BY <1>2 DEF Replayed, Elsewhere, EnterAt
<1>4. PICK i \in DOMAIN vs[s].win[k].replay : ReplaysAs(s, k, i)
  <2>1. PICK i \in DOMAIN vs[s].win[k].replay :
           /\ vs[s].win[k].replay[i] = vcall[c].req
           /\ vs' = [vs EXCEPT ![s].win[k].replay = Append(Without(@, i), vcall[c].req)]
    BY <1>2, Zenon DEF Replayed
  <2> QED BY <2>1, Zenon DEF ReplaysAs
<1>5. PICK x \in VsStates :
         /\ vs' = [vs EXCEPT ![s] = x] /\ SameUse(vs[s], x) /\ SameLock(vs[s], x)
         /\ Again(vs[s], x, k, i)
  BY <1>1, <1>4, ReplayMoves, Zenon
<1>6. vs'[s] = x /\ \A u \in VsSessions : u # s => vs'[u] = vs[u]
  BY <1>1, <1>5, VsMoves
<1>7. \A u \in VsSessions, j \in Kinds : AnswersMove(u, j)
  BY <1>3, <1>5, <1>6, ZenonT(60) DEF AnswersMove, Again
<1>8. answered' \in [VsSessions -> [Kinds -> Seq(VsRequests)]]
  BY <1>1, <1>3 DEF VsTypeOK
<1> QED BY <1>1, <1>2, <1>3, <1>5, <1>7, <1>8, ShortCall, Zenon

\* It is refused.
LEMMA AskRefusedStep ==
    ASSUME VsAssumption, VsSound, NEW c \in VsCallers, AskRefused(c)
    PROVE  Sound' /\ NoReport /\ Elsewhere
<1>1. VsTypeOK /\ LockInv /\ Answers /\ vcall[c].pc = "lock"
  BY DEF VsSound, AskRefused, EnterAt
<1>2. PICK s \in VsSessions : s = vcall[c].s
  BY <1>1, CallIs
<1>3. /\ vcall' = [vcall EXCEPT ![c] = NoCall] /\ UNCHANGED <<vs, answered>> /\ Elsewhere
      /\ ~InferenceLocked(s)
  BY <1>2 DEF AskRefused, Elsewhere, EnterAt
<1>4. vs[s] \in VsStates /\ vs' = [vs EXCEPT ![s] = vs[s]]
  BY <1>1, <1>3 DEF VsTypeOK
<1>5. SameUse(vs[s], vs[s]) /\ SameLock(vs[s], vs[s])
  BY <1>4, SameIsUse DEF SameLock
<1>6. \A u \in VsSessions, j \in Kinds : AnswersMove(u, j)
  BY <1>3 DEF AnswersMove
<1>7. answered' \in [VsSessions -> [Kinds -> Seq(VsRequests)]]
  BY <1>1, <1>3 DEF VsTypeOK
<1> QED BY <1>1, <1>2, <1>3, <1>4, <1>5, <1>6, <1>7, ShortCall, Zenon

\* It gives what was seen on a still screen.
LEMMA ReusedStep ==
    ASSUME VsAssumption, VsSound, NEW c \in VsCallers, Reused(c)
    PROVE  Sound' /\ NoReport /\ Elsewhere
<1>1. VsTypeOK /\ LockInv /\ Answers /\ vcall[c].pc = "lock"
  BY DEF VsSound, Reused, EnterAt
<1>2. PICK s \in VsSessions, k \in Kinds, r \in VsRequests :
         s = vcall[c].s /\ k = vcall[c].kind /\ r = vcall[c].req
  BY <1>1, CallIs
<1>3. /\ vcall' = [vcall EXCEPT ![c] = NoCall] /\ Elsewhere /\ ~InferenceLocked(s)
      /\ vs[s].st # "closed" /\ Fresh(vs[s].win[k], r)
  BY <1>2 DEF Reused, Elsewhere, EnterAt, Reachable
<1>4. AnswersAs(s, k, r) /\ ReusesAs(s, k, r)
  BY <1>2, Zenon DEF Reused, AnswersAs, ReusesAs
<1>5. PICK x \in VsStates :
         /\ vs' = [vs EXCEPT ![s] = x] /\ SameUse(vs[s], x) /\ SameLock(vs[s], x)
         /\ Given(vs[s], x, k, r)
  BY <1>1, <1>3, <1>4, ReuseMoves, Zenon
<1>6. /\ answered' \in [VsSessions -> [Kinds -> Seq(VsRequests)]]
      /\ \A u \in VsSessions, j \in Kinds : AnswersMove(u, j)
  BY <1>1, <1>3, <1>4, <1>5, AnswerMoves, Zenon
<1> QED BY <1>1, <1>2, <1>3, <1>5, <1>6, ShortCall, Zenon

\* It begins an inference.
LEMMA ReserveStep ==
    ASSUME VsAssumption, VsSound, NEW c \in VsCallers, Reserve(c)
    PROVE  Sound' /\ NoReport /\ Elsewhere
<1>1. VsTypeOK /\ LockInv /\ Answers /\ vcall[c].pc = "lock"
  BY DEF VsSound, Reserve, EnterAt
<1>2. PICK s \in VsSessions, k \in Kinds : s = vcall[c].s /\ k = vcall[c].kind
  BY <1>1, CallIs
<1>3. /\ UNCHANGED answered /\ Elsewhere /\ ~InferenceLocked(s)
      /\ vs[s].st \in {"open", "closing"} /\ Fresh(vs[s].win[k], vcall[c].req)
  BY <1>2 DEF Reserve, Elsewhere, EnterAt, Reachable
<1>4. ReservesAs(s)
  BY <1>2, Zenon DEF Reserve, ReservesAs
<1>5. PICK x \in VsStates :
         /\ vs' = [vs EXCEPT ![s] = x] /\ SameUse(vs[s], x) /\ x.win = vs[s].win
         /\ x.reserved = vs[s].reserved + 1 /\ x.st = vs[s].st
  BY <1>1, <1>4, ReserveMoves, Zenon
<1>6. /\ vs' \in [VsSessions -> VsStates] /\ vs'[s] = x
      /\ \A u \in VsSessions : u # s => vs'[u] = vs[u]
  BY <1>1, <1>5, VsMoves
<1> DEFINE y == [vcall[c] EXCEPT !.pc = "model", !.frame = vs[s].frames, !.goal = vs[s].goal,
                                 !.seen = {vs[s].look} \cap Looks]
<1>7. vcall' = [vcall EXCEPT ![c] = y]
  BY <1>2, Zenon DEF Reserve
<1>8. /\ y \in VsCalls /\ y.pc = "model" /\ y.s = s /\ y.kind = k /\ y.req = vcall[c].req
  <2>1. vcall[c] \in VsCalls /\ vs[s].frames \in Nat /\ vs[s].goal \in Goals
    BY <1>1, VsHas DEF VsFits, VsTypeOK
  <2> QED BY <1>2, <2>1 DEF VsCalls
<1> HIDE DEF y
<1>9. /\ vcall' \in [VsCallers -> VsCalls] /\ vcall'[c] = y
      /\ \A d \in VsCallers : d # c => vcall'[d] = vcall[d]
  <2>1. vcall \in [VsCallers -> VsCalls]
    BY <1>1 DEF VsTypeOK
  <2> QED BY <1>7, <1>8, <2>1
<1>10. LockInv'
  <2>1. \A u \in VsSessions : vs'[u].st = vs[u].st /\ vs'[u].win = vs[u].win
    BY <1>5, <1>6
  <2>2. /\ vcall[c].pc = "lock" /\ ~InferenceLocked(vcall[c].s)
        /\ vs[vcall[c].s].st \in {"open", "closing"}
        /\ Fresh(vs[vcall[c].s].win[vcall[c].kind], vcall[c].req)
    BY <1>1, <1>2, <1>3, Zenon
  <2>3. /\ vcall'[c].pc = "model" /\ vcall'[c].s = vcall[c].s
        /\ vcall'[c].kind = vcall[c].kind /\ vcall'[c].req = vcall[c].req
        /\ \A d \in VsCallers : d # c => vcall'[d] = vcall[d]
    BY <1>2, <1>8, <1>9, Zenon
  <2>4. /\ vs'[vcall[c].s].reserved = vs[vcall[c].s].reserved + 1
        /\ \A u \in VsSessions : u # vcall[c].s => vs'[u] = vs[u]
    BY <1>2, <1>5, <1>6
  <2> QED BY <1>1, <2>1, <2>2, <2>3, <2>4, LockTakes, Zenon
<1>11. \A u \in VsSessions, j \in Kinds : AnswersMove(u, j)
  BY <1>3, <1>5, <1>6 DEF AnswersMove
<1>12. Answers'
  BY <1>1, <1>11, AnswersKept
<1>13. NoReport
  BY <1>1, <1>5, WritesUse
<1>14. SessionTypes'
  BY <1>1, <1>3, <1>6, <1>9 DEF SessionTypes, VsTypeOK
<1> QED BY <1>3, <1>10, <1>12, <1>13, <1>14 DEF Sound

\* An inference is over.
LEMMA LongCall ==
    ASSUME VsAssumption, VsSound, NEW c \in VsCallers, vcall[c].pc = "model",
           vcall' = [vcall EXCEPT ![c] = NoCall], NEW x \in VsStates,
           vs' = [vs EXCEPT ![vcall[c].s] = x], SameUse(vs[vcall[c].s], x),
           Frees(vs[vcall[c].s], x),
           answered' \in [VsSessions -> [Kinds -> Seq(VsRequests)]],
           \A u \in VsSessions, j \in Kinds : AnswersMove(u, j), Elsewhere
    PROVE  Sound' /\ NoReport /\ Elsewhere
<1>1. VsTypeOK /\ LockInv /\ Answers
  BY DEF VsSound
<1>2. PICK s \in VsSessions : s = vcall[c].s
  BY <1>1, CallIs
<1>3. /\ vs' \in [VsSessions -> VsStates] /\ vs'[s] = x
      /\ \A u \in VsSessions : u # s => vs'[u] = vs[u]
  BY <1>1, <1>2, VsMoves
<1>4. vcall' \in [VsCallers -> VsCalls]
  BY <1>1, CallEnds
<1>5. LockInv'
  BY <1>1, <1>2, <1>3, LockFrees DEF Frees
<1>6. Answers'
  BY <1>1, AnswersKept
<1>7. NoReport
  BY <1>1, <1>2, WritesUse
<1> QED BY <1>3, <1>4, <1>5, <1>6, <1>7 DEF Sound, SessionTypes

\* Who infers has reserved, for a session that is there and an id that was not given.
LEMMA Infers ==
    ASSUME VsTypeOK, LockInv, NEW c \in VsCallers, vcall[c].pc = "model"
    PROVE  /\ vs[vcall[c].s].reserved = 1 /\ vs[vcall[c].s].st # "closed"
           /\ Fresh(vs[vcall[c].s].win[vcall[c].kind], vcall[c].req)
           /\ vcall[c].goal \in Goals /\ vcall[c].seen \in SUBSET Looks
<1>1. vcall[c].s \in VsSessions /\ InferenceLocked(vcall[c].s)
  BY DEF LockInv, CallsKnown, InferenceLocked
<1>2. vs[vcall[c].s].reserved = 1
  BY <1>1 DEF LockInv, Reserved
<1>3. /\ vs[vcall[c].s].st # "closed"
      /\ Fresh(vs[vcall[c].s].win[vcall[c].kind], vcall[c].req)
  BY DEF LockInv, StillFresh
<1>4. vcall[c].goal \in Goals /\ vcall[c].seen \in SUBSET Looks
  BY DEF VsTypeOK, VsCalls
<1> QED BY <1>2, <1>3, <1>4

\* It gives nothing.
LEMMA RefusedCall ==
    ASSUME VsAssumption, VsSound, NEW c \in VsCallers, vcall[c].pc = "model",
           vcall' = [vcall EXCEPT ![c] = NoCall], RefusesAs(vcall[c].s) \/ SpoilsAs(vcall[c].s),
           UNCHANGED answered, Elsewhere
    PROVE  Sound' /\ NoReport /\ Elsewhere
<1>1. VsTypeOK /\ LockInv
  BY DEF VsSound
<1>2. PICK s \in VsSessions : s = vcall[c].s
  BY <1>1, CallIs
<1>3. vs[s].reserved = 1 /\ vs[s].st # "closed"
  BY <1>1, <1>2, Infers
<1>4. PICK x \in VsStates :
         /\ vs' = [vs EXCEPT ![s] = x]
         /\ SameUse(vs[s], x) /\ Frees(vs[s], x) /\ x.win = vs[s].win
  BY <1>1, <1>2, <1>3, RefuseMoves, SpoilMoves, Zenon
<1>5. vs'[s] = x /\ \A u \in VsSessions : u # s => vs'[u] = vs[u]
  BY <1>1, <1>4, VsMoves
<1>6. \A u \in VsSessions, j \in Kinds : AnswersMove(u, j)
  BY <1>4, <1>5 DEF AnswersMove
<1>7. answered' \in [VsSessions -> [Kinds -> Seq(VsRequests)]]
  BY <1>1 DEF VsTypeOK
<1> QED BY <1>2, <1>4, <1>6, <1>7, LongCall, Zenon

\* The model refuses.
LEMMA ModelRefusesStep ==
    ASSUME VsAssumption, VsSound, NEW c \in VsCallers, ModelRefuses(c)
    PROVE  Sound' /\ NoReport /\ Elsewhere
<1>1. /\ vcall[c].pc = "model" /\ vcall' = [vcall EXCEPT ![c] = NoCall] /\ UNCHANGED answered
      /\ Elsewhere
  BY Zenon DEF ModelRefuses, Elsewhere
<1>2. RefusesAs(vcall[c].s)
  BY Zenon DEF ModelRefuses, RefusesAs
<1> QED BY <1>1, <1>2, RefusedCall, Zenon

\* Its decision is not given.
LEMMA SpoiledStep ==
    ASSUME VsAssumption, VsSound, NEW c \in VsCallers, Spoiled(c)
    PROVE  Sound' /\ NoReport /\ Elsewhere
<1>1. /\ vcall[c].pc = "model" /\ vcall' = [vcall EXCEPT ![c] = NoCall] /\ UNCHANGED answered
      /\ Elsewhere
  BY Zenon DEF Spoiled, Elsewhere
<1>2. SpoilsAs(vcall[c].s)
  BY Zenon DEF Spoiled, SpoilsAs
<1> QED BY <1>1, <1>2, RefusedCall, Zenon

\* It decides.
LEMMA DecidedStep ==
    ASSUME VsAssumption, VsSound, NEW c \in VsCallers, Decided(c)
    PROVE  Sound' /\ NoReport /\ Elsewhere
<1>1. VsTypeOK /\ LockInv
  BY DEF VsSound
<1>2. /\ vcall[c].pc = "model" /\ vcall' = [vcall EXCEPT ![c] = NoCall] /\ Elsewhere
      /\ vcall[c].kind = "decision"
  BY Zenon DEF Decided, Elsewhere
<1>3. PICK s \in VsSessions, k \in Kinds, r \in VsRequests :
         s = vcall[c].s /\ k = vcall[c].kind /\ r = vcall[c].req
  BY <1>1, <1>2, CallIs
<1>4. AnswersAs(s, k, r) /\ DecidesAs(s, k, r, vcall[c].goal)
  BY <1>2, <1>3, Zenon DEF Decided, DecidesAs, AnswersAs
<1>5. /\ vs[s].reserved = 1 /\ vs[s].st # "closed" /\ Fresh(vs[s].win[k], r)
      /\ vcall[c].goal \in Goals
  BY <1>1, <1>2, <1>3, Infers
<1>6. PICK x \in VsStates :
         /\ vs' = [vs EXCEPT ![s] = x] /\ SameUse(vs[s], x) /\ Frees(vs[s], x)
         /\ Given(vs[s], x, k, r)
  BY <1>1, <1>4, <1>5, DecideMoves, Zenon
<1>7. /\ answered' \in [VsSessions -> [Kinds -> Seq(VsRequests)]]
      /\ \A u \in VsSessions, j \in Kinds : AnswersMove(u, j)
  BY <1>1, <1>4, <1>5, <1>6, AnswerMoves, Zenon
<1> QED BY <1>2, <1>3, <1>6, <1>7, LongCall, Zenon

\* It perceives.
LEMMA PerceivedStep ==
    ASSUME VsAssumption, VsSound, NEW c \in VsCallers, Perceived(c)
    PROVE  Sound' /\ NoReport /\ Elsewhere
<1>1. VsTypeOK /\ LockInv
  BY DEF VsSound
<1>2. /\ vcall[c].pc = "model" /\ vcall' = [vcall EXCEPT ![c] = NoCall] /\ Elsewhere
      /\ vcall[c].kind = "perception"
  BY Zenon DEF Perceived, Elsewhere
<1>3. PICK s \in VsSessions, k \in Kinds, r \in VsRequests :
         s = vcall[c].s /\ k = vcall[c].kind /\ r = vcall[c].req
  BY <1>1, <1>2, CallIs
<1>4. AnswersAs(s, k, r) /\ PerceivesAs(s, k, r, vcall[c].seen)
  BY <1>2, <1>3, Zenon DEF Perceived, PerceivesAs, AnswersAs
<1>5. /\ vs[s].reserved = 1 /\ vs[s].st # "closed" /\ Fresh(vs[s].win[k], r)
      /\ vcall[c].seen \in SUBSET Looks
  BY <1>1, <1>2, <1>3, Infers
<1>6. PICK x \in VsStates :
         /\ vs' = [vs EXCEPT ![s] = x] /\ SameUse(vs[s], x) /\ Frees(vs[s], x)
         /\ Given(vs[s], x, k, r)
  BY <1>1, <1>4, <1>5, PerceiveMoves, Zenon
<1>7. /\ answered' \in [VsSessions -> [Kinds -> Seq(VsRequests)]]
      /\ \A u \in VsSessions, j \in Kinds : AnswersMove(u, j)
  BY <1>1, <1>4, <1>5, <1>6, AnswerMoves, Zenon
<1> QED BY <1>2, <1>3, <1>6, <1>7, LongCall, Zenon

\* What holds of requests and sessions does not depend on the reports.
LEMMA ElsewhereSound ==
    ASSUME VsSound, UNCHANGED <<vs, vcall, answered>>
    PROVE  Sound' /\ NoReport
<1>1. VsTypeOK /\ LockInv /\ Answers
  BY DEF VsSound
<1>2. SessionTypes' /\ NoReport
  BY <1>1, SameIsUse DEF SessionTypes, VsTypeOK, NoReport
<1>3. LockInv' /\ Answers'
  BY <1>1 DEF LockInv, CallsKnown, Reserved, OneInfers, StillFresh, InferenceLocked, Answers
<1> QED BY <1>2, <1>3 DEF Sound

\* The use of a session, and of no other, is reported.
ReportsOnce(s) ==
    Reported(vs[s], vs'[s]) /\ \A u \in VsSessions : u # s => SameUse(vs[u], vs'[u])

\* A session is closed for good, once nobody infers for it.
LEMMA FinishStep ==
    ASSUME VsAssumption, VsSound, NEW s \in VsSessions, FinishClose(s)
    PROVE  Sound' /\ ReportsOnce(s)
<1>1. VsTypeOK /\ LockInv /\ Answers
  BY DEF VsSound
<1>2. UNCHANGED vcall /\ ~InferenceLocked(s)
  BY DEF FinishClose
<1>3. FinishesAs(s)
  BY Zenon DEF FinishClose, FinishesAs
<1>4. PICK x \in VsStates :
         /\ vs' = [vs EXCEPT ![s] = x]
         /\ Reported(vs[s], x) /\ x.reserved = vs[s].reserved /\ x.st = "closed"
         /\ \A k \in Kinds : x.win[k] = Window
  BY <1>1, <1>3, FinishMoves, Zenon
<1>5. /\ vs' \in [VsSessions -> VsStates] /\ vs'[s] = x
      /\ \A u \in VsSessions : u # s => vs'[u] = vs[u]
  BY <1>1, <1>4, VsMoves
<1>6. /\ answered' \in [VsSessions -> [Kinds -> Seq(VsRequests)]]
      /\ \A k \in Kinds : answered'[s][k] = <<>>
      /\ \A u \in VsSessions : u # s => answered'[u] = answered[u]
  <2> DEFINE e == [k \in Kinds |-> <<>>]
  <2>1. answered' = [answered EXCEPT ![s] = e]
    BY DEF FinishClose
  <2>2. answered \in [VsSessions -> [Kinds -> Seq(VsRequests)]]
    BY <1>1 DEF VsTypeOK
  <2>3. e \in [Kinds -> Seq(VsRequests)] /\ \A k \in Kinds : e[k] = <<>>
    OBVIOUS
  <2> HIDE DEF e
  <2> QED BY <2>1, <2>2, <2>3
<1>7. \A u \in VsSessions, k \in Kinds : AnswersMove(u, k)
  BY <1>4, <1>5, <1>6 DEF AnswersMove
<1>8. Answers'
  BY <1>1, <1>7, AnswersKept
<1>9. LockInv'
  <2>1. \A u \in VsSessions :
           /\ vs'[u].reserved = vs[u].reserved
           /\ InferenceLocked(u) =>
                 /\ vs[u].st \in {"open", "closing"} => vs'[u].st \in {"open", "closing"}
                 /\ \A k \in Kinds : vs'[u].win[k] \in {vs[u].win[k], Window}
    BY <1>2, <1>4, <1>5
  <2> QED BY <1>1, <1>2, <2>1, LockKeeps
<1>10. SessionTypes'
  BY <1>1, <1>2, <1>5, <1>6 DEF SessionTypes, VsTypeOK
<1>11. \A u \in VsSessions : vs[u] \in VsStates
  BY <1>1 DEF VsTypeOK
<1>12. ReportsOnce(s)
  BY <1>4, <1>5, <1>11, SameIsUse DEF ReportsOnce
<1> QED BY <1>8, <1>9, <1>10, <1>12 DEF Sound

\* The sink collects what a session used.
LEMMA CollectStep ==
    ASSUME VsAssumption, VsSound, NEW s \in VsSessions, vs' = Reports(s),
           UNCHANGED <<vcall, answered>>
    PROVE  Sound' /\ ReportsOnce(s)
<1>1. VsTypeOK /\ LockInv /\ Answers
  BY DEF VsSound
<1>2. PICK x \in VsStates :
         /\ vs' = [vs EXCEPT ![s] = x]
         /\ Reported(vs[s], x) /\ SameLock(vs[s], x) /\ x.win = vs[s].win /\ x.st = vs[s].st
  BY <1>1, CollectMoves, Zenon
<1>3. /\ vs' \in [VsSessions -> VsStates] /\ vs'[s] = x
      /\ \A u \in VsSessions : u # s => vs'[u] = vs[u]
  BY <1>1, <1>2, VsMoves
<1>4. \A u \in VsSessions, k \in Kinds : AnswersMove(u, k)
  BY <1>2, <1>3 DEF AnswersMove
<1>5. Answers'
  BY <1>1, <1>4, AnswersKept
<1>6. LockInv'
  <2>1. \A u \in VsSessions :
           /\ vs'[u].reserved = vs[u].reserved
           /\ InferenceLocked(u) =>
                 /\ vs[u].st \in {"open", "closing"} => vs'[u].st \in {"open", "closing"}
                 /\ \A k \in Kinds : vs'[u].win[k] \in {vs[u].win[k], Window}
    BY <1>2, <1>3 DEF SameLock
  <2> QED BY <1>1, <2>1, LockKeeps
<1>7. SessionTypes'
  BY <1>1, <1>3 DEF SessionTypes, VsTypeOK
<1>8. \A u \in VsSessions : vs[u] \in VsStates
  BY <1>1 DEF VsTypeOK
<1>9. ReportsOnce(s)
  BY <1>2, <1>3, <1>8, SameIsUse DEF ReportsOnce
<1> QED BY <1>5, <1>6, <1>7, <1>9 DEF Sound

-----------------------------------------------------------------------------
(* What is in a queue.                                                       *)

\* One more at the end.
LEMMA ItemsAppend ==
    ASSUME NEW S, NEW q \in Seq(S), NEW r \in S
    PROVE  Append(q, r) \in Seq(S) /\ Items(Append(q, r)) = Items(q) \cup {r}
<1> DEFINE b == Append(q, r)
<1>1. /\ b \in Seq(S) /\ DOMAIN b = 1..(Len(q) + 1) /\ DOMAIN q = 1..Len(q) /\ Len(q) \in Nat
      /\ b[Len(q) + 1] = r /\ \A i \in 1..Len(q) : b[i] = q[i]
  OBVIOUS
<1> HIDE DEF b
<1>2. DOMAIN b = DOMAIN q \cup {Len(q) + 1}
  BY <1>1
<1>3. Items(b) = Items(q) \cup {r}
  BY <1>1, <1>2 DEF Items
<1> QED BY <1>1, <1>3 DEF b

\* Two in a row.
LEMMA ItemsConcat ==
    ASSUME NEW S, NEW p \in Seq(S), NEW q \in Seq(S)
    PROVE  p \o q \in Seq(S) /\ Items(p \o q) = Items(p) \cup Items(q)
<1> DEFINE b == p \o q
<1>1. /\ b \in Seq(S) /\ Len(b) = Len(p) + Len(q) /\ Len(p) \in Nat /\ Len(q) \in Nat
      /\ DOMAIN b = 1..Len(b) /\ DOMAIN p = 1..Len(p) /\ DOMAIN q = 1..Len(q)
      /\ \A i \in 1..Len(b) : b[i] = IF i <= Len(p) THEN p[i] ELSE q[i - Len(p)]
  BY ConcatProperties
<1> HIDE DEF b
<1>2. ASSUME NEW i \in DOMAIN b PROVE b[i] \in Items(p) \cup Items(q)
  <2>1. CASE i <= Len(p)
    BY <1>1, <2>1 DEF Items
  <2>2. CASE i > Len(p)
    <3>1. i - Len(p) \in DOMAIN q /\ b[i] = q[i - Len(p)]
      BY <1>1, <2>2
    <3> QED BY <3>1 DEF Items
  <2> QED BY <1>1, <2>1, <2>2
<1>3. \A i \in DOMAIN p : i \in DOMAIN b /\ b[i] = p[i]
  BY <1>1
<1>4. \A i \in DOMAIN q : i + Len(p) \in DOMAIN b /\ b[i + Len(p)] = q[i]
  BY <1>1
<1>5. Items(b) = Items(p) \cup Items(q)
  BY <1>2, <1>3, <1>4 DEF Items
<1> QED BY <1>1, <1>5 DEF b

\* What is kept of a queue, and what falls out of it, is what was in it.
LEMMA KeptIs ==
    ASSUME VsAssumption, NEW S, NEW q \in Seq(S)
    PROVE  Kept(q) \in Seq(S) /\ Items(Kept(q)) \cup Fallen(q) = Items(q)
<1>1. MaxQueue \in Nat \ {0}
  BY DEF VsAssumption
<1>2. /\ Kept(q) \in Seq(S)
      /\ \A i \in DOMAIN Kept(q) :
            /\ i + Len(q) - Len(Kept(q)) \in DOMAIN q
            /\ Kept(q)[i] = q[i + Len(q) - Len(Kept(q))]
  BY <1>1, NewestIs DEF Kept
<1>3. Items(Kept(q)) \subseteq Items(q)
  BY <1>2 DEF Items
<1> QED BY <1>2, <1>3 DEF Fallen

\* A queue is its head and the rest.
LEMMA ItemsSplit ==
    ASSUME NEW S, NEW q \in Seq(S), NEW n \in 0..Len(q)
    PROVE  /\ SubSeq(q, 1, n) \in Seq(S) /\ SubSeq(q, n + 1, Len(q)) \in Seq(S)
           /\ Len(SubSeq(q, 1, n)) = n
           /\ Items(SubSeq(q, 1, n)) \cup Items(SubSeq(q, n + 1, Len(q))) = Items(q)
<1> DEFINE h == SubSeq(q, 1, n)
           t == SubSeq(q, n + 1, Len(q))
<1>1. Len(q) \in Nat /\ n \in Nat /\ n <= Len(q) /\ \A i \in 1..Len(q) : q[i] \in S
  OBVIOUS
<1>2. h \in Seq(S) /\ Len(h) = n
  BY <1>1, SubSeqProperties
<1>3. t \in Seq(S)
  <2>1. \A i \in n + 1..Len(q) : q[i] \in S
    BY <1>1
  <2> QED BY <1>1, <2>1, SubSeqProperties
<1>4. h \o t = q
  <2>1. 1 \in 1..Len(q) + 1 /\ n \in 1 - 1..Len(q) /\ Len(q) \in n..Len(q)
    BY <1>1
  <2>2. h \o t = SubSeq(q, 1, Len(q))
    BY <2>1, ConcatAdjacentSubSeq
  <2> QED BY <2>2, SubSeqFull
<1> HIDE DEF h, t
<1>5. Items(h) \cup Items(t) = Items(q)
  <2>1. Items(h \o t) = Items(h) \cup Items(t)
    BY <1>2, <1>3, ItemsConcat
  <2> QED BY <1>4, <2>1
<1> QED BY <1>2, <1>3, <1>5 DEF h, t

-----------------------------------------------------------------------------
(* Usage.                                                                    *)
UnitsOf == [r \in VsReports |-> r.units]

\* No session reports more than it used, and a closed one has reported all.
Within == \A s \in VsSessions :
    /\ vs[s].reported <= UsedBy(vs[s])
    /\ vs[s].st = "closed" => vs[s].reported = UsedBy(vs[s])
\* A session's reports are numbered.
Numbered == \A r, q \in AllReports :
    r.seq \in 1..vs[r.sess].rseq /\ (r.sess = q.sess /\ r.seq = q.seq => r = q)
\* Together they say what the session reported.
Summed == \A s \in VsSessions : Total(UnitsOf, OfSession(AllReports, s)) = vs[s].reported
\* What arrives late is known already; what is collected is queued at once.
LateIsKnown == \A batch \in net : batch \subseteq AllReports
GotIsQueued == sink.pc # "collect" => sink.got = <<>>

ReportTypes ==
    /\ pending \in Seq(VsReports) /\ sink \in VsSinks
    /\ counted \in SUBSET VsReports /\ dropped \in SUBSET VsReports
    /\ net \in SUBSET SUBSET VsReports /\ vsfaults \in Nat
    /\ life \in {"new", "up", "stopping", "down"}
UsageInv ==
    /\ IsFiniteSet(AllReports) /\ Within /\ Numbered /\ Summed /\ LateIsKnown /\ GotIsQueued

\* All reports are reports.
LEMMA ReportsAre ==
    ASSUME VsTypeOK PROVE AllReports \in SUBSET VsReports
<1>1. /\ pending \in Seq(VsReports) /\ sink.got \in Seq(VsReports)
      /\ sink.queue \in Seq(VsReports)
  BY DEF VsTypeOK, VsSinks
<1>2. /\ Items(pending) \subseteq VsReports /\ Items(sink.got) \subseteq VsReports
      /\ Items(sink.queue) \subseteq VsReports
  BY <1>1, ItemsAre
<1>3. counted \subseteq VsReports /\ dropped \subseteq VsReports
  BY DEF VsTypeOK
<1> QED BY <1>2, <1>3 DEF AllReports

\* The units in some reports, as such a sum.
LEMMA UnitsAreTotal ==
    ASSUME NEW U \in SUBSET VsReports, IsFiniteSet(U)
    PROVE  UnitsIn(U) = Total(UnitsOf, U)
<1> DEFINE A(g) == g = [s \in SUBSET U |-> IF s = {} THEN 0
                                           ELSE Choice(s).units + g[s \ {Choice(s)}]]
<1>1. UnitsIn(U) = (CHOOSE g : A(g))[U]
  BY DEF UnitsIn, MapThenSumSet, MapThenFoldSet, Choice
<1>2. \A s \in SUBSET U : s # {} => UnitsOf[Choice(s)] = Choice(s).units
  BY DEF UnitsOf, Choice
<1>3. ASSUME NEW g PROVE A(g) <=> Adds(g, UnitsOf, U)
  <2>1. [s \in SUBSET U |-> IF s = {} THEN 0 ELSE Choice(s).units + g[s \ {Choice(s)}]]
        = [s \in SUBSET U |-> IF s = {} THEN 0
                              ELSE UnitsOf[Choice(s)] + g[s \ {Choice(s)}]]
    BY <1>2
  <2> QED BY <2>1 DEF Adds
<1>4. \E g : Adds(g, UnitsOf, U)
  BY TotalIsDefined
<1> HIDE DEF A
<1> DEFINE g == CHOOSE g : A(g)
           h == CHOOSE h : Adds(h, UnitsOf, U)
<1>5. A(g) /\ Adds(h, UnitsOf, U)
  BY <1>3, <1>4
<1>6. Adds(g, UnitsOf, U)
  BY <1>3, <1>5
<1>7. UnitsIn(U) = g[U] /\ Total(UnitsOf, U) = h[U]
  BY <1>1 DEF Total
<1> HIDE DEF g, h
<1> QED BY <1>5, <1>6, <1>7, AddsAgree

\* The invariant says what the property says.
LEMMA UsageIsIt ==
    ASSUME VsTypeOK, UsageInv
    PROVE  UsageIsCountedOnce
<1> SUFFICES ASSUME NEW s \in VsSessions
             PROVE  /\ UnitsIn(OfSession(AllReports, s)) = vs[s].reported
                    /\ vs[s].st = "closed" => vs[s].reported = Used(s)
                    /\ \A r, q \in OfSession(AllReports, s) : r.seq = q.seq => r = q
  BY DEF UsageIsCountedOnce
<1> DEFINE U == OfSession(AllReports, s)
<1>1. U \in SUBSET VsReports /\ IsFiniteSet(U) /\ U \subseteq AllReports
  <2>1. U \subseteq AllReports
    BY DEF OfSession
  <2> QED BY <2>1, ReportsAre, FS_Subset DEF UsageInv
<1>2. UnitsIn(U) = Total(UnitsOf, U)
  BY <1>1, UnitsAreTotal
<1>3. Total(UnitsOf, U) = vs[s].reported
  BY DEF UsageInv, Summed
<1>4. vs[s].st = "closed" => vs[s].reported = Used(s)
  BY DEF UsageInv, Within, Used, UsedBy
<1>5. \A r, q \in U : r.seq = q.seq => r = q
  BY DEF UsageInv, Numbered, OfSession
<1> QED BY <1>2, <1>3, <1>4, <1>5

\* The reports go from hand to hand.
LEMMA SameReports ==
    ASSUME VsTypeOK, UsageInv, NoReport, AllReports' = AllReports, LateIsKnown', GotIsQueued'
    PROVE  UsageInv'
<1>1. /\ IsFiniteSet(AllReports') /\ Summed'
  BY DEF UsageInv, Summed, NoReport, SameUse
<1>2. Within'
  <2> SUFFICES ASSUME NEW s \in VsSessions
               PROVE  /\ vs'[s].reported <= UsedBy(vs'[s])
                      /\ vs'[s].st = "closed" => vs'[s].reported = UsedBy(vs'[s])
    BY DEF Within, UsedBy
  <2>1. SameUse(vs[s], vs'[s]) /\ vs[s].reported \in Nat
    BY VsHas DEF NoReport, VsFits
  <2>2. /\ vs[s].reported <= UsedBy(vs[s])
        /\ vs[s].st = "closed" => vs[s].reported = UsedBy(vs[s])
    BY DEF UsageInv, Within
  <2> QED BY <2>1, <2>2 DEF SameUse
<1>3. Numbered'
  <2>1. \A r \in AllReports : r.sess \in VsSessions
    BY ReportsAre DEF VsReports
  <2> QED BY <2>1 DEF UsageInv, Numbered, NoReport, SameUse
<1> QED BY <1>1, <1>2, <1>3 DEF UsageInv

\* A session reports.
LEMMA ReportAdded ==
    ASSUME VsTypeOK, UsageInv, NEW s \in VsSessions, NEW last \in BOOLEAN, ReportsOnce(s),
           AllReports' = AllReports \cup {Report(s, last)}, LateIsKnown', GotIsQueued'
    PROVE  UsageInv'
<1> DEFINE r == Report(s, last)
<1>1. \A u \in VsSessions : /\ vs[u].reported \in Nat /\ vs[u].rseq \in Nat
                            /\ vs[u].reported <= UsedBy(vs[u])
                            /\ vs[u].st = "closed" => vs[u].reported = UsedBy(vs[u])
  BY VsHas DEF VsFits, UsageInv, Within
<1>2. UsedBy(vs[s]) \in Nat
  BY DEF ReportsOnce, Reported
<1>3. /\ r \in VsReports /\ r.sess = s /\ r.seq = vs[s].rseq + 1
      /\ r.units = UsedBy(vs[s]) - vs[s].reported
  BY <1>1, <1>2 DEF Report, VsReports, Used, UsedBy
<1> HIDE DEF r
<1>4. /\ vs'[s].reported = UsedBy(vs[s]) /\ UsedBy(vs'[s]) = UsedBy(vs[s])
      /\ vs'[s].rseq = vs[s].rseq + 1
  BY DEF ReportsOnce, Reported
<1>5. \A u \in VsSessions : u # s => SameUse(vs[u], vs'[u])
  BY DEF ReportsOnce
<1>6. \A q \in AllReports : q.sess \in VsSessions /\ q.seq \in 1..vs[q.sess].rseq
  BY ReportsAre DEF UsageInv, Numbered, VsReports
<1>7. r \notin AllReports
  BY <1>1, <1>3, <1>6
<1>8. AllReports' = AllReports \cup {r}
  BY DEF r
<1>9. IsFiniteSet(AllReports')
  BY <1>8, FS_AddElement DEF UsageInv
<1>10. Within'
  <2> SUFFICES ASSUME NEW u \in VsSessions
               PROVE  /\ vs'[u].reported <= UsedBy(vs'[u])
                      /\ vs'[u].st = "closed" => vs'[u].reported = UsedBy(vs'[u])
    BY DEF Within, UsedBy
  <2>1. CASE u = s
    BY <1>2, <1>4, <2>1
  <2>2. CASE u # s
    BY <1>1, <1>5, <2>2 DEF SameUse
  <2> QED BY <2>1, <2>2
<1>11. Numbered'
  <2>1. \A u \in VsSessions : vs'[u].rseq \in Nat /\ vs'[u].rseq >= vs[u].rseq
    BY <1>1, <1>4, <1>5 DEF SameUse
  <2>2. \A q \in AllReports' : q.seq \in 1..vs'[q.sess].rseq
    <3>1. r.seq \in 1..vs'[r.sess].rseq
      BY <1>1, <1>3, <1>4
    <3>2. \A q \in AllReports : q.seq \in 1..vs'[q.sess].rseq
      BY <1>1, <1>6, <2>1
    <3> QED BY <1>8, <3>1, <3>2
  <2>3. \A q \in AllReports : q.sess = s => q.seq # r.seq
    BY <1>1, <1>3, <1>6
  <2>4. \A p, q \in AllReports : p.sess = q.sess /\ p.seq = q.seq => p = q
    BY DEF UsageInv, Numbered
  <2>5. \A p, q \in AllReports' : p.sess = q.sess /\ p.seq = q.seq => p = q
    BY <1>3, <1>8, <2>3, <2>4
  <2> QED BY <2>2, <2>5 DEF Numbered
<1>12. Summed'
  <2> SUFFICES ASSUME NEW u \in VsSessions
               PROVE  Total(UnitsOf, OfSession(AllReports', u)) = vs'[u].reported
    BY DEF Summed, OfSession
  <2>1. Total(UnitsOf, OfSession(AllReports, u)) = vs[u].reported
    BY DEF UsageInv, Summed
  <2>2. CASE u # s
    <3>1. OfSession(AllReports', u) = OfSession(AllReports, u)
      BY <1>3, <1>8, <2>2 DEF OfSession
    <3> QED BY <1>5, <2>1, <2>2, <3>1 DEF SameUse
  <2>3. CASE u = s
    <3> DEFINE U == OfSession(AllReports', s)
    <3>1. U \ {r} = OfSession(AllReports, s) /\ r \in U /\ U \subseteq AllReports'
      BY <1>3, <1>7, <1>8 DEF OfSession
    <3>2. IsFiniteSet(U) /\ U \subseteq VsReports
      BY <1>3, <1>8, <1>9, <3>1, ReportsAre, FS_Subset
    <3> HIDE DEF U
    <3>3. \A x \in U : UnitsOf[x] \in Nat
      BY <3>2 DEF UnitsOf, VsReports
    <3>4. Total(UnitsOf, U) = UnitsOf[r] + Total(UnitsOf, U \ {r})
      BY <3>1, <3>2, <3>3, TotalTakes
    <3>5. UnitsOf[r] = UsedBy(vs[s]) - vs[s].reported
      BY <1>3 DEF UnitsOf
    <3>6. Total(UnitsOf, U \ {r}) = vs[s].reported
      BY <2>1, <2>3, <3>1, Zenon
    <3>7. Total(UnitsOf, U) = UsedBy(vs[s])
      BY <1>1, <1>2, <3>4, <3>5, <3>6
    <3> QED BY <1>4, <2>3, <3>7, Zenon DEF U
  <2> QED BY <2>2, <2>3
<1> QED BY <1>9, <1>10, <1>11, <1>12 DEF UsageInv

VsInv == VsTypeOK /\ LockInv /\ Answers /\ UsageInv

\* The parts make up the whole again.
LEMMA VsWhole ==
    ASSUME Sound', ReportTypes', UsageInv'
    PROVE  VsInv'
  BY DEF Sound, SessionTypes, ReportTypes, VsInv, VsTypeOK

\* What the types say of the reports.
LEMMA ReportsTyped ==
    ASSUME VsTypeOK
    PROVE  /\ ReportTypes
           /\ sink.got \in Seq(VsReports) /\ sink.queue \in Seq(VsReports)
           /\ sink.todo \in SUBSET VsSessions /\ sink.tries \in Nat
           /\ sink.pc \in {"idle", "collect", "post", "dead"}
  BY DEF VsTypeOK, ReportTypes, VsSinks

\* A report is one.
LEMMA ReportIs ==
    ASSUME VsTypeOK, UsageInv, NEW s \in VsSessions, NEW last \in BOOLEAN
    PROVE  Report(s, last) \in VsReports
<1>1. /\ vs[s].reported \in Nat /\ vs[s].rseq \in Nat /\ vs[s].reported <= UsedBy(vs[s])
      /\ UsedBy(vs[s]) = Used(s) /\ UsedBy(vs[s]) \in Nat
  <2>1. VsFits(vs[s]) /\ vs[s].reported <= UsedBy(vs[s])
    BY VsHas DEF UsageInv, Within
  <2> QED BY <2>1 DEF VsFits, UsedBy, Used
<1> QED BY <1>1 DEF Report, VsReports

\* A step that touches no report.
LEMMA NoReportStep ==
    ASSUME VsTypeOK, UsageInv, Sound', NoReport, Elsewhere
    PROVE  VsInv'
<1>1. ReportTypes'
  BY ReportsTyped DEF ReportTypes, Elsewhere
<1>2. AllReports' = AllReports /\ LateIsKnown' /\ GotIsQueued'
  BY DEF Elsewhere, UsageInv, LateIsKnown, GotIsQueued, AllReports
<1>3. UsageInv'
  BY <1>2, SameReports
<1> QED BY <1>1, <1>3, VsWhole

\* The last report of a session.
LEMMA FinishReports ==
    ASSUME VsAssumption, VsInv, NEW s \in VsSessions, FinishClose(s)
    PROVE  VsInv'
<1>1. VsTypeOK /\ UsageInv /\ VsSound
  BY DEF VsInv, VsSound
<1>2. Sound' /\ ReportsOnce(s)
  BY <1>1, FinishStep
<1> DEFINE r == Report(s, TRUE)
           grown == Append(pending, r)
<1>3. r \in VsReports
  BY <1>1, ReportIs
<1>4. /\ pending' = Kept(grown) /\ dropped' = dropped \cup Fallen(grown)
      /\ UNCHANGED <<sink, net, counted, life, vsfaults>>
  BY DEF FinishClose
<1> HIDE DEF r
<1>5. grown \in Seq(VsReports) /\ Items(grown) = Items(pending) \cup {r}
  BY <1>1, <1>3, ItemsAppend, ReportsTyped DEF ReportTypes
<1> HIDE DEF grown
<1>6. Kept(grown) \in Seq(VsReports) /\ Items(Kept(grown)) \cup Fallen(grown) = Items(grown)
  BY <1>5, KeptIs
<1>7. Items(grown) \subseteq VsReports
  BY <1>5, ItemsAre
<1>8. ReportTypes'
  BY <1>1, <1>4, <1>6, <1>7, ReportsTyped DEF ReportTypes
<1>9. AllReports' = AllReports \cup {r}
  BY <1>4, <1>5, <1>6 DEF AllReports
<1>10. LateIsKnown' /\ GotIsQueued'
  BY <1>1, <1>4, <1>9 DEF UsageInv, LateIsKnown, GotIsQueued
<1>11. UsageInv'
  BY <1>1, <1>2, <1>9, <1>10, ReportAdded DEF r
<1> QED BY <1>2, <1>8, <1>11, VsWhole

\* The sink takes over what waits.
LEMMA FlushReports ==
    ASSUME VsAssumption, VsInv, FlushBegins
    PROVE  VsInv'
<1>1. VsTypeOK /\ UsageInv /\ VsSound
  BY DEF VsInv, VsSound
<1>2. Sound' /\ NoReport
  BY <1>1, ElsewhereSound DEF FlushBegins
<1>3. /\ sink.pc # "collect" /\ pending' = <<>>
      /\ UNCHANGED <<net, counted, life, vsfaults, dropped>>
  BY DEF FlushBegins, SinkRuns
<1>4. /\ sink' \in VsSinks /\ sink'.pc = "collect" /\ sink'.got = pending
      /\ sink'.queue = sink.queue
  <2> DEFINE todo == {s \in VsSessions : vs[s].st = "open"}
             tries == IF life = "stopping" THEN sink.tries + 1 ELSE sink.tries
  <2>1. sink' = [sink EXCEPT !.pc = "collect", !.got = pending, !.todo = todo, !.tries = tries]
    BY Zenon DEF FlushBegins
  <2>2. todo \in SUBSET VsSessions /\ tries \in Nat
    BY <1>1, ReportsTyped
  <2> HIDE DEF todo, tries
  <2> QED BY <1>1, <2>1, <2>2 DEF VsTypeOK, VsSinks
<1>5. Items(<<>>) = {} /\ <<>> \in Seq(VsReports)
  BY DEF Items
<1>6. AllReports' = AllReports
  BY <1>1, <1>3, <1>4, <1>5 DEF AllReports, UsageInv, GotIsQueued
<1>7. LateIsKnown' /\ GotIsQueued'
  BY <1>1, <1>3, <1>4, <1>6 DEF UsageInv, LateIsKnown, GotIsQueued
<1>8. ReportTypes'
  BY <1>1, <1>3, <1>4, <1>5, ReportsTyped DEF ReportTypes
<1>9. UsageInv'
  BY <1>1, <1>2, <1>6, <1>7, SameReports
<1> QED BY <1>2, <1>8, <1>9, VsWhole

\* It collects from a session.
LEMMA CollectReports ==
    ASSUME VsAssumption, VsInv, NEW s \in VsSessions, Collect(s)
    PROVE  VsInv'
<1>1. VsTypeOK /\ UsageInv /\ VsSound
  BY DEF VsInv, VsSound
<1>2. /\ sink.pc = "collect" /\ UNCHANGED <<vcall, answered>>
      /\ UNCHANGED <<pending, net, counted, life, vsfaults, dropped>>
  BY DEF Collect, SinkRuns
<1>3. CASE Reachable(s) /\ Used(s) # vs[s].reported
  <2> DEFINE r == Report(s, FALSE)
  <2>1. sink' = [sink EXCEPT !.todo = @ \ {s}, !.got = Append(@, r)] /\ vs' = Reports(s)
    BY <1>3, Zenon DEF Collect
  <2>2. Sound' /\ ReportsOnce(s)
    BY <1>1, <1>2, <2>1, CollectStep, Zenon
  <2>3. r \in VsReports
    BY <1>1, ReportIs
  <2> DEFINE got == Append(sink.got, r)
             todo == sink.todo \ {s}
  <2>4. sink' = [sink EXCEPT !.todo = todo, !.got = got]
    BY <2>1, Zenon
  <2> HIDE DEF r
  <2>5. got \in Seq(VsReports) /\ Items(got) = Items(sink.got) \cup {r}
    BY <1>1, <2>3, ItemsAppend, ReportsTyped
  <2>6. todo \in SUBSET VsSessions
    BY <1>1, ReportsTyped
  <2> HIDE DEF got, todo
  <2>7. /\ sink' \in VsSinks /\ sink'.pc = "collect" /\ sink'.got = got
        /\ sink'.queue = sink.queue
    BY <1>1, <1>2, <2>4, <2>5, <2>6 DEF VsTypeOK, VsSinks
  <2>8. AllReports' = AllReports \cup {r}
    BY <1>2, <2>5, <2>7 DEF AllReports
  <2>9. LateIsKnown' /\ GotIsQueued'
    BY <1>1, <1>2, <2>7, <2>8 DEF UsageInv, LateIsKnown, GotIsQueued
  <2>10. ReportTypes'
    BY <1>1, <1>2, <2>7, ReportsTyped DEF ReportTypes
  <2>11. UsageInv'
    BY <1>1, <2>2, <2>8, <2>9, ReportAdded DEF r
  <2> QED BY <2>2, <2>10, <2>11, VsWhole
<1>4. CASE ~(Reachable(s) /\ Used(s) # vs[s].reported)
  <2>1. sink' = [sink EXCEPT !.todo = @ \ {s}] /\ UNCHANGED vs
    BY <1>4, Zenon DEF Collect
  <2>2. Sound' /\ NoReport
    BY <1>1, <1>2, <2>1, ElsewhereSound
  <2>3. /\ sink' \in VsSinks /\ sink'.pc = "collect" /\ sink'.got = sink.got
        /\ sink'.queue = sink.queue
    BY <1>1, <1>2, <2>1 DEF VsTypeOK, VsSinks
  <2>4. AllReports' = AllReports
    BY <1>2, <2>3 DEF AllReports
  <2>5. LateIsKnown' /\ GotIsQueued'
    BY <1>1, <1>2, <2>3, <2>4 DEF UsageInv, LateIsKnown, GotIsQueued
  <2>6. ReportTypes'
    BY <1>1, <1>2, <2>3, ReportsTyped DEF ReportTypes
  <2>7. UsageInv'
    BY <1>1, <2>2, <2>4, <2>5, SameReports
  <2> QED BY <2>2, <2>6, <2>7, VsWhole
<1> QED BY <1>3, <1>4

\* It queues what it collected.
LEMMA EnqueueReports ==
    ASSUME VsAssumption, VsInv, Enqueue
    PROVE  VsInv'
<1>1. VsTypeOK /\ UsageInv /\ VsSound
  BY DEF VsInv, VsSound
<1>2. Sound' /\ NoReport
  BY <1>1, ElsewhereSound DEF Enqueue
<1> DEFINE grown == sink.queue \o sink.got
           q == Kept(grown)
           pc1 == Posts(q)
<1>3. /\ sink' = [sink EXCEPT !.pc = pc1, !.queue = q, !.got = <<>>]
      /\ dropped' = dropped \cup Fallen(grown)
      /\ UNCHANGED <<pending, net, counted, life, vsfaults>>
  BY Zenon DEF Enqueue
<1>4. grown \in Seq(VsReports) /\ Items(grown) = Items(sink.queue) \cup Items(sink.got)
  BY <1>1, ItemsConcat, ReportsTyped
<1> HIDE DEF grown
<1>5. q \in Seq(VsReports) /\ Items(q) \cup Fallen(grown) = Items(grown)
  BY <1>4, KeptIs
<1> HIDE DEF q
<1>6. pc1 \in {"idle", "post"} /\ Items(<<>>) = {} /\ <<>> \in Seq(VsReports)
  BY DEF Posts, Items
<1> HIDE DEF pc1
<1>7. /\ sink' \in VsSinks /\ sink'.pc = pc1 /\ sink'.got = <<>> /\ sink'.queue = q
  BY <1>1, <1>3, <1>5, <1>6 DEF VsTypeOK, VsSinks
<1>8. AllReports' = AllReports
  BY <1>3, <1>4, <1>5, <1>6, <1>7 DEF AllReports
<1>9. LateIsKnown' /\ GotIsQueued'
  BY <1>1, <1>3, <1>7, <1>8 DEF UsageInv, LateIsKnown, GotIsQueued
<1>10. Fallen(grown) \subseteq VsReports
  BY <1>4, ItemsAre DEF Fallen
<1>11. ReportTypes'
  BY <1>1, <1>3, <1>7, <1>10, ReportsTyped DEF ReportTypes
<1>12. UsageInv'
  BY <1>1, <1>2, <1>8, <1>9, SameReports
<1> QED BY <1>2, <1>11, <1>12, VsWhole

\* The batch is the head of the queue.
LEMMA BatchIs ==
    ASSUME VsAssumption, VsTypeOK
    PROVE  /\ Len(Batch) \in 0..Len(sink.queue) /\ Batch \in Seq(VsReports)
           /\ SubSeq(sink.queue, Len(Batch) + 1, Len(sink.queue)) \in Seq(VsReports)
           /\ Items(Batch) \cup Items(SubSeq(sink.queue, Len(Batch) + 1, Len(sink.queue)))
              = Items(sink.queue)
<1> DEFINE n == IF Len(sink.queue) < MaxBatch THEN Len(sink.queue) ELSE MaxBatch
<1>1. sink.queue \in Seq(VsReports) /\ MaxBatch \in Nat
  BY ReportsTyped DEF VsAssumption
<1>2. n \in 0..Len(sink.queue)
  BY <1>1
<1>3. Batch = SubSeq(sink.queue, 1, n)
  BY DEF Batch
<1> HIDE DEF n
<1>4. /\ SubSeq(sink.queue, 1, n) \in Seq(VsReports)
      /\ SubSeq(sink.queue, n + 1, Len(sink.queue)) \in Seq(VsReports)
      /\ Len(SubSeq(sink.queue, 1, n)) = n
      /\ Items(SubSeq(sink.queue, 1, n)) \cup Items(SubSeq(sink.queue, n + 1, Len(sink.queue)))
         = Items(sink.queue)
  BY <1>1, <1>2, ItemsSplit
<1> QED BY <1>2, <1>3, <1>4

\* The control plane has the batch.
LEMMA HeardReports ==
    ASSUME VsAssumption, VsInv, PostHeard
    PROVE  VsInv'
<1>1. VsTypeOK /\ UsageInv /\ VsSound
  BY DEF VsInv, VsSound
<1>2. Sound' /\ NoReport
  BY <1>1, ElsewhereSound DEF PostHeard
<1> DEFINE rest == SubSeq(sink.queue, Len(Batch) + 1, Len(sink.queue))
           pc1 == Posts(rest)
<1>3. /\ sink' = [sink EXCEPT !.pc = pc1, !.queue = rest]
      /\ counted' = counted \cup Items(Batch)
      /\ UNCHANGED <<pending, net, life, vsfaults, dropped>> /\ sink.pc = "post"
  BY Zenon DEF PostHeard, SinkRuns
<1>4. /\ Batch \in Seq(VsReports) /\ rest \in Seq(VsReports)
      /\ Items(Batch) \cup Items(rest) = Items(sink.queue)
  BY <1>1, BatchIs
<1> HIDE DEF rest
<1>5. pc1 \in {"idle", "post"}
  BY DEF Posts
<1> HIDE DEF pc1
<1>6. sink' \in VsSinks /\ sink'.pc = pc1 /\ sink'.got = sink.got /\ sink'.queue = rest
  BY <1>1, <1>3, <1>4, <1>5 DEF VsTypeOK, VsSinks
<1>7. AllReports' = AllReports
  BY <1>3, <1>4, <1>6 DEF AllReports
<1>8. LateIsKnown' /\ GotIsQueued'
  BY <1>1, <1>3, <1>5, <1>6, <1>7 DEF UsageInv, LateIsKnown, GotIsQueued
<1>9. ReportTypes'
  <2>1. Items(Batch) \subseteq VsReports
    BY <1>4, ItemsAre
  <2> QED BY <1>1, <1>3, <1>6, <2>1, ReportsTyped DEF ReportTypes
<1>10. UsageInv'
  BY <1>1, <1>2, <1>7, <1>8, SameReports
<1> QED BY <1>2, <1>9, <1>10, VsWhole

\* The post fails.
LEMMA FailsReports ==
    ASSUME VsAssumption, VsInv, PostFails
    PROVE  VsInv'
<1>1. VsTypeOK /\ UsageInv /\ VsSound
  BY DEF VsInv, VsSound
<1>2. Sound' /\ NoReport
  BY <1>1, ElsewhereSound DEF PostFails
<1>3. Batch \in Seq(VsReports) /\ Items(Batch) \subseteq Items(sink.queue)
  BY <1>1, BatchIs
<1>4. /\ Items(Batch) \subseteq VsReports /\ Items(Batch) \subseteq AllReports
      /\ sink.got = <<>>
  <2>1. sink.pc = "post"
    BY DEF PostFails, SinkRuns
  <2> QED BY <1>1, <1>3, <2>1, ItemsAre DEF AllReports, UsageInv, GotIsQueued
<1>5. /\ counted \subseteq counted' /\ counted' \subseteq counted \cup Items(Batch)
      /\ \A b \in net' : b \in net \/ b = Items(Batch)
  <2>1. CASE \E n \in 0..Len(Batch) :
                counted' = counted \cup Items(SubSeq(Batch, 1, n)) /\ UNCHANGED net
    <3> PICK n \in 0..Len(Batch) :
           counted' = counted \cup Items(SubSeq(Batch, 1, n)) /\ UNCHANGED net
      BY <2>1
    <3>1. Items(SubSeq(Batch, 1, n)) \subseteq Items(Batch)
      BY <1>3, ItemsSplit
    <3> QED BY <3>1
  <2>2. CASE net' = net \cup {Items(Batch)} /\ UNCHANGED counted
    BY <2>2
  <2> QED BY <2>1, <2>2 DEF PostFails
<1>6. PICK pc1 \in {"idle", "dead"} : sink' = [sink EXCEPT !.pc = pc1]
  BY DEF PostFails
<1>7. UNCHANGED <<pending, life, dropped>> /\ vsfaults' \in Nat
  BY <1>1 DEF PostFails, VsTypeOK
<1>8. sink' \in VsSinks /\ sink'.got = sink.got /\ sink'.queue = sink.queue
  BY <1>1, <1>6 DEF VsTypeOK, VsSinks
<1>9. AllReports' = AllReports
  <2>1. Items(Batch) \subseteq Items(sink.queue)
    BY <1>3
  <2> QED BY <1>5, <1>7, <1>8, <2>1 DEF AllReports
<1>10. LateIsKnown' /\ GotIsQueued'
  BY <1>1, <1>4, <1>5, <1>8, <1>9 DEF UsageInv, LateIsKnown, GotIsQueued
<1>11. ReportTypes'
  <2>1. counted' \in SUBSET VsReports /\ net' \in SUBSET SUBSET VsReports
    BY <1>1, <1>4, <1>5, ReportsTyped DEF ReportTypes
  <2> QED BY <1>1, <1>7, <1>8, <2>1, ReportsTyped DEF ReportTypes
<1>12. UsageInv'
  BY <1>1, <1>2, <1>9, <1>10, SameReports
<1> QED BY <1>2, <1>11, <1>12, VsWhole

\* A batch arrives late.
LEMMA ArrivesReports ==
    ASSUME VsAssumption, VsInv, Arrives
    PROVE  VsInv'
<1>1. VsTypeOK /\ UsageInv /\ VsSound
  BY DEF VsInv, VsSound
<1>2. Sound' /\ NoReport
  BY <1>1, ElsewhereSound DEF Arrives
<1>3. PICK batch \in net : net' = net \ {batch} /\ counted' = counted \cup batch
  BY DEF Arrives
<1>4. UNCHANGED <<pending, sink, life, vsfaults, dropped>>
  BY DEF Arrives
<1>5. batch \subseteq AllReports /\ batch \subseteq VsReports
  BY <1>1, ReportsTyped DEF UsageInv, LateIsKnown, ReportTypes
<1>6. AllReports' = AllReports
  BY <1>3, <1>4, <1>5 DEF AllReports
<1>7. LateIsKnown' /\ GotIsQueued'
  BY <1>1, <1>3, <1>4, <1>6 DEF UsageInv, LateIsKnown, GotIsQueued
<1>8. ReportTypes'
  BY <1>1, <1>3, <1>4, <1>5, ReportsTyped DEF ReportTypes
<1>9. UsageInv'
  BY <1>1, <1>2, <1>6, <1>7, SameReports
<1> QED BY <1>2, <1>8, <1>9, VsWhole

\* The service starts, stops or dies, or nothing happens.
LEMMA LifeReports ==
    ASSUME VsAssumption, VsInv, Boot \/ Stop \/ Down \/ Dies \/ UNCHANGED vsVars
    PROVE  VsInv'
<1>1. VsTypeOK /\ UsageInv /\ VsSound
  BY DEF VsInv, VsSound
<1>2. UNCHANGED <<vs, vcall, pending, sink, net, counted, dropped, answered>>
  BY DEF Boot, Stop, Down, Dies, vsVars
<1>3. life' \in {"new", "up", "stopping", "down"} /\ vsfaults' \in Nat
  BY <1>1 DEF Boot, Stop, Down, Dies, vsVars, VsTypeOK
<1>4. Sound' /\ NoReport
  BY <1>1, <1>2, ElsewhereSound
<1>5. AllReports' = AllReports /\ LateIsKnown' /\ GotIsQueued'
  BY <1>1, <1>2 DEF AllReports, UsageInv, LateIsKnown, GotIsQueued
<1>6. ReportTypes'
  BY <1>1, <1>2, <1>3, ReportsTyped DEF ReportTypes
<1>7. UsageInv'
  BY <1>1, <1>4, <1>5, SameReports
<1> QED BY <1>4, <1>6, <1>7, VsWhole

\* The invariant holds of a new process.
LEMMA VisualStarts ==
    ASSUME VsInit
    PROVE  VsInv
<1>1. VsTypeOK
  <2>1. NewVs \in VsStates
    BY DEF NewVs, VsStates, Window, Kinds, Looks, Goals
  <2>2. NoCall \in VsCalls
    BY DEF NoCall, VsCalls, Kinds, Goals
  <2>3. SinkOff \in VsSinks
    BY DEF SinkOff, VsSinks
  <2> HIDE DEF NewVs, NoCall, SinkOff
  <2>4. /\ vs \in [VsSessions -> VsStates] /\ vcall \in [VsCallers -> VsCalls]
        /\ answered \in [VsSessions -> [Kinds -> Seq(VsRequests)]]
    BY <2>1, <2>2 DEF VsInit
  <2> QED BY <2>3, <2>4 DEF VsInit, VsTypeOK
<1>2. \A c \in VsCallers : vcall[c].pc = "idle"
  BY DEF VsInit, NoCall
<1>3. \A s \in VsSessions : vs[s] = NewVs
  BY DEF VsInit
<1>4. LockInv
  <2>1. \A s \in VsSessions : vs[s].reserved = 0 /\ ~InferenceLocked(s)
    BY <1>2, <1>3 DEF NewVs, InferenceLocked
  <2> QED BY <1>2, <2>1 DEF LockInv, CallsKnown, Reserved, OneInfers, StillFresh
<1>5. Answers
  BY DEF VsInit, Answers, Remembered, Spaced
<1>6. AllReports = {}
  BY DEF VsInit, AllReports, SinkOff, Items
<1>7. UsageInv
  <2>1. IsFiniteSet(AllReports) /\ LateIsKnown /\ GotIsQueued /\ Numbered
    BY <1>6, FS_EmptySet DEF VsInit, LateIsKnown, GotIsQueued, SinkOff, Numbered
  <2>2. Within
    BY <1>3 DEF Within, NewVs, UsedBy
  <2>3. Summed
    <3> SUFFICES ASSUME NEW s \in VsSessions
                 PROVE  Total(UnitsOf, OfSession(AllReports, s)) = vs[s].reported
      BY DEF Summed
    <3>1. OfSession(AllReports, s) = {}
      BY <1>6 DEF OfSession
    <3>2. Total(UnitsOf, {}) = 0
      BY TotalStep, FS_EmptySet
    <3>3. vs[s].reported = 0
      BY <1>3 DEF NewVs
    <3> QED BY <3>1, <3>2, <3>3
  <2> QED BY <2>1, <2>2, <2>3 DEF UsageInv
<1> QED BY <1>1, <1>4, <1>5, <1>7 DEF VsInv

\* Every step of the service, of its sink and of the network keeps it.
LEMMA VisualStep ==
    ASSUME VsAssumption, VsInv, [VsNext]_vsVars
    PROVE  VsInv'
<1>1. VsTypeOK /\ UsageInv /\ VsSound
  BY DEF VsInv, VsSound
<1>2. ASSUME NEW s \in VsSessions,
             \/ CreateSession(s) \/ PublishFrame(s) \/ SetTask(s) \/ RecordAttempt(s) \/ Read(s)
             \/ CloseSession(s) \/ Sweep(s)
      PROVE  VsInv'
  BY <1>1, <1>2, HostStep, NoReportStep
<1>3. ASSUME NEW s \in VsSessions, FinishClose(s) PROVE VsInv'
  BY <1>3, FinishReports
<1>4. ASSUME NEW c \in VsCallers, Ask(c) \/ VsCallStep(c) PROVE VsInv'
  <2>1. Sound' /\ NoReport /\ Elsewhere
    BY <1>1, <1>4, AskStep, ReplayedStep, AskRefusedStep, ReusedStep, ReserveStep,
       ModelRefusesStep, SpoiledStep, DecidedStep, PerceivedStep, Zenon DEF VsCallStep
  <2> QED BY <1>1, <2>1, NoReportStep
<1>5. CASE SinkStep
  BY <1>5, FlushReports, CollectReports, EnqueueReports, HeardReports, FailsReports DEF SinkStep
<1>6. CASE Arrives
  BY <1>6, ArrivesReports
<1>7. CASE Boot \/ Stop \/ Down \/ Dies \/ UNCHANGED vsVars
  BY <1>7, LifeReports
<1> QED BY <1>2, <1>3, <1>4, <1>5, <1>6, <1>7, Zenon DEF VsNext

\* The inductive invariant of the visual service holds throughout.
THEOREM VisualInvariance == VsSpec => []VsInv
<1>1. VsInit => VsInv
  BY VisualStarts
<1>2. VsInv /\ [VsNext]_vsVars => VsInv'
  BY VisualStep, VsAssumption
<1> QED BY <1>1, <1>2, PTL DEF VsSpec

\* Sessions, requests, reports and the sink stay of their types: no counter of a session
\* that ends an inference or reports its use becomes negative (service.py).
THEOREM VisualTypeOK == VsSpec => []VsTypeOK
<1>1. VsInv => VsTypeOK
  BY DEF VsInv
<1> QED BY <1>1, VisualInvariance, PTL

\* decide and perceive answer a request id by one inference: it gets another only once more
\* answers came than the expired window remembers, or the task changed.
THEOREM OneAnswerAlways == VsSpec => []OneAnswerPerRequest
<1>1. VsInv => OneAnswerPerRequest
  BY DEF VsInv, Answers, Spaced, OneAnswerPerRequest
<1> QED BY <1>1, VisualInvariance, PTL

\* Each unit of use is in one report, whatever the sink posts again, the network delivers late
\* or the queue drops; a session that is closed has reported all it used.
THEOREM UsageCountedOnceAlways == VsSpec => []UsageIsCountedOnce
<1>1. VsInv => UsageIsCountedOnce
  BY UsageIsIt DEF VsInv
<1> QED BY <1>1, VisualInvariance, PTL

=============================================================================
