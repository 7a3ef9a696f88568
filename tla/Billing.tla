------------------------------- MODULE Billing -------------------------------
(***************************************************************************)
(* Prepaid balance, pre-request holds, metering and charges of one         *)
(* workspace: service/billing.py, usage.py, usage_api.py, pricing.py,      *)
(* limits.py, stripe_webhook.py, and their two callers, the public gateway *)
(* (public_gateway.py) and the executor's model gateway                    *)
(* (executor/gateway.py), which goes through the LiteLLM proxy.            *)
(*                                                                         *)
(* One web process.  The gateways' endpoints, LiteLLM's usage callback and *)
(* the Stripe webhook are async functions that never await once they have  *)
(* their body: each holds the event loop from beginning to end, upstream   *)
(* call included.  Only the body of a stream is a generator that runs in   *)
(* the thread pool.  Every store call is a transaction of its own at READ  *)
(* COMMITTED; those that read two sums are two actions.  The row lock they *)
(* take on the workspace is taken by handlers that hold the loop and by    *)
(* nobody else, so it never waits and is left out.                         *)
(*                                                                         *)
(* Amounts are natural numbers.  Billing, blocking at a zero balance and   *)
(* LiteLLM are configured.                                                 *)
(***************************************************************************)
EXTENDS Integers, FiniteSets, FiniteSetsExt

CONSTANTS
    Calls,         \* requests to the public gateway, not streaming
    Streams,       \* requests to the public gateway, streaming
    Leavers,       \* streams whose client may disconnect
    ExecCalls,     \* model calls of one execution run
    Late,          \* model calls whose answer may be lost on the way back
    OwnTrace,      \* model calls whose agent sends a trace event id of its own
    Payments,      \* Stripe events that credit the workspace
    Costs,         \* retail costs a call may have
    Estimate,      \* balance_reserve_estimate_usd, what every hold amounts to
    Credit,        \* amount of a payment
    Opening,       \* balance at the start
    Cap,           \* hard limit of the virtual key
    MaxModelCalls, \* max_model_calls of the run
    MaxRunCost,    \* max_cost_usd of the run
    MaxDeliveries, \* bound: deliveries of one callback or webhook event
    MaxCrashes,    \* bound: crashes of the web process
    NoOne          \* the event loop is free

Public   == Calls \cup Streams
Requests == Public \cup ExecCalls

ASSUME AmountsAssumption ==
    /\ Costs \subseteq Nat \ {0} /\ Estimate \in Nat /\ Credit \in Nat /\ Opening \in Nat
    /\ Cap \in Nat /\ MaxModelCalls \in Nat /\ MaxRunCost \in Nat
    /\ MaxDeliveries \in Nat /\ MaxCrashes \in Nat
ASSUME RequestsAssumption ==
    /\ Public \cap ExecCalls = {} /\ Calls \cap Streams = {} /\ NoOne \notin Requests
    /\ Payments \cap ExecCalls = {}
    /\ Leavers \subseteq Streams /\ Late \subseteq ExecCalls /\ OwnTrace \subseteq ExecCalls

-----------------------------------------------------------------------------
HoldStatus == {"none", "active", "settled", "released"}

PC == {"idle", "balance", "holds", "slot", "committed", "held", "refuse", "forward",
       "stream", "undo_hold", "undo_limit", "account", "revoke", "release",
       "record", "price", "charge", "reconcile", "done"}

VARIABLES
    ledger,     \* sum of balance_transactions
    hold,       \* balance_reservations, one per request
    limit,      \* limit_reservations of the key's hard limit
    usage,      \* usage_records: none, with a cost basis, of a failed attempt, or
                \* to be reconciled
    cost,       \* what the request cost upstream, retail
    debits,     \* usage debits in the ledger, per usage record
    run,        \* the execution run's counters
    pc, seen,   \* where each request is, and the sum its handler read
    loop,       \* who holds the event loop
    due,        \* LiteLLM has a usage callback for the call
    delivered,  \* how often a callback or webhook event was delivered
    crashes,    \* crashes so far
    cut,        \* history: requests nobody came back to
    slipped     \* history: streams charged between two reads of another's head

past  == <<cut, slipped>>
money == <<ledger, debits>>
holds == <<hold, limit>>
meter == <<usage, cost>>
world == <<due, delivered, crashes, past>>
vars  == <<money, holds, meter, run, pc, seen, loop, world>>

TypeOK ==
    /\ ledger \in Int
    /\ hold \in [Requests -> HoldStatus]
    /\ limit \in [Public -> HoldStatus]
    /\ usage \in [Requests -> {"none", "billable", "failed", "unknown"}]
    /\ cost \in [Requests -> {0} \cup Costs]
    /\ debits \in [Requests -> Nat]
    /\ run \in [calls: 0..MaxModelCalls, cost: Nat, revoked: BOOLEAN]
    /\ pc \in [Requests -> PC]
    /\ seen \in [Requests -> Int]
    /\ loop \in Requests \cup {NoOne}
    /\ due \in [ExecCalls -> BOOLEAN]
    /\ delivered \in [ExecCalls \cup Payments -> 0..MaxDeliveries]
    /\ crashes \in 0..MaxCrashes
    /\ cut \subseteq Requests /\ slipped \subseteq Requests

Init ==
    /\ ledger = Opening
    /\ hold = [r \in Requests |-> "none"]
    /\ limit = [r \in Public |-> "none"]
    /\ usage = [r \in Requests |-> "none"]
    /\ cost = [r \in Requests |-> 0]
    /\ debits = [r \in Requests |-> 0]
    /\ run = [calls |-> 0, cost |-> 0, revoked |-> FALSE]
    /\ pc = [r \in Requests |-> "idle"]
    /\ seen = [r \in Requests |-> 0]
    /\ loop = NoOne
    /\ due = [r \in ExecCalls |-> FALSE]
    /\ delivered = [d \in ExecCalls \cup Payments |-> 0]
    /\ crashes = 0
    /\ cut = {} /\ slipped = {}

-----------------------------------------------------------------------------
At(r, l)   == pc[r] = l
Goto(r, l) == pc' = [pc EXCEPT ![r] = l] /\ UNCHANGED loop
\* The handler or the generator is done; a handler gives the event loop back.
Finish(r)  == pc' = [pc EXCEPT ![r] = "done"]
              /\ loop' = IF loop = r THEN NoOne ELSE loop

\* Writes of a hold's status: a hold leaves "active" once.
Close(r, s)      == hold' = [hold EXCEPT ![r] = IF @ = "active" THEN s ELSE @]
CloseLimit(r, s) == limit' = [limit EXCEPT ![r] = IF @ = "active" THEN s ELSE @]

ActiveHolds  == Estimate * Cardinality({r \in Requests : hold[r] = "active"})
ActiveLimits == Estimate * Cardinality({r \in Public : limit[r] = "active"})
Charged      == {r \in Requests : debits[r] > 0}
Charges(S)   == MapThenSumSet(LAMBDA r : cost[r], S \cap Charged)

-----------------------------------------------------------------------------
(***************************************************************************)
(* Before the request: the balance hold, then the run's budget or the      *)
(* key's spending limit.                                                   *)
(***************************************************************************)
\* The request is authenticated and has the event loop; a revoked run token is
\* refused.
Start(r) ==
    /\ At(r, "idle") /\ loop = NoOne
    /\ r \in ExecCalls => ~run.revoked
    /\ pc' = [pc EXCEPT ![r] = "balance"] /\ loop' = r
    /\ UNCHANGED <<money, holds, meter, run, seen, world>>

\* reserve: the balance, then the active holds.
ReserveBalance(r) ==
    /\ At(r, "balance")
    /\ seen' = [seen EXCEPT ![r] = ledger]
    /\ Goto(r, "holds")
    /\ UNCHANGED <<money, holds, meter, run, world>>

\* A faulty variant: the holds of others are not looked at.
ReserveHolds_BalanceOnly(r) ==
    /\ At(r, "holds")
    /\ IF seen[r] >= Estimate
       THEN /\ hold' = [hold EXCEPT ![r] = "active"]
            /\ Goto(r, IF r \in ExecCalls THEN "slot" ELSE "committed")
       ELSE Finish(r) /\ UNCHANGED hold
    /\ UNCHANGED <<money, limit, meter, run, seen, world>>

ReserveHolds(r) ==
    /\ At(r, "holds")
    /\ IF seen[r] - ActiveHolds >= Estimate
       THEN /\ hold' = [hold EXCEPT ![r] = "active"]
            /\ Goto(r, IF r \in ExecCalls THEN "slot" ELSE "committed")
       ELSE Finish(r) /\ UNCHANGED hold
    /\ UNCHANGED <<money, limit, meter, run, seen, world>>

\* evaluate: what was charged on the key, then the holds under its limit.
ReadCommitted(r) ==
    /\ At(r, "committed")
    /\ seen' = [seen EXCEPT ![r] = Charges(Public)]
    /\ Goto(r, "held")
    /\ UNCHANGED <<money, holds, meter, run, world>>

\* A faulty variant: the holds of other requests under the limit are not looked at.
ReadHeld_ChargesOnly(r) ==
    /\ At(r, "held")
    /\ IF seen[r] + Estimate > Cap
       THEN Goto(r, "refuse") /\ UNCHANGED limit
       ELSE /\ limit' = [limit EXCEPT ![r] = "active"]
            /\ IF r \in Calls THEN Goto(r, "forward")
               ELSE pc' = [pc EXCEPT ![r] = "stream"] /\ loop' = NoOne
    /\ UNCHANGED <<money, hold, meter, run, seen, world>>

\* The head of a stream ends here: the generator goes on in the thread pool.
ReadHeld(r) ==
    /\ At(r, "held")
    /\ IF seen[r] + ActiveLimits + Estimate > Cap
       THEN Goto(r, "refuse") /\ UNCHANGED limit
       ELSE /\ limit' = [limit EXCEPT ![r] = "active"]
            /\ IF r \in Calls THEN Goto(r, "forward")
               ELSE pc' = [pc EXCEPT ![r] = "stream"] /\ loop' = NoOne
    /\ UNCHANGED <<money, hold, meter, run, seen, world>>

\* A faulty variant: the model-call slot is claimed on the number of calls only.
ReserveSlot_CallsOnly(r) ==
    /\ At(r, "slot")
    /\ \/ /\ ~run.revoked /\ run.calls < MaxModelCalls
          /\ run' = [run EXCEPT !.calls = @ + 1] /\ Goto(r, "forward")
       \/ Goto(r, "release") /\ UNCHANGED run
    /\ UNCHANGED <<money, holds, meter, seen, world>>

\* reserve_model_call: one UPDATE checks run and budget and counts the call.  The run
\* may have become inactive on its side (RunControl), so a refusal is always possible.
ReserveSlot(r) ==
    /\ At(r, "slot")
    /\ \/ /\ ~run.revoked /\ run.calls < MaxModelCalls /\ run.cost < MaxRunCost
          /\ run' = [run EXCEPT !.calls = @ + 1] /\ Goto(r, "forward")
       \/ Goto(r, "release") /\ UNCHANGED run
    /\ UNCHANGED <<money, holds, meter, seen, world>>

\* A faulty variant: a released hold is deleted.
Release_Delete(r) ==
    /\ At(r, "refuse") \/ At(r, "release")
    /\ hold' = [hold EXCEPT ![r] = "deleted"]
    /\ Finish(r)
    /\ UNCHANGED <<money, limit, meter, run, seen, world>>

\* The hold of a refused request is released.
Release(r) ==
    /\ At(r, "refuse") \/ At(r, "release")
    /\ Close(r, "released")
    /\ Finish(r)
    /\ UNCHANGED <<money, limit, meter, run, seen, world>>

-----------------------------------------------------------------------------
(***************************************************************************)
(* The request upstream.                                                   *)
(***************************************************************************)
\* The provider works, and answers or its answer is lost; or it fails.
Worked(r) == \E c \in Costs : cost' = [cost EXCEPT ![r] = c]

\* A call of the public gateway: a lost answer is a failure to the gateway.
Forward(r) ==
    /\ At(r, "forward") /\ r \in Calls
    /\ \/ Worked(r) /\ Goto(r, "record")
       \/ (Worked(r) \/ UNCHANGED cost) /\ Goto(r, "undo_hold")
    /\ UNCHANGED <<money, holds, usage, run, seen, world>>

\* A stream ends, breaks off upstream, or loses its client; the generator of a
\* client that left is never resumed.
Stream(r) ==
    /\ At(r, "stream")
    /\ \/ Worked(r) /\ Goto(r, "record") /\ UNCHANGED cut
       \/ Worked(r) /\ r \in Leavers /\ Finish(r) /\ cut' = cut \cup {r}
       \/ (Worked(r) \/ UNCHANGED cost) /\ Goto(r, "undo_hold") /\ UNCHANGED cut
    /\ UNCHANGED <<money, holds, usage, run, seen, due, delivered, crashes, slipped>>

UndoHold(r) ==
    /\ At(r, "undo_hold")
    /\ Close(r, "released")
    /\ Goto(r, "undo_limit")
    /\ UNCHANGED <<money, limit, meter, run, seen, world>>

\* A faulty variant: the limit's hold is forgotten.
UndoLimit_Forgotten(r) ==
    /\ At(r, "undo_limit")
    /\ Goto(r, "record") \/ (r \in Calls /\ Finish(r))
    /\ UNCHANGED <<money, holds, meter, run, seen, world>>

\* A failed attempt is recorded, unless a call failed with an error of the provider
\* or of the way to it (GatewayError).
UndoLimit(r) ==
    /\ At(r, "undo_limit")
    /\ CloseLimit(r, "released")
    /\ Goto(r, "record") \/ (r \in Calls /\ Finish(r))
    /\ UNCHANGED <<money, hold, meter, run, seen, world>>

\* LiteLLM answers, fails (a callback may follow), or its answer is lost after
\* the provider did the work.
Upstream(r) ==
    /\ At(r, "forward") /\ r \in ExecCalls
    /\ \/ /\ Worked(r)
          /\ due' = [due EXCEPT ![r] = TRUE]
          /\ Goto(r, "account") \/ (r \in Late /\ Goto(r, "release"))
       \/ /\ \E b \in BOOLEAN : due' = [due EXCEPT ![r] = b]
          /\ Goto(r, "release")
          /\ UNCHANGED cost
    /\ UNCHANGED <<money, holds, usage, run, seen, delivered, crashes, past>>

\* record_model_usage, and the revocation of a run that is over its budget.
Account(r) ==
    /\ At(r, "account")
    /\ run' = [run EXCEPT !.cost = @ + cost[r]]
    /\ IF run'.cost <= MaxRunCost THEN Finish(r) ELSE Goto(r, "revoke")
    /\ UNCHANGED <<money, holds, meter, seen, world>>

RevokeRun(r) ==
    /\ At(r, "revoke")
    /\ run' = [run EXCEPT !.revoked = TRUE]
    /\ Finish(r)
    /\ UNCHANGED <<money, holds, meter, seen, world>>

-----------------------------------------------------------------------------
(***************************************************************************)
(* Metering: the public gateway at the end of a request, LiteLLM's usage   *)
(* callback for a model call.                                              *)
(***************************************************************************)
\* A callback is delivered, or delivered again; or it never comes.
Callback(r) ==
    /\ due[r] /\ At(r, "done") /\ loop = NoOne
    /\ delivered[r] < MaxDeliveries
    /\ delivered' = [delivered EXCEPT ![r] = @ + 1]
    /\ pc' = [pc EXCEPT ![r] = "record"] /\ loop' = r
    /\ UNCHANGED <<money, holds, meter, run, seen, due, crashes, past>>

\* A request that did not succeed, as its usage record says; a public one gave its hold
\* back.
Failed(r) == cost[r] = 0 \/ (r \in Public /\ hold[r] = "released")

\* The usage record is written once; a failed request needs no cost.
Record(r) ==
    /\ At(r, "record")
    /\ IF usage[r] = "none"
       THEN /\ \E u \in (IF Failed(r) THEN {"failed"} ELSE {"billable", "unknown"}) :
                 usage' = [usage EXCEPT ![r] = u]
            /\ Goto(r, "price")
       ELSE Goto(r, "charge") /\ UNCHANGED usage
    /\ UNCHANGED <<money, holds, cost, run, seen, world>>

\* price_usage_record finds a price for a cost the provider did not report, or
\* none; a failed request without a price is to be reconciled as well.
Price(r) ==
    /\ At(r, "price")
    /\ \/ usage' = [usage EXCEPT ![r] = IF Failed(r) THEN "unknown" ELSE "billable"]
       \/ UNCHANGED usage
    /\ Goto(r, "charge")
    /\ UNCHANGED <<money, holds, cost, run, seen, world>>

\* The hold is found by the trace event id of the usage record.
Settle(r) == IF r \in OwnTrace THEN UNCHANGED hold ELSE Close(r, "settled")

\* History: the charge of a stream falls between the two reads of a request's head.
Slips(r) == r \in Streams /\ \E q \in Requests : pc[q] \in {"holds", "held"}

AfterCharge(r) ==
    IF r \in Public /\ limit[r] = "active" THEN Goto(r, "reconcile") ELSE Finish(r)

\* A faulty variant: an existing charge does not stop a replayed callback.
Charge_Again(r) ==
    /\ At(r, "charge")
    /\ Settle(r)
    /\ IF usage[r] = "billable"
       THEN ledger' = ledger - cost[r] /\ debits' = [debits EXCEPT ![r] = @ + 1]
       ELSE UNCHANGED money
    /\ AfterCharge(r)
    /\ UNCHANGED <<limit, meter, run, seen, world>>

\* charge_usage: the charge and its debit, once per usage record, and never for
\* a cost that is not known.
Charge(r) ==
    /\ At(r, "charge")
    /\ Settle(r)
    /\ IF usage[r] = "billable" /\ debits[r] = 0
       THEN /\ ledger' = ledger - cost[r] /\ debits' = [debits EXCEPT ![r] = 1]
            /\ slipped' = IF Slips(r) THEN slipped \cup {r} ELSE slipped
       ELSE UNCHANGED <<money, slipped>>
    /\ AfterCharge(r)
    /\ UNCHANGED <<limit, meter, run, seen, due, delivered, crashes, cut>>

Reconcile(r) ==
    /\ At(r, "reconcile")
    /\ CloseLimit(r, "settled")
    /\ Finish(r)
    /\ UNCHANGED <<money, hold, meter, run, seen, world>>

\* A Stripe event credits the workspace the first time it is delivered.
TopUp(e) ==
    /\ loop = NoOne /\ delivered[e] < MaxDeliveries
    /\ delivered' = [delivered EXCEPT ![e] = @ + 1]
    /\ ledger' = IF delivered[e] = 0 THEN ledger + Credit ELSE ledger
    /\ UNCHANGED <<debits, holds, meter, run, pc, seen, loop, due, crashes, past>>

-----------------------------------------------------------------------------
\* The web process dies; nobody comes back to what it was doing.
CrashWeb ==
    /\ crashes < MaxCrashes /\ crashes' = crashes + 1
    /\ \E r \in Requests : pc[r] \notin {"idle", "done"}
    /\ pc' = [r \in Requests |-> IF At(r, "idle") THEN "idle" ELSE "done"]
    /\ loop' = NoOne
    /\ cut' = cut \cup {r \in Requests : pc[r] \notin {"idle", "done"}}
    /\ UNCHANGED <<money, holds, meter, run, seen, due, delivered, slipped>>

Step(r) ==
    \/ ReserveBalance(r) \/ ReserveHolds(r) \/ ReserveSlot(r)
    \/ Release(r) \/ Upstream(r) \/ Account(r) \/ RevokeRun(r)
    \/ Forward(r) \/ Stream(r) \/ UndoHold(r)
    \/ Record(r) \/ Price(r) \/ Charge(r)

PublicStep(r) ==
    ReadCommitted(r) \/ ReadHeld(r) \/ UndoLimit(r) \/ Reconcile(r)

Next ==
    \/ \E r \in Requests : Start(r) \/ Step(r)
    \/ \E r \in Public : PublicStep(r)
    \/ \E r \in ExecCalls : Callback(r)
    \/ \E e \in Payments : TopUp(e)
    \/ CrashWeb

Spec == Init /\ [][Next]_vars

-----------------------------------------------------------------------------
\* The balance is the opening balance, plus each payment once, minus each billable
\* request once, whatever was delivered again or interrupted (billing.py's
\* idempotency).
LedgerIsExplained ==
    ledger = Opening + Credit * Cardinality({e \in Payments : delivered[e] > 0})
                     - Charges(Requests)

\* A charge without a hold: that of a stream whose hold was settled between another's two
\* reads, of a model call whose answer was lost, and where the hold is not found.
Unheld(r) ==
    r \in slipped \cup OwnTrace \/ (r \in ExecCalls /\ hold[r] = "released")

\* What a request was charged that no hold kept back.
Uncovered(r) ==
    IF Unheld(r) THEN cost[r]
    ELSE IF cost[r] > Estimate THEN cost[r] - Estimate ELSE 0
uncovered == [r \in Requests |-> Uncovered(r)]
Overdraft(S) == MapThenSumSet(LAMBDA r : uncovered[r], S \cap Charged)

\* Concurrent requests cannot overspend (reserve): the balance is below the holds, or
\* below zero, by no more than requests were charged beyond their own holds.
OverdraftIsExplained == ledger - ActiveHolds + Overdraft(Requests) >= 0

\* What is charged on a key exceeds its hard limit by no more than that (evaluate).
SpendIsExplained == Charges(Public) <= Cap + Overdraft(Public)

\* A run overshoots its budget by less than one call (reserve_model_call).
OvershootIsOneCall == \A m \in Costs : (\A c \in Costs : c <= m) => run.cost < MaxRunCost + m

\* A request that is done has left no hold, on the balance or under a limit, unless
\* nobody came back to it, its callback never came, or its agent's own trace id hid the
\* hold from the charge (_release_hold, _release_limits, charge_usage, reconcile).
NoHoldIsForgotten ==
    \A r \in Requests \ cut : At(r, "done") =>
        /\ hold[r] = "active" =>
             r \in ExecCalls /\ due[r] /\ (delivered[r] = 0 \/ r \in OwnTrace)
        /\ r \in Public => limit[r] # "active"
=============================================================================
