------------------------------- MODULE MCOnce -------------------------------
(***************************************************************************)
(* What is asked or reported more than once counts once: the calls of a    *)
(* session's model (ToolCalls), and the callbacks of a run's model calls   *)
(* (Billing).  They share no state, and a behaviour is of one of them.     *)
(***************************************************************************)
EXTENDS ToolCalls

CONSTANTS l1, s1, c1, c2, e1, NoOne

VARIABLES part, ledger, hold, limit, usage, cost, debits, run, pc, seen, loop, due,
          delivered, crashes, cut, slipped

moneyVars == <<ledger, hold, limit, usage, cost, debits, run, pc, seen, loop, due,
               delivered, crashes, cut, slipped>>

MCLocals  == {l1}
MCDesktop == {1, 2, l1}

\* A stream whose client may leave, two model calls of a run, one of them with repeated
\* and late callbacks, a repeated Stripe event and a crash.
B == INSTANCE Billing WITH
        Calls <- {}, Streams <- {s1}, Leavers <- {s1}, ExecCalls <- {c1, c2}, Late <- {c1},
        OwnTrace <- {}, Payments <- {e1}, Costs <- {1}, Estimate <- 2, Credit <- 2,
        Opening <- 2, Cap <- 4, MaxModelCalls <- 3, MaxRunCost <- 2, MaxDeliveries <- 2,
        MaxCrashes <- 1

\* One fault of socket or model's session, and only a lost socket beside the typed command.
Typed    == \E k \in DOMAIN work' : work'[k].call = l1
OneFault == drops' + failures' <= 1 /\ (Typed => failures' = 0)

\* A crash, without the second call of the run.
Crashed == crashes' > 0 => pc'[c2] = "idle"

MCInit == Init /\ B!Init /\ part \in {"calls", "money"}
MCNext ==
    \/ part = "calls" /\ Next /\ OneFault /\ UNCHANGED <<part, moneyVars>>
    \/ part = "money" /\ B!Next /\ Crashed /\ UNCHANGED <<part, vars>>

MCSpec == MCInit /\ [][MCNext]_<<part, vars, moneyVars>>

\* Billing's property: the balance is the opening one, the payments and the charges, each
\* once.
LedgerIsExplained == B!LedgerIsExplained
=============================================================================
