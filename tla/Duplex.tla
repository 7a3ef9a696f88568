-------------------------------- MODULE Duplex --------------------------------
(***************************************************************************)
(* The live sessions of the runtime and the one model slot they share      *)
(* (online_duplex.py): sockets that connect, start a session, drop, come   *)
(* back with the token of a parked session, stop or reset it; the timer    *)
(* that ends a parked session, the model opens whose client left, and the  *)
(* screen channel that follows a session.                                  *)
(*                                                                         *)
(* One asyncio loop: an action is what happens between two awaits.  A      *)
(* model is opened on a thread that no cancellation reaches.  A socket     *)
(* connects once.  The clock is left to chance: a grace period or a        *)
(* session's budget may end at any moment.                                 *)
(*                                                                         *)
(* Left out: what is said on the sockets (Delivery models the results),    *)
(* the tools of the Host, screen tokens and media modes, and the two       *)
(* refusals of a socket before it is looked at.                            *)
(***************************************************************************)
EXTENDS Naturals, FiniteSets

CONSTANTS
    Sockets,     \* connections to /ws/duplex; each also names the session it opens
    SessionIds,  \* values of the session_id parameter
    IdOf,        \* the session_id each socket asks for
    Screened,    \* sockets whose session may have a screen channel
    Rejoiners,   \* sockets whose client holds the resume token, once it is out
    Resetters,   \* sockets whose client may send a reset
    MaxFaults,   \* bound: opens, coordinators and detaches that fail
    NoSock,      \* no socket
    NoModel      \* no model

ASSUME SocketsAssumption ==
    /\ NoSock \notin Sockets /\ NoModel \notin Sockets \X {1, 2}
    /\ IdOf \in [Sockets -> SessionIds]
    /\ Screened \subseteq Sockets /\ Rejoiners \subseteq Sockets
    /\ Resetters \subseteq Sockets /\ MaxFaults \in Nat

\* The model a socket opens at startup, and the one its reset opens.  A model also
\* names the coordinator that is built on it.
Models == Sockets \X {1, 2}

Handler  == {"new", "resuming", "opening", "building", "starting", "serving", "stopping",
             "resetting", "clearing", "reopening", "rebuilding", "leaving", "detaching",
             "stopping_jobs", "freeing", "closing", "done"}
InReset  == {"resetting", "clearing", "reopening", "rebuilding"}
TimerPC  == {"none", "detaching", "waiting", "due", "stopping_jobs", "freeing", "closing",
             "done"}

VARIABLES
    locked,  \* runtime.model_lock
    table,   \* runtime.sessions: the socket that opened the session of an id
    act,     \* each _ActiveSession, by the socket that opened it
    model,   \* state of each model session
    jobs,    \* state of each coordinator
    sock,    \* each handler: where it is, its locals, and whether its client left
    timer,   \* expire_reconnect_grace of the session each socket parked
    fired,   \* the resumed events that are set, by the socket that parked
    orphan,  \* sockets whose open close_abandoned_open waits for
    screen,  \* the screen channel of each session
    faults   \* how much of the bound is used

dxVars == <<locked, table, act, model, jobs, sock, timer, fired, orphan, screen, faults>>

Active == [made : BOOLEAN, duplex : Models \cup {NoModel}, coord : Models \cup {NoModel},
           attached : BOOLEAN, stopped : BOOLEAN, released : BOOLEAN, ended : BOOLEAN,
           evt : Sockets \cup {NoSock}, token : BOOLEAN]

DxTypeOK ==
    /\ locked \in BOOLEAN
    /\ table \in [SessionIds -> Sockets \cup {NoSock}]
    /\ act \in [Sockets -> Active]
    /\ model \in [Models -> {"none", "opening", "open", "closed", "failed"}]
    /\ jobs \in [Models -> {"none", "live", "stopping", "stopped", "closed"}]
    /\ sock \in [Sockets -> [pc : Handler, sess : Sockets \cup {NoSock},
                             own : Models \cup {NoModel}, crd : Models \cup {NoModel},
                             gone : BOOLEAN, park : BOOLEAN]]
    /\ timer \in [Sockets -> [pc : TimerPC, evt : Sockets \cup {NoSock}]]
    /\ fired \subseteq Sockets \cup {NoSock} /\ orphan \subseteq Sockets
    /\ screen \in [Sockets -> {"none", "open", "closed"}]
    /\ faults \in 0..MaxFaults

DxInit ==
    /\ locked = FALSE
    /\ table = [i \in SessionIds |-> NoSock]
    /\ act = [s \in Sockets |->
                [made |-> FALSE, duplex |-> NoModel, coord |-> NoModel, attached |-> TRUE,
                 stopped |-> FALSE, released |-> FALSE, ended |-> FALSE, evt |-> NoSock,
                 token |-> FALSE]]
    /\ model = [m \in Models |-> "none"]
    /\ jobs = [m \in Models |-> "none"]
    /\ sock = [h \in Sockets |->
                 [pc |-> "new", sess |-> NoSock, own |-> NoModel, crd |-> NoModel,
                  gone |-> FALSE, park |-> FALSE]]
    /\ timer = [h \in Sockets |-> [pc |-> "none", evt |-> NoSock]]
    /\ fired = {} /\ orphan = {} /\ faults = 0
    /\ screen = [s \in Sockets |-> "none"]

Is(h, pc) == sock[h].pc = pc
Go(h, pc) == sock' = [sock EXCEPT ![h].pc = pc]
Fails     == faults < MaxFaults /\ faults' = faults + 1

-----------------------------------------------------------------------------
(* A socket arrives.  Nothing is awaited between the look at the table and   *)
(* the lock, but a resumed session is bound only in the startup task's first *)
(* step, an iteration of the loop after the check.                           *)

CanResume(h) ==
    LET s == table[IdOf[h]]
    IN  /\ h \in Rejoiners /\ s # NoSock
        /\ act[s].token /\ ~act[s].attached /\ ~act[s].stopped

ConnectResumes(h) ==
    /\ Is(h, "new") /\ CanResume(h)
    /\ sock' = [sock EXCEPT ![h].pc = "resuming", ![h].sess = table[IdOf[h]]]
    /\ UNCHANGED <<locked, table, act, model, jobs, timer, fired, orphan, screen, faults>>

ConnectBusy(h) ==
    /\ Is(h, "new") /\ ~CanResume(h) /\ locked
    /\ Go(h, "done")
    /\ UNCHANGED <<locked, table, act, model, jobs, timer, fired, orphan, screen, faults>>

ConnectFresh(h) ==
    /\ Is(h, "new") /\ ~CanResume(h) /\ ~locked
    /\ locked' = TRUE
    /\ model' = [model EXCEPT ![<<h, 1>>] = "opening"]
    /\ Go(h, "opening")
    /\ UNCHANGED <<table, act, jobs, timer, fired, orphan, screen, faults>>

Attach(h) ==
    /\ Is(h, "resuming")
    /\ LET a == act[sock[h].sess]
       IN  /\ act' = [act EXCEPT ![sock[h].sess].attached = TRUE]
           /\ fired' = fired \cup {a.evt}
           /\ sock' = [sock EXCEPT ![h].pc = "starting", ![h].own = a.duplex,
                                   ![h].crd = a.coord]
    /\ UNCHANGED <<locked, table, model, jobs, timer, orphan, screen, faults>>

-----------------------------------------------------------------------------
(* Startup: the model on its thread, the session, the coordinator, "ready".  *)

Opened(m) ==
    /\ model[m] = "opening"
    /\ \/ model' = [model EXCEPT ![m] = "open"] /\ UNCHANGED faults
       \/ model' = [model EXCEPT ![m] = "failed"] /\ Fails
    /\ UNCHANGED <<locked, table, act, jobs, sock, timer, fired, orphan, screen>>

\* "await asyncio.shield(open_task)" returns.
TakeOpen(h) ==
    /\ Is(h, "opening") /\ model[<<h, 1>>] = "open"
    /\ act' = [act EXCEPT ![h].made = TRUE, ![h].duplex = <<h, 1>>]
    /\ table' = [table EXCEPT ![IdOf[h]] = h]
    /\ sock' = [sock EXCEPT ![h].pc = "building", ![h].sess = h, ![h].own = <<h, 1>>]
    /\ UNCHANGED <<locked, model, jobs, timer, fired, orphan, screen, faults>>

OpenRaises(h) ==
    /\ Is(h, "opening") /\ model[<<h, 1>>] = "failed"
    /\ Go(h, "leaving")
    /\ UNCHANGED <<locked, table, act, model, jobs, timer, fired, orphan, screen, faults>>

Built(h) ==
    /\ Is(h, "building")
    /\ \/ /\ jobs' = [jobs EXCEPT ![<<h, 1>>] = "live"]
          /\ act' = [act EXCEPT ![h].coord = <<h, 1>>]
          /\ sock' = [sock EXCEPT ![h].pc = "starting", ![h].crd = <<h, 1>>]
          /\ UNCHANGED faults
       \/ Fails /\ Go(h, "leaving") /\ UNCHANGED <<jobs, act>>
    /\ UNCHANGED <<locked, table, model, timer, fired, orphan, screen>>

\* The ready message carries the resume token.
Ready(h) ==
    /\ Is(h, "starting")
    /\ act' = [act EXCEPT ![sock[h].sess].token = TRUE]
    /\ Go(h, "serving")
    /\ UNCHANGED <<locked, table, model, jobs, timer, fired, orphan, screen, faults>>

\* The client leaves during startup, or sends too much: startup is cancelled.
LeaveEarly(h) ==
    /\ sock[h].pc \in {"opening", "building", "starting"}
    /\ sock[h].gone
    /\ sock' = [sock EXCEPT ![h].pc = "leaving", ![h].park = TRUE]
    /\ UNCHANGED <<locked, table, act, model, jobs, timer, fired, orphan, screen, faults>>

Flood(h) ==
    /\ sock[h].pc \in {"opening", "building", "starting"}
    /\ Go(h, "leaving")
    /\ UNCHANGED <<locked, table, act, model, jobs, timer, fired, orphan, screen, faults>>

-----------------------------------------------------------------------------
(* The main loop, and how a connection leaves it.                            *)

\* Environment: the client's side of the connection is gone.
Drops(h) ==
    /\ sock[h].pc \notin {"new", "done"} /\ ~sock[h].gone
    /\ sock' = [sock EXCEPT ![h].gone = TRUE]
    /\ UNCHANGED <<locked, table, act, model, jobs, timer, fired, orphan, screen, faults>>

Disconnects(h) ==
    /\ Is(h, "serving") /\ sock[h].gone
    /\ sock' = [sock EXCEPT ![h].pc = "leaving", ![h].park = TRUE]
    /\ UNCHANGED <<locked, table, act, model, jobs, timer, fired, orphan, screen, faults>>

\* The session's time is over, or an operation of the loop raised.
Ends(h) ==
    /\ Is(h, "serving") /\ Go(h, "leaving")
    /\ UNCHANGED <<locked, table, act, model, jobs, timer, fired, orphan, screen, faults>>

Stop(h) ==
    /\ Is(h, "serving") /\ ~sock[h].gone
    /\ act' = [act EXCEPT ![sock[h].sess].stopped = TRUE]
    /\ Go(h, "stopping")
    /\ UNCHANGED <<locked, table, model, jobs, timer, fired, orphan, screen, faults>>

CloseModel(m) == IF m # NoModel /\ model[m] = "open"
                 THEN model' = [model EXCEPT ![m] = "closed"] ELSE UNCHANGED model

\* The session is drained, which closes the model; unless the client has gone meanwhile.
StopEnds(h) ==
    /\ Is(h, "stopping")
    /\ \/ CloseModel(sock[h].own) /\ Go(h, "leaving")
       \/ /\ sock[h].gone /\ UNCHANGED model
          /\ sock' = [sock EXCEPT ![h].pc = "leaving", ![h].park = TRUE]
    /\ UNCHANGED <<locked, table, act, jobs, timer, fired, orphan, screen, faults>>

\* A reset: close the coordinator, close the model, open another, build another
\* coordinator.  The loop then refers to forward_tool_outputs, a name of run_startup
\* alone: it raises, and the connection leaves with an error.
Reset(h) ==
    /\ Is(h, "serving") /\ h \in Resetters /\ ~sock[h].gone
    /\ act' = [act EXCEPT ![sock[h].sess].coord = NoModel]
    /\ Go(h, "resetting")
    /\ UNCHANGED <<locked, table, model, jobs, timer, fired, orphan, screen, faults>>

ResetCloses(h) ==
    /\ Is(h, "resetting")
    /\ jobs' = [jobs EXCEPT ![sock[h].crd] = "closed"]
    /\ sock' = [sock EXCEPT ![h].pc = "clearing", ![h].crd = NoModel]
    /\ UNCHANGED <<locked, table, act, model, timer, fired, orphan, screen, faults>>

ResetReopens(h) ==
    /\ Is(h, "clearing")
    /\ model' = [model EXCEPT ![sock[h].own] = "closed", ![<<h, 2>>] = "opening"]
    /\ Go(h, "reopening")
    /\ UNCHANGED <<locked, table, act, jobs, timer, fired, orphan, screen, faults>>

ResetOpened(h) ==
    /\ Is(h, "reopening") /\ model[<<h, 2>>] \in {"open", "failed"}
    /\ sock' = IF model[<<h, 2>>] = "open"
               THEN [sock EXCEPT ![h].pc = "rebuilding", ![h].own = <<h, 2>>]
               ELSE [sock EXCEPT ![h].pc = "leaving"]
    /\ UNCHANGED <<locked, table, act, model, jobs, timer, fired, orphan, screen, faults>>

ResetRebuilds(h) ==
    /\ Is(h, "rebuilding")
    /\ \/ /\ jobs' = [jobs EXCEPT ![<<h, 2>>] = "live"]
          /\ act' = [act EXCEPT ![sock[h].sess].duplex = <<h, 2>>,
                                ![sock[h].sess].coord = <<h, 2>>]
          /\ sock' = [sock EXCEPT ![h].pc = "leaving", ![h].crd = <<h, 2>>]
          /\ UNCHANGED faults
       \/ Fails /\ Go(h, "leaving") /\ UNCHANGED <<jobs, act>>
    /\ UNCHANGED <<locked, table, model, timer, fired, orphan, screen>>

-----------------------------------------------------------------------------
(* The end of a handler: it parks the session, leaves the open to a task, or *)
(* tears the session down.  Handlers and timers tear down in the same steps. *)

\* A faulty variant: a parked session keeps the resumed event it had.
Leave_SameEvent(h) ==
    /\ Is(h, "leaving")
    /\ LET s == sock[h].sess IN
       IF sock[h].park /\ s # NoSock /\ ~act[s].stopped /\ table[IdOf[h]] = s
       THEN /\ act' = [act EXCEPT ![s].attached = FALSE]
            /\ timer' = [timer EXCEPT ![h].pc = "detaching"]
            /\ Go(h, "done") /\ UNCHANGED orphan
       ELSE /\ IF sock[h].own = NoModel
               THEN orphan' = orphan \cup {h} /\ Go(h, "done")
               ELSE Go(h, "detaching") /\ UNCHANGED orphan
            /\ UNCHANGED <<act, timer>>
    /\ UNCHANGED <<locked, table, model, jobs, fired, screen, faults>>

Leave(h) ==
    /\ Is(h, "leaving")
    /\ LET s == sock[h].sess IN
       IF sock[h].park /\ s # NoSock /\ ~act[s].stopped /\ table[IdOf[h]] = s
       THEN /\ act' = [act EXCEPT ![s].attached = FALSE, ![s].evt = h]
            /\ timer' = [timer EXCEPT ![h].pc = "detaching"]
            /\ Go(h, "done") /\ UNCHANGED orphan
       ELSE /\ IF sock[h].own = NoModel
               THEN orphan' = orphan \cup {h} /\ Go(h, "done")
               ELSE Go(h, "detaching") /\ UNCHANGED orphan
            /\ UNCHANGED <<act, timer>>
    /\ UNCHANGED <<locked, table, model, jobs, fired, screen, faults>>

\* Faulty variants: the session can still be found; its screen is told nothing.
EndSession_Kept(s, c) ==
    /\ act' = [act EXCEPT ![s].ended = TRUE]
    /\ jobs' = IF c # NoModel /\ jobs[c] = "live" THEN [jobs EXCEPT ![c] = "stopping"]
               ELSE jobs
    /\ UNCHANGED table

EndSession_Silent(s, c) ==
    /\ table' = [table EXCEPT ![IdOf[s]] = IF @ = s THEN NoSock ELSE @]
    /\ jobs' = IF c # NoModel /\ jobs[c] = "live" THEN [jobs EXCEPT ![c] = "stopping"]
               ELSE jobs
    /\ UNCHANGED act

\* The session is no longer found, its screen learns of the end, and
\* stop_model_jobs begins; it returns at once if it was called before.
EndSession(s, c) ==
    /\ table' = [table EXCEPT ![IdOf[s]] = IF @ = s THEN NoSock ELSE @]
    /\ act' = [act EXCEPT ![s].ended = TRUE]
    /\ jobs' = IF c # NoModel /\ jobs[c] = "live" THEN [jobs EXCEPT ![c] = "stopping"]
               ELSE jobs

JobsStopped(waited, c) ==
    jobs' = IF waited /\ jobs[c] = "stopping" THEN [jobs EXCEPT ![c] = "stopped"] ELSE jobs

AfterEnd(c) == IF c # NoModel /\ jobs[c] = "live" THEN "stopping_jobs" ELSE "freeing"

\* The model is closed and the slot released, once, without an await between them.
FreeSlot(s, m) ==
    /\ CloseModel(m)
    /\ locked' = (locked /\ act[s].released)
    /\ act' = [act EXCEPT ![s].released = TRUE]

AfterFree(c) == IF c # NoModel THEN "closing" ELSE "done"

Detach(h) ==
    /\ Is(h, "detaching")
    /\ \/ /\ EndSession(sock[h].sess, sock[h].crd)
          /\ Go(h, AfterEnd(sock[h].crd)) /\ UNCHANGED faults
       \/ Fails /\ Go(h, "freeing") /\ UNCHANGED <<table, act, jobs>>
    /\ UNCHANGED <<locked, model, timer, fired, orphan, screen>>

Frees(h) ==
    /\ sock[h].pc \in {"stopping_jobs", "freeing"}
    /\ JobsStopped(Is(h, "stopping_jobs"), sock[h].crd)
    /\ FreeSlot(sock[h].sess, sock[h].own)
    /\ Go(h, AfterFree(sock[h].crd))
    /\ UNCHANGED <<table, timer, fired, orphan, screen, faults>>

Closes(h) ==
    /\ Is(h, "closing")
    /\ jobs' = [jobs EXCEPT ![sock[h].crd] = "closed"]
    /\ Go(h, "done")
    /\ UNCHANGED <<locked, table, act, model, timer, fired, orphan, screen, faults>>

\* A faulty variant: the slot of an abandoned open is released at once.
CloseOrphan_Early(h) ==
    /\ h \in orphan
    /\ CloseModel(<<h, 1>>)
    /\ locked' = FALSE
    /\ orphan' = orphan \ {h}
    /\ UNCHANGED <<table, act, jobs, sock, timer, fired, screen, faults>>

\* close_abandoned_open: the slot is held until the model exists and is closed.
CloseOrphan(h) ==
    /\ h \in orphan /\ model[<<h, 1>>] # "opening"
    /\ CloseModel(<<h, 1>>)
    /\ locked' = FALSE
    /\ orphan' = orphan \ {h}
    /\ UNCHANGED <<table, act, jobs, sock, timer, fired, screen, faults>>

-----------------------------------------------------------------------------
(* expire_reconnect_grace: detach, wait for a resume, end the session.       *)

Held(h) == sock[h].sess
Tick(h, pc) == timer' = [timer EXCEPT ![h].pc = pc]

\* The connection is detached, or failed to be; the event waited for is the session's
\* current one, not the one of the moment it was parked.
TimerDetached(h) ==
    /\ timer[h].pc = "detaching"
    /\ timer' = [timer EXCEPT ![h] = [pc |-> "waiting", evt |-> act[Held(h)].evt]]
    /\ UNCHANGED <<locked, table, act, model, jobs, sock, fired, orphan, screen, faults>>

TimerWakes(h) ==
    /\ timer[h].pc = "waiting"
    /\ Tick(h, IF timer[h].evt \in fired THEN "done" ELSE "due")
    /\ UNCHANGED <<locked, table, act, model, jobs, sock, fired, orphan, screen, faults>>

TimerExpires(h) ==
    /\ timer[h].pc = "due"
    /\ IF act[Held(h)].attached
       THEN Tick(h, "done") /\ UNCHANGED <<table, act, jobs>>
       ELSE /\ EndSession(Held(h), act[Held(h)].coord)
            /\ Tick(h, AfterEnd(act[Held(h)].coord))
    /\ UNCHANGED <<locked, model, sock, fired, orphan, screen, faults>>

\* A socket that passed the check is bound in the next iteration of the loop, before
\* cancelled jobs can have ended.
TimerFrees(h) ==
    /\ timer[h].pc \in {"stopping_jobs", "freeing"}
    /\ \A j \in Sockets : ~(Is(j, "resuming") /\ sock[j].sess = Held(h))
    /\ JobsStopped(timer[h].pc = "stopping_jobs", act[Held(h)].coord)
    /\ FreeSlot(Held(h), act[Held(h)].duplex)
    /\ Tick(h, AfterFree(act[Held(h)].coord))
    /\ UNCHANGED <<table, sock, fired, orphan, screen, faults>>

TimerCloses(h) ==
    /\ timer[h].pc = "closing"
    /\ jobs' = [jobs EXCEPT ![act[Held(h)].coord] = "closed"]
    /\ Tick(h, "done")
    /\ UNCHANGED <<locked, table, act, model, sock, fired, orphan, screen, faults>>

-----------------------------------------------------------------------------
(* The screen channel of a session.                                          *)

ScreenOpens(s) ==
    /\ s \in Screened /\ screen[s] = "none" /\ act[s].token /\ table[IdOf[s]] = s
    /\ screen' = [screen EXCEPT ![s] = "open"]
    /\ UNCHANGED <<locked, table, act, model, jobs, sock, timer, fired, orphan, faults>>

\* It ends when it learns of the session's end, or by itself.
ScreenSeesEnd(s) ==
    /\ screen[s] = "open" /\ act[s].ended
    /\ screen' = [screen EXCEPT ![s] = "closed"]
    /\ UNCHANGED <<locked, table, act, model, jobs, sock, timer, fired, orphan, faults>>

ScreenLeaves(s) ==
    /\ screen[s] = "open" /\ screen' = [screen EXCEPT ![s] = "closed"]
    /\ UNCHANGED <<locked, table, act, model, jobs, sock, timer, fired, orphan, faults>>

-----------------------------------------------------------------------------
Handles(h) ==
    \/ Attach(h) \/ TakeOpen(h) \/ OpenRaises(h) \/ Built(h) \/ Ready(h) \/ LeaveEarly(h)
    \/ Disconnects(h) \/ StopEnds(h) \/ ResetCloses(h) \/ ResetReopens(h) \/ ResetOpened(h)
    \/ ResetRebuilds(h) \/ Leave(h) \/ Detach(h) \/ Frees(h) \/ Closes(h)

Ticks(h) ==
    \/ TimerDetached(h) \/ TimerWakes(h) \/ TimerExpires(h) \/ TimerFrees(h)
    \/ TimerCloses(h)

Client(h) ==
    \/ ConnectResumes(h) \/ ConnectBusy(h) \/ ConnectFresh(h)
    \/ Flood(h) \/ Drops(h) \/ Ends(h) \/ Stop(h) \/ Reset(h)

Screens(s) == ScreenOpens(s) \/ ScreenSeesEnd(s) \/ ScreenLeaves(s)

DxNext ==
    \/ \E h \in Sockets : Handles(h) \/ Ticks(h) \/ CloseOrphan(h) \/ Client(h) \/ Screens(h)
    \/ \E m \in Models : Opened(m)

\* The loop runs every task that can go on, an open ends and so does a grace period; a
\* client need do nothing.
DxFairness ==
    /\ \A h \in Sockets : /\ WF_dxVars(Handles(h)) /\ WF_dxVars(Ticks(h))
                          /\ WF_dxVars(CloseOrphan(h)) /\ WF_dxVars(ScreenSeesEnd(h))
    /\ \A m \in Models : WF_dxVars(Opened(m))

DxSpec     == DxInit /\ [][DxNext]_dxVars
DxFairSpec == DxSpec /\ DxFairness

-----------------------------------------------------------------------------
(* Properties.                                                               *)

\* There is at most one model being opened or open, and only while the slot is taken:
\* no path of handler, timer and abandoned open releases it early, twice, or for another
\* session (release_model_slot, online_duplex.py:2482; close_abandoned_open, 2516).
Alive == {m \in Models : model[m] \in {"opening", "open"}}
SlotIsOwned ==
    \A m, n \in Alive : locked /\ m = n

\* A session held for its client is whole: its model is open, its coordinator at work,
\* and its slot is not given away (expire_reconnect_grace, online_duplex.py:2526).
HeldIsWhole ==
    \A s \in Sockets :
        /\ act[s].made /\ ~act[s].attached /\ ~act[s].stopped /\ table[IdOf[s]] = s
        => /\ model[act[s].duplex] = "open" /\ ~act[s].released /\ ~act[s].ended
           /\ act[s].coord # NoModel => jobs[act[s].coord] = "live"

\* The slot is not lost: it is again and again free, or taken for a client that is there
\* (online_duplex.py:3582).
Present(h)  == sock[h].pc \notin {"new", "done"} /\ ~sock[h].gone
SlotIsFreed == []<>(locked => \E h \in Sockets : Present(h))

\* Without a failure, the screen channel does not outlive the session
\* (online_duplex.py:2548, 3563).
ScreenEnds ==
    \A s \in Sockets : act[s].released ~> (screen[s] # "open" \/ faults > 0)

\* A client that is back in its session keeps it: the session is torn down if nobody
\* returns (online_duplex.py:2518, 2542).
RejoinedIsKept ==
    \A h \in Sockets : Is(h, "serving") /\ ~sock[h].gone => model[sock[h].own] = "open"

\* A reset that opened a new model and coordinator goes on with the session.
ResetKeepsTheSession ==
    [][\A h \in Sockets : Is(h, "rebuilding") /\ faults' = faults
                          => sock'[h].pc \in {"rebuilding", "serving"}]_dxVars
=============================================================================
