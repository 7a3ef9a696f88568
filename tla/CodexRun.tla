------------------------------ MODULE CodexRun ------------------------------
(***************************************************************************)
(* A run of the Codex worker (providers/codex.py): the turns it starts on  *)
(* the thread of one private app-server process, the user's words and      *)
(* answers it passes on, the side queries it forks, its cancellation and   *)
(* its close.                                                              *)
(*                                                                         *)
(* One asyncio loop.  A call of the gateway is a sequence of steps, each   *)
(* ending at an await; the owner's calls on a run come one at a time, and  *)
(* the run's dispatch makes calls of its own beside them (it replays       *)
(* queued commands and closes the run).  A request and its response are    *)
(* one step: what the server says of a turn comes after the response that  *)
(* names the turn.  A request that fails may have been served all the      *)
(* same.  The gateway waits 30 s for a call and then gives it up: it is    *)
(* cancelled at the await it has reached.                                  *)
(*                                                                         *)
(* The server is external: a thread has one turn at a time, a turn may ask *)
(* the client and goes on when it is answered.  The notifications come in  *)
(* order.  Left out: the shares of a worker, the terminal fork (a run that *)
(* answers one query), archiving, replace, the parts of a long question.   *)
(***************************************************************************)
EXTENDS Naturals, Sequences, FiniteSets

CONSTANTS
    CxRuns,        \* runs the gateway starts on the backend
    CxAsks,        \* what the worker may ask during one run
    CxQueries,     \* names for the side queries of a run
    Sides,         \* the side queries there may be: pairs of a run and a name
    Queued,        \* runs whose task was sent a message before they started
    MaxTurns,      \* bound: turns of one run
    MaxCxFaults,   \* bound: requests that fail, calls the gateway gives up, crashes
    NoRun, NoQuery \* nothing

ASSUME CxAssumption ==
    /\ MaxTurns \in Nat /\ MaxCxFaults \in Nat
    /\ IsFiniteSet(CxQueries) /\ Sides \subseteq CxRuns \X CxQueries
    /\ NoRun \notin CxRuns /\ NoQuery \notin CxQueries

CxTurns   == 1..MaxTurns
Callers == {"owner", "dispatch"}

VARIABLES
    srv,       \* external: the app-server process, and whether the worker has its client
    mail,      \* client.notifications, not yet seen by _watch_notifications
    slot,      \* _active_run of the backend
    route,     \* the run the tool router is bound to
    cx,        \* each run: its fields, and its turns in worker._turn_runs
    ccall,     \* the calls of the gateway in progress
    sq,        \* _finish_side_query of each side query
    cxfaults   \* how much of the bound is used

cxVars == <<srv, mail, slot, route, cx, ccall, sq, cxfaults>>

NoCxCall == [pc |-> "idle", kind |-> "none", arg |-> NoQuery]

CxInit ==
    /\ srv = [up   |-> TRUE, client |-> TRUE,
              n    |-> [r \in CxRuns |-> 0], busy |-> [r \in CxRuns |-> FALSE],
              ask  |-> [r \in CxRuns |-> [k \in CxAsks |-> "none"]],
              side |-> [y \in Sides |-> "none"]]
    /\ mail = <<>> /\ slot = NoRun /\ route = NoRun
    /\ cx = [r \in CxRuns |->
                [started |-> FALSE, closed |-> FALSE, active |-> 0, reg |-> {},
                 done |-> {}, expected |-> {}, pend |-> {}, side |-> NoQuery,
                 stream |-> "none", queued |-> r \in Queued,
                 overlap |-> FALSE, late |-> FALSE, cut |-> FALSE]]
    /\ ccall = [r \in CxRuns |-> [c \in Callers |-> NoCxCall]]
    /\ sq = [y \in Sides |-> "none"] /\ cxfaults = 0

Ends == {"completed", "interrupted"}      \* completed or failed: both are a result

CxTypeOK ==
    /\ srv.up \in BOOLEAN /\ srv.client \in BOOLEAN /\ srv.n \in [CxRuns -> 0..MaxTurns]
    /\ srv.busy \in [CxRuns -> BOOLEAN]
    /\ srv.ask \in [CxRuns -> [CxAsks -> {"none", "open", "answered", "refused", "void"}]]
    /\ srv.side \in [Sides -> {"none", "idle", "running", "ended", "released"}]
    /\ slot \in CxRuns \cup {NoRun} /\ route \in CxRuns \cup {NoRun}
    /\ cx \in [CxRuns ->
          [started : BOOLEAN, closed : BOOLEAN, active : 0..MaxTurns, reg : SUBSET CxTurns,
           done : SUBSET CxTurns, expected : SUBSET CxTurns, pend : SUBSET CxAsks,
           side : CxQueries \cup {NoQuery}, queued : BOOLEAN,
           overlap : BOOLEAN, late : BOOLEAN, cut : BOOLEAN,
           stream : {"none", "open", "result", "side_result", "ended"}]]
    /\ ccall \in [CxRuns -> [Callers ->
          [pc : {"idle", "thread", "turn", "side", "steer", "fork", "side_turn", "answer",
                 "tell", "interrupt", "wait", "restart", "starting", "finish"},
           kind : {"none", "start", "steer", "query", "respond", "cancel", "end", "close"},
           arg : CxQueries \cup CxAsks \cup {NoQuery} \cup CxTurns]]]
    /\ sq \in [Sides -> {"none", "wait", "answered", "dispose", "aborted",
                      "release", "done"}]
    /\ cxfaults \in 0..MaxCxFaults

-----------------------------------------------------------------------------
CxFault   == cxfaults < MaxCxFaults /\ cxfaults' = cxfaults + 1
NoFault   == UNCHANGED cxfaults
CallAt(r, c, pc) == ccall[r][c].pc = pc
Goes(r, c, pc)   == ccall' = [ccall EXCEPT ![r][c].pc = pc]
Returns(r, c)    == ccall' = [ccall EXCEPT ![r][c] = NoCxCall]
InUse(r)         == cx[r].started /\ ~cx[r].closed
Restarting       == \E r \in CxRuns : CallAt(r, "owner", "starting")    \* _start_lock

BeingEnded(r)    ==
    cx[r].closed \/ \E c \in Callers : ccall[r][c].kind \in {"cancel", "close", "end"}

\* The turn of run r is over on the server; its open questions are void.
TurnOver(s, r) ==
    [s EXCEPT !.busy[r] = FALSE,
              !.ask[r] = [k \in CxAsks |-> IF @[k] = "open" THEN "void" ELSE @[k]]]
\* The process goes, with its threads and its turns; one that is started is empty.
ServerDown(s) ==
    [s EXCEPT !.up = FALSE, !.busy = [r \in CxRuns |-> FALSE],
              !.ask = [r \in CxRuns |-> TurnOver(s, r).ask[r]],
              !.side = [y \in Sides |-> IF @[y] = "none" THEN "none" ELSE "released"]]
Restarted(s) == [ServerDown(s) EXCEPT !.up = TRUE, !.client = TRUE]
Says(r, what, x) == mail' = Append(mail, [run |-> r, what |-> what, arg |-> x])

Concluded(stream, what) == IF stream = "open" THEN what ELSE stream

-----------------------------------------------------------------------------
(* Starting: _CodexBackend._start, _CodexRun.start.                          *)

\* The gateway starts a run once the dispatch of every other is over.  A worker that
\* lost its client starts one before the run is made (_ensure_worker).
StartRun(r) ==
    /\ ~cx[r].started /\ \A u \in CxRuns : ccall[u]["dispatch"] = NoCxCall
                                           /\ (InUse(u) => cx[u].stream = "none")
    /\ slot \in {NoRun} \cup {u \in CxRuns : cx[u].closed}
    /\ slot' = r /\ cx' = [cx EXCEPT ![r].started = TRUE]
    /\ ccall' = [ccall EXCEPT ![r]["dispatch"] =
                    [pc |-> "thread", kind |-> "start", arg |-> NoQuery]]
    /\ \/ srv.client /\ UNCHANGED srv
       \/ ~srv.client /\ ~Restarting /\ srv' = Restarted(srv)
    /\ UNCHANGED <<mail, route, sq, cxfaults>>

\* start failed: _close without its interrupt coming to anything, then the slot
Aborts(r) ==
    /\ cx' = [cx EXCEPT ![r].closed = TRUE, ![r].pend = {}, ![r].stream = "ended"]
    /\ route' = IF route = r THEN NoRun ELSE route
    /\ slot' = IF slot = r THEN NoRun ELSE slot
    /\ Returns(r, "dispatch")

OpenThread(r) ==
    /\ CallAt(r, "dispatch", "thread")
    /\ \/ srv.up /\ route' = r /\ Goes(r, "dispatch", "turn") /\ NoFault
          /\ UNCHANGED <<slot, cx>>
       \/ ((~srv.up /\ NoFault) \/ CxFault) /\ Aborts(r)
    /\ UNCHANGED <<srv, mail, sq>>

\* _start_turn, of the start and of a steer that found no turn to steer
TurnBegins(r) ==
    /\ srv.up /\ ~srv.busy[r] /\ srv.n[r] < MaxTurns
    /\ srv' = [srv EXCEPT !.n[r] = @ + 1, !.busy[r] = TRUE]

StartTurn(r, c) ==
    /\ CallAt(r, c, "turn")
    /\ \/ /\ TurnBegins(r) /\ NoFault /\ Returns(r, c)
          /\ cx' = [cx EXCEPT ![r].active = srv.n[r] + 1, ![r].reg = @ \cup {srv.n[r] + 1},
                              ![r].late = @ \/ BeingEnded(r),
                              ![r].stream = IF @ = "none" THEN "open" ELSE @]
          /\ UNCHANGED <<slot, route>>
       \/ /\ \/ (~srv.up \/ srv.busy[r] \/ srv.n[r] = MaxTurns) /\ NoFault /\ UNCHANGED srv
             \/ CxFault /\ (UNCHANGED srv \/ TurnBegins(r))
          /\ IF ccall[r][c].kind = "start" THEN Aborts(r)
             ELSE Returns(r, c) /\ UNCHANGED <<cx, slot, route>>
    /\ UNCHANGED <<mail, sq>>

-----------------------------------------------------------------------------
(* The calls of the gateway.  The ones of the owner, and those that replay,  *)
(* need the run in _runtime_runs: its start returned and no result was taken *)
(* yet.                                                                      *)

MaySend(r, c) == InUse(r) /\ cx[r].stream = "open" /\ ccall[r][c] = NoCxCall
\* The dispatch replays what was queued; the owner's calls are as many as they are.
Sends(r, c) ==
    IF c = "owner" THEN UNCHANGED cx
    ELSE cx[r].queued /\ cx' = [cx EXCEPT ![r].queued = FALSE]

\* _cancel_side_query: the task of the side query that is there is cancelled, and the
\* call waits until it is over.  One that is disposing of its query is cancelled too:
\* when its interrupt is on its way, the fork is neither forgotten nor released.
CancelSide(r) ==
    LET y == <<r, cx[r].side>> IN
    IF cx[r].side = NoQuery THEN UNCHANGED sq
    ELSE \/ sq[y] = "wait" /\ sq' = [sq EXCEPT ![y] = "dispose"]
         \/ sq[y] # "wait" /\ UNCHANGED sq
         \/ sq[y] = "dispose" /\ sq' = [sq EXCEPT ![y] = "aborted"]
WaitsForSide(r, c, kind) ==
    /\ CancelSide(r)
    /\ ccall' = [ccall EXCEPT ![r][c] = [pc |-> "side", kind |-> kind, arg |-> cx[r].side]]

SteerRun(r, c) ==
    /\ MaySend(r, c) /\ Sends(r, c) /\ WaitsForSide(r, c, "steer")
    /\ UNCHANGED <<srv, mail, slot, route, cxfaults>>

\* The bound: as many as there are names.
NewNames(r) == {x \in CxQueries : <<r, x>> \in Sides /\ srv.side[<<r, x>>] = "none"}
Asking(r)   == {c \in Callers : ccall[r][c].kind = "query" /\ ~CallAt(r, c, "side_turn")}
Query(r, c) ==
    /\ MaySend(r, c) /\ Sends(r, c) /\ Cardinality(NewNames(r)) > Cardinality(Asking(r))
    /\ WaitsForSide(r, c, "query")
    /\ UNCHANGED <<srv, mail, slot, route, cxfaults>>

\* A faulty variant: the interaction is resolved before its answer is sent.
Respond_ResolvesFirst(r, c) ==
    /\ MaySend(r, c) /\ c = "owner"
    /\ \E k \in cx[r].pend :
          /\ \A d \in Callers : ccall[r][d].kind # "respond"
          /\ ccall' = [ccall EXCEPT ![r][c] = [pc |-> "answer", kind |-> "respond", arg |-> k]]
          /\ cx' = [cx EXCEPT ![r].pend = @ \ {k}]
    /\ UNCHANGED <<srv, mail, slot, route, sq, cxfaults>>

\* _pending_interactions is read under its lock; the answer is sent outside it.
Respond(r, c) ==
    /\ MaySend(r, c) /\ Sends(r, c)
    /\ \E k \in cx[r].pend :
          /\ \A d \in Callers : ccall[r][d].kind # "respond"
          /\ ccall' = [ccall EXCEPT ![r][c] = [pc |-> "answer", kind |-> "respond", arg |-> k]]
    /\ UNCHANGED <<srv, mail, slot, route, sq, cxfaults>>

Cancel(r) ==
    /\ MaySend(r, "owner") /\ WaitsForSide(r, "owner", "cancel")
    /\ UNCHANGED <<srv, mail, slot, route, cx, cxfaults>>

\* The dispatch closes a run whose result it took, whose cancellation it saw, or
\* for which it failed; a run that is closed is left alone.
Close(r) ==
    /\ cx[r].started /\ ~cx[r].closed /\ ccall[r]["dispatch"] = NoCxCall
    /\ (cx[r].stream \in {"result", "side_result"} /\ NoFault) \/ CxFault
    /\ cx' = [cx EXCEPT ![r].closed = TRUE]
    /\ WaitsForSide(r, "dispatch", "close")
    /\ UNCHANGED <<srv, mail, slot, route>>

\* steer, when there is no turn to steer: nothing looks whether the run was closed
\* since the call began.
StartsAnew(r, c) ==
    /\ Goes(r, c, "turn") /\ route' = r
    /\ cx' = [cx EXCEPT ![r].late = @ \/ BeingEnded(r)]

\* The side query is gone, and the call goes on.
AfterSide(kind) ==
    CASE kind = "steer" -> "steer" [] kind = "query" -> "fork"
      [] kind \in {"cancel", "close"} -> "interrupt" [] kind = "end" -> "finish"

SideGone(r, c) ==
    /\ CallAt(r, c, "side")
    /\ LET call == ccall[r][c] IN
       /\ call.arg # NoQuery => sq[r, call.arg] \in {"done", "aborted"}
       /\ IF call.kind = "steer" /\ ~srv.client THEN Returns(r, c) /\ UNCHANGED <<cx, route>>
          ELSE IF call.kind = "steer" /\ cx[r].active = 0 THEN StartsAnew(r, c)
          ELSE /\ Goes(r, c, AfterSide(call.kind)) /\ UNCHANGED route
               /\ cx' = IF call.kind \in {"close", "end"}
                        THEN [cx EXCEPT ![r].pend = {}] ELSE cx
    /\ UNCHANGED <<srv, mail, slot, sq, cxfaults>>

\* turn/steer; the server refuses it when the turn it names is over, and a turn is
\* started instead.
SteerTurn(r, c) ==
    /\ CallAt(r, c, "steer")
    /\ \/ srv.up /\ srv.busy[r] /\ srv.n[r] = cx[r].active /\ NoFault
          /\ Returns(r, c) /\ UNCHANGED <<cx, route>>
       \/ (~srv.up \/ ~srv.busy[r] \/ srv.n[r] # cx[r].active) /\ NoFault /\ StartsAnew(r, c)
       \/ CxFault /\ StartsAnew(r, c)
    /\ UNCHANGED <<srv, mail, slot, sq>>

\* thread/fork
Fork(r, c) ==
    /\ CallAt(r, c, "fork")
    /\ LET x == CHOOSE new \in NewNames(r) : TRUE
           y == <<r, x>> IN
       \/ srv.up /\ srv' = [srv EXCEPT !.side[y] = "idle"] /\ NoFault
          /\ ccall' = [ccall EXCEPT ![r][c].pc = "side_turn", ![r][c].arg = x]
       \/ ~srv.up /\ NoFault /\ Returns(r, c) /\ UNCHANGED srv
       \/ /\ CxFault /\ Returns(r, c)
          /\ \/ UNCHANGED srv
             \/ srv.up /\ srv' = [srv EXCEPT !.side[y] = "idle"]
    /\ UNCHANGED <<mail, slot, route, cx, sq>>

\* turn/start on the fork; the side query is the run's one side query from now on,
\* also when another one is.
StartSide(r, c) ==
    /\ CallAt(r, c, "side_turn") /\ Returns(r, c)
    /\ LET x == ccall[r][c].arg IN
       \/ /\ srv.up /\ NoFault /\ srv' = [srv EXCEPT !.side[<<r, x>>] = "running"]
          /\ cx' = [cx EXCEPT ![r].side = x, ![r].overlap = @ \/ cx[r].side # NoQuery]
          /\ sq' = [sq EXCEPT ![<<r, x>>] = "wait"]
       \/ /\ (~srv.up /\ NoFault) \/ CxFault
          /\ srv' = [srv EXCEPT !.side[<<r, x>>] = "released"]
          /\ UNCHANGED <<cx, sq>>
    /\ UNCHANGED <<mail, slot, route>>

\* respond_server_request, and the interaction is resolved if it still is there.  The
\* words of a denial are steered in after it.
AskAnswered(s, r, k) == [s EXCEPT !.ask[r][k] = IF @ = "open" THEN "answered" ELSE @]
AnswerSent(r, c) ==
    /\ CallAt(r, c, "answer")
    /\ LET k == ccall[r][c].arg IN
       \/ /\ srv.up /\ NoFault /\ srv' = AskAnswered(srv, r, k)
          /\ cx' = [cx EXCEPT ![r].pend = @ \ {k}]
          /\ Returns(r, c) \/ Goes(r, c, "tell")
       \/ /\ (~srv.up /\ NoFault) \/ CxFault
          /\ UNCHANGED srv \/ (srv.up /\ srv' = AskAnswered(srv, r, k))
          /\ Returns(r, c) /\ UNCHANGED cx
    /\ UNCHANGED <<mail, slot, route, sq>>

\* The steer is taken, or the call raises though its answer was sent.
TellWhy(r, c) ==
    /\ CallAt(r, c, "tell") /\ Returns(r, c)
    /\ UNCHANGED <<srv, mail, slot, route, cx, sq, cxfaults>>

\* A call that raises or is given up ends where it is; a run it was closing stays
\* closed, and the rest of its close is left undone.
Left(r, c) == [cx EXCEPT ![r].cut = @ \/ ccall[r][c].kind \in {"close", "end"}]

\* _interrupt_active of a cancel or of a close.  Only a cancel minds its outcome.
Unclean(r, c) == Goes(r, c, IF ccall[r][c].kind = "cancel" THEN "restart" ELSE "finish")
Ending(r, c)  == \* _close of a cancel, whose interrupt is over
    IF cx[r].closed THEN Returns(r, c) /\ UNCHANGED <<cx, sq>>
    ELSE cx' = [cx EXCEPT ![r].closed = TRUE] /\ WaitsForSide(r, c, "end")
Clean(r, c) ==
    IF ccall[r][c].kind = "cancel" THEN Ending(r, c)
    ELSE Goes(r, c, "finish") /\ UNCHANGED <<cx, sq>>

Interrupt(r, c) ==
    /\ CallAt(r, c, "interrupt")
    /\ LET t == cx[r].active IN
       \/ t = 0 /\ Clean(r, c) /\ NoFault /\ UNCHANGED <<srv, mail>>
       \/ /\ t # 0 /\ srv.up /\ srv.busy[r] /\ srv.n[r] = t /\ NoFault
          /\ srv' = TurnOver(srv, r) /\ Says(r, "interrupted", t)
          /\ ccall' = [ccall EXCEPT ![r][c].pc = "wait", ![r][c].arg = t]
          /\ cx' = [cx EXCEPT ![r].expected = @ \cup {t}] /\ UNCHANGED sq
       \/ /\ t # 0 /\ ~srv.client /\ NoFault /\ Returns(r, c)    \* _client raises
          /\ cx' = [Left(r, c) EXCEPT ![r].expected = @ \cup {t}]
          /\ UNCHANGED <<srv, mail, sq>>
       \/ /\ t # 0 /\ srv.client /\ (~srv.up \/ ~srv.busy[r] \/ srv.n[r] # t)
          /\ NoFault /\ Unclean(r, c)
          /\ cx' = [cx EXCEPT ![r].expected = @ \cup {t}] /\ UNCHANGED <<srv, mail, sq>>
       \/ /\ t # 0 /\ CxFault /\ Unclean(r, c)
          /\ cx' = [cx EXCEPT ![r].expected = @ \cup {t}] /\ UNCHANGED <<srv, mail, sq>>
    /\ UNCHANGED <<slot, route>>

\* It waits for the turn's end to be seen, or for interrupt_timeout_sec.
IsOnItsWay(r, t) ==
    t \in cx[r].done \/ \E i \in DOMAIN mail :
        mail[i].run = r /\ mail[i].what = "interrupted" /\ mail[i].arg = t
\* A faulty variant: the turn's end is waited for without a limit.
Interrupted_Patient(r, c) ==
    /\ CallAt(r, c, "wait")
    /\ \/ ccall[r][c].arg \in cx[r].done /\ Clean(r, c) /\ NoFault
       \/ CxFault
          /\ Unclean(r, c) /\ UNCHANGED <<cx, sq>>
    /\ UNCHANGED <<srv, mail, slot, route>>

Interrupted(r, c) ==
    /\ CallAt(r, c, "wait")
    /\ \/ ccall[r][c].arg \in cx[r].done /\ Clean(r, c) /\ NoFault
       \/ (CxFault \/ (~IsOnItsWay(r, ccall[r][c].arg) /\ NoFault))
          /\ Unclean(r, c) /\ UNCHANGED <<cx, sq>>
    /\ UNCHANGED <<srv, mail, slot, route>>

\* worker.restart holds _start_lock: the client is given up and its process stopped,
\* then another is started, and the cancel goes on to close its run.
StopClient(r) ==
    /\ CallAt(r, "owner", "restart") /\ ~Restarting /\ Goes(r, "owner", "starting")
    /\ srv' = [ServerDown(srv) EXCEPT !.client = FALSE]
    /\ cx' = [u \in CxRuns |-> [cx[u] EXCEPT !.pend = IF cx[u].reg = {} THEN @ ELSE {}]]
    /\ UNCHANGED <<mail, slot, route, sq, cxfaults>>

Unregistered == [u \in CxRuns |-> [cx[u] EXCEPT !.reg = {}]]
StartClient(r) ==
    /\ CallAt(r, "owner", "starting") /\ srv' = Restarted(srv) /\ mail' = <<>>
    /\ IF cx[r].closed
       THEN /\ cx' = [Unregistered EXCEPT ![r].active = 0]
            /\ Returns(r, "owner") /\ UNCHANGED sq
       ELSE /\ cx' = [Unregistered EXCEPT ![r].active = 0, ![r].closed = TRUE]
            /\ WaitsForSide(r, "owner", "end")
    /\ UNCHANGED <<slot, route, cxfaults>>

\* The new process does not start, or the cancel is given up while the old one is
\* stopped or the new one is started: the worker stays without a client.
RestartFails(r) ==
    /\ CallAt(r, "owner", "starting") /\ CxFault /\ Returns(r, "owner")
    /\ srv' = ServerDown(srv)
    /\ \/ UNCHANGED <<mail, cx>>
       \/ mail' = <<>> /\ cx' = Unregistered
    /\ UNCHANGED <<slot, route, sq>>

\* The gateway's 30 s are over.  To cancel the wait for a side query's task is to
\* cancel that task again, whose fork is then not released.
GivesUp(r, c) ==
    /\ CxFault /\ Returns(r, c)
    /\ LET call == ccall[r][c]
           t == cx[r].active IN
       \/ /\ call.pc = "side" /\ call.arg # NoQuery /\ cx' = Left(r, c)
          /\ LET y == <<r, call.arg>> IN
             sq' = [sq EXCEPT ![y] = CASE @ = "dispose" -> "aborted"
                                       [] @ = "release" -> "done" [] OTHER -> @]
       \/ call.pc \in {"steer", "wait", "restart"} /\ cx' = Left(r, c) /\ UNCHANGED sq
       \/ /\ call.pc = "interrupt" /\ t # 0 /\ UNCHANGED sq
          /\ cx' = [Left(r, c) EXCEPT ![r].expected = @ \cup {t}]
    /\ UNCHANGED <<srv, mail, slot, route>>

\* A faulty variant: the slot is taken from whoever has it.
Finish_TakesSlot(r, c) ==
    /\ CallAt(r, c, "finish") /\ Returns(r, c)
    /\ route' = IF route = r THEN NoRun ELSE route
    /\ slot' = NoRun
    /\ cx' = [cx EXCEPT ![r].stream = "ended"]
    /\ UNCHANGED <<srv, mail, sq, cxfaults>>

\* The rest of _close: the route, the end of the stream, the backend's slot.
Finish(r, c) ==
    /\ CallAt(r, c, "finish") /\ Returns(r, c)
    /\ route' = IF route = r THEN NoRun ELSE route
    /\ slot' = IF slot = r THEN NoRun ELSE slot
    /\ cx' = [cx EXCEPT ![r].stream = "ended"]
    /\ UNCHANGED <<srv, mail, sq, cxfaults>>

CallStep(r, c) ==
    \/ StartTurn(r, c) \/ SideGone(r, c) \/ SteerTurn(r, c) \/ Fork(r, c)
    \/ StartSide(r, c) \/ AnswerSent(r, c) \/ TellWhy(r, c) \/ Interrupt(r, c)
    \/ Interrupted(r, c) \/ Finish(r, c)

-----------------------------------------------------------------------------
(* The side query's task: _finish_side_query, _dispose_side_query.           *)

\* After side_query_timeout_sec there is no answer, and its turn is to be interrupted.
SideTimesOut(y) ==
    /\ sq[y] = "wait" /\ sq' = [sq EXCEPT ![y] = "dispose"]
    /\ UNCHANGED <<srv, mail, slot, route, cx, ccall, cxfaults>>

\* It was answered, or its interrupt returned: the run forgets it.  Without a client
\* its interrupt raises, and it is not forgotten.
DisposeSide(y) ==
    /\ \/ /\ sq[y] = "answered" \/ (sq[y] = "dispose" /\ srv.client)
          /\ sq' = [sq EXCEPT ![y] = "release"]
          /\ cx' = [cx EXCEPT ![y[1]].side = IF @ = y[2] THEN NoQuery ELSE @]
          /\ IF srv.side[y] = "running"
             THEN srv' = [srv EXCEPT !.side[y] = "ended"] /\ Says(y[1], "side", y[2])
             ELSE UNCHANGED <<srv, mail>>
       \/ /\ sq[y] = "dispose" /\ ~srv.client /\ sq' = [sq EXCEPT ![y] = "aborted"]
          /\ UNCHANGED <<srv, mail, cx>>
    /\ UNCHANGED <<slot, route, ccall, cxfaults>>

\* A faulty variant: the fork of a run that was closed is left there.
ReleaseSide_OpenOnly(y) ==
    /\ sq[y] = "release" /\ ~cx[y[1]].closed /\ sq' = [sq EXCEPT ![y] = "done"]
    /\ srv' = [srv EXCEPT !.side[y] = "released"]
    /\ UNCHANGED <<mail, slot, route, cx, ccall, cxfaults>>

ReleaseSide(y) ==
    /\ sq[y] = "release" /\ sq' = [sq EXCEPT ![y] = "done"]
    /\ srv' = [srv EXCEPT !.side[y] = "released"]
    /\ UNCHANGED <<mail, slot, route, cx, ccall, cxfaults>>

-----------------------------------------------------------------------------
(* _watch_notifications: a message finds its run by its turn, or else by its *)
(* thread, and nobody when the run has no turn registered.                   *)

Refused(r, k) == srv' = [srv EXCEPT !.ask[r][k] = IF @ = "open" THEN "refused" ELSE @]

\* _on_server_request: one question at a time, and of the active turn only
SeeAsk(m) ==
    LET r == m.run
        k == m.arg[1] IN
    IF cx[r].reg # {} /\ m.arg[2] = cx[r].active /\ cx[r].pend = {}
    THEN cx' = [cx EXCEPT ![r].pend = {k}] /\ UNCHANGED srv
    ELSE Refused(r, k) /\ UNCHANGED cx

\* _on_notification of turn/completed
TurnDone(x, t, stream) ==
    [x EXCEPT !.pend = {}, !.done = @ \cup {t}, !.active = IF @ = t THEN 0 ELSE @,
              !.reg = @ \ {t}, !.expected = @ \ {t}, !.stream = Concluded(@, stream)]
SeeEnd(m) ==
    LET r == m.run
        t == m.arg IN
    /\ cx' = IF cx[r].reg = {} THEN cx
             ELSE [cx EXCEPT ![r] =
                      TurnDone(@, t, IF m.what = "interrupted" /\ t \in @.expected
                                     THEN @.stream ELSE "result")]
    /\ UNCHANGED srv

\* A side query's turn is registered until it is disposed of.  It is known for one
\* by being the run's side query; else its end is taken for the end of a turn.
SeeSide(m) ==
    LET r == m.run
        y == <<r, m.arg>> IN
    /\ UNCHANGED srv
    /\ IF sq[y] \notin {"wait", "dispose", "aborted"} THEN UNCHANGED <<cx, sq>>
       ELSE IF cx[r].side = m.arg
       THEN sq' = [sq EXCEPT ![y] = IF @ = "wait" THEN "answered" ELSE @] /\ UNCHANGED cx
       ELSE /\ cx' = [cx EXCEPT ![r].pend = {}, ![r].stream = Concluded(@, "side_result")]
            /\ UNCHANGED sq

Watch ==
    /\ mail # <<>> /\ mail' = Tail(mail)
    /\ LET m == Head(mail) IN
       \/ m.what = "ask" /\ SeeAsk(m) /\ UNCHANGED sq
       \/ m.what = "resolved" /\ cx' = [cx EXCEPT ![m.run].pend = @ \ {m.arg}]
          /\ UNCHANGED <<srv, sq>>
       \/ m.what \in Ends /\ SeeEnd(m) /\ UNCHANGED sq
       \/ m.what = "side" /\ SeeSide(m)
    /\ UNCHANGED <<slot, route, ccall, cxfaults>>

-----------------------------------------------------------------------------
(* The server, external.                                                     *)

ServerAsks(r) ==
    /\ srv.up /\ srv.busy[r]
    /\ \E k \in CxAsks : /\ srv.ask[r][k] = "none"
                         /\ srv' = [srv EXCEPT !.ask[r][k] = "open"]
                         /\ Says(r, "ask", <<k, srv.n[r]>>)
    /\ UNCHANGED <<slot, route, cx, ccall, sq, cxfaults>>

\* The question is settled elsewhere.
ServerResolves(r) ==
    /\ srv.up
    /\ \E k \in CxAsks : /\ srv.ask[r][k] = "open"
                         /\ srv' = [srv EXCEPT !.ask[r][k] = "answered"]
                         /\ Says(r, "resolved", k)
    /\ UNCHANGED <<slot, route, cx, ccall, sq, cxfaults>>

ServerEnds(r) ==
    /\ srv.up /\ srv.busy[r] /\ srv' = TurnOver(srv, r)
    /\ \E how \in Ends : Says(r, how, srv.n[r])
    /\ UNCHANGED <<slot, route, cx, ccall, sq, cxfaults>>

ServerEndsSide(y) ==
    /\ srv.up /\ srv.side[y] = "running" /\ srv' = [srv EXCEPT !.side[y] = "ended"]
    /\ Says(y[1], "side", y[2])
    /\ UNCHANGED <<slot, route, cx, ccall, sq, cxfaults>>

ServerDies ==
    /\ srv.up /\ CxFault
    /\ srv' = ServerDown(srv)
    /\ UNCHANGED <<mail, slot, route, cx, ccall, sq>>

CxNext ==
    \/ \E r \in CxRuns :
          \/ StartRun(r) \/ OpenThread(r) \/ Cancel(r) \/ Close(r)
          \/ StopClient(r) \/ StartClient(r) \/ RestartFails(r)
          \/ ServerAsks(r) \/ ServerResolves(r) \/ ServerEnds(r)
          \/ \E c \in Callers : SteerRun(r, c) \/ Query(r, c) \/ Respond(r, c) \/ CallStep(r, c)
                              \/ GivesUp(r, c)
    \/ \E y \in Sides : SideTimesOut(y) \/ DisposeSide(y) \/ ReleaseSide(y) \/ ServerEndsSide(y)
    \/ Watch \/ ServerDies

\* The loop runs what it can, and every request ends, by its timeout at the latest;
\* the server's pace is its own.
CxFairness ==
    /\ WF_cxVars(Watch)
    /\ \A r \in CxRuns :
          /\ WF_cxVars((OpenThread(r) \/ StopClient(r) \/ StartClient(r) \/ Close(r)) /\ NoFault)
          /\ \A c \in Callers : WF_cxVars(CallStep(r, c) /\ NoFault)
    /\ \A y \in Sides : WF_cxVars(SideTimesOut(y) \/ DisposeSide(y) \/ ReleaseSide(y))

CxSpec     == CxInit /\ [][CxNext]_cxVars
CxFairSpec == CxSpec /\ CxFairness

-----------------------------------------------------------------------------
\* A steer whose run is cancelled or closed while it is on its way may yet take the
\* tool router and start a turn nobody waits for; what follows holds until then.
Overtaken == \E r \in CxRuns : cx[r].late

\* The end of a close that was overtaken by the next run takes nothing from it: a
\* run in use holds the backend's slot, and the tool router once it works.
RunKeepsItsPlace ==
    \A r \in CxRuns :
       InUse(r) => slot = r /\ (cx[r].stream = "open" /\ ~Overtaken => route = r)

\* A worker never waits for an answer nobody is going to give: its open question
\* is held by the run, or is on its way, unless the run was closed or two side
\* queries overlapped.
AskIsHeld ==
    \A r \in CxRuns, k \in CxAsks :
       srv.ask[r][k] = "open" /\ InUse(r) /\ ~cx[r].overlap
       => \/ k \in cx[r].pend
          \/ \E i \in DOMAIN mail : mail[i].run = r /\ mail[i].what = "ask" /\ mail[i].arg[1] = k

\* Every fork is let go in the end, also when its run was closed meanwhile, unless
\* its disposal was cancelled.
ForksAreReleased ==
    \A y \in Sides : srv.side[y] \in {"idle", "running"} ~>
                         srv.side[y] = "released" \/ cxfaults > 0 \/ sq[y] = "aborted"

\* A run that is closed ends its stream, though the server is gone, never ends its turn,
\* or another call restarts the worker meanwhile, unless the close was given up half-way
\* or met a worker without a client.
ClosedRunEnds == \A r \in CxRuns : cx[r].closed ~> cx[r].stream = "ended" \/ cx[r].cut
=============================================================================
