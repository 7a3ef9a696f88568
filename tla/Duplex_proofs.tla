---------------------------- MODULE Duplex_proofs ----------------------------
(***************************************************************************)
(* For any number of sockets and failures, as long as clients either come  *)
(* back or reset: the one model slot is held by one socket at a time, for  *)
(* as long as a model of it may be alive (SlotInv).  If moreover nothing   *)
(* fails where clients come back, a session that is held for its client is *)
(* whole (HeldInv).                                                        *)
(***************************************************************************)
EXTENDS Duplex, TLAPS

\* Where a handler is before it has a model, and where it is on its way out.
Early == {"new", "resuming", "opening"}
Past  == {"leaving", "detaching", "stopping_jobs", "freeing", "closing", "done"}
First(h)  == <<h, 1>>
Second(h) == <<h, 2>>
Up(m) == model[m] \in {"opening", "open"}

\* Socket h answers for the slot: its model is being opened, nobody has taken over the
\* open it left, or the session it opened has not released the slot.
Slot(h) ==
    \/ Is(h, "opening")
    \/ Is(h, "leaving") /\ sock[h].own = NoModel
    \/ h \in orphan
    \/ act[h].made /\ ~act[h].released

OneSlot ==
    /\ locked <=> \E h \in Sockets : Slot(h)
    /\ \A h, k \in Sockets : Slot(h) /\ Slot(k) => h = k

\* What a handler's locals say about the session it is in.
LocalsOf(h) ==
    /\ sock[h].sess = NoSock => timer[h].pc = "none" /\ sock[h].own = NoModel
    /\ sock[h].sess # NoSock => act[sock[h].sess].made /\ sock[h].pc \notin {"new", "opening"}
    /\ sock[h].own = NoModel => /\ ~act[h].made /\ timer[h].pc = "none"
                                /\ sock[h].sess = NoSock \/ Is(h, "resuming")
                                /\ sock[h].pc \in Early \cup {"leaving", "done"}
    /\ Is(h, "resuming") => sock[h].sess # NoSock
    /\ sock[h].own # NoModel => /\ sock[h].pc \notin Early /\ h \notin orphan
                                /\ sock[h].own \in {First(sock[h].sess), Second(h)}
    /\ h \in orphan => Is(h, "done")
    /\ timer[h].pc # "none" => sock[h].park /\ Is(h, "done")
    /\ sock[h].park => sock[h].pc \in Past /\ model[Second(h)] = "none"

\* What the session a socket opened says about its model.
SessionOf(h) ==
    /\ act[h].made => /\ model[First(h)] \in {"open", "closed"}
                      /\ act[h].duplex = First(h) \/ model[Second(h)] # "none"
                      /\ act[h].duplex # NoModel
    /\ ~act[h].made => ~act[h].released
    /\ Up(First(h)) => Slot(h)
    /\ sock[h].pc \in {"new", "resuming"} => model[First(h)] = "none"

\* A reset closes the first model before it opens the second, which nobody else knows.
ResetOf(h) ==
    /\ Resetters = {} => sock[h].pc \notin InReset /\ model[Second(h)] = "none"
    /\ Rejoiners = {} => ~Is(h, "resuming") /\ sock[h].sess \in {NoSock, h}
    /\ model[Second(h)] = "none" => sock[h].own # Second(h)
    /\ sock[h].pc \notin {"reopening", "rebuilding"} \cup Past => model[Second(h)] = "none"
    /\ model[Second(h)] = "opening" => Is(h, "reopening")
    /\ Is(h, "rebuilding") => model[Second(h)] # "none"
    /\ Rejoiners = {} /\ act[h].released => sock[h].pc \in {"closing", "done"}
    /\ model[Second(h)] # "none" => model[First(h)] = "closed"
    /\ sock[h].own = Second(h) => model[Second(h)] \in {"open", "closed"}
    /\ Up(Second(h)) => Slot(h) /\ (sock[h].own = Second(h) \/ Is(h, "reopening"))

Listed == \A i \in SessionIds : table[i] # NoSock => act[table[i]].made

SlotInv ==
    /\ DxTypeOK /\ OneSlot /\ Listed
    /\ \A h \in Sockets : LocalsOf(h) /\ SessionOf(h) /\ ResetOf(h)

\* Clients come back or reset, not both.
Apart == Resetters = {} \/ Rejoiners = {}

-----------------------------------------------------------------------------
\* Sockets and models have distinct names.
LEMMA Names ==
    /\ NoSock \notin Sockets /\ MaxFaults \in Nat /\ NoModel \notin Models
    /\ \A h \in Sockets : /\ First(h) \in Models /\ Second(h) \in Models
                          /\ First(h) # NoModel /\ Second(h) # NoModel
                          /\ IdOf[h] \in SessionIds
    /\ \A h, k \in Sockets : First(h) # Second(k)
    /\ \A h, k \in Sockets : First(h) = First(k) => h = k
    /\ \A h, k \in Sockets : Second(h) = Second(k) => h = k
    /\ \A m \in Models : \E h \in Sockets : m = First(h) \/ m = Second(h)
  BY SocketsAssumption DEF Models, First, Second

\* The places of handlers and timers that the steps below name.
LEMMA Places ==
    /\ {"new", "resuming", "opening", "building", "starting", "serving"} \subseteq Handler
    /\ {"stopping", "resetting", "clearing", "reopening", "rebuilding"} \subseteq Handler
    /\ {"leaving", "detaching"} \subseteq Handler
    /\ {"stopping_jobs", "freeing", "closing", "done"} \subseteq Handler
    /\ {"none", "detaching", "waiting", "due", "stopping_jobs", "freeing"} \subseteq TimerPC
    /\ {"closing", "done"} \subseteq TimerPC
  BY DEF Handler, TimerPC

Locals == [pc : Handler, sess : Sockets \cup {NoSock}, own : Models \cup {NoModel},
           crd : Models \cup {NoModel}, gone : BOOLEAN, park : BOOLEAN]

\* It holds when the runtime starts, with no socket.
LEMMA SlotInit == DxInit => SlotInv
<1> SUFFICES ASSUME DxInit PROVE SlotInv
  OBVIOUS
<1> USE Names DEF DxInit
<1>1. DxTypeOK
  <2>1. /\ locked \in BOOLEAN /\ table \in [SessionIds -> Sockets \cup {NoSock}]
        /\ model \in [Models -> {"none", "opening", "open", "closed", "failed"}]
        /\ jobs \in [Models -> {"none", "live", "stopping", "stopped", "closed"}]
    BY DEF DxInit
  <2>2. /\ fired = {} /\ orphan = {} /\ faults \in 0..MaxFaults
        /\ screen \in [Sockets -> {"none", "open", "closed"}]
    OBVIOUS
  <2>3. act \in [Sockets -> Active]
    BY DEF Active
  <2>4. /\ sock \in [Sockets -> Locals]
        /\ timer \in [Sockets -> [pc : TimerPC, evt : Sockets \cup {NoSock}]]
    BY Places DEF Locals
  <2> QED  BY <2>1, <2>3, <2>4, <2>2 DEF DxTypeOK, Locals
<1>2. OneSlot /\ Listed
  BY DEF OneSlot, Slot, Is, Listed
<1>3. \A h \in Sockets : LocalsOf(h) /\ SessionOf(h) /\ ResetOf(h)
  BY DEF LocalsOf, SessionOf, ResetOf, Is, Up, Early, InReset, Past
<1> QED  BY <1>1, <1>2, <1>3 DEF SlotInv

\* Handler h goes to place p, in session s, with model o; its client is to be waited for if k.
Moved(f, g, h, p, s, o, k) ==
    /\ g \in [Sockets -> Locals]
    /\ g[h].pc = p /\ g[h].sess = s /\ g[h].own = o /\ g[h].park = k
    /\ \A j \in Sockets : j # h => g[j] = f[j]

\* The ways the steps of Duplex write a handler's locals.
LEMMA HandlerMoves ==
    ASSUME NEW f \in [Sockets -> Locals], NEW h \in Sockets, NEW p \in Handler,
           NEW s \in Sockets \cup {NoSock}, NEW o \in Models \cup {NoModel},
           NEW c \in Models \cup {NoModel}
    PROVE  LET l == f[h] IN
           /\ Moved(f, [f EXCEPT ![h].pc = p], h, p, l.sess, l.own, l.park)
           /\ Moved(f, [f EXCEPT ![h].gone = TRUE], h, l.pc, l.sess, l.own, l.park)
           /\ Moved(f, [f EXCEPT ![h].pc = p, ![h].sess = s], h, p, s, l.own, l.park)
           /\ Moved(f, [f EXCEPT ![h].pc = p, ![h].own = o], h, p, l.sess, o, l.park)
           /\ Moved(f, [f EXCEPT ![h].pc = p, ![h].crd = c], h, p, l.sess, l.own, l.park)
           /\ Moved(f, [f EXCEPT ![h].pc = p, ![h].park = TRUE], h, p, l.sess, l.own, TRUE)
           /\ Moved(f, [f EXCEPT ![h].pc = p, ![h].sess = s, ![h].own = o], h, p, s, o, l.park)
           /\ Moved(f, [f EXCEPT ![h].pc = p, ![h].own = o, ![h].crd = c],
                    h, p, l.sess, o, l.park)
  BY DEF Moved, Locals

\* Session s changes: whether it is made and released, and its model.
Changed(f, g, s, m, r, d) ==
    /\ g \in [Sockets -> Active]
    /\ g[s].made = m /\ g[s].released = r /\ g[s].duplex = d
    /\ \A j \in Sockets : j # s => g[j] = f[j]

\* The ways they write a session.
LEMMA SessionMoves ==
    ASSUME NEW f \in [Sockets -> Active], NEW s \in Sockets, NEW d \in Models \cup {NoModel},
           NEW c \in Models \cup {NoModel}, NEW e \in Sockets
    PROVE  LET a == f[s] IN
           /\ Changed(f, [f EXCEPT ![s].attached = TRUE], s, a.made, a.released, a.duplex)
           /\ Changed(f, [f EXCEPT ![s].token = TRUE], s, a.made, a.released, a.duplex)
           /\ Changed(f, [f EXCEPT ![s].stopped = TRUE], s, a.made, a.released, a.duplex)
           /\ Changed(f, [f EXCEPT ![s].ended = TRUE], s, a.made, a.released, a.duplex)
           /\ Changed(f, [f EXCEPT ![s].coord = c], s, a.made, a.released, a.duplex)
           /\ Changed(f, [f EXCEPT ![s].released = TRUE], s, a.made, TRUE, a.duplex)
           /\ Changed(f, [f EXCEPT ![s].made = TRUE, ![s].duplex = d], s, TRUE, a.released, d)
           /\ Changed(f, [f EXCEPT ![s].duplex = d, ![s].coord = c], s, a.made, a.released, d)
           /\ Changed(f, [f EXCEPT ![s].attached = FALSE, ![s].evt = e],
                      s, a.made, a.released, a.duplex)
<1>1. ASSUME NEW r \in Active
      PROVE  Changed(f, [f EXCEPT ![s] = r], s, r.made, r.released, r.duplex)
  BY DEF Changed
<1>2. f[s] \in Active
  OBVIOUS
<1>3. Changed(f, [f EXCEPT ![s].attached = TRUE], s, f[s].made, f[s].released, f[s].duplex)
  <2> DEFINE r == [f[s] EXCEPT !.attached = TRUE]
  <2>1. r \in Active /\ r.made = f[s].made /\ r.released = f[s].released /\ r.duplex = f[s].duplex
    BY <1>2 DEF Active
  <2> QED  BY <1>1, <2>1
<1>4. Changed(f, [f EXCEPT ![s].token = TRUE], s, f[s].made, f[s].released, f[s].duplex)
  <2> DEFINE r == [f[s] EXCEPT !.token = TRUE]
  <2>1. r \in Active /\ r.made = f[s].made /\ r.released = f[s].released /\ r.duplex = f[s].duplex
    BY <1>2 DEF Active
  <2> QED  BY <1>1, <2>1
<1>5. Changed(f, [f EXCEPT ![s].stopped = TRUE], s, f[s].made, f[s].released, f[s].duplex)
  <2> DEFINE r == [f[s] EXCEPT !.stopped = TRUE]
  <2>1. r \in Active /\ r.made = f[s].made /\ r.released = f[s].released /\ r.duplex = f[s].duplex
    BY <1>2 DEF Active
  <2> QED  BY <1>1, <2>1
<1>6. Changed(f, [f EXCEPT ![s].ended = TRUE], s, f[s].made, f[s].released, f[s].duplex)
  <2> DEFINE r == [f[s] EXCEPT !.ended = TRUE]
  <2>1. r \in Active /\ r.made = f[s].made /\ r.released = f[s].released /\ r.duplex = f[s].duplex
    BY <1>2 DEF Active
  <2> QED  BY <1>1, <2>1
<1>7. Changed(f, [f EXCEPT ![s].coord = c], s, f[s].made, f[s].released, f[s].duplex)
  <2> DEFINE r == [f[s] EXCEPT !.coord = c]
  <2>1. r \in Active /\ r.made = f[s].made /\ r.released = f[s].released /\ r.duplex = f[s].duplex
    BY <1>2 DEF Active
  <2> QED  BY <1>1, <2>1
<1>8. Changed(f, [f EXCEPT ![s].released = TRUE], s, f[s].made, TRUE, f[s].duplex)
  <2> DEFINE r == [f[s] EXCEPT !.released = TRUE]
  <2>1. r \in Active /\ r.made = f[s].made /\ r.released = TRUE /\ r.duplex = f[s].duplex
    BY <1>2 DEF Active
  <2> QED  BY <1>1, <2>1
<1>9. Changed(f, [f EXCEPT ![s].made = TRUE, ![s].duplex = d], s, TRUE, f[s].released, d)
  <2> DEFINE r == [f[s] EXCEPT !.made = TRUE, !.duplex = d]
  <2>1. r \in Active /\ r.made = TRUE /\ r.released = f[s].released /\ r.duplex = d
    BY <1>2 DEF Active
  <2> QED  BY <1>1, <2>1
<1>10. Changed(f, [f EXCEPT ![s].duplex = d, ![s].coord = c], s, f[s].made, f[s].released, d)
  <2> DEFINE r == [f[s] EXCEPT !.duplex = d, !.coord = c]
  <2>1. r \in Active /\ r.made = f[s].made /\ r.released = f[s].released /\ r.duplex = d
    BY <1>2 DEF Active
  <2> QED  BY <1>1, <2>1
<1>11. Changed(f, [f EXCEPT ![s].attached = FALSE, ![s].evt = e],
               s, f[s].made, f[s].released, f[s].duplex)
  <2> DEFINE r == [f[s] EXCEPT !.attached = FALSE, !.evt = e]
  <2>1. r \in Active /\ r.made = f[s].made /\ r.released = f[s].released /\ r.duplex = f[s].duplex
    BY <1>2 DEF Active
  <2> QED  BY <1>1, <2>1
<1> QED  BY <1>3, <1>4, <1>5, <1>6, <1>7, <1>8, <1>9, <1>10, <1>11

Typed ==
    /\ locked \in BOOLEAN
    /\ table \in [SessionIds -> Sockets \cup {NoSock}]
    /\ act \in [Sockets -> Active]
    /\ model \in [Models -> {"none", "opening", "open", "closed", "failed"}]
    /\ jobs \in [Models -> {"none", "live", "stopping", "stopped", "closed"}]
    /\ sock \in [Sockets -> Locals]
    /\ timer \in [Sockets -> [pc : TimerPC, evt : Sockets \cup {NoSock}]]
    /\ fired \subseteq Sockets \cup {NoSock} /\ orphan \subseteq Sockets
    /\ screen \in [Sockets -> {"none", "open", "closed"}]
    /\ faults \in 0..MaxFaults

\* DxTypeOK, with the types of the locals by name.
LEMMA TypesAre == DxTypeOK <=> Typed
  BY DEF DxTypeOK, Typed, Locals

-----------------------------------------------------------------------------
(* Steps that leave the slot, the models and the open sessions as they are.  *)

SameSessions ==
    \A s \in Sockets : /\ act'[s].made = act[s].made /\ act'[s].released = act[s].released
                       /\ act'[s].duplex = act[s].duplex

Calm ==
    /\ locked' = locked /\ orphan' = orphan /\ SameSessions
    /\ \A h \in Sockets : /\ model'[First(h)] = model[First(h)] \/
                             (model[First(h)] = "open" /\ model'[First(h)] = "closed")
                          /\ model'[Second(h)] = model[Second(h)] \/
                             (model[Second(h)] = "open" /\ model'[Second(h)] = "closed")
    /\ \A i \in SessionIds : table'[i] \in {table[i], NoSock}
    /\ \A h \in Sockets : timer'[h].pc = "none" <=> timer[h].pc = "none"

\* The moves of a handler in such a step.
Stays(h, p, s, o, k) ==
    /\ s = sock[h].sess /\ o = sock[h].own
    /\ \/ p = sock[h].pc /\ k = sock[h].park
       \/ sock[h].pc \in {"opening", "building", "starting", "serving", "stopping"}
          /\ p = "leaving"
       \/ /\ k = sock[h].park
          /\ \/ Is(h, "new") /\ p = "done"
             \/ Is(h, "rebuilding") /\ p = "leaving"
             \/ Is(h, "reopening") /\ p = "leaving" /\ model[Second(h)] = "failed"
             \/ Is(h, "building") /\ p = "starting"
             \/ Is(h, "starting") /\ p = "serving"
             \/ Is(h, "serving") /\ p = "stopping"
             \/ Is(h, "serving") /\ p = "resetting" /\ Resetters # {}
             \/ Is(h, "resetting") /\ p = "clearing"
             \/ Is(h, "detaching") /\ p \in {"stopping_jobs", "freeing"}
             \/ Is(h, "leaving") /\ p = "detaching" /\ sock[h].own # NoModel
             \/ Is(h, "closing") /\ p = "done"

Allowed(h, p, s, o, k) ==
    \/ Stays(h, p, s, o, k)
    \/ /\ k = sock[h].park
       /\ \/ /\ Is(h, "new") /\ p = "resuming" /\ Rejoiners # {}
             /\ s \in Sockets /\ act[s].made /\ o = sock[h].own
          \/ /\ Is(h, "resuming") /\ p = "starting"
             /\ s = sock[h].sess /\ o = act[s].duplex
          \/ /\ Is(h, "reopening") /\ p = "rebuilding" /\ model[Second(h)] = "open"
             /\ s = sock[h].sess /\ o = Second(h)

\* A calm step keeps the invariant, whichever move its handler makes.
LEMMA CalmKeeps ==
    ASSUME SlotInv, Apart, Typed', Calm, NEW h \in Sockets,
           NEW p, NEW s, NEW o, NEW k, Moved(sock, sock', h, p, s, o, k), Allowed(h, p, s, o, k)
    PROVE  SlotInv'
<1>1. /\ NoSock \notin Sockets /\ First(h) # NoModel /\ Second(h) # NoModel
      /\ \A j \in Sockets : First(j) # NoModel /\ First(j) # Second(h)
  BY Names
<1>2. /\ LocalsOf(h) /\ SessionOf(h) /\ ResetOf(h) /\ Typed
      /\ sock'[h].pc = p /\ sock'[h].sess = s /\ sock'[h].own = o /\ sock'[h].park = k
      /\ \A j \in Sockets : j # h => sock'[j] = sock[j]
      /\ sock[h].sess \in Sockets \cup {NoSock} /\ s \in Sockets \cup {NoSock}
  BY TypesAre DEF SlotInv, Moved, Typed, Locals
<1>3. \A j \in Sockets : Slot(j)' <=> Slot(j)
  <2> SUFFICES ASSUME NEW j \in Sockets PROVE Slot(j)' <=> Slot(j)
    OBVIOUS
  <2>1. CASE j # h
    BY <1>2, <2>1 DEF Slot, Calm, SameSessions, Is
  <2>2. CASE j = h
    BY <1>2, <2>2, Names
    DEF Slot, Calm, SameSessions, Is, Allowed, Stays, LocalsOf, Early, SessionOf
  <2> QED  BY <2>1, <2>2
<1>4. OneSlot'
  BY <1>3 DEF SlotInv, OneSlot, Calm
<1>5. Listed'
  <2> SUFFICES ASSUME NEW i \in SessionIds, table'[i] # NoSock PROVE act'[table'[i]].made
    BY DEF Listed
  <2>1. table'[i] = table[i] /\ table[i] \in Sockets
    BY <1>2 DEF Calm, Typed
  <2> QED  BY <2>1 DEF SlotInv, Listed, Calm, SameSessions
<1>6. \A j \in Sockets : j # h => LocalsOf(j)' /\ SessionOf(j)' /\ ResetOf(j)'
  <2> SUFFICES ASSUME NEW j \in Sockets, j # h PROVE LocalsOf(j)' /\ SessionOf(j)' /\ ResetOf(j)'
    OBVIOUS
  <2>1. LocalsOf(j) /\ SessionOf(j) /\ ResetOf(j) /\ sock[j].sess \in Sockets \cup {NoSock}
    BY <1>2 DEF SlotInv, Typed, Locals
  <2>2. LocalsOf(j)'
    BY <1>2, <2>1 DEF LocalsOf, Calm, SameSessions, Is
  <2>3. SessionOf(j)'
    BY <1>2, <1>3, <2>1 DEF SessionOf, Calm, SameSessions, Up
  <2>4. ResetOf(j)'
    BY <1>2, <1>3, <2>1 DEF ResetOf, Calm, SameSessions, Up, Is
  <2> QED  BY <2>2, <2>3, <2>4
<1>7. ASSUME Stays(h, p, s, o, k) /\ p = sock[h].pc /\ k = sock[h].park
        PROVE  LocalsOf(h)' /\ SessionOf(h)' /\ ResetOf(h)'
  <2>1. sock'[h].pc = sock[h].pc /\ sock'[h].sess = sock[h].sess
        /\ sock'[h].own = sock[h].own /\ sock'[h].park = sock[h].park
    BY <1>2, <1>7 DEF Stays
  <2>2. LocalsOf(h)'
    BY <1>2, <2>1 DEF LocalsOf, Calm, SameSessions, Is
  <2>3. SessionOf(h)'
    BY <1>2, <1>3, <2>1 DEF SessionOf, Calm, SameSessions, Up, Is, Past
  <2>4. ResetOf(h)'
    BY <1>2, <1>3, <2>1 DEF ResetOf, Calm, SameSessions, Up, Is
  <2> QED  BY <2>2, <2>3, <2>4
<1>8. ASSUME s = sock[h].sess /\ o = sock[h].own /\ p = "leaving"
            /\ sock[h].pc \in {"opening", "building", "starting", "serving", "stopping"}
        PROVE  LocalsOf(h)' /\ SessionOf(h)' /\ ResetOf(h)'
  <2>1. LocalsOf(h)'
    BY <1>1, <1>2, <1>8 DEF LocalsOf, ResetOf, Calm, SameSessions, Is, Early, Past
  <2>2. SessionOf(h)'
    BY <1>1, <1>2, <1>3, <1>8 DEF SessionOf, Calm, SameSessions, Up, Is, Past
  <2>3. ResetOf(h)'
    BY <1>1, <1>2, <1>3, <1>8
    DEF ResetOf, LocalsOf, Calm, SameSessions, Up, Is, Past, Early, InReset
  <2> QED  BY <2>1, <2>2, <2>3
<1>9. ASSUME s = sock[h].sess, o = sock[h].own, k = sock[h].park, p = "leaving",
              Is(h, "rebuilding") \/ (Is(h, "reopening") /\ model[Second(h)] = "failed")
        PROVE  LocalsOf(h)' /\ SessionOf(h)' /\ ResetOf(h)'
  <2>1. /\ sock[h].own # NoModel /\ ~sock[h].park /\ p \in Past /\ p \notin Early
        /\ sock[h].pc \notin {"new", "resuming", "opening", "closing", "done", "leaving"}
        /\ model[Second(h)] # "opening"
    BY <1>2, <1>9 DEF LocalsOf, ResetOf, Is, Early, Past
  <2>2. LocalsOf(h)'
    BY <1>2, <1>9, <2>1 DEF LocalsOf, Calm, SameSessions, Is
  <2>3. SessionOf(h)'
    BY <1>1, <1>2, <1>3, <1>9 DEF SessionOf, Calm, SameSessions, Up, Is, Past
  <2>4. ResetOf(h)'
    BY <1>2, <1>3, <1>9, <2>1 DEF ResetOf, Calm, SameSessions, Up, Is, InReset
  <2> QED  BY <2>2, <2>3, <2>4
<1>10. ASSUME s = sock[h].sess /\ o = sock[h].own /\ k = sock[h].park /\ p \in Past
            /\ (Is(h, "new") \/ Is(h, "closing") \/ Is(h, "detaching"))
            /\ (~Is(h, "detaching") => p = "done")
        PROVE  LocalsOf(h)' /\ SessionOf(h)' /\ ResetOf(h)'
  <2>1. LocalsOf(h)'
    BY <1>1, <1>2, <1>10 DEF LocalsOf, ResetOf, Calm, SameSessions, Is, Early, Past
  <2>2. SessionOf(h)'
    BY <1>1, <1>2, <1>3, <1>10 DEF SessionOf, Calm, SameSessions, Up, Is, Past
  <2>3. /\ p \in Past /\ p \notin InReset \cup {"reopening", "rebuilding", "resuming"}
        /\ sock[h].pc \notin {"reopening", "rebuilding"}
        /\ Rejoiners = {} /\ act[h].released => p = "done"
    BY <1>2, <1>10 DEF ResetOf, LocalsOf, SessionOf, Is, Past, Early, InReset
  <2>4. ResetOf(h)'
    BY <1>2, <1>3, <1>10, <2>3 DEF ResetOf, Calm, SameSessions, Up, Is
  <2> QED  BY <2>1, <2>2, <2>4
<1>11. ASSUME s = sock[h].sess, o = sock[h].own, k = sock[h].park, p = "detaching",
              Is(h, "leaving"), sock[h].own # NoModel
        PROVE  LocalsOf(h)' /\ SessionOf(h)' /\ ResetOf(h)'
  <2>1. p \in Past /\ p \notin Early /\ p \notin InReset
        /\ ~(Rejoiners = {} /\ act[h].released)
    BY <1>2, <1>11 DEF ResetOf, Is, Past, Early, InReset
  <2>2. LocalsOf(h)'
    BY <1>1, <1>2, <1>11, <2>1 DEF LocalsOf, Calm, SameSessions, Is
  <2>3. SessionOf(h)'
    BY <1>1, <1>2, <1>3, <1>11 DEF SessionOf, Calm, SameSessions, Up, Is
  <2>4. ResetOf(h)'
    BY <1>2, <1>3, <1>11, <2>1 DEF ResetOf, Calm, SameSessions, Up, Is
  <2> QED  BY <2>2, <2>3, <2>4
<1>12. ASSUME s = sock[h].sess /\ o = sock[h].own /\ k = sock[h].park
            /\ sock[h].pc \in {"building", "starting", "serving", "resetting"}
            /\ p \in {"starting", "serving", "stopping", "resetting", "clearing"}
            /\ (p \in {"resetting", "clearing"} => Resetters # {})
        PROVE  LocalsOf(h)' /\ SessionOf(h)' /\ ResetOf(h)'
  <2>1. LocalsOf(h)'
    BY <1>1, <1>2, <1>12 DEF LocalsOf, ResetOf, Calm, SameSessions, Is, Early, Past
  <2>2. SessionOf(h)'
    BY <1>1, <1>2, <1>3, <1>12 DEF SessionOf, Calm, SameSessions, Up, Is, Past
  <2>3. ResetOf(h)'
    BY <1>1, <1>2, <1>3, <1>12
    DEF ResetOf, LocalsOf, Calm, SameSessions, Up, Is, Past, Early, InReset
  <2> QED  BY <2>1, <2>2, <2>3
<1>13. ASSUME Stays(h, p, s, o, k)
      PROVE  LocalsOf(h)' /\ SessionOf(h)' /\ ResetOf(h)'
  <2>1. s = sock[h].sess /\ o = sock[h].own
    BY <1>13 DEF Stays
  <2>2. CASE p = sock[h].pc /\ k = sock[h].park
    BY <2>2, <1>13, <1>7
  <2>3. CASE p = "leaving" /\ sock[h].pc \in {"opening", "building", "starting", "serving",
                                              "stopping"}
    BY <2>1, <2>3, <1>8
  <2>4. CASE /\ k = sock[h].park /\ p = "leaving"
             /\ Is(h, "rebuilding") \/ (Is(h, "reopening") /\ model[Second(h)] = "failed")
    BY <2>1, <2>4, <1>9
  <2>5. CASE /\ k = sock[h].park
             /\ \/ Is(h, "new") /\ p = "done"
                \/ Is(h, "detaching") /\ p \in {"stopping_jobs", "freeing"}
                \/ Is(h, "closing") /\ p = "done"
    BY <2>1, <2>5, <1>10 DEF Past, Is
  <2>6. CASE /\ k = sock[h].park
             /\ \/ Is(h, "building") /\ p = "starting"
                \/ Is(h, "starting") /\ p = "serving"
                \/ Is(h, "serving") /\ p = "stopping"
                \/ Is(h, "serving") /\ p = "resetting" /\ Resetters # {}
                \/ Is(h, "resetting") /\ p = "clearing"
    <3>1. Is(h, "resetting") => Resetters # {}
      BY <1>2 DEF ResetOf, InReset, Is
    <3> QED  BY <2>1, <2>6, <3>1, <1>12 DEF Is
  <2>7. CASE k = sock[h].park /\ Is(h, "leaving") /\ p = "detaching" /\ sock[h].own # NoModel
    BY <2>1, <2>7, <1>11
  <2> QED  BY <1>13, <2>2, <2>3, <2>4, <2>5, <2>6, <2>7 DEF Stays
<1>14. ASSUME Is(h, "new") /\ p = "resuming" /\ Rejoiners # {} /\ k = sock[h].park
           /\ s \in Sockets /\ act[s].made /\ o = sock[h].own
        PROVE  LocalsOf(h)' /\ SessionOf(h)' /\ ResetOf(h)'
  <2>1. LocalsOf(h)'
    BY <1>1, <1>2, <1>14 DEF LocalsOf, ResetOf, Calm, SameSessions, Is, Early, Past
  <2>2. SessionOf(h)'
    BY <1>1, <1>2, <1>3, <1>14 DEF SessionOf, Calm, SameSessions, Up, Is, Past
  <2>3. ResetOf(h)'
    BY <1>1, <1>2, <1>3, <1>14
    DEF ResetOf, LocalsOf, Calm, SameSessions, Up, Is, Past, Early, InReset
  <2> QED  BY <2>1, <2>2, <2>3
<1>15. ASSUME Is(h, "resuming") /\ p = "starting" /\ k = sock[h].park
           /\ s = sock[h].sess /\ o = act[s].duplex
        PROVE  LocalsOf(h)' /\ SessionOf(h)' /\ ResetOf(h)'
  <2>1. s \in Sockets /\ act[s].made /\ SessionOf(s) /\ ResetOf(s)
    <3>1. s \in Sockets /\ act[s].made
      BY <1>2, <1>15 DEF LocalsOf, Is
    <3> QED  BY <3>1 DEF SlotInv
  <2>2. /\ Rejoiners # {} /\ Resetters = {} /\ s # NoSock
        /\ model[Second(h)] = "none" /\ o = First(s) /\ o # NoModel /\ o # Second(h)
        /\ sock[h].own = NoModel /\ h \notin orphan /\ ~act[h].made
        /\ timer[h].pc = "none" /\ ~sock[h].park
    BY <1>1, <1>2, <1>15, <2>1 DEF LocalsOf, SessionOf, ResetOf, Is, Early, Past, Apart
  <2>3. LocalsOf(h)'
    BY <1>1, <1>2, <1>15, <2>2 DEF LocalsOf, ResetOf, Calm, SameSessions, Is, Early, Past
  <2>4. SessionOf(h)'
    BY <1>1, <1>2, <1>3, <1>15 DEF SessionOf, Calm, SameSessions, Up, Is, Past
  <2>5. ResetOf(h)'
    BY <1>1, <1>2, <1>3, <1>15, <2>2
    DEF ResetOf, LocalsOf, Calm, SameSessions, Up, Is, Past, Early, InReset
  <2> QED  BY <2>3, <2>4, <2>5
<1>16. ASSUME Is(h, "reopening") /\ p = "rebuilding" /\ k = sock[h].park
           /\ model[Second(h)] = "open" /\ s = sock[h].sess /\ o = Second(h)
        PROVE  LocalsOf(h)' /\ SessionOf(h)' /\ ResetOf(h)'
  <2>1. LocalsOf(h)'
    BY <1>1, <1>2, <1>16 DEF LocalsOf, ResetOf, Calm, SameSessions, Is, Early, Past
  <2>2. SessionOf(h)'
    BY <1>1, <1>2, <1>3, <1>16 DEF SessionOf, Calm, SameSessions, Up, Is, Past
  <2>3. ResetOf(h)'
    BY <1>1, <1>2, <1>3, <1>16
    DEF ResetOf, LocalsOf, Calm, SameSessions, Up, Is, Past, Early, InReset
  <2> QED  BY <2>1, <2>2, <2>3
<1>17. LocalsOf(h)' /\ SessionOf(h)' /\ ResetOf(h)'
  BY <1>13, <1>14, <1>15, <1>16 DEF Allowed
<1>18. DxTypeOK'
  BY DEF Typed, DxTypeOK, Locals
<1> QED  BY <1>4, <1>5, <1>6, <1>17, <1>18 DEF SlotInv

TimerRec == [pc : TimerPC, evt : Sockets \cup {NoSock}]

\* The count of failures keeps its bound.
LEMMA FailsType == ASSUME Typed, Fails PROVE faults' \in 0..MaxFaults
  BY Names DEF Typed, Fails

\* CloseModel closes the model if it is open, and touches no other.
LEMMA ModelCloses ==
    ASSUME Typed, NEW m \in Models \cup {NoModel}, CloseModel(m)
    PROVE  /\ model' \in [Models -> {"none", "opening", "open", "closed", "failed"}]
           /\ \A n \in Models : n # m => model'[n] = model[n]
           /\ m \in Models => model'[m] = IF model[m] = "open" THEN "closed" ELSE model[m]
  BY Names DEF Typed, CloseModel

JobStates == {"none", "live", "stopping", "stopped", "closed"}

\* The jobs of a coordinator keep their states.
LEMMA JobsStop ==
    ASSUME Typed, NEW w \in BOOLEAN, NEW c \in Models \cup {NoModel}, JobsStopped(w, c)
    PROVE  jobs' \in [Models -> JobStates]
  BY DEF Typed, JobsStopped, JobStates

\* EndSession writes nothing the slot depends on.
LEMMA SessionEnds ==
    ASSUME Typed, NEW s \in Sockets, NEW c \in Models \cup {NoModel}, EndSession(s, c)
    PROVE  /\ table' \in [SessionIds -> Sockets \cup {NoSock}]
           /\ \A i \in SessionIds : table'[i] \in {table[i], NoSock}
           /\ jobs' \in [Models -> JobStates]
           /\ Changed(act, act', s, act[s].made, act[s].released, act[s].duplex)
<1>1. IdOf[s] \in SessionIds /\ act \in [Sockets -> Active] /\ NoModel \in Models \cup {NoModel}
  BY Names DEF Typed
<1>2. Changed(act, act', s, act[s].made, act[s].released, act[s].duplex)
  BY <1>1, SessionMoves DEF EndSession
<1>3. /\ table' \in [SessionIds -> Sockets \cup {NoSock}]
      /\ \A i \in SessionIds : table'[i] \in {table[i], NoSock}
  BY <1>1 DEF Typed, EndSession
<1>4. jobs' \in [Models -> JobStates]
  BY DEF Typed, EndSession, JobStates
<1> QED  BY <1>2, <1>3, <1>4

\* Such a change of a session leaves what the slot depends on.
LEMMA Same ==
    ASSUME Typed, NEW s \in Sockets,
           act' = act \/ Changed(act, act', s, act[s].made, act[s].released, act[s].duplex)
    PROVE  act' \in [Sockets -> Active] /\ SameSessions
  BY DEF Typed, Changed, SameSessions

\* What the invariant says of one socket, and the types of its locals.
LEMMA Base ==
    ASSUME SlotInv, NEW h \in Sockets
    PROVE  /\ Typed /\ LocalsOf(h) /\ SessionOf(h) /\ ResetOf(h)
           /\ sock \in [Sockets -> Locals] /\ act \in [Sockets -> Active]
           /\ timer \in [Sockets -> TimerRec]
           /\ sock[h].sess \in Sockets \cup {NoSock}
           /\ sock[h].own \in Models \cup {NoModel} /\ sock[h].crd \in Models \cup {NoModel}
           /\ sock[h].pc \notin {"new", "opening", "leaving", "done"} => sock[h].sess \in Sockets
           /\ timer[h].pc # "none" => sock[h].sess \in Sockets
           /\ sock[h].sess \in Sockets => act[sock[h].sess].coord \in Models \cup {NoModel}
                                          /\ act[sock[h].sess].duplex \in Models \cup {NoModel}
<1>1. Typed /\ LocalsOf(h) /\ SessionOf(h) /\ ResetOf(h)
  BY TypesAre DEF SlotInv
<1>2. sock \in [Sockets -> Locals] /\ act \in [Sockets -> Active] /\ timer \in [Sockets -> TimerRec]
  BY <1>1 DEF Typed, TimerRec
<1>3. /\ sock[h].sess \in Sockets \cup {NoSock}
      /\ sock[h].own \in Models \cup {NoModel} /\ sock[h].crd \in Models \cup {NoModel}
      /\ sock[h].pc \in Handler
  BY <1>2 DEF Locals
<1>4. sock[h].pc \notin {"new", "opening", "leaving", "done"} => sock[h].sess \in Sockets
  BY <1>1, <1>3 DEF LocalsOf, Is, Early
<1>5. timer[h].pc # "none" => sock[h].sess \in Sockets
  BY <1>1, <1>3 DEF LocalsOf
<1>6. \A s \in Sockets : act[s].coord \in Models \cup {NoModel}
                          /\ act[s].duplex \in Models \cup {NoModel}
  BY <1>2 DEF Active
<1> QED  BY <1>1, <1>2, <1>3, <1>4, <1>5, <1>6

CalmTyped ==
    /\ table' \in [SessionIds -> Sockets \cup {NoSock}]
    /\ \A i \in SessionIds : table'[i] \in {table[i], NoSock}
    /\ jobs' \in [Models -> JobStates]
    /\ timer' \in [Sockets -> TimerRec]
    /\ \A j \in Sockets : timer'[j].pc = "none" <=> timer[j].pc = "none"
    /\ fired' \subseteq Sockets \cup {NoSock}
    /\ screen' \in [Sockets -> {"none", "open", "closed"}]
    /\ faults' \in 0..MaxFaults

\* A calm step, put together.
LEMMA CalmMove ==
    ASSUME SlotInv, Apart, NEW h \in Sockets, NEW t \in Sockets,
           NEW p, NEW s, NEW o, NEW k, Moved(sock, sock', h, p, s, o, k), Allowed(h, p, s, o, k),
           act' = act \/ Changed(act, act', t, act[t].made, act[t].released, act[t].duplex),
           CalmTyped, UNCHANGED <<locked, model, orphan>>
    PROVE  SlotInv'
<1>1. Typed
  BY Base
<1>2. act' \in [Sockets -> Active] /\ SameSessions
  BY <1>1, Same
<1>3. Typed'
  BY <1>1, <1>2 DEF Typed, CalmTyped, JobStates, TimerRec, Moved
<1>4. Calm
  BY <1>2 DEF Calm, CalmTyped
<1> QED  BY <1>3, <1>4, CalmKeeps

\* The calm steps of a handler that only move it, or write its session.
LEMMA WalkSteps ==
    ASSUME SlotInv, Apart, NEW h \in Sockets,
           \/ OpenRaises(h)
           \/ Ready(h)
           \/ LeaveEarly(h)
           \/ Disconnects(h)
           \/ ResetCloses(h)
           \/ Closes(h)
           \/ ConnectBusy(h)
           \/ Flood(h)
           \/ Ends(h)
           \/ Stop(h)
           \/ Reset(h)
           \/ Drops(h)
    PROVE  SlotInv'
<1> USE Base, Places
<1>1. CASE OpenRaises(h)
  <2>1. Moved(sock, sock', h, "leaving", sock[h].sess, sock[h].own, sock[h].park)
    BY <1>1, HandlerMoves, Names DEF OpenRaises, Go
  <2>2. Allowed(h, "leaving", sock[h].sess, sock[h].own, sock[h].park)
    BY <1>1 DEF OpenRaises, Allowed, Stays, Is, ResetOf, LocalsOf
  <2>3. act' = act
    BY <1>1 DEF OpenRaises
  <2>4. CalmTyped /\ UNCHANGED <<locked, model, orphan>>
    BY <1>1 DEF OpenRaises, CalmTyped, Typed, JobStates
  <2> QED  BY <2>1, <2>2, <2>3, <2>4, CalmMove
<1>2. CASE Ready(h)
  <2>1. Moved(sock, sock', h, "serving", sock[h].sess, sock[h].own, sock[h].park)
    BY <1>2, HandlerMoves, Names DEF Ready, Go
  <2>2. Allowed(h, "serving", sock[h].sess, sock[h].own, sock[h].park)
    BY <1>2 DEF Ready, Allowed, Stays, Is, ResetOf, LocalsOf
  <2>3. sock[h].sess \in Sockets /\ Changed(act, act', sock[h].sess, act[sock[h].sess].made,
                                       act[sock[h].sess].released, act[sock[h].sess].duplex)
    BY <1>2, SessionMoves, Names DEF Ready, Is
  <2>4. CalmTyped /\ UNCHANGED <<locked, model, orphan>>
    BY <1>2 DEF Ready, CalmTyped, Typed, JobStates
  <2> QED  BY <2>1, <2>2, <2>3, <2>4, CalmMove
<1>3. CASE LeaveEarly(h)
  <2>1. Moved(sock, sock', h, "leaving", sock[h].sess, sock[h].own, TRUE)
    BY <1>3, HandlerMoves, Names DEF LeaveEarly, Go
  <2>2. Allowed(h, "leaving", sock[h].sess, sock[h].own, TRUE)
    BY <1>3 DEF LeaveEarly, Allowed, Stays, Is, ResetOf, LocalsOf
  <2>3. act' = act
    BY <1>3 DEF LeaveEarly
  <2>4. CalmTyped /\ UNCHANGED <<locked, model, orphan>>
    BY <1>3 DEF LeaveEarly, CalmTyped, Typed, JobStates
  <2> QED  BY <2>1, <2>2, <2>3, <2>4, CalmMove
<1>4. CASE Disconnects(h)
  <2>1. Moved(sock, sock', h, "leaving", sock[h].sess, sock[h].own, TRUE)
    BY <1>4, HandlerMoves, Names DEF Disconnects, Go
  <2>2. Allowed(h, "leaving", sock[h].sess, sock[h].own, TRUE)
    BY <1>4 DEF Disconnects, Allowed, Stays, Is, ResetOf, LocalsOf
  <2>3. act' = act
    BY <1>4 DEF Disconnects
  <2>4. CalmTyped /\ UNCHANGED <<locked, model, orphan>>
    BY <1>4 DEF Disconnects, CalmTyped, Typed, JobStates
  <2> QED  BY <2>1, <2>2, <2>3, <2>4, CalmMove
<1>5. CASE ResetCloses(h)
  <2>1. Moved(sock, sock', h, "clearing", sock[h].sess, sock[h].own, sock[h].park)
    BY <1>5, HandlerMoves, Names DEF ResetCloses, Go
  <2>2. Allowed(h, "clearing", sock[h].sess, sock[h].own, sock[h].park)
    BY <1>5 DEF ResetCloses, Allowed, Stays, Is, ResetOf, LocalsOf
  <2>3. act' = act
    BY <1>5 DEF ResetCloses
  <2>4. CalmTyped /\ UNCHANGED <<locked, model, orphan>>
    BY <1>5 DEF ResetCloses, CalmTyped, Typed, JobStates
  <2> QED  BY <2>1, <2>2, <2>3, <2>4, CalmMove
<1>6. CASE Closes(h)
  <2>1. Moved(sock, sock', h, "done", sock[h].sess, sock[h].own, sock[h].park)
    BY <1>6, HandlerMoves, Names DEF Closes, Go
  <2>2. Allowed(h, "done", sock[h].sess, sock[h].own, sock[h].park)
    BY <1>6 DEF Closes, Allowed, Stays, Is, ResetOf, LocalsOf
  <2>3. act' = act
    BY <1>6 DEF Closes
  <2>4. CalmTyped /\ UNCHANGED <<locked, model, orphan>>
    BY <1>6 DEF Closes, CalmTyped, Typed, JobStates
  <2> QED  BY <2>1, <2>2, <2>3, <2>4, CalmMove
<1>7. CASE ConnectBusy(h)
  <2>1. Moved(sock, sock', h, "done", sock[h].sess, sock[h].own, sock[h].park)
    BY <1>7, HandlerMoves, Names DEF ConnectBusy, Go
  <2>2. Allowed(h, "done", sock[h].sess, sock[h].own, sock[h].park)
    BY <1>7 DEF ConnectBusy, Allowed, Stays, Is, ResetOf, LocalsOf
  <2>3. act' = act
    BY <1>7 DEF ConnectBusy
  <2>4. CalmTyped /\ UNCHANGED <<locked, model, orphan>>
    BY <1>7 DEF ConnectBusy, CalmTyped, Typed, JobStates
  <2> QED  BY <2>1, <2>2, <2>3, <2>4, CalmMove
<1>8. CASE Flood(h)
  <2>1. Moved(sock, sock', h, "leaving", sock[h].sess, sock[h].own, sock[h].park)
    BY <1>8, HandlerMoves, Names DEF Flood, Go
  <2>2. Allowed(h, "leaving", sock[h].sess, sock[h].own, sock[h].park)
    BY <1>8 DEF Flood, Allowed, Stays, Is, ResetOf, LocalsOf
  <2>3. act' = act
    BY <1>8 DEF Flood
  <2>4. CalmTyped /\ UNCHANGED <<locked, model, orphan>>
    BY <1>8 DEF Flood, CalmTyped, Typed, JobStates
  <2> QED  BY <2>1, <2>2, <2>3, <2>4, CalmMove
<1>9. CASE Ends(h)
  <2>1. Moved(sock, sock', h, "leaving", sock[h].sess, sock[h].own, sock[h].park)
    BY <1>9, HandlerMoves, Names DEF Ends, Go
  <2>2. Allowed(h, "leaving", sock[h].sess, sock[h].own, sock[h].park)
    BY <1>9 DEF Ends, Allowed, Stays, Is, ResetOf, LocalsOf
  <2>3. act' = act
    BY <1>9 DEF Ends
  <2>4. CalmTyped /\ UNCHANGED <<locked, model, orphan>>
    BY <1>9 DEF Ends, CalmTyped, Typed, JobStates
  <2> QED  BY <2>1, <2>2, <2>3, <2>4, CalmMove
<1>10. CASE Stop(h)
  <2>1. Moved(sock, sock', h, "stopping", sock[h].sess, sock[h].own, sock[h].park)
    BY <1>10, HandlerMoves, Names DEF Stop, Go
  <2>2. Allowed(h, "stopping", sock[h].sess, sock[h].own, sock[h].park)
    BY <1>10 DEF Stop, Allowed, Stays, Is, ResetOf, LocalsOf
  <2>3. sock[h].sess \in Sockets /\ Changed(act, act', sock[h].sess, act[sock[h].sess].made,
                                       act[sock[h].sess].released, act[sock[h].sess].duplex)
    BY <1>10, SessionMoves, Names DEF Stop, Is
  <2>4. CalmTyped /\ UNCHANGED <<locked, model, orphan>>
    BY <1>10 DEF Stop, CalmTyped, Typed, JobStates
  <2> QED  BY <2>1, <2>2, <2>3, <2>4, CalmMove
<1>11. CASE Reset(h)
  <2>1. Moved(sock, sock', h, "resetting", sock[h].sess, sock[h].own, sock[h].park)
    BY <1>11, HandlerMoves, Names DEF Reset, Go
  <2>2. Allowed(h, "resetting", sock[h].sess, sock[h].own, sock[h].park)
    BY <1>11 DEF Reset, Allowed, Stays, Is, ResetOf, LocalsOf
  <2>3. sock[h].sess \in Sockets /\ Changed(act, act', sock[h].sess, act[sock[h].sess].made,
                                       act[sock[h].sess].released, act[sock[h].sess].duplex)
    BY <1>11, SessionMoves, Names DEF Reset, Is
  <2>4. CalmTyped /\ UNCHANGED <<locked, model, orphan>>
    BY <1>11 DEF Reset, CalmTyped, Typed, JobStates
  <2> QED  BY <2>1, <2>2, <2>3, <2>4, CalmMove
<1>12. CASE Drops(h)
  <2>1. Moved(sock, sock', h, sock[h].pc, sock[h].sess, sock[h].own, sock[h].park)
    BY <1>12, HandlerMoves, Names DEF Drops, Go
  <2>2. Allowed(h, sock[h].pc, sock[h].sess, sock[h].own, sock[h].park)
    BY <1>12 DEF Drops, Allowed, Stays, Is, ResetOf, LocalsOf
  <2>3. act' = act
    BY <1>12 DEF Drops
  <2>4. CalmTyped /\ UNCHANGED <<locked, model, orphan>>
    BY <1>12 DEF Drops, CalmTyped, Typed, JobStates
  <2> QED  BY <2>1, <2>2, <2>3, <2>4, CalmMove
<1> QED  BY <1>1, <1>2, <1>3, <1>4, <1>5, <1>6, <1>7, <1>8, <1>9, <1>10, <1>11, <1>12

\* The other calm steps of a handler.
LEMMA CalmSteps ==
    ASSUME SlotInv, Apart, NEW h \in Sockets,
           \/ Attach(h) \/ Built(h) \/ ResetOpened(h) \/ Detach(h) \/ ConnectResumes(h)
    PROVE  SlotInv'
<1> USE Base, Places
<1> DEFINE l == sock[h]
<1>1. CASE Attach(h)
  <2>1. sock[h].sess \in Sockets /\ act[sock[h].sess].evt \in Sockets \cup {NoSock}
    BY <1>1 DEF Attach, Is, Active
  <2>2. Moved(sock, sock', h, "starting", sock[h].sess, act[sock[h].sess].duplex, sock[h].park)
    <3>1. /\ "starting" \in Handler /\ sock \in [Sockets -> Locals]
          /\ act[sock[h].sess].duplex \in Models \cup {NoModel}
          /\ act[sock[h].sess].coord \in Models \cup {NoModel}
      BY <2>1
    <3>2. sock' = [sock EXCEPT ![h].pc = "starting", ![h].own = act[sock[h].sess].duplex,
                               ![h].crd = act[sock[h].sess].coord]
      BY <1>1 DEF Attach
    <3> QED  BY <3>1, <3>2, HandlerMoves
  <2>3. Allowed(h, "starting", sock[h].sess, act[sock[h].sess].duplex, sock[h].park)
    BY <1>1 DEF Attach, Allowed
  <2>4. Changed(act, act', sock[h].sess, act[sock[h].sess].made,
                act[sock[h].sess].released, act[sock[h].sess].duplex)
    BY <1>1, <2>1, SessionMoves, Names DEF Attach
  <2>5. CalmTyped /\ UNCHANGED <<locked, model, orphan>>
    BY <1>1, <2>1 DEF Attach, CalmTyped, Typed, JobStates
  <2> QED  BY <2>1, <2>2, <2>3, <2>4, <2>5, CalmMove
<1>2. CASE Built(h)
  <2>1. sock[h].sess \in Sockets
    BY <1>2 DEF Built, Is
  <2>2. CASE Go(h, "leaving") /\ UNCHANGED act
    <3>1. Moved(sock, sock', h, "leaving", sock[h].sess, sock[h].own, sock[h].park)
      BY <2>2, HandlerMoves, Names DEF Go
    <3>2. Allowed(h, "leaving", sock[h].sess, sock[h].own, sock[h].park)
      BY <1>2 DEF Built, Allowed, Stays, Is
    <3>3. CalmTyped /\ UNCHANGED <<locked, model, orphan>>
      BY <1>2, FailsType DEF Built, CalmTyped, Typed, JobStates
    <3> QED  BY <2>2, <3>1, <3>2, <3>3, CalmMove
  <2>3. CASE /\ act' = [act EXCEPT ![h].coord = <<h, 1>>]
             /\ sock' = [sock EXCEPT ![h].pc = "starting", ![h].crd = <<h, 1>>]
    <3>1. <<h, 1>> \in Models \cup {NoModel}
      BY Names DEF First
    <3>2. Moved(sock, sock', h, "starting", sock[h].sess, sock[h].own, sock[h].park)
      BY <2>3, <3>1, HandlerMoves, Names
    <3>3. Allowed(h, "starting", sock[h].sess, sock[h].own, sock[h].park)
      BY <1>2 DEF Built, Allowed, Stays, Is
    <3>4. Changed(act, act', h, act[h].made, act[h].released, act[h].duplex)
      BY <2>3, <3>1, SessionMoves, Names
    <3>5. CalmTyped /\ UNCHANGED <<locked, model, orphan>>
      BY <1>2, FailsType DEF Built, CalmTyped, Typed, JobStates
    <3> QED  BY <3>2, <3>3, <3>4, <3>5, CalmMove
  <2> QED  BY <1>2, <2>2, <2>3 DEF Built
<1>3. CASE ResetOpened(h)
  <2>1. CalmTyped /\ UNCHANGED <<locked, model, orphan, act>>
    BY <1>3 DEF ResetOpened, CalmTyped, Typed, JobStates
  <2>2. CASE model[Second(h)] = "open"
    <3>1. Moved(sock, sock', h, "rebuilding", sock[h].sess, Second(h), sock[h].park)
      <4>1. sock' = [sock EXCEPT ![h].pc = "rebuilding", ![h].own = Second(h)]
        BY <1>3, <2>2 DEF ResetOpened, Second
      <4> QED  BY <4>1, HandlerMoves, Names
    <3>2. Allowed(h, "rebuilding", sock[h].sess, Second(h), sock[h].park)
      BY <1>3, <2>2 DEF ResetOpened, Allowed
    <3> QED  BY <2>1, <3>1, <3>2, CalmMove
  <2>3. CASE model[Second(h)] # "open"
    <3>1. sock' = [sock EXCEPT ![h].pc = "leaving"] /\ model[Second(h)] = "failed"
      BY <1>3, <2>3 DEF ResetOpened, Second
    <3>2. Moved(sock, sock', h, "leaving", sock[h].sess, sock[h].own, sock[h].park)
      BY <3>1, HandlerMoves, Names
    <3>3. Allowed(h, "leaving", sock[h].sess, sock[h].own, sock[h].park)
      BY <1>3, <3>1 DEF ResetOpened, Allowed, Stays
    <3> QED  BY <2>1, <3>2, <3>3, CalmMove
  <2> QED  BY <2>2, <2>3
<1>4. CASE Detach(h)
  <2>1. sock[h].sess \in Sockets
    BY <1>4 DEF Detach, Is
  <2>2. PICK p \in {"stopping_jobs", "freeing"} : Go(h, p)
    BY <1>4 DEF Detach, AfterEnd
  <2>3. p \in Handler
    BY <2>2
  <2>4. Moved(sock, sock', h, p, sock[h].sess, sock[h].own, sock[h].park)
    BY <2>2, <2>3, HandlerMoves, Names DEF Go
  <2>5. Allowed(h, p, sock[h].sess, sock[h].own, sock[h].park)
    BY <1>4, <2>2 DEF Detach, Allowed, Stays
  <2>6. CASE EndSession(sock[h].sess, sock[h].crd) /\ UNCHANGED faults
    <3>1. CalmTyped /\ UNCHANGED <<locked, model, orphan>>
      BY <1>4, <2>1, <2>6, SessionEnds DEF Detach, CalmTyped, Typed, JobStates
    <3> QED  BY <2>1, <2>4, <2>5, <2>6, <3>1, SessionEnds, CalmMove
  <2>7. CASE Fails /\ UNCHANGED <<table, act, jobs>>
    <3>1. CalmTyped /\ UNCHANGED <<locked, model, orphan>>
      BY <1>4, <2>7, FailsType DEF Detach, CalmTyped, Typed, JobStates
    <3> QED  BY <2>4, <2>5, <2>7, <3>1, CalmMove
  <2> QED  BY <1>4, <2>6, <2>7 DEF Detach
<1>5. CASE ConnectResumes(h)
  <2>1. table[IdOf[h]] \in Sockets /\ act[table[IdOf[h]]].made /\ Rejoiners # {}
    BY <1>5, Names DEF ConnectResumes, CanResume, Typed, SlotInv, Listed
  <2>2. Moved(sock, sock', h, "resuming", table[IdOf[h]], sock[h].own, sock[h].park)
    BY <1>5, <2>1, HandlerMoves, Names DEF ConnectResumes
  <2>3. Allowed(h, "resuming", table[IdOf[h]], sock[h].own, sock[h].park)
    BY <1>5, <2>1 DEF ConnectResumes, Allowed
  <2>4. CalmTyped /\ UNCHANGED <<locked, model, orphan, act>>
    BY <1>5 DEF ConnectResumes, CalmTyped, Typed, JobStates
  <2> QED  BY <2>2, <2>3, <2>4, CalmMove
<1> QED  BY <1>1, <1>2, <1>3, <1>4, <1>5

\* A handler stays where it is while a timer or a screen goes on.
LEMMA Rests == ASSUME SlotInv, NEW h \in Sockets, sock' = sock
               PROVE  /\ Moved(sock, sock', h, sock[h].pc, sock[h].sess, sock[h].own, sock[h].park)
                      /\ Allowed(h, sock[h].pc, sock[h].sess, sock[h].own, sock[h].park)
  BY Base DEF Moved, Allowed, Stays

\* A timer that is running and goes on keeps running.
LEMMA Ticking ==
    ASSUME Typed, NEW h \in Sockets, NEW p \in TimerPC, p # "none", timer[h].pc # "none",
           NEW e \in Sockets \cup {NoSock},
           Tick(h, p) \/ timer' = [timer EXCEPT ![h] = [pc |-> p, evt |-> e]]
    PROVE  /\ timer' \in [Sockets -> TimerRec]
           /\ \A j \in Sockets : timer'[j].pc = "none" <=> timer[j].pc = "none"
<1>1. timer \in [Sockets -> TimerRec]
  BY DEF Typed, TimerRec
<1>2. timer' \in [Sockets -> TimerRec] /\ timer'[h].pc = p
      /\ \A j \in Sockets : j # h => timer'[j] = timer[j]
  <2>1. CASE Tick(h, p)
    BY <1>1, <2>1 DEF Tick, TimerRec
  <2>2. CASE timer' = [timer EXCEPT ![h] = [pc |-> p, evt |-> e]]
    BY <1>1, <2>2 DEF TimerRec
  <2> QED  BY <2>1, <2>2
<1> QED  BY <1>2

\* The calm steps of timers and screens.
LEMMA TimerSteps ==
    ASSUME SlotInv, Apart, NEW h \in Sockets,
           \/ TimerDetached(h) \/ TimerWakes(h) \/ TimerExpires(h) \/ TimerCloses(h) \/ Screens(h)
    PROVE  SlotInv'
<1> USE Base, Places
<1>1. sock' = sock /\ UNCHANGED <<locked, model, orphan>>
  BY DEF TimerDetached, TimerWakes, TimerExpires, TimerCloses, Screens, ScreenOpens,
         ScreenSeesEnd, ScreenLeaves
<1>2. CASE TimerDetached(h)
  <2>1. sock[h].sess \in Sockets /\ act[sock[h].sess].evt \in Sockets \cup {NoSock}
    BY <1>2 DEF TimerDetached, Active
  <2>2. timer' = [timer EXCEPT ![h] = [pc |-> "waiting", evt |-> act[sock[h].sess].evt]]
    BY <1>2 DEF TimerDetached, Held
  <2>3. timer' \in [Sockets -> TimerRec]
        /\ \A j \in Sockets : timer'[j].pc = "none" <=> timer[j].pc = "none"
    <3>1. "waiting" \in TimerPC /\ timer[h].pc # "none"
      BY <1>2 DEF TimerDetached
    <3> QED  BY <2>1, <2>2, <3>1, Ticking
  <2>4. CalmTyped /\ act' = act
    BY <1>2, <2>3 DEF TimerDetached, CalmTyped, Typed, JobStates
  <2> QED  BY <1>1, <2>4, Rests, CalmMove
<1>3. CASE TimerWakes(h)
  <2>1. PICK p \in {"done", "due"} : Tick(h, p)
    BY <1>3 DEF TimerWakes
  <2>2. p \in TimerPC /\ p # "none"
    BY <2>1
  <2>3. timer' \in [Sockets -> TimerRec]
        /\ \A j \in Sockets : timer'[j].pc = "none" <=> timer[j].pc = "none"
    BY <1>3, <2>1, <2>2, Ticking DEF TimerWakes
  <2>4. CalmTyped /\ act' = act
    BY <1>3, <2>3 DEF TimerWakes, CalmTyped, Typed, JobStates
  <2> QED  BY <1>1, <2>4, Rests, CalmMove
<1>4. CASE TimerExpires(h)
  <2>1. sock[h].sess \in Sockets
    BY <1>4 DEF TimerExpires
  <2>2. PICK p \in {"done", "stopping_jobs", "freeing"} : Tick(h, p)
    BY <1>4 DEF TimerExpires, AfterEnd
  <2>3. timer' \in [Sockets -> TimerRec]
        /\ \A j \in Sockets : timer'[j].pc = "none" <=> timer[j].pc = "none"
    <3>1. p \in TimerPC /\ p # "none"
      BY <2>2
    <3> QED  BY <1>4, <2>2, <3>1, Ticking DEF TimerExpires
  <2>4. CASE EndSession(Held(h), act[Held(h)].coord)
    <3>1. CalmTyped
      BY <1>4, <2>1, <2>3, <2>4, SessionEnds DEF TimerExpires, CalmTyped, Typed, JobStates, Held
    <3> QED  BY <1>1, <2>1, <2>4, <3>1, SessionEnds, Rests, CalmMove DEF Held
  <2>5. CASE UNCHANGED <<table, act, jobs>>
    <3>1. CalmTyped
      BY <1>4, <2>3, <2>5 DEF TimerExpires, CalmTyped, Typed, JobStates
    <3> QED  BY <1>1, <2>5, <3>1, Rests, CalmMove
  <2> QED  BY <1>4, <2>4, <2>5 DEF TimerExpires
<1>5. CASE TimerCloses(h)
  <2>1. timer' \in [Sockets -> TimerRec]
        /\ \A j \in Sockets : timer'[j].pc = "none" <=> timer[j].pc = "none"
    BY <1>5, Ticking DEF TimerCloses
  <2>2. CalmTyped /\ act' = act
    BY <1>5, <2>1 DEF TimerCloses, CalmTyped, Typed, JobStates
  <2> QED  BY <1>1, <2>2, Rests, CalmMove
<1>6. CASE Screens(h)
  <2>1. CalmTyped /\ act' = act
    <3>1. CASE ScreenOpens(h)
      BY <3>1 DEF ScreenOpens, CalmTyped, Typed, JobStates
    <3>2. CASE ScreenSeesEnd(h)
      BY <3>2 DEF ScreenSeesEnd, CalmTyped, Typed, JobStates
    <3>3. CASE ScreenLeaves(h)
      BY <3>3 DEF ScreenLeaves, CalmTyped, Typed, JobStates
    <3> QED  BY <1>6, <3>1, <3>2, <3>3 DEF Screens
  <2> QED  BY <1>1, <2>1, Rests, CalmMove
<1> QED  BY <1>2, <1>3, <1>4, <1>5, <1>6

-----------------------------------------------------------------------------
(* Steps that open or close a model, take or give back the slot.             *)

Fades(j) ==
    /\ model'[First(j)] = model[First(j)] \/
       (model[First(j)] = "open" /\ model'[First(j)] = "closed")
    /\ model'[Second(j)] = model[Second(j)] \/
       (model[Second(j)] = "open" /\ model'[Second(j)] = "closed")

StaysMade == \A s \in Sockets : act[s].made => act'[s].made

\* What the step does not touch keeps its invariant.
LEMMA OthersKeep ==
    ASSUME SlotInv, NEW j \in Sockets, sock'[j] = sock[j], StaysMade, Fades(j),
           act'[j].made = act[j].made, act'[j].released = act[j].released,
           act'[j].duplex = act[j].duplex,
           timer'[j].pc = "none" <=> timer[j].pc = "none", j \in orphan' <=> j \in orphan
    PROVE  /\ Slot(j)' <=> Slot(j)
           /\ LocalsOf(j)' /\ SessionOf(j)' /\ ResetOf(j)'
<1>1. LocalsOf(j) /\ SessionOf(j) /\ ResetOf(j) /\ sock[j].sess \in Sockets \cup {NoSock}
  BY Base
<1>2. Slot(j)' <=> Slot(j)
  BY DEF Slot, Is
<1>3. LocalsOf(j)'
  BY <1>1 DEF LocalsOf, Is, StaysMade, Fades
<1>4. SessionOf(j)'
  BY <1>1, <1>2 DEF SessionOf, Up, Fades
<1>5. ResetOf(j)'
  BY <1>1, <1>2 DEF ResetOf, Is, Up, Fades
<1> QED  BY <1>2, <1>3, <1>4, <1>5

\* A socket takes the free slot.
LEMMA ConnectFreshKeeps ==
    ASSUME SlotInv, Apart, NEW h \in Sockets, ConnectFresh(h) PROVE SlotInv'
<1>1. /\ Typed /\ Is(h, "new") /\ sock[h].sess = NoSock /\ sock[h].own = NoModel
      /\ ~act[h].made /\ ~act[h].released /\ timer[h].pc = "none" /\ ~sock[h].park
      /\ model[First(h)] = "none" /\ model[Second(h)] = "none" /\ h \notin orphan
  BY Base DEF ConnectFresh, LocalsOf, SessionOf, ResetOf, Is, Past
<1>2. /\ Moved(sock, sock', h, "opening", NoSock, NoModel, sock[h].park)
      /\ UNCHANGED <<table, act, jobs, timer, fired, orphan, screen, faults>>
      /\ model' \in [Models -> {"none", "opening", "open", "closed", "failed"}]
      /\ model'[First(h)] = "opening" /\ \A m \in Models : m # First(h) => model'[m] = model[m]
      /\ locked' = TRUE /\ ~locked
  <2>1. Moved(sock, sock', h, "opening", NoSock, NoModel, sock[h].park)
    <3>1. "opening" \in Handler /\ sock \in [Sockets -> Locals]
      BY Places, Base
    <3> QED  BY <1>1, <3>1, HandlerMoves, Names DEF ConnectFresh, Go
  <2>2. First(h) \in Models /\ model' = [model EXCEPT ![First(h)] = "opening"]
    BY Names DEF ConnectFresh, First
  <2> QED  BY <1>1, <2>1, <2>2 DEF ConnectFresh, Typed
<1>3. \A j \in Sockets : j # h =>
         (Slot(j)' <=> Slot(j)) /\ LocalsOf(j)' /\ SessionOf(j)' /\ ResetOf(j)'
  <2> SUFFICES ASSUME NEW j \in Sockets, j # h
               PROVE  (Slot(j)' <=> Slot(j)) /\ LocalsOf(j)' /\ SessionOf(j)' /\ ResetOf(j)'
    OBVIOUS
  <2>1. sock'[j] = sock[j] /\ StaysMade /\ Fades(j)
    BY <1>2, Names DEF Moved, StaysMade, Fades
  <2> QED  BY <1>2, <2>1, OthersKeep
<1>4. Slot(h)' /\ \A j \in Sockets : ~Slot(j)
  BY <1>2 DEF Slot, Is, Moved, SlotInv, OneSlot
<1>5. LocalsOf(h)' /\ SessionOf(h)' /\ ResetOf(h)'
  <2>1. model'[Second(h)] = "none"
    BY <1>1, <1>2, Names
  <2>2. LocalsOf(h)'
    BY <1>1, <1>2, <2>1 DEF LocalsOf, Moved, Is, Early
  <2>3. SessionOf(h)'
    BY <1>1, <1>2, <1>4 DEF SessionOf, Moved, Up
  <2>4. ResetOf(h)'
    BY <1>1, <1>2, <2>1, Names DEF ResetOf, Moved, Up, Is, InReset
  <2> QED  BY <2>2, <2>3, <2>4
<1>6. OneSlot'
  BY <1>2, <1>3, <1>4 DEF OneSlot
<1>7. DxTypeOK' /\ Listed'
  BY <1>1, <1>2 DEF DxTypeOK, Typed, Moved, Locals, Listed, SlotInv
<1> QED  BY <1>3, <1>5, <1>6, <1>7 DEF SlotInv

\* A model's open ends, on its thread.
LEMMA OpenedKeeps ==
    ASSUME SlotInv, Apart, NEW m \in Models, Opened(m) PROVE SlotInv'
<1>1. PICK h \in Sockets : m = First(h) \/ m = Second(h)
  BY Names
<1>2. /\ Typed /\ LocalsOf(h) /\ SessionOf(h) /\ ResetOf(h)
      /\ model' \in [Models -> {"none", "opening", "open", "closed", "failed"}]
      /\ model[m] = "opening" /\ model'[m] \in {"open", "failed"}
      /\ \A n \in Models : n # m => model'[n] = model[n]
      /\ UNCHANGED <<locked, table, act, jobs, sock, timer, fired, orphan, screen>>
      /\ faults' \in 0..MaxFaults
  <2>1. Typed /\ LocalsOf(h) /\ SessionOf(h) /\ ResetOf(h)
    BY Base
  <2>2. faults' \in 0..MaxFaults
    BY <2>1, FailsType DEF Opened, Typed
  <2> QED  BY <2>1, <2>2 DEF Opened, Typed
<1>3. \A j \in Sockets : j # h => First(j) # m /\ Second(j) # m
  BY <1>1, Names
<1>4. \A j \in Sockets : j # h =>
         (Slot(j)' <=> Slot(j)) /\ LocalsOf(j)' /\ SessionOf(j)' /\ ResetOf(j)'
  <2> SUFFICES ASSUME NEW j \in Sockets, j # h
               PROVE  (Slot(j)' <=> Slot(j)) /\ LocalsOf(j)' /\ SessionOf(j)' /\ ResetOf(j)'
    OBVIOUS
  <2>1. StaysMade /\ Fades(j)
    BY <1>2, <1>3, Names DEF StaysMade, Fades
  <2> QED  BY <1>2, <2>1, OthersKeep
<1>5. Slot(h)' <=> Slot(h)
  BY <1>2 DEF Slot, Is
<1>6. LocalsOf(h)' /\ SessionOf(h)' /\ ResetOf(h)'
  <2>1. CASE m = First(h)
    <3>1. model'[Second(h)] = model[Second(h)] /\ model[Second(h)] = "none" /\ ~act[h].made
          /\ Slot(h)
      BY <1>2, <2>1, Names DEF ResetOf, SessionOf, LocalsOf, Up
    <3>2. LocalsOf(h)'
      BY <1>2, <2>1, <3>1 DEF LocalsOf, Is
    <3>3. SessionOf(h)'
      BY <1>2, <1>5, <2>1, <3>1 DEF SessionOf, Up
    <3>4. ResetOf(h)'
      BY <1>2, <1>5, <2>1, <3>1 DEF ResetOf, Is, Up
    <3> QED  BY <3>2, <3>3, <3>4
  <2>2. CASE m = Second(h)
    <3>1. model'[First(h)] = model[First(h)] /\ Is(h, "reopening") /\ Slot(h)
          /\ sock[h].own # Second(h) /\ ~sock[h].park
      BY <1>2, <2>2, Names DEF ResetOf, LocalsOf, Up, Is, Past
    <3>2. LocalsOf(h)'
      BY <1>2, <2>2, <3>1 DEF LocalsOf, Is
    <3>3. SessionOf(h)'
      BY <1>2, <1>5, <2>2, <3>1 DEF SessionOf, Up
    <3>4. ResetOf(h)'
      BY <1>2, <1>5, <2>2, <3>1 DEF ResetOf, Is, Up
    <3> QED  BY <3>2, <3>3, <3>4
  <2> QED  BY <1>1, <2>1, <2>2
<1>7. OneSlot'
  BY <1>2, <1>4, <1>5 DEF OneSlot, SlotInv
<1>8. DxTypeOK' /\ Listed'
  BY <1>2 DEF DxTypeOK, Typed, Locals, Listed, SlotInv
<1> QED  BY <1>4, <1>6, <1>7, <1>8 DEF SlotInv

\* The open is taken by the handler that waits for it: the session is made.
LEMMA TakeOpenKeeps ==
    ASSUME SlotInv, Apart, NEW h \in Sockets, TakeOpen(h) PROVE SlotInv'
<1>1. /\ Typed /\ LocalsOf(h) /\ SessionOf(h) /\ ResetOf(h)
      /\ Is(h, "opening") /\ model[First(h)] = "open" /\ model[Second(h)] = "none"
      /\ ~act[h].made /\ ~act[h].released /\ h \notin orphan /\ ~sock[h].park
      /\ timer[h].pc = "none"
  BY Base DEF TakeOpen, First, LocalsOf, SessionOf, ResetOf, Is, Past, Early
<1>2. Moved(sock, sock', h, "building", h, First(h), sock[h].park)
  <2>1. "building" \in Handler /\ sock \in [Sockets -> Locals] /\ First(h) \in Models
    BY Places, Base, Names
  <2>2. sock' = [sock EXCEPT ![h].pc = "building", ![h].sess = h, ![h].own = First(h)]
    BY DEF TakeOpen, First
  <2> QED  BY <2>1, <2>2, HandlerMoves, Names
<1>3. Changed(act, act', h, TRUE, act[h].released, First(h))
  <2>1. act \in [Sockets -> Active] /\ First(h) \in Models
    BY Base, Names
  <2>2. act' = [act EXCEPT ![h].made = TRUE, ![h].duplex = First(h)]
    BY DEF TakeOpen, First
  <2> QED  BY <2>1, <2>2, SessionMoves, Names
<1>4. /\ table' \in [SessionIds -> Sockets \cup {NoSock}]
      /\ \A i \in SessionIds : table'[i] \in {table[i], h}
      /\ UNCHANGED <<locked, model, jobs, timer, fired, orphan, screen, faults>>
  BY <1>1, Names DEF TakeOpen, Typed
<1>5. \A j \in Sockets : j # h =>
         (Slot(j)' <=> Slot(j)) /\ LocalsOf(j)' /\ SessionOf(j)' /\ ResetOf(j)'
  <2> SUFFICES ASSUME NEW j \in Sockets, j # h
               PROVE  (Slot(j)' <=> Slot(j)) /\ LocalsOf(j)' /\ SessionOf(j)' /\ ResetOf(j)'
    OBVIOUS
  <2>1. sock'[j] = sock[j] /\ act'[j] = act[j] /\ StaysMade /\ Fades(j)
    BY <1>2, <1>3, <1>4 DEF Moved, Changed, StaysMade, Fades
  <2> QED  BY <1>4, <2>1, OthersKeep
<1>6. Slot(h)' /\ Slot(h)
  BY <1>1, <1>3 DEF Slot, Changed
<1>7. LocalsOf(h)' /\ SessionOf(h)' /\ ResetOf(h)'
  <2>1. LocalsOf(h)'
    BY <1>1, <1>2, <1>3, <1>4, Names DEF LocalsOf, Moved, Changed, Is, Early
  <2>2. SessionOf(h)'
    BY <1>1, <1>2, <1>3, <1>4, <1>6, Names DEF SessionOf, Moved, Changed, Up
  <2>3. ResetOf(h)'
    BY <1>1, <1>2, <1>3, <1>4, <1>6, Names DEF ResetOf, Moved, Changed, Up, Is, InReset
  <2> QED  BY <2>1, <2>2, <2>3
<1>8. OneSlot'
  BY <1>4, <1>5, <1>6 DEF OneSlot, SlotInv
<1>9. Listed'
  BY <1>3, <1>4 DEF Listed, SlotInv, Changed
<1>10. DxTypeOK'
  BY <1>1, <1>2, <1>3, <1>4 DEF DxTypeOK, Typed, Moved, Changed, Locals
<1> QED  BY <1>5, <1>7, <1>8, <1>9, <1>10 DEF SlotInv

\* Closing a model: it is not alive afterwards, and every other one is as it was.
LEMMA CloseFades ==
    ASSUME SlotInv, NEW m \in Models \cup {NoModel}, CloseModel(m), NEW j \in Sockets
    PROVE  /\ Fades(j)
           /\ m = First(j)  /\ model[m] # "opening" => ~Up(First(j))'
           /\ m = Second(j) /\ model[m] # "opening" => ~Up(Second(j))'
<1>1. Typed /\ First(j) \in Models /\ Second(j) \in Models
  BY Base, Names
<1>2. /\ \A n \in Models : n # m => model'[n] = model[n]
      /\ m \in Models => model'[m] = IF model[m] = "open" THEN "closed" ELSE model[m]
  BY <1>1, ModelCloses
<1> QED  BY <1>1, <1>2 DEF Fades, Up

\* A stop closes the session's model, or leaves with its client.
LEMMA StopEndsKeeps ==
    ASSUME SlotInv, Apart, NEW h \in Sockets, StopEnds(h) PROVE SlotInv'
<1>1. /\ Typed /\ sock \in [Sockets -> Locals] /\ "leaving" \in Handler
      /\ sock[h].own \in Models \cup {NoModel} /\ Is(h, "stopping")
  BY Base, Places DEF StopEnds
<1>2. CASE CloseModel(sock[h].own) /\ Go(h, "leaving")
  <2>1. Moved(sock, sock', h, "leaving", sock[h].sess, sock[h].own, sock[h].park)
    BY <1>1, <1>2, HandlerMoves, Names DEF Go
  <2>2. Allowed(h, "leaving", sock[h].sess, sock[h].own, sock[h].park)
    BY <1>1 DEF Allowed, Stays, Is
  <2>3. model' \in [Models -> {"none", "opening", "open", "closed", "failed"}]
    BY <1>1, <1>2, ModelCloses
  <2>4. Typed'
    BY <1>1, <2>1, <2>3 DEF Typed, StopEnds, Moved
  <2>5. Calm
    BY <1>1, <1>2, CloseFades DEF Calm, StopEnds, SameSessions, Typed, Fades
  <2> QED  BY <2>1, <2>2, <2>4, <2>5, CalmKeeps
<1>3. CASE /\ UNCHANGED model
           /\ sock' = [sock EXCEPT ![h].pc = "leaving", ![h].park = TRUE]
  <2>1. Moved(sock, sock', h, "leaving", sock[h].sess, sock[h].own, TRUE)
    BY <1>1, <1>3, HandlerMoves, Names
  <2>2. Allowed(h, "leaving", sock[h].sess, sock[h].own, TRUE)
    BY <1>1 DEF Allowed, Stays, Is
  <2>3. CalmTyped /\ UNCHANGED <<locked, model, orphan, act>>
    BY <1>1, <1>3, Base DEF StopEnds, CalmTyped, Typed, JobStates, TimerRec
  <2> QED  BY <2>1, <2>2, <2>3, CalmMove
<1> QED  BY <1>2, <1>3 DEF StopEnds

\* During a reset nobody else is in the session, and it holds the slot.
LEMMA InAReset ==
    ASSUME SlotInv, Apart, NEW h \in Sockets, sock[h].pc \in InReset
    PROVE  /\ Rejoiners = {} /\ sock[h].sess = h /\ act[h].made /\ ~act[h].released /\ Slot(h)
           /\ sock[h].own \in {First(h), Second(h)} /\ h \notin orphan /\ ~sock[h].park
           /\ timer[h].pc = "none"
<1>1. LocalsOf(h) /\ ResetOf(h) /\ sock[h].sess \in Sockets
  BY Base DEF InReset
<1>2. Rejoiners = {} /\ sock[h].sess = h /\ act[h].made /\ ~sock[h].park
  BY <1>1, Names DEF LocalsOf, ResetOf, Apart, InReset, Past
<1>3. sock[h].own \in {First(h), Second(h)} /\ h \notin orphan /\ timer[h].pc = "none"
  BY <1>1, <1>2 DEF LocalsOf, InReset, Is
<1>4. ~act[h].released
  BY <1>1, <1>2 DEF ResetOf, InReset
<1> QED  BY <1>2, <1>3, <1>4 DEF Slot

\* A reset closes the first model before it opens the second.
LEMMA ResetReopensKeeps ==
    ASSUME SlotInv, Apart, NEW h \in Sockets, ResetReopens(h) PROVE SlotInv'
<1>1. Is(h, "clearing") /\ sock[h].pc \in InReset
  BY DEF ResetReopens, Is, InReset
<1>2. /\ Typed /\ LocalsOf(h) /\ SessionOf(h) /\ ResetOf(h) /\ sock \in [Sockets -> Locals]
      /\ Rejoiners = {} /\ sock[h].sess = h /\ act[h].made /\ ~act[h].released /\ Slot(h)
      /\ h \notin orphan /\ ~sock[h].park /\ timer[h].pc = "none"
  BY <1>1, Base, InAReset
<1>3. sock[h].own = First(h) /\ model[Second(h)] = "none" /\ Resetters # {}
  BY <1>1, <1>2, InAReset DEF ResetOf, Is, Past
<1>4. Moved(sock, sock', h, "reopening", h, First(h), sock[h].park)
  <2>1. "reopening" \in Handler /\ sock' = [sock EXCEPT ![h].pc = "reopening"]
    BY Places DEF ResetReopens, Go
  <2>2. Moved(sock, sock', h, "reopening", sock[h].sess, sock[h].own, sock[h].park)
    BY <1>2, <2>1, HandlerMoves, Names
  <2> QED  BY <1>2, <1>3, <2>2
<1>5. /\ model' \in [Models -> {"none", "opening", "open", "closed", "failed"}]
      /\ model'[First(h)] = "closed" /\ model'[Second(h)] = "opening"
      /\ \A n \in Models : n # First(h) /\ n # Second(h) => model'[n] = model[n]
  <2>1. model' = [model EXCEPT ![First(h)] = "closed", ![Second(h)] = "opening"]
    BY <1>3 DEF ResetReopens, Second
  <2> QED  BY <1>2, <2>1, Names DEF Typed
<1>6. UNCHANGED <<locked, table, act, jobs, timer, fired, orphan, screen, faults>>
  BY DEF ResetReopens
<1>7. \A j \in Sockets : j # h =>
         (Slot(j)' <=> Slot(j)) /\ LocalsOf(j)' /\ SessionOf(j)' /\ ResetOf(j)'
  <2> SUFFICES ASSUME NEW j \in Sockets, j # h
               PROVE  (Slot(j)' <=> Slot(j)) /\ LocalsOf(j)' /\ SessionOf(j)' /\ ResetOf(j)'
    OBVIOUS
  <2>1. sock'[j] = sock[j] /\ StaysMade /\ Fades(j)
    BY <1>4, <1>5, <1>6, Names DEF Moved, StaysMade, Fades
  <2> QED  BY <1>6, <2>1, OthersKeep
<1>8. Slot(h)'
  BY <1>2, <1>6 DEF Slot
<1>9. LocalsOf(h)' /\ SessionOf(h)' /\ ResetOf(h)'
  <2>1. LocalsOf(h)'
    BY <1>2, <1>4, <1>6, Names DEF LocalsOf, Moved, Is, Early
  <2>2. SessionOf(h)'
    BY <1>2, <1>4, <1>5, <1>6, <1>8 DEF SessionOf, Moved, Up
  <2>3. ResetOf(h)'
    BY <1>2, <1>3, <1>4, <1>5, <1>6, <1>8, Names DEF ResetOf, Moved, Up, Is
  <2> QED  BY <2>1, <2>2, <2>3
<1>10. OneSlot'
  BY <1>2, <1>6, <1>7, <1>8 DEF OneSlot, SlotInv
<1>11. DxTypeOK' /\ Listed'
  BY <1>2, <1>4, <1>5, <1>6 DEF DxTypeOK, Typed, Moved, Locals, Listed, SlotInv
<1> QED  BY <1>7, <1>9, <1>10, <1>11 DEF SlotInv

\* A reset gives its session the second model, or fails.
LEMMA ResetRebuildsKeeps ==
    ASSUME SlotInv, Apart, NEW h \in Sockets, ResetRebuilds(h) PROVE SlotInv'
<1>1. Is(h, "rebuilding") /\ sock[h].pc \in InReset
  BY DEF ResetRebuilds, Is, InReset
<1>2. /\ Typed /\ LocalsOf(h) /\ SessionOf(h) /\ ResetOf(h) /\ sock \in [Sockets -> Locals]
      /\ act \in [Sockets -> Active] /\ "leaving" \in Handler
      /\ Rejoiners = {} /\ sock[h].sess = h /\ act[h].made /\ ~act[h].released /\ Slot(h)
      /\ h \notin orphan /\ ~sock[h].park /\ timer[h].pc = "none"
      /\ sock[h].own \in {First(h), Second(h)}
  BY <1>1, Base, InAReset, Places
<1>3. model[Second(h)] # "none" /\ model[Second(h)] # "opening"
  BY <1>1, <1>2 DEF ResetOf, Is
<1>4. CASE Fails /\ Go(h, "leaving") /\ UNCHANGED <<jobs, act>>
  <2>1. Moved(sock, sock', h, "leaving", sock[h].sess, sock[h].own, sock[h].park)
    BY <1>2, <1>4, HandlerMoves, Names DEF Go
  <2>2. Allowed(h, "leaving", sock[h].sess, sock[h].own, sock[h].park)
    BY <1>1 DEF Allowed, Stays
  <2>3. CalmTyped /\ UNCHANGED <<locked, model, orphan>>
    BY <1>2, <1>4, FailsType DEF ResetRebuilds, CalmTyped, Typed, JobStates, TimerRec
  <2> QED  BY <1>4, <2>1, <2>2, <2>3, CalmMove
<1>5. CASE /\ jobs' = [jobs EXCEPT ![<<h, 2>>] = "live"]
           /\ act' = [act EXCEPT ![sock[h].sess].duplex = <<h, 2>>,
                                 ![sock[h].sess].coord = <<h, 2>>]
           /\ sock' = [sock EXCEPT ![h].pc = "leaving", ![h].crd = <<h, 2>>]
           /\ UNCHANGED faults
  <2>1. UNCHANGED <<locked, table, model, timer, fired, orphan, screen, faults>>
    BY <1>5 DEF ResetRebuilds
  <2>2. Moved(sock, sock', h, "leaving", h, sock[h].own, sock[h].park)
    <3>1. Second(h) \in Models \cup {NoModel}
          /\ sock' = [sock EXCEPT ![h].pc = "leaving", ![h].crd = Second(h)]
      BY <1>5, Names DEF Second
    <3>2. Moved(sock, sock', h, "leaving", sock[h].sess, sock[h].own, sock[h].park)
      BY <1>2, <3>1, HandlerMoves, Names
    <3> QED  BY <1>2, <3>2
  <2>3. Changed(act, act', h, TRUE, FALSE, Second(h))
    <3>1. /\ Second(h) \in Models \cup {NoModel} /\ act[h].made = TRUE /\ act[h].released = FALSE
          /\ act' = [act EXCEPT ![h].duplex = Second(h), ![h].coord = Second(h)]
      BY <1>2, <1>5, Names DEF Second, Active
    <3>2. Changed(act, act', h, act[h].made, act[h].released, Second(h))
      BY <1>2, <3>1, SessionMoves, Names
    <3> QED  BY <3>1, <3>2
  <2>4. jobs' \in [Models -> JobStates]
    BY <1>2, <1>5 DEF Typed, JobStates
  <2>5. \A j \in Sockets : j # h =>
           (Slot(j)' <=> Slot(j)) /\ LocalsOf(j)' /\ SessionOf(j)' /\ ResetOf(j)'
    <3> SUFFICES ASSUME NEW j \in Sockets, j # h
                 PROVE  (Slot(j)' <=> Slot(j)) /\ LocalsOf(j)' /\ SessionOf(j)' /\ ResetOf(j)'
      OBVIOUS
    <3>1. sock'[j] = sock[j] /\ act'[j] = act[j] /\ StaysMade /\ Fades(j)
      BY <2>1, <2>2, <2>3 DEF Moved, Changed, StaysMade, Fades
    <3> QED  BY <2>1, <3>1, OthersKeep
  <2>6. Slot(h)'
    BY <2>3 DEF Slot, Changed
  <2>7. LocalsOf(h)' /\ SessionOf(h)' /\ ResetOf(h)'
    <3>1. LocalsOf(h)'
      BY <1>2, <2>1, <2>2, <2>3, Names DEF LocalsOf, Moved, Changed, Is, Early
    <3>2. SessionOf(h)'
      BY <1>2, <1>3, <2>1, <2>2, <2>3, <2>6, Names DEF SessionOf, Moved, Changed, Up
    <3>3. ResetOf(h)'
      BY <1>1, <1>2, <1>3, <2>1, <2>2, <2>3, <2>6, Names
      DEF ResetOf, Moved, Changed, Up, Is, InReset, Past
    <3> QED  BY <3>1, <3>2, <3>3
  <2>8. OneSlot'
    BY <1>2, <2>1, <2>5, <2>6 DEF OneSlot, SlotInv
  <2>9. DxTypeOK'
    BY <1>2, <2>1, <2>2, <2>3, <2>4 DEF DxTypeOK, Typed, Moved, Changed, Locals, JobStates
  <2>10. Listed'
    BY <1>2, <2>1, <2>3 DEF Listed, SlotInv, Changed, Typed
  <2> QED  BY <2>5, <2>7, <2>8, <2>9, <2>10 DEF SlotInv
<1> QED  BY <1>4, <1>5 DEF ResetRebuilds

\* A handler parks its session, leaves its open to a task, or goes on to the teardown.
LEMMA LeaveKeeps ==
    ASSUME SlotInv, Apart, NEW h \in Sockets, Leave(h) PROVE SlotInv'
<1>1. /\ Typed /\ LocalsOf(h) /\ SessionOf(h) /\ ResetOf(h) /\ Is(h, "leaving")
      /\ sock \in [Sockets -> Locals] /\ act \in [Sockets -> Active]
      /\ "done" \in Handler /\ "detaching" \in Handler /\ "detaching" \in TimerPC
  BY Base, Places DEF Leave
<1>2. CASE sock[h].park /\ sock[h].sess # NoSock /\ ~act[sock[h].sess].stopped
           /\ table[IdOf[h]] = sock[h].sess
  <2>1. /\ act' = [act EXCEPT ![sock[h].sess].attached = FALSE, ![sock[h].sess].evt = h]
        /\ timer' = [timer EXCEPT ![h].pc = "detaching"] /\ Go(h, "done")
        /\ UNCHANGED <<locked, table, model, jobs, fired, screen, faults, orphan>>
    BY <1>2 DEF Leave
  <2>2. sock[h].sess \in Sockets /\ sock[h].own # NoModel
    BY <1>1, <1>2 DEF Typed, Locals, LocalsOf, Is
  <2>3. Moved(sock, sock', h, "done", sock[h].sess, sock[h].own, sock[h].park)
    BY <1>1, <2>1, HandlerMoves, Names DEF Go
  <2>4. Changed(act, act', sock[h].sess, act[sock[h].sess].made, act[sock[h].sess].released,
                act[sock[h].sess].duplex)
    BY <1>1, <2>1, <2>2, SessionMoves, Names
  <2>5. act' \in [Sockets -> Active] /\ SameSessions
    BY <1>1, <2>2, <2>4, Same
  <2>6. /\ timer' \in [Sockets -> TimerRec] /\ timer'[h].pc = "detaching"
        /\ \A j \in Sockets : j # h => timer'[j] = timer[j]
    BY <1>1, <2>1 DEF Typed, TimerRec
  <2>7. \A j \in Sockets : j # h =>
           (Slot(j)' <=> Slot(j)) /\ LocalsOf(j)' /\ SessionOf(j)' /\ ResetOf(j)'
    <3> SUFFICES ASSUME NEW j \in Sockets, j # h
                 PROVE  (Slot(j)' <=> Slot(j)) /\ LocalsOf(j)' /\ SessionOf(j)' /\ ResetOf(j)'
      OBVIOUS
    <3>1. /\ sock'[j] = sock[j] /\ StaysMade /\ Fades(j) /\ timer'[j] = timer[j]
          /\ act'[j].made = act[j].made /\ act'[j].released = act[j].released
          /\ act'[j].duplex = act[j].duplex
      BY <2>1, <2>3, <2>5, <2>6 DEF Moved, SameSessions, StaysMade, Fades
    <3> QED  BY <2>1, <3>1, OthersKeep
  <2>8. Slot(h)' <=> Slot(h)
    BY <1>1, <2>1, <2>2, <2>3, <2>5 DEF Slot, Is, Moved, SameSessions
  <2>9. LocalsOf(h)' /\ SessionOf(h)' /\ ResetOf(h)'
    <3>1. LocalsOf(h)'
      BY <1>1, <1>2, <2>1, <2>2, <2>3, <2>5, <2>6
      DEF LocalsOf, Is, Moved, SameSessions, Early, Past
    <3>2. SessionOf(h)'
      <4>1. /\ sock'[h].pc = "done" /\ model' = model /\ act'[h].made = act[h].made
            /\ act'[h].duplex = act[h].duplex /\ act'[h].released = act[h].released
        BY <2>1, <2>3, <2>5 DEF Moved, SameSessions
      <4> QED  BY <1>1, <2>8, <4>1 DEF SessionOf, Up
    <3>3. ResetOf(h)'
      BY <1>1, <2>1, <2>3, <2>5, <2>8
      DEF ResetOf, Is, Moved, SameSessions, Up, InReset, Past
    <3> QED  BY <3>1, <3>2, <3>3
  <2>10. OneSlot'
    BY <2>1, <2>7, <2>8 DEF OneSlot, SlotInv
  <2>11. DxTypeOK' /\ Listed'
    <3>1. sock' \in [Sockets -> Locals] /\ act' \in [Sockets -> Active]
      BY <2>3, <2>5 DEF Moved
    <3>2. Typed'
      BY <1>1, <2>1, <2>6, <3>1 DEF Typed, TimerRec
    <3>3. Listed'
      BY <1>1, <2>1, <2>5 DEF Listed, SlotInv, SameSessions, Typed
    <3> QED  BY <3>2, <3>3 DEF Typed, DxTypeOK, Locals
  <2> QED  BY <2>7, <2>9, <2>10, <2>11 DEF SlotInv
<1>3. CASE /\ sock[h].own = NoModel /\ orphan' = orphan \cup {h} /\ Go(h, "done")
           /\ UNCHANGED <<act, timer>>
  <2>1. UNCHANGED <<locked, table, model, jobs, fired, screen, faults, act, timer>>
    BY <1>3 DEF Leave
  <2>2. Moved(sock, sock', h, "done", sock[h].sess, NoModel, sock[h].park)
    BY <1>1, <1>3, HandlerMoves, Names DEF Go
  <2>3. \A j \in Sockets : j # h =>
           (Slot(j)' <=> Slot(j)) /\ LocalsOf(j)' /\ SessionOf(j)' /\ ResetOf(j)'
    <3> SUFFICES ASSUME NEW j \in Sockets, j # h
                 PROVE  (Slot(j)' <=> Slot(j)) /\ LocalsOf(j)' /\ SessionOf(j)' /\ ResetOf(j)'
      OBVIOUS
    <3>1. sock'[j] = sock[j] /\ StaysMade /\ Fades(j) /\ (j \in orphan' <=> j \in orphan)
      BY <1>3, <2>1, <2>2 DEF Moved, StaysMade, Fades
    <3> QED  BY <2>1, <3>1, OthersKeep
  <2>4. Slot(h)' /\ Slot(h)
    BY <1>1, <1>3 DEF Slot
  <2>5. LocalsOf(h)' /\ SessionOf(h)' /\ ResetOf(h)'
    <3>1. LocalsOf(h)'
      BY <1>1, <1>3, <2>1, <2>2 DEF LocalsOf, Is, Moved, Early, Past
    <3>2. SessionOf(h)'
      BY <1>1, <2>1, <2>2, <2>4 DEF SessionOf, Is, Moved, Up
    <3>3. ResetOf(h)'
      BY <1>1, <1>3, <2>1, <2>2, <2>4, Names DEF ResetOf, Is, Moved, Up, InReset, Past
    <3> QED  BY <3>1, <3>2, <3>3
  <2>6. OneSlot'
    BY <2>1, <2>3, <2>4 DEF OneSlot, SlotInv
  <2>7. DxTypeOK' /\ Listed'
    BY <1>1, <1>3, <2>1, <2>2 DEF DxTypeOK, Typed, Moved, Locals, Listed, SlotInv
  <2> QED  BY <2>3, <2>5, <2>6, <2>7 DEF SlotInv
<1>4. CASE Go(h, "detaching") /\ UNCHANGED <<orphan, act, timer>> /\ sock[h].own # NoModel
  <2>1. Moved(sock, sock', h, "detaching", sock[h].sess, sock[h].own, sock[h].park)
    BY <1>1, <1>4, HandlerMoves, Names DEF Go
  <2>2. Allowed(h, "detaching", sock[h].sess, sock[h].own, sock[h].park)
    BY <1>1, <1>4 DEF Allowed, Stays
  <2>3. CalmTyped /\ UNCHANGED <<locked, model, orphan>>
    BY <1>1, <1>4 DEF Leave, CalmTyped, Typed, JobStates, TimerRec
  <2> QED  BY <1>4, <2>1, <2>2, <2>3, CalmMove
<1> QED  BY <1>2, <1>3, <1>4 DEF Leave

\* The slot of session s is given back, once.
LEMMA SlotFreed ==
    ASSUME SlotInv, NEW s \in Sockets, act[s].made,
           Changed(act, act', s, act[s].made, TRUE, act[s].duplex),
           locked' <=> (locked /\ act[s].released), orphan' = orphan,
           sock'[s] = sock[s] \/
              (sock'[s].pc \in {"closing", "done"} /\ sock'[s].own = sock[s].own),
           \A j \in Sockets : j # s => (Slot(j)' <=> Slot(j))
    PROVE  OneSlot' /\ ~Slot(s)'
<1>1. LocalsOf(s) /\ sock[s].own # NoModel /\ sock[s].pc \notin Early /\ s \notin orphan
  BY Base DEF LocalsOf
<1>2. Slot(s) <=> ~act[s].released
  BY <1>1 DEF Slot, Is, Early
<1>3. ~Slot(s)'
  BY <1>1 DEF Slot, Is, Early, Changed
<1>4. CASE act[s].released
  <2>1. \A j \in Sockets : Slot(j)' <=> Slot(j)
    BY <1>2, <1>3, <1>4
  <2> QED  BY <1>3, <1>4, <2>1 DEF OneSlot, SlotInv
<1>5. CASE ~act[s].released
  <2>1. \A j \in Sockets : ~Slot(j)'
    BY <1>2, <1>3, <1>5 DEF SlotInv, OneSlot
  <2> QED  BY <1>3, <1>5, <2>1 DEF OneSlot
<1> QED  BY <1>4, <1>5

\* A handler that tears down closes whatever model its session has.
LEMMA HandlerCloses ==
    ASSUME SlotInv, Apart, NEW h \in Sockets, sock[h].pc \in {"stopping_jobs", "freeing"},
           CloseModel(sock[h].own)
    PROVE  /\ \A j \in Sockets : Fades(j)
           /\ \A s \in Sockets : s = sock[h].sess => ~Up(First(s))' /\ ~Up(Second(s))'
<1>1. PICK s \in Sockets : s = sock[h].sess
  BY Base
<1>2. /\ act[s].made /\ sock[h].own # NoModel /\ LocalsOf(h) /\ SessionOf(s)
      /\ s = sock[h].sess /\ sock[h].own \in Models \cup {NoModel}
      /\ sock[h].own \in {First(s), Second(h)}
      /\ s # NoSock /\ h # NoSock
  BY <1>1, Base, Names DEF LocalsOf, Early
<1>3. /\ \A j \in Sockets : ResetOf(j) /\ Fades(j)
      /\ \A j \in Sockets : sock[h].own = First(j) /\ model[sock[h].own] # "opening"
                            => ~Up(First(j))'
      /\ \A j \in Sockets : sock[h].own = Second(j) /\ model[sock[h].own] # "opening"
                            => ~Up(Second(j))'
  BY <1>2, Base, CloseFades
<1>4. s = h \/ (model[Second(s)] = "none" /\ model[Second(h)] = "none")
  BY <1>2, <1>3 DEF Apart, ResetOf
<1>5. model[sock[h].own] # "opening"
  <2>1. model[First(s)] # "opening"
    BY <1>2 DEF SessionOf
  <2>2. model[Second(h)] # "opening"
    BY <1>3 DEF ResetOf, Is
  <2> QED  BY <1>2, <2>1, <2>2
<1>6. ~Up(First(s))'
  <2>1. CASE sock[h].own = First(s)
    BY <1>3, <1>5, <2>1
  <2>2. CASE sock[h].own = Second(h)
    <3>1. sock[h].own # Second(h) \/ model[Second(h)] # "none"
      BY <1>3 DEF ResetOf
    <3>2. s = h /\ model[First(h)] = "closed"
      BY <1>3, <1>4, <2>2, <3>1 DEF ResetOf
    <3> QED  BY <1>3, <3>2 DEF Fades, Up
  <2> QED  BY <1>2, <2>1, <2>2
<1>7. ~Up(Second(s))'
  <2>1. ASSUME Up(Second(s)) PROVE sock[h].own = Second(s)
    <3>1. model[Second(s)] # "none"
      BY <2>1 DEF Up
    <3> QED  BY <1>3, <1>4, <2>1, <3>1 DEF ResetOf, Is
  <2>2. CASE Up(Second(s))
    BY <1>3, <1>5, <2>1, <2>2
  <2>3. CASE ~Up(Second(s))
    BY <1>3, <2>3 DEF Fades, Up
  <2> QED  BY <2>2, <2>3
<1> QED  BY <1>1, <1>3, <1>6, <1>7

\* A handler closes its session's model and gives the slot back.
LEMMA FreesKeeps ==
    ASSUME SlotInv, Apart, NEW h \in Sockets, Frees(h) PROVE SlotInv'
<1>1. PICK s \in Sockets : s = sock[h].sess
  BY Base DEF Frees
<1>2. /\ s = sock[h].sess /\ Typed /\ LocalsOf(h) /\ SessionOf(h) /\ ResetOf(h)
      /\ sock \in [Sockets -> Locals] /\ act \in [Sockets -> Active]
      /\ sock[h].pc \in {"stopping_jobs", "freeing"} /\ s \in Sockets
      /\ sock[h].own \in Models \cup {NoModel} /\ sock[h].crd \in Models \cup {NoModel}
  BY <1>1, Base DEF Frees
<1>3. act[s].made /\ sock[h].own # NoModel /\ LocalsOf(s) /\ SessionOf(s) /\ ResetOf(s)
      /\ sock[s].own # NoModel
  <2>1. act[s].made /\ sock[h].own # NoModel
    BY <1>2, Names DEF LocalsOf, Early
  <2>2. LocalsOf(s) /\ SessionOf(s) /\ ResetOf(s)
    BY <1>2, Base
  <2> QED  BY <2>1, <2>2 DEF LocalsOf
<1>4. /\ CloseModel(sock[h].own) /\ locked' = (locked /\ act[s].released)
      /\ act' = [act EXCEPT ![s].released = TRUE]
      /\ UNCHANGED <<table, timer, fired, orphan, screen, faults>>
  BY <1>2 DEF Frees, FreeSlot
<1>5. PICK p \in {"closing", "done"} : Go(h, p)
  BY DEF Frees, AfterFree
<1>6. Moved(sock, sock', h, p, s, sock[h].own, sock[h].park)
  <2>1. p \in Handler
    BY <1>5, Places
  <2> QED  BY <1>2, <1>5, <2>1, HandlerMoves, Names DEF Go
<1>7. Changed(act, act', s, act[s].made, TRUE, act[s].duplex)
  BY <1>2, <1>4, SessionMoves, Names
<1>8. /\ ~Up(First(s))' /\ ~Up(Second(s))' /\ \A j \in Sockets : Fades(j)
      /\ model' \in [Models -> {"none", "opening", "open", "closed", "failed"}]
  BY <1>2, <1>4, HandlerCloses, ModelCloses
<1>9. StaysMade
  BY <1>3, <1>7 DEF StaysMade, Changed
<1>10. \A j \in Sockets : j # h /\ j # s =>
         (Slot(j)' <=> Slot(j)) /\ LocalsOf(j)' /\ SessionOf(j)' /\ ResetOf(j)'
  <2> SUFFICES ASSUME NEW j \in Sockets, j # h, j # s
               PROVE  (Slot(j)' <=> Slot(j)) /\ LocalsOf(j)' /\ SessionOf(j)' /\ ResetOf(j)'
    OBVIOUS
  <2>1. sock'[j] = sock[j] /\ act'[j] = act[j]
    BY <1>6, <1>7 DEF Moved, Changed
  <2> QED  BY <1>4, <1>8, <1>9, <2>1, OthersKeep
<1>11. h # s => Slot(h)' <=> Slot(h)
  BY <1>2, <1>4, <1>5, <1>6, <1>7 DEF Slot, Is, Moved, Changed
<1>12. OneSlot' /\ ~Slot(s)'
  <2>1. sock'[s] = sock[s] \/ (sock'[s].pc \in {"closing", "done"} /\ sock'[s].own = sock[s].own)
    BY <1>2, <1>5, <1>6 DEF Moved
  <2>2. \A j \in Sockets : j # s => (Slot(j)' <=> Slot(j))
    BY <1>10, <1>11
  <2>3. orphan' = orphan
    BY <1>4
  <2> QED  BY <1>3, <1>4, <1>7, <2>1, <2>2, <2>3, SlotFreed
<1>13. \A j \in {h, s} : LocalsOf(j)'
  <2>1. LocalsOf(h)'
    <3>1. /\ sock'[h].pc = p /\ sock'[h].sess = s /\ sock'[h].own = sock[h].own
          /\ sock'[h].park = sock[h].park
      BY <1>6 DEF Moved
    <3>2. /\ act'[s].made /\ act'[h].made = act[h].made
          /\ model[Second(h)] = "none" => model'[Second(h)] = "none"
      BY <1>2, <1>3, <1>7, <1>8, <1>9 DEF Changed, StaysMade, Fades
    <3>3. p \notin Early /\ p \in Past /\ p \notin {"new", "opening", "resuming"}
      BY <1>5 DEF Early, Past
    <3> QED  BY <1>2, <1>3, <1>4, <3>1, <3>2, <3>3 DEF LocalsOf, Is
  <2>2. CASE s # h
    <3>1. sock'[s] = sock[s] /\ sock[s].sess \in Sockets \cup {NoSock}
      BY <1>2, <1>6, <2>2, Base DEF Moved
    <3>2. /\ act'[s].made /\ \A j \in Sockets : act[j].made => act'[j].made
          /\ model[Second(s)] = "none" => model'[Second(s)] = "none"
      BY <1>2, <1>3, <1>7, <1>8, <1>9 DEF Changed, StaysMade, Fades
    <3>3. LocalsOf(s)'
      BY <1>2, <1>3, <1>4, <3>1, <3>2 DEF LocalsOf, Is
    <3> QED  BY <2>1, <3>3
  <2> QED  BY <2>1, <2>2
<1>14. \A j \in {h, s} : SessionOf(j)'
  <2>1. SessionOf(s)'
    BY <1>2, <1>3, <1>4, <1>5, <1>6, <1>7, <1>8 DEF SessionOf, Moved, Changed, Fades, Up
  <2>2. CASE s # h
    <3>1. SessionOf(h)'
      BY <1>2, <1>4, <1>5, <1>6, <1>7, <1>8, <1>11, <2>2 DEF SessionOf, Moved, Changed, Fades, Up
    <3> QED  BY <2>1, <3>1
  <2> QED  BY <2>1, <2>2
<1>15. \A j \in {h, s} : ResetOf(j)'
  <2>1. CASE s = h
    BY <1>2, <1>3, <1>4, <1>5, <1>6, <1>7, <1>8, <2>1
    DEF ResetOf, Is, Moved, Changed, Fades, Up, InReset, Past
  <2>2. CASE s # h
    <3>1. Rejoiners # {} /\ model[Second(h)] = "none" /\ model[Second(s)] = "none"
      BY <1>2, <1>3, <2>2, Names DEF ResetOf, Apart
    <3>2. ResetOf(h)'
      BY <1>2, <1>4, <1>5, <1>6, <1>7, <1>8, <2>2, <3>1
      DEF ResetOf, Is, Moved, Changed, Fades, Up, InReset, Past
    <3>3. sock'[s] = sock[s]
      BY <1>2, <1>6, <2>2 DEF Moved
    <3>4. ResetOf(s)'
      BY <1>3, <1>7, <1>8, <3>1, <3>3 DEF ResetOf, Is, Changed, Fades, Up
    <3> QED  BY <3>2, <3>4
  <2> QED  BY <2>1, <2>2
<1>16. \A j \in Sockets : LocalsOf(j)' /\ SessionOf(j)' /\ ResetOf(j)'
  BY <1>10, <1>13, <1>14, <1>15
<1>17. jobs' \in [Models -> JobStates]
  <2>1. Is(h, "stopping_jobs") \in BOOLEAN /\ JobsStopped(Is(h, "stopping_jobs"), sock[h].crd)
    BY DEF Frees, Is
  <2> QED  BY <1>2, <2>1, JobsStop
<1>18. DxTypeOK' /\ Listed'
  <2>1. sock' \in [Sockets -> Locals] /\ act' \in [Sockets -> Active]
    BY <1>6, <1>7 DEF Moved, Changed
  <2>2. locked' \in BOOLEAN
    BY <1>4
  <2>3. Typed'
    BY <1>2, <1>4, <1>8, <1>17, <2>1, <2>2 DEF Typed, JobStates
  <2>4. Listed'
    BY <1>2, <1>4, <1>9 DEF Listed, SlotInv, StaysMade, Typed
  <2> QED  BY <2>3, <2>4 DEF Typed, DxTypeOK, Locals
<1> QED  BY <1>12, <1>16, <1>18 DEF SlotInv

\* A timer that ends a parked session does the same.
LEMMA TimerFreesKeeps ==
    ASSUME SlotInv, Apart, NEW h \in Sockets, TimerFrees(h) PROVE SlotInv'
<1>1. PICK s \in Sockets : s = sock[h].sess
  BY Base DEF TimerFrees
<1>2. /\ s = sock[h].sess /\ Typed /\ LocalsOf(h) /\ ResetOf(h) /\ act \in [Sockets -> Active]
      /\ timer[h].pc \in {"stopping_jobs", "freeing"} /\ s \in Sockets
      /\ act[s].coord \in Models \cup {NoModel} /\ act[s].duplex \in Models \cup {NoModel}
  BY <1>1, Base DEF TimerFrees
<1>3. /\ act[s].made /\ LocalsOf(s) /\ SessionOf(s) /\ ResetOf(s) /\ sock[s].own # NoModel
      /\ sock[s].sess \in Sockets \cup {NoSock}
  <2>1. act[s].made /\ LocalsOf(s) /\ SessionOf(s) /\ ResetOf(s)
        /\ sock[s].sess \in Sockets \cup {NoSock}
    BY <1>2, Names, Base DEF LocalsOf
  <2> QED  BY <2>1 DEF LocalsOf
<1>4. /\ CloseModel(act[s].duplex) /\ locked' = (locked /\ act[s].released)
      /\ act' = [act EXCEPT ![s].released = TRUE]
      /\ UNCHANGED <<table, sock, fired, orphan, screen, faults>>
  BY <1>2 DEF TimerFrees, FreeSlot, Held
<1>5. model[Second(s)] = "none" /\ act[s].duplex = First(s) /\ (Rejoiners = {} => Is(s, "done"))
  BY <1>2, <1>3, Names DEF LocalsOf, ResetOf, SessionOf, Apart
<1>6. PICK p \in {"closing", "done"} : Tick(h, p)
  BY DEF TimerFrees, AfterFree
<1>7. timer' \in [Sockets -> TimerRec]
      /\ \A j \in Sockets : timer'[j].pc = "none" <=> timer[j].pc = "none"
  <2>1. p \in TimerPC /\ p # "none" /\ timer[h].pc # "none"
    BY <1>2, <1>6, Places
  <2> QED  BY <1>2, <1>6, <2>1, Ticking
<1>8. Changed(act, act', s, act[s].made, TRUE, act[s].duplex)
  BY <1>2, <1>4, SessionMoves, Names
<1>9. /\ ~Up(First(s))' /\ \A j \in Sockets : Fades(j)
      /\ model' \in [Models -> {"none", "opening", "open", "closed", "failed"}]
  <2>1. model[First(s)] # "opening"
    BY <1>3 DEF SessionOf
  <2> QED  BY <1>2, <1>4, <1>5, <2>1, CloseFades, ModelCloses
<1>10. StaysMade
  BY <1>3, <1>8 DEF StaysMade, Changed
<1>11. \A j \in Sockets : j # s =>
         (Slot(j)' <=> Slot(j)) /\ LocalsOf(j)' /\ SessionOf(j)' /\ ResetOf(j)'
  <2> SUFFICES ASSUME NEW j \in Sockets, j # s
               PROVE  (Slot(j)' <=> Slot(j)) /\ LocalsOf(j)' /\ SessionOf(j)' /\ ResetOf(j)'
    OBVIOUS
  <2>1. sock'[j] = sock[j] /\ act'[j] = act[j]
    BY <1>4, <1>8 DEF Changed
  <2> QED  BY <1>4, <1>7, <1>9, <1>10, <2>1, OthersKeep
<1>12. OneSlot' /\ ~Slot(s)'
  BY <1>2, <1>3, <1>4, <1>8, <1>11, SlotFreed
<1>13. LocalsOf(s)'
  BY <1>2, <1>3, <1>4, <1>5, <1>7, <1>8, <1>9, <1>10
  DEF LocalsOf, Is, Changed, StaysMade, Fades
<1>14. SessionOf(s)'
  BY <1>2, <1>3, <1>4, <1>8, <1>9 DEF SessionOf, Changed, Fades, Up
<1>15. ResetOf(s)'
  BY <1>2, <1>3, <1>4, <1>5, <1>8, <1>9 DEF ResetOf, Is, Changed, Fades, Up
<1>16. jobs' \in [Models -> JobStates]
  <2>1. /\ (timer[h].pc = "stopping_jobs") \in BOOLEAN
        /\ JobsStopped(timer[h].pc = "stopping_jobs", act[s].coord)
    BY <1>2 DEF TimerFrees, Held
  <2> QED  BY <1>2, <2>1, JobsStop
<1>17. DxTypeOK' /\ Listed'
  <2>1. act' \in [Sockets -> Active]
    BY <1>8 DEF Changed
  <2>2. locked' \in BOOLEAN
    BY <1>4
  <2>3. Typed'
    BY <1>2, <1>4, <1>7, <1>9, <1>16, <2>1, <2>2 DEF Typed, JobStates, TimerRec
  <2>4. Listed'
    BY <1>2, <1>4, <1>10 DEF Listed, SlotInv, StaysMade, Typed
  <2> QED  BY <2>3, <2>4 DEF Typed, DxTypeOK, Locals
<1> QED  BY <1>11, <1>12, <1>13, <1>14, <1>15, <1>17 DEF SlotInv

\* The task that an abandoned open was left to gives the slot back.
LEMMA CloseOrphanKeeps ==
    ASSUME SlotInv, Apart, NEW h \in Sockets, CloseOrphan(h) PROVE SlotInv'
<1>1. /\ Typed /\ LocalsOf(h) /\ SessionOf(h) /\ ResetOf(h)
      /\ h \in orphan /\ model[First(h)] # "opening" /\ CloseModel(First(h))
      /\ locked' = FALSE /\ orphan' = orphan \ {h}
      /\ UNCHANGED <<table, act, jobs, sock, timer, fired, screen, faults>>
  BY Base DEF CloseOrphan, First
<1>2. Is(h, "done") /\ sock[h].own = NoModel /\ ~act[h].made /\ Slot(h)
  BY <1>1 DEF LocalsOf, Slot
<1>3. /\ ~Up(First(h))' /\ \A j \in Sockets : Fades(j)
      /\ model' \in [Models -> {"none", "opening", "open", "closed", "failed"}]
  <2>1. First(h) \in Models \cup {NoModel}
    BY Names
  <2> QED  BY <1>1, <2>1, CloseFades, ModelCloses
<1>4. StaysMade
  BY <1>1 DEF StaysMade
<1>5. \A j \in Sockets : j # h =>
         (Slot(j)' <=> Slot(j)) /\ LocalsOf(j)' /\ SessionOf(j)' /\ ResetOf(j)'
  <2> SUFFICES ASSUME NEW j \in Sockets, j # h
               PROVE  (Slot(j)' <=> Slot(j)) /\ LocalsOf(j)' /\ SessionOf(j)' /\ ResetOf(j)'
    OBVIOUS
  <2>1. j \in orphan' <=> j \in orphan
    BY <1>1
  <2> QED  BY <1>1, <1>3, <1>4, <2>1, OthersKeep
<1>6. ~Slot(h)' /\ \A j \in Sockets : j # h => ~Slot(j)
  BY <1>1, <1>2 DEF Slot, Is, SlotInv, OneSlot
<1>7. OneSlot'
  BY <1>1, <1>5, <1>6 DEF OneSlot
<1>8. LocalsOf(h)'
  <2>1. sock[h].sess \in Sockets \cup {NoSock}
    BY Base
  <2> QED  BY <1>1, <1>3, <2>1 DEF LocalsOf, Is, Fades
<1>9. SessionOf(h)'
  BY <1>1, <1>2, <1>3 DEF SessionOf, Fades, Is
<1>10. ResetOf(h)'
  BY <1>1, <1>2, <1>3, Names DEF ResetOf, Is, Fades, Up
<1>11. DxTypeOK' /\ Listed'
  <2>1. Typed'
    BY <1>1, <1>3 DEF Typed
  <2>2. Listed'
    BY <1>1 DEF Listed, SlotInv
  <2> QED  BY <2>1, <2>2 DEF Typed, DxTypeOK, Locals
<1> QED  BY <1>5, <1>7, <1>8, <1>9, <1>10, <1>11 DEF SlotInv

-----------------------------------------------------------------------------
\* Every step keeps the invariant.
LEMMA SlotNext == ASSUME Apart PROVE SlotInv /\ [DxNext]_dxVars => SlotInv'
<1> SUFFICES ASSUME SlotInv, [DxNext]_dxVars PROVE SlotInv'
  OBVIOUS
<1>1. ASSUME NEW h \in Sockets, Handles(h) PROVE SlotInv'
  BY <1>1, WalkSteps, CalmSteps, TakeOpenKeeps, StopEndsKeeps, ResetReopensKeeps,
     ResetRebuildsKeeps, LeaveKeeps, FreesKeeps DEF Handles
<1>2. ASSUME NEW h \in Sockets, Ticks(h) \/ Screens(h) PROVE SlotInv'
  BY <1>2, TimerSteps, TimerFreesKeeps DEF Ticks
<1>3. ASSUME NEW h \in Sockets, Client(h) PROVE SlotInv'
  BY <1>3, WalkSteps, CalmSteps, ConnectFreshKeeps DEF Client
<1>4. CASE UNCHANGED dxVars
  BY <1>4 DEF dxVars, SlotInv, DxTypeOK, OneSlot, Slot, Listed, LocalsOf, SessionOf, ResetOf,
              Is, Up
<1> QED  BY <1>1, <1>2, <1>3, <1>4, CloseOrphanKeeps, OpenedKeeps DEF DxNext

\* The slot has one owner, and a model that may be alive is the owner's
\* (model_lock, release_model_slot and close_abandoned_open of the runtime).
THEOREM SlotInvariance == ASSUME Apart PROVE DxSpec => []SlotInv
<1>1. SlotInv /\ [DxNext]_dxVars => SlotInv'
  BY SlotNext
<1> QED  BY <1>1, SlotInit, PTL DEF DxSpec

\* There is at most one model being opened or open, and only while the slot is taken
\* (release_model_slot, close_abandoned_open).
THEOREM SlotIsOwnedAlways == ASSUME Apart PROVE DxSpec => []SlotIsOwned
<1>1. SlotInv => SlotIsOwned
  <2> SUFFICES ASSUME SlotInv, NEW m \in Alive, NEW n \in Alive PROVE locked /\ m = n
    BY DEF SlotIsOwned
  <2>1. m \in Models /\ n \in Models /\ Up(m) /\ Up(n)
    BY DEF Alive, Up
  <2>2. PICK h \in Sockets : m = First(h) \/ m = Second(h)
    BY <2>1, Names
  <2>3. PICK k \in Sockets : n = First(k) \/ n = Second(k)
    BY <2>1, Names
  <2>4. Slot(h) /\ Slot(k)
    BY <2>1, <2>2, <2>3 DEF SlotInv, SessionOf, ResetOf
  <2>5. locked /\ h = k
    BY <2>4 DEF SlotInv, OneSlot
  <2>6. ~(Up(First(h)) /\ Up(Second(h)))
    BY DEF SlotInv, ResetOf, Up
  <2> QED  BY <2>1, <2>2, <2>3, <2>5, <2>6
<1>2. DxSpec => []SlotInv
  BY SlotInvariance
<1> QED  BY <1>1, <1>2, PTL

-----------------------------------------------------------------------------
(* What is held for a client is whole.                                      *)

Tearing == {"stopping_jobs", "freeing", "closing"}
Holding == {"building", "starting", "serving"}
Faultless == Resetters = {} /\ MaxFaults = 0
Unlisted(s) == table[IdOf[s]] # s
Gone(s) == act[s].stopped \/ Unlisted(s)

\* Who tears a session down has made sure that nobody finds it.
TornOf(h) ==
    /\ timer[h].pc \in Tearing => Unlisted(sock[h].sess)
    /\ Faultless /\ sock[h].pc \in Tearing => Unlisted(sock[h].sess)
    /\ Is(h, "stopping") => act[sock[h].sess].stopped
    /\ /\ Rejoiners = {} /\ sock[h].sess # NoSock /\ timer[h].pc = "none"
       /\ sock[h].pc \in Past \ {"leaving"} /\ sock[h].park
       => Gone(sock[h].sess)

\* A handler's coordinator is one of its session, or the one of its reset.
MineOf(h) ==
    /\ sock[h].own = NoModel => sock[h].crd = NoModel
    /\ sock[h].crd \in {NoModel, First(sock[h].sess), Second(h)}
    /\ sock[h].crd = Second(h) => model[Second(h)] # "none"
    /\ Is(h, "building") => sock[h].sess = h

\* So are the model and the coordinator of a session.
PartsOf(s) ==
    /\ act[s].coord \in {NoModel, First(s), Second(s)}
    /\ act[s].duplex \in {NoModel, First(s), Second(s)}
    /\ act[s].coord = Second(s) => model[Second(s)] # "none"
    /\ ~act[s].made => ~act[s].ended /\ act[s].coord = NoModel /\ act[s].attached
    /\ Rejoiners = {} /\ ~act[s].attached => timer[s].pc # "none"

\* A session that can be found, and that its handler has not left behind half reset.
Kept(s) ==
    /\ act[s].made /\ ~Gone(s)
    /\ Faultless \/ sock[s].park \/ sock[s].pc \in Holding
Whole(s) ==
    /\ model[act[s].duplex] = "open" /\ ~act[s].released /\ ~act[s].ended
    /\ act[s].coord # NoModel => jobs[act[s].coord] = "live"
WholeOf(s) == Kept(s) => Whole(s)

HeldInv == \A h \in Sockets : TornOf(h) /\ MineOf(h) /\ PartsOf(h) /\ WholeOf(h)

\* A client comes back where nothing fails and nobody resets.
Untroubled == Rejoiners = {} \/ Faultless

\* What no step takes back.
Grows ==
    \A s \in Sockets : /\ act[s].made => act'[s].made
                       /\ act[s].stopped => act'[s].stopped
                       /\ act[s].made /\ Unlisted(s) => Unlisted(s)'
                       /\ timer[s].pc # "none" => timer'[s].pc # "none"
                       /\ model[Second(s)] # "none" => model'[Second(s)] # "none"

Setting == SlotInv /\ SlotInv' /\ HeldInv /\ Untroubled /\ Grows

\* It holds when the runtime starts.
LEMMA HeldInit == DxInit => HeldInv
<1> SUFFICES ASSUME DxInit, NEW h \in Sockets
             PROVE  TornOf(h) /\ MineOf(h) /\ PartsOf(h) /\ WholeOf(h)
  BY DEF HeldInv
<1> USE Names DEF DxInit
<1>1. TornOf(h) /\ MineOf(h)
  BY DEF TornOf, MineOf, Tearing, Is
<1>2. PartsOf(h) /\ WholeOf(h)
  BY DEF PartsOf, WholeOf, Kept
<1> QED  BY <1>1, <1>2

\* What is said of a handler and its timer outlives the steps of others.
LEMMA OthersHold ==
    ASSUME Setting, NEW j \in Sockets, sock'[j] = sock[j], timer'[j].pc = timer[j].pc
    PROVE  TornOf(j)' /\ MineOf(j)'
<1>1. /\ TornOf(j) /\ MineOf(j) /\ LocalsOf(j) /\ sock[j].sess \in Sockets \cup {NoSock}
      /\ sock[j].pc \in Tearing \cup {"stopping"} => sock[j].sess \in Sockets
      /\ NoSock \notin Sockets
  BY Base, Names DEF Setting, HeldInv, Tearing
<1>2. sock[j].sess \in Sockets => /\ act[sock[j].sess].made
                                  /\ Unlisted(sock[j].sess) => Unlisted(sock[j].sess)'
                                  /\ act[sock[j].sess].stopped => act'[sock[j].sess].stopped
  <2>1. sock'[j].sess = sock[j].sess
    OBVIOUS
  <2>2. sock[j].sess \in Sockets => act[sock[j].sess].made
    BY <1>1 DEF LocalsOf
  <2> QED  BY <2>1, <2>2 DEF Setting, Grows, Unlisted
<1>3. TornOf(j)'
  <2>1. CASE sock[j].sess = NoSock
    <3>1. timer[j].pc \notin Tearing /\ sock[j].pc \notin Tearing \cup {"stopping"}
      BY <1>1, <2>1 DEF LocalsOf, Tearing
    <3> QED  BY <2>1, <3>1 DEF TornOf, Is
  <2>2. CASE sock[j].sess \in Sockets
    BY <1>1, <1>2, <2>2 DEF TornOf, Gone, Unlisted, Is
  <2> QED  BY <1>1, <2>1, <2>2
<1>4. MineOf(j)'
  BY <1>1 DEF MineOf, Setting, Grows, Is
<1> QED  BY <1>3, <1>4

\* What is said of a session's model and coordinator, when they stay.
LEMMA PartsKeep ==
    ASSUME Setting, NEW s \in Sockets,
           act'[s].coord = act[s].coord, act'[s].duplex = act[s].duplex,
           ~act'[s].made => ~act[s].made /\ act'[s].ended = act[s].ended,
           \/ act'[s].attached
           \/ act'[s].attached = act[s].attached
           \/ act'[s].made /\ (Rejoiners = {} => timer'[s].pc # "none")
    PROVE  PartsOf(s)'
<1>1. PartsOf(s)
  BY DEF Setting, HeldInv
<1> QED  BY <1>1 DEF PartsOf, Setting, Grows

Spares(s) ==
    /\ act'[s].duplex = act[s].duplex /\ act'[s].coord = act[s].coord
    /\ act'[s].released = act[s].released /\ act'[s].ended = act[s].ended
    /\ model[act[s].duplex] = "open" => model'[act[s].duplex] = "open"
    /\ act[s].coord # NoModel /\ jobs[act[s].coord] = "live" => jobs'[act[s].coord] = "live"

\* A step that neither makes a session nor parks it keeps none that was not kept.
LEMMA KeptBack ==
    ASSUME Setting, NEW s \in Sockets, act'[s].made = act[s].made,
           Faultless \/ (sock'[s].park = sock[s].park /\
                         (sock'[s].pc \in Holding => sock[s].pc \in Holding))
    PROVE  Kept(s)' => Kept(s)
  BY DEF Setting, Grows, Kept, Gone

\* A session stays whole if its parts are spared.
LEMMA WholeKeep ==
    ASSUME Setting, NEW s \in Sockets, Kept(s)' => Kept(s) /\ Spares(s)
    PROVE  WholeOf(s)'
<1>1. WholeOf(s)
  BY DEF Setting, HeldInv
<1> QED  BY <1>1 DEF WholeOf, Whole, Spares

\* A step of one socket, put together.
LEMMA Together ==
    ASSUME Setting, NEW h \in Sockets,
           \A j \in Sockets : j # h => sock'[j] = sock[j] /\ timer'[j].pc = timer[j].pc,
           TornOf(h)', MineOf(h)', \A s \in Sockets : PartsOf(s)',
           \A s \in Sockets : s # h => /\ act'[s].made = act[s].made
                                       /\ Kept(s)' => Spares(s),
           WholeOf(h)'
    PROVE  HeldInv'
<1>1. ASSUME NEW j \in Sockets, j # h PROVE TornOf(j)' /\ MineOf(j)' /\ WholeOf(j)'
  BY <1>1, OthersHold, KeptBack, WholeKeep
<1> QED  BY <1>1 DEF HeldInv

ActGrows == \A s \in Sockets : /\ act[s].made => act'[s].made
                               /\ act[s].stopped => act'[s].stopped

\* Nothing takes back that a session was made or stopped.
LEMMA ActGrowth ==
    ASSUME SlotInv, NEW h \in Sockets,
           Handles(h) \/ Ticks(h) \/ CloseOrphan(h) \/ Client(h) \/ Screens(h)
    PROVE  ActGrows
<1>1. act \in [Sockets -> Active]
  BY Base
<1> USE DEF ActGrows, Active
<1>2. CASE Attach(h)
  BY <1>1, <1>2 DEF Attach
<1>3. CASE TakeOpen(h)
  BY <1>1, <1>3 DEF TakeOpen
<1>4. CASE Built(h)
  BY <1>1, <1>4 DEF Built
<1>5. CASE Ready(h)
  BY <1>1, <1>5 DEF Ready
<1>6. CASE ResetRebuilds(h)
  BY <1>1, <1>6 DEF ResetRebuilds
<1>7. CASE Leave(h)
  BY <1>1, <1>7 DEF Leave
<1>8. CASE Detach(h)
  BY <1>1, <1>8 DEF Detach, EndSession
<1>9. CASE Frees(h)
  BY <1>1, <1>9 DEF Frees, FreeSlot
<1>10. CASE TimerExpires(h)
  BY <1>1, <1>10 DEF TimerExpires, EndSession, Held
<1>11. CASE TimerFrees(h)
  BY <1>1, <1>11 DEF TimerFrees, FreeSlot, Held
<1>12. CASE Stop(h)
  BY <1>1, <1>12 DEF Stop
<1>13. CASE Reset(h)
  BY <1>1, <1>13 DEF Reset
<1>14. CASE act' = act
  BY <1>14
<1> QED  BY <1>2, <1>3, <1>4, <1>5, <1>6, <1>7, <1>8, <1>9, <1>10, <1>11, <1>12, <1>13, <1>14
  DEF Handles, Ticks, Client, Screens, CloseOrphan, ScreenOpens, ScreenSeesEnd, ScreenLeaves,
      OpenRaises, LeaveEarly, Disconnects, StopEnds, ResetCloses, ResetReopens, ResetOpened,
      Closes, TimerDetached, TimerWakes, TimerCloses, ConnectResumes, ConnectBusy, ConnectFresh,
      Flood, Drops, Ends

\* A made session that is not found is not found again.
LEMMA TableGrowth ==
    ASSUME SlotInv, NEW h \in Sockets,
           Handles(h) \/ Ticks(h) \/ CloseOrphan(h) \/ Client(h) \/ Screens(h)
    PROVE  \A s \in Sockets : act[s].made /\ Unlisted(s) => Unlisted(s)'
<1>1. /\ table \in [SessionIds -> Sockets \cup {NoSock}]
      /\ \A s \in Sockets : IdOf[s] \in SessionIds
      /\ NoSock \notin Sockets
  BY Base, Names DEF Typed
<1> USE DEF Unlisted
<1>2. CASE TakeOpen(h)
  BY <1>1, <1>2, Base DEF TakeOpen, LocalsOf, Is, Early
<1>3. CASE Detach(h)
  BY <1>1, <1>3 DEF Detach, EndSession
<1>4. CASE TimerExpires(h)
  BY <1>1, <1>4 DEF TimerExpires, EndSession, Held
<1>5. CASE table' = table
  BY <1>1, <1>5
<1> QED  BY <1>2, <1>3, <1>4, <1>5
  DEF Handles, Ticks, Client, Screens, CloseOrphan, ScreenOpens, ScreenSeesEnd, ScreenLeaves,
      Attach, OpenRaises, Built, Ready, LeaveEarly, Disconnects, StopEnds, ResetCloses,
      ResetReopens, ResetOpened, ResetRebuilds, Leave, Frees, Closes, TimerDetached, TimerWakes,
      TimerFrees, TimerCloses, ConnectResumes, ConnectBusy, ConnectFresh, Flood, Drops, Ends,
      Stop, Reset

\* A timer that was started has been started.
LEMMA TimerGrowth ==
    ASSUME SlotInv, NEW h \in Sockets,
           Handles(h) \/ Ticks(h) \/ CloseOrphan(h) \/ Client(h) \/ Screens(h)
    PROVE  \A s \in Sockets : timer[s].pc # "none" => timer'[s].pc # "none"
<1>1. timer \in [Sockets -> TimerRec]
  BY Base
<1> USE DEF TimerRec
<1>2. CASE Leave(h)
  BY <1>1, <1>2 DEF Leave, Tick
<1>3. CASE TimerDetached(h)
  BY <1>1, <1>3 DEF TimerDetached, Tick
<1>4. CASE TimerWakes(h)
  BY <1>1, <1>4 DEF TimerWakes, Tick
<1>5. CASE TimerExpires(h)
  BY <1>1, <1>5 DEF TimerExpires, Tick, AfterEnd
<1>6. CASE TimerFrees(h)
  BY <1>1, <1>6 DEF TimerFrees, Tick, AfterFree
<1>7. CASE TimerCloses(h)
  BY <1>1, <1>7 DEF TimerCloses, Tick
<1>8. CASE timer' = timer
  BY <1>1, <1>8
<1> QED  BY <1>2, <1>3, <1>4, <1>5, <1>6, <1>7, <1>8
  DEF Handles, Ticks, Client, Screens, CloseOrphan, ScreenOpens, ScreenSeesEnd, ScreenLeaves,
      Attach, TakeOpen, OpenRaises, Built, Ready, LeaveEarly, Disconnects, StopEnds,
      ResetCloses, ResetReopens, ResetOpened, ResetRebuilds, Detach, Frees, Closes,
      ConnectResumes, ConnectBusy, ConnectFresh, Flood, Drops, Ends, Stop, Reset

\* A model that was opened has been opened.
LEMMA ModelGrowth ==
    ASSUME SlotInv, NEW h \in Sockets,
           Handles(h) \/ Ticks(h) \/ CloseOrphan(h) \/ Client(h) \/ Screens(h)
    PROVE  \A s \in Sockets : model[Second(s)] # "none" => model'[Second(s)] # "none"
<1>1. model \in [Models -> {"none", "opening", "open", "closed", "failed"}]
      /\ \A s \in Sockets : Second(s) \in Models
  BY Base, Names DEF Typed
<1>2. CASE ConnectFresh(h)
  <2>1. model' = [model EXCEPT ![First(h)] = "opening"]
    BY <1>2 DEF ConnectFresh, First
  <2> QED  BY <1>1, <2>1
<1>3. CASE StopEnds(h)
  BY <1>1, <1>3 DEF StopEnds, CloseModel
<1>4. CASE Frees(h)
  BY <1>1, <1>4 DEF Frees, FreeSlot, CloseModel
<1>5. CASE TimerFrees(h)
  BY <1>1, <1>5 DEF TimerFrees, FreeSlot, CloseModel
<1>6. CASE CloseOrphan(h)
  BY <1>1, <1>6 DEF CloseOrphan, CloseModel
<1>7. CASE ResetReopens(h)
  <2>1. model' = [model EXCEPT ![sock[h].own] = "closed", ![Second(h)] = "opening"]
    BY <1>7 DEF ResetReopens, Second
  <2> QED  BY <1>1, <2>1
<1>8. CASE model' = model
  BY <1>1, <1>8
<1> QED  BY <1>2, <1>3, <1>4, <1>5, <1>6, <1>7, <1>8
  DEF Handles, Ticks, Client, Screens, ScreenOpens, ScreenSeesEnd, ScreenLeaves,
      Attach, TakeOpen, OpenRaises, Built, Ready, LeaveEarly, Disconnects, ResetCloses,
      ResetOpened, ResetRebuilds, Leave, Detach, Closes, TimerDetached, TimerWakes,
      TimerExpires, TimerCloses, ConnectResumes, ConnectBusy, Flood, Drops, Ends, Stop, Reset

\* No step takes back what Grows names.
LEMMA Growth == ASSUME SlotInv, DxNext PROVE Grows
<1>1. ASSUME NEW h \in Sockets,
             Handles(h) \/ Ticks(h) \/ CloseOrphan(h) \/ Client(h) \/ Screens(h)
      PROVE  Grows
  BY <1>1, ActGrowth, TableGrowth, TimerGrowth, ModelGrowth DEF Grows, ActGrows
<1>2. ASSUME NEW m \in Models, Opened(m) PROVE Grows
  <2>1. model \in [Models -> {"none", "opening", "open", "closed", "failed"}]
    BY DEF SlotInv, DxTypeOK
  <2>2. \A s \in Sockets : model[Second(s)] # "none" => model'[Second(s)] # "none"
    BY <1>2, <2>1, Names DEF Opened
  <2> QED  BY <1>2, <2>2 DEF Opened, Grows, Unlisted
<1> QED  BY <1>1, <1>2 DEF DxNext

-----------------------------------------------------------------------------
(* Steps that leave models, coordinators and the parts of sessions alone.    *)

SameParts ==
    \A s \in Sockets :
        /\ act'[s].made = act[s].made /\ act'[s].duplex = act[s].duplex
        /\ act'[s].coord = act[s].coord /\ act'[s].released = act[s].released
        /\ act'[s].ended = act[s].ended
        /\ \/ act'[s].attached \/ act'[s].attached = act[s].attached
           \/ act'[s].made /\ (Rejoiners = {} => timer'[s].pc # "none")

\* Steps that leave models, jobs and the sessions' parts alone.
LEMMA QuietHolds ==
    ASSUME Setting, NEW h \in Sockets, UNCHANGED <<model, jobs>>, SameParts,
           \A j \in Sockets : j # h => sock'[j] = sock[j] /\ timer'[j].pc = timer[j].pc,
           TornOf(h)', MineOf(h)', Kept(h)' => Kept(h)
    PROVE  HeldInv'
<1>1. \A s \in Sockets : PartsOf(s)'
  BY PartsKeep DEF SameParts
<1>2. \A s \in Sockets : Spares(s)
  BY DEF Spares, SameParts
<1>3. WholeOf(h)'
  BY <1>2, WholeKeep
<1> QED  BY <1>1, <1>2, <1>3, Together DEF SameParts

\* What is known of one socket.
LEMMA Known ==
    ASSUME Setting, NEW h \in Sockets
    PROVE  /\ TornOf(h) /\ MineOf(h) /\ PartsOf(h) /\ WholeOf(h) /\ Typed
           /\ LocalsOf(h) /\ SessionOf(h) /\ ResetOf(h)
           /\ sock \in [Sockets -> Locals] /\ act \in [Sockets -> Active]
           /\ timer \in [Sockets -> TimerRec]
           /\ sock[h].sess \in Sockets \cup {NoSock}
           /\ sock[h].own \in Models \cup {NoModel} /\ sock[h].crd \in Models \cup {NoModel}
  BY Base DEF Setting, HeldInv

\* A handler that goes elsewhere than to the teardown, with what it has.
LEMMA Walks ==
    ASSUME Setting, NEW h \in Sockets, UNCHANGED <<model, jobs, timer>>, SameParts,
           \A j \in Sockets : j # h => sock'[j] = sock[j],
           ~Is(h, "done"), sock'[h].sess = sock[h].sess, sock'[h].crd = sock[h].crd,
           sock'[h].own = NoModel => sock[h].own = NoModel,
           sock'[h].pc \in {"leaving", "serving", "rebuilding"},
           Kept(h)' => Kept(h)
    PROVE  HeldInv'
<1>1. timer[h].pc = "none" /\ timer'[h].pc = "none"
  BY Known DEF LocalsOf
<1>2. TornOf(h)'
  BY <1>1 DEF TornOf, Is, Tearing, Past
<1>3. MineOf(h)'
  BY Known DEF MineOf, Is
<1> QED  BY <1>2, <1>3, QuietHolds

\* Such are these.
LEMMA WalksHold ==
    ASSUME Setting, NEW h \in Sockets,
           \/ OpenRaises(h) \/ LeaveEarly(h) \/ Flood(h) \/ Disconnects(h) \/ Ends(h)
           \/ ResetOpened(h) \/ Ready(h)
    PROVE  HeldInv'
<1>1. sock \in [Sockets -> Locals] /\ act \in [Sockets -> Active] /\ LocalsOf(h)
  BY Known
<1>2. /\ UNCHANGED <<model, jobs, timer>> /\ ~Is(h, "done")
      /\ \A j \in Sockets : j # h => sock'[j] = sock[j]
      /\ sock'[h].sess = sock[h].sess /\ sock'[h].crd = sock[h].crd
      /\ sock'[h].pc \in {"leaving", "serving", "rebuilding"}
  BY <1>1 DEF Locals, OpenRaises, LeaveEarly, Flood, Disconnects, Ends, ResetOpened, Ready, Go, Is
<1>3. sock'[h].own = NoModel => sock[h].own = NoModel
  <2>1. Second(h) # NoModel
    BY Names
  <2> QED  BY <1>1, <2>1 DEF Locals, OpenRaises, LeaveEarly, Flood, Disconnects, Ends,
                                  ResetOpened, Ready, Go, Is, Second
<1>4. SameParts /\ \A s \in Sockets : act'[s].made = act[s].made
  BY <1>1 DEF SameParts, Active, OpenRaises, LeaveEarly, Flood, Disconnects, Ends, ResetOpened,
              Ready
<1>5. /\ sock[h].pc \notin Holding /\ act[h].made => sock'[h].park = sock[h].park
      /\ sock'[h].pc \in Holding => sock[h].pc \in Holding
  BY <1>1 DEF Locals, OpenRaises, LeaveEarly, Flood, Disconnects, Ends, ResetOpened,
              Ready, Go, Is, LocalsOf, Early, Holding
<1>6. Kept(h)' => Kept(h)
  BY <1>4, <1>5 DEF Kept, Gone, Setting, Grows
<1> QED  BY <1>2, <1>3, <1>4, <1>6, Walks

\* A client that drops.
LEMMA DropsHold == ASSUME Setting, NEW h \in Sockets, Drops(h) PROVE HeldInv'
<1>1. /\ UNCHANGED <<model, jobs, act, timer, table>> /\ SameParts
      /\ \A j \in Sockets : j # h => sock'[j] = sock[j]
      /\ sock'[h].sess = sock[h].sess /\ sock'[h].own = sock[h].own
      /\ sock'[h].crd = sock[h].crd /\ sock'[h].park = sock[h].park /\ sock'[h].pc = sock[h].pc
  BY Known DEF Drops, SameParts, Locals
<1>2. TornOf(h)'
  BY <1>1, Known DEF TornOf, Is, Gone, Unlisted
<1>3. MineOf(h)'
  BY <1>1, Known DEF MineOf, Is
<1>4. Kept(h)' => Kept(h)
  BY <1>1 DEF Kept, Gone, Unlisted
<1> QED  BY <1>1, <1>2, <1>3, <1>4, QuietHolds

\* A socket that is turned away, or passes the check.
LEMMA ConnectsHold ==
    ASSUME Setting, NEW h \in Sockets, ConnectBusy(h) \/ ConnectResumes(h) PROVE HeldInv'
<1>1. /\ Is(h, "new") /\ sock[h].sess = NoSock /\ timer[h].pc = "none" /\ ~act[h].made
      /\ sock[h].own = NoModel /\ sock[h].crd = NoModel
  BY Known DEF ConnectBusy, ConnectResumes, LocalsOf, MineOf, Is, Early
<1>2. /\ UNCHANGED <<model, jobs, act, timer, table>> /\ SameParts
      /\ \A j \in Sockets : j # h => sock'[j] = sock[j]
      /\ sock'[h].own = NoModel /\ sock'[h].crd = NoModel
      /\ \/ sock'[h].pc = "done" /\ sock'[h].sess = NoSock
         \/ sock'[h].pc = "resuming"
  BY <1>1, Known DEF ConnectBusy, ConnectResumes, SameParts, Go, Locals
<1>3. TornOf(h)'
  BY <1>1, <1>2 DEF TornOf, Is, Tearing, Past
<1>4. MineOf(h)'
  <2>1. Second(h) # NoModel
    BY Names
  <2> QED  BY <1>2, <2>1 DEF MineOf, Is
<1> QED  BY <1>1, <1>2, <1>3, <1>4, QuietHolds DEF Kept

\* A handler takes over the model and the coordinator of the session it resumes.
LEMMA AttachHolds == ASSUME Setting, NEW h \in Sockets, Attach(h) PROVE HeldInv'
<1> DEFINE s == sock[h].sess
<1>1. /\ sock[h].own = NoModel /\ timer[h].pc = "none" /\ ~act[h].made /\ s \in Sockets
      /\ Resetters = {} /\ act[s].made
  BY Known, Names DEF Attach, LocalsOf, ResetOf, Is, Early, Setting, Untroubled, Faultless
<1>2. SessionOf(s) /\ PartsOf(s) /\ ResetOf(s) /\ act[s].duplex # NoModel
      /\ act[s].coord \in {NoModel, First(s)}
  BY <1>1, Known DEF SessionOf, PartsOf, ResetOf
<1>3. /\ UNCHANGED <<model, jobs, timer>> /\ SameParts
      /\ \A j \in Sockets : j # h => sock'[j] = sock[j]
      /\ sock'[h].pc = "starting" /\ sock'[h].sess = s
      /\ sock'[h].own = act[s].duplex /\ sock'[h].crd = act[s].coord
  <2>1. UNCHANGED <<model, jobs, timer>> /\ SameParts
    <3>1. /\ act' = [act EXCEPT ![s].attached = TRUE] /\ UNCHANGED <<model, jobs, timer>>
          /\ act \in [Sockets -> Active]
      BY Known DEF Attach
    <3>2. /\ act'[s] = [act[s] EXCEPT !.attached = TRUE] /\ act[s] \in Active
          /\ \A j \in Sockets : j # s => act'[j] = act[j]
      BY <1>1, <3>1
    <3>3. /\ act'[s].made = act[s].made /\ act'[s].duplex = act[s].duplex
          /\ act'[s].coord = act[s].coord /\ act'[s].released = act[s].released
          /\ act'[s].ended = act[s].ended /\ act'[s].attached
      BY <3>2 DEF Active
    <3> QED  BY <3>1, <3>2, <3>3 DEF SameParts
  <2>2. /\ \A j \in Sockets : j # h => sock'[j] = sock[j]
        /\ sock'[h].pc = "starting" /\ sock'[h].sess = s
        /\ sock'[h].own = act[s].duplex /\ sock'[h].crd = act[s].coord
    BY <1>1, Known DEF Attach, Locals
  <2> QED  BY <2>1, <2>2
<1>4. TornOf(h)'
  BY <1>1, <1>3 DEF TornOf, Is, Tearing, Past
<1>5. MineOf(h)'
  <2>1. Second(h) # NoModel /\ Second(h) # First(s)
    BY <1>1, Names
  <2> QED  BY <1>2, <1>3, <2>1 DEF MineOf, Is
<1> QED  BY <1>1, <1>3, <1>4, <1>5, QuietHolds DEF Kept, SameParts

\* From now on nobody resumes the session.
LEMMA StopHolds == ASSUME Setting, NEW h \in Sockets, Stop(h) PROVE HeldInv'
<1> DEFINE s == sock[h].sess
<1>1. /\ Is(h, "serving") /\ s \in Sockets /\ timer[h].pc = "none"
  BY Known, Base DEF Stop, LocalsOf, Is, Setting
<1>2. /\ UNCHANGED <<model, jobs, timer>> /\ SameParts /\ act'[s].stopped
      /\ \A j \in Sockets : j # h => sock'[j] = sock[j]
      /\ sock'[h].pc = "stopping" /\ sock'[h].sess = s /\ sock'[h].park = sock[h].park
      /\ sock'[h].own = sock[h].own /\ sock'[h].crd = sock[h].crd
  BY <1>1, Known DEF Stop, SameParts, Locals, Active, Go
<1>3. TornOf(h)'
  BY <1>1, <1>2 DEF TornOf, Is, Tearing, Past
<1>4. MineOf(h)'
  BY <1>2, Known DEF MineOf, Is
<1>5. Kept(h)' => Kept(h)
  BY <1>2, KeptBack DEF SameParts, Holding
<1> QED  BY <1>2, <1>3, <1>4, <1>5, QuietHolds

\* A coordinator that could not be built.
LEMMA BuiltFails ==
    ASSUME Setting, NEW h \in Sockets, Is(h, "building") \/ Is(h, "rebuilding"), Fails,
           Go(h, "leaving"),
           UNCHANGED <<locked, table, model, timer, fired, orphan, screen, jobs, act>>
    PROVE  HeldInv'
<1>1. /\ \A j \in Sockets : j # h => sock'[j] = sock[j]
      /\ ~Is(h, "done") /\ sock'[h].sess = sock[h].sess /\ sock'[h].crd = sock[h].crd
      /\ sock'[h].own = sock[h].own /\ sock'[h].pc = "leaving"
      /\ sock'[h].park = sock[h].park /\ SameParts
  BY Known DEF Go, Is, Locals, SameParts
<1>2. Kept(h)' => Kept(h)
  BY <1>1, KeptBack DEF Holding, SameParts
<1> QED  BY <1>1, <1>2, Walks

\* The client leaves while its session is drained; it was stopped, so nobody resumes it.
LEMMA StopLeft ==
    ASSUME Setting, NEW h \in Sockets, Is(h, "stopping"),
           UNCHANGED <<table, act, model, jobs, timer>>,
           sock' = [sock EXCEPT ![h].pc = "leaving", ![h].park = TRUE]
    PROVE  HeldInv'
<1>1. /\ \A j \in Sockets : j # h => sock'[j] = sock[j]
      /\ ~Is(h, "done") /\ sock'[h].sess = sock[h].sess /\ sock'[h].crd = sock[h].crd
      /\ sock'[h].own = sock[h].own /\ sock'[h].pc = "leaving" /\ SameParts
  BY Known DEF Is, Locals, SameParts
<1>2. act[sock[h].sess].stopped /\ (Rejoiners = {} => sock[h].sess = h)
  <2>1. sock[h].sess \in Sockets /\ NoSock \notin Sockets
    BY Base, Names DEF Is, Setting
  <2> QED  BY <2>1, Known DEF TornOf, ResetOf
<1>3. Kept(h)' => Kept(h)
  BY <1>1, <1>2 DEF Kept, Gone, Unlisted, Setting, Untroubled
<1> QED  BY <1>1, <1>3, Walks

\* The end of a handler: parked sessions are kept for their client.
LEMMA LeaveHolds == ASSUME Setting, NEW h \in Sockets, Leave(h) PROVE HeldInv'
<1> DEFINE s == sock[h].sess
<1>1. /\ Is(h, "leaving") /\ timer[h].pc = "none" /\ s \in Sockets \cup {NoSock}
      /\ s = NoSock \/ act[s].made
      /\ sock[h].own = NoModel => s = NoSock
      /\ Rejoiners = {} => s \in {NoSock, h}
      /\ UNCHANGED <<model, jobs, table>>
  BY Known DEF Leave, LocalsOf, ResetOf, Is
<1>2. CASE sock[h].park /\ s # NoSock /\ ~act[s].stopped /\ table[IdOf[h]] = s
  <2>1. /\ act' = [act EXCEPT ![s].attached = FALSE, ![s].evt = h]
        /\ timer' = [timer EXCEPT ![h].pc = "detaching"] /\ Go(h, "done")
    BY <1>2 DEF Leave
  <2>2. /\ timer'[h].pc = "detaching" /\ \A j \in Sockets : j # h => timer'[j] = timer[j]
        /\ sock'[h].sess = s /\ sock'[h].own = sock[h].own /\ sock'[h].crd = sock[h].crd
        /\ sock'[h].park = sock[h].park /\ sock'[h].pc = "done"
        /\ \A j \in Sockets : j # h => sock'[j] = sock[j]
    BY <2>1, Known DEF Go, Locals, TimerRec
  <2>3. s \in Sockets /\ act[s].made
    BY <1>1, <1>2
  <2>4. SameParts
    <3>1. \A j \in Sockets : j # s => act'[j] = act[j]
      BY <2>1, <2>3, Known
    <3>2. /\ act'[s].made = act[s].made /\ act'[s].duplex = act[s].duplex
          /\ act'[s].coord = act[s].coord /\ act'[s].released = act[s].released
          /\ act'[s].ended = act[s].ended
      BY <2>1, <2>3, Known DEF Active
    <3>3. Rejoiners = {} => timer'[s].pc # "none"
      BY <1>1, <2>2, <2>3, Names
    <3> QED  BY <2>3, <3>1, <3>2, <3>3 DEF SameParts
  <2>5. TornOf(h)'
    BY <2>2 DEF TornOf, Tearing, Is
  <2>6. MineOf(h)'
    BY <1>1, <2>2, Known DEF MineOf, Is
  <2>7. Kept(h)' => Kept(h)
    BY <2>2, <2>4, KeptBack DEF SameParts, Holding
  <2> QED  BY <1>1, <2>2, <2>4, <2>5, <2>6, <2>7, QuietHolds
<1>3. CASE ~(sock[h].park /\ s # NoSock /\ ~act[s].stopped /\ table[IdOf[h]] = s)
  <2>1. /\ UNCHANGED <<act, timer>>
        /\ Go(h, IF sock[h].own = NoModel THEN "done" ELSE "detaching")
    BY <1>3 DEF Leave
  <2>2. /\ sock'[h].sess = s /\ sock'[h].own = sock[h].own /\ sock'[h].crd = sock[h].crd
        /\ sock'[h].park = sock[h].park
        /\ sock'[h].pc = IF sock[h].own = NoModel THEN "done" ELSE "detaching"
        /\ \A j \in Sockets : j # h => sock'[j] = sock[j]
    BY <2>1, Known DEF Go, Locals
  <2>3. SameParts
    BY <2>1 DEF SameParts
  <2>4. TornOf(h)'
    BY <1>1, <1>3, <2>1, <2>2 DEF TornOf, Tearing, Is, Gone, Unlisted
  <2>5. MineOf(h)'
    BY <1>1, <2>2, Known DEF MineOf, Is
  <2>6. Kept(h)' => Kept(h)
    BY <2>2, <2>3, KeptBack DEF SameParts, Holding
  <2> QED  BY <1>1, <2>1, <2>2, <2>3, <2>4, <2>5, <2>6, QuietHolds
<1> QED  BY <1>2, <1>3

\* A session that could not be detached is left to be found, which Untroubled excludes
\* where somebody may look for it.
LEMMA DetachFails ==
    ASSUME Setting, NEW h \in Sockets, Is(h, "detaching"), Fails, Go(h, "freeing"),
           UNCHANGED <<table, act, jobs, model, timer>>
    PROVE  HeldInv'
<1>1. /\ sock'[h].sess = sock[h].sess /\ sock'[h].own = sock[h].own
      /\ sock'[h].crd = sock[h].crd /\ sock'[h].park = sock[h].park /\ sock'[h].pc = "freeing"
      /\ \A j \in Sockets : j # h => sock'[j] = sock[j]
  BY Known DEF Go, Locals
<1>2. SameParts /\ ~Faultless
  BY Known DEF SameParts, Faultless, Fails, Typed
<1>3. TornOf(h)'
  BY <1>1, <1>2, Known DEF TornOf, LocalsOf, Tearing, Is, Gone, Unlisted, Past
<1>4. MineOf(h)'
  BY <1>1, Known DEF MineOf, Is
<1>5. Kept(h)' => Kept(h)
  BY <1>1, <1>2, KeptBack DEF SameParts, Holding
<1> QED  BY <1>1, <1>2, <1>3, <1>4, <1>5, QuietHolds

\* Timers that wait, and screens.
LEMMA WaitsHold ==
    ASSUME Setting, NEW h \in Sockets, sock' = sock, SameParts,
           UNCHANGED <<model, jobs, table, act>>,
           \A j \in Sockets : j # h => timer'[j].pc = timer[j].pc,
           timer'[h].pc = timer[h].pc \/ timer'[h].pc \in {"waiting", "due", "done"}
    PROVE  HeldInv'
<1>1. TornOf(h)'
  BY Known DEF TornOf, Is, Gone, Unlisted, Tearing, Setting, Grows
<1>2. MineOf(h)'
  BY Known DEF MineOf, Is
<1> QED  BY <1>1, <1>2, KeptBack, QuietHolds DEF SameParts

-----------------------------------------------------------------------------
(* Steps that open or close a model, or change a session's parts.            *)

\* A new model is opened on a free slot.
LEMMA ConnectFreshHolds == ASSUME Setting, NEW h \in Sockets, ConnectFresh(h) PROVE HeldInv'
<1>1. /\ Is(h, "new") /\ timer[h].pc = "none" /\ ~act[h].made
      /\ UNCHANGED <<act, jobs, table, timer>>
  BY Known DEF ConnectFresh, LocalsOf, Is, Early
<1>2. model' = [model EXCEPT ![First(h)] = "opening"] /\ First(h) \in Models
  BY Names DEF ConnectFresh, First
<1>3. /\ sock'[h].sess = sock[h].sess /\ sock'[h].own = sock[h].own
      /\ sock'[h].crd = sock[h].crd /\ sock'[h].pc = "opening"
      /\ \A j \in Sockets : j # h => sock'[j] = sock[j]
  BY Known DEF ConnectFresh, Go, Locals
<1>4. TornOf(h)'
  BY <1>1, <1>3 DEF TornOf, Is, Tearing, Past
<1>5. MineOf(h)'
  BY <1>3, Known DEF MineOf, Is, Setting, Grows
<1>6. \A s \in Sockets : PartsOf(s)'
  BY <1>1, PartsKeep
<1>7. ASSUME NEW s \in Sockets, s # h PROVE Spares(s)
  <2>1. act[s].duplex # First(h)
    BY <1>7, Known, Names DEF PartsOf
  <2> QED  BY <1>1, <1>2, <2>1, Known DEF Spares, Typed
<1>8. WholeOf(h)'
  BY <1>1 DEF WholeOf, Kept
<1> QED  BY <1>1, <1>3, <1>4, <1>5, <1>6, <1>7, <1>8, Together

\* A model is open, or its open failed.
LEMMA OpenedHolds == ASSUME Setting, NEW m \in Models, Opened(m) PROVE HeldInv'
<1>1. /\ UNCHANGED <<table, act, jobs, sock, timer>> /\ model[m] = "opening"
      /\ \A n \in Models : n # m => model'[n] = model[n]
  BY DEF Opened, Setting, SlotInv, DxTypeOK
<1>2. ASSUME NEW h \in Sockets
      PROVE  TornOf(h)' /\ MineOf(h)' /\ PartsOf(h)' /\ WholeOf(h)'
  <2>1. TornOf(h)' /\ MineOf(h)' /\ PartsOf(h)'
    BY <1>1, OthersHold, PartsKeep
  <2>2. Kept(h) /\ model[act[h].duplex] = "open" => model'[act[h].duplex] = "open"
    <3>1. act[h].duplex \in Models \cup {NoModel}
      BY Known DEF Active
    <3>2. model' [act[h].duplex] = model[act[h].duplex] \/ act[h].duplex \in {m, NoModel}
      BY <1>1, <3>1
    <3>3. Kept(h) => act[h].duplex # NoModel
      BY Known DEF Kept, SessionOf
    <3> QED  BY <1>1, <3>2, <3>3
  <2>3. Kept(h)' => Kept(h)
    BY <1>1, KeptBack
  <2> QED  BY <1>1, <2>1, <2>2, <2>3, WholeKeep DEF Spares
<1> QED  BY <1>2 DEF HeldInv

\* A session is made with the model that was opened for it.
LEMMA TakeOpenHolds == ASSUME Setting, NEW h \in Sockets, TakeOpen(h) PROVE HeldInv'
<1>1. /\ Is(h, "opening") /\ sock[h].own = NoModel /\ timer[h].pc = "none" /\ ~act[h].made
      /\ sock[h].crd = NoModel /\ act[h].coord = NoModel /\ ~act[h].ended /\ ~act[h].released
      /\ act[h].attached /\ model[First(h)] = "open" /\ UNCHANGED <<jobs, timer, model>>
  BY Known DEF TakeOpen, LocalsOf, MineOf, PartsOf, SessionOf, Is, Early, First
<1>2. /\ sock'[h].pc = "building" /\ sock'[h].sess = h /\ sock'[h].own = First(h)
      /\ sock'[h].crd = NoModel /\ \A j \in Sockets : j # h => sock'[j] = sock[j]
  BY <1>1, Known DEF TakeOpen, Locals, First
<1>3. /\ act'[h].made /\ act'[h].duplex = First(h) /\ act'[h].coord = NoModel
      /\ ~act'[h].ended /\ ~act'[h].released /\ act'[h].attached
      /\ \A j \in Sockets : j # h => act'[j] = act[j]
  BY <1>1, Known DEF TakeOpen, Active, First
<1>4. TornOf(h)'
  BY <1>1, <1>2 DEF TornOf, Is, Tearing, Past
<1>5. MineOf(h)'
  BY <1>2, Names DEF MineOf, Is
<1>6. \A s \in Sockets : PartsOf(s)'
  <2>1. PartsOf(h)'
    BY <1>1, <1>3, Names DEF PartsOf
  <2>2. ASSUME NEW s \in Sockets, s # h PROVE PartsOf(s)'
    BY <1>3, <2>2, PartsKeep
  <2> QED  BY <2>1, <2>2
<1>7. \A s \in Sockets : s # h => act'[s].made = act[s].made /\ Spares(s)
  BY <1>1, <1>3 DEF Spares
<1>8. WholeOf(h)'
  BY <1>1, <1>3 DEF WholeOf, Whole
<1> QED  BY <1>1, <1>2, <1>4, <1>5, <1>6, <1>7, <1>8, Together

\* A session gets its coordinator.
LEMMA BuiltHolds == ASSUME Setting, NEW h \in Sockets, Built(h) PROVE HeldInv'
<1>1. /\ Is(h, "building") /\ sock[h].own # NoModel /\ timer[h].pc = "none"
      /\ sock[h].sess = h /\ act[h].made /\ UNCHANGED <<table, model, timer>>
  BY Known, Names DEF Built, LocalsOf, MineOf, Is, Early
<1>2. CASE /\ jobs' = [jobs EXCEPT ![First(h)] = "live"]
           /\ act' = [act EXCEPT ![h].coord = First(h)]
           /\ sock' = [sock EXCEPT ![h].pc = "starting", ![h].crd = First(h)]
  <2>1. /\ sock'[h].pc = "starting" /\ sock'[h].sess = h /\ sock'[h].own = sock[h].own
        /\ sock'[h].crd = First(h) /\ sock'[h].park = sock[h].park
        /\ \A j \in Sockets : j # h => sock'[j] = sock[j]
    BY <1>1, <1>2, Known DEF Locals
  <2>2. /\ act'[h].made /\ act'[h].duplex = act[h].duplex /\ act'[h].coord = First(h)
        /\ act'[h].ended = act[h].ended /\ act'[h].released = act[h].released
        /\ act'[h].attached = act[h].attached
        /\ \A j \in Sockets : j # h => act'[j] = act[j]
    BY <1>1, <1>2, Known DEF Active
  <2>3. /\ jobs'[First(h)] = "live" /\ First(h) # NoModel /\ First(h) # Second(h)
        /\ \A c \in Models : c # First(h) => jobs'[c] = jobs[c]
        /\ \A c : jobs[c] = "live" => jobs'[c] = "live" \/ c \notin Models
    BY <1>2, Known, Names DEF Typed
  <2>4. TornOf(h)'
    BY <1>1, <2>1 DEF TornOf, Is, Tearing, Past
  <2>5. MineOf(h)'
    BY <1>1, <2>1, <2>3 DEF MineOf, Is
  <2>6. \A s \in Sockets : PartsOf(s)'
    <3>1. PartsOf(h)'
      BY <1>1, <2>2, <2>3, Known DEF PartsOf, Setting, Grows
    <3>2. ASSUME NEW s \in Sockets, s # h PROVE PartsOf(s)'
      BY <2>2, <3>2, PartsKeep
    <3> QED  BY <3>1, <3>2
  <2>7. ASSUME NEW s \in Sockets, s # h PROVE act'[s].made = act[s].made /\ Spares(s)
    <3>1. act[s].coord \in Models \cup {NoModel}
      BY Known DEF Active
    <3> QED  BY <1>1, <2>2, <2>3, <2>7, <3>1 DEF Spares
  <2>8. WholeOf(h)'
    <3>1. Kept(h)' => Kept(h)
      BY <1>1, <2>1, <2>2, KeptBack DEF Holding, Is
    <3> QED  BY <1>1, <2>2, <2>3, <3>1, Known DEF WholeOf, Whole
  <2> QED  BY <1>1, <2>1, <2>4, <2>5, <2>6, <2>7, <2>8, Together
<1>3. CASE Fails /\ Go(h, "leaving") /\ UNCHANGED <<jobs, act>>
  BY <1>1, <1>3, BuiltFails DEF Built
<1> QED  BY <1>2, <1>3 DEF Built, First

\* A handler has the model and the coordinator of its session.
LEMMA Own ==
    ASSUME Setting, NEW h \in Sockets, sock[h].sess \in Sockets, sock[h].own # NoModel
    PROVE  /\ sock[h].own \in {First(sock[h].sess), Second(sock[h].sess)}
           /\ sock[h].crd \in {NoModel, First(sock[h].sess), Second(sock[h].sess)}
<1>1. sock[h].sess = h \/ model[Second(h)] = "none"
  BY Known, Names DEF ResetOf, Setting, Untroubled, Faultless
<1> QED  BY <1>1, Known DEF LocalsOf, MineOf, ResetOf

\* Socket h changes session t, which nobody resumes any more, and nothing of another one.
LEMMA TearsDown ==
    ASSUME Setting, NEW h \in Sockets, NEW t \in Sockets,
           \A j \in Sockets : j # t => act'[j] = act[j],
           \A n \in Models : n \notin {First(t), Second(t)}
                             => model'[n] = model[n] /\ jobs'[n] = jobs[n],
           \A j \in Sockets : j # h => sock'[j] = sock[j] /\ timer'[j].pc = timer[j].pc,
           TornOf(h)', MineOf(h)', PartsOf(t)', ~Kept(t)', act'[t].made = act[t].made,
           Faultless \/ (sock'[h].park = sock[h].park /\
                         (sock'[h].pc \in Holding => sock[h].pc \in Holding))
    PROVE  HeldInv'
<1>1. \A s \in Sockets : PartsOf(s)' /\ act'[s].made = act[s].made
  BY PartsKeep
<1>2. ASSUME NEW s \in Sockets, Kept(s)' PROVE Spares(s)
  <2>1. s # t /\ act[s].made
    BY <1>1, <1>2 DEF Kept
  <2>2. /\ act[s].duplex \in {First(s), Second(s)}
        /\ act[s].coord \in {NoModel, First(s), Second(s)}
        /\ First(s) \in Models /\ Second(s) \in Models
    BY <2>1, Known, Names DEF PartsOf, SessionOf
  <2>3. /\ act[s].duplex \notin {First(t), Second(t)}
        /\ act[s].coord \notin {First(t), Second(t)}
    BY <2>1, <2>2, Names
  <2> QED  BY <2>1, <2>2, <2>3 DEF Spares
<1>3. WholeOf(h)'
  BY <1>1, <1>2, KeptBack, WholeKeep
<1> QED  BY <1>1, <1>2, <1>3, Together

\* What closing a model and stopping jobs leave alone.
LEMMA Closed ==
    ASSUME Setting, NEW m \in Models \cup {NoModel}, CloseModel(m)
    PROVE  \A n \in Models : n # m => model'[n] = model[n]
  BY ModelCloses, Base DEF Setting, SlotInv, DxTypeOK, Typed, Locals

\* A stopped session is drained.
LEMMA StopEndsHolds == ASSUME Setting, NEW h \in Sockets, StopEnds(h) PROVE HeldInv'
<1>1. /\ Is(h, "stopping") /\ timer[h].pc = "none" /\ sock[h].own # NoModel
      /\ sock[h].sess \in Sockets /\ UNCHANGED <<table, act, jobs, timer>>
      /\ act[sock[h].sess].stopped
  BY Known, Base DEF StopEnds, LocalsOf, TornOf, Is, Early, Setting
<1>2. CASE CloseModel(sock[h].own) /\ Go(h, "leaving")
  <2>1. /\ sock'[h].sess = sock[h].sess /\ sock'[h].own = sock[h].own
        /\ sock'[h].crd = sock[h].crd /\ sock'[h].pc = "leaving" /\ sock'[h].park = sock[h].park
        /\ \A j \in Sockets : j # h => sock'[j] = sock[j]
    BY <1>2, Known DEF Go, Locals
  <2>2. PICK t \in Sockets : t = sock[h].sess
    BY <1>1
  <2>3. \A n \in Models : n # sock[h].own => model'[n] = model[n]
    BY <1>2, Known, Closed
  <2>4. sock[h].own \in {NoModel, First(t), Second(t)}
    BY <1>1, <2>2, Own
  <2>5. TornOf(h)'
    BY <1>1, <2>1 DEF TornOf, Is, Tearing, Past
  <2>6. MineOf(h)'
    BY <2>1, Known DEF MineOf, Is, Setting, Grows
  <2>7. PartsOf(t)'
    BY <1>1, PartsKeep
  <2>8. ~Kept(t)'
    BY <1>1, <2>2 DEF Kept, Gone
  <2> QED  BY <1>1, <2>1, <2>3, <2>4, <2>5, <2>6, <2>7, <2>8, TearsDown DEF Holding
<1>3. CASE UNCHANGED model /\ sock' = [sock EXCEPT ![h].pc = "leaving", ![h].park = TRUE]
  BY <1>1, <1>3, StopLeft
<1> QED  BY <1>2, <1>3 DEF StopEnds

\* A reset is by a handler alone in its session, which it does not park any more.
LEMMA ResetsHold ==
    ASSUME Setting, NEW h \in Sockets,
           Reset(h) \/ ResetCloses(h) \/ ResetReopens(h) \/ ResetRebuilds(h)
    PROVE  HeldInv'
<1>1. /\ sock[h].sess = h /\ sock[h].own # NoModel /\ timer[h].pc = "none" /\ ~sock[h].park
      /\ act[h].made /\ Rejoiners = {} /\ ~Faultless
  <2>1. Resetters # {}
    BY Known DEF Reset, ResetCloses, ResetReopens, ResetRebuilds, ResetOf, Is, InReset
  <2>2. sock[h].pc \in {"serving", "resetting", "clearing", "rebuilding"}
    BY DEF Reset, ResetCloses, ResetReopens, ResetRebuilds, Is
  <2>3. sock[h].sess \in Sockets /\ NoSock \notin Sockets
    BY <2>2, Base, Names DEF Setting
  <2> QED  BY <2>1, <2>2, <2>3, Known DEF LocalsOf, ResetOf, Is, Early, Past, Setting, Untroubled,
                                        Faultless
<1>2. sock[h].own \in {First(h), Second(h)} /\ sock[h].crd \in {NoModel, First(h), Second(h)}
  BY <1>1, Own
<1>3. /\ \A j \in Sockets : j # h => sock'[j] = sock[j] /\ act'[j] = act[j]
      /\ UNCHANGED <<table, timer>>
  BY <1>1, Known DEF Reset, ResetCloses, ResetReopens, ResetRebuilds, Go
<1>4. ASSUME sock'[h].pc \in {"resetting", "clearing", "reopening", "leaving"},
             sock'[h].park = sock[h].park, MineOf(h)', PartsOf(h)', act'[h].made = act[h].made,
             \A n \in Models : n \notin {First(h), Second(h)}
                               => model'[n] = model[n] /\ jobs'[n] = jobs[n]
      PROVE  HeldInv'
  <2>1. TornOf(h)'
    BY <1>1, <1>3, <1>4 DEF TornOf, Is, Tearing, Past
  <2>2. ~Kept(h)'
    BY <1>1, <1>4 DEF Kept, Holding
  <2> QED  BY <1>3, <1>4, <2>1, <2>2, TearsDown DEF Holding
<1>5. CASE Reset(h)
  <2>1. /\ sock'[h].pc = "resetting" /\ sock'[h].park = sock[h].park /\ sock'[h].sess = h
        /\ sock'[h].own = sock[h].own /\ sock'[h].crd = sock[h].crd
        /\ UNCHANGED <<model, jobs>>
    BY <1>1, <1>5, Known DEF Reset, Go, Locals
  <2>2. /\ act'[h].made /\ act'[h].coord = NoModel /\ act'[h].duplex = act[h].duplex
        /\ act'[h].attached = act[h].attached
    BY <1>1, <1>5, Known DEF Reset, Active
  <2>3. MineOf(h)'
    BY <1>1, <2>1, Known DEF MineOf, Is
  <2>4. PartsOf(h)'
    BY <1>3, <2>1, <2>2, Known, Names DEF PartsOf
  <2> QED  BY <1>1, <1>4, <2>1, <2>2, <2>3, <2>4
<1>6. CASE ResetCloses(h)
  <2>1. /\ sock'[h].pc = "clearing" /\ sock'[h].park = sock[h].park /\ sock'[h].sess = h
        /\ sock'[h].own = sock[h].own /\ sock'[h].crd = NoModel /\ UNCHANGED <<model, act>>
    BY <1>1, <1>6, Known DEF ResetCloses, Locals
  <2>2. \A n \in Models : n \notin {First(h), Second(h)} => jobs'[n] = jobs[n]
    BY <1>2, <1>6, Known, Names DEF ResetCloses, Typed
  <2>3. MineOf(h)' /\ PartsOf(h)'
    BY <1>3, <2>1, PartsKeep, Names DEF MineOf, Is
  <2> QED  BY <1>4, <2>1, <2>2, <2>3
<1>7. CASE ResetReopens(h)
  <2>1. /\ sock'[h].pc = "reopening" /\ sock'[h].park = sock[h].park /\ sock'[h].sess = h
        /\ sock'[h].own = sock[h].own /\ sock'[h].crd = sock[h].crd /\ UNCHANGED <<jobs, act>>
    BY <1>1, <1>7, Known DEF ResetReopens, Go, Locals
  <2>2. model' = [model EXCEPT ![sock[h].own] = "closed", ![Second(h)] = "opening"]
    BY <1>7 DEF ResetReopens, Second
  <2>3. \A n \in Models : n \notin {First(h), Second(h)} => model'[n] = model[n]
    BY <1>2, <2>2, Known DEF Typed
  <2>4. MineOf(h)' /\ PartsOf(h)'
    BY <1>1, <1>3, <2>1, PartsKeep, Known DEF MineOf, Is, Setting, Grows
  <2> QED  BY <1>4, <2>1, <2>3, <2>4
<1>8. CASE ResetRebuilds(h)
  <2>1. CASE /\ jobs' = [jobs EXCEPT ![Second(h)] = "live"]
             /\ act' = [act EXCEPT ![sock[h].sess].duplex = Second(h),
                                   ![sock[h].sess].coord = Second(h)]
             /\ sock' = [sock EXCEPT ![h].pc = "leaving", ![h].crd = Second(h)]
    <3>1. /\ sock'[h].pc = "leaving" /\ sock'[h].park = sock[h].park /\ sock'[h].sess = h
          /\ sock'[h].own = sock[h].own /\ sock'[h].crd = Second(h) /\ model' = model
      BY <1>1, <1>8, <2>1, Known DEF ResetRebuilds, Locals
    <3>2. /\ act'[h].made /\ act'[h].coord = Second(h) /\ act'[h].duplex = Second(h)
          /\ act'[h].attached = act[h].attached
      BY <1>1, <2>1, Known DEF Active
    <3>3. model[Second(h)] # "none" /\ Second(h) # NoModel
      BY <1>8, Known, Names DEF ResetRebuilds, ResetOf
    <3>4. MineOf(h)' /\ PartsOf(h)'
      BY <1>1, <1>3, <3>1, <3>2, <3>3, Known DEF MineOf, PartsOf, Is
    <3>5. \A n \in Models : n \notin {First(h), Second(h)} => jobs'[n] = jobs[n]
      BY <2>1, Known DEF Typed
    <3> QED  BY <1>1, <1>4, <3>1, <3>2, <3>4, <3>5
  <2>2. CASE Fails /\ Go(h, "leaving") /\ UNCHANGED <<jobs, act>>
    BY <1>8, <2>2, BuiltFails DEF ResetRebuilds
  <2> QED  BY <1>8, <2>1, <2>2 DEF ResetRebuilds, Second
<1> QED  BY <1>5, <1>6, <1>7, <1>8

\* The end of session s as far as others see it.
LEMMA SessionIsEnded ==
    ASSUME Setting, NEW s \in Sockets, NEW c \in Models \cup {NoModel},
           EndSession(s, c), act[s].made
    PROVE  /\ Unlisted(s)' /\ PartsOf(s)' /\ act'[s].made
           /\ \A j \in Sockets : j # s => act'[j] = act[j]
           /\ \A n \in Models : n # c => jobs'[n] = jobs[n]
<1>1. /\ act'[s].made /\ act'[s].coord = act[s].coord /\ act'[s].duplex = act[s].duplex
      /\ act'[s].attached = act[s].attached
      /\ \A j \in Sockets : j # s => act'[j] = act[j]
  BY Known DEF EndSession, Active
<1>2. Unlisted(s)'
  BY Known, Names DEF EndSession, Unlisted, Typed
<1>3. \A n \in Models : n # c => jobs'[n] = jobs[n]
  BY Known DEF EndSession, Typed
<1>4. PartsOf(s)'
  BY <1>1, PartsKeep
<1> QED  BY <1>1, <1>2, <1>3, <1>4

\* A handler ends its session, or fails to.
LEMMA DetachHolds == ASSUME Setting, NEW h \in Sockets, Detach(h) PROVE HeldInv'
<1>1. PICK t \in Sockets : t = sock[h].sess
  BY Base DEF Detach, Is, Setting
<1>2. /\ Is(h, "detaching") /\ timer[h].pc = "none" /\ sock[h].own # NoModel /\ act[t].made
      /\ UNCHANGED <<model, timer>> /\ t # NoSock
  BY <1>1, Known, Names DEF Detach, LocalsOf, Is, Early
<1>3. sock[h].crd \in {NoModel, First(t), Second(t)}
  BY <1>1, <1>2, Own
<1>4. CASE EndSession(sock[h].sess, sock[h].crd) /\ Go(h, AfterEnd(sock[h].crd))
  <2>1. /\ sock'[h].sess = t /\ sock'[h].own = sock[h].own /\ sock'[h].crd = sock[h].crd
        /\ sock'[h].pc \in {"stopping_jobs", "freeing"} /\ sock'[h].park = sock[h].park
        /\ \A j \in Sockets : j # h => sock'[j] = sock[j]
    BY <1>1, <1>4, Known DEF Go, Locals, AfterEnd
  <2>2. /\ Unlisted(t)' /\ PartsOf(t)' /\ act'[t].made
        /\ \A j \in Sockets : j # t => act'[j] = act[j]
        /\ \A n \in Models : n # sock[h].crd => jobs'[n] = jobs[n]
    BY <1>1, <1>2, <1>4, Known, SessionIsEnded
  <2>3. TornOf(h)'
    BY <1>2, <2>1, <2>2 DEF TornOf, Is, Tearing, Gone, Unlisted
  <2>4. MineOf(h)'
    BY <1>1, <1>2, <2>1, Known DEF MineOf, Is
  <2>5. ~Kept(t)'
    BY <2>2 DEF Kept, Gone
  <2>6. \A n \in Models : n \notin {First(t), Second(t)} => jobs'[n] = jobs[n]
    BY <1>3, <2>2, Names
  <2> QED  BY <1>2, <2>1, <2>2, <2>3, <2>4, <2>5, <2>6, TearsDown DEF Holding
<1>5. CASE Fails /\ Go(h, "freeing") /\ UNCHANGED <<table, act, jobs>>
  BY <1>2, <1>5, DetachFails DEF Detach
<1> QED  BY <1>4, <1>5 DEF Detach

\* A handler that tears down is in the session it ends, which nobody finds any more.
LEMMA Ending ==
    ASSUME Setting, NEW h \in Sockets, sock[h].pc \in Tearing
    PROVE  \E t \in Sockets :
             /\ t = sock[h].sess /\ timer[h].pc = "none" /\ sock[h].own # NoModel /\ act[t].made
             /\ sock[h].own \in {First(t), Second(t)}
             /\ sock[h].crd \in {NoModel, First(t), Second(t)}
             /\ Faultless => Unlisted(t)
             /\ ~Faultless => Rejoiners = {} /\ t = h
             /\ Rejoiners = {} /\ sock[h].park => Gone(t)
<1>1. PICK t \in Sockets : t = sock[h].sess
  BY Base DEF Setting, Tearing
<1>2. t # NoSock
  BY Names
<1>3. timer[h].pc = "none" /\ sock[h].own # NoModel /\ act[t].made
  BY <1>1, <1>2, Known DEF LocalsOf, Is, Early, Tearing
<1>4. /\ sock[h].own \in {First(t), Second(t)}
      /\ sock[h].crd \in {NoModel, First(t), Second(t)}
  BY <1>1, <1>3, Own
<1>5. /\ Faultless => Unlisted(t)
      /\ Rejoiners = {} /\ sock[h].park => Gone(t)
  BY <1>1, <1>2, <1>3, Known DEF TornOf, Tearing, Past
<1>6. ~Faultless => Rejoiners = {} /\ t = h
  BY <1>1, <1>2, Known DEF ResetOf, Setting, Untroubled
<1> QED  BY <1>1, <1>3, <1>4, <1>5, <1>6

\* A handler goes on tearing down.
LEMMA TearsOn ==
    ASSUME Setting, NEW h \in Sockets, sock[h].pc \in Tearing,
           NEW t \in Sockets, t = sock[h].sess, NEW p \in {"closing", "done"}, Go(h, p),
           UNCHANGED <<table, timer>>, \A j \in Sockets : j # t => act'[j] = act[j],
           \A n \in Models : n # sock[h].own => model'[n] = model[n],
           \A n \in Models : n # sock[h].crd => jobs'[n] = jobs[n],
           PartsOf(t)', act'[t].made = act[t].made, act'[t].stopped = act[t].stopped
    PROVE  HeldInv'
<1>1. /\ timer[h].pc = "none" /\ sock[h].own # NoModel /\ act[t].made
      /\ sock[h].own \in {First(t), Second(t)}
      /\ sock[h].crd \in {NoModel, First(t), Second(t)}
      /\ Faultless => Unlisted(t)
      /\ ~Faultless => Rejoiners = {} /\ t = h
      /\ Rejoiners = {} /\ sock[h].park => Gone(t)
  BY Ending
<1>2. /\ sock'[h].sess = t /\ sock'[h].own = sock[h].own /\ sock'[h].crd = sock[h].crd
      /\ sock'[h].pc = p /\ sock'[h].park = sock[h].park
      /\ \A j \in Sockets : j # h => sock'[j] = sock[j]
  BY <1>1, Known DEF Go, Locals
<1>3. (Unlisted(t)' <=> Unlisted(t)) /\ (Gone(t)' <=> Gone(t))
  BY <1>1 DEF Unlisted, Gone
<1>4. TornOf(h)'
  BY <1>1, <1>2, <1>3 DEF TornOf, Is, Tearing
<1>5. MineOf(h)'
  BY <1>1, <1>2, Known DEF MineOf, Is, Setting, Grows
<1>6. ~Kept(t)'
  BY <1>1, <1>2, <1>3 DEF Kept, Holding, Gone
<1>7. \A n \in Models : n \notin {First(t), Second(t)}
                        => model'[n] = model[n] /\ jobs'[n] = jobs[n]
  BY <1>1, Names
<1> QED  BY <1>1, <1>2, <1>4, <1>5, <1>6, <1>7, TearsDown DEF Holding

\* A handler closes its session's model.
LEMMA FreesHold == ASSUME Setting, NEW h \in Sockets, Frees(h) PROVE HeldInv'
<1>1. sock[h].pc \in Tearing /\ UNCHANGED <<table, timer>>
  BY DEF Frees, Tearing
<1>2. PICK p \in {"closing", "done"} : Go(h, p)
  BY DEF Frees, AfterFree
<1>3. PICK t \in Sockets : t = sock[h].sess
  BY <1>1, Ending
<1>4. act' = [act EXCEPT ![t].released = TRUE]
  BY <1>3 DEF Frees, FreeSlot
<1>5. /\ \A j \in Sockets : j # t => act'[j] = act[j]
      /\ act'[t].made = act[t].made /\ act'[t].stopped = act[t].stopped
      /\ act'[t].coord = act[t].coord /\ act'[t].duplex = act[t].duplex
      /\ act'[t].attached = act[t].attached /\ act'[t].ended = act[t].ended
  BY <1>4, Known DEF Active
<1>6. \A n \in Models : n # sock[h].own => model'[n] = model[n]
  BY Known, Closed DEF Frees, FreeSlot
<1>7. \A n \in Models : n # sock[h].crd => jobs'[n] = jobs[n]
  BY Known DEF Frees, JobsStopped, Typed
<1>8. PartsOf(t)'
  BY <1>5, PartsKeep
<1> QED  BY <1>1, <1>2, <1>3, <1>5, <1>6, <1>7, <1>8, TearsOn

\* A handler closes its session's coordinator.
LEMMA ClosesHold == ASSUME Setting, NEW h \in Sockets, Closes(h) PROVE HeldInv'
<1>1. sock[h].pc \in Tearing /\ UNCHANGED <<table, timer, act, model>> /\ Go(h, "done")
  BY DEF Closes, Tearing, Is
<1>2. PICK t \in Sockets : t = sock[h].sess
  BY <1>1, Ending
<1>3. \A n \in Models : n # sock[h].crd => jobs'[n] = jobs[n]
  BY Known DEF Closes, Typed
<1>4. PartsOf(t)'
  BY <1>1, PartsKeep
<1> QED  BY <1>1, <1>2, <1>3, <1>4, TearsOn

\* The model of an abandoned open belongs to no session.
LEMMA CloseOrphanHolds == ASSUME Setting, NEW h \in Sockets, CloseOrphan(h) PROVE HeldInv'
<1>1. h \in orphan /\ CloseModel(First(h)) /\ UNCHANGED <<table, act, jobs, sock, timer>>
  BY DEF CloseOrphan, First
<1>2. ~act[h].made
  BY <1>1, Known DEF LocalsOf
<1>3. \A n \in Models : n # First(h) => model'[n] = model[n]
  BY <1>1, Closed, Names
<1>4. TornOf(h)' /\ MineOf(h)'
  BY <1>1, OthersHold
<1>5. PartsOf(h)'
  BY <1>1, PartsKeep
<1>6. ~Kept(h)'
  BY <1>1, <1>2 DEF Kept
<1> QED  BY <1>1, <1>3, <1>4, <1>5, <1>6, TearsDown

\* A timer tears down a parked session which nobody finds any more.
LEMMA TimerTears ==
    ASSUME Setting, NEW h \in Sockets, NEW s \in Sockets, s = sock[h].sess, sock' = sock,
           timer[h].pc # "none", NEW p \in Tearing \cup {"done"}, Tick(h, p),
           \A j \in Sockets : j # s => act'[j] = act[j],
           \A n \in Models : n \notin {First(s), Second(s)}
                             => model'[n] = model[n] /\ jobs'[n] = jobs[n],
           PartsOf(s)', act'[s].made = act[s].made, Unlisted(s)'
    PROVE  HeldInv'
<1>1. /\ timer'[h].pc = p /\ \A j \in Sockets : j # h => timer'[j].pc = timer[j].pc
      /\ Is(h, "done") /\ p # "none"
  BY Known DEF Tick, TimerRec, LocalsOf, Tearing
<1>2. TornOf(h)'
  BY <1>1 DEF TornOf, Is, Tearing, Unlisted
<1>3. MineOf(h)'
  BY Known DEF MineOf, Is, Setting, Grows
<1>4. ~Kept(s)'
  BY DEF Kept, Gone
<1> QED  BY <1>1, <1>2, <1>3, <1>4, TearsDown

\* Timers wait, end a session and tear it down.
LEMMA TimersHold ==
    ASSUME Setting, NEW h \in Sockets, Ticks(h) PROVE HeldInv'
<1>1. timer[h].pc # "none" /\ UNCHANGED sock
  BY DEF Ticks, TimerDetached, TimerWakes, TimerExpires, TimerFrees, TimerCloses
<1>2. PICK s \in Sockets : s = sock[h].sess
  BY <1>1, Base DEF Setting
<1>3. /\ act[s].made /\ Held(h) = s /\ act[s].coord \in Models \cup {NoModel}
      /\ act[s].duplex \in Models \cup {NoModel}
      /\ act[s].coord \in {NoModel, First(s), Second(s)}
      /\ act[s].duplex \in {NoModel, First(s), Second(s)}
  <2>1. s # NoSock /\ LocalsOf(h) /\ PartsOf(s) /\ act \in [Sockets -> Active]
    BY Names, Known
  <2> QED  BY <1>2, <2>1 DEF LocalsOf, PartsOf, Held, Active
<1>4. CASE TimerDetached(h) \/ TimerWakes(h)
  <2>1. /\ SameParts /\ UNCHANGED <<model, jobs, table, act>>
        /\ \A j \in Sockets : j # h => timer'[j].pc = timer[j].pc
        /\ timer'[h].pc \in {"waiting", "due", "done"}
    BY <1>4, Known DEF TimerDetached, TimerWakes, Tick, TimerRec, SameParts
  <2> QED  BY <1>1, <2>1, WaitsHold
<1>5. CASE TimerExpires(h)
  <2>1. CASE Tick(h, "done") /\ UNCHANGED <<table, act, jobs>>
    <3>1. /\ SameParts /\ UNCHANGED <<model, jobs, table, act>>
          /\ \A j \in Sockets : j # h => timer'[j].pc = timer[j].pc
          /\ timer'[h].pc \in {"waiting", "due", "done"}
      BY <1>5, <2>1, Known DEF TimerExpires, Tick, TimerRec, SameParts
    <3> QED  BY <1>1, <3>1, WaitsHold
  <2>2. CASE EndSession(s, act[s].coord) /\ Tick(h, AfterEnd(act[s].coord))
    <3>1. PICK p \in Tearing : Tick(h, p)
      BY <2>2 DEF AfterEnd, Tearing
    <3>2. /\ Unlisted(s)' /\ PartsOf(s)' /\ act'[s].made
          /\ \A j \in Sockets : j # s => act'[j] = act[j]
          /\ \A n \in Models : n # act[s].coord => jobs'[n] = jobs[n]
      BY <1>3, <2>2, SessionIsEnded
    <3>3. model' = model
      BY <1>5 DEF TimerExpires
    <3>4. \A n \in Models : n \notin {First(s), Second(s)}
                            => model'[n] = model[n] /\ jobs'[n] = jobs[n]
      BY <1>3, <3>2, <3>3, Names
    <3>5. act'[s].made = act[s].made
      BY <2>2, Known DEF EndSession, Active
    <3> QED  BY <1>1, <1>2, <3>1, <3>2, <3>4, <3>5, TimerTears
  <2> QED  BY <1>3, <1>5, <2>1, <2>2 DEF TimerExpires
<1>6. CASE TimerFrees(h) \/ TimerCloses(h)
  <2>1. Unlisted(s)' /\ timer[h].pc \in Tearing
    BY <1>2, <1>6, Known DEF TimerFrees, TimerCloses, TornOf, Tearing, Unlisted
  <2>2. PICK p \in Tearing \cup {"done"} : Tick(h, p)
    BY <1>6 DEF TimerFrees, TimerCloses, AfterFree, Tearing
  <2>3. act' = act \/ act' = [act EXCEPT ![s].released = TRUE]
    BY <1>3, <1>6 DEF TimerFrees, TimerCloses, FreeSlot
  <2>4. /\ \A j \in Sockets : j # s => act'[j] = act[j]
        /\ act'[s].made = act[s].made /\ act'[s].coord = act[s].coord
        /\ act'[s].duplex = act[s].duplex /\ act'[s].attached = act[s].attached
        /\ act'[s].ended = act[s].ended
    BY <2>3, Known DEF Active
  <2>5. \A n \in Models : n # act[s].duplex => model'[n] = model[n]
    BY <1>3, <1>6, Closed DEF TimerFrees, TimerCloses, FreeSlot
  <2>6. \A n \in Models : n # act[s].coord => jobs'[n] = jobs[n]
    BY <1>3, <1>6, Known DEF TimerFrees, TimerCloses, JobsStopped, Typed
  <2>7. \A n \in Models : n \notin {First(s), Second(s)}
                          => model'[n] = model[n] /\ jobs'[n] = jobs[n]
    BY <1>3, <2>5, <2>6, Names
  <2>8. PartsOf(s)'
    BY <2>4, PartsKeep
  <2> QED  BY <1>1, <1>2, <2>1, <2>2, <2>4, <2>7, <2>8, TimerTears
<1> QED  BY <1>4, <1>5, <1>6 DEF Ticks

\* The screen channel touches no session.
LEMMA ScreensHold == ASSUME Setting, NEW h \in Sockets, Screens(h) PROVE HeldInv'
<1>1. /\ UNCHANGED <<sock, timer, model, jobs, table, act>> /\ SameParts
  BY DEF Screens, ScreenOpens, ScreenSeesEnd, ScreenLeaves, SameParts
<1> QED  BY <1>1, WaitsHold

\* Every step keeps the invariant, beside the one of the slot.
LEMMA HeldNext ==
    ASSUME Untroubled
    PROVE  SlotInv /\ SlotInv' /\ HeldInv /\ [DxNext]_dxVars => HeldInv'
<1> SUFFICES ASSUME SlotInv, SlotInv', HeldInv, [DxNext]_dxVars PROVE HeldInv'
  OBVIOUS
<1>1. CASE DxNext
  <2>1. Setting
    BY <1>1, Growth DEF Setting
  <2>2. ASSUME NEW h \in Sockets, Handles(h) PROVE HeldInv'
    BY <2>1, <2>2, AttachHolds, TakeOpenHolds, WalksHold, BuiltHolds, StopEndsHolds, ResetsHold,
       LeaveHolds, DetachHolds, FreesHold, ClosesHold DEF Handles
  <2>3. ASSUME NEW h \in Sockets, Client(h) PROVE HeldInv'
    BY <2>1, <2>3, ConnectsHold, ConnectFreshHolds, WalksHold, DropsHold, StopHolds, ResetsHold
    DEF Client
  <2> QED  BY <1>1, <2>1, <2>2, <2>3, TimersHold, CloseOrphanHolds, ScreensHold, OpenedHolds
           DEF DxNext
<1>2. CASE UNCHANGED dxVars
  BY <1>2 DEF dxVars, HeldInv, TornOf, MineOf, PartsOf, WholeOf, Kept, Whole, Gone, Unlisted, Is
<1> QED  BY <1>1, <1>2

\* Whoever ends a session makes sure that nobody finds it, and what can be found is whole,
\* as long as nothing fails and nobody resets where clients come back.
THEOREM HeldInvariance == ASSUME Untroubled PROVE DxSpec => []HeldInv
<1>1. SlotInv /\ SlotInv' /\ HeldInv /\ [DxNext]_dxVars => HeldInv'
  BY HeldNext
<1>2. DxSpec => []SlotInv
  BY SlotInvariance DEF Untroubled, Faultless, Apart
<1> QED  BY <1>1, <1>2, HeldInit, PTL DEF DxSpec

\* A session held for its client is whole: its model is open, its coordinator at work, its
\* slot not given away (expire_reconnect_grace).
THEOREM HeldIsWholeAlways == ASSUME Untroubled PROVE DxSpec => []HeldIsWhole
<1>1. SlotInv /\ HeldInv => HeldIsWhole
  <2> SUFFICES ASSUME SlotInv, HeldInv, NEW s \in Sockets,
                      act[s].made, ~act[s].attached, ~act[s].stopped, table[IdOf[s]] = s
               PROVE  Whole(s)
    BY DEF HeldIsWhole, Whole
  <2>1. PartsOf(s) /\ WholeOf(s) /\ LocalsOf(s)
    BY DEF HeldInv, SlotInv
  <2>2. Faultless \/ sock[s].park
    BY <2>1 DEF PartsOf, LocalsOf, Untroubled
  <2> QED  BY <2>1, <2>2 DEF WholeOf, Kept, Gone, Unlisted
<1>2. DxSpec => []SlotInv
  BY SlotInvariance DEF Untroubled, Faultless, Apart
<1>3. DxSpec => []HeldInv
  BY HeldInvariance
<1> QED  BY <1>1, <1>2, <1>3, PTL
=============================================================================
