------------------------------ MODULE AuthState ------------------------------
(***************************************************************************)
(* The Baileys credentials and keys of one chip: a copy in the memory of    *)
(* the worker, written back to WhatsappNumber.authState by a writer that    *)
(* coalesces.  Every call of usePostgresAuthState() makes an instance, with *)
(* a memory and a writer of its own; a session loads one, reuses it when it *)
(* reconnects, and drops it when it stops or is logged out.  Nothing takes  *)
(* an instance away from the socket that was given it.                      *)
(*                                                                          *)
(* A state of the credentials is the login it belongs to and the updates it *)
(* carries.  A failed write has taken effect by then or never will.         *)
(***************************************************************************)
EXTENDS Integers, FiniteSets

CONSTANTS MaxInst, MaxSets, MaxLate, MaxCross, MaxFaults  \* bounds

ASSUME BoundsAssumption ==
  MaxInst \in Nat /\ MaxSets \in Nat /\ MaxLate \in Nat /\ MaxCross \in Nat /\ MaxFaults \in Nat

Insts == 1..MaxInst
Updates == 1..MaxSets

Auth == [login : 0..MaxInst, upd : SUBSET Updates]
NoAuth == [login |-> 0, upd |-> {}]   \* Prisma.DbNull

VARIABLES
  db,                       \* WhatsappNumber.authState
  made, dead,               \* instances made; those of a crashed process
  mem, dirty, writing,      \* per instance: memory, dirty, writing # null
  flights,                  \* row updates sent and not answered
  pc, cur, stopWait,        \* the session, its auth (0: undefined), what stop() awaits
  wipe, wipeOf, wipeWait,   \* wipeAuth(): its step, its instance, what it awaits
  sets, lates, crosses, faults,  \* budgets
  written, failed, wiped    \* history: last state landed, last run failed, logins wiped

instVars    == <<made, dead, mem, dirty, writing, flights, written, failed>>
sessionVars == <<pc, cur, stopWait>>
wipeVars    == <<wipe, wipeOf, wipeWait>>
budgetVars  == <<sets, lates, crosses, faults>>
vars == <<db, instVars, sessionVars, wipeVars, budgetVars, wiped>>

Flight == [inst : Insts, snap : Auth, landed : BOOLEAN]

InstOK == /\ made \in 0..MaxInst /\ dead \subseteq 1..made
          /\ mem \in [Insts -> Auth]
          /\ \A i \in 1..made : mem[i].login # 0
          /\ dirty \in [Insts -> BOOLEAN] /\ writing \in [Insts -> BOOLEAN]
          /\ flights \subseteq Flight
          /\ written \in [Insts -> SUBSET Updates] /\ failed \in [Insts -> BOOLEAN]

SessionOK == /\ pc \in {"off", "up", "out", "stopping"}
             /\ cur \in (0..made) \ dead /\ stopWait \in 0..made
             /\ wipe \in {"none", "flush", "clear"}
             /\ wipeOf \in 0..made /\ wipeWait \in 0..made
             /\ (pc = "up" => cur # 0)
             /\ (wipe # "none" => wipeOf # 0 /\ (pc = "up" => cur # wipeOf))

BudgetsOK == sets \in 0..MaxSets /\ lates \in Nat /\ crosses \in Nat /\ faults \in Nat

TypeOK == db \in Auth /\ InstOK /\ SessionOK /\ BudgetsOK /\ wiped \subseteq Insts

-----------------------------------------------------------------------------
Init ==
  /\ db = NoAuth
  /\ made = 0 /\ dead = {}
  /\ mem = [i \in Insts |-> NoAuth]
  /\ dirty = [i \in Insts |-> FALSE] /\ writing = [i \in Insts |-> FALSE]
  /\ flights = {}
  /\ pc = "off" /\ cur = 0 /\ stopWait = 0
  /\ wipe = "none" /\ wipeOf = 0 /\ wipeWait = 0
  /\ sets = 0 /\ lates = 0 /\ crosses = 0 /\ faults = 0
  /\ written = [i \in Insts |-> {}] /\ failed = [i \in Insts |-> FALSE]
  /\ wiped = {}

-----------------------------------------------------------------------------
(* The writer of an instance.                                                *)

FlightOf(i, m) == [inst |-> i, snap |-> m, landed |-> FALSE]

\* The run of writes of i ends: writing = null, and who awaits flush() goes on.
EndRun(i) ==
  /\ writing' = [writing EXCEPT ![i] = FALSE]
  /\ stopWait' = IF stopWait = i THEN 0 ELSE stopWait
  /\ wipeWait' = IF wipeWait = i THEN 0 ELSE wipeWait
  /\ UNCHANGED <<pc, cur, wipe, wipeOf>>

\* [mutant] persist() starts a run of writes of its own every time
PersistAlways(i, m) ==
  /\ mem' = [mem EXCEPT ![i] = m]
  /\ writing' = [writing EXCEPT ![i] = TRUE]
  /\ flights' = flights \cup {FlightOf(i, m)}
  /\ failed' = [failed EXCEPT ![i] = FALSE]
  /\ dirty' = [dirty EXCEPT ![i] = FALSE]

\* The memory of i becomes m and persist() is called, in one turn of the event loop:
\* a run of writes under way will see dirty, otherwise one starts with its first write.
Persist(i, m) ==
  /\ mem' = [mem EXCEPT ![i] = m]
  /\ dirty' = [dirty EXCEPT ![i] = writing[i]]
  /\ \/ writing[i] /\ UNCHANGED <<writing, flights, failed>>
     \/ /\ ~writing[i]
        /\ writing' = [writing EXCEPT ![i] = TRUE]
        /\ flights' = flights \cup {FlightOf(i, m)}
        /\ failed' = [failed EXCEPT ![i] = FALSE]

Updated(i) == [mem[i] EXCEPT !.upd = @ \cup {sets + 1}]

NewUpdate(i) ==
  /\ sets < MaxSets /\ sets' = sets + 1
  /\ Persist(i, Updated(i))
  /\ UNCHANGED <<db, made, dead, written, sessionVars, wipeVars, crosses, faults, wiped>>

\* keys.set, keys.clear or creds.update from the socket of the session.
Set == pc = "up" /\ NewUpdate(cur) /\ UNCHANGED lates

\* keys.set from a socket already ended or logged out: it was given the keys of i, and
\* what it had in progress still ends there.
LateSet(i) ==
  /\ i \in 1..made \ dead
  /\ ~(pc = "up" /\ cur = i)
  /\ lates < MaxLate /\ lates' = lates + 1
  /\ NewUpdate(i)

\* A row update takes effect.
Land(f) ==
  /\ ~f.landed
  /\ db' = f.snap
  /\ flights' = (flights \ {f}) \cup {[f EXCEPT !.landed = TRUE]}
  /\ written' = [written EXCEPT ![f.inst] = f.snap.upd]
  /\ UNCHANGED <<made, dead, mem, dirty, writing, failed, sessionVars, wipeVars>>
  /\ UNCHANGED <<budgetVars, wiped>>

\* [mutant] an if where the code has a while
AnswerOnce(f) ==
  /\ f.landed
  /\ flights' = flights \ {f}
  /\ EndRun(f.inst)
  /\ UNCHANGED <<db, made, dead, mem, dirty, written, failed, budgetVars, wiped>>

\* The await of a row update returns: another write while dirty, or the run ends.
Answer(f) ==
  /\ f.landed
  /\ \/ /\ dirty[f.inst]
        /\ dirty' = [dirty EXCEPT ![f.inst] = FALSE]
        /\ flights' = (flights \ {f}) \cup {FlightOf(f.inst, mem[f.inst])}
        /\ UNCHANGED <<writing, sessionVars, wipeVars>>
     \/ /\ ~dirty[f.inst]
        /\ flights' = flights \ {f}
        /\ EndRun(f.inst) /\ UNCHANGED dirty
  /\ UNCHANGED <<db, made, dead, mem, written, failed, budgetVars, wiped>>

Fault == faults < MaxFaults /\ faults' = faults + 1 /\ UNCHANGED <<sets, lates, crosses>>

\* The await of a row update throws, whether or not the row was written.
Fail(f) ==
  /\ Fault
  /\ flights' = flights \ {f}
  /\ dirty' = [dirty EXCEPT ![f.inst] = TRUE]
  /\ failed' = [failed EXCEPT ![f.inst] = TRUE]
  /\ EndRun(f.inst)
  /\ UNCHANGED <<db, made, dead, mem, written, wiped>>

-----------------------------------------------------------------------------
(* The session.                                                              *)

\* loadMemory: a null row makes new credentials.
Loaded == IF db.login = 0 THEN [login |-> made + 1, upd |-> {}] ELSE db

\* A new session starts and loads an instance.
Load ==
  /\ pc = "off" /\ made < MaxInst
  /\ made' = made + 1
  /\ mem' = [mem EXCEPT ![made + 1] = Loaded]
  /\ written' = [written EXCEPT ![made + 1] = Loaded.upd]
  /\ pc' = "up" /\ cur' = made + 1
  /\ UNCHANGED <<db, dead, dirty, writing, flights, failed, stopWait, wipeVars>>
  /\ UNCHANGED <<budgetVars, wiped>>

\* [mutant] nobody waits for the write in flight
NoFlush(i) == IF i > made THEN i ELSE 0

\* flush(): the instance whose run of writes is to be awaited, 0 for none.
Flushing(i) == IF i # 0 /\ writing[i] THEN i ELSE 0

\* stop(): tear the socket down, then await flush().
Stop ==
  /\ pc \in {"up", "out"}
  /\ \/ wipe = "none" /\ UNCHANGED crosses
     \/ wipe # "none" /\ crosses < MaxCross /\ crosses' = crosses + 1
  /\ pc' = "stopping" /\ stopWait' = Flushing(cur)
  /\ UNCHANGED <<db, instVars, cur, wipeVars, sets, lates, faults, wiped>>

StopDone ==
  /\ pc = "stopping" /\ stopWait = 0
  /\ pc' = "off" /\ cur' = 0
  /\ UNCHANGED <<db, instVars, stopWait, wipeVars, budgetVars, wiped>>

\* connection.update closes with loggedOut: wipeAuth() awaits flush().
LoggedOut ==
  /\ pc = "up" /\ wipe = "none"
  /\ pc' = "out"
  /\ wipe' = "flush" /\ wipeOf' = cur /\ wipeWait' = Flushing(cur)
  /\ UNCHANGED <<db, instVars, cur, stopWait, budgetVars, wiped>>

\* auth = undefined, and the row is about to be set to null.
WipeSend ==
  /\ wipe = "flush" /\ wipeWait = 0
  /\ wipe' = "clear"
  /\ cur' = IF cur = wipeOf THEN 0 ELSE cur
  /\ UNCHANGED <<db, instVars, pc, stopWait, wipeOf, wipeWait, budgetVars, wiped>>

Clear == db' = NoAuth /\ wiped' = wiped \cup {mem[wipeOf].login}

WipeLand ==
  /\ wipe = "clear"
  /\ Clear
  /\ wipe' = "none"
  /\ UNCHANGED <<instVars, sessionVars, wipeOf, wipeWait, budgetVars>>

\* The error is logged and nothing more; the row may have been cleared.
WipeFail ==
  /\ wipe = "clear" /\ Fault
  /\ Clear \/ UNCHANGED <<db, wiped>>
  /\ wipe' = "none"
  /\ UNCHANGED <<instVars, sessionVars, wipeOf, wipeWait>>

\* The worker process ends; a write on the wire may still take effect.
Crash ==
  /\ made > 0 /\ Fault
  /\ \/ UNCHANGED <<db, wiped>>
     \/ (\E f \in flights : ~f.landed /\ db' = f.snap) /\ UNCHANGED wiped
     \/ wipe = "clear" /\ Clear
  /\ dead' = 1..made /\ flights' = {}
  /\ dirty' = [i \in Insts |-> FALSE] /\ writing' = [i \in Insts |-> FALSE]
  /\ pc' = "off" /\ cur' = 0 /\ stopWait' = 0
  /\ wipe' = "none" /\ wipeWait' = 0
  /\ UNCHANGED <<made, mem, written, failed, wipeOf>>

-----------------------------------------------------------------------------
WriteStep(i) == \E f \in flights : f.inst = i /\ (Land(f) \/ Answer(f))

Next ==
  \/ Set \/ \E i \in Insts : LateSet(i)
  \/ \E i \in Insts : WriteStep(i)
  \/ \E f \in flights : Fail(f)
  \/ Load \/ Stop \/ StopDone
  \/ LoggedOut \/ WipeSend \/ WipeLand \/ WipeFail
  \/ Crash

Spec == Init /\ [][Next]_vars

\* Postgres answers, and the awaits of the session go on.
Fairness ==
  /\ \A i \in Insts : WF_vars(WriteStep(i))
  /\ WF_vars(StopDone) /\ WF_vars(WipeSend) /\ WF_vars(WipeLand)

FairSpec == Spec /\ Fairness

-----------------------------------------------------------------------------
(* Safety.                                                                   *)

\* No update is dropped by the coalescing: an instance with no run of writes under way,
\* whose last run did not fail, has written everything it was given, however the
\* updates fell around the awaits (postgres-auth-state.ts:28-29, 52-80).
SettledIsStored ==
  \A i \in 1..made \ dead :
     ~writing[i] /\ ~failed[i] => written[i] = mem[i].upd

\* The row has one writer at a time: no socket that ended has written, and no session was
\* stopped in the middle of a wipe.
Sole == lates = 0 /\ crosses = 0

\* A session that stops leaves everything it had in the row, unless a write failed and
\* nothing came after it: the next session loads it (baileys-session.ts:314-323).
StopKeeps ==
  [][Sole /\ pc = "stopping" /\ pc' = "off" /\ cur # 0 /\ ~failed[cur] /\ dead' = dead
       => mem[cur].upd \subseteq db.upd]_vars

\* The login a wipe removed from the row is not written back by a write that was in
\* flight (baileys-session.ts:224-241).
WipedStays == Sole => db.login \notin wiped

-----------------------------------------------------------------------------
(* The abstract view: the memory is that of the session, or what the next    *)
(* one will load.  It promises nothing after the first write of a socket     *)
(* that ended: that step is a wipe.                                          *)

Memory == IF cur = 0 THEN db.upd ELSE mem[cur].upd
MemoryView == IF Sole THEN Memory ELSE {}
StoredView == IF Sole THEN db.upd ELSE {}
Abstract == INSTANCE WriteBehind WITH memory <- MemoryView, stored <- StoredView

\* The auth state implements WriteBehind (postgres-auth-state.ts:18-37).
Refines == Abstract!Spec

-----------------------------------------------------------------------------
\* Liveness: whatever a session is given is written in the end, unless a write fails and
\* no later one repeats it, or the process dies (postgres-auth-state.ts:45-48).
Stored ==
  \A i \in Insts, u \in Updates :
     u \in mem[i].upd ~> u \in written[i] \/ failed[i] \/ i \in dead
=============================================================================
