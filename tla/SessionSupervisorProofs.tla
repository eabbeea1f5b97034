------------------------ MODULE SessionSupervisorProofs ------------------------
(***************************************************************************)
(* Theorems about SessionSupervisor, for any handlers, commands and bounds. *)
(***************************************************************************)
EXTENDS SessionSupervisor, TLAPS

-----------------------------------------------------------------------------
(* Types.                                                                    *)

LEMMA NoJobIsNone == NoJob \notin Job
BY BoundsAssumption DEF NoJob, Job

LEMMA TypeInit == Init => TypeOK
<1> SUFFICES ASSUME Init PROVE TypeOK
  OBVIOUS
<1> USE BoundsAssumption DEF Init
<1>1. RowOK
  BY DEF RowOK, ChipStatus
<1>2. JobsOK
  BY DEF JobsOK
<1>3. ProcsOK
  <2>1. pc \in [Procs -> PC] /\ up \in BOOLEAN
    BY DEF PC
  <2>2. job \in [Procs -> Job \cup {NoJob}] /\ own \in [Procs -> 0..made]
    OBVIOUS
  <2> QED
    BY <2>1, <2>2 DEF ProcsOK, Procs
<1>4. SessionsOK
  BY DEF SessionsOK
<1>5. PastOK
  BY DEF PastOK
<1> QED
  BY <1>1, <1>2, <1>3, <1>4, <1>5 DEF TypeOK

\* A handler that is done with its job.
LEMMA DoneType ==
  ASSUME ProcsOK, SessionsOK, NEW p \in Procs, Done(p), made' = made PROVE ProcsOK'
<1> USE DEF ProcsOK, Done, Goto
<1>1. up' \in BOOLEAN /\ pc' \in [Procs -> PC]
  BY DEF PC
<1>2. job' \in [Procs -> Job \cup {NoJob}] /\ own' \in [Procs -> 0..made']
  BY BoundsAssumption DEF SessionsOK
<1>3. \A q \in Procs : pc'[q] \in {"starting", "stopping"} => own'[q] # 0
  OBVIOUS
<1>4. \A q \in Handlers : pc'[q] = "look" => job'[q] \in Job
  BY DEF Procs
<1> QED
  BY <1>1, <1>2, <1>3, <1>4

\* The session a delete takes from the map is a session.
LEMMA DeleteType ==
  ASSUME SessionsOK, PastOK, NEW p \in Procs, Delete(p) PROVE crossed' \subseteq Sessions
<1>1. map \in Sessions \/ map = 0
  BY BoundsAssumption DEF SessionsOK, Sessions
<1> QED
  BY <1>1 DEF Delete, PastOK

\* A handler that goes on to a step where it needs no session of its own.
LEMMA GotoType ==
  ASSUME ProcsOK, NEW p \in Procs, NEW step \in {"idle", "listed", "found"},
         Goto(p, step), UNCHANGED <<job, own, made>>
  PROVE  ProcsOK'
BY DEF ProcsOK, Goto, PC

LEMMA StartProcs ==
  ASSUME TypeOK, NEW p \in Procs, NEW c \in queue, map = 0, TakeStart(p, c) PROVE ProcsOK'
<1> USE DEF TakeStart, Take, Goto, TypeOK, ProcsOK, JobsOK, SessionsOK, mapVars
<1>1. up' \in BOOLEAN /\ pc' \in [Procs -> PC]
  BY DEF PC
<1>2. job' \in [Procs -> Job \cup {NoJob}] /\ own' \in [Procs -> 0..made']
  OBVIOUS
<1>3. \A q \in Procs : pc'[q] \in {"starting", "stopping"} => own'[q] # 0
  OBVIOUS
<1>4. \A q \in Handlers : pc'[q] = "look" => job'[q] \in Job
  BY DEF Procs
<1> QED
  BY <1>1, <1>2, <1>3, <1>4

LEMMA StopProcs ==
  ASSUME TypeOK, NEW p \in Procs, NEW c \in queue, TakeStop(p, c) PROVE ProcsOK'
<1> USE DEF TakeStop, Take, Goto, TypeOK, ProcsOK, JobsOK, SessionsOK, mapVars
<1>1. CASE map = 0
  BY <1>1 DEF procVars
<1>2. CASE map # 0
  <2>1. up' \in BOOLEAN /\ pc' \in [Procs -> PC]
    BY <1>2 DEF PC
  <2>2. job' \in [Procs -> Job \cup {NoJob}]
    <3>1. c \in Job
      OBVIOUS
    <3> QED
      BY <1>2, <3>1
  <2>5. own' \in [Procs -> 0..made']
    BY <1>2
  <2>3. \A q \in Procs : pc'[q] \in {"starting", "stopping"} => own'[q] # 0
    BY <1>2
  <2>4. \A q \in Handlers : pc'[q] = "look" => job'[q] \in Job
    BY <1>2 DEF Procs
  <2> QED
    BY <2>1, <2>2, <2>3, <2>4, <2>5
<1> QED
  BY <1>1, <1>2

LEMMA CrashProcs == ASSUME TypeOK, Crash PROVE ProcsOK'
<1> USE DEF Crash, TypeOK, ProcsOK
<1>1. up' \in BOOLEAN /\ pc' \in [Procs -> PC]
  BY DEF PC
<1>2. job' \in [Procs -> Job \cup {NoJob}] /\ own' \in [Procs -> 0..made']
  BY BoundsAssumption DEF SessionsOK
<1>3. \A q \in Procs : pc'[q] = "idle"
  OBVIOUS
<1> QED
  BY <1>1, <1>2, <1>3 DEF Procs

\* The core, which touches the row and the commands only.
LEMMA TypeCore ==
  ASSUME TypeOK, (\E type \in Commands : Issue(type)) \/ \E c \in adding : Add(c)
  PROVE  TypeOK'
<1> USE BoundsAssumption DEF TypeOK, ProcsOK, SessionsOK, PastOK, procVars, mapVars, sessVars, budgetVars, pastVars
<1>1. ASSUME NEW type \in Commands, Issue(type) PROVE TypeOK'
  <2> USE <1>1 DEF Issue
  <2>1. RowOK'
    BY DEF RowOK, ChipStatus
  <2>2. [id |-> issued + 1, type |-> type] \in Job /\ issued' \in 0..MaxCmds
    BY DEF Job, JobsOK
  <2>3. JobsOK'
    BY <2>2 DEF JobsOK
  <2> QED
    BY <2>1, <2>3
<1>2. ASSUME NEW c \in adding, Add(c) PROVE TypeOK'
  BY <1>2 DEF Add, RowOK, JobsOK, rowVars
<1> QED
  BY <1>1, <1>2

\* The handlers and the recovery.
LEMMA TypeHandle ==
  ASSUME TypeOK, NEW p \in Procs, Handle(p) \/ StartFails(p) \/ LookFails(p)
  PROVE  TypeOK'
<1> USE BoundsAssumption, NoJobIsNone
    DEF TypeOK, RowOK, JobsOK, ProcsOK, SessionsOK, PastOK, rowVars, jobVars, procVars, mapVars,
        sessVars, budgetVars, pastVars, PC, Goto, Done, Procs, Sessions
<1>1. ASSUME NEW c \in queue, TakeStart(p, c) PROVE TypeOK'
  <2>1. CASE map = 0
    <3>1. ProcsOK'
      BY <1>1, <2>1, StartProcs
    <3> QED
      BY <1>1, <2>1, <3>1 DEF TakeStart, Take
  <2>2. CASE map # 0
    BY <1>1, <2>2 DEF TakeStart, Take
  <2> QED
    BY <2>1, <2>2
<1>2. ASSUME NEW c \in queue, TakeStop(p, c) PROVE TypeOK'
  <2>1. JobsOK' /\ RowOK'
    BY <1>2 DEF TakeStop, Take
  <2>2. ProcsOK'
    BY <1>2, StopProcs
  <2>3. SessionsOK'
    BY <1>2 DEF TakeStop, Take
  <2>4. PastOK'
    <3>1. map \in Sessions \/ map = 0
      OBVIOUS
    <3>2. crossed' \subseteq Sessions /\ late' \subseteq Procs
      BY <1>2, <3>1 DEF TakeStop
    <3> QED
      BY <1>2, <3>2 DEF TakeStop
  <2> QED
    BY <2>1, <2>2, <2>3, <2>4
<1>3. CASE Look(p)
  <2>1. ProcsOK'
    BY <1>3, DoneType, GotoType DEF Look
  <2> QED
    BY <1>3, <2>1 DEF Look
<1>4. CASE Found(p)
  BY <1>4 DEF Found
<1>5. CASE Started(p)
  BY <1>5 DEF Started
<1>6. CASE Stopped(p)
  <2>1. ProcsOK'
    BY <1>6, DoneType DEF Stopped, Delete
  <2>2. PastOK'
    BY <1>6, DeleteType DEF Stopped
  <2>3. SessionsOK'
    BY <1>6 DEF Stopped, Delete
  <2> QED
    BY <1>6, <2>1, <2>2, <2>3 DEF Stopped
<1>7. CASE StartFails(p)
  <2>1. ProcsOK'
    BY <1>7, DoneType DEF StartFails, Delete
  <2>2. PastOK'
    BY <1>7, DeleteType DEF StartFails, Fault
  <2>3. SessionsOK'
    BY <1>7 DEF StartFails, Delete
  <2> QED
    BY <1>7, <2>1, <2>2, <2>3 DEF StartFails
<1>8. CASE LookFails(p)
  BY <1>8 DEF LookFails, Fault
<1> QED
  BY <1>1, <1>2, <1>3, <1>4, <1>5, <1>6, <1>7, <1>8 DEF Handle

LEMMA TypeWorld ==
  ASSUME TypeOK,
         \/ Recover \/ Crash \/ Boot
         \/ \E s \in Sessions : Open(s) \/ Close(s) \/ LogOut(s) \/ Reconnect(s) \/ ReconnectFails(s)
  PROVE  TypeOK'
<1> USE BoundsAssumption, NoJobIsNone
    DEF TypeOK, RowOK, JobsOK, ProcsOK, SessionsOK, PastOK, rowVars, jobVars, procVars, mapVars,
        sessVars, budgetVars, pastVars, PC, Goto, Procs, ChipStatus
<1>1. CASE Recover
  <2>1. ProcsOK'
    BY <1>1, HandlersAssumption DEF Recover, RecoverList, RecoverTurn
  <2> QED
    BY <1>1, <2>1 DEF Recover, RecoverList, RecoverTurn
<1>2. CASE Boot
  BY <1>2 DEF Boot
<1>3. CASE Crash
  <2>1. JobsOK' /\ RowOK'
    BY <1>3 DEF Crash
  <2>2. ProcsOK'
    BY <1>3, CrashProcs
  <2>3. SessionsOK'
    BY <1>3 DEF Crash
  <2>4. PastOK'
    BY <1>3 DEF Crash, Fault, Sessions
  <2> QED
    BY <2>1, <2>2, <2>3, <2>4
<1>4. ASSUME NEW s \in Sessions, Open(s) PROVE TypeOK'
  BY <1>4 DEF Open
<1>5. ASSUME NEW s \in Sessions, Close(s) PROVE TypeOK'
  BY <1>5 DEF Close, CloseEvent
<1>6. ASSUME NEW s \in Sessions, LogOut(s) PROVE TypeOK'
  <2>1. SessionsOK' /\ PastOK'
    BY <1>6 DEF LogOut, CloseEvent
  <2>2. RowOK' /\ JobsOK' /\ ProcsOK'
    BY <1>6 DEF LogOut, CloseEvent
  <2> QED
    BY <2>1, <2>2
<1>7. ASSUME NEW s \in Sessions, Reconnect(s) PROVE TypeOK'
  BY <1>7 DEF Reconnect, ReconnectBegin, ReconnectEnd
<1>8. ASSUME NEW s \in Sessions, ReconnectFails(s) PROVE TypeOK'
  BY <1>8 DEF ReconnectFails, Fault
<1> QED
  BY <1>1, <1>2, <1>3, <1>4, <1>5, <1>6, <1>7, <1>8

LEMMA TypeStep == TypeOK /\ [Next]_vars => TypeOK'
<1> SUFFICES ASSUME TypeOK, [Next]_vars PROVE TypeOK'
  OBVIOUS
<1>1. CASE UNCHANGED vars
  BY <1>1 DEF vars, TypeOK, RowOK, JobsOK, ProcsOK, SessionsOK, PastOK, rowVars, jobVars, procVars,
     mapVars, sessVars, budgetVars, pastVars
<1>2. CASE Next
  BY <1>2, TypeCore, TypeHandle, TypeWorld DEF Next
<1> QED
  BY <1>1, <1>2

\* Every variable keeps its type, whatever commands, closes, faults and crashes there
\* are (supervisor.ts:82-176, baileys-session.ts:71-323).
THEOREM TypeCorrect == Spec => []TypeOK
<1> QED
  BY TypeInit, TypeStep, PTL DEF Spec

-----------------------------------------------------------------------------
(* No orphan but by a crossing.  That the session of the map is the only one *)
(* alive is not inductive: what a start() and a stop() in progress leave     *)
(* behind when they end is to be known too.                                  *)

\* A session not made yet is blank.
BlankInv == \A s \in Sessions : s > made => sock[s] = "none" /\ reconn[s] = "no"

\* The first start() of a session has it for itself.
StartInv ==
  \A p \in Procs, s \in Sessions : pc[p] = "starting" /\ own[p] = s =>
     /\ sock[s] = "none" /\ reconn[s] = "no"
     /\ \A q \in Procs : pc[q] = "starting" /\ own[q] = s => q = p

\* A session being stopped is dead, unless its start() was under way.
StopInv ==
  \A p \in Procs, s \in Sessions : pc[p] = "stopping" /\ own[p] = s =>
     stopping[s] /\ (s \in crossed \/ ~Alive(s))

MapInv == BlankInv /\ StartInv /\ StopInv /\ NoOrphan

LEMMA MapInit == Init => MapInv
BY DEF Init, MapInv, BlankInv, StartInv, StopInv, NoOrphan

\* The session a handler starts or stops.
LEMMA OwnRange ==
  ASSUME TypeOK, NEW p \in Procs, pc[p] \in {"starting", "stopping"}
  PROVE  own[p] \in 1..made /\ own[p] \in Sessions
BY BoundsAssumption DEF TypeOK, ProcsOK, SessionsOK, Sessions

LEMMA BlankStep == TypeOK /\ MapInv /\ [Next]_vars => BlankInv'
<1> SUFFICES ASSUME TypeOK, MapInv, [Next]_vars, NEW s \in Sessions, s > made'
             PROVE  sock'[s] = "none" /\ reconn'[s] = "no"
  BY DEF BlankInv
<1>1. made \in Nat /\ s \in Nat /\ map \in 0..made
  BY BoundsAssumption DEF TypeOK, SessionsOK, Sessions
<1>2. made' >= made
  BY <1>1 DEF Next, vars, Issue, Add, Handle, TakeStart, TakeStop, Look, Found, Started, Stopped, Delete,
     StartFails, LookFails, Recover, RecoverList, RecoverTurn, Open, Close, CloseEvent, LogOut,
     Reconnect, ReconnectBegin, ReconnectEnd, ReconnectFails, Crash, Boot, mapVars
<1>3. s > made
  <2>1. made' \in Nat
    BY TypeStep, BoundsAssumption DEF TypeOK, SessionsOK
  <2> QED
    BY <1>1, <1>2, <2>1
<1>4. sock[s] = "none" /\ reconn[s] = "no" /\ s # map
  BY <1>1, <1>3 DEF MapInv, BlankInv
<1>5. \A p \in Procs : pc[p] = "starting" => own[p] # s
  BY <1>1, <1>3, OwnRange
<1> USE DEF TypeOK, SessionsOK, sessVars
<1>6. CASE UNCHANGED vars
  BY <1>4, <1>6 DEF vars
<1>7. CASE \/ \E type \in Commands : Issue(type)
           \/ \E c \in adding : Add(c)
           \/ Recover \/ Boot
  BY <1>4, <1>7 DEF Issue, Add, Recover, RecoverList, RecoverTurn, Boot
<1>8. ASSUME NEW p \in Procs, Handle(p) \/ StartFails(p) \/ LookFails(p)
      PROVE  sock'[s] = "none" /\ reconn'[s] = "no"
  BY <1>4, <1>5, <1>8 DEF Handle, TakeStart, TakeStop, Look, Found, Started, Stopped, StartFails, LookFails
<1>9. ASSUME NEW t \in Sessions,
             Open(t) \/ Close(t) \/ LogOut(t) \/ Reconnect(t) \/ ReconnectFails(t)
      PROVE  sock'[s] = "none" /\ reconn'[s] = "no"
  BY <1>4, <1>9 DEF Open, Close, CloseEvent, LogOut, Reconnect, ReconnectBegin, ReconnectEnd, ReconnectFails
<1>10. CASE Crash
  BY <1>10 DEF Crash
<1> QED
  BY <1>6, <1>7, <1>8, <1>9, <1>10 DEF Next

\* Nobody brings a session to life but the handler that makes it.
LEMMA AliveBack ==
  ASSUME TypeOK, MapInv, [Next]_vars, NEW s \in 1..made, Alive(s)' PROVE Alive(s)
<1> USE DEF Alive, InStart, TypeOK, SessionsOK, ProcsOK
<1>0. s \in Sessions /\ s \in Nat /\ made \in Nat
  BY BoundsAssumption DEF Sessions
<1>1. CASE UNCHANGED vars
  BY <1>1 DEF vars, procVars, sessVars
<1>2. ASSUME NEW type \in Commands, Issue(type) PROVE Alive(s)
  BY <1>2 DEF Issue, procVars, sessVars
<1>3. ASSUME NEW c \in adding, Add(c) PROVE Alive(s)
  BY <1>3 DEF Add, procVars, sessVars
<1>4. ASSUME NEW p \in Procs, NEW c \in queue, TakeStart(p, c) PROVE Alive(s)
  BY <1>4 DEF TakeStart, Take, Goto, procVars, sessVars
<1>5. ASSUME NEW p \in Procs, NEW c \in queue, TakeStop(p, c) PROVE Alive(s)
  BY <1>0, <1>5 DEF TakeStop, Take, Goto, procVars, sessVars
<1>6. ASSUME NEW p \in Procs, Look(p) \/ LookFails(p) PROVE Alive(s)
  BY <1>6 DEF Look, LookFails, Done, Goto, sessVars
<1>7. ASSUME NEW p \in Procs, Found(p) PROVE Alive(s)
  BY <1>0, <1>7 DEF Found, Goto, sessVars
<1>8. ASSUME NEW p \in Procs, Started(p) PROVE Alive(s)
  BY <1>0, <1>8 DEF Started, Done, Goto
<1>9. ASSUME NEW p \in Procs, Stopped(p) \/ StartFails(p) PROVE Alive(s)
  BY <1>9 DEF Stopped, StartFails, Delete, Done, Goto, sessVars
<1>10. CASE Recover \/ Boot
  BY <1>10, HandlersAssumption DEF Recover, RecoverList, RecoverTurn, Boot, Goto, sessVars, Procs
<1>11. ASSUME NEW t \in Sessions, Open(t) \/ Close(t) \/ LogOut(t) PROVE Alive(s)
  BY <1>0, <1>11 DEF Open, Close, CloseEvent, LogOut, procVars
<1>12. ASSUME NEW t \in Sessions, Reconnect(t) \/ ReconnectFails(t) PROVE Alive(s)
  BY <1>0, <1>12 DEF Reconnect, ReconnectBegin, ReconnectEnd, ReconnectFails, procVars
<1>13. CASE Crash
  BY <1>0, <1>13 DEF Crash
<1> QED
  BY <1>1, <1>2, <1>3, <1>4, <1>5, <1>6, <1>7, <1>8, <1>9, <1>10, <1>11, <1>12, <1>13
     DEF Next, Handle

\* The steps that change the map.
LEMMA MapMoves ==
  ASSUME [Next]_vars
  PROVE  \/ UNCHANGED mapVars
         \/ \E p \in Procs : Found(p) \/ Stopped(p) \/ StartFails(p)
         \/ Crash
BY DEF Next, vars, mapVars, Handle, Issue, Add, TakeStart, TakeStop, Look, Started, LookFails, Recover,
   RecoverList, RecoverTurn, Open, Close, CloseEvent, LogOut, Reconnect, ReconnectBegin, ReconnectEnd,
   ReconnectFails, Boot

LEMMA CrossedGrows == ASSUME [Next]_vars PROVE crossed \subseteq crossed'
BY DEF Next, vars, pastVars, Handle, Issue, Add, TakeStart, TakeStop, Look, Found, Started, Stopped, Delete,
   StartFails, LookFails, Recover, RecoverList, RecoverTurn, Open, Close, CloseEvent, LogOut,
   Reconnect, ReconnectBegin, ReconnectEnd, ReconnectFails, Crash, Boot

LEMMA OrphanStep == TypeOK /\ MapInv /\ [Next]_vars => NoOrphan'
<1> SUFFICES ASSUME TypeOK, MapInv, [Next]_vars, NEW s \in (1..made \ crossed)', Alive(s)'
             PROVE  map' = s
  BY DEF NoOrphan
<1>1. s \notin crossed /\ s \notin crossed'
  BY CrossedGrows
<1>2. ASSUME s \in 1..made PROVE map = s /\ Alive(s)
  BY <1>1, <1>2, AliveBack DEF MapInv, NoOrphan
<1>3. CASE UNCHANGED mapVars
  BY <1>2, <1>3 DEF mapVars
<1>4. ASSUME NEW p \in Procs, Found(p) PROVE map' = s
  <2>1. made \in Nat /\ made' = made + 1 /\ map' = made + 1
    BY <1>4, BoundsAssumption DEF Found, TypeOK, SessionsOK
  <2>2. s \in 1..made => s \in crossed'
    BY <1>2, <1>4 DEF Found
  <2> QED
    BY <1>1, <2>1, <2>2
<1>5. ASSUME NEW p \in Procs, Stopped(p) \/ StartFails(p) PROVE map' = s
  <2>1. s \in 1..made
    BY <1>5 DEF Stopped, StartFails, Delete
  <2>2. s = own[p]
    BY <1>1, <1>2, <1>5, <2>1 DEF Stopped, StartFails, Delete
  <2>3. pc'[p] = "idle" /\ \A q \in Procs \ {p} : pc'[q] = pc[q] /\ own'[q] = own[q]
    BY <1>5 DEF Stopped, StartFails, Delete, Done, Goto, TypeOK, ProcsOK
  <2>4. UNCHANGED sessVars
    BY <1>5 DEF Stopped, StartFails
  <2>5. CASE Stopped(p)
    <3>1. ~Alive(s)
      BY <1>1, <2>2, <2>5, OwnRange DEF MapInv, StopInv, Stopped
    <3> QED
      BY <1>2, <2>1, <3>1
  <2>6. CASE StartFails(p)
    <3>1. sock[s] = "none" /\ reconn[s] = "no"
      BY <2>2, <2>6, OwnRange DEF MapInv, StartInv, StartFails
    <3>2. \A q \in Procs : ~(pc'[q] = "starting" /\ own'[q] = s)
      BY <2>2, <2>3, <2>6, OwnRange DEF MapInv, StartInv, StartFails
    <3> QED
      BY <2>4, <3>1, <3>2 DEF Alive, InStart, sessVars
  <2> QED
    BY <1>5, <2>5, <2>6
<1>6. CASE Crash
  BY <1>6, BoundsAssumption DEF Crash, Alive, InStart, Sessions, TypeOK, SessionsOK
<1> QED
  BY <1>3, <1>4, <1>5, <1>6, MapMoves

\* A handler that stays at its step keeps its session, whoever moves.
LEMMA StaysPut ==
  ASSUME TypeOK, [Next]_vars, NEW p \in Procs, pc'[p] = pc[p] PROVE own'[p] = own[p] \/ pc[p] = "idle"
BY DEF Next, vars, procVars, Handle, Issue, Add, TakeStart, TakeStop, Take, Look, Found, Started, Stopped,
   Delete, StartFails, LookFails, Recover, RecoverList, RecoverTurn, Open, Close, CloseEvent,
   LogOut, Reconnect, ReconnectBegin, ReconnectEnd, ReconnectFails, Crash, Boot, Done, Goto, TypeOK, ProcsOK

\* The ways into start() and stop().
LEMMA Enters ==
  ASSUME TypeOK, [Next]_vars, NEW p \in Procs, pc'[p] # pc[p]
  PROVE  /\ pc'[p] = "starting" => Found(p)
         /\ pc'[p] = "stopping" => map # 0 /\ \E c \in queue : TakeStop(p, c)
<1> USE DEF Goto, Done, TypeOK, ProcsOK
<1>1. CASE UNCHANGED procVars
  BY <1>1 DEF procVars
<1>2. ASSUME NEW q \in Procs, NEW c \in queue, TakeStart(q, c) \/ TakeStop(q, c)
      PROVE  /\ pc'[p] = "starting" => Found(p)
             /\ pc'[p] = "stopping" => map # 0 /\ \E d \in queue : TakeStop(p, d)
  BY <1>2 DEF TakeStart, TakeStop, procVars
<1>3. ASSUME NEW q \in Procs, Found(q)
      PROVE  /\ pc'[p] = "starting" => Found(p)
             /\ pc'[p] = "stopping" => map # 0 /\ \E d \in queue : TakeStop(p, d)
  BY <1>3 DEF Found
<1>4. ASSUME NEW q \in Procs, Look(q) \/ Started(q) \/ Stopped(q) \/ StartFails(q) \/ LookFails(q)
      PROVE  pc'[p] \notin {"starting", "stopping"}
  BY <1>4 DEF Look, Started, Stopped, StartFails, LookFails, Delete
<1>5. CASE Recover \/ Boot \/ Crash
  BY <1>5 DEF Recover, RecoverList, RecoverTurn, Boot, Crash
<1>6. ASSUME NEW t \in Sessions,
             Open(t) \/ Close(t) \/ LogOut(t) \/ Reconnect(t) \/ ReconnectFails(t)
      PROVE  UNCHANGED procVars
  BY <1>6 DEF Open, Close, CloseEvent, LogOut, Reconnect, ReconnectBegin, ReconnectEnd, ReconnectFails
<1>7. ((\E type \in Commands : Issue(type)) \/ (\E c \in adding : Add(c)) \/ UNCHANGED vars) => UNCHANGED procVars
  BY DEF Issue, Add, vars
<1> QED
  BY <1>1, <1>2, <1>3, <1>4, <1>5, <1>6, <1>7 DEF Next, Handle

\* stop() of the session of the map: dead, unless its start() was under way.
LEMMA StopKills ==
  ASSUME TypeOK, NEW p \in Procs, NEW c \in queue, TakeStop(p, c), map # 0,
         NEW s \in Sessions, s = map
  PROVE  stopping'[s] /\ (s \in crossed' \/ ~Alive(s)')
<1> USE DEF TypeOK, SessionsOK
<1>1. stopping'[s] /\ sock'[s] = "none" /\ reconn'[s] = reconn[s]
  BY DEF TakeStop
<1>2. InStart(s) => s \in crossed'
  BY DEF TakeStop
<1>3. \A q \in Procs : pc'[q] = "starting" => pc[q] = "starting" /\ own'[q] = own[q]
  BY DEF TakeStop, Goto, ProcsOK
<1>4. InStart(s)' => InStart(s)
  BY <1>1, <1>3 DEF InStart
<1> QED
  BY <1>1, <1>2, <1>4 DEF Alive

LEMMA StopStep == TypeOK /\ MapInv /\ [Next]_vars => StopInv'
<1> SUFFICES ASSUME TypeOK, MapInv, [Next]_vars,
                    NEW p \in Procs, NEW s \in Sessions, pc'[p] = "stopping", own'[p] = s
             PROVE  stopping'[s] /\ (s \in crossed' \/ ~Alive(s)')
  BY DEF StopInv, Sessions
<1> USE DEF TypeOK, SessionsOK
<1>1. CASE pc[p] = "stopping"
  <2>1. own[p] = s /\ s \in 1..made
    BY <1>1, StaysPut, OwnRange
  <2>2. stopping[s] /\ (s \in crossed \/ ~Alive(s))
    BY <1>1, <2>1 DEF MapInv, StopInv
  <2>3. stopping'[s]
    BY <2>2 DEF Next, vars, sessVars, Handle, Issue, Add, TakeStart, TakeStop, Look, Found, Started,
       Stopped, StartFails, LookFails, Recover, RecoverList, RecoverTurn, Open, Close, CloseEvent,
       LogOut, Reconnect, ReconnectBegin, ReconnectEnd, ReconnectFails, Crash, Boot
  <2>4. Alive(s)' => Alive(s)
    BY <2>1, AliveBack
  <2> QED
    BY <2>2, <2>3, <2>4, CrossedGrows
<1>2. CASE pc[p] # "stopping"
  <2>1. PICK c \in queue : TakeStop(p, c) /\ map # 0
    BY <1>2, Enters
  <2>2. s = map
    BY <2>1 DEF TakeStop, ProcsOK
  <2> QED
    BY <2>1, <2>2, StopKills
<1> QED
  BY <1>1, <1>2

LEMMA StartStep == TypeOK /\ MapInv /\ [Next]_vars => StartInv'
<1> SUFFICES ASSUME TypeOK, MapInv, [Next]_vars,
                    NEW p \in Procs, NEW s \in Sessions, pc'[p] = "starting", own'[p] = s
             PROVE  /\ sock'[s] = "none" /\ reconn'[s] = "no"
                    /\ \A q \in Procs : pc'[q] = "starting" /\ own'[q] = s => q = p
  BY DEF StartInv, Sessions
<1> USE DEF TypeOK, SessionsOK
<1>1. \A q \in Procs : pc[q] # "starting" /\ pc'[q] = "starting" =>
         Found(q) /\ own'[q] = made + 1
  BY Enters DEF Found, ProcsOK
<1>2. \A q \in Procs : pc[q] = "starting" /\ pc'[q] = "starting" =>
         own'[q] = own[q] /\ own[q] \in 1..made
  BY StaysPut, OwnRange
<1>3. made \in Nat
  BY BoundsAssumption
<1>4. CASE pc[p] = "starting"
  <2>1. own[p] = s /\ s \in 1..made
    BY <1>2, <1>4
  <2>2. /\ sock[s] = "none" /\ reconn[s] = "no"
        /\ \A q \in Procs : pc[q] = "starting" /\ own[q] = s => q = p
    BY <1>4, <2>1 DEF MapInv, StartInv
  <2>3. \A q \in Procs : pc'[q] = "starting" /\ own'[q] = s => q = p
    BY <1>1, <1>2, <1>3, <2>1, <2>2
  <2>4. \A q \in Procs : ~(Started(q) /\ own[q] = s)
    BY <2>2 DEF Started, Done, Goto, ProcsOK
  <2>5. reconn'[s] = "no"
    BY <2>2 DEF Next, vars, sessVars, Handle, Issue, Add, TakeStart, TakeStop, Look, Found, Started, Stopped,
       StartFails, LookFails, Recover, RecoverList, RecoverTurn, Open, Close, CloseEvent, LogOut,
       Reconnect, ReconnectBegin, ReconnectEnd, ReconnectFails, Crash, Boot
  <2>6. ASSUME NEW q \in Procs, Started(q) PROVE sock'[s] = "none"
    BY <2>2, <2>4, <2>6 DEF Started
  <2>7. (\A q \in Procs : ~Started(q)) => sock'[s] = "none"
    BY <2>2 DEF Next, vars, sessVars, Handle, Issue, Add, TakeStart, TakeStop, Look, Found, Stopped,
       StartFails, LookFails, Recover, RecoverList, RecoverTurn, Open, Close, CloseEvent, LogOut,
       Reconnect, ReconnectBegin, ReconnectEnd, ReconnectFails, Crash, Boot
  <2> QED
    BY <2>3, <2>5, <2>6, <2>7
<1>5. CASE pc[p] # "starting"
  <2>1. Found(p) /\ s = made + 1
    BY <1>1, <1>5
  <2>2. sock[s] = "none" /\ reconn[s] = "no"
    BY <1>3, <2>1 DEF MapInv, BlankInv
  <2>3. \A q \in Procs \ {p} : pc'[q] = pc[q]
    BY <2>1 DEF Found, Goto, ProcsOK
  <2>4. \A q \in Procs : pc'[q] = "starting" /\ own'[q] = s => q = p
    BY <1>2, <1>3, <2>1, <2>3
  <2> QED
    BY <2>1, <2>2, <2>4 DEF Found, sessVars
<1> QED
  BY <1>4, <1>5

LEMMA MapStep == TypeOK /\ MapInv /\ [Next]_vars => MapInv'
BY BlankStep, StartStep, StopStep, OrphanStep DEF MapInv

LEMMA MapAlways == Spec => []MapInv
<1> QED
  BY TypeCorrect, MapInit, MapStep, PTL DEF Spec

\* Whatever commands, closes, faults and crashes there are, a session out of the map is
\* dead unless a crossing put it there (supervisor.ts:121-176, baileys-session.ts:258-274).
THEOREM OrphansCross == Spec => []NoOrphan
<1>1. MapInv => NoOrphan
  BY DEF MapInv
<1> QED
  BY <1>1, MapAlways, PTL

-----------------------------------------------------------------------------
(* A RETIRED chip has no session.  Once its RETIRE was taken no session of   *)
(* the map is alive, and none is made any more but by a handler that had     *)
(* read the row before.                                                      *)

Pending == \E c \in adding \cup queue : c.type = "RETIRE"

KillInv ==
  status = "RETIRED" /\ ~Pending =>
     /\ \A s \in 1..made \ crossed : ~Alive(s)
     /\ \A p \in Procs : pc[p] = "found" => p \in late

LEMMA KillInit == Init => KillInv
BY DEF Init, KillInv

\* A chip is retired by a RETIRE, which is then to be handled.
LEMMA Retirement ==
  ASSUME [Next]_vars, status # "RETIRED", status' = "RETIRED" PROVE Pending'
<1>1. PICK type \in Commands : Issue(type)
  BY DEF Next, vars, rowVars, Handle, Add, TakeStart, TakeStop, Look, Found, Started, Stopped, StartFails,
     LookFails, Recover, RecoverList, RecoverTurn, Open, Close, CloseEvent, LogOut, Reconnect,
     ReconnectBegin, ReconnectEnd, ReconnectFails, Crash, Boot
<1>2. type = "RETIRE"
  BY <1>1 DEF Issue
<1> DEFINE c == [id |-> issued + 1, type |-> type]
<1>3. c \in adding' /\ c.type = "RETIRE"
  BY <1>1, <1>2 DEF Issue
<1> HIDE DEF c
<1> QED
  BY <1>3 DEF Pending

\* Only a handler that takes it makes a RETIRE go away.
LEMMA PendingStays ==
  ASSUME [Next]_vars, Pending, ~Pending'
  PROVE  \E p \in Procs, c \in queue : TakeStop(p, c)
<1>1. PICK c \in adding \cup queue : c.type = "RETIRE"
  BY DEF Pending
<1>2. c \notin adding' /\ c \notin queue'
  BY <1>1 DEF Pending
<1>3. ASSUME NEW p \in Procs, NEW d \in queue, TakeStart(p, d) PROVE FALSE
  BY <1>1, <1>2, <1>3 DEF TakeStart, Take
<1> QED
  BY <1>1, <1>2, <1>3 DEF Next, vars, jobVars, Handle, Issue, Add, Look, Found, Started, Stopped, StartFails,
     LookFails, Recover, RecoverList, RecoverTurn, Open, Close, CloseEvent, LogOut, Reconnect,
     ReconnectBegin, ReconnectEnd, ReconnectFails, Crash, Boot

\* A handler is late until it makes its session or the process ends, and nobody finds a
\* RETIRED chip anew.
LEMMA LateStays ==
  ASSUME TypeOK, [Next]_vars, status = "RETIRED", NEW p \in Procs, pc'[p] = "found"
  PROVE  pc[p] = "found" /\ (p \in late => p \in late')
<1> USE DEF TypeOK, ProcsOK, Goto, Done
<1>1. ASSUME NEW q \in Procs, Handle(q) \/ StartFails(q) \/ LookFails(q)
      PROVE  pc[p] = "found" /\ (p \in late => p \in late')
  BY <1>1 DEF Handle, TakeStart, TakeStop, Take, Look, Found, Started, Stopped, StartFails, LookFails, Delete,
     procVars, pastVars
<1>2. CASE Recover \/ Crash \/ Boot
  BY <1>2 DEF Recover, RecoverList, RecoverTurn, Crash, Boot, pastVars
<1>3. ((\E type \in Commands : Issue(type)) \/ (\E c \in adding : Add(c)) \/ UNCHANGED vars)
         => UNCHANGED <<procVars, pastVars>>
  BY DEF Issue, Add, vars
<1>4. ASSUME NEW t \in Sessions,
             Open(t) \/ Close(t) \/ LogOut(t) \/ Reconnect(t) \/ ReconnectFails(t)
      PROVE  UNCHANGED <<procVars, late>>
  BY <1>4 DEF Open, Close, CloseEvent, LogOut, Reconnect, ReconnectBegin, ReconnectEnd, ReconnectFails, pastVars
<1> QED
  BY <1>1, <1>2, <1>3, <1>4 DEF Next, procVars, pastVars

LEMMA KillStep == TypeOK /\ MapInv /\ KillInv /\ [Next]_vars => KillInv'
<1> SUFFICES ASSUME TypeOK, MapInv, KillInv, [Next]_vars, status' = "RETIRED", ~Pending'
             PROVE  /\ \A s \in (1..made \ crossed)' : ~Alive(s)'
                    /\ \A p \in Procs : pc'[p] = "found" => p \in late'
  BY DEF KillInv
<1>1. status = "RETIRED"
  BY Retirement
<1>2. made \in Nat /\ map \in 0..made
  BY BoundsAssumption DEF TypeOK, SessionsOK
<1>3. CASE ~Pending
  <2>1. /\ \A s \in 1..made \ crossed : ~Alive(s)
        /\ \A p \in Procs : pc[p] = "found" => p \in late
    BY <1>1, <1>3 DEF KillInv
  <2>2. ASSUME NEW s \in (1..made \ crossed)', Alive(s)' PROVE FALSE
    <3>1. s \notin 1..made
      BY <2>1, <2>2, AliveBack, CrossedGrows
    <3>2. PICK p \in Procs : Found(p)
      BY <1>2, <2>2, <3>1, MapMoves DEF mapVars, Stopped, StartFails, Delete, Crash
    <3>3. made' = made + 1 /\ made + 1 \in crossed'
      BY <2>1, <3>2 DEF Found
    <3> QED
      BY <1>2, <2>2, <3>1, <3>3
  <2> QED
    BY <1>1, <2>1, <2>2, LateStays
<1>4. CASE Pending
  <2>1. PICK p \in Procs, c \in queue : TakeStop(p, c)
    BY <1>4, PendingStays
  <2>2. \A q \in Procs : pc'[q] = "found" => q \in late'
    BY <1>1, <2>1, LateStays DEF TakeStop
  <2>3. ASSUME NEW s \in (1..made \ crossed)', Alive(s)' PROVE FALSE
    <3>1. made' = made /\ map' = map
      BY <2>1 DEF TakeStop, mapVars
    <3>2. map = s /\ s \in 1..made
      BY <2>3, <3>1, OrphanStep DEF NoOrphan
    <3>3. map # 0 /\ s \notin crossed'
      BY <1>2, <2>3, <3>2
    <3>4. s \in Sessions
      BY <1>2, <3>2, BoundsAssumption DEF Sessions, TypeOK, SessionsOK
    <3> QED
      BY <2>1, <2>3, <3>2, <3>3, <3>4, StopKills
  <2> QED
    BY <2>2, <2>3
<1> QED
  BY <1>3, <1>4

\* Once every command is handled a RETIRED chip has no session, crossings apart
\* (supervisor.ts:127-139, 171-176).
THEOREM RetiredIsSilent == Spec => []RetiredHasNone
<1>1. KillInv => RetiredHasNone
  BY DEF KillInv, Pending, RetiredHasNone, Quiet
<1>2. Spec => []KillInv
  BY TypeCorrect, MapAlways, KillInit, KillStep, PTL DEF Spec
<1> QED
  BY <1>1, <1>2, PTL
=============================================================================
