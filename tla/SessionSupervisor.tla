-------------------------- MODULE SessionSupervisor --------------------------
(***************************************************************************)
(* The sessions of one chip in one worker: the supervisor's map, the        *)
(* handlers of CONTROL (four at once) and the recovery at boot, and each    *)
(* session's socket with its reconnection timer.  The map holds at most one *)
(* session of the chip, but a session that left it may go on running: its   *)
(* start() has awaits, and nothing cancels them.                            *)
(*                                                                          *)
(* A session is a number: the first made is 1.  The queue is a set: its     *)
(* jobs are handled four at once and a retried job goes behind the others.  *)
(***************************************************************************)
EXTENDS Integers, FiniteSets

CONSTANTS
  Handlers,   \* the concurrent handlers of the CONTROL queue
  Recovery,   \* recoverSessions(), which runs beside them
  Commands,   \* the commands the core may send
  MaxCmds, MaxSessions, MaxCloses, MaxFaults  \* bounds

ASSUME HandlersAssumption == Recovery \notin Handlers

ASSUME CommandsAssumption == Commands \subseteq {"PAIR", "START", "STOP", "RETIRE"}

ASSUME BoundsAssumption ==
  MaxCmds \in Nat /\ MaxSessions \in Nat /\ MaxCloses \in Nat /\ MaxFaults \in Nat

Procs == Handlers \cup {Recovery}
Sessions == 1..MaxSessions

\* HELD stands for PAUSED and COOLDOWN, LIVE for WARMING and ACTIVE.
ChipStatus == {"NEW", "LIVE", "HELD", "RETIRED"}

VARIABLES
  status, authed,           \* the row: status, authState is not null
  adding, queue, issued,    \* commands decided and not added; CONTROL jobs; commands so far
  up,                       \* the worker process runs
  pc, job, own,             \* per handler: step, job, session it starts or stops
  map, made,                \* sessions.get(chipId), 0 for none; sessions so far
  sock, stopping, reconn, out,  \* per session: socket, stopping, scheduleReconnect, logged out
  closes, faults,           \* budgets
  crossed, late, broken     \* history variables: no guard or state write reads them

rowVars  == <<status, authed>>
jobVars  == <<adding, queue, issued>>
procVars == <<up, pc, job, own>>
mapVars  == <<map, made>>
sessVars == <<sock, stopping, reconn, out>>
budgetVars == <<closes, faults>>
pastVars == <<crossed, late, broken>>
vars == <<rowVars, jobVars, procVars, mapVars, sessVars, budgetVars, pastVars>>

Job == [id : 1..MaxCmds, type : Commands]
NoJob == [id |-> 0, type |-> "none"]

PC == {"idle", "boot", "listed", "look", "found", "starting", "stopping"}

RowOK == status \in ChipStatus /\ authed \in BOOLEAN

JobsOK == adding \subseteq Job /\ queue \subseteq Job /\ issued \in 0..MaxCmds

ProcsOK == /\ up \in BOOLEAN
           /\ pc \in [Procs -> PC]
           /\ job \in [Procs -> Job \cup {NoJob}]
           /\ own \in [Procs -> 0..made]
           /\ \A p \in Procs : pc[p] \in {"starting", "stopping"} => own[p] # 0
           /\ \A p \in Handlers : pc[p] = "look" => job[p] \in Job

SessionsOK == /\ made \in 0..MaxSessions /\ map \in 0..made
              /\ sock \in [Sessions -> {"none", "made", "open", "closed"}]
              /\ stopping \in [Sessions -> BOOLEAN]
              /\ reconn \in [Sessions -> {"no", "delay", "starting"}]
              /\ out \in [Sessions -> BOOLEAN]

PastOK == /\ closes \in Nat /\ faults \in Nat
          /\ crossed \subseteq Sessions /\ late \subseteq Procs /\ broken \subseteq Sessions

TypeOK == RowOK /\ JobsOK /\ ProcsOK /\ SessionsOK /\ PastOK

-----------------------------------------------------------------------------
(* A chip just created, or one that was alive before the worker came up.     *)

Init ==
  /\ \/ status = "NEW" /\ authed = FALSE
     \/ status = "LIVE" /\ authed = TRUE
  /\ adding = {} /\ queue = {} /\ issued = 0
  /\ up = FALSE
  /\ pc = [p \in Procs |-> "idle"]
  /\ job = [p \in Procs |-> NoJob]
  /\ own = [p \in Procs |-> 0]
  /\ map = 0 /\ made = 0
  /\ sock = [s \in Sessions |-> "none"]
  /\ stopping = [s \in Sessions |-> FALSE]
  /\ reconn = [s \in Sessions |-> "no"]
  /\ out = [s \in Sessions |-> FALSE]
  /\ closes = 0 /\ faults = 0
  /\ crossed = {} /\ late = {} /\ broken = {}

-----------------------------------------------------------------------------
(* The core: the row is written, then the command is added.                  *)

Issue(type) ==
  /\ issued < MaxCmds /\ issued' = issued + 1
  /\ adding' = adding \cup {[id |-> issued + 1, type |-> type]}
  /\ status' = CASE type = "RETIRE" -> "RETIRED"
                 [] type = "STOP" /\ status # "RETIRED" -> "HELD"
                 [] type = "START" /\ status = "HELD" -> "LIVE"
                 [] OTHER -> status
  /\ UNCHANGED <<authed, queue, procVars, mapVars, sessVars, budgetVars, pastVars>>

Add(c) ==
  /\ c \in adding
  /\ adding' = adding \ {c} /\ queue' = queue \cup {c}
  /\ UNCHANGED <<rowVars, issued, procVars, mapVars, sessVars, budgetVars, pastVars>>

-----------------------------------------------------------------------------
(* onControl(), startSession() and stopSession().                            *)

Goto(p, step) == pc' = [pc EXCEPT ![p] = step] /\ UNCHANGED up

\* The handler is done with its job.
Done(p) ==
  /\ Goto(p, "idle")
  /\ job' = [job EXCEPT ![p] = NoJob]
  /\ own' = [own EXCEPT ![p] = 0]

\* A start() of the session is under way: a socket will come out of it.
InStart(s) == reconn[s] = "starting" \/ \E p \in Procs : pc[p] = "starting" /\ own[p] = s

Take(p, c) ==
  /\ up /\ p \in Handlers /\ pc[p] = "idle"
  /\ c \in queue /\ queue' = queue \ {c}

\* sessions.has(), and the read of the row begins.
TakeStart(p, c) ==
  /\ c.type \in {"PAIR", "START"}
  /\ Take(p, c)
  /\ \/ map # 0 /\ UNCHANGED procVars
     \/ /\ map = 0
        /\ Goto(p, "look")
        /\ job' = [job EXCEPT ![p] = c]
        /\ UNCHANGED own
  /\ UNCHANGED <<rowVars, adding, issued, mapVars, sessVars, budgetVars, pastVars>>

\* sessions.get(), and stop() up to its await: a start() under way goes on.
TakeStop(p, c) ==
  /\ c.type \in {"STOP", "RETIRE"}
  /\ Take(p, c)
  /\ \/ map = 0 /\ UNCHANGED <<procVars, sessVars, crossed>>
     \/ /\ map # 0
        /\ Goto(p, "stopping")
        /\ job' = [job EXCEPT ![p] = c]
        /\ own' = [own EXCEPT ![p] = map]
        /\ stopping' = [stopping EXCEPT ![map] = TRUE]
        /\ sock' = [sock EXCEPT ![map] = "none"]
        /\ crossed' = IF InStart(map) THEN crossed \cup {map} ELSE crossed
        /\ UNCHANGED <<reconn, out>>
  /\ late' = late \cup {q \in Procs : pc[q] = "found"}
  /\ UNCHANGED <<rowVars, adding, issued, mapVars, budgetVars, broken>>

\* [mutant] a RETIRED chip is started like any other
LookAnyway(p) ==
  /\ pc[p] = "look"
  /\ Goto(p, "found")
  /\ UNCHANGED <<job, own, rowVars, jobVars, mapVars, sessVars, budgetVars, pastVars>>

\* findUnique reads the row: a RETIRED chip is not started.
Look(p) ==
  /\ pc[p] = "look"
  /\ \/ status = "RETIRED" /\ Done(p)
     \/ status # "RETIRED" /\ Goto(p, "found") /\ UNCHANGED <<job, own>>
  /\ UNCHANGED <<rowVars, jobVars, mapVars, sessVars, budgetVars, pastVars>>

\* Back from findUnique: a session is made, put in the map over any other, and its
\* start() begins.
Found(p) ==
  /\ pc[p] = "found" /\ made < MaxSessions
  /\ made' = made + 1 /\ map' = made + 1
  /\ Goto(p, "starting") /\ own' = [own EXCEPT ![p] = made + 1]
  /\ crossed' = crossed \cup (IF p \in late THEN {made + 1} ELSE {})
                        \cup (IF map # 0 THEN {map} ELSE {})
  /\ late' = late \ {p}
  /\ UNCHANGED <<job, rowVars, jobVars, sessVars, budgetVars, broken>>

\* start() has made the socket.
Started(p) ==
  /\ pc[p] = "starting"
  /\ sock' = [sock EXCEPT ![own[p]] = "made"]
  /\ Done(p)
  /\ UNCHANGED <<rowVars, jobVars, mapVars, stopping, reconn, out, budgetVars, pastVars>>

\* sessions.delete(chipId), whatever session is there by now.
Delete(p) ==
  /\ map' = 0 /\ UNCHANGED made
  /\ crossed' = crossed \cup ({map} \ {0, own[p]})
  /\ Done(p)

\* stop() is back from its flush.
Stopped(p) ==
  /\ pc[p] = "stopping"
  /\ Delete(p)
  /\ UNCHANGED <<rowVars, jobVars, sessVars, budgetVars, late, broken>>

Fault == faults < MaxFaults /\ faults' = faults + 1 /\ UNCHANGED closes

\* start() throws: no proxy, or an await failed.
StartFails(p) ==
  /\ pc[p] = "starting" /\ Fault
  /\ Delete(p)
  /\ UNCHANGED <<rowVars, jobVars, sessVars, late, broken>>

\* findUnique throws: the job comes back, or is out of attempts.
LookFails(p) ==
  /\ p \in Handlers /\ pc[p] = "look" /\ Fault
  /\ queue' \in {queue, queue \cup {job[p]}}
  /\ Done(p)
  /\ UNCHANGED <<rowVars, adding, issued, mapVars, sessVars, pastVars>>

-----------------------------------------------------------------------------
(* recoverSessions(), after the process came up.                             *)

\* [mutant] findMany lists the chips that were held
RecoverPaused ==
  /\ pc[Recovery] = "boot"
  /\ Goto(Recovery, IF status = "HELD" /\ authed THEN "listed" ELSE "idle")
  /\ UNCHANGED <<job, own, rowVars, jobVars, mapVars, sessVars, budgetVars, pastVars>>

\* findMany lists the chip if it was alive.
RecoverList ==
  /\ pc[Recovery] = "boot"
  /\ Goto(Recovery, IF status = "LIVE" /\ authed THEN "listed" ELSE "idle")
  /\ UNCHANGED <<job, own, rowVars, jobVars, mapVars, sessVars, budgetVars, pastVars>>

\* Its turn has come, after the pauses between the chips before it.
RecoverTurn ==
  /\ pc[Recovery] = "listed"
  /\ Goto(Recovery, IF map = 0 THEN "look" ELSE "idle")
  /\ UNCHANGED <<job, own, rowVars, jobVars, mapVars, sessVars, budgetVars, pastVars>>

-----------------------------------------------------------------------------
(* The socket of a session and its reconnection.                             *)

\* connection = 'open', with the credentials saved and the CONNECTED hook's write.
Open(s) ==
  /\ sock[s] = "made"
  /\ sock' = [sock EXCEPT ![s] = "open"]
  /\ authed' = TRUE
  /\ status' = IF status = "NEW" THEN "LIVE" ELSE status
  /\ UNCHANGED <<jobVars, procVars, mapVars, stopping, reconn, out, budgetVars, pastVars>>

CloseEvent(s) ==
  /\ sock[s] \in {"made", "open"}
  /\ closes < MaxCloses /\ closes' = closes + 1 /\ UNCHANGED faults
  /\ sock' = [sock EXCEPT ![s] = "closed"]
  /\ UNCHANGED <<jobVars, procVars, mapVars, stopping, pastVars, status>>

\* connection = 'close': scheduleReconnect(), unless the session is stopping.
Close(s) ==
  /\ CloseEvent(s)
  /\ reconn' = IF stopping[s] \/ reconn[s] # "no" THEN reconn
               ELSE [reconn EXCEPT ![s] = "delay"]
  /\ UNCHANGED <<out, authed>>

\* The same, logged out by the phone: the credentials are wiped (as AuthState tells) and
\* the session stays in the map.
LogOut(s) ==
  /\ CloseEvent(s) /\ ~stopping[s]
  /\ out' = [out EXCEPT ![s] = TRUE]
  /\ authed' = FALSE
  /\ UNCHANGED reconn

\* [mutant] the timer opens a socket whether or not the session was stopped meanwhile
ReconnectAnyway(s) ==
  /\ reconn[s] = "delay"
  /\ reconn' = [reconn EXCEPT ![s] = "starting"]
  /\ sock' = [sock EXCEPT ![s] = "none"]
  /\ UNCHANGED <<rowVars, jobVars, procVars, mapVars, stopping, out, budgetVars, pastVars>>

\* The backoff is over: nothing if stopping, otherwise start() up to its first await.
ReconnectBegin(s) ==
  /\ reconn[s] = "delay"
  /\ \/ stopping[s] /\ reconn' = [reconn EXCEPT ![s] = "no"] /\ UNCHANGED sock
     \/ /\ ~stopping[s]
        /\ reconn' = [reconn EXCEPT ![s] = "starting"]
        /\ sock' = [sock EXCEPT ![s] = "none"]
  /\ UNCHANGED <<rowVars, jobVars, procVars, mapVars, stopping, out, budgetVars, pastVars>>

\* [mutant] `reconnecting` is not lowered after start()
ReconnectOnce(s) ==
  /\ reconn[s] = "starting" /\ sock[s] = "none"
  /\ sock' = [sock EXCEPT ![s] = "made"]
  /\ UNCHANGED <<rowVars, jobVars, procVars, mapVars, reconn, stopping, out>>
  /\ UNCHANGED <<budgetVars, pastVars>>

\* start() has made the new socket.
ReconnectEnd(s) ==
  /\ reconn[s] = "starting"
  /\ reconn' = [reconn EXCEPT ![s] = "no"]
  /\ sock' = [sock EXCEPT ![s] = "made"]
  /\ UNCHANGED <<rowVars, jobVars, procVars, mapVars, stopping, out, budgetVars, pastVars>>

\* start() throws: nothing tries again.
ReconnectFails(s) ==
  /\ reconn[s] = "starting" /\ Fault
  /\ reconn' = [reconn EXCEPT ![s] = "no"]
  /\ broken' = broken \cup {s}
  /\ UNCHANGED <<rowVars, jobVars, procVars, mapVars, sock, stopping, out, crossed, late>>

-----------------------------------------------------------------------------
(* The process.                                                              *)

\* It ends, by a crash or a deploy: the jobs in hand come back as stalled, or are given up.
Crash ==
  /\ up /\ Fault
  /\ up' = FALSE
  /\ pc' = [p \in Procs |-> "idle"]
  /\ job' = [p \in Procs |-> NoJob]
  /\ own' = [p \in Procs |-> 0]
  /\ \E back \in SUBSET ({job[p] : p \in Handlers} \ {NoJob}) : queue' = queue \cup back
  /\ map' = 0
  /\ sock' = [s \in Sessions |-> "none"]
  /\ reconn' = [s \in Sessions |-> "no"]
  /\ late' = {} /\ broken' = 1..made
  /\ UNCHANGED <<rowVars, adding, issued, made, stopping, out, crossed>>

Boot ==
  /\ ~up /\ up' = TRUE
  /\ pc' = [pc EXCEPT ![Recovery] = "boot"]
  /\ UNCHANGED <<job, own, rowVars, jobVars, mapVars, sessVars, budgetVars, pastVars>>

-----------------------------------------------------------------------------
Handle(p) ==
  \/ \E c \in queue : TakeStart(p, c) \/ TakeStop(p, c)
  \/ Look(p) \/ Found(p) \/ Started(p) \/ Stopped(p)

Recover == RecoverList \/ RecoverTurn

Reconnect(s) == ReconnectBegin(s) \/ ReconnectEnd(s)

Next ==
  \/ \E type \in Commands : Issue(type)
  \/ \E c \in adding : Add(c)
  \/ \E p \in Procs : Handle(p) \/ StartFails(p) \/ LookFails(p)
  \/ Recover
  \/ \E s \in Sessions : Open(s) \/ Close(s) \/ LogOut(s) \/ Reconnect(s) \/ ReconnectFails(s)
  \/ Crash \/ Boot

Spec == Init /\ [][Next]_vars

\* Awaits settle, timers fire, the core adds what it decided, and the process is restarted.
Fairness ==
  /\ \A c \in Job : WF_vars(Add(c))
  /\ \A p \in Procs : WF_vars(Handle(p))
  /\ WF_vars(Recover) /\ WF_vars(Boot)
  /\ \A s \in Sessions : WF_vars(Reconnect(s))

FairSpec == Spec /\ Fairness

-----------------------------------------------------------------------------
(* Safety.  A session is in `crossed` once a stop() found it in its start(),  *)
(* a startSession() in progress was overtaken by a STOP, or another session   *)
(* took its place in the map or deleted it from there.                        *)

\* It has a socket, or will have one.
Alive(s) == \/ sock[s] \in {"made", "open"}
            \/ InStart(s)
            \/ reconn[s] = "delay" /\ ~stopping[s]

\* Only those crossings leak a session: any other with a socket, or that a timer or an
\* await will give one, is the session of the map, which a STOP can reach; so there is at
\* most one (supervisor.ts:121-176, baileys-session.ts:258-274, 314-323).
NoOrphan == \A s \in 1..made \ crossed : Alive(s) => map = s

Quiet == up /\ adding = {} /\ queue = {} /\ \A p \in Procs : pc[p] = "idle"

\* Once every command is handled a RETIRED chip has no session, crossings apart: the
\* START, PAIR or recovery that comes after the retirement reads the row
\* (supervisor.ts:127-139, 171-176).
RetiredHasNone ==
  status = "RETIRED" /\ Quiet => \A s \in 1..made \ crossed : ~Alive(s)

-----------------------------------------------------------------------------
(* Liveness.                                                                 *)

\* A socket closed by the network is replaced, however often, unless the session is
\* stopped or its start() fails (baileys-session.ts:158-176, 258-274).
Reconnects ==
  \A s \in Sessions :
     sock[s] = "closed" /\ ~out[s] ~> sock[s] \in {"made", "open"} \/ stopping[s] \/ s \in broken

\* A restarted worker hosts again the chip that was alive (supervisor.ts:87-103).
Recovers ==
  ~up /\ status = "LIVE" /\ authed ~> map # 0 \/ status # "LIVE" \/ ~authed
=============================================================================
