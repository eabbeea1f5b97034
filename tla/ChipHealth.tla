----------------------------- MODULE ChipHealth -----------------------------
(***************************************************************************)
(* The life of one chip (a WhatsappNumber row): the health monitor's score  *)
(* and kill switch, its cooldown sweep, the scheduler's daily reset, the    *)
(* chip endpoints and the worker's CONNECTED hook all read and write the    *)
(* same row, each in several awaits and with no transaction.                *)
(*                                                                          *)
(* A member of Slots is one call of ingestSignal() in progress: a HEALTH    *)
(* job (the consumer runs four at once) or a signal of the delivery sweep.  *)
(*                                                                          *)
(* The worker is kept to what decides whether the chip has a session: the   *)
(* control commands added and not taken, and the handlers between the       *)
(* awaits of startSession() and stopSession(), each counted, since they are *)
(* taken four at once and a job tried again goes behind the others.  Which  *)
(* session is which, and their sockets, are SessionSupervisor's.            *)
(***************************************************************************)
EXTENDS Integers, Sequences, FiniteSets

CONSTANTS
  Slots,
  Signals,      \* the kinds of signal that arrive
  Heals,        \* what the hours since lastSignalAt may be worth
  StartScores,  \* the scores the chip may have at the start
  RampCurve,    \* RAMP_CURVE
  PromoteDay,   \* WARMING_ACTIVE_AFTER_DAYS
  Commands,     \* the commands the operator may send
  MaxSignals, MaxDay, MaxOps, MaxConnects, MaxFaults  \* bounds

Weight == [SEND_FAIL |-> -12, NO_DELIVERY |-> -6, NO_READ |-> -4,
           REPLY_DROP |-> -15, DISCONNECT |-> -5, RECOVERED |-> 8]

SoftThreshold == 70
CooldownThreshold == 50
RetireThreshold == 30
MaxConsecFails == 5
CooldownRampCap == 5

ASSUME SignalsAssumption ==
  /\ Signals \subseteq DOMAIN Weight
  /\ Heals \subseteq 0..100 /\ 0 \in Heals
  /\ StartScores \subseteq SoftThreshold..100

ASSUME RampAssumption ==
  /\ RampCurve \in Seq(Nat \ {0}) /\ RampCurve # <<>>
  /\ PromoteDay \in Nat

ASSUME LimitsAssumption ==
  /\ Commands \subseteq {"START", "STOP", "RETIRE", "PAIR"}
  /\ MaxSignals \in Nat /\ MaxDay \in Nat
  /\ MaxOps \in Nat /\ MaxConnects \in Nat /\ MaxFaults \in Nat

ChipStatus == {"NEW", "WARMING", "ACTIVE", "PAUSED", "COOLDOWN", "RETIRED"}

VARIABLES
  status, score, fails, cap, ramp,  \* the row: status, healthScore, consecFails, dailyCap, rampDay
  resetDue,                         \* lastResetAt is before midnight
  silent,                           \* lastSignalAt is older than COOLDOWN_MINUTES
  session,                          \* the worker's map holds a session of the chip
  starts, ends,                     \* commands added and not taken: START or PAIR, STOP or RETIRE
  looking, found, stops,            \* handlers in findUnique, past it, and in the flush of stop()
  chain, pc, kind, seen,            \* the promise chain; per slot: step, signal, row read
  sweep, sweepScore,                \* sweepCooldowns: its step and the score it read
  reset, resetRow,                  \* the daily reset: its step and the row it read
  op,                               \* sendControl: the command it has yet to add
  signals, day, ops, connects, faults,  \* budgets
  late, stray, untold,              \* history variables: starts a stop overtook, the session is
                                    \* one of those, a RETIRE was dropped since the last one added
  bad, meddled, undone, lost        \* history variables: no guard or state write reads them

rowVars    == <<status, score, fails, cap, ramp, resetDue, silent>>
handlerVars == <<starts, ends, looking, found, stops, late>>
workerVars == <<session, handlerVars, stray, untold>>
chainVars  == <<chain, pc, kind, seen>>
otherVars  == <<sweep, sweepScore, reset, resetRow, op>>
budgetVars == <<signals, day, ops, connects, faults>>
pastVars   == <<bad, meddled, undone, lost>>
vars == <<rowVars, workerVars, chainVars, otherVars, budgetVars, pastVars>>

PC == {"idle", "waiting", "score", "policy", "command", "retry"}
Row == [status : ChipStatus, score : 0..100, fails : Nat, cap : Nat]
NoReading == [ramp |-> 0, status |-> "NEW"]
NoRow == [status |-> "NEW", score |-> 0, fails |-> 0, cap |-> 0]

InFlight == {"score", "policy", "command"}

RowOK == /\ status \in ChipStatus
         /\ score \in 0..100
         /\ fails \in Nat /\ cap \in Nat /\ ramp \in Nat
         /\ resetDue \in BOOLEAN /\ silent \in BOOLEAN

WorkerOK == /\ session \in BOOLEAN /\ stray \in BOOLEAN /\ untold \in BOOLEAN
            /\ starts \in Nat /\ ends \in Nat
            /\ looking \in Nat /\ found \in Nat /\ stops \in Nat /\ late \in Nat

ChainOK == /\ chain \in Seq(Slots)
           /\ pc \in [Slots -> PC]
           /\ kind \in [Slots -> DOMAIN Weight]
           /\ seen \in [Slots -> Row]

OthersOK == /\ sweep \in {"idle", "heal", "recover", "command"}
            /\ sweepScore \in 0..100
            /\ reset \in {"idle", "write"}
            /\ resetRow \in [ramp : Nat, status : ChipStatus]
            /\ op \in {"none", "START", "STOP", "RETIRE", "PAIR"}

BudgetsOK == /\ signals \in Nat /\ day \in Nat
             /\ ops \in Nat /\ connects \in Nat /\ faults \in Nat

PastOK == /\ bad \in Nat
          /\ meddled \subseteq Slots
          /\ undone \in BOOLEAN /\ lost \in BOOLEAN

TypeOK == RowOK /\ WorkerOK /\ ChainOK /\ OthersOK /\ BudgetsOK /\ PastOK

-----------------------------------------------------------------------------
(* A paired chip in its first day, connected.                                *)

Init ==
  /\ status = "WARMING" /\ score \in StartScores /\ fails = 0
  /\ cap = RampCurve[1] /\ ramp = 1 /\ resetDue = FALSE /\ silent = FALSE
  /\ session = TRUE /\ stray = FALSE /\ untold = FALSE
  /\ starts = 0 /\ ends = 0 /\ looking = 0 /\ found = 0 /\ stops = 0 /\ late = 0
  /\ chain = <<>>
  /\ pc = [s \in Slots |-> "idle"]
  /\ kind = [s \in Slots |-> "RECOVERED"]
  /\ seen = [s \in Slots |-> NoRow]
  /\ sweep = "idle" /\ sweepScore = 0
  /\ reset = "idle" /\ resetRow = NoReading
  /\ op = "none"
  /\ signals = 0 /\ day = 0 /\ ops = 0 /\ connects = 0 /\ faults = 0
  /\ bad = 0 /\ meddled = {} /\ undone = FALSE /\ lost = FALSE

-----------------------------------------------------------------------------
(* What everyone shares.                                                     *)

Least(m, n) == IF m < n THEN m ELSE n
Greatest(m, n) == IF m > n THEN m ELSE n

\* clamp(n, low, 100)
Clamp(n, low) == Greatest(low, Least(n, 100))

DailyCapForRamp(r) == IF r <= 0 THEN 0 ELSE RampCurve[Least(r, Len(RampCurve))]

\* Somebody outside the chain writes the score or the failures while a slot holds a
\* copy of the row.
Meddle == meddled' = meddled \cup {s \in Slots : pc[s] = "score"}

\* A write of the status that was decided on an earlier reading of the row.
LateWrite(new) ==
  /\ status' = new
  /\ undone' = (new # "RETIRED" /\ (undone \/ status = "RETIRED"))

\* control.add.
Commanded(command) ==
  /\ IF command \in {"START", "PAIR"} THEN starts' = starts + 1 /\ UNCHANGED ends
     ELSE ends' = ends + 1 /\ UNCHANGED starts
  /\ untold' = (untold /\ command # "RETIRE")
  /\ UNCHANGED <<session, looking, found, stops, late, stray>>

\* Commands decided are dropped, and a RETIRE among them if `retirement`.
Dropped(retirement) ==
  /\ untold' = (untold \/ retirement)
  /\ UNCHANGED <<session, handlerVars, stray>>

-----------------------------------------------------------------------------
(* ingestSignal() and process(): one signal at a time per chip.              *)

Ingest(s, k) ==
  /\ pc[s] = "idle" /\ signals < MaxSignals
  /\ pc' = [pc EXCEPT ![s] = "waiting"]
  /\ kind' = [kind EXCEPT ![s] = k]
  /\ chain' = Append(chain, s)
  /\ signals' = signals + 1
  /\ UNCHANGED <<rowVars, workerVars, seen, otherVars, pastVars>>
  /\ UNCHANGED <<day, ops, connects, faults>>

\* The promise of the previous signal of this chip has settled.
MyTurn(s) == pc[s] = "waiting" /\ chain # <<>> /\ Head(chain) = s

\* The promise of the call settles and the next in the chain may run.
Settle(s) ==
  /\ chain' = Tail(chain)
  /\ pc' = [pc EXCEPT ![s] = "idle"]
  /\ seen' = [seen EXCEPT ![s] = NoRow]
  /\ UNCHANGED kind

\* findUnique; a RETIRED chip is left alone.
ReadRow(s) ==
  /\ MyTurn(s)
  /\ \/ status = "RETIRED" /\ Settle(s)
     \/ /\ status # "RETIRED"
        /\ pc' = [pc EXCEPT ![s] = "score"]
        /\ seen' = [seen EXCEPT ![s] =
             [status |-> status, score |-> score, fails |-> fails, cap |-> cap]]
        /\ UNCHANGED <<chain, kind>>
  /\ meddled' = meddled \ {s}
  /\ UNCHANGED <<rowVars, workerVars, otherVars, budgetVars, bad, undone, lost>>

\* [mutant] the kill switch is tested after the cooldown
JudgedMildFirst(r) ==
  IF r.score < CooldownThreshold
  THEN IF r.status = "COOLDOWN" THEN "none" ELSE "cooldown"
  ELSE IF r.fails >= MaxConsecFails THEN "retire"
  ELSE IF r.score < SoftThreshold THEN "reduceRamp"
  ELSE IF r.status = "COOLDOWN" THEN "recover" ELSE "none"

\* applyPolicy: the status is the one read by ReadRow.
Judged(r) ==
  IF r.score < RetireThreshold \/ r.fails >= MaxConsecFails THEN "retire"
  ELSE IF r.score < CooldownThreshold
       THEN IF r.status = "COOLDOWN" THEN "none" ELSE "cooldown"
  ELSE IF r.score < SoftThreshold THEN "reduceRamp"
  ELSE IF r.status = "COOLDOWN" THEN "recover" ELSE "none"

\* [mutant] every signal heals the chip by the time since the last one
HealedAlways(k) == IF k \in DOMAIN Weight THEN Heals ELSE {0}

\* Passive healing: not on a bad signal.
Healed(k) == IF Weight[k] < 0 THEN {0} ELSE Heals

FailsAfter(k, n) == IF k = "SEND_FAIL" THEN n + 1 ELSE IF k = "RECOVERED" THEN 0 ELSE n

\* The score and the failures computed from the row read, whatever the row is now.
WriteScore(s) ==
  /\ pc[s] = "score"
  /\ \E h \in Healed(kind[s]) :
       LET new == [seen[s] EXCEPT !.score = Clamp(@ + h + Weight[kind[s]], 0),
                                  !.fails = FailsAfter(kind[s], @)]
       IN /\ score' = new.score /\ fails' = new.fails
          /\ IF Judged(new) = "none" THEN Settle(s)
             ELSE /\ pc' = [pc EXCEPT ![s] = "policy"]
                  /\ seen' = [seen EXCEPT ![s] = new]
                  /\ UNCHANGED <<chain, kind>>
  /\ silent' = FALSE
  /\ bad' = IF Weight[kind[s]] < 0 THEN bad + 1 ELSE 0
  /\ meddled' = meddled \ {s}
  /\ UNCHANGED <<status, cap, ramp, resetDue, workerVars, otherVars, budgetVars, undone, lost>>

HalfCap(c) == Greatest(1, c \div 2)

\* retire, cooldown, reduceRamp or recover: the row write of each.
ApplyPolicy(s) ==
  /\ pc[s] = "policy"
  /\ LET verdict == Judged(seen[s])
     IN \/ /\ verdict = "retire" /\ LateWrite("RETIRED") /\ UNCHANGED <<cap, fails>>
        \/ /\ verdict = "cooldown" /\ LateWrite("COOLDOWN") /\ UNCHANGED <<cap, fails>>
        \/ /\ verdict = "recover" /\ LateWrite("WARMING")
           /\ cap' = CooldownRampCap /\ fails' = 0
        \/ /\ verdict = "reduceRamp" /\ UNCHANGED <<status, undone, fails>>
           /\ cap' = IF HalfCap(seen[s].cap) < seen[s].cap THEN HalfCap(seen[s].cap) ELSE cap
  /\ IF Judged(seen[s]) = "reduceRamp" THEN Settle(s)
     ELSE /\ pc' = [pc EXCEPT ![s] = "command"] /\ UNCHANGED <<chain, kind, seen>>
  /\ UNCHANGED <<score, ramp, resetDue, silent, workerVars, otherVars, budgetVars, bad>>
  /\ UNCHANGED <<meddled, lost>>

\* The calls with a RETIRE to add.
Retiring == {s \in Slots : pc[s] = "command" /\ Judged(seen[s]) = "retire"}

CommandOf(verdict) ==
  IF verdict = "retire" THEN "RETIRE" ELSE IF verdict = "cooldown" THEN "STOP" ELSE "START"

\* control.add of retire, cooldown or recover.
SendCommand(s) ==
  /\ pc[s] = "command"
  /\ Commanded(CommandOf(Judged(seen[s])))
  /\ Settle(s)
  /\ UNCHANGED <<rowVars, otherVars, budgetVars, pastVars>>

\* A failed HEALTH job comes back after its backoff.
Retry(s) ==
  /\ pc[s] = "retry"
  /\ pc' = [pc EXCEPT ![s] = "waiting"]
  /\ chain' = Append(chain, s)
  /\ UNCHANGED <<rowVars, workerVars, kind, seen, otherVars, budgetVars, pastVars>>

-----------------------------------------------------------------------------
(* sweepCooldowns(), every five minutes: one sweep ends before the next.     *)

\* [mutant] the cutoff is compared the wrong way round
SweepsFresh == status = "COOLDOWN" /\ ~silent

\* The findMany of the sweep.
Sweepable == status = "COOLDOWN" /\ silent

SweepRead ==
  /\ sweep = "idle"
  /\ IF Sweepable THEN sweep' = "heal" /\ sweepScore' = score
     ELSE UNCHANGED <<sweep, sweepScore>>
  /\ UNCHANGED <<rowVars, workerVars, chainVars, reset, resetRow, op, budgetVars, pastVars>>

SweepHeal ==
  /\ sweep = "heal"
  /\ score' = Clamp(sweepScore + 25, SoftThreshold)
  /\ silent' = FALSE
  /\ sweep' = "recover" /\ sweepScore' = 0
  /\ bad' = 0 /\ Meddle
  /\ UNCHANGED <<status, fails, cap, ramp, resetDue, workerVars, chainVars>>
  /\ UNCHANGED <<reset, resetRow, op, budgetVars, undone, lost>>

SweepRecover ==
  /\ sweep = "recover"
  /\ LateWrite("WARMING")
  /\ cap' = CooldownRampCap /\ fails' = 0 /\ Meddle
  /\ sweep' = "command"
  /\ UNCHANGED <<score, ramp, resetDue, silent, workerVars, chainVars>>
  /\ UNCHANGED <<sweepScore, reset, resetRow, op, budgetVars, bad, lost>>

SweepCommand ==
  /\ sweep = "command"
  /\ Commanded("START")
  /\ sweep' = "idle"
  /\ UNCHANGED <<rowVars, chainVars, sweepScore, reset, resetRow, op, budgetVars, pastVars>>

SweepStep == SweepRead \/ SweepHeal \/ SweepRecover \/ SweepCommand

-----------------------------------------------------------------------------
(* resetDailyIfNeeded() of the scheduler.                                    *)

ResetRead ==
  /\ reset = "idle" /\ resetDue
  /\ status \in {"WARMING", "ACTIVE", "COOLDOWN"}
  /\ reset' = "write" /\ resetRow' = [ramp |-> ramp, status |-> status]
  /\ UNCHANGED <<rowVars, workerVars, chainVars, sweep, sweepScore, op, budgetVars, pastVars>>

ResetWrite ==
  /\ reset = "write"
  /\ LET newRamp == resetRow.ramp + 1
     IN /\ ramp' = newRamp
        /\ cap' = DailyCapForRamp(newRamp)
        /\ IF resetRow.status = "WARMING" /\ newRamp >= PromoteDay THEN LateWrite("ACTIVE")
           ELSE UNCHANGED <<status, undone>>
  /\ resetDue' = FALSE
  /\ reset' = "idle" /\ resetRow' = NoReading
  /\ UNCHANGED <<score, fails, silent, workerVars, chainVars, sweep, sweepScore, op>>
  /\ UNCHANGED <<budgetVars, bad, meddled, lost>>

-----------------------------------------------------------------------------
(* The chip endpoints.                                                       *)

Op == ops < MaxOps /\ ops' = ops + 1 /\ UNCHANGED <<signals, day, connects, faults>>

\* sendControl (and pair, which writes no row): the row first, then the command.
SendControl(type) ==
  /\ Op /\ op = "none"
  /\ status' = IF type = "STOP" /\ status # "RETIRED" THEN "PAUSED"
               ELSE IF type = "RETIRE" THEN "RETIRED"
               ELSE IF type = "START" /\ status \in {"PAUSED", "COOLDOWN"} THEN "WARMING"
               ELSE status
  /\ undone' = (undone /\ type # "RETIRE")
  /\ op' = type
  /\ UNCHANGED <<score, fails, cap, ramp, resetDue, silent, workerVars, chainVars>>
  /\ UNCHANGED <<sweep, sweepScore, reset, resetRow, bad, meddled, lost>>

AddControl ==
  /\ op # "none"
  /\ Commanded(op)
  /\ op' = "none"
  /\ UNCHANGED <<rowVars, chainVars, sweep, sweepScore, reset, resetRow>>
  /\ UNCHANGED <<budgetVars, pastVars>>

\* create() of the phone of a RETIRED chip: the row starts again.
Recreate ==
  /\ Op /\ status = "RETIRED"
  /\ status' = "NEW" /\ ramp' = 0 /\ cap' = 0 /\ score' = 100 /\ fails' = 0
  /\ bad' = 0 /\ Meddle
  /\ UNCHANGED <<resetDue, silent, workerVars, chainVars, otherVars, undone, lost>>

\* updateConfig: the operator sets the ramp day and the cap.
UpdateConfig(r) ==
  /\ Op
  /\ ramp' = r /\ cap' = DailyCapForRamp(r)
  /\ UNCHANGED <<status, score, fails, resetDue, silent, workerVars, chainVars, otherVars, pastVars>>

-----------------------------------------------------------------------------
(* The worker: onControl(), startSession() and stopSession().                *)

WorkerStep == UNCHANGED <<rowVars, chainVars, otherVars, budgetVars, pastVars>>

\* A START or PAIR is taken: sessions.has(), and the read of the row begins.
TakeStart ==
  /\ starts > 0 /\ starts' = starts - 1
  /\ looking' = IF session THEN looking ELSE looking + 1
  /\ UNCHANGED <<session, ends, found, stops, late, stray, untold>>
  /\ WorkerStep

\* [mutant] a RETIRED chip is started like any other
LookAnyway ==
  /\ looking > 0 /\ looking' = looking - 1
  /\ found' = found + 1
  /\ UNCHANGED <<session, starts, ends, stops, late, stray, untold>>
  /\ WorkerStep

\* findUnique reads the row: a RETIRED chip is not started.
Look ==
  /\ looking > 0 /\ looking' = looking - 1
  /\ found' = IF status = "RETIRED" THEN found ELSE found + 1
  /\ UNCHANGED <<session, starts, ends, stops, late, stray, untold>>
  /\ WorkerStep

\* Back from findUnique, sessions.set() asks nothing again: the start may be one that a
\* STOP or RETIRE overtook.
Found ==
  /\ found > 0 /\ found' = found - 1
  /\ session' = TRUE
  /\ \/ late > 0 /\ late' = late - 1 /\ stray' = TRUE
     \/ found > late /\ stray' = FALSE /\ UNCHANGED late
  /\ UNCHANGED <<starts, ends, looking, stops, untold>>
  /\ WorkerStep

\* A STOP or RETIRE is taken: without a session there is nothing to stop, and the starts
\* past their read go on.
TakeStop ==
  /\ ends > 0 /\ ends' = ends - 1
  /\ stops' = IF session THEN stops + 1 ELSE stops
  /\ late' = found
  /\ UNCHANGED <<session, starts, looking, found, stray, untold>>
  /\ WorkerStep

\* stop() is back from its flush: sessions.delete(), whatever session is there by now.
Stopped ==
  /\ stops > 0 /\ stops' = stops - 1
  /\ session' = FALSE /\ stray' = FALSE
  /\ UNCHANGED <<starts, ends, looking, found, late, untold>>
  /\ WorkerStep

Worker == TakeStart \/ Look \/ Found \/ TakeStop \/ Stopped

-----------------------------------------------------------------------------
(* The worker's CONNECTED hook, and time.                                    *)

\* publishPairState, both of its updates: a NEW chip enters WARMING; lastSignalAt is now.
Connected ==
  /\ session /\ connects < MaxConnects
  /\ IF status = "NEW"
     THEN status' = "WARMING" /\ ramp' = 1 /\ cap' = 5 /\ resetDue' = FALSE
     ELSE UNCHANGED <<status, ramp, cap, resetDue>>
  /\ silent' = FALSE
  /\ connects' = connects + 1
  /\ UNCHANGED <<score, fails, workerVars, chainVars, otherVars, pastVars>>
  /\ UNCHANGED <<signals, day, ops, faults>>

\* An hour without a signal.
GoSilent ==
  /\ ~silent
  /\ silent' = TRUE
  /\ UNCHANGED <<status, score, fails, cap, ramp, resetDue, workerVars, chainVars, otherVars>>
  /\ UNCHANGED <<budgetVars, pastVars>>

Midnight ==
  /\ day < MaxDay
  /\ day' = day + 1
  /\ resetDue' = TRUE
  /\ UNCHANGED <<status, score, fails, cap, ramp, silent, workerVars, chainVars, otherVars>>
  /\ UNCHANGED <<signals, ops, connects, faults, pastVars>>

-----------------------------------------------------------------------------
(* Failures: at most MaxFaults.  A HEALTH job is tried again, a signal of    *)
(* the delivery sweep, or a job out of attempts, is lost.                    *)

Fault == faults < MaxFaults /\ faults' = faults + 1
         /\ UNCHANGED <<signals, day, ops, connects>>

\* The jobs of the calls in `dead` come back, or are lost.
Drop(dead) ==
  /\ \E back \in SUBSET dead :
       /\ pc' = [s \in Slots |-> IF s \in back THEN "retry"
                                 ELSE IF s \in dead THEN "idle" ELSE pc[s]]
       /\ lost' = (lost \/ back # dead)
  /\ seen' = [s \in Slots |-> IF s \in dead THEN NoRow ELSE seen[s]]
  /\ UNCHANGED kind

\* An await of process() throws with a later signal behind it in the chain.  The one
\* of control.add may throw after redis has taken the command.
Throw(s) ==
  /\ Fault
  /\ MyTurn(s) \/ pc[s] \in InFlight
  /\ Len(chain) > 1 /\ chain' = Tail(chain)
  /\ Drop({s})
  /\ \/ pc[s] = "command" /\ Commanded(CommandOf(Judged(seen[s])))
     \/ Dropped(s \in Retiring)
  /\ UNCHANGED <<rowVars, otherVars, bad, meddled, undone>>

\* With nothing behind it, the promise left in the map rejects unhandled, and that
\* ends the process: what was in progress in the core is forgotten.
Crash ==
  /\ Fault
  /\ chain' = <<>>
  /\ Drop({s \in Slots : pc[s] \notin {"idle", "retry"}})
  /\ sweep' = "idle" /\ reset' = "idle" /\ op' = "none"
  /\ Dropped(op = "RETIRE" \/ Retiring # {})
  /\ UNCHANGED <<rowVars, sweepScore, resetRow, bad, meddled, undone>>

\* An await of the sweep, of the reset or of sendControl throws.
GiveUp ==
  /\ Fault
  /\ \/ sweep # "idle" /\ sweep' = "idle" /\ UNCHANGED <<reset, op, workerVars>>
     \/ reset # "idle" /\ reset' = "idle" /\ UNCHANGED <<sweep, op, workerVars>>
     \/ /\ op # "none" /\ op' = "none" /\ UNCHANGED <<sweep, reset>>
        /\ Dropped(op = "RETIRE")
  /\ UNCHANGED <<rowVars, chainVars, sweepScore, resetRow, pastVars>>

-----------------------------------------------------------------------------
Process(s) == ReadRow(s) \/ WriteScore(s) \/ ApplyPolicy(s) \/ SendCommand(s) \/ Retry(s)

Operator ==
  \/ \E type \in Commands : SendControl(type)
  \/ Recreate
  \/ \E r \in 1..Len(RampCurve) : UpdateConfig(r)

Next ==
  \/ \E s \in Slots : Process(s) \/ Throw(s) \/ \E k \in Signals : Ingest(s, k)
  \/ SweepStep \/ ResetRead \/ ResetWrite
  \/ Operator \/ AddControl
  \/ Worker \/ Connected \/ GoSilent \/ Midnight
  \/ Crash \/ GiveUp

Spec == Init /\ [][Next]_vars

\* The awaits settle, the sweep timer fires, and hours pass.
Fairness ==
  /\ \A s \in Slots : WF_vars(Process(s))
  /\ WF_vars(SweepStep) /\ WF_vars(GoSilent)
  /\ WF_vars(ResetRead) /\ WF_vars(ResetWrite) /\ WF_vars(AddControl)

FairSpec == Spec /\ Fairness

-----------------------------------------------------------------------------
(* Safety.                                                                   *)

AtRest == \A s \in Slots : pc[s] = "idle"

\* The chain keeps the read-modify-write of the score whole: a call about to write
\* still holds the score and failures of the row, unless the sweep or a create, which
\* are not in the chain, wrote them since (health-monitor.service.ts:27, 36-52, 93-96).
FreshCopy ==
  \A s \in Slots \ meddled :
     pc[s] = "score" => seen[s].score = score /\ seen[s].fails = fails

\* A chip hammered lightly cannot scar over: whatever silences lie between them, a run
\* of n bad signals takes at least 4n points (health-monitor.service.ts:80-87).
NoScarring == score <= Greatest(0, 100 - 4 * bad)

\* The kill switch: with no signal in hand, a chip below the retirement score, or at
\* the limit of failures, is RETIRED, unless a signal was lost on the way or a write
\* decided before the retirement landed after it (health-monitor.service.ts:107-135).
KillSwitch ==
  AtRest /\ (score < RetireThreshold \/ fails >= MaxConsecFails)
    => status = "RETIRED" \/ undone \/ lost

\* No RETIRE, and no STOP, is on its way to the worker.
Delivered == op # "RETIRE" /\ Retiring = {} /\ ends = 0

\* Once the RETIRE of a RETIRED chip is taken, its session is gone or in its flush, and no
\* handler makes another, whatever STARTs come before or after it; but for the starts
\* that had read the row and not set the session when they were overtaken, and for a
\* RETIRE that no control.add delivered (health-monitor.service.ts:128-135,
\* chips.service.ts:166-178, supervisor.ts:125-158, 170-175).
KilledIsOff ==
  status = "RETIRED" /\ Delivered
    => untold \/ (found = late /\ (session => stray \/ stops > 0))

-----------------------------------------------------------------------------
\* Liveness: COOLDOWN is temporary, the sweep sees to it once the signals stop
\* (health-monitor.service.ts:171-190).
CooldownEnds == status = "COOLDOWN" ~> status # "COOLDOWN"
=============================================================================
