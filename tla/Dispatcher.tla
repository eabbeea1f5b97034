----------------------------- MODULE Dispatcher -----------------------------
(***************************************************************************)
(* The dispatch engine of the core: SchedulerService.tick turns PENDING     *)
(* leads of RUNNING dispatches into opening jobs, rotating over the chips   *)
(* of the dispatch.  Every await of the tick is a step of its own, so that  *)
(* the interval timer, POST /scheduler/tick, the dispatch endpoints, the    *)
(* opt-out path and the health monitor interleave with it as they do in the *)
(* Node process and in Postgres.                                            *)
(*                                                                          *)
(* A member of Ticks is one caller of tick(): the interval timer, whose     *)
(* `running` flag keeps its own ticks apart (its pc is "idle" exactly when  *)
(* the flag is false), or an HTTP request to POST /scheduler/tick, which    *)
(* calls tick() directly and is stopped by no flag.                         *)
(***************************************************************************)
EXTENDS Integers, Sequences, FiniteSets

CONSTANTS
  Leads, Chips, Dispatches, Flows, Phones,
  Ticks, Timer,   \* concurrent callers of tick(), one of them the interval timer
  FlowOf,         \* Lead.flowId and Dispatch.flowId
  PhoneOf,        \* Lead.phone; one phone may be a lead of several flows
  RampCurve,      \* RAMP_CURVE: the cap of each ramp day, the last one for good
  None,           \* no lead, chip or dispatch at hand
  PromoteDay,     \* WARMING_ACTIVE_AFTER_DAYS
  ShortJitter,    \* TRUE: jitterMs may run out before the tick that armed it ends
  MaxDay,         \* bound: midnights
  MaxOps,         \* bound: calls of the dispatch, opening and suppression endpoints
  MaxMoves,       \* bound: writes of others to the chip rows, window openings and closings
  MaxFaults       \* bound: exceptions and crashes

ASSUME BoundsAssumption ==
  /\ MaxDay \in Nat /\ MaxOps \in Nat /\ MaxMoves \in Nat /\ MaxFaults \in Nat
  /\ PromoteDay \in Nat
  /\ Timer \in Ticks
  /\ ShortJitter \in BOOLEAN

ASSUME ShapeAssumption ==
  /\ FlowOf \in [Leads \cup Dispatches -> Flows]
  /\ PhoneOf \in [Leads -> Phones]
  /\ RampCurve \in Seq(Nat)
  /\ None \notin Leads \cup Chips \cup Dispatches

LeadStatus == {"PENDING", "QUEUED", "OPENED", "CONVERSING", "SUPPRESSED"}
DispatchStatus == {"DRAFT", "RUNNING", "PAUSED", "DONE"}
ChipStatus == {"NEW", "WARMING", "ACTIVE", "PAUSED", "COOLDOWN", "RETIRED"}

VARIABLES
  leadStatus, suppressed,              \* Lead rows: status and the opt-out flag
  suppression,                         \* Suppression table (phones)
  optOut,                              \* suppress()/unsuppress() calls in progress, by phone
  messages, jobs,                      \* per lead: opening Message rows, OPENINGS jobs added
  dispatchStatus, esteira, withOpenings, \* Dispatch rows; flows with an active opening
  chipStatus, healthy, sentToday, dailyCap, rampDay, lastReset, \* WhatsappNumber rows
  due, quiet, day,                     \* redis nextSend elapsed; off hours; the date
  pc, stale, plan, todo, lead, chip, cur, armed, \* locals of each tick
  ops, moves, faults,                  \* budgets
  redo, stranded, budget, jobsToday    \* history variables: no guard or state write reads them

leadVars  == <<leadStatus, suppressed, suppression, optOut>>
jobVars   == <<messages, jobs, jobsToday>>
dispVars  == <<dispatchStatus, esteira, withOpenings>>
chipVars  == <<chipStatus, healthy, sentToday, dailyCap, rampDay, lastReset, budget>>
clockVars == <<due, quiet, day>>
tickVars  == <<pc, stale, plan, todo, lead, chip, cur, armed>>
envVars   == <<ops, moves, faults>>
pastVars  == <<redo, stranded>>
vars == <<leadVars, jobVars, dispVars, chipVars, clockVars, tickVars, envVars, pastVars>>

PC == {"idle", "reset", "loop", "finish", "choose", "find", "claim",
       "prepare", "enqueue", "count", "mark", "arm", "revert"}

\* The tick owns the lead: it has won the claim and has not settled it yet.
Holding == {"prepare", "enqueue", "count", "mark", "revert"}
Holds(p, l) == pc[p] \in Holding /\ lead[p] = l

\* dailyCapForRamp(rampDay, {}): the reset never passes the flow's sendConfig.
DailyCapForRamp(r) ==
  IF r <= 0 \/ RampCurve = <<>> THEN 0
  ELSE RampCurve[IF r <= Len(RampCurve) THEN r ELSE Len(RampCurve)]

LeadsOK ==
  /\ leadStatus \in [Leads -> LeadStatus]
  /\ suppressed \in [Leads -> BOOLEAN]
  /\ suppression \subseteq Phones
  /\ optOut \in [Phones -> SUBSET {"flag", "unflag", "reopen"}]

JobsOK == /\ messages \in [Leads -> Nat]
          /\ jobs \in [Leads -> Nat]
          /\ jobsToday \in [Chips -> Nat]

DispatchesOK == /\ dispatchStatus \in [Dispatches -> DispatchStatus]
                /\ esteira \in [Dispatches -> SUBSET Chips]
                /\ withOpenings \subseteq Flows

ChipsOK ==
  /\ chipStatus \in [Chips -> ChipStatus]
  /\ healthy \in [Chips -> BOOLEAN]
  /\ sentToday \in [Chips -> Nat] /\ dailyCap \in [Chips -> Nat]
  /\ rampDay \in [Chips -> Nat] /\ lastReset \in [Chips -> Nat]
  /\ budget \in [Chips -> Nat]

ClockOK == due \in [Chips -> BOOLEAN] /\ quiet \subseteq Chips /\ day \in Nat

StaleRow == [chip : Chips, ramp : Nat, status : ChipStatus]

TicksOK ==
  /\ pc \in [Ticks -> PC]
  /\ stale \in [Ticks -> SUBSET StaleRow]
  /\ plan \in [Ticks -> [Dispatches -> SUBSET Chips]]
  /\ todo \in [Ticks -> SUBSET Dispatches]
  /\ lead \in [Ticks -> Leads \cup {None}]
  /\ chip \in [Ticks -> Chips \cup {None}]
  /\ cur \in [Ticks -> Dispatches \cup {None}]
  /\ armed \in [Ticks -> SUBSET Chips]

\* What a tick has at hand at each of its awaits: the dispatch of the turn, then
\* the chip drawn, then the lead found.
LocalsOK ==
  \A p \in Ticks :
     /\ pc[p] \notin {"idle", "reset", "loop"} => cur[p] \in Dispatches
     /\ pc[p] \notin {"idle", "reset", "loop", "finish", "choose"} => chip[p] \in Chips
     /\ pc[p] \notin {"idle", "reset", "loop", "finish", "choose", "find"} => lead[p] \in Leads

BudgetsOK == ops \in Nat /\ moves \in Nat /\ faults \in Nat
HistoryOK == redo \subseteq Leads /\ stranded \subseteq Leads

TypeOK == /\ LeadsOK /\ JobsOK /\ DispatchesOK /\ ChipsOK /\ ClockOK
          /\ TicksOK /\ LocalsOK /\ BudgetsOK /\ HistoryOK

-----------------------------------------------------------------------------
(* The day starts: leads imported, dispatches drafted or started, chips     *)
(* paired and already reset today.                                          *)

Init ==
  /\ leadStatus = [l \in Leads |-> "PENDING"]
  /\ suppressed = [l \in Leads |-> FALSE]
  /\ suppression = {}
  /\ optOut = [n \in Phones |-> {}]
  /\ messages = [l \in Leads |-> 0] /\ jobs = [l \in Leads |-> 0]
  /\ dispatchStatus \in [Dispatches -> {"DRAFT", "RUNNING"}]
  /\ esteira = [d \in Dispatches |-> Chips]
  /\ withOpenings = Flows
  /\ chipStatus = [c \in Chips |-> "WARMING"]
  /\ healthy = [c \in Chips |-> TRUE]
  /\ rampDay = [c \in Chips |-> 1] /\ lastReset = [c \in Chips |-> 0]
  /\ sentToday = [c \in Chips |-> 0]
  /\ dailyCap = [c \in Chips |-> DailyCapForRamp(1)] /\ budget = dailyCap
  /\ jobsToday = [c \in Chips |-> 0]
  /\ due = [c \in Chips |-> TRUE] /\ quiet = {} /\ day = 0
  /\ pc = [p \in Ticks |-> "idle"]
  /\ stale = [p \in Ticks |-> {}]
  /\ plan = [p \in Ticks |-> [d \in Dispatches |-> {}]]
  /\ todo = [p \in Ticks |-> {}]
  /\ armed = [p \in Ticks |-> {}]
  /\ lead = [p \in Ticks |-> None] /\ chip = [p \in Ticks |-> None]
  /\ cur = [p \in Ticks |-> None]
  /\ ops = 0 /\ moves = 0 /\ faults = 0
  /\ redo = {} /\ stranded = {}

-----------------------------------------------------------------------------
(* One tick: reset, load, then dispatch by dispatch.                        *)

Goto(p, label) == pc' = [pc EXCEPT ![p] = label]

\* Back to the `for (const dispatch of dispatches)` of the tick.
NextTurn(p) ==
  /\ Goto(p, "loop")
  /\ lead' = [lead EXCEPT ![p] = None]
  /\ chip' = [chip EXCEPT ![p] = None]
  /\ cur' = [cur EXCEPT ![p] = None]
  /\ UNCHANGED <<stale, plan, todo>>

\* The promise of tick() settles, by its end or by an exception it does not catch.
Return(p) ==
  /\ Goto(p, "idle")
  /\ lead' = [lead EXCEPT ![p] = None]
  /\ chip' = [chip EXCEPT ![p] = None]
  /\ cur' = [cur EXCEPT ![p] = None]
  /\ stale' = [stale EXCEPT ![p] = {}]
  /\ todo' = [todo EXCEPT ![p] = {}]
  /\ plan' = [plan EXCEPT ![p] = [d \in Dispatches |-> {}]]
  /\ armed' = [armed EXCEPT ![p] = {}]

\* [mutant] the reset forgets to compare lastResetAt with midnight
ResetAgain(c) == chipStatus[c] \in {"WARMING", "ACTIVE", "COOLDOWN"} /\ day > 0

\* The findMany of resetDailyIfNeeded: chips not reset since midnight.
DueForReset(c) == /\ chipStatus[c] \in {"WARMING", "ACTIVE", "COOLDOWN"}
                  /\ lastReset[c] < day

StartTick(p) ==
  /\ pc[p] = "idle"
  /\ Goto(p, "reset")
  /\ stale' = [stale EXCEPT ![p] =
       {[chip |-> c, ramp |-> rampDay[c], status |-> chipStatus[c]]
          : c \in {x \in Chips : DueForReset(x)}}]
  /\ UNCHANGED <<plan, todo, lead, chip, cur, armed>>
  /\ UNCHANGED <<leadVars, jobVars, dispVars, chipVars, clockVars, envVars, pastVars>>

\* One chip's update, computed from the row read by StartTick.  The history of the
\* day starts over at the first reset after midnight only.
ResetRow(p, r) ==
  LET c == r.chip
      newRamp == r.ramp + 1
      cap == DailyCapForRamp(newRamp)
  IN /\ stale' = [stale EXCEPT ![p] = @ \ {r}]
     /\ sentToday' = [sentToday EXCEPT ![c] = 0]
     /\ rampDay' = [rampDay EXCEPT ![c] = newRamp]
     /\ dailyCap' = [dailyCap EXCEPT ![c] = cap]
     /\ lastReset' = [lastReset EXCEPT ![c] = day]
     /\ chipStatus' = IF r.status = "WARMING" /\ newRamp >= PromoteDay
                      THEN [chipStatus EXCEPT ![c] = "ACTIVE"] ELSE chipStatus
     /\ budget' = IF lastReset[c] < day \/ cap > budget[c]
                  THEN [budget EXCEPT ![c] = cap] ELSE budget
     /\ jobsToday' = IF lastReset[c] < day
                     THEN [jobsToday EXCEPT ![c] = 0] ELSE jobsToday

ResetChip(p) ==
  /\ pc[p] = "reset"
  /\ \E r \in stale[p] : ResetRow(p, r)
  /\ UNCHANGED <<healthy, messages, jobs>>
  /\ UNCHANGED <<pc, plan, todo, lead, chip, cur, armed>>
  /\ UNCHANGED <<leadVars, dispVars, clockVars, envVars, pastVars>>

\* [mutant] an off-by-one in the free capacity
SendableAtCap(c) == /\ chipStatus[c] \in {"ACTIVE", "WARMING"}
                    /\ healthy[c]
                    /\ dailyCap[c] - sentToday[c] >= 0

\* canSend without its clock: the part that reads the chip row.
SendableRow(c) == /\ chipStatus[c] \in {"ACTIVE", "WARMING"}
                  /\ healthy[c]
                  /\ dailyCap[c] - sentToday[c] > 0

\* The findMany of the tick.  The chip rows are read once, here: what later
\* turns know of a chip's cap and status is what it was at this moment.
LoadDispatches(p) ==
  /\ pc[p] = "reset" /\ stale[p] = {}
  /\ Goto(p, "loop")
  /\ LET running == {d \in Dispatches : dispatchStatus[d] = "RUNNING"}
     IN /\ todo' = [todo EXCEPT ![p] = running]
        /\ plan' = [plan EXCEPT ![p] = [d \in Dispatches |->
             IF d \in running THEN {c \in esteira[d] : SendableRow(c)} ELSE {}]]
  /\ UNCHANGED <<stale, lead, chip, cur, armed>>
  /\ UNCHANGED <<leadVars, jobVars, dispVars, chipVars, clockVars, envVars, pastVars>>

\* [mutant] a QUEUED lead counts as waiting, and may be found again
WaitingOrQueued(f) == {l \in Leads : /\ FlowOf[l] = f
                                     /\ leadStatus[l] \in {"PENDING", "QUEUED"}
                                     /\ ~suppressed[l]}

\* Both the count and the findFirst of the tick select these leads.
Waiting(f) == {l \in Leads : /\ FlowOf[l] = f
                             /\ leadStatus[l] = "PENDING"
                             /\ ~suppressed[l]}

CountPending(p) ==
  /\ pc[p] = "loop"
  /\ \E d \in todo[p] :
       /\ Goto(p, IF Waiting(FlowOf[d]) = {} THEN "finish" ELSE "choose")
       /\ cur' = [cur EXCEPT ![p] = d]
       /\ todo' = [todo EXCEPT ![p] = @ \ {d}]
  /\ UNCHANGED <<stale, plan, lead, chip, armed>>
  /\ UNCHANGED <<leadVars, jobVars, dispVars, chipVars, clockVars, envVars, pastVars>>

\* dispatch.update({ status: 'DONE' }): no condition on the status it replaces.
FinishDispatch(p) ==
  /\ pc[p] = "finish"
  /\ dispatchStatus' = [dispatchStatus EXCEPT ![cur[p]] = "DONE"]
  /\ NextTurn(p)
  /\ UNCHANGED <<armed, esteira, withOpenings>>
  /\ UNCHANGED <<leadVars, jobVars, chipVars, clockVars, envVars, pastVars>>

\* pickEligibleChip over the rows of the snapshot: the window and rest days are
\* judged by the clock of now, nextSend is read from redis now.
DueBySchedule(c) == due[c]
Eligible(p) == {c \in plan[p][cur[p]] : c \notin quiet /\ DueBySchedule(c)}

SkipDispatch(p) ==
  /\ pc[p] = "choose"
  /\ FlowOf[cur[p]] \notin withOpenings \/ Eligible(p) = {}
  /\ NextTurn(p)
  /\ UNCHANGED armed
  /\ UNCHANGED <<leadVars, jobVars, dispVars, chipVars, clockVars, envVars, pastVars>>

\* The draw is weighted by free capacity, and every weight is positive.
ChooseChip(p) ==
  /\ pc[p] = "choose"
  /\ FlowOf[cur[p]] \in withOpenings
  /\ \E c \in Eligible(p) : chip' = [chip EXCEPT ![p] = c]
  /\ Goto(p, "find")
  /\ UNCHANGED <<stale, plan, todo, lead, cur, armed>>
  /\ UNCHANGED <<leadVars, jobVars, dispVars, chipVars, clockVars, envVars, pastVars>>

-----------------------------------------------------------------------------
(* dispatchOne: claim a lead, enqueue its opening, settle the lead.         *)

\* findFirst by createdAt; one import gives all of its leads the same createdAt,
\* so any waiting lead may come first.
FindLead(p) ==
  /\ pc[p] = "find"
  /\ \/ /\ Waiting(FlowOf[cur[p]]) = {}
        /\ NextTurn(p)
     \/ /\ \E l \in Waiting(FlowOf[cur[p]]) : lead' = [lead EXCEPT ![p] = l]
        /\ Goto(p, "claim")
        /\ UNCHANGED <<stale, plan, todo, chip, cur>>
  /\ UNCHANGED armed
  /\ UNCHANGED <<leadVars, jobVars, dispVars, chipVars, clockVars, envVars, pastVars>>

\* [mutant] the claim is an update by id, with no condition on the status
ClaimableById(l) == l \in Leads

\* updateMany where { id, status: 'PENDING' }: the status is compared, the flag is not.
Claimable(l) == leadStatus[l] = "PENDING"

ClaimLead(p) ==
  /\ pc[p] = "claim"
  /\ IF Claimable(lead[p])
     THEN /\ leadStatus' = [leadStatus EXCEPT ![lead[p]] = "QUEUED"]
          /\ Goto(p, "prepare")
          /\ UNCHANGED <<stale, plan, todo, lead, chip, cur>>
     ELSE NextTurn(p) /\ UNCHANGED leadStatus
  /\ UNCHANGED <<armed, suppressed, suppression, optOut>>
  /\ UNCHANGED <<jobVars, dispVars, chipVars, clockVars, envVars, pastVars>>

\* Draw the opening, upsert the conversation, create the OUT message row: one step for their
\* awaits, as nothing else here reads or writes those rows (Wording takes the draw apart).
PrepareOpening(p) ==
  /\ pc[p] = "prepare"
  /\ messages' = [messages EXCEPT ![lead[p]] = @ + 1]
  /\ Goto(p, "enqueue")
  /\ UNCHANGED <<stale, plan, todo, lead, chip, cur, armed, jobs, jobsToday>>
  /\ UNCHANGED <<leadVars, dispVars, chipVars, clockVars, envVars, pastVars>>

AddJob(l, c) ==
  /\ jobs' = [jobs EXCEPT ![l] = @ + 1]
  /\ jobsToday' = [jobsToday EXCEPT ![c] = @ + 1]
  /\ UNCHANGED messages

EnqueueOpening(p) ==
  /\ pc[p] = "enqueue"
  /\ AddJob(lead[p], chip[p])
  /\ Goto(p, "count")
  /\ UNCHANGED <<stale, plan, todo, lead, chip, cur, armed>>
  /\ UNCHANGED <<leadVars, dispVars, chipVars, clockVars, envVars, pastVars>>

CountSent(p) ==
  /\ pc[p] = "count"
  /\ sentToday' = [sentToday EXCEPT ![chip[p]] = @ + 1]
  /\ Goto(p, "mark")
  /\ UNCHANGED <<stale, plan, todo, lead, chip, cur, armed>>
  /\ UNCHANGED <<chipStatus, healthy, dailyCap, rampDay, lastReset, budget>>
  /\ UNCHANGED <<leadVars, jobVars, dispVars, clockVars, envVars, pastVars>>

\* lead.update({ status: 'OPENED' }): whatever the status has become meanwhile.
MarkOpened(p) ==
  /\ pc[p] = "mark"
  /\ leadStatus' = [leadStatus EXCEPT ![lead[p]] = "OPENED"]
  /\ Goto(p, "arm")
  /\ UNCHANGED <<stale, plan, todo, lead, chip, cur, armed>>
  /\ UNCHANGED <<suppressed, suppression, optOut>>
  /\ UNCHANGED <<jobVars, dispVars, chipVars, clockVars, envVars, pastVars>>

ArmNextSend(p) ==
  /\ pc[p] = "arm"
  /\ due' = [due EXCEPT ![chip[p]] = FALSE]
  /\ armed' = [armed EXCEPT ![p] = @ \cup {chip[p]}]
  /\ NextTurn(p)
  /\ UNCHANGED <<quiet, day>>
  /\ UNCHANGED <<leadVars, jobVars, dispVars, chipVars, envVars, pastVars>>

EndTick(p) ==
  /\ pc[p] = "loop" /\ todo[p] = {}
  /\ Return(p)
  /\ UNCHANGED <<leadVars, jobVars, dispVars, chipVars, clockVars, envVars, pastVars>>

-----------------------------------------------------------------------------
(* Failures.                                                                *)

Fault == faults < MaxFaults /\ faults' = faults + 1 /\ UNCHANGED <<ops, moves>>

\* An await inside the try of dispatchOne throws.  From "enqueue" the job may have
\* reached redis before the connection broke; from "count" and "mark" it has.
ThrowInDispatch(p) ==
  /\ Fault
  /\ pc[p] \in {"prepare", "enqueue", "count", "mark"}
  /\ Goto(p, "revert")
  /\ \/ /\ redo' = IF pc[p] \in {"count", "mark"} THEN redo \cup {lead[p]} ELSE redo
        /\ UNCHANGED jobVars
     \/ /\ pc[p] = "enqueue"
        /\ AddJob(lead[p], chip[p])
        /\ redo' = redo \cup {lead[p]}
  /\ UNCHANGED <<stale, plan, todo, lead, chip, cur, armed, stranded>>
  /\ UNCHANGED <<leadVars, dispVars, chipVars, clockVars>>

\* [mutant] the catch reopens the lead whatever its status has become
RevertedAlways(s) == IF s \in LeadStatus THEN "PENDING" ELSE s

\* [mutant] the catch only logs
NotReverted(s) == s

\* What the catch makes of a status: updateMany where { id, status: 'QUEUED' }.
Reverted(s) == IF s = "QUEUED" THEN "PENDING" ELSE s

RevertClaim(p) ==
  /\ pc[p] = "revert"
  /\ leadStatus' = [leadStatus EXCEPT ![lead[p]] = Reverted(@)]
  /\ NextTurn(p)
  /\ UNCHANGED <<armed, suppressed, suppression, optOut>>
  /\ UNCHANGED <<jobVars, dispVars, chipVars, clockVars, envVars, pastVars>>

\* An await outside that try throws, or the one inside the catch: tick() rejects.
\* The claim may have been committed when its answer is lost.
AbortTick(p) ==
  /\ Fault
  /\ pc[p] \in {"reset", "loop", "finish", "choose", "find", "claim", "revert", "arm"}
  /\ \/ /\ stranded' = IF pc[p] = "revert" THEN stranded \cup {lead[p]} ELSE stranded
        /\ UNCHANGED leadStatus
     \/ /\ pc[p] = "claim" /\ Claimable(lead[p])
        /\ leadStatus' = [leadStatus EXCEPT ![lead[p]] = "QUEUED"]
        /\ stranded' = stranded \cup {lead[p]}
  /\ Return(p)
  /\ UNCHANGED <<suppressed, suppression, optOut, redo>>
  /\ UNCHANGED <<jobVars, dispVars, chipVars, clockVars>>

\* The core process dies: every tick and every request in progress is forgotten.
Crash ==
  /\ Fault
  /\ pc' = [p \in Ticks |-> "idle"]
  /\ lead' = [p \in Ticks |-> None] /\ chip' = [p \in Ticks |-> None]
  /\ cur' = [p \in Ticks |-> None]
  /\ stale' = [p \in Ticks |-> {}] /\ todo' = [p \in Ticks |-> {}]
  /\ plan' = [p \in Ticks |-> [d \in Dispatches |-> {}]]
  /\ armed' = [p \in Ticks |-> {}]
  /\ optOut' = [n \in Phones |-> {}]
  /\ stranded' = stranded \cup {l \in Leads : \E p \in Ticks : Holds(p, l)}
  /\ UNCHANGED <<leadStatus, suppressed, suppression, redo>>
  /\ UNCHANGED <<jobVars, dispVars, chipVars, clockVars>>

-----------------------------------------------------------------------------
(* The endpoints: dispatches, openings, opt-out and its reversal.           *)

Op == ops < MaxOps /\ ops' = ops + 1 /\ UNCHANGED <<moves, faults>>

\* PATCH dispatches/:id/status.  Only RUNNING has conditions.
SetStatus(d, s) ==
  /\ Op
  /\ s = "RUNNING" => esteira[d] # {} /\ FlowOf[d] \in withOpenings
  /\ dispatchStatus' = [dispatchStatus EXCEPT ![d] = s]
  /\ UNCHANGED <<esteira, withOpenings>>
  /\ UNCHANGED <<leadVars, jobVars, chipVars, clockVars, tickVars, pastVars>>

\* setChips, addChips and removeChip: the set of chips becomes any set.
SetChips(d, cs) ==
  /\ Op
  /\ esteira' = [esteira EXCEPT ![d] = cs]
  /\ UNCHANGED <<dispatchStatus, withOpenings>>
  /\ UNCHANGED <<leadVars, jobVars, chipVars, clockVars, tickVars, pastVars>>

\* The last active opening of a flow is switched off or deleted, or one comes back.
ToggleOpenings(f) ==
  /\ Op
  /\ withOpenings' = IF f \in withOpenings THEN withOpenings \ {f} ELSE withOpenings \cup {f}
  /\ UNCHANGED <<dispatchStatus, esteira>>
  /\ UNCHANGED <<leadVars, jobVars, chipVars, clockVars, tickVars, pastVars>>

LeadsOf(n) == {l \in Leads : PhoneOf[l] = n}

\* suppress(phone): upsert the Suppression row, then mark every lead of the phone.
Suppress(n) ==
  /\ Op
  /\ suppression' = suppression \cup {n}
  /\ optOut' = [optOut EXCEPT ![n] = @ \cup {"flag"}]
  /\ UNCHANGED <<leadStatus, suppressed>>
  /\ UNCHANGED <<jobVars, dispVars, chipVars, clockVars, tickVars, pastVars>>

FlagLeads(n) ==
  /\ "flag" \in optOut[n]
  /\ optOut' = [optOut EXCEPT ![n] = @ \ {"flag"}]
  /\ suppressed' = [l \in Leads |-> suppressed[l] \/ l \in LeadsOf(n)]
  /\ leadStatus' = [l \in Leads |-> IF l \in LeadsOf(n) THEN "SUPPRESSED" ELSE leadStatus[l]]
  /\ UNCHANGED suppression
  /\ UNCHANGED <<jobVars, dispVars, chipVars, clockVars, tickVars, envVars, pastVars>>

\* unsuppress(phone): delete the row, lower the flags, reopen the SUPPRESSED leads.
Unsuppress(n) ==
  /\ Op
  /\ suppression' = suppression \ {n}
  /\ optOut' = [optOut EXCEPT ![n] = @ \cup {"unflag"}]
  /\ UNCHANGED <<leadStatus, suppressed>>
  /\ UNCHANGED <<jobVars, dispVars, chipVars, clockVars, tickVars, pastVars>>

UnflagLeads(n) ==
  /\ "unflag" \in optOut[n]
  /\ optOut' = [optOut EXCEPT ![n] = (@ \ {"unflag"}) \cup {"reopen"}]
  /\ suppressed' = [l \in Leads |-> suppressed[l] /\ l \notin LeadsOf(n)]
  /\ UNCHANGED <<leadStatus, suppression>>
  /\ UNCHANGED <<jobVars, dispVars, chipVars, clockVars, tickVars, envVars, pastVars>>

ReopenLeads(n) ==
  /\ "reopen" \in optOut[n]
  /\ optOut' = [optOut EXCEPT ![n] = @ \ {"reopen"}]
  /\ LET back == {l \in LeadsOf(n) : leadStatus[l] = "SUPPRESSED"}
     IN /\ leadStatus' = [l \in Leads |-> IF l \in back THEN "PENDING" ELSE leadStatus[l]]
        /\ redo' = redo \cup back
  /\ UNCHANGED <<suppressed, suppression, stranded>>
  /\ UNCHANGED <<jobVars, dispVars, chipVars, clockVars, tickVars, envVars>>

\* The lead answers its opening: afterTurn moves it on.
LeadReplies(l) ==
  /\ jobs[l] > 0 /\ leadStatus[l] \in {"QUEUED", "OPENED"}
  /\ leadStatus' = [leadStatus EXCEPT ![l] = "CONVERSING"]
  /\ UNCHANGED <<suppressed, suppression, optOut>>
  /\ UNCHANGED <<jobVars, dispVars, chipVars, clockVars, tickVars, envVars, pastVars>>

-----------------------------------------------------------------------------
(* What the health monitor and the chip endpoints write to the rows the      *)
(* tick reads; ChipHealth models when they do.                               *)

Move == moves < MaxMoves /\ moves' = moves + 1 /\ UNCHANGED <<ops, faults>>

\* A score write, and the status write of cooldown, retire, STOP, RETIRE or START.
ChipMoved(c, s, h) ==
  /\ Move
  /\ chipStatus' = [chipStatus EXCEPT ![c] = s]
  /\ healthy' = [healthy EXCEPT ![c] = h]
  /\ UNCHANGED <<sentToday, dailyCap, rampDay, lastReset, budget>>
  /\ UNCHANGED <<leadVars, jobVars, dispVars, clockVars, tickVars, pastVars>>

\* reduceRamp, the reduced cap of recover, or a cap the operator sets.
CapMoved(c, k) ==
  /\ Move
  /\ dailyCap' = [dailyCap EXCEPT ![c] = k]
  /\ budget' = [budget EXCEPT ![c] = IF k > @ THEN k ELSE @]
  /\ UNCHANGED <<chipStatus, healthy, sentToday, rampDay, lastReset>>
  /\ UNCHANGED <<leadVars, jobVars, dispVars, clockVars, tickVars, pastVars>>

-----------------------------------------------------------------------------
(* Time.                                                                     *)

\* The nextSend of c is over.  With the default 45 s and more, a tick that armed it
\* has ended by then; a small jitterMs.min of the flow lifts that.
NextSendElapses(c) ==
  /\ ~due[c]
  /\ ShortJitter \/ \A p \in Ticks : c \notin armed[p]
  /\ due' = [due EXCEPT ![c] = TRUE]
  /\ UNCHANGED <<quiet, day>>
  /\ UNCHANGED <<leadVars, jobVars, dispVars, chipVars, tickVars, envVars, pastVars>>

\* The send window of c opens or closes.
WindowMoves(c) ==
  /\ Move
  /\ quiet' = IF c \in quiet THEN quiet \ {c} ELSE quiet \cup {c}
  /\ UNCHANGED <<due, day>>
  /\ UNCHANGED <<leadVars, jobVars, dispVars, chipVars, tickVars, pastVars>>

Midnight ==
  /\ day < MaxDay
  /\ day' = day + 1
  /\ UNCHANGED <<due, quiet>>
  /\ UNCHANGED <<leadVars, jobVars, dispVars, chipVars, tickVars, envVars, pastVars>>

-----------------------------------------------------------------------------
Tick(p) ==
  \/ ResetChip(p) \/ LoadDispatches(p) \/ CountPending(p) \/ FinishDispatch(p)
  \/ SkipDispatch(p) \/ ChooseChip(p) \/ FindLead(p) \/ ClaimLead(p)
  \/ PrepareOpening(p) \/ EnqueueOpening(p) \/ CountSent(p) \/ MarkOpened(p)
  \/ ArmNextSend(p) \/ RevertClaim(p) \/ EndTick(p)

Failure == Crash \/ \E p \in Ticks : ThrowInDispatch(p) \/ AbortTick(p)

Endpoint ==
  \/ \E d \in Dispatches : \/ \E s \in DispatchStatus : SetStatus(d, s)
                           \/ \E cs \in SUBSET Chips : SetChips(d, cs)
  \/ \E f \in Flows : ToggleOpenings(f)
  \/ \E n \in Phones : Suppress(n) \/ Unsuppress(n)

OptOutStep(n) == FlagLeads(n) \/ UnflagLeads(n) \/ ReopenLeads(n)

ChipWrite ==
  \E c \in Chips : \/ \E s \in ChipStatus, h \in BOOLEAN : ChipMoved(c, s, h)
                   \/ \E k \in 0..DailyCapForRamp(Len(RampCurve)) : CapMoved(c, k)

Clock == Midnight \/ \E c \in Chips : NextSendElapses(c) \/ WindowMoves(c)

Next ==
  \/ \E p \in Ticks : StartTick(p) \/ Tick(p)
  \/ Failure \/ Endpoint \/ ChipWrite \/ Clock
  \/ \E n \in Phones : OptOutStep(n)
  \/ \E l \in Leads : LeadReplies(l)

Spec == Init /\ [][Next]_vars

-----------------------------------------------------------------------------
(* Safety.  A lead is in `redo` once one of the two paths that send it round *)
(* again has been taken: the catch of dispatchOne after the job was added,   *)
(* or unsuppress().  Everywhere else the claim must be enough.               *)

\* At most one tick holds a lead, and a lead gets at most one opening job, whatever
\* ticks, crashes and opt-outs interleave (scheduler.service.ts:219-260).
OneOpening ==
  \A l \in Leads \ redo :
     /\ jobs[l] <= 1
     /\ \A p, q \in Ticks : Holds(p, l) /\ Holds(q, l) => p = q

\* A lead whose opt-out flag is up is never waiting to be claimed and never claimed:
\* findFirst tests the flag, the claim only the status (scheduler.service.ts:219-228).
FlaggedIsParked ==
  \A l \in Leads \ redo : suppressed[l] => leadStatus[l] \notin {"PENDING", "QUEUED"}

\* No error path leaves a lead QUEUED with nobody to settle it: only a crash, a lost
\* answer or a failing catch does (scheduler.service.ts:225-280).
QueuedIsHeld ==
  \A l \in Leads :
     leadStatus[l] = "QUEUED" => l \in stranded \/ \E p \in Ticks : Holds(p, l)

\* A lead shown as opened, or answering, has an opening job (scheduler.service.ts:253-269).
OpenedHasJob ==
  \A l \in Leads : leadStatus[l] \in {"OPENED", "CONVERSING"} => jobs[l] > 0

\* The jobs added for a chip since its last reset exceed the highest cap the chip has had
\* since then by one per fault at most: that which kept its job from being counted
\* (scheduler.service.ts:188-204, 253-264, 308-311).
CapRespected == \A c \in Chips : jobsToday[c] <= budget[c] + faults

\* A chip climbs at most one ramp day per midnight, however many ticks reset it at
\* once: each writes the ramp day after the one it read (scheduler.service.ts:391-417).
RampPerDay == \A c \in Chips : rampDay[c] <= 1 + day

-----------------------------------------------------------------------------
(* Liveness: the timer fires for ever, the awaits settle, the jitter ends.   *)

Fairness ==
  /\ WF_vars(StartTick(Timer)) /\ \A p \in Ticks : WF_vars(Tick(p))
  /\ \A c \in Chips : WF_vars(NextSendElapses(c))
  /\ \A n \in Phones : WF_vars(OptOutStep(n))

FairSpec == Spec /\ Fairness

\* A chip of the dispatch that may send, and an opening to send.
CanWork(d) == /\ FlowOf[d] \in withOpenings
              /\ \E c \in esteira[d] \ quiet : SendableRow(c)

\* A running dispatch that in the end always has a chip able to send is finished, or
\* stopped by the operator: it works through its leads, whatever faults there are
\* (scheduler.service.ts:167-206).
Drains ==
  \A d \in Dispatches :
     <>[]CanWork(d) => (dispatchStatus[d] = "RUNNING" ~> dispatchStatus[d] # "RUNNING")
=============================================================================
