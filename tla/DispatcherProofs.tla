-------------------------- MODULE DispatcherProofs --------------------------
(***************************************************************************)
(* Proofs about Dispatcher, for every set of leads, chips, dispatches and   *)
(* callers of tick(), every ramp curve and every bound.                     *)
(***************************************************************************)
EXTENDS Dispatcher, FiniteSetTheorems, TLAPS

\* A cap of the ramp is a number, for every ramp day.
LEMMA CapIsNat == \A r \in Nat : DailyCapForRamp(r) \in Nat
BY ShapeAssumption DEF DailyCapForRamp

LEMMA TypeInit == Init => TypeOK
<1> SUFFICES ASSUME Init PROVE TypeOK
  OBVIOUS
<1>1. LeadsOK /\ JobsOK /\ DispatchesOK
  BY DEF Init, LeadsOK, JobsOK, DispatchesOK, LeadStatus, DispatchStatus
<1>2. ChipsOK /\ ClockOK
  BY CapIsNat DEF Init, ChipsOK, ClockOK, ChipStatus
<1>3. TicksOK /\ LocalsOK
  BY DEF Init, TicksOK, LocalsOK, PC
<1> QED
  BY <1>1, <1>2, <1>3 DEF Init, TypeOK, BudgetsOK, HistoryOK

\* What a step leaves alone keeps its type.
LEMMA Frame ==
  ASSUME TypeOK
  PROVE  /\ UNCHANGED leadVars => LeadsOK'
         /\ UNCHANGED jobVars => JobsOK'
         /\ UNCHANGED dispVars => DispatchesOK'
         /\ UNCHANGED chipVars => ChipsOK'
         /\ UNCHANGED clockVars => ClockOK'
         /\ UNCHANGED tickVars => TicksOK' /\ LocalsOK'
         /\ UNCHANGED envVars => BudgetsOK'
         /\ UNCHANGED pastVars => HistoryOK'
<1> USE DEF TypeOK
<1>1. UNCHANGED leadVars => LeadsOK'
  BY DEF leadVars, LeadsOK
<1>2. UNCHANGED jobVars => JobsOK'
  BY DEF jobVars, JobsOK
<1>3. UNCHANGED dispVars => DispatchesOK'
  BY DEF dispVars, DispatchesOK
<1>4. UNCHANGED chipVars => ChipsOK'
  BY DEF chipVars, ChipsOK
<1>5. UNCHANGED clockVars => ClockOK'
  BY DEF clockVars, ClockOK
<1>6. UNCHANGED tickVars => TicksOK' /\ LocalsOK'
  BY DEF tickVars, TicksOK, LocalsOK
<1>7. UNCHANGED envVars => BudgetsOK'
  BY DEF envVars, BudgetsOK
<1>8. UNCHANGED pastVars => HistoryOK'
  BY DEF pastVars, HistoryOK
<1> QED
  BY <1>1, <1>2, <1>3, <1>4, <1>5, <1>6, <1>7, <1>8

LEMMA NextTurnTicks ==
  ASSUME TypeOK, NEW p \in Ticks, NextTurn(p), armed' \in [Ticks -> SUBSET Chips]
  PROVE  TicksOK' /\ LocalsOK'
<1>1. TicksOK'
  BY DEF TypeOK, NextTurn, Goto, TicksOK, PC
<1>2. LocalsOK'
  BY DEF TypeOK, NextTurn, Goto, TicksOK, LocalsOK, PC
<1> QED
  BY <1>1, <1>2

LEMMA ReturnTicks ==
  ASSUME TypeOK, NEW p \in Ticks, Return(p)
  PROVE  TicksOK' /\ LocalsOK'
<1>1. TicksOK'
  BY DEF TypeOK, Return, Goto, TicksOK, PC
<1>2. LocalsOK'
  BY DEF TypeOK, Return, Goto, TicksOK, LocalsOK, PC
<1> QED
  BY <1>1, <1>2

\* A step that only moves the pc on, past the point where what it needs is at hand.
LEMMA GotoTicks ==
  ASSUME TypeOK, NEW p \in Ticks, NEW label \in PC \ {"choose", "find", "claim", "finish"},
         Goto(p, label), stale' = stale, plan' = plan, todo' = todo,
         lead' = lead, chip' = chip, cur' = cur, armed' = armed,
         pc[p] \in {"claim", "prepare", "enqueue", "count", "mark"}
  PROVE  TicksOK' /\ LocalsOK'
<1>1. TicksOK'
  BY DEF TypeOK, Goto, TicksOK
<1>2. LocalsOK'
  BY DEF TypeOK, Goto, TicksOK, LocalsOK, PC
<1> QED
  BY <1>1, <1>2

\* The steps of one tick keep every variable in its type.
LEMMA TypeTick ==
  ASSUME TypeOK, NEW p \in Ticks, StartTick(p) \/ Tick(p)
  PROVE  TypeOK'
<1>1. CASE StartTick(p)
  <2>1. TicksOK'
    BY <1>1 DEF StartTick, Goto, TypeOK, TicksOK, StaleRow, PC, ChipsOK
  <2>2. LocalsOK'
    BY <1>1 DEF StartTick, Goto, TypeOK, TicksOK, LocalsOK
  <2> QED
    BY <1>1, <2>1, <2>2, Frame DEF StartTick, TypeOK
<1>2. CASE ResetChip(p)
  <2> PICK r \in stale[p] :
         /\ stale' = [stale EXCEPT ![p] = @ \ {r}]
         /\ sentToday' = [sentToday EXCEPT ![r.chip] = 0]
         /\ rampDay' = [rampDay EXCEPT ![r.chip] = r.ramp + 1]
         /\ dailyCap' = [dailyCap EXCEPT ![r.chip] = DailyCapForRamp(r.ramp + 1)]
         /\ lastReset' = [lastReset EXCEPT ![r.chip] = day]
         /\ \/ chipStatus' = [chipStatus EXCEPT ![r.chip] = "ACTIVE"]
            \/ chipStatus' = chipStatus
         /\ \/ budget' = [budget EXCEPT ![r.chip] = DailyCapForRamp(r.ramp + 1)]
            \/ budget' = budget
         /\ \/ jobsToday' = [jobsToday EXCEPT ![r.chip] = 0]
            \/ jobsToday' = jobsToday
    <3> PICK r \in stale[p] : ResetRow(p, r)
      BY <1>2 DEF ResetChip
    <3>1. budget' = [budget EXCEPT ![r.chip] = DailyCapForRamp(r.ramp + 1)] \/ budget' = budget
      BY DEF ResetRow
    <3> QED
      BY <3>1 DEF ResetRow
  <2>1. r \in StaleRow /\ r.chip \in Chips /\ r.ramp \in Nat
    BY DEF TypeOK, TicksOK, StaleRow
  <2>2. DailyCapForRamp(r.ramp + 1) \in Nat
    BY <2>1, CapIsNat
  <2>3. ChipsOK'
    BY <1>2, <2>1, <2>2 DEF ResetChip, TypeOK, ChipsOK, ClockOK, ChipStatus
  <2>4. TicksOK' /\ LocalsOK'
    BY <1>2 DEF ResetChip, TypeOK, TicksOK, LocalsOK
  <2>5. JobsOK'
    BY <1>2 DEF ResetChip, TypeOK, JobsOK
  <2> QED
    BY <1>2, <2>3, <2>4, <2>5, Frame DEF ResetChip, TypeOK
<1>3. CASE LoadDispatches(p)
  <2>1. TicksOK'
    BY <1>3 DEF LoadDispatches, Goto, TypeOK, TicksOK, PC, DispatchesOK
  <2>2. LocalsOK'
    BY <1>3 DEF LoadDispatches, Goto, TypeOK, TicksOK, LocalsOK
  <2> QED
    BY <1>3, <2>1, <2>2, Frame DEF LoadDispatches, TypeOK
<1>4. CASE CountPending(p)
  <2>1. TicksOK'
    BY <1>4 DEF CountPending, Goto, TypeOK, TicksOK, PC
  <2>2. LocalsOK'
    BY <1>4 DEF CountPending, Goto, TypeOK, TicksOK, LocalsOK
  <2> QED
    BY <1>4, <2>1, <2>2, Frame DEF CountPending, TypeOK
<1>5. CASE FinishDispatch(p)
  <2>1. DispatchesOK'
    BY <1>5 DEF FinishDispatch, TypeOK, DispatchesOK, DispatchStatus
  <2>2. TicksOK' /\ LocalsOK'
    BY <1>5, NextTurnTicks DEF FinishDispatch, TypeOK, TicksOK
  <2> QED
    BY <1>5, <2>1, <2>2, Frame DEF FinishDispatch, TypeOK
<1>6. CASE SkipDispatch(p)
  <2>1. TicksOK' /\ LocalsOK'
    BY <1>6, NextTurnTicks DEF SkipDispatch, TypeOK, TicksOK
  <2> QED
    BY <1>6, <2>1, Frame DEF SkipDispatch, TypeOK
<1>7. CASE ChooseChip(p)
  <2>1. cur[p] \in Dispatches /\ Eligible(p) \subseteq Chips
    BY <1>7 DEF ChooseChip, Eligible, TypeOK, TicksOK, LocalsOK
  <2>2. TicksOK'
    BY <1>7, <2>1 DEF ChooseChip, Goto, TypeOK, TicksOK, PC
  <2>3. LocalsOK'
    BY <1>7, <2>1 DEF ChooseChip, Goto, TypeOK, TicksOK, LocalsOK
  <2> QED
    BY <1>7, <2>2, <2>3, Frame DEF ChooseChip, TypeOK
<1>8. CASE FindLead(p)
  <2>1. TicksOK' /\ LocalsOK'
    <3>1. CASE NextTurn(p)
      BY <1>8, <3>1, NextTurnTicks DEF FindLead, TypeOK, TicksOK
    <3>2. CASE ~NextTurn(p)
      <4>1. TicksOK'
        BY <1>8, <3>2 DEF FindLead, Waiting, Goto, TypeOK, TicksOK, PC
      <4>2. LocalsOK'
        BY <1>8, <3>2 DEF FindLead, Waiting, Goto, TypeOK, TicksOK, LocalsOK
      <4> QED
        BY <4>1, <4>2
    <3> QED
      BY <3>1, <3>2
  <2> QED
    BY <1>8, <2>1, Frame DEF FindLead, TypeOK
<1>9. CASE ClaimLead(p)
  <2>1. LeadsOK'
    BY <1>9 DEF ClaimLead, TypeOK, LeadsOK, LeadStatus
  <2>2. TicksOK' /\ LocalsOK'
    <3>1. armed' \in [Ticks -> SUBSET Chips]
      BY <1>9 DEF ClaimLead, TypeOK, TicksOK
    <3>2. CASE Claimable(lead[p])
      BY <1>9, <3>2, GotoTicks DEF ClaimLead, PC
    <3>3. CASE ~Claimable(lead[p])
      BY <1>9, <3>1, <3>3, NextTurnTicks DEF ClaimLead
    <3> QED
      BY <3>2, <3>3
  <2> QED
    BY <1>9, <2>1, <2>2, Frame DEF ClaimLead, TypeOK
<1>10. CASE PrepareOpening(p)
  <2>1. JobsOK'
    <3>1. lead[p] \in Leads
      BY <1>10 DEF PrepareOpening, TypeOK, TicksOK, LocalsOK
    <3> QED
      BY <1>10, <3>1 DEF PrepareOpening, TypeOK, JobsOK
  <2>2. TicksOK' /\ LocalsOK'
    <3>1. Goto(p, "enqueue") /\ "enqueue" \in PC \ {"choose", "find", "claim", "finish"}
      BY <1>10 DEF PrepareOpening, PC
    <3> QED
      BY <1>10, <3>1, GotoTicks DEF PrepareOpening
  <2> QED
    BY <1>10, <2>1, <2>2, Frame DEF PrepareOpening, TypeOK
<1>11. CASE EnqueueOpening(p)
  <2>1. JobsOK'
    <3>1. lead[p] \in Leads /\ chip[p] \in Chips
      BY <1>11 DEF EnqueueOpening, TypeOK, TicksOK, LocalsOK
    <3> QED
      BY <1>11, <3>1 DEF EnqueueOpening, AddJob, TypeOK, JobsOK
  <2>2. TicksOK' /\ LocalsOK'
    <3>1. Goto(p, "count") /\ "count" \in PC \ {"choose", "find", "claim", "finish"}
      BY <1>11 DEF EnqueueOpening, PC
    <3> QED
      BY <1>11, <3>1, GotoTicks DEF EnqueueOpening
  <2> QED
    BY <1>11, <2>1, <2>2, Frame DEF EnqueueOpening, TypeOK
<1>12. CASE CountSent(p)
  <2>1. ChipsOK'
    <3>1. chip[p] \in Chips
      BY <1>12 DEF CountSent, TypeOK, TicksOK, LocalsOK
    <3> QED
      BY <1>12, <3>1 DEF CountSent, TypeOK, ChipsOK
  <2>2. TicksOK' /\ LocalsOK'
    <3>1. Goto(p, "mark") /\ "mark" \in PC \ {"choose", "find", "claim", "finish"}
      BY <1>12 DEF CountSent, PC
    <3> QED
      BY <1>12, <3>1, GotoTicks DEF CountSent
  <2> QED
    BY <1>12, <2>1, <2>2, Frame DEF CountSent, TypeOK
<1>13. CASE MarkOpened(p)
  <2>1. LeadsOK'
    BY <1>13 DEF MarkOpened, TypeOK, LeadsOK, LeadStatus
  <2>2. TicksOK'
    BY <1>13 DEF MarkOpened, Goto, TypeOK, TicksOK, PC
  <2>3. LocalsOK'
    BY <1>13 DEF MarkOpened, Goto, TypeOK, TicksOK, LocalsOK
  <2> QED
    BY <1>13, <2>1, <2>2, <2>3, Frame DEF MarkOpened, TypeOK
<1>14. CASE ArmNextSend(p)
  <2>1. ClockOK'
    BY <1>14 DEF ArmNextSend, TypeOK, ClockOK
  <2>2. armed' \in [Ticks -> SUBSET Chips]
    BY <1>14 DEF ArmNextSend, TypeOK, TicksOK, LocalsOK
  <2>3. TicksOK' /\ LocalsOK'
    BY <1>14, <2>2, NextTurnTicks DEF ArmNextSend
  <2> QED
    BY <1>14, <2>1, <2>3, Frame DEF ArmNextSend, TypeOK
<1>15. CASE RevertClaim(p)
  <2>1. LeadsOK'
    BY <1>15 DEF RevertClaim, Reverted, TypeOK, LeadsOK, LeadStatus
  <2>2. TicksOK' /\ LocalsOK'
    BY <1>15, NextTurnTicks DEF RevertClaim, TypeOK, TicksOK
  <2> QED
    BY <1>15, <2>1, <2>2, Frame DEF RevertClaim, TypeOK
<1>16. CASE EndTick(p)
  BY <1>16, ReturnTicks, Frame DEF EndTick, TypeOK
<1> QED
  BY <1>1, <1>2, <1>3, <1>4, <1>5, <1>6, <1>7, <1>8, <1>9, <1>10, <1>11, <1>12,
     <1>13, <1>14, <1>15, <1>16 DEF Tick

\* Exceptions and crashes keep every variable in its type.
LEMMA TypeFailure ==
  ASSUME TypeOK, Failure
  PROVE  TypeOK'
<1>1. CASE Crash
  <2>1. TicksOK' /\ LocalsOK'
    BY <1>1 DEF Crash, TypeOK, TicksOK, LocalsOK, PC
  <2>2. LeadsOK' /\ HistoryOK' /\ BudgetsOK'
    BY <1>1 DEF Crash, Fault, TypeOK, LeadsOK, HistoryOK, BudgetsOK
  <2> QED
    BY <1>1, <2>1, <2>2, Frame DEF Crash, TypeOK
<1>2. ASSUME NEW p \in Ticks, ThrowInDispatch(p) PROVE TypeOK'
  <2>1. lead[p] \in Leads /\ chip[p] \in Chips
    BY <1>2 DEF ThrowInDispatch, TypeOK, TicksOK, LocalsOK
  <2>2. TicksOK' /\ LocalsOK'
    <3>1. TicksOK'
      BY <1>2 DEF ThrowInDispatch, Goto, TypeOK, TicksOK, PC
    <3>2. LocalsOK'
      BY <1>2 DEF ThrowInDispatch, Goto, TypeOK, TicksOK, LocalsOK
    <3> QED
      BY <3>1, <3>2
  <2>3. HistoryOK' /\ BudgetsOK'
    BY <1>2, <2>1 DEF ThrowInDispatch, Fault, TypeOK, HistoryOK, BudgetsOK
  <2>4. JobsOK'
    BY <1>2, <2>1 DEF ThrowInDispatch, AddJob, jobVars, TypeOK, JobsOK
  <2> QED
    BY <1>2, <2>2, <2>3, <2>4, Frame DEF ThrowInDispatch, TypeOK
<1>3. ASSUME NEW p \in Ticks, AbortTick(p) PROVE TypeOK'
  <2>1. TicksOK' /\ LocalsOK'
    BY <1>3, ReturnTicks DEF AbortTick
  <2>2. BudgetsOK'
    BY <1>3 DEF AbortTick, Fault, TypeOK, BudgetsOK
  <2>3. HistoryOK'
    BY <1>3 DEF AbortTick, TypeOK, HistoryOK, TicksOK, LocalsOK
  <2>4. LeadsOK'
    BY <1>3 DEF AbortTick, TypeOK, LeadsOK, LeadStatus
  <2> QED
    BY <1>3, <2>1, <2>2, <2>3, <2>4, Frame DEF AbortTick, TypeOK
<1> QED
  BY <1>1, <1>2, <1>3 DEF Failure

\* The endpoints, the opt-out path and the replies keep every variable in its type.
LEMMA TypeLeads ==
  ASSUME TypeOK,
         \/ Endpoint
         \/ \E n \in Phones : OptOutStep(n)
         \/ \E l \in Leads : LeadReplies(l)
  PROVE  TypeOK'
<1>1. ASSUME NEW d \in Dispatches, NEW s \in DispatchStatus, SetStatus(d, s) PROVE TypeOK'
  BY <1>1, Frame DEF SetStatus, Op, TypeOK, DispatchesOK, BudgetsOK
<1>2. ASSUME NEW d \in Dispatches, NEW cs \in SUBSET Chips, SetChips(d, cs) PROVE TypeOK'
  BY <1>2, Frame DEF SetChips, Op, TypeOK, DispatchesOK, BudgetsOK
<1>3. ASSUME NEW f \in Flows, ToggleOpenings(f) PROVE TypeOK'
  BY <1>3, Frame DEF ToggleOpenings, Op, TypeOK, DispatchesOK, BudgetsOK
<1>4. ASSUME NEW n \in Phones, Suppress(n) PROVE TypeOK'
  BY <1>4, Frame DEF Suppress, Op, TypeOK, LeadsOK, BudgetsOK
<1>5. ASSUME NEW n \in Phones, Unsuppress(n) PROVE TypeOK'
  BY <1>5, Frame DEF Unsuppress, Op, TypeOK, LeadsOK, BudgetsOK
<1>6. ASSUME NEW n \in Phones, FlagLeads(n) PROVE TypeOK'
  BY <1>6, Frame DEF FlagLeads, TypeOK, LeadsOK, LeadStatus
<1>7. ASSUME NEW n \in Phones, UnflagLeads(n) PROVE TypeOK'
  BY <1>7, Frame DEF UnflagLeads, TypeOK, LeadsOK
<1>8. ASSUME NEW n \in Phones, ReopenLeads(n) PROVE TypeOK'
  BY <1>8, Frame DEF ReopenLeads, LeadsOf, TypeOK, LeadsOK, LeadStatus, HistoryOK
<1>9. ASSUME NEW l \in Leads, LeadReplies(l) PROVE TypeOK'
  BY <1>9, Frame DEF LeadReplies, TypeOK, LeadsOK, LeadStatus
<1> QED
  BY <1>1, <1>2, <1>3, <1>4, <1>5, <1>6, <1>7, <1>8, <1>9 DEF Endpoint, OptOutStep

\* The writes of others to the chip rows and the passing of time do too.
LEMMA TypeWorld ==
  ASSUME TypeOK, ChipWrite \/ Clock
  PROVE  TypeOK'
<1>1. ASSUME NEW c \in Chips, NEW s \in ChipStatus, NEW h \in BOOLEAN, ChipMoved(c, s, h)
      PROVE  TypeOK'
  BY <1>1, Frame DEF ChipMoved, Move, TypeOK, ChipsOK, BudgetsOK
<1>2. ASSUME NEW c \in Chips, NEW k \in Nat, CapMoved(c, k) PROVE TypeOK'
  BY <1>2, Frame DEF CapMoved, Move, TypeOK, ChipsOK, BudgetsOK
<1>3. 0..DailyCapForRamp(Len(RampCurve)) \subseteq Nat
  OBVIOUS
<1>4. ASSUME NEW c \in Chips, NextSendElapses(c) PROVE TypeOK'
  BY <1>4, Frame DEF NextSendElapses, TypeOK, ClockOK
<1>5. ASSUME NEW c \in Chips, WindowMoves(c) PROVE TypeOK'
  BY <1>5, Frame DEF WindowMoves, Move, TypeOK, ClockOK, BudgetsOK
<1>6. CASE Midnight
  BY <1>6, Frame DEF Midnight, TypeOK, ClockOK
<1> QED
  BY <1>1, <1>2, <1>3, <1>4, <1>5, <1>6 DEF ChipWrite, Clock

LEMMA TypeStep == TypeOK /\ [Next]_vars => TypeOK'
<1> SUFFICES ASSUME TypeOK, [Next]_vars PROVE TypeOK'
  OBVIOUS
<1>1. CASE UNCHANGED vars
  BY <1>1, Frame DEF vars, TypeOK
<1>2. CASE Next
  BY <1>2, TypeTick, TypeFailure, TypeLeads, TypeWorld DEF Next
<1> QED
  BY <1>1, <1>2

\* Every variable keeps its type, and a tick has at hand what each of its awaits uses
\* (scheduler.service.ts:133-281).
THEOREM TypeCorrect == Spec => []TypeOK
<1> QED
  BY TypeInit, TypeStep, PTL DEF Spec
-----------------------------------------------------------------------------
(* The claim.  OneOpening is not inductive: that a lead waiting for its claim *)
(* has no job and no holder, and that a holder on its way to openings.add, or *)
(* on its way back, has added none, is what makes the CAS of the claim enough. *)

ClaimOf(l) ==
  /\ leadStatus[l] = "PENDING" => jobs[l] = 0 /\ \A p \in Ticks : ~Holds(p, l)
  /\ \A p, q \in Ticks : Holds(p, l) /\ Holds(q, l) => p = q
  /\ \A p \in Ticks : Holds(p, l) /\ pc[p] \in {"prepare", "enqueue", "revert"} => jobs[l] = 0
  /\ jobs[l] <= 1
  /\ suppressed[l] => leadStatus[l] \notin {"PENDING", "QUEUED"}

ClaimInv == \A l \in Leads \ redo : ClaimOf(l)

\* After openings.add the lead has a job.
SettledInv == /\ \A p \in Ticks : pc[p] \in {"count", "mark"} => jobs[lead[p]] > 0
              /\ OpenedHasJob

\* The rows a reset works from are of an earlier day, and so is the ramp day they hold.
RampInv == /\ \A c \in Chips : rampDay[c] <= 1 + lastReset[c] /\ lastReset[c] <= day
           /\ \A p \in Ticks : \A r \in stale[p] : r.ramp <= day

LEMMA ClaimInit == Init => ClaimInv
BY DEF Init, ClaimInv, ClaimOf, Holds, Holding

\* A step that moves no status, adds no job and gives no tick a lead it did not hold.
LEMMA ClaimKept ==
  ASSUME ClaimInv, leadStatus' = leadStatus, suppressed' = suppressed, jobs' = jobs,
         redo' = redo,
         \A q \in Ticks : \A l \in Leads :
            Holds(q, l)' => /\ Holds(q, l)
                            /\ pc'[q] \in {"prepare", "enqueue", "revert"} =>
                                  pc[q] \in {"prepare", "enqueue", "revert"}
  PROVE  ClaimInv'
BY DEF ClaimInv, ClaimOf

\* The steps of one tick.
LEMMA ClaimTick ==
  ASSUME TypeOK, ClaimInv, NEW p \in Ticks, StartTick(p) \/ Tick(p)
  PROVE  ClaimInv'
<1> USE DEF TypeOK, TicksOK, leadVars, jobVars, pastVars
<1>1. CASE StartTick(p)
  BY <1>1, ClaimKept DEF StartTick, Goto, Holds, Holding
<1>2. CASE ResetChip(p)
  BY <1>2, ClaimKept DEF ResetChip, Holds, Holding
<1>3. CASE LoadDispatches(p)
  BY <1>3, ClaimKept DEF LoadDispatches, Goto, Holds, Holding
<1>4. CASE CountPending(p)
  BY <1>4, ClaimKept DEF CountPending, Goto, Holds, Holding
<1>5. CASE FinishDispatch(p)
  BY <1>5, ClaimKept DEF FinishDispatch, NextTurn, Goto, Holds, Holding
<1>6. CASE SkipDispatch(p)
  BY <1>6, ClaimKept DEF SkipDispatch, NextTurn, Goto, Holds, Holding
<1>7. CASE ChooseChip(p)
  BY <1>7, ClaimKept DEF ChooseChip, Goto, Holds, Holding
<1>8. CASE FindLead(p)
  BY <1>8, ClaimKept DEF FindLead, NextTurn, Goto, Holds, Holding
<1>9. CASE ClaimLead(p)
  <2>1. CASE ~Claimable(lead[p])
    BY <1>9, <2>1, ClaimKept DEF ClaimLead, NextTurn, Goto, Holds, Holding
  <2>2. CASE Claimable(lead[p])
    <3> DEFINE m == lead[p]
    <3>1. /\ m \in Leads /\ leadStatus[m] = "PENDING"
          /\ leadStatus' = [leadStatus EXCEPT ![m] = "QUEUED"]
          /\ pc' = [pc EXCEPT ![p] = "prepare"] /\ lead' = lead
          /\ jobs' = jobs /\ suppressed' = suppressed /\ redo' = redo
      BY <1>9, <2>2 DEF ClaimLead, Claimable, Goto, LocalsOK
    <3>2. \A q \in Ticks, l \in Leads : q # p => (Holds(q, l)' <=> Holds(q, l))
      BY <3>1 DEF Holds
    <3>3. \A l \in Leads : Holds(p, l)' <=> l = m
      BY <3>1 DEF Holds, Holding
    <3>4. ASSUME NEW l \in Leads \ redo, l # m PROVE ClaimOf(l)'
      <4>1. \A q \in Ticks : Holds(q, l)' => Holds(q, l) /\ pc'[q] = pc[q]
        BY <3>1, <3>2, <3>3, <3>4
      <4> QED
        BY <3>1, <3>4, <4>1 DEF ClaimInv, ClaimOf, LeadsOK
    <3>5. ASSUME m \notin redo PROVE ClaimOf(m)'
      <4>1. jobs[m] = 0 /\ ~suppressed[m] /\ \A q \in Ticks : ~Holds(q, m)
        BY <3>1, <3>5 DEF ClaimInv, ClaimOf
      <4>2. \A q \in Ticks : Holds(q, m)' => q = p
        BY <4>1, <3>1, <3>2
      <4>3. leadStatus'[m] = "QUEUED"
        BY <3>1 DEF LeadsOK
      <4> QED
        BY <3>1, <4>1, <4>2, <4>3 DEF ClaimOf
    <3> QED
      BY <3>1, <3>4, <3>5 DEF ClaimInv
  <2> QED
    BY <2>1, <2>2
<1>10. CASE PrepareOpening(p)
  BY <1>10, ClaimKept DEF PrepareOpening, Goto, Holds, Holding
<1>11. CASE EnqueueOpening(p)
  <2> DEFINE m == lead[p]
  <2>1. /\ m \in Leads /\ Holds(p, m) /\ pc[p] = "enqueue"
        /\ jobs' = [jobs EXCEPT ![m] = @ + 1]
        /\ pc' = [pc EXCEPT ![p] = "count"] /\ lead' = lead
        /\ leadStatus' = leadStatus /\ suppressed' = suppressed /\ redo' = redo
    BY <1>11 DEF EnqueueOpening, AddJob, Goto, Holds, Holding, LocalsOK
  <2>2. \A q \in Ticks, l \in Leads : Holds(q, l)' <=> Holds(q, l)
    BY <2>1 DEF Holds, Holding
  <2>3. ASSUME NEW l \in Leads \ redo, l # m PROVE ClaimOf(l)'
    <3>1. \A q \in Ticks : Holds(q, l) => pc'[q] = pc[q]
      BY <2>1, <2>3 DEF Holds
    <3>2. jobs'[l] = jobs[l]
      BY <2>1, <2>3 DEF JobsOK
    <3> QED
      BY <2>1, <2>2, <2>3, <3>1, <3>2 DEF ClaimInv, ClaimOf
  <2>4. ASSUME m \notin redo PROVE ClaimOf(m)'
    <3>1. jobs[m] = 0 /\ leadStatus[m] # "PENDING"
      BY <2>1, <2>4 DEF ClaimInv, ClaimOf
    <3>2. jobs'[m] = 1
      BY <2>1, <3>1 DEF JobsOK
    <3>3. \A q \in Ticks : Holds(q, m)' => q = p /\ pc'[q] = "count"
      BY <2>1, <2>2, <2>4 DEF ClaimInv, ClaimOf
    <3> QED
      BY <2>1, <2>4, <3>1, <3>2, <3>3 DEF ClaimInv, ClaimOf
  <2> QED
    BY <2>1, <2>3, <2>4 DEF ClaimInv
<1>12. CASE CountSent(p)
  BY <1>12, ClaimKept DEF CountSent, Goto, Holds, Holding
<1>13. CASE MarkOpened(p)
  <2>1. /\ leadStatus' = [leadStatus EXCEPT ![lead[p]] = "OPENED"]
        /\ jobs' = jobs /\ suppressed' = suppressed /\ redo' = redo
        /\ \A q \in Ticks, l \in Leads : Holds(q, l)' => Holds(q, l) /\ pc'[q] = pc[q]
    BY <1>13 DEF MarkOpened, Goto, Holds, Holding
  <2> QED
    BY <2>1 DEF ClaimInv, ClaimOf, LeadsOK
<1>14. CASE ArmNextSend(p)
  BY <1>14, ClaimKept DEF ArmNextSend, NextTurn, Goto, Holds, Holding
<1>15. CASE RevertClaim(p)
  <2> PICK m \in Leads : m = lead[p]
    BY <1>15 DEF RevertClaim, LocalsOK
  <2>1. /\ m \in Leads /\ Holds(p, m) /\ pc[p] = "revert"
        /\ leadStatus' = [leadStatus EXCEPT ![m] = Reverted(@)]
        /\ jobs' = jobs /\ suppressed' = suppressed /\ redo' = redo
        /\ \A l \in Leads : ~Holds(p, l)'
        /\ \A q \in Ticks, l \in Leads : Holds(q, l)' => Holds(q, l) /\ pc'[q] = pc[q]
    BY <1>15 DEF RevertClaim, NextTurn, Goto, Holds, Holding, LocalsOK
  <2>2. ASSUME NEW l \in Leads \ redo, l # m PROVE ClaimOf(l)'
    <3>1. leadStatus'[l] = leadStatus[l]
      BY <2>1, <2>2 DEF LeadsOK
    <3> QED
      BY <2>1, <2>2, <3>1 DEF ClaimInv, ClaimOf
  <2>3. ASSUME m \notin redo PROVE ClaimOf(m)'
    <3>1. jobs'[m] = 0 /\ \A q \in Ticks : ~Holds(q, m)'
      BY <2>1, <2>3 DEF ClaimInv, ClaimOf
    <3>2. suppressed'[m] => leadStatus'[m] \notin {"PENDING", "QUEUED"}
      BY <2>1, <2>3 DEF ClaimInv, ClaimOf, Reverted, LeadsOK
    <3> QED
      BY <3>1, <3>2 DEF ClaimOf
  <2> QED
    BY <2>1, <2>2, <2>3 DEF ClaimInv
<1>16. CASE EndTick(p)
  BY <1>16, ClaimKept DEF EndTick, Return, Goto, Holds, Holding
<1> QED
  BY <1>1, <1>2, <1>3, <1>4, <1>5, <1>6, <1>7, <1>8, <1>9, <1>10, <1>11, <1>12,
     <1>13, <1>14, <1>15, <1>16 DEF Tick

\* Exceptions and crashes: a lead whose job is out before its claim is undone is in redo.
LEMMA ClaimFailure ==
  ASSUME TypeOK, ClaimInv, Failure
  PROVE  ClaimInv'
<1> USE DEF TypeOK, TicksOK, leadVars, jobVars
<1>1. CASE Crash
  BY <1>1, ClaimKept DEF Crash, Holds, Holding
<1>2. ASSUME NEW p \in Ticks, ThrowInDispatch(p) PROVE ClaimInv'
  <2> PICK m \in Leads : m = lead[p]
    BY <1>2 DEF ThrowInDispatch, LocalsOK
  <2>1. /\ Holds(p, m) /\ pc' = [pc EXCEPT ![p] = "revert"] /\ lead' = lead
        /\ leadStatus' = leadStatus /\ suppressed' = suppressed
        /\ redo \subseteq redo'
    BY <1>2 DEF ThrowInDispatch, Goto, Holds, Holding
  <2>2. \A q \in Ticks, l \in Leads : Holds(q, l)' <=> Holds(q, l)
    BY <2>1 DEF Holds, Holding
  <2>3. \/ m \in redo'
        \/ jobs' = jobs /\ pc[p] \in {"prepare", "enqueue"}
    BY <1>2 DEF ThrowInDispatch, HistoryOK
  <2>4. \A l \in Leads : l # m => jobs'[l] = jobs[l]
    BY <1>2 DEF ThrowInDispatch, AddJob, JobsOK
  <2>5. ASSUME NEW l \in Leads \ redo', l # m PROVE ClaimOf(l)'
    <3>1. \A q \in Ticks : Holds(q, l) => pc'[q] = pc[q]
      BY <2>1, <2>5 DEF Holds
    <3> QED
      BY <2>1, <2>2, <2>4, <2>5, <3>1 DEF ClaimInv, ClaimOf
  <2>6. ASSUME m \notin redo' PROVE ClaimOf(m)'
    <3>1. jobs[m] = 0 /\ jobs' = jobs
      BY <2>1, <2>3, <2>6 DEF ClaimInv, ClaimOf
    <3> QED
      BY <2>1, <2>2, <2>6, <3>1 DEF ClaimInv, ClaimOf
  <2> QED
    BY <2>5, <2>6 DEF ClaimInv
<1>3. ASSUME NEW p \in Ticks, AbortTick(p) PROVE ClaimInv'
  <2>1. /\ jobs' = jobs /\ suppressed' = suppressed /\ redo' = redo
        /\ \A q \in Ticks, l \in Leads : Holds(q, l)' => Holds(q, l) /\ pc'[q] = pc[q]
    BY <1>3 DEF AbortTick, Return, Goto, Holds, Holding
  <2>2. CASE leadStatus' = leadStatus
    BY <2>1, <2>2, ClaimKept
  <2>3. CASE /\ pc[p] = "claim" /\ Claimable(lead[p])
             /\ leadStatus' = [leadStatus EXCEPT ![lead[p]] = "QUEUED"]
    <3> PICK m \in Leads : m = lead[p]
      BY <2>3 DEF LocalsOK
    <3>1. leadStatus[m] = "PENDING" /\ leadStatus'[m] = "QUEUED"
      BY <2>3 DEF Claimable, LeadsOK
    <3>2. \A l \in Leads : l # m => leadStatus'[l] = leadStatus[l]
      BY <2>3 DEF LeadsOK
    <3> QED
      BY <2>1, <3>1, <3>2 DEF ClaimInv, ClaimOf
  <2> QED
    BY <1>3, <2>2, <2>3 DEF AbortTick
<1> QED
  BY <1>1, <1>2, <1>3 DEF Failure

\* Steps that leave the ticks, the jobs and the leads that are not redone where they are.
LEMMA ClaimOutside ==
  ASSUME TypeOK, ClaimInv,
         \/ Endpoint \/ ChipWrite \/ Clock
         \/ \E n \in Phones : OptOutStep(n)
         \/ \E l \in Leads : LeadReplies(l)
  PROVE  ClaimInv'
<1> USE DEF leadVars, jobVars, pastVars, tickVars
<1>1. ASSUME pc' = pc, lead' = lead PROVE \A q \in Ticks, l \in Leads : Holds(q, l)' = Holds(q, l)
  BY <1>1 DEF Holds
<1>2. CASE Endpoint
  <2>1. UNCHANGED <<leadStatus, suppressed, jobs, redo, pc, lead>>
    BY <1>2 DEF Endpoint, SetStatus, SetChips, ToggleOpenings, Suppress, Unsuppress
  <2> QED
    BY <1>1, <2>1, ClaimKept
<1>3. CASE ChipWrite \/ Clock
  <2>1. UNCHANGED <<leadStatus, suppressed, jobs, redo, pc, lead>>
    BY <1>3 DEF ChipWrite, Clock, ChipMoved, CapMoved, Midnight, NextSendElapses, WindowMoves
  <2> QED
    BY <1>1, <2>1, ClaimKept
<1>4. ASSUME NEW n \in Phones, FlagLeads(n) PROVE ClaimInv'
  <2>1. /\ pc' = pc /\ lead' = lead /\ jobs' = jobs /\ redo' = redo
        /\ \A l \in Leads : \/ leadStatus'[l] = "SUPPRESSED"
                            \/ leadStatus'[l] = leadStatus[l] /\ suppressed'[l] = suppressed[l]
    BY <1>4 DEF FlagLeads, TypeOK, LeadsOK
  <2> QED
    BY <1>1, <2>1 DEF ClaimInv, ClaimOf
<1>5. ASSUME NEW n \in Phones, UnflagLeads(n) PROVE ClaimInv'
  <2>1. /\ pc' = pc /\ lead' = lead /\ jobs' = jobs /\ redo' = redo
        /\ leadStatus' = leadStatus /\ \A l \in Leads : suppressed'[l] => suppressed[l]
    BY <1>5 DEF UnflagLeads, TypeOK, LeadsOK
  <2> QED
    BY <1>1, <2>1 DEF ClaimInv, ClaimOf
<1>6. ASSUME NEW n \in Phones, ReopenLeads(n) PROVE ClaimInv'
  <2>1. /\ pc' = pc /\ lead' = lead /\ jobs' = jobs /\ suppressed' = suppressed
        /\ \A l \in Leads \ redo' : l \notin redo /\ leadStatus'[l] = leadStatus[l]
    BY <1>6 DEF ReopenLeads, TypeOK, LeadsOK, HistoryOK
  <2> QED
    BY <1>1, <2>1 DEF ClaimInv, ClaimOf
<1>7. ASSUME NEW m \in Leads, LeadReplies(m) PROVE ClaimInv'
  <2>1. /\ pc' = pc /\ lead' = lead /\ jobs' = jobs /\ redo' = redo /\ suppressed' = suppressed
        /\ leadStatus'[m] = "CONVERSING"
        /\ \A l \in Leads : l # m => leadStatus'[l] = leadStatus[l]
    BY <1>7 DEF LeadReplies, TypeOK, LeadsOK
  <2> QED
    BY <1>1, <2>1 DEF ClaimInv, ClaimOf
<1> QED
  BY <1>2, <1>3, <1>4, <1>5, <1>6, <1>7 DEF OptOutStep

LEMMA ClaimStep == TypeOK /\ ClaimInv /\ [Next]_vars => ClaimInv'
<1> SUFFICES ASSUME TypeOK, ClaimInv, [Next]_vars PROVE ClaimInv'
  OBVIOUS
<1>1. CASE UNCHANGED vars
  BY <1>1 DEF vars, leadVars, jobVars, pastVars, tickVars, ClaimInv, ClaimOf, Holds
<1>2. CASE Next
  BY <1>2, ClaimTick, ClaimFailure, ClaimOutside DEF Next
<1> QED
  BY <1>1, <1>2

\* However many callers of tick() overlap, and wherever they fail, a lead gets one
\* opening at most and has one holder at most, unless the catch of dispatchOne ran
\* after openings.add or unsuppress() reopened it (scheduler.service.ts:219-280).
THEOREM OpeningOnce == Spec => []OneOpening
<1>1. ClaimInv => OneOpening
  BY DEF ClaimInv, ClaimOf, OneOpening
<1> QED
  BY <1>1, TypeInit, TypeStep, ClaimInit, ClaimStep, PTL DEF Spec

\* A flagged lead is never waiting for a claim, nor claimed (same exceptions).
THEOREM FlagParks == Spec => []FlaggedIsParked
<1>1. ClaimInv => FlaggedIsParked
  BY DEF ClaimInv, ClaimOf, FlaggedIsParked
<1> QED
  BY <1>1, TypeInit, TypeStep, ClaimInit, ClaimStep, PTL DEF Spec
-----------------------------------------------------------------------------
(* A QUEUED lead has somebody to settle it.                                 *)

LEMMA HeldTick ==
  ASSUME TypeOK, QueuedIsHeld, NEW p \in Ticks, StartTick(p) \/ Tick(p)
  PROVE  QueuedIsHeld'
<1> USE DEF TypeOK, TicksOK, leadVars, pastVars
<1>1. ASSUME leadStatus' = leadStatus, stranded' = stranded,
             \A q \in Ticks, l \in Leads : Holds(q, l) => Holds(q, l)'
      PROVE  QueuedIsHeld'
  BY <1>1 DEF QueuedIsHeld
<1>2. CASE ClaimLead(p)
  <2>1. stranded' = stranded
    BY <1>2 DEF ClaimLead
  <2>2. \A q \in Ticks, l \in Leads : Holds(q, l) => Holds(q, l)'
    BY <1>2 DEF ClaimLead, NextTurn, Goto, Holds, Holding
  <2>3. \A l \in Leads : leadStatus'[l] # leadStatus[l] => Holds(p, l)'
    BY <1>2 DEF ClaimLead, NextTurn, Goto, Holds, Holding, LeadsOK
  <2> QED
    BY <2>1, <2>2, <2>3 DEF QueuedIsHeld
<1>3. CASE MarkOpened(p)
  <2>1. /\ stranded' = stranded
        /\ \A l \in Leads : leadStatus'[l] = "QUEUED" => leadStatus[l] = "QUEUED" /\ l # lead[p]
        /\ \A q \in Ticks, l \in Leads : Holds(q, l) /\ q # p => Holds(q, l)'
        /\ \A l \in Leads : Holds(p, l) => l = lead[p]
    BY <1>3 DEF MarkOpened, Goto, Holds, Holding, LeadsOK
  <2> QED
    BY <2>1 DEF QueuedIsHeld
<1>4. CASE RevertClaim(p)
  <2>1. /\ stranded' = stranded
        /\ \A l \in Leads : leadStatus'[l] = "QUEUED" => leadStatus[l] = "QUEUED" /\ l # lead[p]
        /\ \A q \in Ticks, l \in Leads : Holds(q, l) /\ q # p => Holds(q, l)'
        /\ \A l \in Leads : Holds(p, l) => l = lead[p]
    BY <1>4 DEF RevertClaim, Reverted, NextTurn, Goto, Holds, Holding, LeadsOK
  <2> QED
    BY <2>1 DEF QueuedIsHeld
<1>5. CASE StartTick(p) \/ LoadDispatches(p) \/ CountPending(p) \/ ChooseChip(p)
  BY <1>1, <1>5 DEF StartTick, LoadDispatches, CountPending, ChooseChip, Goto, Holds, Holding
<1>6. CASE FinishDispatch(p) \/ SkipDispatch(p) \/ FindLead(p) \/ ArmNextSend(p)
  BY <1>1, <1>6
  DEF FinishDispatch, SkipDispatch, FindLead, ArmNextSend, NextTurn, Goto, Holds, Holding
<1>7. CASE PrepareOpening(p) \/ EnqueueOpening(p) \/ CountSent(p)
  BY <1>1, <1>7 DEF PrepareOpening, EnqueueOpening, CountSent, Goto, Holds, Holding
<1>8. CASE ResetChip(p) \/ EndTick(p)
  BY <1>1, <1>8 DEF ResetChip, EndTick, Return, Goto, Holds, Holding
<1> QED
  BY <1>2, <1>3, <1>4, <1>5, <1>6, <1>7, <1>8 DEF Tick

LEMMA HeldOutside ==
  ASSUME TypeOK, QueuedIsHeld,
         \/ Failure \/ Endpoint \/ ChipWrite \/ Clock
         \/ \E n \in Phones : OptOutStep(n)
         \/ \E l \in Leads : LeadReplies(l)
  PROVE  QueuedIsHeld'
<1> USE DEF TypeOK, TicksOK, leadVars, pastVars, tickVars
<1>1. CASE Crash
  BY <1>1 DEF Crash, QueuedIsHeld
<1>2. ASSUME NEW p \in Ticks, ThrowInDispatch(p) PROVE QueuedIsHeld'
  <2>1. /\ leadStatus' = leadStatus /\ stranded' = stranded
        /\ \A q \in Ticks, l \in Leads : Holds(q, l) => Holds(q, l)'
    BY <1>2 DEF ThrowInDispatch, Goto, Holds, Holding
  <2> QED
    BY <2>1 DEF QueuedIsHeld
<1>3. ASSUME NEW p \in Ticks, AbortTick(p) PROVE QueuedIsHeld'
  <2>1. /\ stranded \subseteq stranded'
        /\ pc[p] = "revert" => lead[p] \in stranded'
        /\ \A q \in Ticks, l \in Leads : Holds(q, l) /\ q # p => Holds(q, l)'
    BY <1>3 DEF AbortTick, Return, Goto, Holds, Holding
  <2>2. \A l \in Leads : Holds(p, l) => l \in stranded'
    BY <1>3, <2>1 DEF AbortTick, Holds, Holding
  <2>3. \A l \in Leads : leadStatus'[l] # leadStatus[l] => l \in stranded'
    BY <1>3 DEF AbortTick, LeadsOK
  <2> QED
    BY <2>1, <2>2, <2>3 DEF QueuedIsHeld
<1>4. ASSUME pc' = pc, lead' = lead, stranded' = stranded,
             \A l \in Leads : leadStatus'[l] = "QUEUED" => leadStatus[l] = "QUEUED"
      PROVE  QueuedIsHeld'
  BY <1>4 DEF QueuedIsHeld, Holds
<1>5. CASE Endpoint \/ ChipWrite \/ Clock
  BY <1>4, <1>5 DEF Endpoint, SetStatus, SetChips, ToggleOpenings, Suppress, Unsuppress,
     ChipWrite, Clock, ChipMoved, CapMoved, Midnight, NextSendElapses, WindowMoves
<1>6. CASE \E n \in Phones : OptOutStep(n)
  BY <1>4, <1>6 DEF OptOutStep, FlagLeads, UnflagLeads, ReopenLeads, LeadsOK
<1>7. CASE \E l \in Leads : LeadReplies(l)
  BY <1>4, <1>7 DEF LeadReplies, LeadsOK
<1> QED
  BY <1>1, <1>2, <1>3, <1>5, <1>6, <1>7 DEF Failure

\* No path of the code leaves a lead QUEUED for good but a crash, a lost answer or a
\* catch that fails itself (scheduler.service.ts:225-280).
THEOREM QueuedSettles == Spec => []QueuedIsHeld
<1>1. Init => QueuedIsHeld
  BY DEF Init, QueuedIsHeld
<1>2. TypeOK /\ QueuedIsHeld /\ [Next]_vars => QueuedIsHeld'
  <2> SUFFICES ASSUME TypeOK, QueuedIsHeld, [Next]_vars PROVE QueuedIsHeld'
    OBVIOUS
  <2>1. CASE UNCHANGED vars
    BY <2>1 DEF vars, leadVars, pastVars, tickVars, QueuedIsHeld, Holds
  <2>2. CASE Next
    BY <2>2, HeldTick, HeldOutside DEF Next
  <2> QED
    BY <2>1, <2>2
<1> QED
  BY <1>1, <1>2, TypeInit, TypeStep, PTL DEF Spec

-----------------------------------------------------------------------------
(* The ramp.                                                                *)

LEMMA RampStep == TypeOK /\ RampInv /\ [Next]_vars => RampInv'
<1> SUFFICES ASSUME TypeOK, RampInv, [Next]_vars PROVE RampInv'
  OBVIOUS
<1> USE DEF TypeOK, TicksOK, StaleRow, ChipsOK, ClockOK, chipVars, clockVars, tickVars
<1>1. ASSUME UNCHANGED <<rampDay, lastReset, day>>,
             \A p \in Ticks : stale'[p] = stale[p] \/ stale'[p] = {}
      PROVE  RampInv'
  BY <1>1 DEF RampInv
<1>2. CASE UNCHANGED vars
  BY <1>1, <1>2 DEF vars
<1>3. ASSUME NEW p \in Ticks, StartTick(p) PROVE RampInv'
  <2>1. UNCHANGED <<rampDay, lastReset, day>>
    BY <1>3 DEF StartTick
  <2>2. \A r \in stale'[p] : \E c \in Chips : DueForReset(c) /\ r.ramp = rampDay[c]
    BY <1>3 DEF StartTick
  <2>3. \A r \in stale'[p] : r.ramp <= day
    BY <2>2 DEF RampInv, DueForReset
  <2>4. \A q \in Ticks : q # p => stale'[q] = stale[q]
    BY <1>3 DEF StartTick
  <2> QED
    BY <2>1, <2>3, <2>4 DEF RampInv
<1>4. ASSUME NEW p \in Ticks, ResetChip(p) PROVE RampInv'
  <2> PICK r \in stale[p] : ResetRow(p, r)
    BY <1>4 DEF ResetChip
  <2>1. r.chip \in Chips /\ r.ramp \in Nat /\ r.ramp <= day
    BY DEF RampInv
  <2>2. /\ rampDay' = [rampDay EXCEPT ![r.chip] = r.ramp + 1]
        /\ lastReset' = [lastReset EXCEPT ![r.chip] = day]
        /\ stale' = [stale EXCEPT ![p] = @ \ {r}]
        /\ day' = day
    BY <1>4 DEF ResetRow, ResetChip
  <2>3. \A c \in Chips : rampDay'[c] <= 1 + lastReset'[c] /\ lastReset'[c] <= day'
    BY <2>1, <2>2 DEF RampInv
  <2>4. \A q \in Ticks : stale'[q] \subseteq stale[q]
    BY <2>2
  <2> QED
    BY <2>2, <2>3, <2>4 DEF RampInv
<1>5. ASSUME NEW p \in Ticks, Tick(p), ~ResetChip(p) PROVE RampInv'
  <2>1. UNCHANGED <<rampDay, lastReset>>
    BY <1>5 DEF Tick, LoadDispatches, CountPending, FinishDispatch, SkipDispatch, ChooseChip,
       FindLead, ClaimLead, PrepareOpening, EnqueueOpening, CountSent, MarkOpened, ArmNextSend,
       RevertClaim, EndTick
  <2>2. UNCHANGED day
    BY <1>5 DEF Tick, LoadDispatches, CountPending, FinishDispatch, SkipDispatch, ChooseChip,
       FindLead, ClaimLead, PrepareOpening, EnqueueOpening, CountSent, MarkOpened, ArmNextSend,
       RevertClaim, EndTick
  <2>3. stale' = stale \/ stale' = [stale EXCEPT ![p] = {}]
    BY <1>5 DEF Tick, LoadDispatches, CountPending, FinishDispatch, SkipDispatch, ChooseChip,
       FindLead, ClaimLead, PrepareOpening, EnqueueOpening, CountSent, MarkOpened, ArmNextSend,
       RevertClaim, EndTick, NextTurn, Return
  <2> QED
    BY <1>1, <2>1, <2>2, <2>3
<1>6. CASE Failure
  BY <1>1, <1>6 DEF Failure, Crash, ThrowInDispatch, AbortTick, Return
<1>7. CASE Endpoint \/ ChipWrite
  BY <1>1, <1>7 DEF Endpoint, SetStatus, SetChips, ToggleOpenings, Suppress, Unsuppress,
     ChipWrite, ChipMoved, CapMoved
<1>8. CASE Clock
  <2>1. CASE Midnight
    BY <2>1 DEF Midnight, RampInv
  <2>2. CASE \E c \in Chips : NextSendElapses(c) \/ WindowMoves(c)
    BY <1>1, <2>2 DEF NextSendElapses, WindowMoves
  <2> QED
    BY <1>8, <2>1, <2>2 DEF Clock
<1>9. CASE (\E n \in Phones : OptOutStep(n)) \/ \E l \in Leads : LeadReplies(l)
  BY <1>1, <1>9 DEF OptOutStep, FlagLeads, UnflagLeads, ReopenLeads, LeadReplies
<1> QED
  BY <1>2, <1>3, <1>4, <1>5, <1>6, <1>7, <1>8, <1>9 DEF Next

\* No interleaving of daily resets lifts a chip more than one ramp day per midnight
\* (scheduler.service.ts:391-417).
THEOREM RampClimbsByDay == Spec => []RampPerDay
<1>1. Init => RampInv
  BY DEF Init, RampInv
<1>2. TypeOK /\ RampInv => RampPerDay
  BY DEF TypeOK, ChipsOK, ClockOK, RampInv, RampPerDay
<1> QED
  BY <1>1, <1>2, RampStep, TypeInit, TypeStep, PTL DEF Spec
-----------------------------------------------------------------------------
(* An opened lead has its job.                                              *)

LEMMA SettledStep == TypeOK /\ SettledInv /\ [Next]_vars => SettledInv'
<1> SUFFICES ASSUME TypeOK, SettledInv, [Next]_vars PROVE SettledInv'
  OBVIOUS
<1> USE DEF TypeOK, TicksOK, LocalsOK, JobsOK, LeadsOK, leadVars, jobVars, tickVars
<1>0. TypeOK'
  BY TypeStep
\* Jobs are never taken back, a settling tick keeps its lead, and nothing opens a lead.
<1>1. ASSUME \A l \in Leads : jobs'[l] >= jobs[l],
             \A q \in Ticks : pc'[q] \in {"count", "mark"} =>
                pc[q] \in {"count", "mark"} /\ lead'[q] = lead[q],
             \A l \in Leads : leadStatus'[l] \in {"OPENED", "CONVERSING"} =>
                leadStatus[l] \in {"OPENED", "CONVERSING"} \/ jobs[l] > 0
      PROVE  SettledInv'
  <2>1. ASSUME NEW q \in Ticks, pc'[q] \in {"count", "mark"} PROVE jobs'[lead'[q]] > 0
    <3>1. lead[q] \in Leads /\ jobs[lead[q]] > 0 /\ lead'[q] = lead[q]
      BY <1>1, <2>1 DEF SettledInv
    <3> QED
      BY <1>0, <1>1, <3>1
  <2>2. ASSUME NEW l \in Leads, leadStatus'[l] \in {"OPENED", "CONVERSING"} PROVE jobs'[l] > 0
    BY <1>0, <1>1, <2>2 DEF SettledInv, OpenedHasJob
  <2> QED
    BY <2>1, <2>2 DEF SettledInv, OpenedHasJob
<1>2. CASE UNCHANGED vars
  BY <1>1, <1>2 DEF vars
<1>3. ASSUME NEW p \in Ticks, EnqueueOpening(p) PROVE SettledInv'
  <2> PICK m \in Leads : m = lead[p]
    BY <1>3 DEF EnqueueOpening
  <2>1. /\ jobs' = [jobs EXCEPT ![m] = @ + 1] /\ lead' = lead /\ leadStatus' = leadStatus
        /\ pc' = [pc EXCEPT ![p] = "count"]
    BY <1>3 DEF EnqueueOpening, AddJob, Goto
  <2>2. jobs'[m] > 0 /\ \A l \in Leads : jobs'[l] >= jobs[l]
    BY <2>1
  <2> QED
    BY <2>1, <2>2 DEF SettledInv, OpenedHasJob
<1>4. ASSUME NEW p \in Ticks, StartTick(p) \/ Tick(p), ~EnqueueOpening(p) PROVE SettledInv'
  <2>1. jobs' = jobs
    BY <1>4 DEF StartTick, Tick, ResetChip, LoadDispatches, CountPending, FinishDispatch,
       SkipDispatch, ChooseChip, FindLead, ClaimLead, PrepareOpening, CountSent, MarkOpened,
       ArmNextSend, RevertClaim, EndTick
  <2>2. \A q \in Ticks : pc'[q] \in {"count", "mark"} =>
           pc[q] \in {"count", "mark"} /\ lead'[q] = lead[q]
    BY <1>4 DEF StartTick, Tick, ResetChip, LoadDispatches, CountPending, FinishDispatch,
       SkipDispatch, ChooseChip, FindLead, ClaimLead, PrepareOpening, CountSent, MarkOpened,
       ArmNextSend, RevertClaim, EndTick, NextTurn, Return, Goto
  <2>3. CASE MarkOpened(p)
    <3>1. jobs[lead[p]] > 0 /\ leadStatus' = [leadStatus EXCEPT ![lead[p]] = "OPENED"]
      BY <2>3 DEF MarkOpened, SettledInv
    <3>2. \A l \in Leads : l # lead[p] => leadStatus'[l] = leadStatus[l]
      BY <3>1
    <3> QED
      BY <1>1, <2>1, <2>2, <3>1, <3>2
  <2>4. CASE ~MarkOpened(p)
    <3>1. \A l \in Leads : leadStatus'[l] \in {leadStatus[l], "QUEUED", "PENDING"}
      BY <1>4, <2>4 DEF StartTick, Tick, ResetChip, LoadDispatches, CountPending,
         FinishDispatch, SkipDispatch, ChooseChip, FindLead, ClaimLead, PrepareOpening,
         CountSent, ArmNextSend, RevertClaim, Reverted, EndTick
    <3>2. \A l \in Leads : leadStatus'[l] \in {"OPENED", "CONVERSING"} =>
             leadStatus[l] \in {"OPENED", "CONVERSING"}
      BY <3>1
    <3>3. \A l \in Leads : jobs'[l] >= jobs[l]
      BY <2>1
    <3> QED
      BY <1>1, <2>2, <3>2, <3>3
  <2> QED
    BY <2>3, <2>4
<1>5. CASE Crash
  BY <1>1, <1>5 DEF Crash
<1>6. ASSUME NEW p \in Ticks, ThrowInDispatch(p) PROVE SettledInv'
  <2>1. \A l \in Leads : jobs'[l] >= jobs[l]
    <3>1. jobs' = jobs \/ jobs' = [jobs EXCEPT ![lead[p]] = @ + 1]
      BY <1>6 DEF ThrowInDispatch, AddJob
    <3>2. jobs \in [Leads -> Nat]
      BY DEF TypeOK, JobsOK
    <3> HIDE DEF TypeOK, JobsOK, SettledInv
    <3>3. CASE jobs' = jobs
      BY <3>2, <3>3
    <3>4. CASE jobs' = [jobs EXCEPT ![lead[p]] = @ + 1]
      BY <3>2, <3>4
    <3> QED
      BY <3>1, <3>3, <3>4
  <2>2. leadStatus' = leadStatus /\ lead' = lead /\ pc' = [pc EXCEPT ![p] = "revert"]
    BY <1>6 DEF ThrowInDispatch, Goto
  <2> QED
    BY <1>1, <2>1, <2>2
<1>7. ASSUME NEW p \in Ticks, AbortTick(p) PROVE SettledInv'
  BY <1>1, <1>7 DEF AbortTick, Return, Goto
<1>8. CASE Endpoint \/ ChipWrite \/ Clock
  <2>1. UNCHANGED <<jobs, pc, lead, leadStatus>>
    BY <1>8 DEF Endpoint, SetStatus, SetChips, ToggleOpenings, Suppress, Unsuppress,
       ChipWrite, Clock, ChipMoved, CapMoved, Midnight, NextSendElapses, WindowMoves
  <2> QED
    BY <1>1, <2>1
<1>9. CASE \E n \in Phones : OptOutStep(n)
  <2>1. /\ UNCHANGED <<jobs, pc, lead>>
        /\ \A l \in Leads : leadStatus'[l] \in {leadStatus[l], "SUPPRESSED", "PENDING"}
    BY <1>9 DEF OptOutStep, FlagLeads, UnflagLeads, ReopenLeads
  <2> QED
    BY <1>1, <2>1
<1>10. CASE \E l \in Leads : LeadReplies(l)
  BY <1>1, <1>10 DEF LeadReplies
<1> QED
  BY <1>2, <1>3, <1>4, <1>5, <1>6, <1>7, <1>8, <1>9, <1>10 DEF Next, Failure

\* A lead reads OPENED or CONVERSING only if an opening job was added for it
\* (scheduler.service.ts:253-269).
THEOREM OpenedWasEnqueued == Spec => []OpenedHasJob
<1>1. Init => SettledInv
  BY DEF Init, SettledInv, OpenedHasJob
<1>2. SettledInv => OpenedHasJob
  BY DEF SettledInv
<1> QED
  BY <1>1, <1>2, SettledStep, TypeInit, TypeStep, PTL DEF Spec
-----------------------------------------------------------------------------
(* The cap of a chip, with the timer alone.  That no more jobs are added      *)
(* than the cap allows is not inductive: a turn works from a row read before  *)
(* the turns of the same tick that went ahead of it.  What saves it is that   *)
(* a chip goes once a tick: then it is armed, or an exception paid for it.    *)

TimerAlone == Ticks = {Timer} /\ ~ShortJitter

Committed == {"find", "claim", "prepare", "enqueue", "count", "mark", "arm"}

\* What the timer works with: nothing between two ticks, rows of earlier days in its reset,
\* a chip of its snapshot that it has not armed in its turn.
TimerInv ==
  /\ pc[Timer] \in {"idle", "reset"} =>
       armed[Timer] = {} /\ \A d \in Dispatches : plan[Timer][d] = {}
  /\ \A r \in stale[Timer] : pc[Timer] = "reset" /\ lastReset[r.chip] < day
  /\ \A r, s \in stale[Timer] : r.chip = s.chip => r = s
  /\ pc[Timer] \in Committed => chip[Timer] \in plan[Timer][cur[Timer]] \ armed[Timer]

\* The job of c in this turn is not counted yet; c has had its job in this tick.
Uncounted(c) == IF pc[Timer] = "count" /\ chip[Timer] = c THEN 1 ELSE 0
Spent(c) == c \in armed[Timer] \/ (pc[Timer] \in {"count", "mark", "arm"} /\ chip[Timer] = c)

CapOf(c) ==
  /\ c \in armed[Timer] => ~due[c]
  /\ dailyCap[c] <= budget[c]
  /\ jobsToday[c] <= sentToday[c] + Uncounted(c) + faults
  /\ jobsToday[c] <= budget[c] + faults
  /\ ~Spent(c) => \A d \in Dispatches : c \in plan[Timer][d] => jobsToday[c] < budget[c] + faults

CapInv == TimerInv /\ \A c \in Chips : CapOf(c)

LEMMA CapInit == Init => CapInv
<1> SUFFICES ASSUME Init PROVE CapInv
  OBVIOUS
<1> USE BoundsAssumption
<1>1. TimerInv
  BY DEF Init, TimerInv, Committed
<1>2. ASSUME NEW c \in Chips PROVE CapOf(c)
  <2>1. DailyCapForRamp(1) \in Nat
    BY CapIsNat
  <2> QED
    BY <2>1 DEF Init, CapOf, Uncounted, Spent
<1> QED
  BY <1>1, <1>2 DEF CapInv

\* The numbers the cap is about.
LEMMA CapNumbers ==
  ASSUME TypeOK, NEW c \in Chips
  PROVE  /\ sentToday[c] \in Nat /\ dailyCap[c] \in Nat /\ budget[c] \in Nat
         /\ jobsToday[c] \in Nat /\ faults \in Nat /\ Uncounted(c) \in 0..1
BY DEF TypeOK, ChipsOK, JobsOK, BudgetsOK, Uncounted

\* A step that writes no row of c, and after which c may go again only if the step was a
\* fault or took c out of the snapshot.
LEMMA CapKept ==
  ASSUME TypeOK, TypeOK', NEW c \in Chips, CapOf(c),
         UNCHANGED <<sentToday, dailyCap, budget, jobsToday>>,
         faults' \in {faults, faults + 1},
         c \in armed'[Timer] => ~due'[c],
         Uncounted(c) <= Uncounted(c)' \/ faults' = faults + 1,
         \/ faults' = faults + 1
         \/ \A d \in Dispatches :
              c \in plan'[Timer][d] => c \in plan[Timer][d] /\ (Spent(c) => Spent(c)')
  PROVE  CapOf(c)'
<1>1. Uncounted(c)' \in 0..1 /\ sentToday[c] \in Nat /\ budget[c] \in Nat
  BY CapNumbers DEF Uncounted
<1>2. Uncounted(c) \in 0..1 /\ jobsToday[c] \in Nat /\ faults \in Nat
  BY CapNumbers
<1>3. jobsToday[c] <= sentToday[c] + Uncounted(c)' + faults'
  BY <1>1, <1>2 DEF CapOf
<1>4. jobsToday[c] <= budget[c] + faults'
  BY <1>1, <1>2 DEF CapOf
<1>5. ASSUME ~Spent(c)', NEW d \in Dispatches, c \in plan'[Timer][d]
      PROVE  jobsToday[c] < budget[c] + faults'
  BY <1>1, <1>2, <1>5 DEF CapOf
<1> QED
  BY <1>3, <1>4, <1>5 DEF CapOf

\* The steps of the timer's tick keep what it works with.
LEMMA TimerTick ==
  ASSUME TypeOK, TimerInv, StartTick(Timer) \/ Tick(Timer),
         \A c \in Chips : c \in armed[Timer] => ~due[c]
  PROVE  TimerInv'
<1> USE BoundsAssumption DEF TypeOK, TicksOK, LocalsOK, TimerInv, Committed
<1>1. CASE StartTick(Timer)
  <2>1. /\ pc' = [pc EXCEPT ![Timer] = "reset"] /\ UNCHANGED <<plan, armed, chip, cur, lastReset, day>>
        /\ stale'[Timer] = {[chip |-> c, ramp |-> rampDay[c], status |-> chipStatus[c]]
                              : c \in {x \in Chips : DueForReset(x)}}
    BY <1>1 DEF StartTick, Goto, chipVars, clockVars
  <2>2. pc[Timer] = "idle"
    BY <1>1 DEF StartTick
  <2>3. \A r \in stale'[Timer] : lastReset[r.chip] < day
    BY <2>1 DEF DueForReset
  <2>4. \A r, s \in stale'[Timer] : r.chip = s.chip => r = s
    BY <2>1
  <2> QED
    BY <2>1, <2>2, <2>3, <2>4
<1>2. CASE ResetChip(Timer)
  <2> PICK r \in stale[Timer] : ResetRow(Timer, r)
    BY <1>2 DEF ResetChip
  <2>1. /\ stale' = [stale EXCEPT ![Timer] = @ \ {r}]
        /\ lastReset' = [lastReset EXCEPT ![r.chip] = day]
        /\ UNCHANGED <<pc, plan, armed, chip, cur, day>>
    BY <1>2 DEF ResetChip, ResetRow, clockVars
  <2>2. \A s \in stale'[Timer] : s \in stale[Timer] /\ s.chip # r.chip /\ s.chip \in Chips
    BY <2>1 DEF StaleRow
  <2>3. \A s \in stale'[Timer] : lastReset'[s.chip] < day'
    BY <2>1, <2>2 DEF ChipsOK
  <2> QED
    BY <1>2, <2>1, <2>2, <2>3 DEF ResetChip
<1>3. CASE LoadDispatches(Timer)
  BY <1>3 DEF LoadDispatches, Goto, chipVars, clockVars
<1>4. CASE CountPending(Timer)
  BY <1>4 DEF CountPending, Goto, chipVars, clockVars
<1>5. CASE FinishDispatch(Timer) \/ SkipDispatch(Timer)
  BY <1>5 DEF FinishDispatch, SkipDispatch, NextTurn, Goto, chipVars, clockVars
<1>6. CASE FindLead(Timer)
  BY <1>6 DEF FindLead, NextTurn, Goto, chipVars, clockVars
<1>7. CASE ClaimLead(Timer)
  BY <1>7 DEF ClaimLead, NextTurn, Goto, chipVars, clockVars
<1>8. CASE PrepareOpening(Timer) \/ EnqueueOpening(Timer) \/ CountSent(Timer) \/ MarkOpened(Timer)
  BY <1>8 DEF PrepareOpening, EnqueueOpening, CountSent, MarkOpened, Goto, chipVars, clockVars
<1>9. CASE ArmNextSend(Timer)
  BY <1>9 DEF ArmNextSend, NextTurn, Goto, chipVars, clockVars
<1>10. CASE RevertClaim(Timer)
  BY <1>10 DEF RevertClaim, NextTurn, Goto, chipVars, clockVars
<1>11. CASE EndTick(Timer)
  BY <1>11 DEF EndTick, Return, Goto, chipVars, clockVars
<1>12. CASE ChooseChip(Timer)
  <2>1. /\ pc' = [pc EXCEPT ![Timer] = "find"] /\ UNCHANGED <<plan, armed, cur, stale, lastReset, day>>
        /\ chip'[Timer] \in Eligible(Timer)
    BY <1>12 DEF ChooseChip, Goto, chipVars, clockVars
  <2>2. chip'[Timer] \in plan[Timer][cur[Timer]] \ armed[Timer]
    BY <1>12, <2>1 DEF Eligible, DueBySchedule
  <2> QED
    BY <1>12, <2>1, <2>2 DEF ChooseChip
<1> QED
  BY <1>1, <1>2, <1>3, <1>4, <1>5, <1>6, <1>7, <1>8, <1>9, <1>10, <1>11, <1>12 DEF Tick

\* The steps of the timer's tick keep the cap of a chip: the job it adds was free to be added,
\* and the count comes before the chip is armed.
LEMMA CapTick ==
  ASSUME TypeOK, TypeOK', TimerInv, StartTick(Timer) \/ Tick(Timer), NEW c \in Chips, CapOf(c)
  PROVE  CapOf(c)'
<1> USE BoundsAssumption DEF TypeOK, TicksOK, LocalsOK, TimerInv, Committed
<1>1. CASE StartTick(Timer)
  BY <1>1, CapKept DEF StartTick, Goto, Uncounted, Spent, CapOf, chipVars, clockVars, envVars, jobVars
<1>2. CASE ResetChip(Timer)
  <2> PICK r \in stale[Timer] : ResetRow(Timer, r)
    BY <1>2 DEF ResetChip
  <2>1. r.chip \in Chips /\ r.ramp \in Nat /\ lastReset[r.chip] < day
    BY DEF StaleRow
  <2>2. CASE c # r.chip
    <3>1. /\ sentToday'[c] = sentToday[c] /\ dailyCap'[c] = dailyCap[c]
          /\ budget'[c] = budget[c] /\ jobsToday'[c] = jobsToday[c]
      BY <2>1, <2>2 DEF ResetRow, ChipsOK, JobsOK
    <3>2. UNCHANGED <<pc, plan, chip, armed, due, faults>>
      BY <1>2 DEF ResetChip, clockVars, envVars
    <3> QED
      BY <3>1, <3>2 DEF CapOf, Uncounted, Spent
  <2>3. CASE c = r.chip
    <3> DEFINE cap == DailyCapForRamp(r.ramp + 1)
    <3>1. cap \in Nat
      BY <2>1, CapIsNat
    <3> HIDE DEF cap
    <3>2. /\ sentToday'[c] = 0 /\ dailyCap'[c] = cap /\ budget'[c] = cap /\ jobsToday'[c] = 0
      BY <2>1, <2>3 DEF ResetRow, ChipsOK, JobsOK, cap
    <3>3. UNCHANGED <<pc, plan, chip, armed, due, faults>> /\ pc[Timer] = "reset"
      BY <1>2 DEF ResetChip, clockVars, envVars
    <3> QED
      BY <3>1, <3>2, <3>3, CapNumbers DEF CapOf, Uncounted, Spent
  <2> QED
    BY <2>2, <2>3
<1>3. CASE LoadDispatches(Timer)
  <2>1. /\ UNCHANGED <<sentToday, dailyCap, budget, jobsToday, chip, armed, due, faults>>
        /\ pc[Timer] = "reset" /\ pc' = [pc EXCEPT ![Timer] = "loop"]
    BY <1>3 DEF LoadDispatches, Goto, chipVars, clockVars, envVars, jobVars
  <2>2. \A d \in Dispatches : c \in plan'[Timer][d] => dailyCap[c] - sentToday[c] > 0
    BY <1>3 DEF LoadDispatches, SendableRow
  <2> QED
    BY <2>1, <2>2, CapNumbers DEF CapOf, Uncounted, Spent
<1>4. CASE CountPending(Timer)
  BY <1>4, CapKept DEF CountPending, Goto, Uncounted, Spent, CapOf, chipVars, clockVars, envVars, jobVars
<1>5. CASE FinishDispatch(Timer) \/ SkipDispatch(Timer)
  BY <1>5, CapKept DEF FinishDispatch, SkipDispatch, NextTurn, Goto, Uncounted, Spent, CapOf,
     chipVars, clockVars, envVars, jobVars
<1>6. CASE ChooseChip(Timer)
  BY <1>6, CapKept DEF ChooseChip, Goto, Uncounted, Spent, CapOf, chipVars, clockVars, envVars, jobVars
<1>7. CASE FindLead(Timer)
  BY <1>7, CapKept DEF FindLead, NextTurn, Goto, Uncounted, Spent, CapOf, chipVars, clockVars,
     envVars, jobVars
<1>8. CASE ClaimLead(Timer) \/ PrepareOpening(Timer)
  BY <1>8, CapKept DEF ClaimLead, PrepareOpening, NextTurn, Goto, Uncounted, Spent, CapOf, chipVars,
     clockVars, envVars, jobVars
<1>9. CASE EnqueueOpening(Timer)
  <2>1. /\ UNCHANGED <<sentToday, dailyCap, budget, chip, cur, plan, armed, due, faults>>
        /\ pc[Timer] = "enqueue" /\ pc' = [pc EXCEPT ![Timer] = "count"]
        /\ jobsToday' = [jobsToday EXCEPT ![chip[Timer]] = @ + 1]
    BY <1>9 DEF EnqueueOpening, AddJob, Goto, chipVars, clockVars, envVars
  <2>2. CASE chip[Timer] = c
    <3>1. jobsToday[c] < budget[c] + faults
      <4>1. ~Spent(c) /\ cur[Timer] \in Dispatches /\ c \in plan[Timer][cur[Timer]]
        BY <2>1, <2>2 DEF Spent
      <4> QED
        BY <4>1 DEF CapOf
    <3>2. jobsToday'[c] = jobsToday[c] + 1
      BY <2>1, <2>2 DEF JobsOK
    <3>3. Uncounted(c)' = 1 /\ Uncounted(c) = 0 /\ Spent(c)'
      BY <2>1, <2>2 DEF Uncounted, Spent
    <3> QED
      BY <2>1, <3>1, <3>2, <3>3, CapNumbers DEF CapOf
  <2>3. CASE chip[Timer] # c
    <3>1. jobsToday'[c] = jobsToday[c]
      BY <2>1, <2>3 DEF JobsOK
    <3> QED
      BY <2>1, <2>3, <3>1 DEF CapOf, Uncounted, Spent
  <2> QED
    BY <2>2, <2>3
<1>10. CASE CountSent(Timer)
  <2>1. /\ UNCHANGED <<jobsToday, dailyCap, budget, chip, plan, armed, due, faults>>
        /\ pc[Timer] = "count" /\ pc' = [pc EXCEPT ![Timer] = "mark"]
        /\ sentToday' = [sentToday EXCEPT ![chip[Timer]] = @ + 1]
    BY <1>10 DEF CountSent, Goto, jobVars, clockVars, envVars
  <2>2. sentToday'[c] = sentToday[c] + Uncounted(c)
    BY <2>1 DEF ChipsOK, Uncounted
  <2> QED
    BY <2>1, <2>2, CapNumbers DEF CapOf, Uncounted, Spent
<1>11. CASE MarkOpened(Timer)
  BY <1>11, CapKept DEF MarkOpened, Goto, Uncounted, Spent, CapOf, chipVars, clockVars, envVars, jobVars
<1>12. CASE ArmNextSend(Timer)
  <2>1. /\ UNCHANGED <<sentToday, dailyCap, budget, jobsToday, plan, faults>> /\ pc[Timer] = "arm"
        /\ due' = [due EXCEPT ![chip[Timer]] = FALSE]
        /\ armed' = [armed EXCEPT ![Timer] = @ \cup {chip[Timer]}]
        /\ pc' = [pc EXCEPT ![Timer] = "loop"]
    BY <1>12 DEF ArmNextSend, NextTurn, Goto, chipVars, envVars, jobVars
  <2>2. c \in armed'[Timer] => ~due'[c]
    BY <2>1 DEF CapOf, ClockOK
  <2>3. Spent(c) => Spent(c)'
    BY <2>1 DEF Spent
  <2>4. Uncounted(c) <= Uncounted(c)'
    BY <2>1 DEF Uncounted
  <2> QED
    BY <2>1, <2>2, <2>3, <2>4, CapKept
<1>13. CASE RevertClaim(Timer)
  BY <1>13, CapKept DEF RevertClaim, NextTurn, Goto, Uncounted, Spent, CapOf, chipVars, clockVars,
     envVars, jobVars
<1>14. CASE EndTick(Timer)
  BY <1>14, CapKept DEF EndTick, Return, Goto, Uncounted, Spent, CapOf, chipVars, clockVars, envVars,
     jobVars
<1> QED
  BY <1>1, <1>2, <1>3, <1>4, <1>5, <1>6, <1>7, <1>8, <1>9, <1>10, <1>11, <1>12, <1>13, <1>14 DEF Tick

\* An exception or a crash pays for the job it leaves uncounted, and for the next of its chip.
LEMMA CapFailure ==
  ASSUME TypeOK, TypeOK', CapInv, Ticks = {Timer}, Failure
  PROVE  CapInv'
<1> USE BoundsAssumption DEF TypeOK, TicksOK, LocalsOK, TimerInv, Committed, CapInv
<1>1. CASE Crash
  <2>1. TimerInv'
    BY <1>1 DEF Crash, chipVars, clockVars
  <2>2. ASSUME NEW c \in Chips PROVE CapOf(c)'
    BY <1>1, CapKept DEF Crash, Fault, chipVars, jobVars
  <2> QED
    BY <2>1, <2>2
<1>2. CASE AbortTick(Timer)
  <2>1. TimerInv'
    BY <1>2 DEF AbortTick, Return, Goto, chipVars, clockVars
  <2>2. ASSUME NEW c \in Chips PROVE CapOf(c)'
    BY <1>2, CapKept DEF AbortTick, Return, Fault, chipVars, jobVars
  <2> QED
    BY <2>1, <2>2
<1>3. CASE ThrowInDispatch(Timer)
  <2>1. /\ UNCHANGED <<sentToday, dailyCap, budget, chip, cur, plan, armed, due, stale, lastReset, day>>
        /\ pc' = [pc EXCEPT ![Timer] = "revert"] /\ faults' = faults + 1
        /\ pc[Timer] \in {"prepare", "enqueue", "count", "mark"}
    BY <1>3 DEF ThrowInDispatch, Fault, Goto, chipVars, clockVars
  <2>2. TimerInv'
    BY <2>1
  <2>3. ASSUME NEW c \in Chips PROVE CapOf(c)'
    <3>1. CASE jobsToday' = jobsToday
      BY <2>1, <3>1, CapKept DEF CapOf
    <3>2. CASE pc[Timer] = "enqueue" /\ jobsToday' = [jobsToday EXCEPT ![chip[Timer]] = @ + 1]
      <4>1. jobsToday'[c] \in {jobsToday[c], jobsToday[c] + 1}
        BY <3>2 DEF JobsOK
      <4>2. jobsToday'[c] # jobsToday[c] => jobsToday[c] < budget[c] + faults
        <5> SUFFICES ASSUME chip[Timer] = c PROVE jobsToday[c] < budget[c] + faults
          BY <3>2 DEF JobsOK
        <5>1. ~Spent(c) /\ cur[Timer] \in Dispatches /\ c \in plan[Timer][cur[Timer]]
          BY <3>2 DEF Spent
        <5> QED
          BY <5>1 DEF CapOf
      <4>3. Uncounted(c) = 0 /\ Uncounted(c)' = 0
        BY <2>1, <3>2 DEF Uncounted
      <4> QED
        BY <2>1, <4>1, <4>2, <4>3, CapNumbers DEF CapOf
    <3> QED
      BY <1>3, <3>1, <3>2 DEF ThrowInDispatch, AddJob, jobVars
  <2> QED
    BY <2>2, <2>3
<1> QED
  BY <1>1, <1>2, <1>3 DEF Failure

\* What others write to the chip, and the clock: a cap that falls leaves the budget, and a
\* nextSend armed in a tick is not over before its end.
LEMMA CapOutside ==
  ASSUME TypeOK, TypeOK', CapInv, TimerAlone,
         \/ Endpoint \/ ChipWrite \/ Clock
         \/ \E n \in Phones : OptOutStep(n)
         \/ \E l \in Leads : LeadReplies(l)
  PROVE  CapInv'
<1> USE BoundsAssumption DEF CapInv
<1>1. ASSUME UNCHANGED <<tickVars, chipVars, jobVars, due, faults>>, day' \in {day, day + 1}
      PROVE  CapInv'
  <2>1. TimerInv'
    BY <1>1 DEF TypeOK, TicksOK, StaleRow, ChipsOK, ClockOK, TimerInv, tickVars, chipVars
  <2>2. ASSUME NEW c \in Chips PROVE CapOf(c)'
    BY <1>1 DEF CapOf, Uncounted, Spent, tickVars, chipVars, jobVars
  <2> QED
    BY <2>1, <2>2
<1>2. CASE Endpoint
  BY <1>1, <1>2 DEF Endpoint, SetStatus, SetChips, ToggleOpenings, Suppress, Unsuppress, Op, clockVars
<1>3. CASE Midnight \/ \E c \in Chips : WindowMoves(c)
  BY <1>1, <1>3 DEF Midnight, WindowMoves, Move, envVars
<1>4. ASSUME NEW c \in Chips, NextSendElapses(c) PROVE CapInv'
  <2>1. c \notin armed[Timer]
    BY <1>4 DEF NextSendElapses, TimerAlone
  <2>2. UNCHANGED <<tickVars, chipVars, jobVars, faults, day>> /\ due' = [due EXCEPT ![c] = TRUE]
    BY <1>4 DEF NextSendElapses, envVars
  <2>3. TimerInv'
    BY <2>2 DEF TimerInv, tickVars, chipVars
  <2>4. ASSUME NEW b \in Chips PROVE CapOf(b)'
    BY <2>1, <2>2 DEF CapOf, Uncounted, Spent, tickVars, chipVars, jobVars, TypeOK, ClockOK
  <2> QED
    BY <2>3, <2>4
<1>5. CASE ChipWrite
  <2>1. ASSUME UNCHANGED <<tickVars, sentToday, lastReset, jobVars, due, faults, day>>,
               \A c \in Chips : budget'[c] >= budget[c] /\ dailyCap'[c] <= budget'[c]
        PROVE  CapInv'
    <3>1. TimerInv'
      BY <2>1 DEF TimerInv, tickVars
    <3>2. ASSUME NEW c \in Chips PROVE CapOf(c)'
      <4>1. budget'[c] \in Nat
        BY DEF TypeOK, ChipsOK
      <4> QED
        BY <2>1, <4>1, CapNumbers DEF CapOf, Uncounted, Spent, tickVars, jobVars
    <3> QED
      BY <3>1, <3>2
  <2>2. ASSUME NEW c \in Chips, NEW s \in ChipStatus, NEW h \in BOOLEAN, ChipMoved(c, s, h)
        PROVE  CapInv'
    <3>1. \A b \in Chips : budget'[b] >= budget[b] /\ dailyCap'[b] <= budget'[b]
      BY <2>2, CapNumbers DEF ChipMoved, CapOf
    <3> QED
      BY <2>1, <2>2, <3>1 DEF ChipMoved, Move, clockVars
  <2>3. ASSUME NEW c \in Chips, NEW k \in 0..DailyCapForRamp(Len(RampCurve)), CapMoved(c, k)
        PROVE  CapInv'
    <3>1. k \in Int /\ \A b \in Chips : budget[b] \in Nat
      BY CapNumbers
    <3>2. \A b \in Chips : budget'[b] >= budget[b] /\ dailyCap'[b] <= budget'[b]
      BY <2>3, <3>1 DEF CapMoved, CapOf, TypeOK, ChipsOK
    <3> QED
      BY <2>1, <2>3, <3>2 DEF CapMoved, Move, clockVars
  <2> QED
    BY <1>5, <2>2, <2>3 DEF ChipWrite
<1>6. CASE (\E n \in Phones : OptOutStep(n)) \/ \E l \in Leads : LeadReplies(l)
  BY <1>1, <1>6 DEF OptOutStep, FlagLeads, UnflagLeads, ReopenLeads, LeadReplies, clockVars, envVars
<1> QED
  BY <1>2, <1>3, <1>4, <1>5, <1>6 DEF Clock

\* With the timer alone no chip goes over its cap, though each turn of a tick judges it by a
\* row read before the others (scheduler.service.ts:144-204, 308-311).
THEOREM CapHolds ==
  ASSUME TimerAlone
  PROVE  Spec => []CapRespected
<1>1. TypeOK /\ CapInv /\ [Next]_vars => CapInv'
  <2> SUFFICES ASSUME TypeOK, CapInv, [Next]_vars PROVE CapInv'
    OBVIOUS
  <2>1. TypeOK'
    BY TypeStep
  <2>2. CASE StartTick(Timer) \/ Tick(Timer)
    BY <2>1, <2>2, TimerTick, CapTick DEF CapInv, CapOf
  <2>3. CASE UNCHANGED vars
    BY <2>3 DEF vars, tickVars, chipVars, jobVars, clockVars, envVars, CapInv, TimerInv, CapOf,
       Uncounted, Spent
  <2> QED
    BY <2>1, <2>2, <2>3, CapFailure, CapOutside DEF Next, TimerAlone
<1>2. CapInv => CapRespected
  BY DEF CapInv, CapOf, CapRespected
<1> QED
  BY <1>1, <1>2, CapInit, TypeInit, TypeStep, PTL DEF Spec
=============================================================================
