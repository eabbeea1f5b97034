-------------------------- MODULE ChipHealthProofs --------------------------
(***************************************************************************)
(* Proofs about ChipHealth, for any number of concurrent signals and any    *)
(* bounds: the type invariant, the promise chain's mutual exclusion, the    *)
(* score bound, the kill switch, and what a retirement does to the session. *)
(***************************************************************************)
EXTENDS ChipHealth, TLAPS

LEMMA CapIsNat == \A r \in Nat : DailyCapForRamp(r) \in Nat
BY RampAssumption DEF DailyCapForRamp, Least

LEMMA ClampRange == \A n \in Int, low \in 0..100 : Clamp(n, low) \in low..100
BY DEF Clamp, Greatest, Least

\* A bad signal costs at least four points; the only good one is worth eight.
LEMMA WeightRange ==
  ASSUME NEW k \in DOMAIN Weight
  PROVE  Weight[k] \in Int /\ (Weight[k] <= -4 \/ Weight[k] = 8)
BY DEF Weight

LEMMA HealedRange ==
  ASSUME NEW k \in DOMAIN Weight
  PROVE  Healed(k) \subseteq 0..100 /\ (Weight[k] < 0 => Healed(k) = {0})
BY SignalsAssumption DEF Healed

\* The row process() computes from the row it read.
After(r, k, h) == [r EXCEPT !.score = Clamp(@ + h + Weight[k], 0),
                            !.fails = FailsAfter(k, @)]

LEMMA AfterIsRow ==
  ASSUME NEW r \in Row, NEW k \in DOMAIN Weight, NEW h \in Healed(k)
  PROVE  /\ After(r, k, h) \in Row
         /\ After(r, k, h).score = Clamp(r.score + h + Weight[k], 0)
         /\ After(r, k, h).score \in 0..100 /\ After(r, k, h).fails \in Nat
<1>1. h \in 0..100 /\ Weight[k] \in Int
  BY HealedRange, WeightRange
<1>2. r.score + h + Weight[k] \in Int
  BY <1>1 DEF Row
<1>3. Clamp(r.score + h + Weight[k], 0) \in 0..100
  BY <1>2, ClampRange
<1>4. FailsAfter(k, r.fails) \in Nat
  BY DEF FailsAfter, Row
<1>. QED
  BY <1>3, <1>4 DEF After, Row

LEMMA TypeInit == Init => TypeOK
<1>. SUFFICES ASSUME Init PROVE TypeOK
  OBVIOUS
<1>1. RowOK
  <2>1. RampCurve[1] \in Nat
    BY RampAssumption
  <2>2. score \in 0..100
    BY SignalsAssumption DEF Init, SoftThreshold
  <2>. QED
    BY <2>1, <2>2 DEF Init, RowOK, ChipStatus
<1>6. WorkerOK
  BY DEF Init, WorkerOK
<1>2. ChainOK
  BY DEF Init, ChainOK, PC, Weight, NoRow, Row, ChipStatus
<1>3. OthersOK
  BY DEF Init, OthersOK, NoReading, ChipStatus
<1>4. BudgetsOK
  BY DEF Init, BudgetsOK
<1>5. PastOK
  BY DEF Init, PastOK
<1>. QED
  BY <1>1, <1>2, <1>3, <1>4, <1>5, <1>6 DEF TypeOK

\* Groups of TypeOK that a step leaves alone.
LEMMA Frame ==
  /\ RowOK /\ UNCHANGED rowVars => RowOK'
  /\ WorkerOK /\ UNCHANGED workerVars => WorkerOK'
  /\ ChainOK /\ UNCHANGED chainVars => ChainOK'
  /\ OthersOK /\ UNCHANGED otherVars => OthersOK'
  /\ BudgetsOK /\ UNCHANGED budgetVars => BudgetsOK'
  /\ PastOK /\ UNCHANGED pastVars => PastOK'
<1>1. RowOK /\ UNCHANGED rowVars => RowOK'
  BY DEF RowOK, rowVars
<1>6. WorkerOK /\ UNCHANGED workerVars => WorkerOK'
  BY DEF WorkerOK, workerVars, handlerVars
<1>2. ChainOK /\ UNCHANGED chainVars => ChainOK'
  BY DEF ChainOK, chainVars
<1>3. OthersOK /\ UNCHANGED otherVars => OthersOK'
  BY DEF OthersOK, otherVars
<1>4. BudgetsOK /\ UNCHANGED budgetVars => BudgetsOK'
  BY DEF BudgetsOK, budgetVars
<1>5. PastOK /\ UNCHANGED pastVars => PastOK'
  BY DEF PastOK, pastVars
<1>. QED
  BY <1>1, <1>2, <1>3, <1>4, <1>5, <1>6

LEMMA CommandTyped ==
  ASSUME WorkerOK, NEW command, Commanded(command)
  PROVE  WorkerOK'
BY DEF WorkerOK, Commanded

LEMMA DroppedTyped ==
  ASSUME WorkerOK, NEW retirement, Dropped(retirement)
  PROVE  WorkerOK'
BY DEF WorkerOK, Dropped, handlerVars

LEMMA SettleChain ==
  ASSUME ChainOK, NEW s \in Slots, Settle(s), chain # <<>>
  PROVE  ChainOK'
BY DEF ChainOK, Settle, PC, NoRow, Row, ChipStatus

\* Whoever runs is at the head of the chain: at most one call of process() has read
\* the row and not settled.
ChainInv == \A s \in Slots : pc[s] \in InFlight => chain # <<>> /\ Head(chain) = s

LEMMA TypeIngest ==
  ASSUME TypeOK, NEW s \in Slots, NEW k \in Signals, Ingest(s, k)
  PROVE  TypeOK'
<1>1. ChainOK'
  BY SignalsAssumption DEF TypeOK, ChainOK, Ingest, PC
<1>2. BudgetsOK'
  BY DEF TypeOK, BudgetsOK, Ingest
<1>. QED
  BY <1>1, <1>2, Frame DEF TypeOK, Ingest

LEMMA TypeProcess ==
  ASSUME TypeOK, ChainInv, NEW s \in Slots, Process(s)
  PROVE  TypeOK'
<1>. USE DEF TypeOK
<1>a. pc[s] \in InFlight => chain # <<>>
  BY DEF ChainInv
<1>1. CASE ReadRow(s)
  <2>1. ChainOK'
    <3>1. CASE status = "RETIRED" /\ Settle(s)
      BY <1>1, <3>1, SettleChain DEF ReadRow, MyTurn
    <3>2. CASE status # "RETIRED"
      <4>1. [status |-> status, score |-> score, fails |-> fails, cap |-> cap] \in Row
        BY DEF RowOK, Row
      <4>. QED
        BY <1>1, <3>2, <4>1 DEF ReadRow, ChainOK, PC
    <3>. QED
      BY <1>1, <3>1, <3>2 DEF ReadRow
  <2>2. PastOK'
    BY <1>1 DEF ReadRow, PastOK
  <2>. QED
    BY <1>1, <2>1, <2>2, Frame DEF ReadRow
<1>2. CASE WriteScore(s)
  <2>1. PICK h \in Healed(kind[s]) :
          LET new == After(seen[s], kind[s], h)
          IN /\ score' = new.score /\ fails' = new.fails
             /\ \/ Settle(s)
                \/ /\ pc' = [pc EXCEPT ![s] = "policy"]
                   /\ seen' = [seen EXCEPT ![s] = new]
                   /\ UNCHANGED <<chain, kind>>
    BY <1>2 DEF WriteScore, After
  <2>2. seen[s] \in Row /\ kind[s] \in DOMAIN Weight
    BY DEF ChainOK
  <2>3. /\ After(seen[s], kind[s], h) \in Row
        /\ After(seen[s], kind[s], h).score \in 0..100
        /\ After(seen[s], kind[s], h).fails \in Nat
    BY <2>2, AfterIsRow
  <2>4. RowOK'
    BY <1>2, <2>1, <2>3 DEF RowOK, WriteScore
  <2>5. ChainOK'
    <3>1. CASE Settle(s)
      BY <1>2, <1>a, <3>1, SettleChain DEF WriteScore, InFlight
    <3>2. CASE ~Settle(s)
      BY <2>1, <2>3, <3>2 DEF ChainOK, PC
    <3>. QED
      BY <3>1, <3>2
  <2>6. PastOK'
    BY <1>2 DEF WriteScore, PastOK
  <2>. QED
    BY <1>2, <2>4, <2>5, <2>6, Frame DEF WriteScore
<1>3. CASE ApplyPolicy(s)
  <2>1. seen[s].cap \in Nat
    BY DEF ChainOK, Row
  <2>2. HalfCap(seen[s].cap) \in Nat
    BY <2>1 DEF HalfCap, Greatest
  <2>3. RowOK'
    BY <1>3, <2>2 DEF ApplyPolicy, RowOK, LateWrite, ChipStatus, CooldownRampCap
  <2>4. ChainOK'
    <3>1. CASE Settle(s)
      BY <1>3, <1>a, <3>1, SettleChain DEF ApplyPolicy, InFlight
    <3>2. CASE ~Settle(s)
      BY <1>3, <3>2 DEF ApplyPolicy, ChainOK, PC
    <3>. QED
      BY <3>1, <3>2
  <2>5. PastOK'
    BY <1>3 DEF ApplyPolicy, PastOK, LateWrite
  <2>. QED
    BY <1>3, <2>3, <2>4, <2>5, Frame DEF ApplyPolicy
<1>4. CASE SendCommand(s)
  <2>1. ChainOK'
    BY <1>4, <1>a, SettleChain DEF SendCommand, InFlight
  <2>2. WorkerOK'
    BY <1>4, CommandTyped DEF SendCommand
  <2>. QED
    BY <1>4, <2>1, <2>2, Frame DEF SendCommand
<1>5. CASE Retry(s)
  <2>1. ChainOK'
    BY <1>5 DEF Retry, ChainOK, PC
  <2>. QED
    BY <1>5, <2>1, Frame DEF Retry
<1>. QED
  BY <1>1, <1>2, <1>3, <1>4, <1>5 DEF Process

LEMMA TypeSweep ==
  ASSUME TypeOK, SweepStep
  PROVE  TypeOK'
<1>. USE DEF TypeOK
<1>1. CASE SweepRead
  <2>1. OthersOK'
    BY <1>1 DEF SweepRead, OthersOK, RowOK
  <2>. QED
    BY <1>1, <2>1, Frame DEF SweepRead
<1>2. CASE SweepHeal
  <2>1. Clamp(sweepScore + 25, SoftThreshold) \in 0..100
    BY ClampRange DEF OthersOK, SoftThreshold
  <2>2. RowOK'
    BY <1>2, <2>1 DEF SweepHeal, RowOK
  <2>3. OthersOK' /\ PastOK'
    BY <1>2 DEF SweepHeal, OthersOK, PastOK, Meddle
  <2>. QED
    BY <1>2, <2>2, <2>3, Frame DEF SweepHeal
<1>3. CASE SweepRecover
  <2>1. RowOK'
    BY <1>3 DEF SweepRecover, RowOK, LateWrite, ChipStatus, CooldownRampCap
  <2>2. OthersOK'
    BY <1>3 DEF SweepRecover, OthersOK
  <2>3. PastOK'
    BY <1>3 DEF SweepRecover, PastOK, LateWrite, Meddle
  <2>. QED
    BY <1>3, <2>1, <2>2, <2>3, Frame DEF SweepRecover
<1>4. CASE SweepCommand
  <2>1. WorkerOK'
    BY <1>4, CommandTyped DEF SweepCommand
  <2>2. OthersOK'
    BY <1>4 DEF SweepCommand, OthersOK
  <2>. QED
    BY <1>4, <2>1, <2>2, Frame DEF SweepCommand
<1>. QED
  BY <1>1, <1>2, <1>3, <1>4 DEF SweepStep

LEMMA TypeReset ==
  ASSUME TypeOK, ResetRead \/ ResetWrite
  PROVE  TypeOK'
<1>. USE DEF TypeOK
<1>1. CASE ResetRead
  <2>1. OthersOK'
    BY <1>1 DEF ResetRead, OthersOK, RowOK
  <2>. QED
    BY <1>1, <2>1, Frame DEF ResetRead
<1>2. CASE ResetWrite
  <2>1. resetRow.ramp + 1 \in Nat
    BY DEF OthersOK
  <2>2. DailyCapForRamp(resetRow.ramp + 1) \in Nat
    BY <2>1, CapIsNat
  <2>3. RowOK'
    BY <1>2, <2>1, <2>2 DEF ResetWrite, RowOK, LateWrite, ChipStatus
  <2>4. OthersOK'
    BY <1>2 DEF ResetWrite, OthersOK, NoReading, ChipStatus
  <2>5. PastOK'
    BY <1>2 DEF ResetWrite, PastOK, LateWrite
  <2>. QED
    BY <1>2, <2>3, <2>4, <2>5, Frame DEF ResetWrite
<1>. QED
  BY <1>1, <1>2

LEMMA TypeOperator ==
  ASSUME TypeOK, Operator \/ AddControl
  PROVE  TypeOK'
<1>. USE DEF TypeOK
<1>1. ASSUME NEW type \in Commands, SendControl(type) PROVE TypeOK'
  <2>1. RowOK' /\ OthersOK'
    BY <1>1, LimitsAssumption DEF SendControl, RowOK, OthersOK, ChipStatus
  <2>2. BudgetsOK' /\ PastOK'
    BY <1>1 DEF SendControl, Op, BudgetsOK, PastOK
  <2>. QED
    BY <1>1, <2>1, <2>2, Frame DEF SendControl
<1>2. CASE Recreate
  <2>1. RowOK'
    BY <1>2 DEF Recreate, RowOK, ChipStatus
  <2>2. BudgetsOK' /\ PastOK'
    BY <1>2 DEF Recreate, Op, BudgetsOK, PastOK, Meddle
  <2>. QED
    BY <1>2, <2>1, <2>2, Frame DEF Recreate
<1>3. ASSUME NEW r \in 1..Len(RampCurve), UpdateConfig(r) PROVE TypeOK'
  <2>1. r \in Nat /\ DailyCapForRamp(r) \in Nat
    BY CapIsNat, RampAssumption
  <2>2. RowOK'
    BY <1>3, <2>1 DEF UpdateConfig, RowOK
  <2>3. BudgetsOK'
    BY <1>3 DEF UpdateConfig, Op, BudgetsOK
  <2>. QED
    BY <1>3, <2>2, <2>3, Frame DEF UpdateConfig
<1>4. CASE AddControl
  <2>1. WorkerOK' /\ OthersOK'
    BY <1>4, CommandTyped DEF AddControl, OthersOK
  <2>. QED
    BY <1>4, <2>1, Frame DEF AddControl
<1>. QED
  BY <1>1, <1>2, <1>3, <1>4 DEF Operator

LEMMA TypeWorld ==
  ASSUME TypeOK, Connected \/ GoSilent \/ Midnight
  PROVE  TypeOK'
<1>. USE DEF TypeOK
<1>1. CASE Connected
  <2>1. RowOK'
    <3>1. CASE status = "NEW"
      <4>1. /\ status' = "WARMING" /\ ramp' = 1 /\ cap' = 5
            /\ resetDue' = FALSE /\ silent' = FALSE
            /\ UNCHANGED <<score, fails>>
        BY <1>1, <3>1 DEF Connected
      <4>. QED
        BY <4>1 DEF RowOK, ChipStatus
    <3>2. CASE status # "NEW"
      BY <1>1, <3>2 DEF Connected, RowOK, ChipStatus
    <3>. QED
      BY <3>1, <3>2
  <2>2. BudgetsOK'
    BY <1>1 DEF Connected, BudgetsOK
  <2>. QED
    BY <1>1, <2>1, <2>2, Frame DEF Connected
<1>2. CASE GoSilent
  <2>1. RowOK'
    BY <1>2 DEF GoSilent, RowOK
  <2>. QED
    BY <1>2, <2>1, Frame DEF GoSilent
<1>3. CASE Midnight
  <2>1. RowOK' /\ BudgetsOK'
    BY <1>3 DEF Midnight, RowOK, BudgetsOK
  <2>. QED
    BY <1>3, <2>1, Frame DEF Midnight
<1>. QED
  BY <1>1, <1>2, <1>3

LEMMA DropTyped ==
  ASSUME ChainOK, PastOK, NEW dead \in SUBSET Slots, Drop(dead),
         chain' \in Seq(Slots), UNCHANGED <<bad, meddled, undone>>
  PROVE  ChainOK' /\ PastOK'
<1>1. PICK back \in SUBSET dead :
        /\ pc' = [s \in Slots |-> IF s \in back THEN "retry"
                                  ELSE IF s \in dead THEN "idle" ELSE pc[s]]
        /\ lost' = (lost \/ back # dead)
  BY DEF Drop
<1>2. pc' \in [Slots -> PC]
  BY <1>1 DEF ChainOK, PC
<1>3. seen' \in [Slots -> Row]
  BY DEF Drop, ChainOK, NoRow, Row, ChipStatus
<1>4. lost' \in BOOLEAN
  BY <1>1
<1>. QED
  BY <1>2, <1>3, <1>4 DEF ChainOK, PastOK, Drop

LEMMA TypeFailure ==
  ASSUME TypeOK, ChainInv, Crash \/ GiveUp \/ \E s \in Slots : Throw(s)
  PROVE  TypeOK'
<1>. USE DEF TypeOK
<1>1. ASSUME NEW s \in Slots, Throw(s) PROVE TypeOK'
  <2>1. chain' \in Seq(Slots)
    BY <1>1 DEF Throw, ChainOK, MyTurn, ChainInv
  <2>2. ChainOK' /\ PastOK'
    BY <1>1, <2>1, DropTyped DEF Throw
  <2>3. WorkerOK'
    BY <1>1, CommandTyped, DroppedTyped DEF Throw
  <2>4. BudgetsOK'
    BY <1>1 DEF Throw, Fault, BudgetsOK
  <2>. QED
    BY <1>1, <2>2, <2>3, <2>4, Frame DEF Throw
<1>2. CASE Crash
  <2>1. ChainOK' /\ PastOK'
    BY <1>2, DropTyped DEF Crash
  <2>2. OthersOK' /\ BudgetsOK'
    BY <1>2 DEF Crash, Fault, OthersOK, BudgetsOK
  <2>3. WorkerOK'
    BY <1>2, DroppedTyped DEF Crash
  <2>. QED
    BY <1>2, <2>1, <2>2, <2>3, Frame DEF Crash
<1>3. CASE GiveUp
  <2>1. OthersOK' /\ BudgetsOK'
    BY <1>3 DEF GiveUp, Fault, OthersOK, BudgetsOK
  <2>2. WorkerOK'
    BY <1>3, DroppedTyped, Frame DEF GiveUp
  <2>. QED
    BY <1>3, <2>1, <2>2, Frame DEF GiveUp
<1>. QED
  BY <1>1, <1>2, <1>3

\* A step of the worker leaves row, chain and callers alone.
LEMMA WorkerFrame == Worker => WorkerStep
BY DEF Worker, TakeStart, Look, Found, TakeStop, Stopped

LEMMA TypeWorker ==
  ASSUME TypeOK, Worker
  PROVE  TypeOK'
<1>1. WorkerOK'
  <2>. USE DEF TypeOK, WorkerOK
  <2>1. CASE TakeStart \/ TakeStop
    BY <2>1 DEF TakeStart, TakeStop
  <2>2. CASE Look
    BY <2>2 DEF Look
  <2>3. CASE Found \/ Stopped
    <3>1. session' \in BOOLEAN /\ stray' \in BOOLEAN /\ untold' \in BOOLEAN
      BY <2>3 DEF Found, Stopped
    <3>2. /\ starts' \in Nat /\ ends' \in Nat /\ looking' \in Nat
          /\ found' \in Nat /\ stops' \in Nat /\ late' \in Nat
      BY <2>3 DEF Found, Stopped
    <3>. QED
      BY <3>1, <3>2
  <2>. QED
    BY <2>1, <2>2, <2>3 DEF Worker
<1>2. WorkerStep
  BY WorkerFrame
<1>. QED
  BY <1>1, <1>2, Frame DEF TypeOK, WorkerStep

LEMMA TypeStep == TypeOK /\ ChainInv /\ [Next]_vars => TypeOK'
<1>. SUFFICES ASSUME TypeOK, ChainInv, [Next]_vars PROVE TypeOK'
  OBVIOUS
<1>1. CASE UNCHANGED vars
  BY <1>1, Frame DEF TypeOK, vars
<1>2. CASE Next
  BY <1>2, TypeProcess, TypeIngest, TypeSweep, TypeReset, TypeOperator, TypeWorld,
     TypeFailure, TypeWorker DEF Next
<1>. QED
  BY <1>1, <1>2

-----------------------------------------------------------------------------
(* The promise chain.                                                        *)

LEMMA ChainStep == TypeOK /\ ChainInv /\ [Next]_vars => ChainInv'
<1>. SUFFICES ASSUME TypeOK, ChainInv, [Next]_vars, NEW x \in Slots, pc'[x] \in InFlight
              PROVE  chain' # <<>> /\ Head(chain') = x
  BY DEF ChainInv
<1>. USE DEF TypeOK, ChainOK, InFlight
<1>1. CASE UNCHANGED chainVars
  BY <1>1 DEF ChainInv, chainVars
<1>2. ASSUME NEW s \in Slots, NEW k \in Signals, Ingest(s, k)
      PROVE  chain' # <<>> /\ Head(chain') = x
  <2>1. x # s /\ pc[x] \in InFlight
    BY <1>2 DEF Ingest
  <2>. QED
    BY <1>2, <2>1 DEF Ingest, ChainInv
<1>3. ASSUME NEW s \in Slots, Process(s)
      PROVE  chain' # <<>> /\ Head(chain') = x
  <2>1. ASSUME Settle(s), MyTurn(s) \/ pc[s] \in InFlight
        PROVE  FALSE
    <3>1. chain # <<>> /\ Head(chain) = s
      BY <2>1 DEF MyTurn, ChainInv
    <3>2. x # s /\ pc[x] \in InFlight
      BY <2>1 DEF Settle
    <3>. QED
      BY <3>1, <3>2 DEF ChainInv
  <2>2. CASE ReadRow(s)
    BY <2>1, <2>2 DEF ReadRow, MyTurn, ChainInv
  <2>3. CASE WriteScore(s)
    BY <2>1, <2>3 DEF WriteScore, ChainInv
  <2>4. CASE ApplyPolicy(s)
    BY <2>1, <2>4 DEF ApplyPolicy, ChainInv
  <2>5. CASE SendCommand(s)
    BY <2>1, <2>5 DEF SendCommand
  <2>6. CASE Retry(s)
    <3>1. x # s /\ pc[x] \in InFlight
      BY <2>6 DEF Retry
    <3>. QED
      BY <2>6, <3>1 DEF Retry, ChainInv
  <2>. QED
    BY <1>3, <2>2, <2>3, <2>4, <2>5, <2>6 DEF Process
<1>4. ASSUME NEW s \in Slots, Throw(s)
      PROVE  chain' # <<>> /\ Head(chain') = x
  <2>1. chain # <<>> /\ Head(chain) = s
    BY <1>4 DEF Throw, MyTurn, ChainInv
  <2>2. x # s /\ pc[x] \in InFlight
    BY <1>4 DEF Throw, Drop
  <2>. QED
    BY <2>1, <2>2 DEF ChainInv
<1>5. CASE Crash
  BY <1>5 DEF Crash, Drop
<1>6. CASE SweepStep \/ ResetRead \/ ResetWrite \/ AddControl
  BY <1>1, <1>6 DEF SweepStep, SweepRead, SweepHeal, SweepRecover, SweepCommand,
     ResetRead, ResetWrite, AddControl
<1>7. CASE Operator
  BY <1>1, <1>7 DEF Operator, SendControl, Recreate, UpdateConfig
<1>8. CASE Connected \/ GoSilent \/ Midnight \/ GiveUp
  BY <1>1, <1>8 DEF Connected, GoSilent, Midnight, GiveUp
<1>9. CASE Worker
  BY <1>1, <1>9, WorkerFrame DEF WorkerStep
<1>. QED
  BY <1>1, <1>2, <1>3, <1>4, <1>5, <1>6, <1>7, <1>8, <1>9 DEF Next, vars

LEMMA ChainInit == Init => ChainInv
BY DEF Init, ChainInv, InFlight

\* The row, the chain and the locals keep their types (ChipHealth!TypeOK).
THEOREM TypeCorrect == Spec => []TypeOK
<1>1. TypeOK /\ ChainInv /\ [Next]_vars => (TypeOK /\ ChainInv)'
  BY TypeStep, ChainStep
<1>. QED
  BY TypeInit, ChainInit, <1>1, PTL DEF Spec

LEMMA Running == Spec => [](TypeOK /\ ChainInv)
<1>1. TypeOK /\ ChainInv /\ [Next]_vars => (TypeOK /\ ChainInv)'
  BY TypeStep, ChainStep
<1>. QED
  BY TypeInit, ChainInit, <1>1, PTL DEF Spec

-----------------------------------------------------------------------------
(* The copy of the row in hand, and the score.                               *)

LEMMA FreshStep == TypeOK /\ ChainInv /\ FreshCopy /\ [Next]_vars => FreshCopy'
<1>. SUFFICES ASSUME TypeOK, ChainInv, FreshCopy, [Next]_vars,
                     NEW x \in Slots, x \notin meddled', pc'[x] = "score"
              PROVE  seen'[x].score = score' /\ seen'[x].fails = fails'
  BY DEF FreshCopy
<1>. USE DEF TypeOK, ChainOK
<1>1. CASE UNCHANGED <<chainVars, score, fails, meddled>>
  BY <1>1 DEF FreshCopy, chainVars
<1>2. ASSUME NEW s \in Slots, NEW k \in Signals, Ingest(s, k)
      PROVE  seen'[x].score = score' /\ seen'[x].fails = fails'
  BY <1>2 DEF Ingest, FreshCopy, rowVars, pastVars
<1>3. ASSUME NEW s \in Slots, Process(s)
      PROVE  seen'[x].score = score' /\ seen'[x].fails = fails'
  <2>1. CASE ReadRow(s)
    <3>1. CASE x = s
      BY <2>1, <3>1 DEF ReadRow, Settle, rowVars
    <3>2. CASE x # s
      BY <2>1, <3>2 DEF ReadRow, Settle, FreshCopy, rowVars
    <3>. QED
      BY <3>1, <3>2
  <2>2. CASE WriteScore(s) \/ ApplyPolicy(s) \/ SendCommand(s)
    \* Only the head of the chain is in flight, and it does not stay at "score".
    <3>1. pc[s] \in InFlight /\ pc'[s] # "score"
      BY <2>2 DEF WriteScore, ApplyPolicy, SendCommand, Settle, InFlight
    <3>2. x # s /\ pc[x] = "score"
      BY <2>2, <3>1 DEF WriteScore, ApplyPolicy, SendCommand, Settle
    <3>. QED
      BY <3>1, <3>2 DEF ChainInv, InFlight
  <2>3. CASE Retry(s)
    BY <2>3 DEF Retry, FreshCopy, rowVars, pastVars
  <2>. QED
    BY <1>3, <2>1, <2>2, <2>3 DEF Process
<1>4. ASSUME NEW s \in Slots, Throw(s)
      PROVE  seen'[x].score = score' /\ seen'[x].fails = fails'
  BY <1>4 DEF Throw, Drop, FreshCopy, rowVars
<1>5. CASE Crash
  BY <1>5 DEF Crash, Drop, FreshCopy, rowVars
<1>6. CASE SweepHeal \/ SweepRecover \/ Recreate
  BY <1>6 DEF SweepHeal, SweepRecover, Recreate, Meddle, chainVars
<1>7. CASE SweepRead \/ SweepCommand \/ ResetRead \/ ResetWrite \/ AddControl
  BY <1>1, <1>7 DEF SweepRead, SweepCommand, ResetRead, ResetWrite, AddControl, rowVars, pastVars
<1>8. CASE (\E type \in Commands : SendControl(type)) \/ (\E r \in 1..Len(RampCurve) : UpdateConfig(r))
  BY <1>1, <1>8 DEF SendControl, UpdateConfig, pastVars
<1>9. CASE Connected \/ GoSilent \/ Midnight \/ GiveUp
  BY <1>1, <1>9 DEF Connected, GoSilent, Midnight, GiveUp, rowVars, pastVars
<1>10. CASE Worker
  BY <1>1, <1>10, WorkerFrame DEF WorkerStep, rowVars, chainVars, pastVars
<1>. QED
  BY <1>1, <1>2, <1>3, <1>4, <1>5, <1>6, <1>7, <1>8, <1>9, <1>10
  DEF Next, vars, SweepStep, Operator, rowVars, pastVars

\* The promise chain makes each read-modify-write of the score whole (FreshCopy).
THEOREM ScoreSerialised == Spec => []FreshCopy
<1>1. Init => FreshCopy
  BY DEF Init, FreshCopy
<1>. QED
  BY <1>1, FreshStep, Running, PTL DEF Spec

\* The score, and the copy about to be worked on, are within what n bad signals leave.
Ceiling == Greatest(0, 100 - 4 * bad)
ScarInv == /\ score <= Ceiling
           /\ \A s \in Slots : pc[s] = "score" => seen[s].score <= Ceiling

LEMMA ScarStep == TypeOK /\ ChainInv /\ ScarInv /\ [Next]_vars => ScarInv'
<1>. SUFFICES ASSUME TypeOK, ChainInv, ScarInv, [Next]_vars
              PROVE  ScarInv'
  OBVIOUS
<1>. USE DEF TypeOK, ChainOK, RowOK, PastOK, Ceiling
<1>1. CASE UNCHANGED <<pc, seen, score, bad>>
  BY <1>1 DEF ScarInv
<1>2. ASSUME NEW s \in Slots, NEW k \in Signals, Ingest(s, k) PROVE ScarInv'
  BY <1>2 DEF Ingest, ScarInv, rowVars, pastVars
<1>3. ASSUME NEW s \in Slots, ReadRow(s) PROVE ScarInv'
  BY <1>3 DEF ReadRow, Settle, ScarInv, rowVars
<1>4. ASSUME NEW s \in Slots, WriteScore(s) PROVE ScarInv'
  <2>1. PICK h \in Healed(kind[s]) : score' = After(seen[s], kind[s], h).score
    BY <1>4 DEF WriteScore, After
  <2>2. seen[s] \in Row /\ kind[s] \in DOMAIN Weight
    OBVIOUS
  <2>3. score' = Clamp(seen[s].score + h + Weight[kind[s]], 0)
    BY <2>1, <2>2, AfterIsRow
  <2>4. seen[s].score \in 0..100 /\ seen[s].score <= Ceiling
    BY <1>4, <2>2 DEF Row, ScarInv, WriteScore
  <2>5. score' <= Ceiling'
    <3>1. CASE Weight[kind[s]] < 0
      <4>1. h = 0 /\ Weight[kind[s]] \in Int /\ Weight[kind[s]] <= -4
        BY <2>2, <3>1, HealedRange, WeightRange
      <4>2. bad' = bad + 1
        BY <1>4, <3>1 DEF WriteScore
      <4>3. PICK w \in Int : w = Weight[kind[s]] /\ w <= -4
        BY <4>1
      <4>4. PICK n \in 0..100 : n = seen[s].score
        BY <2>4
      <4>5. n <= 0 \/ n <= 100 - 4 * bad
        BY <2>4, <4>4 DEF Greatest
      <4>6. score' = Clamp(n + w, 0) /\ n + w <= n - 4
        BY <2>3, <4>1, <4>3, <4>4
      <4>7. score' <= 0 \/ score' <= n - 4
        BY <4>4, <4>6 DEF Clamp, Greatest, Least
      <4>8. score' \in 0..100
        BY <2>1, <2>2, AfterIsRow
      <4>. QED
        BY <4>2, <4>5, <4>7, <4>8 DEF Greatest
    <3>2. CASE ~(Weight[kind[s]] < 0)
      <4>1. bad' = 0
        BY <1>4, <3>2 DEF WriteScore
      <4>2. score' \in 0..100
        BY <2>2, <2>1, AfterIsRow
      <4>. QED
        BY <4>1, <4>2 DEF Greatest
    <3>. QED
      BY <3>1, <3>2
  <2>6. \A x \in Slots : pc'[x] # "score"
    <3>1. pc[s] = "score" /\ pc'[s] # "score"
      BY <1>4 DEF WriteScore, Settle
    <3>2. \A x \in Slots : pc[x] = "score" => x = s
      BY <3>1 DEF ChainInv, InFlight
    <3>. QED
      BY <1>4, <3>1, <3>2 DEF WriteScore, Settle
  <2>. QED
    BY <2>5, <2>6 DEF ScarInv
<1>5. ASSUME NEW s \in Slots, ApplyPolicy(s) \/ SendCommand(s) \/ Retry(s) PROVE ScarInv'
  BY <1>5 DEF ApplyPolicy, SendCommand, Retry, Settle, ScarInv, rowVars, pastVars
<1>6. ASSUME NEW s \in Slots, Throw(s) PROVE ScarInv'
  BY <1>6 DEF Throw, Drop, ScarInv, rowVars
<1>7. CASE Crash
  BY <1>7 DEF Crash, Drop, ScarInv, rowVars
<1>8. CASE SweepHeal \/ Recreate
  <2>1. Ceiling' = 100 /\ score' \in 0..100
    <3>1. Clamp(sweepScore + 25, SoftThreshold) \in 0..100
      BY ClampRange DEF OthersOK, SoftThreshold
    <3>2. score' \in 0..100 /\ bad' = 0
      BY <1>8, <3>1 DEF SweepHeal, Recreate
    <3>. QED
      BY <3>2 DEF Greatest
  <2>2. UNCHANGED <<pc, seen>>
    BY <1>8 DEF SweepHeal, Recreate, chainVars
  <2>3. ASSUME NEW s \in Slots PROVE seen[s].score <= 100
    <3>1. seen[s] \in Row
      OBVIOUS
    <3>2. seen[s].score \in 0..100
      BY <3>1 DEF Row
    <3>3. \A n \in 0..100 : n <= 100
      OBVIOUS
    <3>. QED
      BY <3>2, <3>3, Zenon
  <2>. QED
    BY <2>1, <2>2, <2>3 DEF ScarInv
<1>9. CASE SweepRead \/ SweepRecover \/ SweepCommand \/ ResetRead \/ ResetWrite \/ AddControl
  BY <1>1, <1>9 DEF SweepRead, SweepRecover, SweepCommand, ResetRead, ResetWrite, AddControl,
     rowVars, pastVars, chainVars
<1>10. CASE (\E type \in Commands : SendControl(type)) \/ (\E r \in 1..Len(RampCurve) : UpdateConfig(r))
  BY <1>1, <1>10 DEF SendControl, UpdateConfig, pastVars, chainVars
<1>11. CASE Connected \/ GoSilent \/ Midnight \/ GiveUp
  BY <1>1, <1>11 DEF Connected, GoSilent, Midnight, GiveUp, rowVars, pastVars, chainVars
<1>12. CASE Worker
  BY <1>1, <1>12, WorkerFrame DEF WorkerStep, rowVars, chainVars, pastVars
<1>. QED
  BY <1>1, <1>2, <1>3, <1>4, <1>5, <1>6, <1>7, <1>8, <1>9, <1>10, <1>11, <1>12
  DEF Next, Process, vars, SweepStep, Operator, rowVars, pastVars, chainVars

\* A chip hammered by bad signals cannot heal between them (NoScarring).
THEOREM HammeringTells == Spec => []NoScarring
<1>1. Init => ScarInv
  BY SignalsAssumption DEF Init, ScarInv, Ceiling, Greatest, SoftThreshold
<1>2. ScarInv => NoScarring
  BY DEF ScarInv, NoScarring, Ceiling
<1>. QED
  BY <1>1, <1>2, ScarStep, Running, PTL DEF Spec

-----------------------------------------------------------------------------
(* The kill switch.                                                          *)

Low == score < RetireThreshold \/ fails >= MaxConsecFails

\* What a call past the score write knows: with another verdict than retire the row is
\* not low; once it has retired the chip, only a late write can have undone it.
VerdictInv ==
  \A s \in Slots :
     /\ pc[s] \in {"policy", "command"} /\ Judged(seen[s]) # "retire" => ~Low
     /\ pc[s] = "command" /\ Judged(seen[s]) = "retire" /\ Low => status = "RETIRED" \/ undone

KillInv == KillSwitch /\ VerdictInv

\* A chip that is not to be retired is not low.
LEMMA NotRetired ==
  ASSUME NEW r \in Row, Judged(r) # "retire"
  PROVE  ~(r.score < RetireThreshold) /\ ~(r.fails >= MaxConsecFails)
BY DEF Judged

\* A late write leaves a chip RETIRED, or says that it has undone a retirement.
LEMMA LateWriteTells ==
  ASSUME NEW new \in ChipStatus, LateWrite(new), status = "RETIRED" \/ undone
  PROVE  status' = "RETIRED" \/ undone'
BY DEF LateWrite

\* A step that touches neither the calls in progress nor the score, and lowers no
\* failure, keeps the kill switch if it keeps the retirement or tells.
LEMMA OthersKill ==
  ASSUME KillInv, UNCHANGED <<pc, seen>>, lost => lost', Low' => Low,
         status = "RETIRED" \/ undone => status' = "RETIRED" \/ undone' \/ ~Low'
  PROVE  KillInv'
BY DEF KillInv, KillSwitch, VerdictInv, AtRest, Low

\* The steps of one call.
LEMMA CallKills ==
  ASSUME TypeOK, ChainInv, KillInv, NEW s \in Slots, Process(s)
  PROVE  KillInv'
<1>. USE DEF TypeOK, ChainOK
<1>1. CASE ReadRow(s)
  <2>1. UNCHANGED <<status, score, fails, undone, lost>>
    BY <1>1 DEF ReadRow, rowVars
  <2>2. \A x \in Slots : x # s => pc'[x] = pc[x] /\ seen'[x] = seen[x]
    BY <1>1 DEF ReadRow, Settle
  <2>3. pc'[s] \notin {"policy", "command"}
    BY <1>1 DEF ReadRow, Settle
  <2>4. VerdictInv'
    BY <2>1, <2>2, <2>3 DEF KillInv, VerdictInv, Low
  <2>5. KillSwitch'
    <3>1. CASE status = "RETIRED"
      BY <2>1, <3>1 DEF KillSwitch
    <3>2. CASE status # "RETIRED"
      BY <1>1, <3>2 DEF ReadRow, KillSwitch, AtRest
    <3>. QED
      BY <3>1, <3>2
  <2>. QED
    BY <2>4, <2>5 DEF KillInv
<1>2. CASE WriteScore(s)
  <2>1. PICK h \in Healed(kind[s]) :
          LET new == After(seen[s], kind[s], h)
          IN /\ score' = new.score /\ fails' = new.fails
             /\ \/ Judged(new) = "none" /\ Settle(s)
                \/ /\ pc' = [pc EXCEPT ![s] = "policy"]
                   /\ seen' = [seen EXCEPT ![s] = new]
    BY <1>2 DEF WriteScore, After
  <2>2. PICK new \in Row : new = After(seen[s], kind[s], h)
    BY AfterIsRow
  <2>3. Judged(new) # "retire" => ~Low'
    BY <2>1, <2>2, NotRetired DEF Low
  <2>4. \A x \in Slots : x # s => pc'[x] \notin {"policy", "command"}
    <3>1. pc[s] \in InFlight
      BY <1>2 DEF WriteScore, InFlight
    <3>2. \A x \in Slots : x # s => pc[x] \notin InFlight /\ pc'[x] = pc[x]
      BY <2>1, <3>1 DEF ChainInv, Settle
    <3>. QED
      BY <3>2 DEF InFlight
  <2>5. CASE Judged(new) = "none" /\ Settle(s)
    <3>1. ~Low'
      BY <2>3, <2>5
    <3>2. pc'[s] = "idle"
      BY <2>5 DEF Settle
    <3>. QED
      BY <2>4, <3>1, <3>2 DEF KillInv, KillSwitch, VerdictInv, Low
  <2>6. CASE pc' = [pc EXCEPT ![s] = "policy"] /\ seen' = [seen EXCEPT ![s] = new]
    <3>1. pc'[s] = "policy" /\ seen'[s] = new
      BY <2>6
    <3>. QED
      BY <2>3, <2>4, <3>1 DEF KillInv, KillSwitch, VerdictInv, AtRest
  <2>. QED
    BY <2>1, <2>2, <2>5, <2>6
<1>3. CASE ApplyPolicy(s)
  <2>1. \A x \in Slots : x # s => pc'[x] \notin {"policy", "command"}
    <3>1. pc[s] \in InFlight
      BY <1>3 DEF ApplyPolicy, InFlight
    <3>2. \A x \in Slots : x # s => pc[x] \notin InFlight /\ pc'[x] = pc[x]
      BY <1>3, <3>1 DEF ApplyPolicy, ChainInv, Settle
    <3>. QED
      BY <3>2 DEF InFlight
  <2>2. CASE Judged(seen[s]) = "retire"
    <3>1. status' = "RETIRED" /\ pc'[s] = "command"
      BY <1>3, <2>2 DEF ApplyPolicy, LateWrite
    <3>2. seen'[s] = seen[s]
      BY <1>3, <2>2 DEF ApplyPolicy
    <3>. QED
      BY <2>1, <2>2, <3>1, <3>2 DEF KillInv, KillSwitch, VerdictInv
  <2>3. CASE Judged(seen[s]) # "retire"
    <3>1. ~Low
      BY <1>3, <2>3 DEF ApplyPolicy, KillInv, VerdictInv
    <3>2. score' = score /\ (fails' = fails \/ fails' = 0)
      BY <1>3, <2>3 DEF ApplyPolicy
    <3>3. ~Low'
      BY <3>1, <3>2 DEF Low, MaxConsecFails
    <3>4. pc'[s] = "command" => seen'[s] = seen[s]
      BY <1>3 DEF ApplyPolicy, Settle
    <3>5. pc'[s] \in {"idle", "command"}
      BY <1>3 DEF ApplyPolicy, Settle
    <3>. QED
      BY <2>1, <2>3, <3>3, <3>4, <3>5 DEF KillInv, KillSwitch, VerdictInv, Low
  <2>. QED
    BY <2>2, <2>3
<1>4. CASE SendCommand(s)
  <2>1. UNCHANGED <<status, score, fails, undone, lost>>
    BY <1>4 DEF SendCommand, rowVars, pastVars
  <2>2. \A x \in Slots : x # s => pc'[x] = pc[x] /\ seen'[x] = seen[x]
    BY <1>4 DEF SendCommand, Settle
  <2>3. pc'[s] = "idle"
    BY <1>4 DEF SendCommand, Settle
  <2>4. Low => status = "RETIRED" \/ undone
    BY <1>4 DEF SendCommand, KillInv, VerdictInv
  <2>. QED
    BY <2>1, <2>2, <2>3, <2>4 DEF KillInv, KillSwitch, VerdictInv, Low
<1>5. CASE Retry(s)
  <2>1. UNCHANGED <<status, score, fails, undone, lost, seen>>
    BY <1>5 DEF Retry, rowVars, pastVars
  <2>2. pc' = [pc EXCEPT ![s] = "waiting"]
    BY <1>5 DEF Retry
  <2>. QED
    BY <2>1, <2>2 DEF KillInv, KillSwitch, VerdictInv, Low, AtRest
<1>. QED
  BY <1>1, <1>2, <1>3, <1>4, <1>5 DEF Process

LEMMA DropKills ==
  ASSUME TypeOK, KillInv, NEW dead \in SUBSET Slots, Drop(dead),
         \A s \in dead : pc[s] # "idle",
         UNCHANGED <<status, score, fails, undone>>
  PROVE  KillInv'
<1>. USE DEF TypeOK, ChainOK
<1>1. \A x \in Slots : pc'[x] \in {"policy", "command"} => pc'[x] = pc[x] /\ seen'[x] = seen[x]
  BY DEF Drop
<1>2. VerdictInv'
  BY <1>1 DEF KillInv, VerdictInv, Low
<1>3. KillSwitch'
  <2>1. ASSUME AtRest', ~lost' PROVE AtRest
    <3>1. PICK back \in SUBSET dead :
            /\ pc' = [s \in Slots |-> IF s \in back THEN "retry"
                                      ELSE IF s \in dead THEN "idle" ELSE pc[s]]
            /\ lost' = (lost \/ back # dead)
      BY DEF Drop
    <3>2. back = {} /\ dead = {}
      BY <2>1, <3>1 DEF AtRest
    <3>. QED
      BY <2>1, <3>1, <3>2 DEF AtRest
  <2>2. lost => lost'
    BY DEF Drop
  <2>. QED
    BY <2>1, <2>2 DEF KillInv, KillSwitch
<1>. QED
  BY <1>2, <1>3 DEF KillInv

LEMMA KillStep == TypeOK /\ ChainInv /\ KillInv /\ [Next]_vars => KillInv'
<1>. SUFFICES ASSUME TypeOK, ChainInv, KillInv, [Next]_vars PROVE KillInv'
  OBVIOUS
<1>1. CASE UNCHANGED <<pc, seen, status, score, fails, undone, lost>>
  BY <1>1, OthersKill DEF Low
<1>2. ASSUME NEW s \in Slots, NEW k \in Signals, Ingest(s, k) PROVE KillInv'
  <2>1. UNCHANGED <<status, score, fails, undone, lost, seen>>
    BY <1>2 DEF Ingest, rowVars, pastVars
  <2>2. pc' = [pc EXCEPT ![s] = "waiting"] /\ pc \in [Slots -> PC]
    BY <1>2 DEF Ingest, TypeOK, ChainOK
  <2>. QED
    BY <2>1, <2>2 DEF KillInv, KillSwitch, VerdictInv, Low, AtRest
<1>3. ASSUME NEW s \in Slots, Process(s) PROVE KillInv'
  BY <1>3, CallKills
<1>4. ASSUME NEW s \in Slots, Throw(s) PROVE KillInv'
  <2>1. pc[s] # "idle"
    BY <1>4 DEF Throw, MyTurn, InFlight
  <2>. QED
    BY <1>4, <2>1, DropKills DEF Throw, rowVars
<1>5. CASE Crash
  BY <1>5, DropKills DEF Crash, rowVars
<1>6. CASE SweepHeal \/ Recreate
  <2>1. score' \in SoftThreshold..100 /\ (fails' = fails \/ fails' = 0)
    <3>1. Clamp(sweepScore + 25, SoftThreshold) \in SoftThreshold..100
      BY ClampRange DEF TypeOK, OthersOK, SoftThreshold
    <3>. QED
      BY <1>6, <3>1 DEF SweepHeal, Recreate, SoftThreshold
  <2>2. Low' => Low
    BY <2>1 DEF Low, SoftThreshold, RetireThreshold, MaxConsecFails
  <2>3. SweepHeal => UNCHANGED <<status, undone>>
    BY DEF SweepHeal
  <2>4. Recreate => ~Low'
    BY DEF Recreate, Low, RetireThreshold, MaxConsecFails
  <2>5. UNCHANGED <<pc, seen, lost>>
    BY <1>6 DEF SweepHeal, Recreate, chainVars
  <2>. QED
    BY <1>6, <2>2, <2>3, <2>4, <2>5, OthersKill
<1>7. CASE SweepRecover
  <2>1. UNCHANGED <<pc, seen, lost, score>> /\ fails' = 0
    BY <1>7 DEF SweepRecover, chainVars
  <2>2. Low' => Low
    BY <2>1 DEF Low, MaxConsecFails
  <2>3. status = "RETIRED" \/ undone => status' = "RETIRED" \/ undone'
    BY <1>7, LateWriteTells DEF SweepRecover, ChipStatus
  <2>. QED
    BY <2>1, <2>2, <2>3, OthersKill
<1>8. CASE ResetWrite
  <2>1. UNCHANGED <<pc, seen, lost, score, fails>>
    BY <1>8 DEF ResetWrite, chainVars
  <2>2. status = "RETIRED" \/ undone => status' = "RETIRED" \/ undone'
    BY <1>8, LateWriteTells DEF ResetWrite, ChipStatus
  <2>. QED
    BY <2>1, <2>2, OthersKill DEF Low
<1>9. ASSUME NEW type \in Commands, SendControl(type) PROVE KillInv'
  <2>1. UNCHANGED <<pc, seen, lost, score, fails>>
    BY <1>9 DEF SendControl, chainVars
  <2>2. status = "RETIRED" \/ undone => status' = "RETIRED" \/ undone'
    BY <1>9 DEF SendControl
  <2>. QED
    BY <2>1, <2>2, OthersKill DEF Low
<1>10. CASE SweepRead \/ SweepCommand \/ ResetRead \/ AddControl
  BY <1>1, <1>10 DEF SweepRead, SweepCommand, ResetRead, AddControl, rowVars, pastVars, chainVars
<1>11. CASE \E r \in 1..Len(RampCurve) : UpdateConfig(r)
  BY <1>1, <1>11 DEF UpdateConfig, pastVars, chainVars
<1>12. CASE GoSilent \/ Midnight \/ GiveUp
  BY <1>1, <1>12 DEF GoSilent, Midnight, GiveUp, rowVars, pastVars, chainVars
<1>13. CASE Connected
  <2>1. UNCHANGED <<pc, seen, lost, score, fails, undone>>
    BY <1>13 DEF Connected, chainVars, pastVars
  <2>2. status = "RETIRED" => status' = "RETIRED"
    BY <1>13 DEF Connected
  <2>. QED
    BY <2>1, <2>2, OthersKill DEF Low
<1>14. CASE Worker
  BY <1>1, <1>14, WorkerFrame DEF WorkerStep, rowVars, chainVars, pastVars
<1>. QED
  BY <1>1, <1>2, <1>3, <1>4, <1>5, <1>6, <1>7, <1>8, <1>9, <1>10, <1>11, <1>12, <1>13, <1>14
  DEF Next, vars, SweepStep, Operator, rowVars, chainVars, pastVars

\* Whatever signals, sweeps, resets, operators and failures interleave, a chip below the
\* retirement score or out of failures ends RETIRED, unless a signal was lost or a late
\* write undid it (KillSwitch).
THEOREM KillSwitchWorks == Spec => []KillSwitch
<1>1. Init => KillInv
  BY SignalsAssumption DEF Init, KillInv, KillSwitch, VerdictInv, Low, SoftThreshold,
     RetireThreshold, MaxConsecFails
<1>2. KillInv => KillSwitch
  BY DEF KillInv
<1>. QED
  BY <1>1, <1>2, KillStep, Running, PTL DEF Spec

-----------------------------------------------------------------------------
(* The session of a retired chip.                                            *)

\* What KilledIsOff depends on of the callers: whoever has a RETIRE to add is still known
\* to have one.
Pending == op = "RETIRE" \/ Retiring # {}

LEMMA Untouched ==
  ASSUME KilledIsOff, UNCHANGED <<workerVars>>, status' = "RETIRED" => status = "RETIRED",
         Pending => Pending'
  PROVE  KilledIsOff'
BY DEF KilledIsOff, Delivered, Pending, workerVars, handlerVars

\* A command is added, and the caller forgets it.
LEMMA Told ==
  ASSUME TypeOK, KilledIsOff, NEW command, Commanded(command), UNCHANGED status,
         Pending => Pending' \/ command = "RETIRE"
  PROVE  KilledIsOff'
<1>. USE DEF TypeOK, WorkerOK
<1>1. (ends = 0 /\ ends' = 0) \/ ends' > 0
  BY DEF Commanded
<1>2. CASE ends' > 0
  BY <1>2 DEF KilledIsOff, Delivered
<1>3. CASE ends = 0 /\ ends' = 0
  <2>1. command # "RETIRE" /\ UNCHANGED <<untold, found, late, session, stray, stops>>
    BY <1>3 DEF Commanded
  <2>. QED
    BY <1>3, <2>1 DEF KilledIsOff, Delivered, Pending
<1>. QED
  BY <1>1, <1>2, <1>3

\* A RETIRE is dropped, and that is remembered.
LEMMA ForgottenIsUntold ==
  ASSUME KilledIsOff, NEW retirement, Dropped(retirement), UNCHANGED status,
         Pending => Pending' \/ retirement
  PROVE  KilledIsOff'
BY DEF KilledIsOff, Delivered, Pending, Dropped, handlerVars

LEMMA OffWorker ==
  ASSUME TypeOK, KilledIsOff, Worker
  PROVE  KilledIsOff'
<1>. USE DEF TypeOK, WorkerOK
<1>1. UNCHANGED <<status, Pending>> /\ untold' = untold
  BY WorkerFrame DEF WorkerStep, rowVars, chainVars, otherVars, Pending, Retiring,
     Worker, TakeStart, Look, Found, TakeStop, Stopped
<1>2. SUFFICES ASSUME status = "RETIRED", ~Pending, ends' = 0, ~untold
              PROVE  found' = late' /\ (session' => stray' \/ stops' > 0)
  BY <1>1 DEF KilledIsOff, Delivered, Pending
<1>3. ends = 0 => found = late /\ (session => stray \/ stops > 0)
  BY <1>2 DEF KilledIsOff, Delivered, Pending
<1>4. CASE TakeStart \/ Look
  BY <1>2, <1>3, <1>4 DEF TakeStart, Look
<1>5. CASE Found
  BY <1>2, <1>3, <1>5 DEF Found
<1>6. CASE TakeStop
  BY <1>6 DEF TakeStop
<1>7. CASE Stopped
  BY <1>2, <1>3, <1>7 DEF Stopped
<1>. QED
  BY <1>4, <1>5, <1>6, <1>7 DEF Worker

LEMMA OffProcess ==
  ASSUME TypeOK, KilledIsOff, NEW s \in Slots, Process(s)
  PROVE  KilledIsOff'
<1>. USE DEF TypeOK, ChainOK
<1>1. CASE ReadRow(s) \/ WriteScore(s) \/ Retry(s)
  <2>1. pc[s] # "command" /\ UNCHANGED <<status, workerVars, op>>
    BY <1>1 DEF ReadRow, MyTurn, WriteScore, Retry, rowVars, otherVars
  <2>2. \A x \in Slots : x # s => pc'[x] = pc[x] /\ seen'[x] = seen[x]
    BY <1>1 DEF ReadRow, WriteScore, Retry, Settle
  <2>. QED
    BY <2>1, <2>2, Untouched DEF Pending, Retiring
<1>2. CASE ApplyPolicy(s)
  <2>1. pc[s] # "command" /\ UNCHANGED <<workerVars, op>>
    BY <1>2 DEF ApplyPolicy, otherVars
  <2>2. CASE Judged(seen[s]) = "retire"
    BY <1>2, <2>2 DEF ApplyPolicy, KilledIsOff, Delivered, Retiring
  <2>3. CASE Judged(seen[s]) # "retire"
    <3>1. status' = "RETIRED" => status = "RETIRED"
      BY <1>2, <2>3 DEF ApplyPolicy, LateWrite
    <3>2. \A x \in Slots : x # s => pc'[x] = pc[x] /\ seen'[x] = seen[x]
      BY <1>2 DEF ApplyPolicy, Settle
    <3>. QED
      BY <2>1, <3>1, <3>2, Untouched DEF Pending, Retiring
  <2>. QED
    BY <2>2, <2>3
<1>3. CASE SendCommand(s)
  <2>1. UNCHANGED <<status, op>> /\ Commanded(CommandOf(Judged(seen[s])))
    BY <1>3 DEF SendCommand, rowVars, otherVars
  <2>2. \A x \in Slots : x # s => pc'[x] = pc[x] /\ seen'[x] = seen[x]
    BY <1>3 DEF SendCommand, Settle
  <2>3. Pending => Pending' \/ CommandOf(Judged(seen[s])) = "RETIRE"
    BY <2>1, <2>2 DEF Pending, Retiring, CommandOf
  <2>. QED
    BY <2>1, <2>3, Told
<1>. QED
  BY <1>1, <1>2, <1>3 DEF Process

LEMMA OffFailure ==
  ASSUME TypeOK, KilledIsOff, Crash \/ GiveUp \/ \E s \in Slots : Throw(s)
  PROVE  KilledIsOff'
<1>1. UNCHANGED status
  BY DEF Crash, GiveUp, Throw, rowVars
<1>2. ASSUME NEW s \in Slots, Throw(s) PROVE KilledIsOff'
  <2>1. op' = op /\ \A x \in Slots : x # s => pc'[x] = pc[x] /\ seen'[x] = seen[x]
    BY <1>2 DEF Throw, Drop, otherVars, TypeOK, ChainOK
  <2>2. Pending => Pending' \/ s \in Retiring
    BY <2>1 DEF Pending, Retiring
  <2>3. CASE Dropped(s \in Retiring)
    BY <1>1, <2>2, <2>3, ForgottenIsUntold
  <2>4. CASE Commanded(CommandOf(Judged(seen[s])))
    <3>1. s \in Retiring => CommandOf(Judged(seen[s])) = "RETIRE"
      BY DEF Retiring, CommandOf
    <3>. QED
      BY <1>1, <2>2, <2>4, <3>1, Told
  <2>. QED
    BY <1>2, <2>3, <2>4 DEF Throw
<1>3. CASE Crash
  BY <1>1, <1>3, ForgottenIsUntold DEF Crash, Pending
<1>4. CASE GiveUp
  <2>1. Retiring' = Retiring
    BY <1>4 DEF GiveUp, chainVars, Retiring
  <2>2. CASE UNCHANGED <<op, workerVars>>
    BY <1>1, <2>1, <2>2, Untouched DEF Pending
  <2>3. CASE Dropped(op = "RETIRE")
    BY <1>1, <2>1, <2>3, ForgottenIsUntold DEF Pending
  <2>. QED
    BY <1>4, <2>2, <2>3 DEF GiveUp
<1>. QED
  BY <1>2, <1>3, <1>4

LEMMA OffStep ==
  ASSUME TypeOK, KilledIsOff, [Next]_vars
  PROVE  KilledIsOff'
<1>. USE DEF chainVars, otherVars
<1>1. CASE UNCHANGED <<workerVars, Pending>> /\ (status' = "RETIRED" => status = "RETIRED")
  BY <1>1, Untouched
<1>2. ASSUME NEW s \in Slots, NEW k \in Signals, Ingest(s, k) PROVE KilledIsOff'
  <2>1. UNCHANGED <<status, workerVars, op, seen>>
    BY <1>2 DEF Ingest, rowVars
  <2>2. \A x \in Slots : x # s => pc'[x] = pc[x]
    BY <1>2 DEF Ingest
  <2>3. pc[s] = "idle"
    BY <1>2 DEF Ingest
  <2>. QED
    BY <2>1, <2>2, <2>3, Untouched DEF Pending, Retiring
<1>3. CASE SweepRead \/ SweepHeal \/ SweepRecover \/ ResetRead \/ ResetWrite \/ Connected
  <2>1. UNCHANGED <<pc, seen, op, workerVars>>
    BY <1>3 DEF SweepRead, SweepHeal, SweepRecover, ResetRead, ResetWrite, Connected
  <2>2. status' = "RETIRED" => status = "RETIRED"
    BY <1>3 DEF SweepRead, SweepHeal, SweepRecover, ResetRead, ResetWrite, Connected,
       LateWrite, rowVars
  <2>. QED
    BY <2>1, <2>2, Untouched DEF Pending, Retiring
<1>4. CASE SweepCommand
  <2>1. UNCHANGED <<pc, seen, op, status>> /\ Commanded("START")
    BY <1>4 DEF SweepCommand, rowVars
  <2>. QED
    BY <2>1, Told DEF Pending, Retiring
<1>5. ASSUME NEW type \in Commands, SendControl(type) PROVE KilledIsOff'
  <2>1. UNCHANGED <<pc, seen, workerVars>> /\ op = "none" /\ op' = type
    BY <1>5 DEF SendControl
  <2>2. status' = "RETIRED" => status = "RETIRED" \/ op' = "RETIRE"
    BY <1>5 DEF SendControl
  <2>3. CASE op' = "RETIRE"
    BY <2>3 DEF KilledIsOff, Delivered
  <2>4. CASE op' # "RETIRE"
    BY <2>1, <2>2, <2>4, Untouched DEF Pending, Retiring
  <2>. QED
    BY <2>3, <2>4
<1>6. CASE AddControl
  <2>1. UNCHANGED <<pc, seen, status>> /\ Commanded(op)
    BY <1>6 DEF AddControl, rowVars
  <2>. QED
    BY <2>1, Told DEF Pending, Retiring
<1>7. CASE Recreate
  BY <1>7 DEF Recreate, KilledIsOff
<1>8. CASE GoSilent \/ Midnight \/ \E r \in 1..Len(RampCurve) : UpdateConfig(r)
  BY <1>1, <1>8 DEF GoSilent, Midnight, UpdateConfig, Pending, Retiring
<1>9. CASE UNCHANGED vars
  BY <1>1, <1>9 DEF vars, Pending, Retiring, rowVars
<1>. QED
  BY <1>2, <1>3, <1>4, <1>5, <1>6, <1>7, <1>8, <1>9, OffProcess, OffFailure, OffWorker
  DEF Next, Operator, SweepStep

\* Whatever signals, sweeps, commands, crashes and awaits of the worker interleave, once its
\* RETIRE is taken a RETIRED chip has no session and no start about to make one, but for
\* those the RETIRE overtook past their read, and unless no RETIRE was delivered
\* (KilledIsOff).
THEOREM RetiredIsStopped == Spec => []KilledIsOff
<1>1. Init => KilledIsOff
  BY DEF Init, KilledIsOff
<1>2. TypeOK /\ ChainInv /\ KilledIsOff /\ [Next]_vars => KilledIsOff'
  BY OffStep
<1>. QED
  BY <1>1, <1>2, Running, PTL DEF Spec
=============================================================================
