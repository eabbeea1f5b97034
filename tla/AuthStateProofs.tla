-------------------------- MODULE AuthStateProofs --------------------------
(***************************************************************************)
(* Proofs about AuthState, for any number of instances, updates, late       *)
(* writes and faults; those about the row, where two instances could write, *)
(* for a chip whose ended sockets do not write.                             *)
(***************************************************************************)
EXTENDS AuthState, TLAPS

LEMMA TypeInit == Init => TypeOK
BY BoundsAssumption
   DEF Init, TypeOK, InstOK, SessionOK, BudgetsOK, Auth, NoAuth, Insts, Updates, Flight

\* A run that ends leaves the session and the wipe well typed.
LEMMA EndRunType ==
  ASSUME TypeOK, NEW i \in Insts, EndRun(i), UNCHANGED <<made, dead>>
  PROVE  writing' \in [Insts -> BOOLEAN] /\ SessionOK'
BY DEF TypeOK, InstOK, SessionOK, EndRun

LEMMA NewUpdateType ==
  ASSUME TypeOK, NEW i \in 1..made, NewUpdate(i)
  PROVE  db' \in Auth /\ InstOK' /\ SessionOK' /\ sets' \in 0..MaxSets /\ crosses' \in Nat
         /\ faults' \in Nat /\ wiped' \subseteq Insts
<1> USE DEF TypeOK, InstOK, SessionOK, BudgetsOK
<1>1. i \in Insts /\ mem[i] \in Auth
  BY BoundsAssumption DEF Insts
<1>2. sets + 1 \in Updates /\ sets' \in 0..MaxSets
  BY BoundsAssumption DEF NewUpdate, Updates
<1>3. Updated(i) \in Auth /\ Updated(i).login = mem[i].login
  BY <1>1, <1>2 DEF Updated, Auth
<1>4. FlightOf(i, Updated(i)) \in Flight
  BY <1>1, <1>3 DEF FlightOf, Flight
<1>5. mem' \in [Insts -> Auth] /\ \A j \in 1..made : mem'[j].login # 0
  BY <1>1, <1>3 DEF NewUpdate, Persist
<1>6. dirty' \in [Insts -> BOOLEAN] /\ writing' \in [Insts -> BOOLEAN]
      /\ failed' \in [Insts -> BOOLEAN] /\ flights' \subseteq Flight
  BY <1>1, <1>4 DEF NewUpdate, Persist
<1> QED
  BY <1>2, <1>5, <1>6 DEF NewUpdate, sessionVars, wipeVars

LEMMA TypeStep == TypeOK /\ [Next]_vars => TypeOK'
<1> SUFFICES ASSUME TypeOK, [Next]_vars PROVE TypeOK'
  OBVIOUS
<1> USE BoundsAssumption DEF TypeOK
<1>1. CASE Set
  <2>1. cur \in 1..made
    BY <1>1 DEF Set, NewUpdate, SessionOK, InstOK
  <2> QED
    BY <1>1, <2>1, NewUpdateType DEF Set, BudgetsOK
<1>2. ASSUME NEW i \in Insts, LateSet(i) PROVE TypeOK'
  BY <1>2, NewUpdateType DEF LateSet, BudgetsOK
<1>3. ASSUME NEW f \in flights, Land(f) PROVE TypeOK'
  <2>1. f \in Flight /\ [f EXCEPT !.landed = TRUE] \in Flight /\ f.snap \in Auth
        /\ f.snap.upd \in SUBSET Updates
    BY DEF InstOK, Flight, Auth
  <2> QED
    BY <1>3, <2>1 DEF Land, InstOK, SessionOK, BudgetsOK, sessionVars, wipeVars, budgetVars
<1>4. ASSUME NEW f \in flights, Answer(f) PROVE TypeOK'
  <2>1. f \in Flight /\ f.inst \in Insts
    BY DEF InstOK, Flight
  <2>2. FlightOf(f.inst, mem[f.inst]) \in Flight
    BY <2>1 DEF InstOK, FlightOf, Flight
  <2>3. writing' \in [Insts -> BOOLEAN] /\ SessionOK'
    BY <1>4, <2>1, EndRunType DEF Answer, InstOK, SessionOK, sessionVars, wipeVars
  <2> QED
    BY <1>4, <2>1, <2>2, <2>3 DEF Answer, InstOK, BudgetsOK, budgetVars
<1>5. ASSUME NEW f \in flights, Fail(f) PROVE TypeOK'
  <2>1. f \in Flight /\ f.inst \in Insts
    BY DEF InstOK, Flight
  <2>2. writing' \in [Insts -> BOOLEAN] /\ SessionOK'
    BY <1>5, <2>1, EndRunType DEF Fail
  <2>3. InstOK'
    BY <1>5, <2>1, <2>2 DEF Fail, InstOK
  <2> QED
    BY <1>5, <2>2, <2>3 DEF Fail, Fault, BudgetsOK
<1>6. CASE Load
  <2>1. Loaded \in Auth /\ Loaded.login # 0 /\ Loaded.upd \subseteq Updates
    BY <1>6 DEF Load, Loaded, InstOK, Auth
  <2>2. made + 1 \in Insts
    BY <1>6 DEF Load, InstOK, Insts
  <2>3. InstOK'
    BY <1>6, <2>1, <2>2 DEF Load, InstOK
  <2>4. SessionOK'
    BY <1>6 DEF Load, SessionOK, InstOK, wipeVars
  <2> QED
    BY <1>6, <2>3, <2>4 DEF Load, BudgetsOK, budgetVars
<1>7. CASE Stop
  BY <1>7 DEF Stop, Flushing, instVars, wipeVars, InstOK, SessionOK, BudgetsOK
<1>8. CASE StopDone
  BY <1>8 DEF StopDone, instVars, wipeVars, budgetVars, InstOK, SessionOK, BudgetsOK
<1>9. CASE LoggedOut
  <2>1. Flushing(cur) \in 0..made
    BY DEF Flushing, SessionOK, InstOK
  <2> QED
    BY <1>9, <2>1 DEF LoggedOut, instVars, budgetVars, InstOK, SessionOK, BudgetsOK
<1>10. CASE WipeSend
  BY <1>10 DEF WipeSend, instVars, budgetVars, InstOK, SessionOK, BudgetsOK
<1>11. ASSUME wipe = "clear", Clear, UNCHANGED made PROVE db' \in Auth /\ wiped' \subseteq Insts
  <2>1. wipeOf \in Insts /\ mem[wipeOf].login \in Insts
    BY <1>11 DEF SessionOK, InstOK, Auth, Insts
  <2> QED
    BY <1>11, <2>1 DEF Clear, NoAuth, Auth
<1>12. CASE WipeLand
  BY <1>11, <1>12 DEF WipeLand, instVars, sessionVars, budgetVars, InstOK, SessionOK, BudgetsOK
<1>13. CASE WipeFail
  BY <1>11, <1>13
     DEF WipeFail, Fault, instVars, sessionVars, budgetVars, InstOK, SessionOK, BudgetsOK
<1>14. CASE Crash
  <2>1. db' \in Auth /\ wiped' \subseteq Insts
    BY <1>11, <1>14 DEF Crash, InstOK, Flight
  <2>2. InstOK'
    BY <1>14 DEF Crash, InstOK, Insts
  <2>3. SessionOK'
    BY <1>14 DEF Crash, SessionOK, InstOK
  <2> QED
    BY <1>14, <2>1, <2>2, <2>3 DEF Crash, Fault, BudgetsOK
<1>15. CASE UNCHANGED vars
  BY <1>15 DEF vars, instVars, sessionVars, wipeVars, budgetVars, InstOK, SessionOK, BudgetsOK
<1> QED
  BY <1>1, <1>2, <1>3, <1>4, <1>5, <1>6, <1>7, <1>8, <1>9, <1>10, <1>12, <1>13, <1>14, <1>15
     DEF Next, WriteStep

\* TypeOK is an invariant: a memory that is loaded always has a login, and what a flush
\* awaits is always a run of an instance that was made (postgres-auth-state.ts:39-151).
THEOREM TypeCorrect == Spec => []TypeOK
<1>1. Init => TypeOK
  BY TypeInit
<1>2. TypeOK /\ [Next]_vars => TypeOK'
  BY TypeStep
<1> QED
  BY <1>1, <1>2, PTL DEF Spec

-----------------------------------------------------------------------------
(* The writer: why no update is dropped by the coalescing.                   *)

\* One write at a time per run; the last one carries the memory, or dirty is up.
FlightInv ==
  /\ \A f \in flights : f.inst \in 1..made \ dead /\ writing[f.inst]
  /\ \A f, g \in flights : f.inst = g.inst => f = g
  /\ \A f \in flights : dirty[f.inst] \/ f.snap = mem[f.inst]
  /\ \A f \in flights : f.landed => written[f.inst] = f.snap.upd

WriterInv ==
  /\ FlightInv
  /\ \A i \in Insts : writing[i] => \E f \in flights : f.inst = i
  /\ SettledIsStored

LEMMA WriterInit == Init => WriterInv
BY DEF Init, WriterInv, FlightInv, SettledIsStored, Insts

\* persist() keeps the invariant, whoever calls it.
LEMMA WriterPersist ==
  ASSUME TypeOK, WriterInv, NEW i \in 1..made \ dead, NewUpdate(i)
  PROVE  WriterInv'
<1> USE DEF TypeOK, InstOK
<1>1. i \in Insts
  BY BoundsAssumption DEF Insts
<1>2. mem' = [mem EXCEPT ![i] = Updated(i)] /\ dirty' = [dirty EXCEPT ![i] = writing[i]]
      /\ UNCHANGED <<made, dead, written>>
  BY DEF NewUpdate, Persist
<1>3. CASE writing[i]
  <2>1. UNCHANGED <<writing, flights, failed>>
    BY <1>3 DEF NewUpdate, Persist
  <2> QED
    BY <1>1, <1>2, <1>3, <2>1 DEF WriterInv, FlightInv, SettledIsStored, Flight
<1>4. CASE ~writing[i]
  <2> DEFINE new == FlightOf(i, Updated(i))
  <2>1. /\ writing' = [writing EXCEPT ![i] = TRUE] /\ flights' = flights \cup {new}
        /\ failed' = [failed EXCEPT ![i] = FALSE]
    BY <1>4 DEF NewUpdate, Persist
  <2>2. new.inst = i /\ new.snap = Updated(i) /\ new.landed = FALSE
    BY DEF FlightOf
  <2>3. \A f \in flights : f.inst # i
    BY <1>4 DEF WriterInv, FlightInv
  <2> HIDE DEF new
  <2>4. FlightInv'
    BY <1>1, <1>2, <2>1, <2>2, <2>3 DEF WriterInv, FlightInv, Flight
  <2>5. \A j \in Insts : writing'[j] => \E f \in flights' : f.inst = j
    BY <1>1, <2>1, <2>2 DEF WriterInv
  <2>6. SettledIsStored'
    BY <1>1, <1>2, <2>1 DEF WriterInv, SettledIsStored, Insts
  <2> QED
    BY <2>4, <2>5, <2>6 DEF WriterInv
<1> QED
  BY <1>3, <1>4

LEMMA WriterStep == TypeOK /\ WriterInv /\ [Next]_vars => WriterInv'
<1> SUFFICES ASSUME TypeOK, WriterInv, [Next]_vars PROVE WriterInv'
  OBVIOUS
<1> USE DEF TypeOK, InstOK
<1>1. CASE Set
  <2>1. cur \in 1..made \ dead
    BY <1>1 DEF Set, SessionOK
  <2> QED
    BY <1>1, <2>1, WriterPersist DEF Set
<1>2. ASSUME NEW i \in Insts, LateSet(i) PROVE WriterInv'
  BY <1>2, WriterPersist DEF LateSet
<1>3. ASSUME NEW f \in flights, Land(f) PROVE WriterInv'
  <2> DEFINE g == [f EXCEPT !.landed = TRUE]
  <2>1. f \in Flight /\ f.inst \in Insts
    BY DEF Flight
  <2>2. g.inst = f.inst /\ g.snap = f.snap /\ g.landed = TRUE
    BY <2>1 DEF Flight
  <2>3. /\ flights' = (flights \ {f}) \cup {g}
        /\ written' = [written EXCEPT ![f.inst] = f.snap.upd]
        /\ UNCHANGED <<made, dead, mem, dirty, writing, failed>>
    BY <1>3 DEF Land
  <2>4. writing[f.inst] /\ \A h \in flights \ {f} : h.inst # f.inst
    BY DEF WriterInv, FlightInv
  <2> HIDE DEF g
  <2>5. FlightInv'
    BY <2>1, <2>2, <2>3, <2>4 DEF WriterInv, FlightInv, Flight
  <2>6. \A j \in Insts : writing'[j] => \E h \in flights' : h.inst = j
    BY <2>2, <2>3 DEF WriterInv
  <2>7. SettledIsStored'
    BY <2>1, <2>3, <2>4 DEF WriterInv, SettledIsStored, Insts
  <2> QED
    BY <2>5, <2>6, <2>7 DEF WriterInv
<1>4. ASSUME NEW f \in flights, Answer(f) PROVE WriterInv'
  <2>1. f \in Flight /\ f.inst \in Insts /\ f.landed
    BY <1>4 DEF Flight, Answer
  <2>2. UNCHANGED <<made, dead, mem, written, failed>>
    BY <1>4 DEF Answer
  <2>3. f.inst \in 1..made \ dead /\ writing[f.inst] /\ (\A h \in flights \ {f} : h.inst # f.inst)
        /\ written[f.inst] = f.snap.upd
    BY <2>1 DEF WriterInv, FlightInv
  <2>4. CASE dirty[f.inst]
    <3> DEFINE new == FlightOf(f.inst, mem[f.inst])
    <3>1. /\ dirty' = [dirty EXCEPT ![f.inst] = FALSE]
          /\ flights' = (flights \ {f}) \cup {new} /\ UNCHANGED writing
      BY <1>4, <2>4 DEF Answer
    <3>2. new.inst = f.inst /\ new.snap = mem[f.inst] /\ new.landed = FALSE
      BY DEF FlightOf
    <3> HIDE DEF new
    <3>3. FlightInv'
      BY <2>1, <2>2, <2>3, <3>1, <3>2 DEF WriterInv, FlightInv, Flight
    <3>4. \A j \in Insts : writing'[j] => \E h \in flights' : h.inst = j
      BY <3>1, <3>2 DEF WriterInv
    <3> QED
      BY <2>2, <3>1, <3>3, <3>4 DEF WriterInv, SettledIsStored
  <2>5. CASE ~dirty[f.inst]
    <3>1. /\ flights' = flights \ {f} /\ writing' = [writing EXCEPT ![f.inst] = FALSE]
          /\ UNCHANGED dirty
      BY <1>4, <2>5 DEF Answer, EndRun
    <3>2. f.snap = mem[f.inst]
      BY <2>5 DEF WriterInv, FlightInv
    <3>3. FlightInv'
      BY <2>1, <2>2, <2>3, <3>1 DEF WriterInv, FlightInv, Flight
    <3>4. \A j \in Insts : writing'[j] => \E h \in flights' : h.inst = j
      BY <2>1, <3>1 DEF WriterInv
    <3>5. SettledIsStored'
      BY <2>1, <2>2, <2>3, <3>1, <3>2 DEF WriterInv, SettledIsStored, Insts
    <3> QED
      BY <3>3, <3>4, <3>5 DEF WriterInv
  <2> QED
    BY <2>4, <2>5
<1>5. ASSUME NEW f \in flights, Fail(f) PROVE WriterInv'
  <2>1. f \in Flight /\ f.inst \in Insts
    BY DEF Flight
  <2>2. /\ flights' = flights \ {f} /\ dirty' = [dirty EXCEPT ![f.inst] = TRUE]
        /\ failed' = [failed EXCEPT ![f.inst] = TRUE]
        /\ writing' = [writing EXCEPT ![f.inst] = FALSE]
        /\ UNCHANGED <<made, dead, mem, written>>
    BY <1>5 DEF Fail, EndRun
  <2>3. \A h \in flights \ {f} : h.inst # f.inst
    BY DEF WriterInv, FlightInv
  <2>4. FlightInv'
    BY <2>1, <2>2, <2>3 DEF WriterInv, FlightInv, Flight
  <2>5. \A j \in Insts : writing'[j] => \E h \in flights' : h.inst = j
    BY <2>1, <2>2 DEF WriterInv
  <2>6. SettledIsStored'
    BY <2>1, <2>2 DEF WriterInv, SettledIsStored, Insts
  <2> QED
    BY <2>4, <2>5, <2>6 DEF WriterInv
<1>6. CASE Load
  <2>1. /\ made' = made + 1 /\ made \in Nat /\ made + 1 \in Insts
        /\ mem' = [mem EXCEPT ![made + 1] = Loaded]
        /\ written' = [written EXCEPT ![made + 1] = Loaded.upd]
        /\ UNCHANGED <<dead, dirty, writing, flights, failed>>
    BY <1>6, BoundsAssumption DEF Load, Insts
  <2>2. \A f \in flights : f.inst # made + 1 /\ f.inst \in 1..made' \ dead
    BY <2>1 DEF WriterInv, FlightInv
  <2>3. FlightInv'
    BY <2>1, <2>2 DEF WriterInv, FlightInv, Flight
  <2>4. SettledIsStored'
    BY <2>1 DEF WriterInv, SettledIsStored, Insts
  <2> QED
    BY <2>1, <2>3, <2>4 DEF WriterInv
<1>7. CASE Crash
  BY <1>7 DEF Crash, WriterInv, FlightInv, SettledIsStored
<1>8. CASE UNCHANGED instVars
  BY <1>8 DEF instVars, WriterInv, FlightInv, SettledIsStored
<1>9. Stop \/ StopDone \/ LoggedOut \/ WipeSend \/ WipeLand \/ WipeFail \/ UNCHANGED vars
      => UNCHANGED instVars
  BY DEF Stop, StopDone, LoggedOut, WipeSend, WipeLand, WipeFail, vars
<1> QED
  BY <1>1, <1>2, <1>3, <1>4, <1>5, <1>6, <1>7, <1>8, <1>9 DEF Next, WriteStep

\* No update is dropped by the coalescing, for any instances, writes that fail, sockets
\* that write late and crashes (postgres-auth-state.ts:28-29, 52-80).
THEOREM CoalescingKeeps == Spec => []SettledIsStored
<1>1. Init => TypeOK /\ WriterInv
  BY TypeInit, WriterInit
<1>2. TypeOK /\ WriterInv /\ [Next]_vars => (TypeOK /\ WriterInv)'
  BY TypeStep, WriterStep
<1>3. WriterInv => SettledIsStored
  BY DEF WriterInv
<1> QED
  BY <1>1, <1>2, <1>3, PTL DEF Spec

-----------------------------------------------------------------------------
(* The row, when sockets that ended do not write and no session is stopped   *)
(* in the middle of a wipe: only the session's instance has a run of writes. *)

\* Where the session and the wipe are, and what has been awaited by then.
PhaseInv ==
  /\ lates = 0 /\ crosses = 0
  /\ pc = "off" => cur = 0
  /\ wipe # "none" => pc = "out"
  /\ wipe = "flush" => cur = wipeOf
  /\ wipe = "clear" => cur = 0
  /\ pc = "out" /\ wipe = "none" => cur = 0
  /\ pc = "stopping" /\ stopWait = 0 /\ cur # 0 => ~writing[cur]
  /\ wipe = "flush" /\ wipeWait = 0 => ~writing[wipeOf]
  /\ \A f \in flights : f.inst = cur

\* The row, the write in flight and the memory carry each what the one before carries.
LineInv ==
  /\ db.login = 0 => db.upd = {}
  /\ cur # 0 => /\ db.upd \subseteq mem[cur].upd /\ written[cur] = db.upd
                /\ mem[cur].login \notin wiped
  /\ \A f \in flights : /\ db.upd \subseteq f.snap.upd
                        /\ f.snap.upd \subseteq mem[cur].upd
                        /\ f.snap.login = mem[cur].login

LoginInv ==
  /\ db.login \notin wiped /\ db.login \in 0..made
  /\ wiped \subseteq 1..made
  /\ \A i \in Insts : mem[i].login \in 0..made

SoleInv == PhaseInv /\ LineInv /\ LoginInv

LEMMA SoleInit == Init => SoleInv
BY DEF Init, SoleInv, PhaseInv, LineInv, LoginInv, NoAuth

\* What a flight of the only writer looks like.
LEMMA SoleFlight ==
  ASSUME TypeOK, WriterInv, SoleInv, NEW f \in flights
  PROVE  /\ f \in Flight /\ f.inst = cur /\ cur \in Insts /\ writing[cur] /\ cur # 0
         /\ flights = {f}
BY DEF TypeOK, InstOK, WriterInv, FlightInv, SoleInv, PhaseInv, Flight, Insts

LEMMA SolePhase ==
  ASSUME Sole', TypeOK, WriterInv, SoleInv, [Next]_vars
  PROVE  PhaseInv'
<1> USE DEF TypeOK, InstOK, SessionOK, SoleInv, PhaseInv
<1>1. CASE Set
  <2>1. UNCHANGED <<lates, crosses, sessionVars, wipeVars>> /\ pc = "up"
    BY <1>1 DEF Set, NewUpdate
  <2>2. flights' \subseteq flights \cup {FlightOf(cur, Updated(cur))}
    BY <1>1 DEF Set, NewUpdate, Persist
  <2> QED
    BY <2>1, <2>2 DEF FlightOf, sessionVars, wipeVars
<1>2. ASSUME NEW i \in Insts, LateSet(i) PROVE FALSE
  BY <1>2 DEF LateSet, Sole, BudgetsOK
<1>3. ASSUME NEW f \in flights, Land(f) PROVE PhaseInv'
  BY <1>3, SoleFlight DEF Land, Flight, sessionVars, wipeVars, budgetVars
<1>4. ASSUME NEW f \in flights, Answer(f) PROVE PhaseInv'
  <2>1. f.inst = cur /\ cur \in Insts /\ cur # 0 /\ flights = {f}
    BY SoleFlight
  <2>2. CASE dirty[f.inst]
    BY <1>4, <2>1, <2>2 DEF Answer, FlightOf, sessionVars, wipeVars, budgetVars
  <2>3. CASE ~dirty[f.inst]
    BY <1>4, <2>1, <2>3 DEF Answer, EndRun, budgetVars
  <2> QED
    BY <2>2, <2>3
<1>5. ASSUME NEW f \in flights, Fail(f) PROVE PhaseInv'
  BY <1>5, SoleFlight DEF Fail, Fault, EndRun
<1>6. CASE Load
  <2>1. flights = {}
    BY <1>6, SoleFlight DEF Load
  <2> QED
    BY <1>6, <2>1 DEF Load, wipeVars, budgetVars
<1>7. CASE Stop
  <2>1. wipe = "none" /\ UNCHANGED <<lates, crosses, cur, wipeVars, writing, flights>>
    BY <1>7 DEF Stop, instVars, Sole, BudgetsOK
  <2>2. pc' = "stopping" /\ stopWait' = Flushing(cur)
    BY <1>7 DEF Stop
  <2> QED
    BY <2>1, <2>2 DEF Flushing, wipeVars
<1>8. CASE StopDone
  <2>1. flights = {}
    BY <1>8, SoleFlight DEF StopDone
  <2> QED
    BY <1>8, <2>1 DEF StopDone, instVars, wipeVars, budgetVars
<1>9. CASE LoggedOut
  BY <1>9 DEF LoggedOut, Flushing, instVars, budgetVars
<1>10. CASE WipeSend
  <2>1. flights = {}
    BY <1>10, SoleFlight DEF WipeSend
  <2> QED
    BY <1>10, <2>1 DEF WipeSend, instVars, budgetVars
<1>11. CASE WipeLand
  BY <1>11 DEF WipeLand, instVars, sessionVars, budgetVars
<1>12. CASE WipeFail
  BY <1>12 DEF WipeFail, Fault, instVars, sessionVars
<1>13. CASE Crash
  BY <1>13 DEF Crash, Fault
<1>14. CASE UNCHANGED vars
  BY <1>14 DEF vars, instVars, sessionVars, wipeVars, budgetVars
<1> QED
  BY <1>1, <1>2, <1>3, <1>4, <1>5, <1>6, <1>7, <1>8, <1>9, <1>10, <1>11, <1>12, <1>13, <1>14
     DEF Next, WriteStep

\* A login joins those that were wiped: all are real ones still.
LEMMA WipedRange ==
  ASSUME NEW n \in Nat, NEW l \in 1..n, NEW S \in SUBSET (1..n)
  PROVE  0 \notin S \cup {l} /\ S \cup {l} \subseteq 1..n
OBVIOUS

LEMMA SoleLine ==
  ASSUME Sole', TypeOK, WriterInv, SoleInv, [Next]_vars
  PROVE  LineInv' /\ LoginInv'
<1> USE BoundsAssumption DEF TypeOK, InstOK, SessionOK, SoleInv, LineInv, LoginInv
<1>1. CASE Set
  <2>1. cur \in Insts /\ cur # 0
    BY <1>1 DEF Set, Insts
  <2>2. /\ mem' = [mem EXCEPT ![cur] = Updated(cur)]
        /\ UNCHANGED <<db, made, written, wiped, cur>>
    BY <1>1 DEF Set, NewUpdate, Persist, sessionVars
  <2>3. Updated(cur).login = mem[cur].login /\ mem[cur].upd \subseteq Updated(cur).upd
    BY <2>1 DEF Updated, Auth
  <2>4. \A f \in flights' : f \in flights \/ f.snap = Updated(cur)
    BY <1>1 DEF Set, NewUpdate, Persist, FlightOf
  <2> QED
    BY <2>1, <2>2, <2>3, <2>4
<1>2. ASSUME NEW i \in Insts, LateSet(i) PROVE FALSE
  BY <1>2 DEF LateSet, PhaseInv, Sole, BudgetsOK
<1>3. ASSUME NEW f \in flights, Land(f) PROVE LineInv' /\ LoginInv'
  <2>1. f \in Flight /\ f.inst = cur /\ cur \in Insts /\ cur # 0 /\ flights = {f}
    BY SoleFlight
  <2>2. /\ db' = f.snap /\ written' = [written EXCEPT ![cur] = f.snap.upd]
        /\ UNCHANGED <<made, mem, cur, wiped>>
        /\ \A g \in flights' : g.snap = f.snap
    BY <1>3, <2>1 DEF Land, sessionVars, Flight
  <2>3. f.snap.login \in 0..made /\ f.snap.login # 0 /\ f.snap.login \notin wiped
    BY <2>1 DEF Insts
  <2> QED
    BY <2>1, <2>2, <2>3
<1>4. ASSUME NEW f \in flights, Answer(f) PROVE LineInv' /\ LoginInv'
  <2>1. f.inst = cur /\ cur \in Insts /\ cur # 0
    BY SoleFlight
  <2>2. UNCHANGED <<db, made, mem, written, wiped, cur>>
    BY <1>4 DEF Answer, EndRun, sessionVars
  <2>3. \A g \in flights' : g \in flights \/ g.snap = mem[cur]
    BY <1>4, <2>1 DEF Answer, FlightOf
  <2> QED
    BY <2>1, <2>2, <2>3
<1>5. ASSUME NEW f \in flights, Fail(f) PROVE LineInv' /\ LoginInv'
  BY <1>5 DEF Fail, EndRun
<1>6. CASE Load
  <2>1. flights = {} /\ flights' = {}
    BY <1>6, SoleFlight DEF Load, PhaseInv
  <2>2. /\ cur' = made + 1 /\ made' = made + 1 /\ made + 1 \in Insts /\ made \in Nat
        /\ mem' = [mem EXCEPT ![made + 1] = Loaded]
        /\ written' = [written EXCEPT ![made + 1] = Loaded.upd]
        /\ UNCHANGED <<db, wiped>>
    BY <1>6 DEF Load, Insts
  <2>3. Loaded.upd = db.upd /\ Loaded.login \in 0..made' /\ Loaded.login \notin wiped
    <3>1. CASE db.login = 0
      <4>1. Loaded.login = made + 1 /\ Loaded.upd = {}
        BY <3>1 DEF Loaded
      <4>2. made + 1 \notin wiped
        BY <2>2
      <4> QED
        BY <2>2, <3>1, <4>1, <4>2
    <3>2. CASE db.login # 0
      BY <2>2, <3>2 DEF Loaded
    <3> QED
      BY <3>1, <3>2
  <2> QED
    BY <2>1, <2>2, <2>3
<1>7. CASE Stop
  BY <1>7 DEF Stop, instVars
<1>8. CASE StopDone
  <2>1. flights = {}
    BY <1>8, SoleFlight DEF StopDone, PhaseInv
  <2> QED
    BY <1>8, <2>1 DEF StopDone, instVars
<1>9. CASE LoggedOut
  BY <1>9 DEF LoggedOut, instVars
<1>10. CASE WipeSend
  <2>1. flights = {} /\ cur' = 0
    BY <1>10, SoleFlight DEF WipeSend, PhaseInv
  <2> QED
    BY <1>10, <2>1 DEF WipeSend, instVars
<1>11. ASSUME wipe = "clear", Clear, UNCHANGED <<instVars, cur>> PROVE LineInv' /\ LoginInv'
  <2>1. cur = 0 /\ flights = {}
    BY <1>11, SoleFlight DEF PhaseInv
  <2>2. wipeOf \in 1..made /\ wipeOf \in Insts
    BY <1>11 DEF Insts
  <2>3. mem[wipeOf].login \in 1..made
    BY <2>2
  <2>4. db'.login = 0 /\ db'.upd = {} /\ wiped' = wiped \cup {mem[wipeOf].login}
    BY <1>11 DEF Clear, NoAuth
  <2>5. UNCHANGED <<made, mem, written, flights, cur>>
    BY <1>11 DEF instVars
  <2>6. 0 \notin wiped' /\ wiped' \subseteq 1..made'
    <3>1. made \in Nat /\ wiped \in SUBSET (1..made)
      OBVIOUS
    <3>2. PICK l \in 1..made : l = mem[wipeOf].login
      BY <2>3
    <3>3. wiped' = wiped \cup {l} /\ made' = made
      BY <2>4, <2>5, <3>2
    <3>4. 0 \notin wiped \cup {l} /\ wiped \cup {l} \subseteq 1..made
      BY <3>1, WipedRange
    <3> QED
      BY ONLY <3>3, <3>4
  <2>7. LoginInv'
    BY <2>4, <2>5, <2>6
  <2> QED
    BY <2>1, <2>4, <2>5, <2>7
<1>12. CASE WipeLand
  BY <1>11, <1>12 DEF WipeLand, sessionVars
<1>13. CASE WipeFail
  <2>1. wipe = "clear" /\ UNCHANGED <<instVars, cur>>
    BY <1>13 DEF WipeFail, sessionVars
  <2>2. CASE UNCHANGED <<db, wiped>>
    BY <2>1, <2>2 DEF instVars
  <2> QED
    BY <1>11, <1>13, <2>1, <2>2 DEF WipeFail
<1>14. CASE Crash
  <2>1. cur' = 0 /\ flights' = {} /\ UNCHANGED <<made, mem, written>>
    BY <1>14 DEF Crash
  <2>2. CASE UNCHANGED <<db, wiped>>
    BY <2>1, <2>2
  <2>3. ASSUME NEW f \in flights, db' = f.snap, UNCHANGED wiped PROVE LineInv' /\ LoginInv'
    <3>1. cur \in Insts /\ cur # 0 /\ f.snap.login = mem[cur].login
      BY SoleFlight
    <3> QED
      BY <2>1, <2>3, <3>1 DEF Insts
  <2>4. ASSUME wipe = "clear", Clear PROVE LineInv' /\ LoginInv'
    <3>1. wipeOf \in 1..made /\ wipeOf \in Insts
      BY <2>4 DEF Insts
    <3>2. mem[wipeOf].login \in 1..made
      BY <3>1
    <3>3. db'.login = 0 /\ db'.upd = {} /\ wiped' = wiped \cup {mem[wipeOf].login}
      BY <2>4 DEF Clear, NoAuth
    <3>4. 0 \notin wiped' /\ wiped' \subseteq 1..made'
      <4>1. made \in Nat /\ wiped \in SUBSET (1..made)
        OBVIOUS
      <4>2. PICK l \in 1..made : l = mem[wipeOf].login
        BY <3>2
      <4>3. wiped' = wiped \cup {l} /\ made' = made
        BY <2>1, <3>3, <4>2
      <4>4. 0 \notin wiped \cup {l} /\ wiped \cup {l} \subseteq 1..made
        BY <4>1, WipedRange
      <4> QED
        BY ONLY <4>3, <4>4
    <3>5. LoginInv'
      BY <2>1, <3>3, <3>4
    <3> QED
      BY <2>1, <3>3, <3>5
  <2> QED
    BY <1>14, <2>2, <2>3, <2>4 DEF Crash
<1>15. CASE UNCHANGED vars
  BY <1>15 DEF vars, instVars, sessionVars
<1> QED
  BY <1>1, <1>2, <1>3, <1>4, <1>5, <1>6, <1>7, <1>8, <1>9, <1>10, <1>12, <1>13, <1>14, <1>15
     DEF Next, WriteStep

\* Sole holds from the start up to some step.
LEMMA SoleBefore == ASSUME TypeOK, [Next]_vars, Sole' PROVE Sole
BY DEF TypeOK, BudgetsOK, Sole, Next, Set, LateSet, NewUpdate, WriteStep, Land, Answer, Fail,
   Fault, Load, Stop, StopDone, LoggedOut, WipeSend, WipeLand, WipeFail, Crash, budgetVars, vars

AllInv == TypeOK /\ WriterInv /\ (Sole => SoleInv)

LEMMA AllInvariant == Spec => []AllInv
<1>1. Init => AllInv
  BY TypeInit, WriterInit, SoleInit DEF AllInv
<1>2. AllInv /\ [Next]_vars => AllInv'
  BY TypeStep, WriterStep, SoleBefore, SolePhase, SoleLine DEF AllInv, SoleInv
<1> QED
  BY <1>1, <1>2, PTL DEF Spec

\* A wiped login never comes back into the row (baileys-session.ts:224-241).
THEOREM WipeHolds == Spec => []WipedStays
<1>1. AllInv => WipedStays
  BY DEF AllInv, SoleInv, LoginInv, WipedStays
<1> QED
  BY <1>1, AllInvariant, PTL

\* A session that stops with no failed write leaves all it had in the row
\* (baileys-session.ts:314-323).
THEOREM StopWrites == Spec => StopKeeps
<1> DEFINE Keeps == Sole /\ pc = "stopping" /\ pc' = "off" /\ cur # 0 /\ ~failed[cur] /\ dead' = dead
                      => mem[cur].upd \subseteq db.upd
<1>1. ASSUME AllInv, [Next]_vars PROVE [Keeps]_vars
  <2> SUFFICES ASSUME Sole, pc = "stopping", pc' = "off", cur # 0, ~failed[cur], dead' = dead
               PROVE  mem[cur].upd \subseteq db.upd
    OBVIOUS
  <2> USE <1>1 DEF AllInv, TypeOK, InstOK, SessionOK
  <2>1. cur \in 1..made \ dead
    OBVIOUS
  <2>2. stopWait = 0
    <3>1. StopDone \/ Crash
      BY <1>1 DEF Next, WriteStep, Set, NewUpdate, LateSet, Land, Answer, Fail, EndRun, Load,
           Stop, LoggedOut, WipeSend, WipeLand, WipeFail, vars, sessionVars
    <3>2. ~Crash
      BY <2>1 DEF Crash
    <3> QED
      BY <3>1, <3>2 DEF StopDone
  <2>3. ~writing[cur]
    BY <2>2 DEF SoleInv, PhaseInv
  <2>4. written[cur] = mem[cur].upd
    BY <2>1, <2>3 DEF WriterInv, SettledIsStored
  <2> QED
    BY <2>4 DEF SoleInv, LineInv
<1> QED
  BY <1>1, AllInvariant, PTL DEF Spec, StopKeeps

-----------------------------------------------------------------------------
(* AuthState implements WriteBehind.                                         *)

LEMMA AbstractInit == Init => Abstract!Init
BY DEF Init, Abstract!Init, MemoryView, StoredView, Memory, NoAuth

\* The view while the row has one writer.
Plain == INSTANCE WriteBehind WITH memory <- Memory, stored <- db.upd

\* Forgetting the memory of the session is a Restart of the abstract view.
LEMMA PlainRestart ==
  ASSUME db.upd \subseteq db'.upd, db'.upd \subseteq Memory, cur' = 0
  PROVE  Plain!Restart
<1>1. Memory' = db'.upd
  BY DEF Memory
<1> QED
  BY <1>1 DEF Plain!Restart, Plain!Ahead

LEMMA PlainStep ==
  ASSUME Sole, Sole', AllInv, [Next]_vars
  PROVE  [Plain!Next]_(Plain!vars)
<1> USE DEF AllInv, TypeOK, InstOK, SessionOK, SoleInv
<1> USE BoundsAssumption
<1>0. cur = 0 \/ cur \in Insts
  BY DEF Insts
<1>s. ASSUME UNCHANGED <<db, cur, mem>> PROVE UNCHANGED Plain!vars
  BY <1>s DEF Plain!vars, Memory
<1>b. db.upd \subseteq Memory
  BY DEF LineInv, Memory
<1>1. CASE Set
  <2>1. cur # 0 /\ sets + 1 \in Updates
    BY <1>1 DEF Set, NewUpdate, BudgetsOK, Updates
  <2>2. mem' = [mem EXCEPT ![cur] = Updated(cur)] /\ db' = db /\ cur' = cur
    BY <1>1 DEF Set, NewUpdate, Persist, sessionVars
  <2>3. Updated(cur).upd = mem[cur].upd \cup {sets + 1}
    BY <1>0, <2>1 DEF Updated, Auth
  <2>4. Memory' = Memory \cup {sets + 1}
    BY <1>0, <2>1, <2>2, <2>3 DEF Memory
  <2> QED
    BY <2>1, <2>2, <2>4 DEF Plain!Next, Plain!Set
<1>2. ASSUME NEW i \in Insts, LateSet(i) PROVE FALSE
  BY <1>2 DEF LateSet, Sole, BudgetsOK
<1>3. ASSUME NEW f \in flights, Land(f) PROVE Plain!Sync
  <2>1. cur # 0 /\ db' = f.snap /\ UNCHANGED <<mem, cur>>
    BY <1>3, SoleFlight DEF Land, sessionVars
  <2>2. db.upd \subseteq f.snap.upd /\ f.snap.upd \subseteq Memory
    BY <2>1 DEF LineInv, Memory
  <2>3. Memory' = Memory
    BY <2>1 DEF Memory
  <2> QED
    BY <2>1, <2>2, <2>3 DEF Plain!Sync, Plain!Ahead
<1>4. ASSUME NEW f \in flights, Answer(f) \/ Fail(f) PROVE UNCHANGED Plain!vars
  BY <1>4, <1>s DEF Answer, Fail, EndRun, sessionVars
<1>6. CASE Load
  <2>1. cur = 0 /\ cur' = made + 1 /\ mem'[made + 1] = Loaded /\ db' = db
    BY <1>6 DEF Load, PhaseInv, Insts
  <2>2. Loaded.upd = db.upd
    BY DEF Loaded, LineInv
  <2>3. Memory' = Memory
    BY <2>1, <2>2 DEF Memory
  <2> QED
    BY <2>1, <2>3 DEF Plain!vars
<1>7. CASE Stop
  BY <1>7, <1>s DEF Stop, instVars
<1>8. CASE StopDone
  BY <1>8, <1>b, PlainRestart DEF StopDone, Plain!Next
<1>9. CASE LoggedOut
  BY <1>9, <1>s DEF LoggedOut, instVars
<1>10. CASE WipeSend
  BY <1>10, <1>b, PlainRestart DEF WipeSend, PhaseInv, Plain!Next
<1>11. ASSUME Clear, cur' = 0 PROVE Plain!Wipe
  <2>1. db'.upd = {}
    BY <1>11 DEF Clear, NoAuth
  <2>2. Memory' = {}
    BY <1>11, <2>1 DEF Memory
  <2> QED
    BY <2>1, <2>2 DEF Plain!Wipe
<1>12. CASE WipeLand
  BY <1>11, <1>12 DEF WipeLand, sessionVars, PhaseInv, Plain!Next
<1>13. CASE WipeFail
  <2>1. cur = 0 /\ cur' = 0 /\ mem' = mem
    BY <1>13 DEF WipeFail, sessionVars, instVars, PhaseInv
  <2> QED
    BY <1>11, <1>13, <1>s, <2>1 DEF WipeFail, Plain!Next
<1>14. CASE Crash
  <2>1. cur' = 0
    BY <1>14 DEF Crash
  <2>2. CASE UNCHANGED <<db, wiped>>
    BY <1>b, <2>1, <2>2, PlainRestart DEF Plain!Next
  <2>3. ASSUME NEW f \in flights, db' = f.snap PROVE Plain!Restart
    <3>1. db.upd \subseteq f.snap.upd /\ f.snap.upd \subseteq Memory
      BY SoleFlight DEF LineInv, Memory
    <3> QED
      BY <2>1, <2>3, <3>1, PlainRestart
  <2> QED
    BY <1>11, <1>14, <2>1, <2>2, <2>3 DEF Crash, Plain!Next
<1>15. CASE UNCHANGED vars
  BY <1>15, <1>s DEF vars, instVars, sessionVars
<1> QED
  BY <1>1, <1>2, <1>3, <1>4, <1>6, <1>7, <1>8, <1>9, <1>10, <1>12, <1>13, <1>14, <1>15
     DEF Next, WriteStep, Plain!Next

LEMMA AbstractStep ==
  ASSUME AllInv, [Next]_vars
  PROVE  [Abstract!Next]_(Abstract!vars)
<1>1. CASE Sole'
  <2>1. Sole
    BY <1>1, SoleBefore DEF AllInv
  <2>2. /\ MemoryView = Memory /\ StoredView = db.upd
        /\ MemoryView' = Memory' /\ StoredView' = db'.upd
    BY <1>1, <2>1 DEF MemoryView, StoredView
  <2>3. [Plain!Next]_(Plain!vars)
    BY <1>1, <2>1, PlainStep
  <2>. QED
    BY <2>2, <2>3 DEF Plain!Next, Plain!vars, Plain!Set, Plain!Sync, Plain!Restart, Plain!Wipe,
       Plain!Ahead, Abstract!Next, Abstract!vars, Abstract!Set, Abstract!Sync, Abstract!Restart,
       Abstract!Wipe, Abstract!Ahead
<1>2. CASE ~Sole'
  BY <1>2 DEF MemoryView, StoredView, Abstract!Next, Abstract!Wipe
<1>. QED
  BY <1>1, <1>2

\* The auth state implements WriteBehind: the row is always a past state of the memory, and
\* goes back only by a wipe (postgres-auth-state.ts:18-37).
THEOREM Implements == Spec => Refines
<1>1. Init => Abstract!Init
  BY AbstractInit
<1>2. AllInv /\ [Next]_vars => [Abstract!Next]_(Abstract!vars)
  BY AbstractStep
<1> QED
  BY <1>1, <1>2, AllInvariant, PTL DEF Spec, Refines, Abstract!Spec
=============================================================================
