------------------------- MODULE DeliveryWatchProofs -------------------------
(***************************************************************************)
(* Theorems about DeliveryWatch, for any openings, any sweepers, any counts *)
(* and any bounds.                                                          *)
(***************************************************************************)
EXTENDS DeliveryWatch, FiniteSetTheorems, TLAPS

-----------------------------------------------------------------------------
(* Types.                                                                    *)

LEMMA RestingType == Resting \in SweepState
BY LimitsAssumption DEF Resting, SweepState

\* A step of one sweeper moves that sweeper alone, to a state of a sweeper.
LEMMA SweepMoves ==
  ASSUME TypeOK, NEW s \in Sweepers, SweepStep(s) \/ SweepThrows(s)
  PROVE  sweep' \in [Sweepers -> SweepState] /\ \A r \in Sweepers \ {s} : sweep'[r] = sweep[r]
<1>0. sweep \in [Sweepers -> SweepState] /\ sweep[s] \in SweepState
  BY DEF TypeOK, SweepOK
<1>1. CASE SweepNoDelivery(s)
  <2>1. Overdue \subseteq Openings
    BY DEF Overdue
  <2>2. [step |-> "delivery", left |-> Overdue, at |-> None] \in SweepState
    BY <2>1, LimitsAssumption DEF SweepState
  <2> QED
    BY <1>0, <1>1, <2>2 DEF SweepNoDelivery
<1>2. CASE SweepNoRead(s)
  <2>1. PICK old \in SUBSET Unseen :
          sweep' = [sweep EXCEPT ![s] = [step |-> "read", left |-> old, at |-> None]]
    BY <1>2 DEF SweepNoRead
  <2>2. [step |-> "read", left |-> old, at |-> None] \in SweepState
    BY LimitsAssumption DEF SweepState, Unseen
  <2> QED
    BY <1>0, <2>1, <2>2
<1>3. CASE Signal(s) \/ SweepEnds(s) \/ SweepThrows(s)
  <2>1. sweep' = [sweep EXCEPT ![s].at = None] \/ sweep' = [sweep EXCEPT ![s] = Resting]
    BY <1>3 DEF Signal, SweepEnds, SweepThrows
  <2>2. [sweep[s] EXCEPT !.at = None] \in SweepState
    BY <1>0, LimitsAssumption DEF SweepState
  <2> QED
    BY <1>0, <2>1, <2>2, RestingType
<1>4. CASE \E o \in Openings : ClaimUndelivered(s, o) \/ ClaimUnread(s, o)
  <2>1. PICK o \in Openings : ClaimUndelivered(s, o) \/ ClaimUnread(s, o)
    BY <1>4
  <2>2. \/ \E a \in Openings \cup {None} : sweep' = [sweep EXCEPT ![s].left = @ \ {o}, ![s].at = a]
        \/ sweep' = [sweep EXCEPT ![s].left = @ \ {o}]
    BY <2>1 DEF ClaimUndelivered, ClaimUnread
  <2>5. sweep[s].step \in {"delivery", "read"}
    BY <2>1 DEF ClaimUndelivered, ClaimUnread, Between
  <2>3. \A a \in Openings \cup {None} : [sweep[s] EXCEPT !.left = @ \ {o}, !.at = a] \in SweepState
    BY <1>0, <2>5, LimitsAssumption DEF SweepState
  <2>4. [sweep[s] EXCEPT !.left = @ \ {o}] \in SweepState
    BY <1>0, LimitsAssumption DEF SweepState
  <2> QED
    BY <1>0, <2>2, <2>3, <2>4
<1>5. CASE \E t \in Traffic : SweepReplyDrop(s, t)
  <2>1. \E a \in {None, "drop"} :
          sweep' = [sweep EXCEPT ![s] = [step |-> "reply", left |-> {}, at |-> a]]
    BY <1>5 DEF SweepReplyDrop
  <2>2. \A a \in {None, "drop"} : [step |-> "reply", left |-> {}, at |-> a] \in SweepState
    BY LimitsAssumption DEF SweepState
  <2> QED
    BY <1>0, <2>1, <2>2
<1> QED
  BY <1>1, <1>2, <1>3, <1>4, <1>5 DEF SweepStep

\* A field of a row is set.
LEMMA FieldSet ==
  ASSUME NEW w \in Row
  PROVE  /\ \A n \in Nat : [w EXCEPT !.wa = n] \in Row
         /\ [w EXCEPT !.read = TRUE] \in Row /\ [w EXCEPT !.read = TRUE].wa = w.wa
         /\ [w EXCEPT !.delivered = TRUE] \in Row /\ [w EXCEPT !.delivered = TRUE].wa = w.wa
         /\ [w EXCEPT !.failed = TRUE] \in Row /\ [w EXCEPT !.failed = TRUE].wa = w.wa
BY DEF Row

LEMMA RowType ==
  ASSUME TypeOK, NEW o \in Openings
  PROVE  row[o] \in Row /\ row[o].wa \in Nat /\ copies[o] \in Nat /\ row[o].wa <= copies[o]
BY DEF TypeOK, RowOK, Row

LEMMA RowSet ==
  ASSUME TypeOK, NEW o \in Openings, NEW w \in Row, row' = [row EXCEPT ![o] = w]
  PROVE  /\ row' \in [Openings -> Row] /\ row'[o] = w
         /\ \A p \in Openings \ {o} : row'[p] = row[p]
BY DEF TypeOK, RowOK

LEMMA TypeInit == Init => TypeOK
<1> SUFFICES ASSUME Init PROVE TypeOK
  OBVIOUS
<1>1. RowOK
  BY DEF Init, RowOK, Row
<1>2. SweepOK
  BY RestingType DEF Init, SweepOK
<1>3. CountsOK
  BY DEF Init, CountsOK
<1> QED
  BY <1>1, <1>2, <1>3 DEF TypeOK

LEMMA TypeStep == TypeOK /\ [Next]_vars => TypeOK'
<1> SUFFICES ASSUME TypeOK, [Next]_vars PROVE TypeOK'
  OBVIOUS
<1>0. faults' = faults \/ Fault => faults' \in Nat
  BY DEF Fault, TypeOK, CountsOK
<1>1. ASSUME NEW o \in Openings, Leaves(o) \/ Linked(o) \/ GetsOld(o) PROVE TypeOK'
  <2>1. RowOK'
    <3>1. CASE Leaves(o)
      <4>1. \A p \in Openings : row[p].wa <= copies'[p]
        BY <3>1, RowType DEF Leaves, TypeOK, RowOK
      <4> QED
        BY <3>1, <4>1 DEF Leaves, TypeOK, RowOK
    <3>2. CASE Linked(o)
      <4> DEFINE w == [row[o] EXCEPT !.wa = copies[o]]
      <4>1. w \in Row /\ w.wa = copies[o]
        BY RowType, FieldSet DEF Row
      <4>2. row' = [row EXCEPT ![o] = w]
        BY <3>2 DEF Linked
      <4> HIDE DEF w
      <4>3. row' \in [Openings -> Row] /\ \A p \in Openings : row'[p].wa <= copies[p]
        <5>1. /\ row' \in [Openings -> Row] /\ row'[o] = w
              /\ \A p \in Openings \ {o} : row'[p] = row[p]
          BY <4>1, <4>2, RowSet
        <5> QED
          BY <4>1, <5>1, RowType
      <4> QED
        BY <3>2, <4>3 DEF Linked, TypeOK, RowOK
    <3>3. CASE GetsOld(o)
      BY <3>3 DEF GetsOld, TypeOK, RowOK
    <3> QED
      BY <1>1, <3>1, <3>2, <3>3
  <2> QED
    BY <1>1, <2>1 DEF Leaves, Linked, GetsOld, TypeOK, SweepOK, CountsOK, signalVars, pastVars
<1>2. ASSUME NEW o \in Openings, NEW n \in 1..copies[o], NEW st \in {3, 4}, Receipt(o, n, st) PROVE TypeOK'
  <2>1. n \in Nat
    BY DEF TypeOK, RowOK
  <2>2. MarksOf([of |-> o, n |-> n], st) \subseteq [id : Ids, what : {"delivered", "read"}]
    BY <2>1 DEF MarksOf, Ids
  <2>3. RowOK'
    BY <1>2, <2>2 DEF Receipt, TypeOK, RowOK
  <2>4. CountsOK'
    BY <1>2 DEF Receipt, TypeOK, CountsOK, signalVars
  <2> QED
    BY <1>2, <2>3, <2>4 DEF Receipt, TypeOK, SweepOK
<1>3. ASSUME NEW m \in marks, Land(m) PROVE TypeOK'
  <2>1. m.id.of \in Openings /\ m \in [id : Ids, what : {"delivered", "read"}]
    BY DEF TypeOK, RowOK, Ids
  <2>2. RowOK'
    <3>1. row' \in [Openings -> Row]
          /\ \A o \in Openings : row'[o].wa = row[o].wa
      <4>1. \/ row' = row
            \/ row' = [row EXCEPT ![m.id.of].read = TRUE]
            \/ row' = [row EXCEPT ![m.id.of].delivered = TRUE]
        BY <1>3 DEF Land
      <4> QED
        <5> DEFINE o == m.id.of
        <5>1. \/ row' = row
              \/ row' = [row EXCEPT ![o] = [row[o] EXCEPT !.read = TRUE]]
              \/ row' = [row EXCEPT ![o] = [row[o] EXCEPT !.delivered = TRUE]]
          BY <4>1
        <5>2. row[o] \in Row
          BY <2>1, RowType
        <5>3. row' = row \/ \E w \in Row : w.wa = row[o].wa /\ row' = [row EXCEPT ![o] = w]
          BY <5>1, <5>2, FieldSet
        <5> QED
          BY <2>1, <5>3 DEF TypeOK, RowOK
    <3> QED
      BY <1>3, <3>1 DEF Land, TypeOK, RowOK
  <2> QED
    BY <1>0, <1>3, <2>2 DEF Land, TypeOK, SweepOK, CountsOK, signalVars, pastVars
<1>4. CASE WorkerCrash
  BY <1>0, <1>4 DEF WorkerCrash, TypeOK, RowOK, SweepOK, CountsOK, signalVars, pastVars
<1>5. ASSUME NEW s \in Sweepers, SweepStep(s) \/ SweepThrows(s) PROVE TypeOK'
  <2>1. SweepOK'
    BY <1>5, SweepMoves DEF SweepOK
  <2>2. RowOK'
    <3>1. CASE \E o \in Openings : ClaimUndelivered(s, o)
      <4>1. PICK o \in Openings : ClaimUndelivered(s, o)
        BY <3>1
      <4>2. row' = [row EXCEPT ![o].failed = TRUE] \/ row' = row
        BY <4>1 DEF ClaimUndelivered
      <4>3. row' \in [Openings -> Row]
            /\ \A p \in Openings : row'[p].wa = row[p].wa
        <5>1. row' = row \/ row' = [row EXCEPT ![o] = [row[o] EXCEPT !.failed = TRUE]]
          BY <4>2
        <5>2. row' = row \/ \E w \in Row : w.wa = row[o].wa /\ row' = [row EXCEPT ![o] = w]
          BY <5>1, FieldSet, RowType
        <5> QED
          BY <5>2 DEF TypeOK, RowOK
      <4> QED
        BY <4>1, <4>3 DEF ClaimUndelivered, TypeOK, RowOK
    <3>2. CASE ~\E o \in Openings : ClaimUndelivered(s, o)
      <4>1. UNCHANGED rowVars
        BY <1>5, <3>2 DEF SweepStep, SweepNoDelivery, SweepNoRead, Signal, SweepEnds, SweepThrows,
              ClaimUnread, SweepReplyDrop
      <4> QED
        BY <4>1 DEF rowVars, TypeOK, RowOK
    <3> QED
      BY <3>1, <3>2
  <2>3. CountsOK'
    <3>1. CASE Signal(s)
      <4>1. sweep[s].at \in Openings
        BY <3>1 DEF Signal
      <4>2. undelivered' \in [Openings -> Nat] /\ unread' \in [Openings -> Nat]
        BY <3>1, <4>1 DEF Signal, Counted, TypeOK, CountsOK
      <4> QED
        BY <3>1, <4>2 DEF Signal, TypeOK, CountsOK, pastVars
    <3>2. CASE SweepEnds(s)
      <4>2. (dropSeen' = TRUE /\ replyDrops' = replyDrops + 1) \/ UNCHANGED <<dropSeen, replyDrops>>
        BY <3>2 DEF SweepEnds
      <4>1. dropSeen' \in BOOLEAN /\ replyDrops' \in Nat
        <5>1. dropSeen' \in BOOLEAN
          BY <4>2 DEF TypeOK, CountsOK
        <5>2. replyDrops' \in Nat
          BY <4>2 DEF TypeOK, CountsOK
        <5> QED
          BY <5>1, <5>2
      <4> QED
        BY <3>2, <4>1 DEF SweepEnds, TypeOK, CountsOK, pastVars
    <3>3. CASE SweepThrows(s)
      <4>1. lost' \subseteq Openings
        <5>1. sweep[s].step = "delivery" => sweep[s].at # "drop"
          BY DEF TypeOK, SweepOK, SweepState
        <5> QED
          BY <3>3, <5>1 DEF SweepThrows, TypeOK, CountsOK, SweepOK, SweepState
      <4> QED
        BY <1>0, <3>3, <4>1 DEF SweepThrows, TypeOK, CountsOK, signalVars
    <3>4. CASE \E t \in Traffic : SweepReplyDrop(s, t)
      BY <3>4 DEF SweepReplyDrop, TypeOK, CountsOK, signalVars
    <3>5. CASE SweepNoDelivery(s) \/ SweepNoRead(s) \/ \E o \in Openings : ClaimUndelivered(s, o) \/ ClaimUnread(s, o)
      BY <3>5 DEF SweepNoDelivery, SweepNoRead, ClaimUndelivered, ClaimUnread, TypeOK, CountsOK, signalVars, pastVars
    <3> QED
      BY <1>5, <3>1, <3>2, <3>3, <3>4, <3>5 DEF SweepStep
  <2> QED
    BY <2>1, <2>2, <2>3 DEF TypeOK
<1>6. CASE UNCHANGED vars
  BY <1>6 DEF vars, rowVars, signalVars, pastVars, TypeOK, RowOK, SweepOK, CountsOK
<1> QED
  BY <1>1, <1>2, <1>3, <1>4, <1>5, <1>6 DEF Next

\* The types of the rows, of the sweeps and of the counters.
THEOREM TypeCorrect == Spec => []TypeOK
BY TypeInit, TypeStep, PTL DEF Spec

-----------------------------------------------------------------------------
(* How the row of an opening moves.                                          *)

\* Only a receipt that lands marks a row delivered or read, and only a sweep failed.
LEMMA RowMoves ==
  ASSUME TypeOK, [Next]_vars, NEW o \in Openings
  PROVE  /\ row'[o].delivered => row[o].delivered \/ \E m \in marks : m.id.of = o /\ m.what = "delivered"
         /\ row'[o].read => row[o].read \/ \E m \in marks : m.id.of = o /\ m.what = "read"
         /\ row[o].delivered => row'[o].delivered
         /\ row[o].failed => row'[o].failed
         /\ (row'[o].failed /\ ~row[o].failed) =>
              (~row[o].delivered /\ \E s \in Sweepers : ClaimUndelivered(s, o))
<1>0. row \in [Openings -> Row] /\ row[o] \in Row
  BY DEF TypeOK, RowOK
<1>1. CASE row' = row
  BY <1>1
<1>2. CASE \E p \in Openings : Linked(p)
  <2>1. PICK p \in Openings : row' = [row EXCEPT ![p].wa = copies[p]]
    BY <1>2 DEF Linked
  <2>2. /\ row'[o].delivered = row[o].delivered /\ row'[o].read = row[o].read
        /\ row'[o].failed = row[o].failed
    BY <1>0, <2>1 DEF Row
  <2> QED
    BY <2>2
<1>3. CASE \E m \in marks : Land(m)
  <2>1. PICK m \in marks : Land(m)
    BY <1>3
  <2>2. m.what \in {"delivered", "read"}
    BY DEF TypeOK, RowOK
  <2>3. CASE m.what = "read"
    <3>1. row' = row \/ row' = [row EXCEPT ![m.id.of].read = TRUE]
      BY <2>1, <2>3 DEF Land
    <3>2. /\ row'[o].delivered = row[o].delivered /\ row'[o].failed = row[o].failed
          /\ row'[o].read = row[o].read \/ m.id.of = o
      BY <1>0, <3>1 DEF Row
    <3>3. row[o].read => row'[o].read
      BY <1>0, <3>1 DEF Row
    <3> QED
      BY <2>3, <3>2, <3>3
  <2>4. CASE m.what # "read"
    <3>1. row' = row \/ row' = [row EXCEPT ![m.id.of].delivered = TRUE]
      BY <2>1, <2>4 DEF Land
    <3>2. /\ row'[o].read = row[o].read /\ row'[o].failed = row[o].failed
          /\ row'[o].delivered = row[o].delivered \/ m.id.of = o
      BY <1>0, <3>1 DEF Row
    <3>3. row[o].delivered => row'[o].delivered
      BY <1>0, <3>1 DEF Row
    <3> QED
      BY <2>2, <2>4, <3>2, <3>3
  <2> QED
    BY <2>3, <2>4
<1>4. CASE \E s \in Sweepers, p \in Openings : ClaimUndelivered(s, p) /\ row' # row
  <2>1. PICK s \in Sweepers, p \in Openings : ClaimUndelivered(s, p) /\ row' # row
    BY <1>4
  <2>2. row' = [row EXCEPT ![p].failed = TRUE] /\ ~row[p].delivered
    BY <2>1 DEF ClaimUndelivered, StillUndelivered
  <2>3. row'[o].delivered = row[o].delivered /\ row'[o].read = row[o].read
    BY <1>0, <2>2 DEF Row
  <2>4. CASE o = p
    BY <1>0, <2>1, <2>2, <2>3, <2>4 DEF Row
  <2>5. CASE o # p
    BY <1>0, <2>2, <2>3, <2>5
  <2> QED
    BY <2>4, <2>5
<1> QED
  BY <1>1, <1>2, <1>3, <1>4 DEF Next, SweepStep, SweepNoDelivery, SweepNoRead, ClaimUnread, Signal,
     SweepReplyDrop, SweepEnds, SweepThrows, Leaves, GetsOld, Receipt, WorkerCrash, vars, rowVars

-----------------------------------------------------------------------------
(* What a row says is true.                                                  *)

\* A call that has yet to write comes of a receipt, too.
MarksTrue == \A m \in marks : /\ given[m.id.of] # {}
                              /\ m.what = "read" => 4 \in given[m.id.of]

LEMMA MarksStep == TypeOK /\ MarksTrue /\ [Next]_vars =>
                     MarksTrue' /\ \A o \in Openings : given[o] \subseteq given'[o]
<1> SUFFICES ASSUME TypeOK, MarksTrue, [Next]_vars
             PROVE  MarksTrue' /\ \A o \in Openings : given[o] \subseteq given'[o]
  OBVIOUS
<1>1. CASE given' = given /\ marks' \subseteq marks
  BY <1>1 DEF MarksTrue
<1>2. CASE \E o \in Openings : \E n \in 1..copies[o], st \in {3, 4} : Receipt(o, n, st)
  <2>0. PICK o \in Openings : \E n \in 1..copies[o], st \in {3, 4} : Receipt(o, n, st)
    BY <1>2
  <2>1. PICK n \in 1..copies[o], st \in {3, 4} : Receipt(o, n, st)
    BY <2>0
  <2>2. given' = [given EXCEPT ![o] = @ \cup {st}] /\ marks' \subseteq marks \cup MarksOf([of |-> o, n |-> n], st)
    BY <2>1 DEF Receipt
  <2>3. given'[o] = given[o] \cup {st} /\ \A p \in Openings : given[p] \subseteq given'[p]
    BY <2>2 DEF TypeOK, CountsOK
  <2>4. \A m \in MarksOf([of |-> o, n |-> n], st) : m.id.of = o /\ (m.what = "read" => st = 4)
    BY DEF MarksOf
  <2>5. \A m \in marks : m.id.of \in Openings
    BY DEF TypeOK, RowOK, Ids
  <2>6. ASSUME NEW m \in marks' PROVE given'[m.id.of] # {} /\ (m.what = "read" => 4 \in given'[m.id.of])
    <3>1. CASE m \in marks
      BY <2>3, <2>5, <3>1 DEF MarksTrue
    <3>2. CASE m \in MarksOf([of |-> o, n |-> n], st)
      BY <2>3, <2>4, <3>2
    <3> QED
      BY <2>2, <2>6, <3>1, <3>2
  <2> QED
    BY <2>3, <2>6 DEF MarksTrue
<1> QED
  BY <1>1, <1>2 DEF Next, SweepStep, SweepNoDelivery, SweepNoRead, ClaimUndelivered, ClaimUnread, Signal,
     SweepReplyDrop, SweepEnds, SweepThrows, Leaves, Linked, GetsOld, Land, WorkerCrash, vars, rowVars, pastVars

\* deliveredAt and readAt never say more than the receipts of the phone did.
THEOREM RowsTellTrue == Spec => []ReceiptsTrue
<1>1. Init => MarksTrue /\ ReceiptsTrue
  BY DEF Init, MarksTrue, ReceiptsTrue
<1>2. TypeOK /\ MarksTrue /\ ReceiptsTrue /\ [Next]_vars => ReceiptsTrue'
  <2> SUFFICES ASSUME TypeOK, MarksTrue, ReceiptsTrue, [Next]_vars, NEW o \in Openings
               PROVE  /\ row'[o].delivered => given'[o] # {}
                      /\ row'[o].read => 4 \in given'[o]
    BY DEF ReceiptsTrue
  <2>1. given[o] \subseteq given'[o]
    BY MarksStep
  <2>2. row'[o].delivered => given[o] # {}
    BY RowMoves DEF MarksTrue, ReceiptsTrue
  <2>3. row'[o].read => 4 \in given[o]
    BY RowMoves DEF MarksTrue, ReceiptsTrue
  <2> QED
    BY <2>1, <2>2, <2>3
<1> QED
  BY <1>1, <1>2, MarksStep, TypeCorrect, PTL DEF Spec

-----------------------------------------------------------------------------
(* One signal for one message.                                               *)

Claims(s, o) == sweep[s].step = "delivery" /\ sweep[s].at = o

\* A failed row has one claim, which is signalled, to be signalled, or lost; another has none.
OneClaim(o) ==
  /\ ~row[o].failed => undelivered[o] = 0 /\ o \notin lost /\ \A s \in Sweepers : ~Claims(s, o)
  /\ row[o].failed =>
       \/ undelivered[o] = 1 /\ o \notin lost /\ \A s \in Sweepers : ~Claims(s, o)
       \/ /\ undelivered[o] = 0 /\ o \notin lost
          /\ \E s \in Sweepers : Claims(s, o) /\ \A r \in Sweepers : Claims(r, o) => r = s
       \/ undelivered[o] = 0 /\ o \in lost /\ \A s \in Sweepers : ~Claims(s, o)

\* What was or may yet be signalled as unread was delivered before it could fail.
ReadInv(o) ==
  (unread[o] # 0 \/ \E s \in Sweepers : sweep[s].step = "read" /\ (sweep[s].at = o \/ o \in sweep[s].left))
    => row[o].delivered /\ ~row[o].failed

LEMMA OthersStay ==
  ASSUME [Next]_vars, ~\E s \in Sweepers : SweepStep(s) \/ SweepThrows(s)
  PROVE  UNCHANGED <<sweep, signalVars, lost, overlap>>
BY DEF Next, Leaves, Linked, GetsOld, Receipt, Land, WorkerCrash, vars, pastVars

LEMMA ClaimStep ==
  ASSUME TypeOK, NEW o \in Openings, OneClaim(o), [Next]_vars PROVE OneClaim(o)'
<1>0. \A s \in Sweepers : sweep[s] \in SweepState
  BY DEF TypeOK, SweepOK
<1>1. ASSUME row'[o].failed = row[o].failed, undelivered'[o] = undelivered[o], o \in lost' <=> o \in lost,
             \A r \in Sweepers : Claims(r, o)' <=> Claims(r, o)
      PROVE  OneClaim(o)'
  BY <1>1 DEF OneClaim
<1>2. CASE ~\E s \in Sweepers : SweepStep(s) \/ SweepThrows(s)
  <2>1. UNCHANGED <<sweep, undelivered, lost>>
    BY <1>2, OthersStay DEF signalVars
  <2>2. row'[o].failed = row[o].failed
    <3>1. row[o] \in Row /\ row'[o] \in Row
      BY TypeStep DEF TypeOK, RowOK
    <3>2. row'[o].failed <=> row[o].failed
      BY <1>2, RowMoves DEF SweepStep
    <3> QED
      BY <3>1, <3>2 DEF Row
  <2> QED
    BY <1>1, <2>1, <2>2 DEF Claims
<1>3. ASSUME NEW s \in Sweepers, SweepStep(s) \/ SweepThrows(s) PROVE OneClaim(o)'
  <2>1. \A r \in Sweepers \ {s} : Claims(r, o)' <=> Claims(r, o)
    BY <1>3, SweepMoves DEF Claims
  <2>2. ASSUME NEW p \in Openings, ClaimUndelivered(s, p) PROVE OneClaim(o)'
    <3>1. /\ undelivered' = undelivered /\ lost' = lost /\ ~Claims(s, o) /\ o # None
      BY <2>2, LimitsAssumption DEF ClaimUndelivered, signalVars, pastVars, Between, Claims
    <3>2. CASE StillUndelivered(p)
      <4>1. /\ row' = [row EXCEPT ![p].failed = TRUE] /\ ~row[p].failed
            /\ sweep'[s].step = "delivery" /\ sweep'[s].at = p
        BY <1>0, <2>2, <3>2 DEF ClaimUndelivered, StillUndelivered, TypeOK, SweepOK, SweepState, Between
      <4>2. CASE o = p
        <5>1. row'[o].failed
          BY <4>1, <4>2 DEF TypeOK, RowOK, Row
        <5>2. undelivered[o] = 0 /\ o \notin lost /\ \A r \in Sweepers : ~Claims(r, o)
          BY <4>1, <4>2 DEF OneClaim
        <5>3. Claims(s, o)' /\ \A r \in Sweepers : Claims(r, o)' => r = s
          BY <2>1, <4>1, <4>2, <5>2 DEF Claims
        <5> QED
          BY <3>1, <5>1, <5>2, <5>3 DEF OneClaim
      <4>3. CASE o # p
        <5>1. row'[o] = row[o]
          BY <4>1, <4>3 DEF TypeOK, RowOK
        <5>2. ~Claims(s, o)'
          BY <4>1, <4>3 DEF Claims
        <5> QED
          BY <1>1, <2>1, <3>1, <5>1, <5>2
      <4> QED
        BY <4>2, <4>3
    <3>3. CASE ~StillUndelivered(p)
      <4>1. row' = row /\ sweep'[s].at = sweep[s].at
        BY <1>0, <2>2, <3>3 DEF ClaimUndelivered, TypeOK, SweepOK, SweepState
      <4>2. ~Claims(s, o)'
        BY <2>2, <3>1, <4>1 DEF Claims, ClaimUndelivered, Between
      <4> QED
        BY <1>1, <2>1, <3>1, <4>1, <4>2
    <3> QED
      BY <3>2, <3>3
  <2>3. CASE Signal(s)
    <3>1. row' = row /\ lost' = lost /\ sweep'[s].at = None
      BY <1>0, <2>3 DEF Signal, rowVars, pastVars, TypeOK, SweepOK, SweepState
    <3>2. ~Claims(s, o)'
      BY <3>1, LimitsAssumption DEF Claims
    <3>3. CASE Claims(s, o)
      <4>1. undelivered'[o] = undelivered[o] + 1
        BY <2>3, <3>3 DEF Signal, Claims, TypeOK, CountsOK
      <4>2. row[o].failed /\ undelivered[o] = 0 /\ o \notin lost /\ \A r \in Sweepers : Claims(r, o) => r = s
        BY <3>3 DEF OneClaim
      <4> QED
        BY <2>1, <3>1, <3>2, <4>1, <4>2 DEF OneClaim
    <3>4. CASE ~Claims(s, o)
      <4>1. undelivered'[o] = undelivered[o]
        BY <2>3, <3>4 DEF Signal, Claims, TypeOK, CountsOK
      <4> QED
        BY <1>1, <2>1, <3>1, <3>2, <3>4, <4>1
    <3> QED
      BY <3>3, <3>4
  <2>4. CASE SweepThrows(s)
    <3>1. row' = row /\ undelivered' = undelivered /\ sweep'[s] = Resting
      BY <1>0, <2>4 DEF SweepThrows, rowVars, signalVars, TypeOK, SweepOK
    <3>2. ~Claims(s, o)'
      BY <3>1, LimitsAssumption DEF Claims, Resting
    <3>3. CASE Claims(s, o)
      <4>1. o \in lost'
        BY <2>4, <3>3, LimitsAssumption DEF SweepThrows, Claims
      <4>2. row[o].failed /\ undelivered[o] = 0 /\ \A r \in Sweepers : Claims(r, o) => r = s
        BY <3>3 DEF OneClaim
      <4> QED
        BY <2>1, <3>1, <3>2, <4>1, <4>2 DEF OneClaim
    <3>4. CASE ~Claims(s, o)
      <4>1. o \in lost' <=> o \in lost
        BY <2>4, <3>4 DEF SweepThrows, Claims
      <4> QED
        BY <1>1, <2>1, <3>1, <3>2, <3>4, <4>1
    <3> QED
      BY <3>3, <3>4
  <2>5. CASE \/ SweepNoDelivery(s) \/ SweepNoRead(s) \/ SweepEnds(s)
             \/ \E p \in Openings : ClaimUnread(s, p)
             \/ \E t \in Traffic : SweepReplyDrop(s, t)
    <3>1. row' = row /\ undelivered' = undelivered /\ lost' = lost
      BY <2>5 DEF SweepNoDelivery, SweepNoRead, SweepEnds, ClaimUnread, SweepReplyDrop, rowVars, signalVars, pastVars
    <3>2. ~Claims(s, o)
      BY <2>5, LimitsAssumption DEF SweepNoDelivery, SweepNoRead, SweepEnds, ClaimUnread, SweepReplyDrop, Between, Claims
    <3>3. ~Claims(s, o)'
      <4>1. CASE SweepNoDelivery(s) \/ SweepNoRead(s) \/ SweepEnds(s) \/ \E t \in Traffic : SweepReplyDrop(s, t)
        BY <4>1, LimitsAssumption DEF SweepNoDelivery, SweepNoRead, SweepEnds, SweepReplyDrop, Resting, Claims, TypeOK, SweepOK
      <4>2. CASE \E p \in Openings : ClaimUnread(s, p)
        <5>1. sweep'[s].step = sweep[s].step /\ sweep[s].step = "read"
          BY <1>0, <4>2 DEF ClaimUnread, Between, TypeOK, SweepOK, SweepState
        <5> QED
          BY <5>1 DEF Claims
      <4> QED
        BY <2>5, <4>1, <4>2
    <3> QED
      BY <1>1, <2>1, <3>1, <3>2, <3>3
  <2> QED
    BY <1>3, <2>2, <2>3, <2>4, <2>5 DEF SweepStep
<1> QED
  BY <1>2, <1>3

LEMMA ReadStep ==
  ASSUME TypeOK, NEW o \in Openings, ReadInv(o), [Next]_vars PROVE ReadInv(o)'
<1> DEFINE Seen == row[o].delivered /\ ~row[o].failed
           Holds(s) == sweep[s].step = "read" /\ (sweep[s].at = o \/ o \in sweep[s].left)
<1>0. \A s \in Sweepers : sweep[s] \in SweepState
  BY DEF TypeOK, SweepOK
<1>1. row[o].delivered /\ ~row[o].failed => row'[o].delivered /\ ~row'[o].failed
  BY RowMoves
<1>2. ASSUME row[o].delivered /\ ~row[o].failed PROVE ReadInv(o)'
  BY <1>1, <1>2 DEF ReadInv
<1>3. ASSUME ~(row[o].delivered /\ ~row[o].failed) PROVE ReadInv(o)'
  <2>1. unread[o] = 0 /\ \A s \in Sweepers : ~Holds(s)
    BY <1>3 DEF ReadInv
  <2>2. CASE ~\E s \in Sweepers : SweepStep(s) \/ SweepThrows(s)
    <3>1. sweep' = sweep /\ unread' = unread
      BY <2>2, OthersStay DEF signalVars
    <3> QED
      BY <2>1, <3>1 DEF ReadInv
  <2>3. ASSUME NEW s \in Sweepers, SweepStep(s) \/ SweepThrows(s) PROVE ReadInv(o)'
    <3>1. \A r \in Sweepers \ {s} : sweep'[r] = sweep[r]
      BY <2>3, SweepMoves
    <3>2. unread'[o] = 0
      <4>1. CASE Signal(s)
        <5>1. sweep[s].step = "delivery" \/ sweep[s].step = "read"
          BY <1>0, <4>1 DEF Signal, SweepState
        <5>2. sweep[s].step = "read" => sweep[s].at # o
          BY <2>1
        <5> QED
          BY <2>1, <4>1, <5>1, <5>2 DEF Signal, TypeOK, CountsOK
      <4>2. CASE ~Signal(s)
        <5>1. unread' = unread
          BY <2>3, <4>2 DEF SweepStep, SweepNoDelivery, SweepNoRead, ClaimUndelivered, ClaimUnread, SweepReplyDrop,
                SweepEnds, SweepThrows, signalVars
        <5> QED
          BY <2>1, <5>1
      <4> QED
        BY <4>1, <4>2
    <3>3. ~Holds(s)'
      <4>1. CASE SweepNoRead(s)
        <5>1. PICK old \in SUBSET Unseen :
                sweep' = [sweep EXCEPT ![s] = [step |-> "read", left |-> old, at |-> None]]
          BY <4>1 DEF SweepNoRead
        <5>2. o \notin old
          BY <1>3 DEF Unseen
        <5> QED
          BY <5>1, <5>2, LimitsAssumption DEF TypeOK, SweepOK
      <4>2. CASE \E p \in Openings : ClaimUnread(s, p)
        <5>1. PICK p \in Openings : ClaimUnread(s, p)
          BY <4>2
        <5>2. /\ sweep'[s].left \subseteq sweep[s].left /\ sweep'[s].at \in {p, None}
              /\ p \in sweep[s].left /\ sweep[s].step = "read"
          BY <1>0, <5>1 DEF ClaimUnread, Between, TypeOK, SweepOK, SweepState
        <5> QED
          BY <2>1, <5>2, LimitsAssumption
      <4>3. CASE Signal(s)
        <5>1. sweep'[s].left = sweep[s].left /\ sweep'[s].at = None /\ sweep'[s].step = sweep[s].step
          BY <1>0, <4>3 DEF Signal, TypeOK, SweepOK, SweepState
        <5> QED
          BY <2>1, <5>1, LimitsAssumption
      <4>4. CASE \E p \in Openings : ClaimUndelivered(s, p)
        <5>1. sweep'[s].step = sweep[s].step /\ sweep[s].step = "delivery"
          BY <1>0, <4>4 DEF ClaimUndelivered, Between, TypeOK, SweepOK, SweepState
        <5> QED
          BY <5>1
      <4>5. CASE SweepNoDelivery(s) \/ SweepEnds(s) \/ SweepThrows(s) \/ \E t \in Traffic : SweepReplyDrop(s, t)
        BY <4>5 DEF SweepNoDelivery, SweepEnds, SweepThrows, SweepReplyDrop, Resting, TypeOK, SweepOK
      <4> QED
        BY <2>3, <4>1, <4>2, <4>3, <4>4, <4>5 DEF SweepStep
    <3>4. \A r \in Sweepers : ~Holds(r)'
      BY <2>1, <3>1, <3>3
    <3> QED
      BY <3>2, <3>4 DEF ReadInv
  <2> QED
    BY <2>2, <2>3
<1> QED
  BY <1>2, <1>3

\* Sweeps that overlap signal a message once, and under one name.
THEOREM OneSignal == Spec => []SignalledOnce
<1> DEFINE Inv == \A o \in Openings : OneClaim(o) /\ ReadInv(o)
<1>1. Init => Inv
  BY LimitsAssumption DEF Init, OneClaim, ReadInv, Claims, Resting
<1>2. TypeOK /\ Inv /\ [Next]_vars => Inv'
  BY ClaimStep, ReadStep
<1>3. TypeOK /\ Inv => SignalledOnce
  <2> SUFFICES ASSUME TypeOK, Inv, NEW o \in Openings
               PROVE  /\ undelivered[o] + Cardinality(Claiming(o)) + (IF o \in lost THEN 1 ELSE 0)
                           = IF row[o].failed THEN 1 ELSE 0
                      /\ row[o].failed => unread[o] = 0
    BY DEF SignalledOnce
  <2>1. Claiming(o) = {s \in Sweepers : Claims(s, o)}
    BY DEF Claiming, Claims
  <2>2. (\A s \in Sweepers : ~Claims(s, o)) => Cardinality(Claiming(o)) = 0
    BY <2>1, FS_EmptySet
  <2>3. ASSUME NEW s \in Sweepers, Claims(s, o), \A r \in Sweepers : Claims(r, o) => r = s
        PROVE  Cardinality(Claiming(o)) = 1
    <3>1. Claiming(o) = {s}
      BY <2>1, <2>3
    <3> QED
      BY <3>1, FS_Singleton
  <2>4. OneClaim(o) /\ ReadInv(o)
    OBVIOUS
  <2>5. undelivered[o] + Cardinality(Claiming(o)) + (IF o \in lost THEN 1 ELSE 0)
          = IF row[o].failed THEN 1 ELSE 0
    BY <2>2, <2>3, <2>4 DEF OneClaim
  <2>6. row[o].failed => unread[o] = 0
    BY <2>4 DEF ReadInv
  <2> QED
    BY <2>5, <2>6
<1> HIDE DEF Inv
<1> QED
  BY <1>1, <1>2, <1>3, TypeCorrect, PTL DEF Spec

-----------------------------------------------------------------------------
(* One REPLY_DROP a day.                                                     *)

Dropping(s) == sweep[s].at = "drop"

\* Without an overlap, the only sweep that goes to signal a drop found none.
DropInv ==
  ~overlap => /\ replyDrops <= 1 /\ (replyDrops = 1 => dropSeen)
              /\ \A s \in Sweepers : Dropping(s) =>
                   replyDrops = 0 /\ ~dropSeen /\ \A r \in Sweepers : Dropping(r) => r = s

LEMMA DropStep == TypeOK /\ DropInv /\ [Next]_vars => DropInv'
<1> SUFFICES ASSUME TypeOK, DropInv, [Next]_vars PROVE DropInv'
  OBVIOUS
<1>0. \A s \in Sweepers : sweep[s] \in SweepState
  BY DEF TypeOK, SweepOK
<1>1. ASSUME UNCHANGED <<replyDrops, dropSeen, overlap>>, \A r \in Sweepers : Dropping(r)' => Dropping(r)
      PROVE  DropInv'
  BY <1>1 DEF DropInv
<1>2. CASE ~\E s \in Sweepers : SweepStep(s) \/ SweepThrows(s)
  <2>1. UNCHANGED <<sweep, replyDrops, dropSeen, overlap>>
    BY <1>2, OthersStay DEF signalVars
  <2> QED
    BY <1>1, <2>1 DEF Dropping
<1>3. ASSUME NEW s \in Sweepers, SweepStep(s) \/ SweepThrows(s) PROVE DropInv'
  <2>1. \A r \in Sweepers \ {s} : Dropping(r)' <=> Dropping(r)
    BY <1>3, SweepMoves DEF Dropping
  <2>2. ASSUME NEW t \in Traffic, SweepReplyDrop(s, t) PROVE DropInv'
    <3>1. /\ replyDrops' = replyDrops /\ dropSeen' = dropSeen
          /\ overlap' = (overlap \/ \E r \in Sweepers : Dropping(r))
          /\ sweep'[s].at = IF DropDue(t) THEN "drop" ELSE None
      BY <2>2 DEF SweepReplyDrop, signalVars, Dropping, TypeOK, SweepOK
    <3>2. Dropping(s)' => ~dropSeen
      BY <3>1, LimitsAssumption DEF Dropping, DropDue
    <3>3. replyDrops \in Nat
      BY DEF TypeOK, CountsOK
    <3>4. ASSUME ~overlap'
          PROVE  ~overlap /\ \A r \in Sweepers \ {s} : ~Dropping(r)'
      BY <2>1, <3>1, <3>4
    <3>5. ~overlap /\ ~dropSeen => replyDrops = 0
      BY <3>3 DEF DropInv
    <3>6. ASSUME ~overlap', NEW r \in Sweepers, Dropping(r)'
          PROVE  replyDrops' = 0 /\ ~dropSeen' /\ \A p \in Sweepers : Dropping(p)' => p = r
      <4>1. r = s
        BY <3>4, <3>6
      <4>2. ~dropSeen /\ ~overlap
        BY <3>2, <3>4, <3>6, <4>1
      <4> QED
        BY <3>1, <3>4, <3>5, <3>6, <4>1, <4>2
    <3>7. ~overlap' => replyDrops' <= 1 /\ (replyDrops' = 1 => dropSeen')
      BY <3>1, <3>4 DEF DropInv
    <3> QED
      BY <3>6, <3>7 DEF DropInv
  <2>3. CASE SweepEnds(s)
    <3>1. sweep'[s] = Resting /\ overlap' = overlap
      BY <2>3 DEF SweepEnds, pastVars, TypeOK, SweepOK
    <3>2. ~Dropping(s)'
      BY <3>1, LimitsAssumption DEF Dropping, Resting
    <3>3. CASE Dropping(s)
      <4>1. replyDrops' = replyDrops + 1 /\ dropSeen'
        BY <2>3, <3>3 DEF SweepEnds, Dropping
      <4>2. ~overlap => replyDrops = 0 /\ \A r \in Sweepers \ {s} : ~Dropping(r)
        BY <3>3 DEF DropInv
      <4> QED
        BY <2>1, <3>1, <3>2, <4>1, <4>2 DEF DropInv
    <3>4. CASE ~Dropping(s)
      BY <1>1, <2>1, <2>3, <3>1, <3>2, <3>4 DEF SweepEnds, Dropping
    <3> QED
      BY <3>3, <3>4
  <2>4. CASE \/ SweepNoDelivery(s) \/ SweepNoRead(s) \/ Signal(s) \/ SweepThrows(s)
             \/ \E o \in Openings : ClaimUndelivered(s, o) \/ ClaimUnread(s, o)
    <3>1. UNCHANGED <<replyDrops, dropSeen, overlap>>
      BY <2>4 DEF SweepNoDelivery, SweepNoRead, Signal, SweepThrows, ClaimUndelivered, ClaimUnread, signalVars, pastVars
    <3>2. Dropping(s)' => Dropping(s)
      <4>1. CASE SweepNoDelivery(s) \/ SweepNoRead(s) \/ Signal(s) \/ SweepThrows(s)
        BY <1>0, <4>1, LimitsAssumption DEF SweepNoDelivery, SweepNoRead, Signal, SweepThrows, Resting,
              Dropping, TypeOK, SweepOK, SweepState
      <4>2. CASE \E o \in Openings : ClaimUndelivered(s, o) \/ ClaimUnread(s, o)
        <5>1. sweep'[s].at \in Openings \cup {None} \/ sweep'[s].at = sweep[s].at
          BY <1>0, <4>2 DEF ClaimUndelivered, ClaimUnread, TypeOK, SweepOK, SweepState
        <5> QED
          BY <5>1, LimitsAssumption DEF Dropping
      <4> QED
        BY <2>4, <4>1, <4>2
    <3> QED
      BY <1>1, <2>1, <3>1, <3>2
  <2> QED
    BY <1>3, <2>2, <2>3, <2>4 DEF SweepStep
<1> QED
  BY <1>2, <1>3

\* Only sweeps that overlap signal a second drop in a day.
THEOREM OneDrop == Spec => []DropOnce
<1>1. Init => DropInv
  BY LimitsAssumption DEF Init, DropInv, Dropping, Resting
<1>2. TypeOK /\ DropInv => DropOnce
  BY DEF DropInv, DropOnce, TypeOK, CountsOK
<1> QED
  BY <1>1, <1>2, DropStep, TypeCorrect, PTL DEF Spec
=============================================================================
