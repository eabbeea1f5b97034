---------------------------- MODULE DeliveryWatch ----------------------------
(***************************************************************************)
(* The rows of the openings of one chip after SendPipeline gave them to the *)
(* wire: the receipts that the worker's session turns into writes of its    *)
(* own, and the core's sweep of the messages that were never delivered or   *)
(* read.  Two processes write the same row, and nothing orders them.        *)
(*                                                                          *)
(* The sweep is started by an interval that waits for no earlier one: a     *)
(* member of Sweepers is one call of sweep().                               *)
(***************************************************************************)
EXTENDS Integers, FiniteSets

CONSTANTS
  Openings,
  Sweepers,
  Traffic,    \* the counts sweepReplyDrop may read
  None,
  MaxCopies, MaxReceipts, MaxFaults, MaxUnread  \* bounds

ASSUME TrafficAssumption ==
  Traffic \subseteq [recentOut : Nat, recentIn : Nat, histOut : Nat, histIn : Nat]

ASSUME LimitsAssumption ==
  /\ None \notin Openings \cup {"drop"} /\ "drop" \notin Openings
  /\ MaxCopies \in Nat /\ MaxReceipts \in Nat /\ MaxFaults \in Nat /\ MaxUnread \in Nat

VARIABLES
  copies,             \* per opening: the copies that left; the n-th has the id n
  row,                \* per opening: waMessageId (0 for null), deliveredAt, readAt, failed
  due,                \* per opening: the row is older than DELIVERY_TIMEOUT
  marks,              \* calls of markDelivered and markRead that have yet to write
  sweep,              \* per sweeper: its step, the candidates left, the signal to ingest
  dropSeen,           \* a REPLY_DROP event of the last 24 hours is stored
  undelivered, unread, replyDrops,  \* signals: NO_DELIVERY, NO_READ, REPLY_DROP
  receipts, faults,   \* budgets
  given, lost, overlap  \* history variables: no guard or state write reads them

rowVars    == <<copies, row, due, marks>>
signalVars == <<dropSeen, undelivered, unread, replyDrops>>
pastVars   == <<given, lost, overlap>>
vars == <<rowVars, sweep, signalVars, receipts, faults, pastVars>>

Ids == [of : Openings, n : Nat]
Resting == [step |-> "idle", left |-> {}, at |-> None]

Row == [wa : Nat, delivered : BOOLEAN, read : BOOLEAN, failed : BOOLEAN]

RowOK == /\ copies \in [Openings -> Nat] /\ row \in [Openings -> Row]
         /\ \A o \in Openings : row[o].wa <= copies[o]
         /\ due \in [Openings -> BOOLEAN]
         /\ marks \subseteq [id : Ids, what : {"delivered", "read"}]

\* The signals of rows come first and that of a drop last.
SweepState == {w \in [step : {"idle", "delivery", "read", "reply"}, left : SUBSET Openings,
                      at : Openings \cup {None, "drop"}] :
                 /\ w.at = "drop" => w.step = "reply"
                 /\ w.at \in Openings => w.step \in {"delivery", "read"}}

SweepOK == sweep \in [Sweepers -> SweepState]

CountsOK == /\ undelivered \in [Openings -> Nat] /\ unread \in [Openings -> Nat]
            /\ replyDrops \in Nat /\ dropSeen \in BOOLEAN
            /\ receipts \in Nat /\ faults \in Nat
            /\ given \in [Openings -> SUBSET {3, 4}]
            /\ lost \subseteq Openings /\ overlap \in BOOLEAN

TypeOK == RowOK /\ SweepOK /\ CountsOK

-----------------------------------------------------------------------------
(* The rows were just written and their jobs added.                          *)

Init ==
  /\ copies = [o \in Openings |-> 0]
  /\ row = [o \in Openings |->
             [wa |-> 0, delivered |-> FALSE, read |-> FALSE, failed |-> FALSE]]
  /\ due = [o \in Openings |-> FALSE]
  /\ marks = {}
  /\ sweep = [s \in Sweepers |-> Resting] /\ dropSeen = FALSE
  /\ undelivered = [o \in Openings |-> 0] /\ unread = [o \in Openings |-> 0]
  /\ replyDrops = 0
  /\ receipts = 0 /\ faults = 0
  /\ given = [o \in Openings |-> {}] /\ lost = {} /\ overlap = FALSE

Fault == faults < MaxFaults /\ faults' = faults + 1

-----------------------------------------------------------------------------
(* onOpening(): a copy leaves, and its id is written; another attempt may    *)
(* send another copy before or after that.                                   *)

Leaves(o) ==
  /\ copies[o] < MaxCopies
  /\ copies' = [copies EXCEPT ![o] = @ + 1]
  /\ UNCHANGED <<row, due, marks, sweep, signalVars, receipts, faults, pastVars>>

Linked(o) ==
  /\ copies[o] > 0
  /\ row' = [row EXCEPT ![o].wa = copies[o]]
  /\ UNCHANGED <<copies, due, marks, sweep, signalVars, receipts, faults, pastVars>>

-----------------------------------------------------------------------------
(* messages.update, markDelivered() and markRead().                          *)

\* Status 3 is DELIVERY_ACK, 4 READ.
MarksOf(id, st) == [id : {id}, what : IF st >= 4 THEN {"delivered", "read"} ELSE {"delivered"}]

\* A receipt, maybe repeated or out of order, for any copy.  An event of a socket that is
\* no longer the session's is ignored.
Receipt(o, n, st) ==
  /\ receipts < MaxReceipts /\ receipts' = receipts + 1
  /\ given' = [given EXCEPT ![o] = @ \cup {st}]
  /\ \/ marks' = marks \cup MarksOf([of |-> o, n |-> n], st)
     \/ UNCHANGED marks
  /\ UNCHANGED <<copies, row, due, sweep, signalVars, faults, lost, overlap>>

\* The update of the row that bears the id, if one does: a failure is only logged.
Land(m) ==
  /\ m \in marks /\ marks' = marks \ {m}
  /\ \/ /\ row[m.id.of].wa = m.id.n
        /\ row' = [row EXCEPT ![m.id.of] =
             IF m.what = "read" THEN [@ EXCEPT !.read = TRUE] ELSE [@ EXCEPT !.delivered = TRUE]]
        /\ UNCHANGED faults
     \/ row[m.id.of].wa # m.id.n /\ UNCHANGED <<row, faults>>
     \/ Fault /\ UNCHANGED row
  /\ UNCHANGED <<copies, due, sweep, signalVars, receipts, pastVars>>

\* The worker dies with its calls.
WorkerCrash ==
  /\ marks # {} /\ Fault
  /\ marks' = {}
  /\ UNCHANGED <<copies, row, due, sweep, signalVars, receipts, pastVars>>

GetsOld(o) ==
  /\ ~due[o] /\ due' = [due EXCEPT ![o] = TRUE]
  /\ UNCHANGED <<copies, row, marks, sweep, signalVars, receipts, faults, pastVars>>

-----------------------------------------------------------------------------
(* sweepNoDelivery().                                                        *)

\* [mutant] only rows without an id are candidates
OverdueUnlinked == {o \in Openings : row[o].wa = 0 /\ due[o]}

Overdue == {o \in Openings : /\ ~row[o].failed /\ ~row[o].delivered
                             /\ row[o].wa # 0 /\ due[o]}

SweepNoDelivery(s) ==
  /\ sweep[s].step = "idle"
  /\ sweep' = [sweep EXCEPT ![s] = [step |-> "delivery", left |-> Overdue, at |-> None]]
  /\ UNCHANGED <<rowVars, signalVars, receipts, faults, pastVars>>

Between(s, step) == sweep[s].step = step /\ sweep[s].at = None

\* [mutant] the update of a candidate looks at deliveredAt alone
StillUnmarked(o) == ~row[o].delivered

StillUndelivered(o) == ~row[o].delivered /\ ~row[o].failed

\* The conditional update claims a candidate; the signal comes after it.
ClaimUndelivered(s, o) ==
  /\ Between(s, "delivery") /\ o \in sweep[s].left
  /\ IF StillUndelivered(o)
     THEN /\ row' = [row EXCEPT ![o].failed = TRUE]
          /\ sweep' = [sweep EXCEPT ![s].left = @ \ {o}, ![s].at = o]
     ELSE /\ sweep' = [sweep EXCEPT ![s].left = @ \ {o}]
          /\ UNCHANGED row
  /\ UNCHANGED <<copies, due, marks, signalVars, receipts, faults, pastVars>>

-----------------------------------------------------------------------------
(* sweepNoRead(): READ_TIMEOUT is longer than DELIVERY_TIMEOUT, so any of    *)
(* the overdue rows may be old enough.                                       *)

Unseen == {o \in Openings : ~row[o].failed /\ row[o].delivered /\ ~row[o].read /\ due[o]}

SweepNoRead(s) ==
  /\ Between(s, "delivery") /\ sweep[s].left = {}
  /\ \E old \in SUBSET Unseen :
       sweep' = [sweep EXCEPT ![s] = [step |-> "read", left |-> old, at |-> None]]
  /\ UNCHANGED <<rowVars, signalVars, receipts, faults, pastVars>>

\* The update writes failReason, which nothing reads: the next sweep claims the row again.
ClaimUnread(s, o) ==
  /\ Between(s, "read") /\ o \in sweep[s].left
  /\ sweep' = [sweep EXCEPT ![s].left = @ \ {o},
                            ![s].at = IF ~row[o].read /\ ~row[o].failed THEN o ELSE None]
  /\ UNCHANGED <<rowVars, signalVars, receipts, faults, pastVars>>

\* Nothing reads the number of NO_READ signals: it is counted up to MaxUnread.
Counted(n) == IF n < MaxUnread THEN n + 1 ELSE n

\* ingestSignal() of the row just claimed.
Signal(s) ==
  /\ sweep[s].at \in Openings
  /\ IF sweep[s].step = "delivery"
     THEN undelivered' = [undelivered EXCEPT ![sweep[s].at] = @ + 1] /\ UNCHANGED unread
     ELSE unread' = [unread EXCEPT ![sweep[s].at] = Counted(@)] /\ UNCHANGED undelivered
  /\ sweep' = [sweep EXCEPT ![s].at = None]
  /\ UNCHANGED <<rowVars, replyDrops, dropSeen, receipts, faults, pastVars>>

-----------------------------------------------------------------------------
(* sweepReplyDrop().                                                         *)

\* The rate of replies of the day fell below half of the week's.
RateFell(t) ==
  /\ t.recentOut >= 8 /\ t.histOut >= 10
  /\ 100 * t.histIn >= 5 * t.histOut
  /\ 2 * t.recentIn * t.histOut < t.histIn * t.recentOut

\* [mutant] the events of the day are not looked for
DropAnyway(t) == RateFell(t)

DropDue(t) == RateFell(t) /\ ~dropSeen

SweepReplyDrop(s, t) ==
  /\ Between(s, "read") /\ sweep[s].left = {}
  /\ sweep' = [sweep EXCEPT ![s] = [step |-> "reply", left |-> {},
                                    at |-> IF DropDue(t) THEN "drop" ELSE None]]
  /\ overlap' = (overlap \/ \E r \in Sweepers : sweep[r].at = "drop")
  /\ UNCHANGED <<rowVars, signalVars, receipts, faults, given, lost>>

\* The signal stores its event, and the sweep is over.
SweepEnds(s) ==
  /\ sweep[s].step = "reply"
  /\ IF sweep[s].at = "drop" THEN replyDrops' = replyDrops + 1 /\ dropSeen' = TRUE
     ELSE UNCHANGED <<replyDrops, dropSeen>>
  /\ sweep' = [sweep EXCEPT ![s] = Resting]
  /\ UNCHANGED <<rowVars, undelivered, unread, receipts, faults, pastVars>>

\* An await of the sweep throws, or the core dies: the rest is left to the next sweep,
\* and the signal of a row already claimed is lost.
SweepThrows(s) ==
  /\ sweep[s].step # "idle" /\ Fault
  /\ lost' = IF sweep[s].step = "delivery" THEN lost \cup ({sweep[s].at} \ {None}) ELSE lost
  /\ sweep' = [sweep EXCEPT ![s] = Resting]
  /\ UNCHANGED <<rowVars, signalVars, receipts, given, overlap>>

-----------------------------------------------------------------------------
SweepStep(s) == \/ SweepNoDelivery(s) \/ SweepNoRead(s) \/ Signal(s) \/ SweepEnds(s)
                \/ \E o \in Openings : ClaimUndelivered(s, o) \/ ClaimUnread(s, o)
                \/ \E t \in Traffic : SweepReplyDrop(s, t)

Next ==
  \/ \E o \in Openings : Leaves(o) \/ Linked(o) \/ GetsOld(o)
  \/ \E o \in Openings : \E n \in 1..copies[o], st \in {3, 4} : Receipt(o, n, st)
  \/ \E m \in marks : Land(m)
  \/ WorkerCrash
  \/ \E s \in Sweepers : SweepStep(s) \/ SweepThrows(s)

Spec == Init /\ [][Next]_vars

\* The interval goes on calling sweep() and rows get old; no receipt has to come.
FairSpec ==
  /\ Spec
  /\ \A o \in Openings : WF_vars(GetsOld(o))
  /\ \A s \in Sweepers : WF_vars(SweepStep(s))

-----------------------------------------------------------------------------
(* Properties.                                                               *)

\* deliveredAt and readAt of a row are true: the phone of the lead gave such a receipt
\* for a copy of that opening, whichever copy the row bears.
ReceiptsTrue ==
  \A o \in Openings :
    /\ row[o].delivered => given[o] # {}
    /\ row[o].read => 4 \in given[o]

\* Claimed by a sweeper whose signal is to come.
Claiming(o) == {s \in Sweepers : sweep[s].step = "delivery" /\ sweep[s].at = o}

\* Sweeps that overlap signal NO_DELIVERY once for a message: the update that marks the
\* row is what claims it (delivery-monitor.service.ts:47), and only an exception between
\* the two loses the signal.  A message so marked was not and never will be signalled as
\* not read, even where its receipt came after the mark: it lowers the score under one
\* name.
SignalledOnce ==
  \A o \in Openings :
    /\ undelivered[o] + Cardinality(Claiming(o)) + (IF o \in lost THEN 1 ELSE 0)
         = IF row[o].failed THEN 1 ELSE 0
    /\ row[o].failed => unread[o] = 0

\* A second REPLY_DROP in a day comes only of two sweeps that overlapped.
DropOnce == replyDrops > 1 => overlap

\* An opening that bears an id is delivered or found out in the end.
Watched == \A o \in Openings : row[o].wa # 0 ~> row[o].delivered \/ row[o].failed
=============================================================================
