---------------------------- MODULE SendPipeline ----------------------------
(***************************************************************************)
(* What becomes of a message once it is a job: the OPENINGS and OUTBOUND    *)
(* workers of the supervisor, one job of each at a time, and the send() of  *)
(* the chip's session, whose socket may go at any await.  What happens to   *)
(* the row of an opening once it bears the id of a copy is DeliveryWatch's. *)
(*                                                                          *)
(* The id WhatsApp gives a copy of an opening is its place among the copies *)
(* of openings.  A socket has a number: a new one is another connection.    *)
(***************************************************************************)
EXTENDS Integers, Sequences, FiniteSets

CONSTANTS
  Openings, Replies,
  Parts,      \* the number of balloons of each job
  Attempts,   \* attempts of a job
  None,
  MaxMishaps  \* bound: lost connections, crashes and rejected calls

Jobs == Openings \cup Replies
Queues == {"openings", "outbound"}

ASSUME JobsAssumption ==
  /\ Openings \cap Replies = {} /\ None \notin Jobs
  /\ Parts \in [Jobs -> Nat \ {0}] /\ \A o \in Openings : Parts[o] = 1

ASSUME LimitsAssumption ==
  Attempts \in Nat \ {0} /\ MaxMishaps \in Nat

VARIABLES
  wait, delayed, result, tries,  \* BullMQ: the queues, jobs in backoff, outcome, attempts failed
  work,                          \* per queue: the job in hand, its balloon, socket and step
  online, sock,                  \* the chip has a session and it is CONNECTED; its socket
  sent,                          \* per queue: every copy that left
  wa,                            \* per opening: waMessageId of its row, 0 for null
  blame,                         \* per job: SEND_FAIL signals published
  mishaps,                       \* budget
  stalls                         \* history variable: no guard or state write reads it

queueVars == <<wait, delayed, result, tries>>
linkVars  == <<online, sock>>
vars == <<queueVars, work, linkVars, sent, wa, blame, mishaps, stalls>>

QueueOf(j) == IF j \in Openings THEN "openings" ELSE "outbound"

Copy == [job : Jobs, part : Nat \ {0}, sock : Nat]
Idle == [job |-> None, part |-> 0, sock |-> 0, step |-> "idle"]
Busy == [job : Jobs, part : Nat \ {0}, sock : Nat, step : {"send", "ack", "record", "finish"}]

QueueOK == /\ wait \in [Queues -> Seq(Jobs)] /\ delayed \subseteq Jobs
           /\ \A q \in Queues : \A i \in 1..Len(wait[q]) : QueueOf(wait[q][i]) = q
           /\ result \in [Jobs -> {"none", "queued", "done", "failed"}]
           /\ tries \in [Jobs -> Nat]

WorkOK == /\ work \in [Queues -> Busy \cup {Idle}]
          /\ \A q \in Queues : work[q] # Idle =>
               /\ QueueOf(work[q].job) = q /\ work[q].part <= Parts[work[q].job]
               /\ work[q].step = "record" => q = "openings"

WireOK == /\ online \in BOOLEAN /\ sock \in Nat
          /\ sent \in [Queues -> Seq(Copy)] /\ wa \in [Openings -> Nat]
          /\ blame \in [Jobs -> Nat] /\ stalls \in [Jobs -> Nat]
          /\ mishaps \in Nat

TypeOK == QueueOK /\ WorkOK /\ WireOK

-----------------------------------------------------------------------------
(* A connected session and empty queues.                                     *)

Init ==
  /\ wait = [q \in Queues |-> <<>>] /\ delayed = {}
  /\ result = [j \in Jobs |-> "none"] /\ tries = [j \in Jobs |-> 0]
  /\ work = [q \in Queues |-> Idle]
  /\ online = TRUE /\ sock = 1
  /\ sent = [q \in Queues |-> <<>>] /\ wa = [o \in Openings |-> 0]
  /\ blame = [j \in Jobs |-> 0]
  /\ mishaps = 0
  /\ stalls = [j \in Jobs |-> 0]

Mishap == mishaps < MaxMishaps /\ mishaps' = mishaps + 1

-----------------------------------------------------------------------------
(* The queues: a failed attempt waits its backoff out and goes behind the    *)
(* jobs that are waiting.                                                    *)

Add(j) ==
  /\ result[j] = "none"
  /\ result' = [result EXCEPT ![j] = "queued"]
  /\ wait' = [wait EXCEPT ![QueueOf(j)] = Append(@, j)]
  /\ UNCHANGED <<delayed, tries, work, linkVars, sent, wa, blame, mishaps, stalls>>

Backoff(j) ==
  /\ j \in delayed /\ delayed' = delayed \ {j}
  /\ wait' = [wait EXCEPT ![QueueOf(j)] = Append(@, j)]
  /\ UNCHANGED <<result, tries, work, linkVars, sent, wa, blame, mishaps, stalls>>

\* [mutant] an off-by-one in the attempts
TriesLeftLate(j) == tries[j] < Attempts

TriesLeft(j) == tries[j] + 1 < Attempts

\* The handler of q throws, and n SEND_FAIL signals are published.
Throw(q, j, n) ==
  /\ tries' = [tries EXCEPT ![j] = @ + 1]
  /\ blame' = [blame EXCEPT ![j] = @ + n]
  /\ work' = [work EXCEPT ![q] = Idle]
  /\ IF TriesLeft(j) THEN delayed' = delayed \cup {j} /\ UNCHANGED result
     ELSE result' = [result EXCEPT ![j] = "failed"] /\ UNCHANGED delayed

-----------------------------------------------------------------------------
(* onOpening(), onOutbound() and the send() of the session.                  *)

Alive(q) == online /\ sock = work[q].sock

\* [mutant] onOpening() leaves the signal to send()
CaughtNever(q) == IF q \in Queues THEN 0 ELSE 1

\* onOpening() signals what it catches, whatever send() signalled before.
CaughtBy(q) == IF q = "openings" THEN 1 ELSE 0

\* The copies of a job among those of its queue.
Copies(j) == {i \in DOMAIN sent[QueueOf(j)] : sent[QueueOf(j)][i].job = j}

\* [mutant] a retry goes on after the balloons that left
BegunAfter(j) ==
  LET left == Cardinality({sent[QueueOf(j)][i].part : i \in Copies(j)})
  IN [job |-> j, part |-> IF left < Parts[j] THEN left + 1 ELSE 1, sock |-> sock, step |-> "send"]

\* Every attempt begins with the first balloon.
Begun(j) == [job |-> j, part |-> 1, sock |-> sock, step |-> "send"]

\* A job is taken: with no session, or one that is not CONNECTED, nothing is sent and
\* send() itself signals nothing.
Take(q) ==
  /\ work[q] = Idle /\ wait[q] # <<>>
  /\ wait' = [wait EXCEPT ![q] = Tail(@)]
  /\ IF online
     THEN /\ work' = [work EXCEPT ![q] = Begun(Head(wait[q]))]
          /\ UNCHANGED <<delayed, result, tries, blame>>
     ELSE Throw(q, Head(wait[q]), CaughtBy(q))
  /\ UNCHANGED <<linkVars, sent, wa, mishaps, stalls>>

\* The typing delay is over and sendMessage() puts the balloon on the wire.
Transmit(q) ==
  /\ work[q].step = "send" /\ Alive(q)
  /\ sent' = [sent EXCEPT ![q] = Append(@, [job |-> work[q].job, part |-> work[q].part,
                                            sock |-> work[q].sock])]
  /\ work' = [work EXCEPT ![q].step = "ack"]
  /\ UNCHANGED <<queueVars, linkVars, wa, blame, mishaps, stalls>>

Continue(q) == IF work[q].part < Parts[work[q].job]
               THEN [work[q] EXCEPT !.part = @ + 1, !.step = "send"]
               ELSE [work[q] EXCEPT !.step = IF q = "openings" THEN "record" ELSE "finish"]

\* sendMessage() resolves and the loop goes on, unless the socket changed meanwhile:
\* after the last balloon nobody looks.
Acked(q) ==
  /\ work[q].step = "ack"
  /\ Alive(q) \/ work[q].part = Parts[work[q].job]
  /\ work' = [work EXCEPT ![q] = Continue(q)]
  /\ UNCHANGED <<queueVars, linkVars, sent, wa, blame, mishaps, stalls>>

\* The socket is gone, or sendMessage() rejects: before the copy left or after it.
SendFails(q) ==
  /\ work[q].step \in {"send", "ack"}
  /\ \/ ~Alive(q) /\ UNCHANGED mishaps
     \/ Alive(q) /\ Mishap
  /\ Throw(q, work[q].job, 1 + CaughtBy(q))
  /\ UNCHANGED <<wait, linkVars, sent, wa, stalls>>

\* The id of the last copy is known to the handler alone until it is written.
LastCopy(j) == CHOOSE i \in Copies(j) : \A k \in Copies(j) : k <= i

\* [mutant] the first id is kept
LinkedOnce(o) == wa' = [wa EXCEPT ![o] = IF @ = 0 THEN LastCopy(o) ELSE @]

Linked(o) == wa' = [wa EXCEPT ![o] = LastCopy(o)]

Record(q) ==
  /\ work[q].step = "record"
  /\ Linked(work[q].job)
  /\ work' = [work EXCEPT ![q].step = "finish"]
  /\ UNCHANGED <<queueVars, linkVars, sent, blame, mishaps, stalls>>

\* The write of the id throws, with or without effect: the opening will be sent again.
RecordFails(q) ==
  /\ work[q].step = "record" /\ Mishap
  /\ Linked(work[q].job) \/ UNCHANGED wa
  /\ Throw(q, work[q].job, CaughtBy(q))
  /\ UNCHANGED <<wait, linkVars, sent, stalls>>

Finish(q) ==
  /\ work[q].step = "finish"
  /\ result' = [result EXCEPT ![work[q].job] = "done"]
  /\ work' = [work EXCEPT ![q] = Idle]
  /\ UNCHANGED <<wait, delayed, tries, linkVars, sent, wa, blame, mishaps, stalls>>

-----------------------------------------------------------------------------
(* The session under the handlers, and the worker process.                   *)

Drop ==
  /\ online /\ Mishap /\ online' = FALSE
  /\ UNCHANGED <<queueVars, work, sock, sent, wa, blame, stalls>>

Connect ==
  /\ ~online /\ online' = TRUE /\ sock' = sock + 1
  /\ UNCHANGED <<queueVars, work, sent, wa, blame, mishaps, stalls>>

\* [mutant] a stalled job is taken for done
RequeuedNever(q) == wait[q]

\* BullMQ finds that a job stalled and puts it back, with no attempt counted.
Requeued(q) == IF work[q] = Idle THEN wait[q] ELSE <<work[q].job>> \o wait[q]

Crash ==
  /\ Mishap /\ online' = FALSE
  /\ wait' = [q \in Queues |-> Requeued(q)]
  /\ stalls' = [j \in Jobs |-> IF work[QueueOf(j)].job = j THEN stalls[j] + 1 ELSE stalls[j]]
  /\ work' = [q \in Queues |-> Idle]
  /\ UNCHANGED <<delayed, result, tries, sock, sent, wa, blame>>

-----------------------------------------------------------------------------
QueueStep(q) == \/ Take(q) \/ Transmit(q) \/ Acked(q) \/ SendFails(q)
                \/ Record(q) \/ RecordFails(q) \/ Finish(q)

Next ==
  \/ \E j \in Jobs : Add(j) \/ Backoff(j)
  \/ \E q \in Queues : QueueStep(q)
  \/ Drop \/ Connect \/ Crash

Spec == Init /\ [][Next]_vars

\* BullMQ hands out its jobs and a backoff ends.  Nothing makes the session connect.
FairSpec ==
  /\ Spec
  /\ \A q \in Queues : WF_vars(QueueStep(q))
  /\ \A j \in Jobs : WF_vars(Backoff(j))

-----------------------------------------------------------------------------
(* Properties.                                                               *)

\* A reply that is done went out whole in one attempt: its balloons one after the other,
\* in order, on one socket, whatever was sent before (send(), supervisor.ts:212).
WholeReply ==
  \A r \in Replies : result[r] = "done" =>
    LET out == sent["outbound"]
    IN \E i \in 0..(Len(out) - Parts[r]) : \A k \in 1..Parts[r] :
         out[i + k].job = r /\ out[i + k].part = k /\ out[i + k].sock = out[i + 1].sock

\* However often it fails or stalls, the lead receives no balloon more often than the
\* attempts and the stalls of its job.
CopiesBounded ==
  \A j \in Jobs : \A p \in 1..Parts[j] :
    Cardinality({i \in Copies(j) : sent[QueueOf(j)][i].part = p})
      <= Attempts + stalls[j]

\* The row of an opening bears the id of a copy of that opening, and of its last one once
\* the job is done: another id would give it the receipts of another message.
LinkedToOwn ==
  \A o \in Openings :
    /\ wa[o] # 0 => wa[o] \in Copies(o)
    /\ result[o] = "done" => wa[o] = LastCopy(o)

\* Every failed attempt of an opening lowers the score of its chip, and none more than
\* twice; one of a reply, at most once (supervisor.ts:205, baileys-session.ts:307).
FailureTells ==
  /\ \A o \in Openings : tries[o] <= blame[o] /\ blame[o] <= 2 * tries[o]
  /\ \A r \in Replies : blame[r] <= tries[r]

\* A job is in one place if it is queued, and nowhere else: once among those that wait, in
\* backoff, or in the hands of its worker.  One in two places would be sent by both, one in
\* none never (supervisor.ts:188-217).
Waiting(j) == \E i \in 1..Len(wait[QueueOf(j)]) : wait[QueueOf(j)][i] = j
InHand(j) == work[QueueOf(j)].job = j
OnePlace ==
  /\ \A j \in Jobs :
       /\ result[j] = "queued" <=> Waiting(j) \/ j \in delayed \/ InHand(j)
       /\ ~(Waiting(j) /\ j \in delayed) /\ ~(Waiting(j) /\ InHand(j))
       /\ ~(j \in delayed /\ InHand(j))
  /\ \A q \in Queues : \A i, k \in 1..Len(wait[q]) : wait[q][i] = wait[q][k] => i = k

\* Connected or not, a job that was added is done or failed in the end.
Settles == \A j \in Jobs : result[j] = "queued" ~> result[j] \in {"done", "failed"}
=============================================================================
