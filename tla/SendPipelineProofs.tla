--------------------------- MODULE SendPipelineProofs ---------------------------
(***************************************************************************)
(* Theorems about SendPipeline, for any jobs, numbers of balloons, attempts *)
(* and bounds; and, from OpeningsRotate on, about Wording, for any texts.   *)
(* The two specifications share no variable: one says how a text leaves,    *)
(* the other what is in it.                                                 *)
(***************************************************************************)
EXTENDS SendPipeline, Wording, SequenceTheorems, FiniteSetTheorems, WellFoundedInduction,
        TLAPS

-----------------------------------------------------------------------------
(* Types.                                                                    *)

LEMMA QueueOfType == \A j \in Jobs : QueueOf(j) \in Queues
BY DEF QueueOf, Queues

LEMMA TypeInit == Init => TypeOK
<1> SUFFICES ASSUME Init PROVE TypeOK
  OBVIOUS
<1> USE LimitsAssumption, JobsAssumption DEF Init
<1>1. QueueOK
  BY EmptySeq DEF QueueOK
<1>2. WorkOK
  BY DEF WorkOK
<1>3. WireOK
  BY EmptySeq DEF WireOK
<1> QED
  BY <1>1, <1>2, <1>3 DEF TypeOK

\* A job goes to the end of its queue.
LEMMA AppendType ==
  ASSUME QueueOK, NEW j \in Jobs, wait' = [wait EXCEPT ![QueueOf(j)] = Append(@, j)],
         delayed' \subseteq delayed, tries' = tries,
         result' \in [Jobs -> {"none", "queued", "done", "failed"}]
  PROVE  QueueOK'
<1> DEFINE q == QueueOf(j)
<1>1. q \in Queues
  BY QueueOfType
<1>2. wait[q] \in Seq(Jobs) /\ wait'[q] = Append(wait[q], j)
  BY <1>1 DEF QueueOK
<1>3. /\ wait'[q] \in Seq(Jobs) /\ Len(wait'[q]) = Len(wait[q]) + 1 /\ Len(wait[q]) \in Nat
      /\ \A i \in 1..Len(wait[q]) : wait'[q][i] = wait[q][i]
      /\ wait'[q][Len(wait[q]) + 1] = j
  BY <1>2, AppendProperties, LenProperties
<1>4. \A p \in Queues \ {q} : wait'[p] = wait[p]
  BY DEF QueueOK
<1>5. wait' \in [Queues -> Seq(Jobs)]
  BY <1>1, <1>3 DEF QueueOK
<1>6. \A i \in 1..Len(wait'[q]) : QueueOf(wait'[q][i]) = q
  <2>1. \A i \in 1..Len(wait'[q]) : i \in 1..Len(wait[q]) \/ i = Len(wait[q]) + 1
    BY <1>3
  <2> QED
    BY <2>1, <1>1, <1>3 DEF QueueOK
<1> QED
  BY <1>4, <1>5, <1>6 DEF QueueOK

\* A handler throws: its job fails or waits.
LEMMA ThrowType ==
  ASSUME TypeOK, NEW q \in Queues, NEW j \in Jobs, NEW n \in Nat, Throw(q, j, n)
  PROVE  /\ WorkOK' /\ delayed' \subseteq Jobs /\ tries' \in [Jobs -> Nat] /\ blame' \in [Jobs -> Nat]
         /\ result' \in [Jobs -> {"none", "queued", "done", "failed"}]
<1>1. WorkOK'
  BY DEF TypeOK, WorkOK, Throw
<1>2. tries' \in [Jobs -> Nat] /\ blame' \in [Jobs -> Nat]
  BY DEF TypeOK, QueueOK, WireOK, Throw
<1>3. delayed' \subseteq Jobs /\ result' \in [Jobs -> {"none", "queued", "done", "failed"}]
  BY DEF TypeOK, QueueOK, Throw
<1> QED
  BY <1>1, <1>2, <1>3

\* The head of a queue is one of its jobs, and what is behind it stays.
LEMMA HeadOfQueue ==
  ASSUME QueueOK, NEW q \in Queues, wait[q] # <<>>
  PROVE  /\ Head(wait[q]) \in Jobs /\ Head(wait[q]) = wait[q][1] /\ QueueOf(Head(wait[q])) = q
         /\ Len(wait[q]) \in Nat \ {0} /\ Tail(wait[q]) \in Seq(Jobs)
         /\ Len(Tail(wait[q])) = Len(wait[q]) - 1
         /\ \A i \in 1..Len(wait[q]) - 1 : Tail(wait[q])[i] = wait[q][i + 1]
<1>1. wait[q] \in Seq(Jobs)
  BY DEF QueueOK
<1>2. Len(wait[q]) \in Nat \ {0}
  BY <1>1, EmptySeq
<1>3. Head(wait[q]) = wait[q][1]
  BY <1>1
<1>4. 1 \in 1..Len(wait[q])
  BY <1>2
<1>5. QueueOf(wait[q][1]) = q
  BY <1>4 DEF QueueOK
<1> QED
  BY <1>1, <1>2, <1>3, <1>5, HeadTailProperties

LEMMA TakeType ==
  ASSUME TypeOK, NEW q \in Queues, Take(q) PROVE TypeOK'
<1> DEFINE j == Head(wait[q])
<1>1. wait[q] # <<>> /\ wait' = [wait EXCEPT ![q] = Tail(@)]
  BY DEF Take
<1>2. j \in Jobs /\ QueueOf(j) = q /\ Len(wait[q]) \in Nat \ {0} /\ Tail(wait[q]) \in Seq(Jobs)
      /\ Len(Tail(wait[q])) = Len(wait[q]) - 1
      /\ \A i \in 1..Len(wait[q]) - 1 : Tail(wait[q])[i] = wait[q][i + 1]
  BY <1>1, HeadOfQueue DEF TypeOK
<1>3. wait' \in [Queues -> Seq(Jobs)] /\ \A p \in Queues : \A i \in 1..Len(wait'[p]) : QueueOf(wait'[p][i]) = p
  <2>1. wait' \in [Queues -> Seq(Jobs)]
    BY <1>1, <1>2 DEF TypeOK, QueueOK
  <2>2. ASSUME NEW i \in 1..Len(wait'[q]) PROVE QueueOf(wait'[q][i]) = q
    <3>1. wait'[q] = Tail(wait[q])
      BY <1>1 DEF TypeOK, QueueOK
    <3>2. i \in 1..Len(wait[q]) - 1 /\ i + 1 \in 1..Len(wait[q])
      BY <1>2, <2>2, <3>1
    <3>3. wait'[q][i] = wait[q][i + 1]
      BY <1>2, <3>1, <3>2
    <3> QED
      BY <3>2, <3>3 DEF TypeOK, QueueOK
  <2>3. \A p \in Queues \ {q} : wait'[p] = wait[p]
    BY <1>1 DEF TypeOK, QueueOK
  <2> QED
    BY <2>1, <2>2, <2>3 DEF TypeOK, QueueOK
<1>4. UNCHANGED <<linkVars, sent, wa, mishaps, stalls>>
  BY DEF Take
<1> HIDE DEF j
<1>5. CASE online
  <2>1. work' = [work EXCEPT ![q] = Begun(j)] /\ UNCHANGED <<delayed, result, tries, blame>>
    BY <1>5 DEF Take, j
  <2>2. Begun(j) \in Busy /\ QueueOf(Begun(j).job) = q /\ Begun(j).part <= Parts[Begun(j).job] /\ Begun(j).step = "send"
    BY <1>2, JobsAssumption DEF Begun, Busy, TypeOK, WireOK
  <2>3. WorkOK'
    BY <2>1, <2>2 DEF TypeOK, WorkOK
  <2> QED
    BY <1>3, <1>4, <2>1, <2>3 DEF TypeOK, QueueOK, WireOK, linkVars
<1>6. CASE ~online
  <2>1. Throw(q, j, CaughtBy(q)) /\ CaughtBy(q) \in Nat
    BY <1>6 DEF Take, CaughtBy, j
  <2> QED
    BY <1>2, <1>3, <1>4, <2>1, ThrowType DEF TypeOK, QueueOK, WireOK, linkVars
<1> QED
  BY <1>5, <1>6

\* What a handler has in hand.
LEMMA HandType ==
  ASSUME TypeOK, NEW q \in Queues, work[q].step # "idle"
  PROVE  /\ work[q] \in Busy /\ work[q] # Idle /\ work[q].job \in Jobs /\ QueueOf(work[q].job) = q
         /\ work[q].part \in Nat \ {0} /\ work[q].part <= Parts[work[q].job]
BY DEF TypeOK, WorkOK, Idle, Busy

\* Once a copy has left, the last copy of a queue is that of its job in hand: nothing else
\* puts copies on the wire.
HandInv ==
  \A q \in Queues : work[q].step \in {"ack", "record", "finish"} =>
    /\ Len(sent[q]) # 0
    /\ sent[q][Len(sent[q])].job = work[q].job /\ sent[q][Len(sent[q])].part = work[q].part

LEMMA LastCopyIs ==
  ASSUME TypeOK, NEW j \in Jobs, Len(sent[QueueOf(j)]) # 0,
         sent[QueueOf(j)][Len(sent[QueueOf(j)])].job = j
  PROVE  /\ LastCopy(j) = Len(sent[QueueOf(j)])
         /\ LastCopy(j) \in Copies(j) /\ LastCopy(j) \in Nat \ {0}
<1> DEFINE out == sent[QueueOf(j)]
<1>1. out \in Seq(Copy)
  BY QueueOfType DEF TypeOK, WireOK
<1>2. Len(out) \in Nat /\ DOMAIN out = 1..Len(out)
  BY <1>1, LenProperties
<1>3. Len(out) \in Copies(j) /\ \A i \in Copies(j) : i \in Nat /\ i <= Len(out)
  BY <1>2 DEF Copies
<1>4. LastCopy(j) \in Copies(j) /\ \A i \in Copies(j) : i <= LastCopy(j)
  BY <1>3 DEF LastCopy
<1> QED
  BY <1>2, <1>3, <1>4

LEMMA QueueStepType ==
  ASSUME TypeOK, HandInv, NEW q \in Queues, QueueStep(q) PROVE TypeOK'
<1> DEFINE j == work[q].job
<1>1. CASE Take(q)
  BY <1>1, TakeType
<1>2. CASE Transmit(q)
  <2>1. work[q].step = "send"
    BY <1>2 DEF Transmit
  <2>2. /\ work[q] \in Busy /\ work[q] # Idle /\ j \in Jobs /\ QueueOf(j) = q
        /\ work[q].part \in Nat \ {0} /\ work[q].part <= Parts[j]
    BY <2>1, HandType
  <2>3. WorkOK'
    BY <1>2, <2>2 DEF Transmit, TypeOK, WorkOK, Busy
  <2>4. [job |-> j, part |-> work[q].part, sock |-> work[q].sock] \in Copy
    BY <2>2 DEF Copy, Busy
  <2>5. sent' \in [Queues -> Seq(Copy)]
    BY <1>2, <2>4, AppendProperties DEF Transmit, TypeOK, WireOK
  <2> QED
    BY <1>2, <2>3, <2>5 DEF Transmit, TypeOK, QueueOK, WireOK, queueVars, linkVars
<1>3. CASE Acked(q)
  <2>1. work[q].step = "ack"
    BY <1>3 DEF Acked
  <2>2. /\ work[q] \in Busy /\ work[q] # Idle /\ j \in Jobs /\ QueueOf(j) = q
        /\ work[q].part \in Nat \ {0} /\ work[q].part <= Parts[j]
    BY <2>1, HandType
  <2>3. /\ Continue(q) \in Busy /\ Continue(q).job = j /\ Continue(q).part <= Parts[j]
        /\ Continue(q).step = "record" => q = "openings"
    <3>1. work[q].part < Parts[j] => work[q].part + 1 \in Nat \ {0} /\ work[q].part + 1 <= Parts[j]
      BY <2>2, JobsAssumption
    <3>2. CASE work[q].part < Parts[j]
      BY <2>2, <3>1, <3>2 DEF Continue, Busy
    <3>3. CASE ~(work[q].part < Parts[j]) /\ q = "openings"
      BY <2>2, <3>3 DEF Continue, Busy
    <3>4. CASE ~(work[q].part < Parts[j]) /\ q # "openings"
      BY <2>2, <3>4 DEF Continue, Busy
    <3> QED
      BY <3>2, <3>3, <3>4
  <2>4. WorkOK'
    BY <1>3, <2>2, <2>3 DEF Acked, TypeOK, WorkOK
  <2> QED
    BY <1>3, <2>4 DEF Acked, TypeOK, QueueOK, WireOK, queueVars, linkVars
<1>4. CASE SendFails(q)
  <2>1. Throw(q, j, 1 + CaughtBy(q)) /\ 1 + CaughtBy(q) \in Nat /\ work[q].step # "idle"
    BY <1>4 DEF SendFails, CaughtBy
  <2>2. mishaps' \in Nat
    BY <1>4 DEF SendFails, Mishap, TypeOK, WireOK
  <2> QED
    BY <1>4, <2>1, <2>2, HandType, ThrowType DEF SendFails, TypeOK, QueueOK, WireOK, linkVars
<1>5. CASE Record(q) \/ RecordFails(q)
  <2>1. work[q].step = "record" /\ work[q].step # "idle"
    BY <1>5 DEF Record, RecordFails
  <2>2. work[q] \in Busy /\ work[q] # Idle /\ j \in Jobs /\ QueueOf(j) = q /\ q = "openings"
    BY <2>1, HandType DEF TypeOK, WorkOK
  <2>3. j \in Openings
    BY <2>2 DEF QueueOf
  <2>4. LastCopy(j) \in Nat
    BY <2>1, <2>2, LastCopyIs DEF HandInv
  <2>5. Linked(j) \/ UNCHANGED wa => wa' \in [Openings -> Nat]
    BY <2>3, <2>4 DEF Linked, TypeOK, WireOK
  <2> HIDE DEF j
  <2>6. CASE Record(q)
    <3>1. Linked(j) /\ work' = [work EXCEPT ![q].step = "finish"]
      BY <2>6 DEF Record, j
    <3>2. WorkOK'
      BY <2>2, <3>1 DEF TypeOK, WorkOK, Busy, j
    <3> QED
      BY <2>5, <2>6, <3>1, <3>2 DEF Record, TypeOK, QueueOK, WireOK, queueVars, linkVars
  <2>7. CASE RecordFails(q)
    <3>1. Throw(q, j, CaughtBy(q)) /\ CaughtBy(q) \in Nat /\ (Linked(j) \/ UNCHANGED wa)
      BY <2>7 DEF RecordFails, CaughtBy, j
    <3>2. mishaps' \in Nat
      BY <2>7 DEF RecordFails, Mishap, TypeOK, WireOK
    <3> QED
      BY <2>2, <2>5, <2>7, <3>1, <3>2, ThrowType DEF RecordFails, TypeOK, QueueOK, WireOK, linkVars
  <2> QED
    BY <1>5, <2>6, <2>7
<1>6. CASE Finish(q)
  <2>1. work[q].step # "idle"
    BY <1>6 DEF Finish
  <2>2. j \in Jobs
    BY <2>1, HandType
  <2> QED
    BY <1>6, <2>2 DEF Finish, TypeOK, QueueOK, WorkOK, WireOK, linkVars, Idle
<1> QED
  BY <1>1, <1>2, <1>3, <1>4, <1>5, <1>6 DEF QueueStep
\* A stalled job goes in front of its queue.
LEMMA RequeuedIs ==
  ASSUME TypeOK, NEW q \in Queues, work[q] # Idle
  PROVE  /\ Requeued(q) \in Seq(Jobs) /\ Len(wait[q]) \in Nat
         /\ Len(Requeued(q)) = Len(wait[q]) + 1 /\ Requeued(q)[1] = work[q].job
         /\ \A i \in 1..Len(wait[q]) : Requeued(q)[i + 1] = wait[q][i]
<1> DEFINE j == work[q].job
<1>1. wait[q] \in Seq(Jobs) /\ Len(wait[q]) \in Nat
  BY LenProperties DEF TypeOK, QueueOK
<1>2. j \in Jobs
  BY DEF TypeOK, WorkOK, Busy
<1>3. Requeued(q) = <<j>> \o wait[q] /\ <<j>> \in Seq(Jobs) /\ Len(<<j>>) = 1 /\ <<j>>[1] = j
  BY <1>2 DEF Requeued
<1> HIDE DEF j
<1>4. /\ Requeued(q) \in Seq(Jobs) /\ Len(Requeued(q)) = Len(wait[q]) + 1
      /\ \A i \in 1..Len(wait[q]) + 1 : Requeued(q)[i] = IF i <= 1 THEN j ELSE wait[q][i - 1]
  BY <1>1, <1>2, <1>3, ConcatProperties, Z3
<1>5. Requeued(q)[1] = j
  BY <1>1, <1>4
<1>6. ASSUME NEW i \in 1..Len(wait[q]) PROVE Requeued(q)[i + 1] = wait[q][i]
  <2>1. i + 1 \in 1..Len(wait[q]) + 1 /\ ~(i + 1 <= 1) /\ (i + 1) - 1 = i
    BY <1>1
  <2> QED
    BY <1>4, <2>1
<1> QED
  BY <1>1, <1>4, <1>5, <1>6 DEF j

LEMMA CrashType ==
  ASSUME TypeOK, Crash PROVE TypeOK'
<1>1. ASSUME NEW q \in Queues PROVE Requeued(q) \in Seq(Jobs) /\ \A i \in 1..Len(Requeued(q)) : QueueOf(Requeued(q)[i]) = q
  <2>1. CASE work[q] = Idle
    BY <2>1 DEF Requeued, TypeOK, QueueOK
  <2>2. CASE work[q] # Idle
    <3>1. QueueOf(work[q].job) = q
      BY <2>2 DEF TypeOK, WorkOK
    <3>2. ASSUME NEW i \in 1..Len(Requeued(q)) PROVE QueueOf(Requeued(q)[i]) = q
      <4>1. i = 1 \/ (i - 1 \in 1..Len(wait[q]) /\ (i - 1) + 1 = i)
        BY <2>2, <3>2, RequeuedIs
      <4>2. \A k \in 1..Len(wait[q]) : QueueOf(wait[q][k]) = q
        BY DEF TypeOK, QueueOK
      <4>3. CASE i = 1
        BY <2>2, <3>1, <4>3, RequeuedIs
      <4>4. CASE i - 1 \in 1..Len(wait[q]) /\ (i - 1) + 1 = i
        <5>1. Requeued(q)[(i - 1) + 1] = wait[q][i - 1]
          BY <2>2, <4>4, RequeuedIs
        <5> QED
          BY <4>2, <4>4, <5>1
      <4> QED
        BY <4>1, <4>3, <4>4
    <3> QED
      BY <2>2, <3>2, RequeuedIs
  <2> QED
    BY <2>1, <2>2
<1>2. wait' = [q \in Queues |-> Requeued(q)] /\ UNCHANGED <<delayed, result, tries>>
  BY DEF Crash
<1>3. QueueOK'
  BY <1>1, <1>2 DEF TypeOK, QueueOK
<1>4. WorkOK'
  BY DEF Crash, TypeOK, WorkOK
<1>5. WireOK'
  <2>1. online' = FALSE /\ mishaps' \in Nat /\ UNCHANGED <<sock, sent, wa, blame>>
    BY DEF Crash, Mishap, TypeOK, WireOK
  <2>2. stalls' \in [Jobs -> Nat]
    BY DEF Crash, TypeOK, WireOK
  <2> QED
    BY <2>1, <2>2 DEF TypeOK, WireOK
<1> QED
  BY <1>3, <1>4, <1>5 DEF TypeOK

LEMMA TypeStep == TypeOK /\ HandInv /\ [Next]_vars => TypeOK'
<1> SUFFICES ASSUME TypeOK, HandInv, [Next]_vars PROVE TypeOK'
  OBVIOUS
<1>1. ASSUME NEW j \in Jobs, Add(j) \/ Backoff(j) PROVE TypeOK'
  <2>1. /\ wait' = [wait EXCEPT ![QueueOf(j)] = Append(@, j)] /\ delayed' \subseteq delayed
        /\ tries' = tries /\ UNCHANGED <<work, linkVars, sent, wa, blame, mishaps, stalls>>
    BY <1>1 DEF Add, Backoff
  <2>2. result' \in [Jobs -> {"none", "queued", "done", "failed"}]
    BY <1>1 DEF Add, Backoff, TypeOK, QueueOK
  <2> QED
    BY <2>1, <2>2, AppendType DEF TypeOK, WorkOK, WireOK, linkVars
<1>2. ASSUME NEW q \in Queues, QueueStep(q) PROVE TypeOK'
  BY <1>2, QueueStepType
<1>3. CASE Drop \/ Connect
  <2>1. UNCHANGED <<wait, delayed, result, tries, work, sent, wa, blame, stalls>>
    BY <1>3 DEF Drop, Connect, queueVars
  <2>2. online' \in BOOLEAN /\ sock' \in Nat /\ mishaps' \in Nat
    <3>1. CASE Drop
      <4>1. online' = FALSE /\ sock' = sock
        BY <3>1 DEF Drop
      <4>2. mishaps' \in Nat
        BY <3>1 DEF Drop, Mishap, TypeOK, WireOK
      <4> QED
        BY <4>1, <4>2 DEF TypeOK, WireOK
    <3>2. CASE Connect
      BY <3>2 DEF Connect, TypeOK, WireOK
    <3> QED
      BY <1>3, <3>1, <3>2
  <2> QED
    BY <2>1, <2>2 DEF TypeOK, QueueOK, WorkOK, WireOK
<1>4. CASE Crash
  BY <1>4, CrashType
<1>5. CASE UNCHANGED vars
  BY <1>5 DEF vars, queueVars, linkVars, TypeOK, QueueOK, WorkOK, WireOK
<1> QED
  BY <1>1, <1>2, <1>3, <1>4, <1>5 DEF Next

\* How the wire and the hands move, whatever else does.
LEMMA HandStep == TypeOK /\ HandInv /\ [Next]_vars => HandInv'
<1> SUFFICES ASSUME TypeOK, HandInv, [Next]_vars PROVE HandInv'
  OBVIOUS
<1>1. CASE UNCHANGED <<work, sent>>
  BY <1>1 DEF HandInv
<1>2. ASSUME NEW q \in Queues, QueueStep(q), ~Transmit(q) PROVE HandInv'
  <2>1. sent' = sent
    BY <1>2 DEF QueueStep, Take, Acked, SendFails, Record, RecordFails, Finish
  <2>2. \A p \in Queues \ {q} : work'[p] = work[p]
    BY <1>2 DEF TypeOK, WorkOK, QueueStep, Take, Acked, SendFails, Record, RecordFails, Finish, Throw
  <2>3. \/ work'[q].step \notin {"ack", "record", "finish"}
        \/ /\ work[q].step \in {"ack", "record", "finish"}
           /\ work'[q].job = work[q].job /\ work'[q].part = work[q].part
    <3>1. CASE Take(q) \/ SendFails(q) \/ RecordFails(q) \/ Finish(q)
      BY <3>1 DEF TypeOK, WorkOK, Take, SendFails, RecordFails, Finish, Throw, Idle, Begun
    <3>2. CASE Record(q)
      BY <3>2 DEF TypeOK, WorkOK, Record
    <3>3. CASE Acked(q)
      <4>1. work[q].step = "ack" /\ work'[q] = Continue(q)
        BY <3>3 DEF Acked, TypeOK, WorkOK
      <4>2. work[q] \in Busy
        BY <4>1, HandType
      <4> QED
        BY <4>1, <4>2 DEF Continue, Busy
    <3> QED
      BY <1>2, <3>1, <3>2, <3>3 DEF QueueStep
  <2> QED
    BY <2>1, <2>2, <2>3 DEF HandInv
<1>3. ASSUME NEW q \in Queues, Transmit(q) PROVE HandInv'
  <2> DEFINE c == [job |-> work[q].job, part |-> work[q].part, sock |-> work[q].sock]
  <2>1. work[q] \in Busy /\ c \in Copy
    BY <1>3, HandType DEF Transmit, Busy, Copy
  <2>2. sent[q] \in Seq(Copy) /\ sent'[q] = Append(sent[q], c) /\ \A p \in Queues \ {q} : sent'[p] = sent[p] /\ work'[p] = work[p]
    BY <1>3 DEF Transmit, TypeOK, WireOK, WorkOK
  <2>3. Len(sent[q]) \in Nat /\ Len(sent'[q]) = Len(sent[q]) + 1 /\ sent'[q][Len(sent[q]) + 1] = c
    BY <2>1, <2>2, AppendProperties, LenProperties
  <2>4. work'[q] = [work[q] EXCEPT !.step = "ack"]
    BY <1>3 DEF Transmit, TypeOK, WorkOK
  <2>5. work'[q].job = c.job /\ work'[q].part = c.part
    BY <2>1, <2>4 DEF Busy
  <2> QED
    BY <2>2, <2>3, <2>5 DEF HandInv
<1>4. CASE Crash
  BY <1>4 DEF Crash, HandInv, Idle
<1>5. ASSUME NEW j \in Jobs, Add(j) \/ Backoff(j) PROVE UNCHANGED <<work, sent>>
  BY <1>5 DEF Add, Backoff
<1>6. Drop \/ Connect \/ UNCHANGED vars => UNCHANGED <<work, sent>>
  BY DEF Drop, Connect, vars
<1> QED
  BY <1>1, <1>2, <1>3, <1>4, <1>5, <1>6 DEF Next

\* The types of the queues, the hands and the wire (supervisor.ts:188-217).
LEMMA HandHolds == Spec => [](TypeOK /\ HandInv)
<1>1. Init => HandInv
  BY DEF Init, HandInv, Idle
<1> QED
  BY <1>1, TypeInit, TypeStep, HandStep, PTL DEF Spec

THEOREM TypeCorrect == Spec => []TypeOK
BY HandHolds, PTL
-----------------------------------------------------------------------------
(* A job is in one place.                                                    *)

LEMMA AppendPlace ==
  ASSUME TypeOK, OnePlace, NEW j \in Jobs, ~Waiting(j),
         wait' = [wait EXCEPT ![QueueOf(j)] = Append(@, j)]
  PROVE  /\ \A k \in Jobs : Waiting(k)' <=> Waiting(k) \/ k = j
         /\ \A q \in Queues : \A i, k \in 1..Len(wait'[q]) : wait'[q][i] = wait'[q][k] => i = k
<1> DEFINE q == QueueOf(j)
           n == Len(wait[q])
<1>1. q \in Queues /\ wait[q] \in Seq(Jobs) /\ wait'[q] = Append(wait[q], j)
  BY QueueOfType DEF TypeOK, QueueOK
<1>2. /\ n \in Nat /\ Len(wait'[q]) = n + 1 /\ wait'[q][n + 1] = j
      /\ \A i \in 1..n : wait'[q][i] = wait[q][i]
  BY <1>1, AppendProperties, LenProperties
<1>3. \A p \in Queues \ {q} : wait'[p] = wait[p]
  BY DEF TypeOK, QueueOK
<1>4. \A i \in 1..n + 1 : i \in 1..n \/ i = n + 1
  BY <1>2
<1>5. \A i \in 1..n : wait[q][i] # j /\ i \in 1..n + 1
  BY <1>2 DEF Waiting
<1>6. n + 1 \in 1..n + 1
  BY <1>2
<1> HIDE DEF n
<1>7. ASSUME NEW k \in Jobs PROVE Waiting(k)' <=> Waiting(k) \/ k = j
  <2>1. CASE QueueOf(k) # q
    BY <1>1, <1>3, <2>1, QueueOfType DEF Waiting
  <2>2. CASE QueueOf(k) = q
    <3>1. Waiting(k)' <=> \E i \in 1..n + 1 : wait'[q][i] = k
      BY <1>2, <2>2 DEF Waiting
    <3>2. Waiting(k) <=> \E i \in 1..n : wait[q][i] = k
      BY <2>2 DEF Waiting, n
    <3> QED
      BY <1>2, <1>4, <1>5, <1>6, <3>1, <3>2
  <2> QED
    BY <2>1, <2>2
<1>8. \A i, k \in 1..n : wait[q][i] = wait[q][k] => i = k
  BY <1>1 DEF OnePlace, n
<1>9. \A i, k \in 1..Len(wait'[q]) : wait'[q][i] = wait'[q][k] => i = k
  BY <1>2, <1>4, <1>5, <1>8
<1> QED
  BY <1>3, <1>7, <1>9 DEF OnePlace

LEMMA TakePlace ==
  ASSUME TypeOK, OnePlace, NEW q \in Queues, wait[q] # <<>>,
         wait' = [wait EXCEPT ![q] = Tail(@)]
  PROVE  /\ Waiting(Head(wait[q])) /\ Head(wait[q]) \in Jobs /\ QueueOf(Head(wait[q])) = q
         /\ \A k \in Jobs : Waiting(k)' <=> Waiting(k) /\ k # Head(wait[q])
         /\ \A p \in Queues : \A i, k \in 1..Len(wait'[p]) : wait'[p][i] = wait'[p][k] => i = k
<1> DEFINE j == Head(wait[q])
           n == Len(wait[q])
<1>1. /\ j \in Jobs /\ j = wait[q][1] /\ QueueOf(j) = q
      /\ n \in Nat \ {0} /\ Len(Tail(wait[q])) = n - 1
      /\ \A i \in 1..n - 1 : Tail(wait[q])[i] = wait[q][i + 1]
  BY HeadOfQueue DEF TypeOK
<1>2. wait'[q] = Tail(wait[q]) /\ \A p \in Queues \ {q} : wait'[p] = wait[p]
  BY DEF TypeOK, QueueOK
<1>0. Len(wait'[q]) = n - 1 /\ \A i \in 1..n - 1 : wait'[q][i] = wait[q][i + 1]
  BY <1>1, <1>2
<1>3. \A i, k \in 1..n : wait[q][i] = wait[q][k] => i = k
  BY DEF OnePlace
<1>4. 1 \in 1..n
  BY <1>1
<1>5. Waiting(j)
  BY <1>1, <1>4 DEF Waiting
<1>6. \A i \in 1..n - 1 : i + 1 \in 1..n /\ i + 1 # 1
  BY <1>1
<1>7. \A i \in 1..n : i = 1 \/ (i - 1 \in 1..n - 1 /\ (i - 1) + 1 = i)
  BY <1>1
<1> HIDE DEF j, n
<1>8. ASSUME NEW k \in Jobs PROVE Waiting(k)' <=> Waiting(k) /\ k # j
  <2>1. CASE QueueOf(k) # q
    BY <1>1, <1>2, <2>1, QueueOfType DEF Waiting
  <2>2. CASE QueueOf(k) = q
    <3>1. Waiting(k)' <=> \E i \in 1..n - 1 : wait[q][i + 1] = k
      BY <1>0, <2>2 DEF Waiting
    <3>2. Waiting(k) <=> \E i \in 1..n : wait[q][i] = k
      BY <2>2 DEF Waiting, n
    <3>3. Waiting(k)' => Waiting(k) /\ k # j
      BY <1>1, <1>3, <1>4, <1>6, <3>1, <3>2
    <3>4. Waiting(k) /\ k # j => Waiting(k)'
      <4> SUFFICES ASSUME Waiting(k), k # j PROVE Waiting(k)'
        OBVIOUS
      <4>1. PICK i \in 1..n : wait[q][i] = k
        BY <3>2
      <4>2. i - 1 \in 1..n - 1 /\ (i - 1) + 1 = i
        BY <1>1, <1>7, <4>1
      <4> QED
        BY <3>1, <4>1, <4>2
    <3> QED
      BY <3>3, <3>4
  <2> QED
    BY <2>1, <2>2
<1>9. ASSUME NEW i \in 1..n - 1, NEW k \in 1..n - 1, wait[q][i + 1] = wait[q][k + 1] PROVE i = k
  <2>1. i + 1 \in 1..n /\ k + 1 \in 1..n
    BY <1>6
  <2>2. i + 1 = k + 1
    BY <1>3, <1>9, <2>1
  <2> QED
    BY <1>1, <2>2
<1>10. ASSUME NEW i \in 1..Len(wait'[q]), NEW k \in 1..Len(wait'[q]), wait'[q][i] = wait'[q][k]
       PROVE  i = k
  <2>1. i \in 1..n - 1 /\ k \in 1..n - 1
    BY <1>0
  <2>2. wait[q][i + 1] = wait[q][k + 1]
    BY <1>0, <1>10, <2>1
  <2> QED
    BY <1>9, <2>1, <2>2
<1> QED
  BY <1>1, <1>2, <1>5, <1>8, <1>10 DEF OnePlace, j

LEMMA CrashPlace ==
  ASSUME TypeOK, OnePlace, Crash PROVE OnePlace'
<1>1. ASSUME NEW j \in Jobs PROVE Waiting(j)' <=> Waiting(j) \/ InHand(j)
  <2> DEFINE q == QueueOf(j)
  <2>1. q \in Queues /\ wait'[q] = Requeued(q)
    BY QueueOfType DEF Crash
  <2>2. CASE work[q] = Idle
    BY <2>1, <2>2, JobsAssumption DEF Requeued, Waiting, InHand, Idle
  <2>3. CASE work[q] # Idle
    <3> DEFINE n == Len(wait[q])
    <3>1. /\ n \in Nat /\ Len(wait'[q]) = n + 1 /\ wait'[q][1] = work[q].job
          /\ \A i \in 1..n : wait'[q][i + 1] = wait[q][i]
      BY <2>1, <2>3, RequeuedIs
    <3>2. \A i \in 1..n + 1 : i = 1 \/ (i - 1 \in 1..n /\ (i - 1) + 1 = i)
      BY <3>1
    <3>3. \A i \in 1..n : i + 1 \in 1..n + 1
      BY <3>1
    <3>4. 1 \in 1..n + 1
      BY <3>1
    <3>5. Waiting(j) <=> \E i \in 1..n : wait[q][i] = j
      BY DEF Waiting
    <3>6. Waiting(j)' <=> \E i \in 1..n + 1 : wait'[q][i] = j
      BY <3>1 DEF Waiting
    <3> HIDE DEF n
    <3>7. Waiting(j)' => Waiting(j) \/ InHand(j)
      BY <3>1, <3>2, <3>5, <3>6 DEF InHand
    <3>8. Waiting(j) \/ InHand(j) => Waiting(j)'
      BY <3>1, <3>3, <3>4, <3>5, <3>6 DEF InHand
    <3> QED
      BY <3>7, <3>8
  <2> QED
    BY <2>2, <2>3
<1>2. ASSUME NEW j \in Jobs PROVE ~InHand(j)'
  BY QueueOfType, JobsAssumption DEF Crash, InHand, Idle
<1>3. ASSUME NEW q \in Queues, NEW i \in 1..Len(wait'[q]), NEW k \in 1..Len(wait'[q]), wait'[q][i] = wait'[q][k]
      PROVE i = k
  <2>1. wait'[q] = Requeued(q)
    BY DEF Crash
  <2>2. CASE work[q] = Idle
    BY <1>3, <2>1, <2>2 DEF Requeued, OnePlace
  <2>3. CASE work[q] # Idle
    <3> DEFINE n == Len(wait[q])
               j == work[q].job
    <3>1. /\ n \in Nat /\ Len(wait'[q]) = n + 1 /\ wait'[q][1] = j
          /\ \A m \in 1..n : wait'[q][m + 1] = wait[q][m]
      BY <2>1, <2>3, RequeuedIs
    <3>2. j \in Jobs /\ QueueOf(j) = q /\ InHand(j)
      BY <2>3 DEF TypeOK, WorkOK, Busy, InHand
    <3>3. \A m \in 1..n : wait[q][m] # j
      BY <3>2 DEF OnePlace, Waiting
    <3>4. \A m \in 1..n + 1 : m = 1 \/ (m - 1 \in 1..n /\ (m - 1) + 1 = m)
      BY <3>1
    <3>5. \A m, p \in 1..n : wait[q][m] = wait[q][p] => m = p
      BY DEF OnePlace
    <3>9. i \in 1..n + 1 /\ k \in 1..n + 1
      BY <3>1
    <3>10. \A m \in 1..n + 1 : m # 1 => m - 1 \in 1..n /\ wait'[q][m] = wait[q][m - 1]
      <4> SUFFICES ASSUME NEW m \in 1..n + 1, m # 1
                   PROVE  m - 1 \in 1..n /\ wait'[q][m] = wait[q][m - 1]
        OBVIOUS
      <4>1. m - 1 \in 1..n /\ (m - 1) + 1 = m
        BY <3>4
      <4>2. wait'[q][(m - 1) + 1] = wait[q][m - 1]
        BY <3>1, <4>1
      <4> QED
        BY <4>1, <4>2
    <3> HIDE DEF n, j
    <3>6. CASE i = 1
      BY <1>3, <3>1, <3>3, <3>6, <3>9, <3>10
    <3>7. CASE k = 1
      BY <1>3, <3>1, <3>3, <3>7, <3>9, <3>10
    <3>8. CASE i # 1 /\ k # 1
      <4>1. i - 1 = k - 1
        BY <1>3, <3>5, <3>8, <3>9, <3>10
      <4> QED
        BY <3>1, <3>9, <4>1
    <3> QED
      BY <3>6, <3>7, <3>8
  <2> QED
    BY <2>2, <2>3
<1>4. delayed' = delayed /\ result' = result
  BY DEF Crash
<1> QED
  BY <1>1, <1>2, <1>3, <1>4 DEF OnePlace

\* The handler of q lets go of the job in its hand: to the backoff, or for good.
LEMMA LetGoPlace ==
  ASSUME TypeOK, OnePlace, NEW q \in Queues, work[q] # Idle, wait' = wait,
         work' = [work EXCEPT ![q] = Idle],
         \/ delayed' = delayed \cup {work[q].job} /\ result' = result
         \/ /\ delayed' = delayed
            /\ \E r \in {"failed", "done"} : result' = [result EXCEPT ![work[q].job] = r]
  PROVE  OnePlace'
<1> DEFINE j == work[q].job
<1>1. j \in Jobs /\ QueueOf(j) = q /\ InHand(j)
  BY DEF TypeOK, WorkOK, Busy, InHand
<1>2. ~Waiting(j) /\ j \notin delayed /\ result[j] = "queued"
  BY <1>1 DEF OnePlace
<1>3. \A k \in Jobs : Waiting(k)' <=> Waiting(k)
  BY DEF Waiting
<1>4. \A k \in Jobs : InHand(k)' <=> InHand(k) /\ k # j
  <2> SUFFICES ASSUME NEW k \in Jobs PROVE InHand(k)' <=> InHand(k) /\ k # j
    OBVIOUS
  <2>1. CASE QueueOf(k) = q
    BY <2>1, JobsAssumption DEF InHand, TypeOK, WorkOK, Idle
  <2>2. CASE QueueOf(k) # q
    BY <1>1, <2>2, QueueOfType DEF InHand, TypeOK, WorkOK
  <2> QED
    BY <2>1, <2>2
<1> HIDE DEF j
<1>5. \/ delayed' = delayed \cup {j} /\ result' = result
      \/ delayed' = delayed /\ result'[j] # "queued" /\ \A k \in Jobs \ {j} : result'[k] = result[k]
  BY <1>1 DEF TypeOK, QueueOK, j
<1>6. \A k \in Jobs : /\ result'[k] = "queued" <=> Waiting(k)' \/ k \in delayed' \/ InHand(k)'
                     /\ ~(Waiting(k)' /\ k \in delayed') /\ ~(Waiting(k)' /\ InHand(k)')
                     /\ ~(k \in delayed' /\ InHand(k)')
  BY <1>1, <1>2, <1>3, <1>4, <1>5 DEF OnePlace
<1> QED
  BY <1>6 DEF OnePlace

LEMMA PlaceStep == TypeOK /\ OnePlace /\ [Next]_vars => OnePlace'
<1> SUFFICES ASSUME TypeOK, OnePlace, [Next]_vars PROVE OnePlace'
  OBVIOUS
<1>1. ASSUME NEW j \in Jobs, Add(j) \/ Backoff(j) PROVE OnePlace'
  <2>1. ~Waiting(j) /\ ~InHand(j)
    BY <1>1 DEF Add, Backoff, OnePlace
  <2>2. wait' = [wait EXCEPT ![QueueOf(j)] = Append(@, j)] /\ UNCHANGED work
    BY <1>1 DEF Add, Backoff
  <2>3. \A k \in Jobs : InHand(k)' <=> InHand(k)
    BY <2>2 DEF InHand
  <2>4. CASE Add(j)
    BY <2>1, <2>2, <2>3, <2>4, AppendPlace DEF Add, OnePlace, TypeOK, QueueOK
  <2>5. CASE Backoff(j)
    BY <2>1, <2>2, <2>3, <2>5, AppendPlace DEF Backoff, OnePlace
  <2> QED
    BY <1>1, <2>4, <2>5
<1>2. ASSUME NEW q \in Queues, Take(q) PROVE OnePlace'
  <2> DEFINE j == Head(wait[q])
  <2>1. work[q] = Idle /\ wait[q] # <<>> /\ wait' = [wait EXCEPT ![q] = Tail(@)]
    BY <1>2 DEF Take
  <2>2. /\ Waiting(j) /\ j \in Jobs /\ QueueOf(j) = q
        /\ \A k \in Jobs : Waiting(k)' <=> Waiting(k) /\ k # j
        /\ \A p \in Queues : \A i, k \in 1..Len(wait'[p]) : wait'[p][i] = wait'[p][k] => i = k
    BY <2>1, TakePlace
  <2> HIDE DEF j
  <2>3. result[j] = "queued" /\ j \notin delayed /\ ~InHand(j)
    BY <2>2 DEF OnePlace
  <2>4. CASE online
    <3>1. work' = [work EXCEPT ![q] = Begun(j)] /\ UNCHANGED <<delayed, result>>
      BY <1>2, <2>4 DEF Take, j
    <3>2. \A k \in Jobs : InHand(k)' <=> InHand(k) \/ k = j
      <4> SUFFICES ASSUME NEW k \in Jobs PROVE InHand(k)' <=> InHand(k) \/ k = j
        OBVIOUS
      <4>1. CASE QueueOf(k) = q
        BY <2>1, <3>1, <4>1, JobsAssumption DEF InHand, TypeOK, WorkOK, Idle, Begun
      <4>2. CASE QueueOf(k) # q
        BY <2>2, <3>1, <4>2, QueueOfType DEF InHand, TypeOK, WorkOK
      <4> QED
        BY <4>1, <4>2
    <3> QED
      BY <2>2, <2>3, <3>1, <3>2 DEF OnePlace
  <2>5. CASE ~online
    <3>1. Throw(q, j, CaughtBy(q))
      BY <1>2, <2>5 DEF Take, j
    <3>2. work' = work
      BY <2>1, <3>1 DEF Throw, TypeOK, WorkOK
    <3>3. \A k \in Jobs : InHand(k)' <=> InHand(k)
      BY <3>2 DEF InHand
    <3>4. \/ delayed' = delayed \cup {j} /\ result' = result
          \/ delayed' = delayed /\ result'[j] # "queued" /\ \A k \in Jobs \ {j} : result'[k] = result[k]
      BY <2>2, <3>1 DEF Throw, TypeOK, QueueOK
    <3> QED
      BY <2>2, <2>3, <3>3, <3>4 DEF OnePlace
  <2> QED
    BY <2>4, <2>5
<1>3. ASSUME NEW q \in Queues, Transmit(q) \/ Acked(q) \/ Record(q) PROVE OnePlace'
  <2>1. UNCHANGED <<wait, delayed, result>>
    BY <1>3 DEF Transmit, Acked, Record, queueVars
  <2>2. work[q].step # "idle"
    BY <1>3 DEF Transmit, Acked, Record
  <2>3. work'[q].job = work[q].job
    <3>1. CASE Transmit(q) \/ Record(q)
      BY <2>2, <3>1, HandType DEF Transmit, Record, Busy, TypeOK, WorkOK
    <3>2. CASE Acked(q)
      <4>1. work'[q] = Continue(q)
        BY <3>2 DEF Acked, TypeOK, WorkOK
      <4> QED
        BY <2>2, <4>1, HandType DEF Continue, Busy
    <3> QED
      BY <1>3, <3>1, <3>2
  <2>4. \A p \in Queues \ {q} : work'[p] = work[p]
    BY <1>3 DEF Transmit, Acked, Record, TypeOK, WorkOK
  <2>5. \A k \in Jobs : InHand(k)' <=> InHand(k)
    BY <2>3, <2>4, QueueOfType DEF InHand
  <2> QED
    BY <2>1, <2>5 DEF OnePlace, Waiting
<1>4. ASSUME NEW q \in Queues, SendFails(q) \/ RecordFails(q) \/ Finish(q) PROVE OnePlace'
  <2>1. work[q] # Idle /\ wait' = wait
    BY <1>4 DEF SendFails, RecordFails, Finish, Idle
  <2>2. \/ \E n \in {CaughtBy(q), 1 + CaughtBy(q)} : Throw(q, work[q].job, n)
        \/ Finish(q)
    BY <1>4 DEF SendFails, RecordFails
  <2> QED
    BY <2>1, <2>2, LetGoPlace DEF Throw, Finish
<1>5. CASE Crash
  BY <1>5, CrashPlace
<1>6. CASE Drop \/ Connect \/ UNCHANGED vars
  <2>1. UNCHANGED <<wait, delayed, result, work>>
    BY <1>6 DEF Drop, Connect, vars, queueVars
  <2> QED
    BY <2>1 DEF OnePlace, Waiting, InHand
<1> QED
  BY <1>1, <1>2, <1>3, <1>4, <1>5, <1>6 DEF Next, QueueStep

\* A queued job is in one place, whatever fails, drops or crashes.
THEOREM JobInOnePlace == Spec => []OnePlace
<1>1. Init => OnePlace
  BY QueueOfType, JobsAssumption DEF Init, OnePlace, Waiting, InHand, Idle
<1> QED
  BY <1>1, PlaceStep, TypeCorrect, PTL DEF Spec

-----------------------------------------------------------------------------
(* Every failure is told.                                                    *)

LEMMA ThrowTells ==
  ASSUME TypeOK, FailureTells, NEW q \in Queues, NEW j \in Jobs, QueueOf(j) = q,
         NEW n \in {CaughtBy(q), 1 + CaughtBy(q)}, Throw(q, j, n)
  PROVE  FailureTells'
<1>1. /\ tries[j] \in Nat /\ blame[j] \in Nat
      /\ tries'[j] = tries[j] + 1 /\ blame'[j] = blame[j] + n
      /\ \A k \in Jobs \ {j} : tries'[k] = tries[k] /\ blame'[k] = blame[k]
  BY DEF Throw, TypeOK, QueueOK, WireOK
<1>2. CASE j \in Openings
  <2>1. n \in {1, 2} /\ j \notin Replies
    BY <1>2, JobsAssumption DEF CaughtBy, QueueOf
  <2> QED
    BY <1>1, <1>2, <2>1 DEF FailureTells, Jobs
<1>3. CASE j \notin Openings
  <2>1. n \in {0, 1}
    BY <1>3 DEF CaughtBy, QueueOf
  <2> QED
    BY <1>1, <1>3, <2>1 DEF FailureTells, Jobs
<1> QED
  BY <1>2, <1>3

LEMMA TellStep == TypeOK /\ FailureTells /\ [Next]_vars => FailureTells'
<1> SUFFICES ASSUME TypeOK, FailureTells, [Next]_vars PROVE FailureTells'
  OBVIOUS
<1>1. CASE UNCHANGED <<tries, blame>>
  BY <1>1 DEF FailureTells
<1>2. ASSUME NEW q \in Queues, QueueStep(q) PROVE UNCHANGED <<tries, blame>> \/ FailureTells'
  <2>1. CASE Take(q)
    <3>1. CASE online
      BY <2>1, <3>1 DEF Take
    <3>2. CASE ~online
      <4>1. Throw(q, Head(wait[q]), CaughtBy(q)) /\ wait[q] # <<>>
        BY <2>1, <3>2 DEF Take
      <4> QED
        BY <4>1, HeadOfQueue, ThrowTells DEF TypeOK
    <3> QED
      BY <3>1, <3>2
  <2>2. CASE Transmit(q) \/ Acked(q) \/ Record(q) \/ Finish(q)
    BY <2>2 DEF Transmit, Acked, Record, Finish, queueVars
  <2>3. CASE SendFails(q) \/ RecordFails(q)
    <3>1. \E n \in {CaughtBy(q), 1 + CaughtBy(q)} : Throw(q, work[q].job, n)
      BY <2>3 DEF SendFails, RecordFails
    <3>2. work[q].job \in Jobs /\ QueueOf(work[q].job) = q
      BY <2>3, HandType DEF SendFails, RecordFails
    <3> QED
      BY <3>1, <3>2, ThrowTells
  <2> QED
    BY <1>2, <2>1, <2>2, <2>3 DEF QueueStep
<1>3. (\E j \in Jobs : Add(j) \/ Backoff(j)) => UNCHANGED <<tries, blame>>
  BY DEF Add, Backoff
<1>4. Drop \/ Connect \/ Crash \/ UNCHANGED vars => UNCHANGED <<tries, blame>>
  BY DEF Drop, Connect, Crash, vars, queueVars
<1> QED
  BY <1>1, <1>2, <1>3, <1>4 DEF Next

\* Every failed attempt of an opening is signalled, and none more than twice: the signal
\* of send() and that of onOpening() never leave the score out.
THEOREM FailuresAreTold == Spec => []FailureTells
<1>1. Init => FailureTells
  BY JobsAssumption DEF Init, FailureTells, Jobs
<1> QED
  BY <1>1, TellStep, TypeCorrect, PTL DEF Spec

-----------------------------------------------------------------------------
(* The copies of a job.                                                      *)

\* What Transmit() puts on the wire and in the hand.
LEMMA Transmitted ==
  ASSUME TypeOK, NEW q \in Queues, Transmit(q)
  PROVE  /\ work[q] \in Busy /\ work[q] # Idle /\ work[q].job \in Jobs /\ QueueOf(work[q].job) = q
         /\ work[q].step = "send" /\ work'[q] \in Busy
         /\ work'[q].job = work[q].job /\ work'[q].part = work[q].part
         /\ work'[q].sock = work[q].sock /\ work'[q].step = "ack"
         /\ Len(sent[q]) \in Nat /\ Len(sent'[q]) = Len(sent[q]) + 1
         /\ DOMAIN sent[q] = 1..Len(sent[q]) /\ DOMAIN sent'[q] = 1..Len(sent[q]) + 1
         /\ sent'[q][Len(sent[q]) + 1] =
              [job |-> work[q].job, part |-> work[q].part, sock |-> work[q].sock]
         /\ \A i \in 1..Len(sent[q]) : sent'[q][i] = sent[q][i]
         /\ \A p \in Queues \ {q} : sent'[p] = sent[p] /\ work'[p] = work[p]
<1> DEFINE c == [job |-> work[q].job, part |-> work[q].part, sock |-> work[q].sock]
<1>1. /\ work[q] \in Busy /\ work[q] # Idle /\ work[q].job \in Jobs /\ QueueOf(work[q].job) = q
      /\ work[q].step = "send"
  BY HandType DEF Transmit
<1>2. c \in Copy
  BY <1>1 DEF Copy, Busy
<1>3. sent[q] \in Seq(Copy) /\ sent'[q] = Append(sent[q], c)
  BY DEF Transmit, TypeOK, WireOK
<1>4. \A p \in Queues \ {q} : sent'[p] = sent[p] /\ work'[p] = work[p]
  BY DEF Transmit, TypeOK, WireOK, WorkOK
<1>5. work'[q] = [work[q] EXCEPT !.step = "ack"]
  BY DEF Transmit, TypeOK, WorkOK
<1>6. /\ work'[q] \in Busy /\ work'[q].job = work[q].job /\ work'[q].part = work[q].part
      /\ work'[q].sock = work[q].sock /\ work'[q].step = "ack"
  BY <1>1, <1>5 DEF Busy
<1> HIDE DEF c
<1>7. /\ Len(sent[q]) \in Nat /\ Len(sent'[q]) = Len(sent[q]) + 1
      /\ sent'[q] \in Seq(Copy) /\ sent'[q][Len(sent[q]) + 1] = c
      /\ \A i \in 1..Len(sent[q]) : sent'[q][i] = sent[q][i]
  BY <1>2, <1>3, AppendProperties, LenProperties
<1>8. DOMAIN sent[q] = 1..Len(sent[q]) /\ DOMAIN sent'[q] = 1..Len(sent[q]) + 1
  BY <1>3, <1>7, LenProperties
<1> QED
  BY <1>1, <1>4, <1>6, <1>7, <1>8 DEF c

OfPart(j, p) == {i \in Copies(j) : sent[QueueOf(j)][i].part = p}

\* One copy more of one balloon of one job.
LEMMA CopiesGrow ==
  ASSUME TypeOK, NEW q \in Queues, Transmit(q),
         NEW j \in Jobs, j = work[q].job, NEW b \in Nat, b = work[q].part
  PROVE  /\ Copies(j)' = Copies(j) \cup {Len(sent[q]) + 1}
         /\ OfPart(j, b)' = OfPart(j, b) \cup {Len(sent[q]) + 1}
         /\ \A p \in Nat \ {b} : OfPart(j, p)' = OfPart(j, p)
         /\ \A k \in Jobs \ {j} : Copies(k)' = Copies(k) /\ \A p \in Nat : OfPart(k, p)' = OfPart(k, p)
<1> DEFINE n == Len(sent[q])
<1>1. /\ QueueOf(j) = q /\ n \in Nat
      /\ DOMAIN sent[q] = 1..n /\ DOMAIN sent'[q] = 1..n + 1
      /\ sent'[q][n + 1].job = j /\ sent'[q][n + 1].part = b
      /\ \A i \in 1..n : sent'[q][i] = sent[q][i]
  <2>1. sent'[q][n + 1] = [job |-> j, part |-> b, sock |-> work[q].sock]
    BY Transmitted
  <2>2. sent'[q][n + 1].job = j /\ sent'[q][n + 1].part = b
    BY <2>1
  <2>3. \A i \in 1..n : sent'[q][i] = sent[q][i]
    BY Transmitted
  <2> QED
    BY <2>2, <2>3, Transmitted
<1>10. \A p \in Queues \ {q} : sent'[p] = sent[p]
  BY Transmitted
<1>2. 1..n + 1 = (1..n) \cup {n + 1} /\ n + 1 \notin 1..n
  BY <1>1
<1> HIDE DEF n
<1>3. \A k \in Jobs : QueueOf(k) = q => Copies(k) \subseteq 1..n
  BY <1>1 DEF Copies
<1>4. \A k \in Jobs : QueueOf(k) = q =>
        Copies(k)' = Copies(k) \cup (IF k = j THEN {n + 1} ELSE {})
  BY <1>1, <1>2 DEF Copies
<1>5. \A k \in Jobs : QueueOf(k) # q => Copies(k)' = Copies(k)
  BY <1>10, QueueOfType DEF Copies
<1>6. \A k \in Jobs, p \in Nat : QueueOf(k) # q => OfPart(k, p)' = OfPart(k, p)
  BY <1>5, <1>10, QueueOfType DEF OfPart
<1>7. \A k \in Jobs, p \in Nat : QueueOf(k) = q /\ k # j => OfPart(k, p)' = OfPart(k, p)
  BY <1>1, <1>3, <1>4 DEF OfPart
<1>8. \A p \in Nat \ {b} : OfPart(j, p)' = OfPart(j, p)
  BY <1>1, <1>3, <1>4 DEF OfPart
<1>9. OfPart(j, b)' = OfPart(j, b) \cup {n + 1}
  BY <1>1, <1>2, <1>3, <1>4 DEF OfPart
<1> QED
  BY <1>1, <1>4, <1>5, <1>6, <1>7, <1>8, <1>9 DEF n

LEMMA SentStep ==
  ASSUME [Next]_vars PROVE sent' = sent \/ \E q \in Queues : Transmit(q)
BY DEF Next, QueueStep, Add, Backoff, Take, Acked, SendFails, Record, RecordFails, Finish,
       Drop, Connect, Crash, vars

-----------------------------------------------------------------------------
(* The id a row bears.                                                       *)

\* The id is written before the job is done, and no copy leaves between the two.
LinkInv ==
  /\ LinkedToOwn
  /\ \A o \in Openings : InHand(o) /\ work["openings"].step = "finish" => wa[o] = LastCopy(o)

\* Nothing is sent and no id is written: an opening that is done, or about to be, was before.
LEMMA LinkKept ==
  ASSUME TypeOK, LinkInv, sent' = sent, wa' = wa,
         \A o \in Openings :
           /\ result'[o] = "done" => result[o] = "done" \/ (InHand(o) /\ work["openings"].step = "finish")
           /\ InHand(o)' /\ work'["openings"].step = "finish" => InHand(o) /\ work["openings"].step = "finish"
  PROVE  LinkInv'
<1>1. \A o \in Openings : Copies(o)' = Copies(o)
  BY DEF Copies
<1>2. \A o \in Openings : LastCopy(o)' = LastCopy(o)
  BY <1>1 DEF LastCopy
<1> QED
  BY <1>1, <1>2 DEF LinkInv, LinkedToOwn

\* The id of the last copy is written, or is not.
LEMMA LinkWritten ==
  ASSUME TypeOK, HandInv, OnePlace, LinkInv, NEW q \in Queues, work[q].step = "record",
         sent' = sent, Linked(work[q].job) \/ wa' = wa,
         work'[q].step = "finish" => work'[q].job = work[q].job /\ Linked(work[q].job),
         \A o \in Openings : result'[o] = "done" => result[o] = "done"
  PROVE  LinkInv'
<1> DEFINE j == work[q].job
<1>1. j \in Openings /\ q = "openings" /\ QueueOf(j) = q /\ InHand(j)
  BY HandType DEF TypeOK, WorkOK, QueueOf, InHand
<1>2. LastCopy(j) \in Copies(j)
  BY <1>1, LastCopyIs DEF HandInv, Jobs
<1>3. \A o \in Openings : Copies(o)' = Copies(o)
  BY DEF Copies
<1>4. \A o \in Openings : LastCopy(o)' = LastCopy(o)
  BY <1>3 DEF LastCopy
<1>5. result[j] # "done" /\ \A o \in Openings : InHand(o) => o = j
  BY <1>1 DEF OnePlace, InHand, QueueOf, Jobs
<1>6. \A o \in Openings : InHand(o)' /\ work'["openings"].step = "finish" => o = j /\ Linked(j)
  BY <1>1 DEF InHand, QueueOf
<1> HIDE DEF j
<1>7. \A o \in Openings \ {j} : wa'[o] = wa[o]
  BY DEF Linked, TypeOK, WireOK, j
<1>8. Linked(j) => wa'[j] = LastCopy(j)
  BY <1>1 DEF Linked, TypeOK, WireOK
<1>9. wa'[j] = LastCopy(j) \/ wa'[j] = wa[j]
  BY <1>8 DEF j
<1>10. \A o \in Openings : wa'[o] # 0 => wa'[o] \in Copies(o)
  BY <1>2, <1>7, <1>9 DEF LinkInv, LinkedToOwn
<1>11. \A o \in Openings : result'[o] = "done" => wa'[o] = LastCopy(o)
  BY <1>5, <1>7 DEF LinkInv, LinkedToOwn
<1> QED
  BY <1>3, <1>4, <1>6, <1>8, <1>10, <1>11 DEF LinkInv, LinkedToOwn

LEMMA LinkStep == TypeOK /\ HandInv /\ OnePlace /\ LinkInv /\ [Next]_vars => LinkInv'
<1> SUFFICES ASSUME TypeOK, HandInv, OnePlace, LinkInv, [Next]_vars PROVE LinkInv'
  OBVIOUS
<1>1. ASSUME NEW j \in Jobs, Add(j) \/ Backoff(j) PROVE LinkInv'
  <2>1. \A o \in Openings : result'[o] = "done" => result[o] = "done"
    BY <1>1 DEF Add, Backoff, TypeOK, QueueOK, Jobs
  <2>2. sent' = sent /\ wa' = wa /\ work' = work
    BY <1>1 DEF Add, Backoff
  <2>3. \A o \in Openings : InHand(o)' <=> InHand(o)
    BY <2>2 DEF InHand
  <2> QED
    BY <2>1, <2>2, <2>3, LinkKept
<1>2. ASSUME NEW q \in Queues, Take(q) \/ SendFails(q) \/ Acked(q) PROVE LinkInv'
  <2>1. sent' = sent /\ wa' = wa
    BY <1>2 DEF Take, SendFails, Acked
  <2>2. \A o \in Openings : result'[o] = "done" => result[o] = "done"
    BY <1>2 DEF Take, SendFails, Acked, Throw, queueVars, TypeOK, QueueOK, Jobs
  <2>3. q = "openings" => work'[q].step # "finish"
    <3>1. CASE Take(q) \/ SendFails(q)
      BY <3>1 DEF Take, SendFails, Throw, Begun, Idle, TypeOK, WorkOK
    <3>2. CASE Acked(q)
      <4>1. work'[q] = Continue(q) /\ work[q] \in Busy
        BY <3>2, HandType DEF Acked, TypeOK, WorkOK
      <4> QED
        BY <4>1 DEF Continue, Busy
    <3> QED
      BY <1>2, <3>1, <3>2
  <2>4. q # "openings" => work'["openings"] = work["openings"]
    BY <1>2 DEF Take, SendFails, Acked, Throw, TypeOK, WorkOK, Queues
  <2>5. \A o \in Openings : InHand(o)' /\ work'["openings"].step = "finish"
          => InHand(o) /\ work["openings"].step = "finish"
    BY <2>3, <2>4 DEF InHand, QueueOf
  <2>6. \A o \in Openings :
          /\ result'[o] = "done" => result[o] = "done" \/ (InHand(o) /\ work["openings"].step = "finish")
          /\ InHand(o)' /\ work'["openings"].step = "finish" => InHand(o) /\ work["openings"].step = "finish"
    BY <2>2, <2>5
  <2> QED
    BY <2>1, <2>6, LinkKept
<1>3. ASSUME NEW q \in Queues, Transmit(q) PROVE LinkInv'
  <2> DEFINE j == work[q].job
  <2>1. wa' = wa /\ result' = result
    BY <1>3 DEF Transmit, queueVars
  <2>2. j \in Jobs /\ QueueOf(j) = q /\ InHand(j) /\ result[j] # "done"
    BY <1>3, Transmitted DEF OnePlace, InHand
  <2> HIDE DEF j
  <2>3. \A k \in Jobs : Copies(k) \subseteq Copies(k)' /\ (k # j => Copies(k)' = Copies(k))
    <3>1. j = work[q].job /\ work[q].part \in Nat
      BY <1>3, Transmitted DEF j, Busy
    <3> QED
      BY <1>3, <2>2, <3>1, CopiesGrow
  <2>4. \A k \in Jobs \ {j} : LastCopy(k)' = LastCopy(k)
    BY <2>3 DEF LastCopy
  <2>5. \A o \in Openings : ~(InHand(o)' /\ work'["openings"].step = "finish")
        \/ (o # j /\ InHand(o) /\ work["openings"].step = "finish")
    <3>1. CASE q = "openings"
      <4>1. work'["openings"].step = "ack"
        BY <1>3, <3>1, Transmitted
      <4> QED
        BY <4>1
    <3>2. CASE q # "openings"
      <4>1. work'["openings"] = work["openings"]
        BY <1>3, <3>2, Transmitted DEF Queues
      <4>2. \A o \in Openings : o # j /\ (InHand(o)' <=> InHand(o))
        BY <2>2, <3>2, <4>1 DEF InHand, QueueOf
      <4> QED
        BY <4>1, <4>2
    <3> QED
      BY <3>1, <3>2
  <2> QED
    BY <2>1, <2>2, <2>3, <2>4, <2>5 DEF LinkInv, LinkedToOwn, Jobs
<1>4. ASSUME NEW q \in Queues, Record(q) \/ RecordFails(q) PROVE LinkInv'
  <2>1. work[q].step = "record" /\ work[q] \in Busy /\ work[q].job \in Jobs
    BY <1>4, HandType DEF Record, RecordFails
  <2>2. sent' = sent /\ (Linked(work[q].job) \/ wa' = wa)
    BY <1>4 DEF Record, RecordFails
  <2>3. work'[q].step = "finish" => work'[q].job = work[q].job /\ Linked(work[q].job)
    BY <1>4, <2>1 DEF Record, RecordFails, Throw, Idle, TypeOK, WorkOK, Busy
  <2>4. \A o \in Openings : result'[o] = "done" => result[o] = "done"
    BY <1>4, <2>1 DEF Record, RecordFails, Throw, queueVars, TypeOK, QueueOK, Jobs
  <2> QED
    BY <2>1, <2>2, <2>3, <2>4, LinkWritten
<1>5. ASSUME NEW q \in Queues, Finish(q) PROVE LinkInv'
  <2>1. sent' = sent /\ wa' = wa /\ work[q].step = "finish" /\ work[q].job \in Jobs /\ QueueOf(work[q].job) = q
    BY <1>5, HandType DEF Finish
  <2>2. \A o \in Openings : result'[o] = "done" => result[o] = "done" \/ (InHand(o) /\ work["openings"].step = "finish")
    <3>1. result' = [result EXCEPT ![work[q].job] = "done"]
      BY <1>5 DEF Finish
    <3>2. \A o \in Openings : o = work[q].job => q = "openings"
      BY <2>1 DEF QueueOf
    <3>3. \A o \in Openings : o # work[q].job => result'[o] = result[o]
      BY <3>1 DEF TypeOK, QueueOK, Jobs
    <3> QED
      BY <2>1, <3>2, <3>3 DEF InHand
  <2>3. \A o \in Openings : InHand(o)' /\ work'["openings"].step = "finish"
          => InHand(o) /\ work["openings"].step = "finish"
    BY <1>5 DEF Finish, TypeOK, WorkOK, InHand, QueueOf, Idle, Queues
  <2> QED
    BY <2>1, <2>2, <2>3, LinkKept
<1>6. CASE Crash
  <2>1. sent' = sent /\ wa' = wa /\ result' = result /\ work'["openings"] = Idle
    BY <1>6 DEF Crash, Queues
  <2>2. work'["openings"].step # "finish"
    BY <2>1 DEF Idle
  <2> QED
    BY <2>1, <2>2, LinkKept
<1>7. CASE Drop \/ Connect \/ UNCHANGED vars
  <2>1. UNCHANGED <<sent, wa, result, work>>
    BY <1>7 DEF Drop, Connect, vars, queueVars
  <2>2. \A o \in Openings : InHand(o)' <=> InHand(o)
    BY <2>1 DEF InHand
  <2> QED
    BY <2>1, <2>2, LinkKept
<1> QED
  BY <1>1, <1>2, <1>3, <1>4, <1>5, <1>6, <1>7 DEF Next, QueueStep

\* A row bears the id of a copy of its own opening, and of the last once the job is done:
\* the receipts the watch reads (DeliveryWatch) are never those of another message.
THEOREM IdIsOwn == Spec => []LinkedToOwn
<1>1. Init => LinkInv
  BY DEF Init, LinkInv, LinkedToOwn, Idle, Jobs, Queues
<1>2. LinkInv => LinkedToOwn
  BY DEF LinkInv
<1> QED
  BY <1>1, <1>2, LinkStep, HandHolds, JobInOnePlace, PTL DEF Spec

-----------------------------------------------------------------------------
(* How often a balloon leaves.                                               *)

\* The attempt in hand, or the one that succeeded, has sent this balloon.
Gone(j, p) ==
  \/ result[j] = "done"
  \/ InHand(j) /\ ~(work[QueueOf(j)].part = p /\ work[QueueOf(j)].step = "send")
               /\ p <= work[QueueOf(j)].part

TriesInv == \A j \in Jobs : /\ tries[j] <= Attempts
                            /\ tries[j] = Attempts => result[j] = "failed"

\* Every attempt that ended, in a failure or a stall, sent a balloon once at most.
CountInv ==
  \A j \in Jobs : \A p \in Nat \ {0} :
    Cardinality(OfPart(j, p)) <= tries[j] + stalls[j] + (IF Gone(j, p) THEN 1 ELSE 0)

LEMMA OfPartFinite ==
  ASSUME TypeOK, NEW j \in Jobs, NEW p \in Nat
  PROVE  IsFiniteSet(OfPart(j, p)) /\ Cardinality(OfPart(j, p)) \in Nat
         /\ Len(sent[QueueOf(j)]) + 1 \notin OfPart(j, p)
<1>1. sent[QueueOf(j)] \in Seq(Copy)
  BY QueueOfType DEF TypeOK, WireOK
<1>2. Len(sent[QueueOf(j)]) \in Nat /\ DOMAIN sent[QueueOf(j)] = 1..Len(sent[QueueOf(j)])
  BY <1>1, LenProperties
<1>3. OfPart(j, p) \subseteq 1..Len(sent[QueueOf(j)])
  BY <1>2 DEF OfPart, Copies
<1>4. IsFiniteSet(1..Len(sent[QueueOf(j)]))
  BY <1>2, FS_Interval, 1 \in Int, Len(sent[QueueOf(j)]) \in Int
<1> QED
  BY <1>2, <1>3, <1>4, FS_Subset, FS_CardinalityType

\* No copy leaves, and a job that sent something is as far as it was or has one failure or
\* stall more to its name.
LEMMA CountKept ==
  ASSUME TypeOK, CountInv, sent' = sent, tries' \in [Jobs -> Nat], stalls' \in [Jobs -> Nat],
         \A j \in Jobs : \A p \in Nat \ {0} :
           tries[j] + stalls[j] + (IF Gone(j, p) THEN 1 ELSE 0)
             <= tries'[j] + stalls'[j] + (IF Gone(j, p)' THEN 1 ELSE 0)
  PROVE  CountInv'
<1>1. \A j \in Jobs : \A p \in Nat : OfPart(j, p)' = OfPart(j, p)
  BY DEF OfPart, Copies
<1> SUFFICES ASSUME NEW j \in Jobs, NEW p \in Nat \ {0}
             PROVE  Cardinality(OfPart(j, p)') <= tries'[j] + stalls'[j] + (IF Gone(j, p)' THEN 1 ELSE 0)
  BY DEF CountInv
<1> DEFINE c == Cardinality(OfPart(j, p))
           a == tries[j] + stalls[j] + (IF Gone(j, p) THEN 1 ELSE 0)
           b == tries'[j] + stalls'[j] + (IF Gone(j, p)' THEN 1 ELSE 0)
<1>2. c \in Nat
  BY OfPartFinite
<1>3. a \in Nat /\ b \in Nat
  BY DEF TypeOK, QueueOK, WireOK
<1>4. c <= a
  BY DEF CountInv
<1>5. a <= b
  OBVIOUS
<1>6. Cardinality(OfPart(j, p)') = c
  BY <1>1
<1> HIDE DEF a, b, c
<1>7. c <= b
  BY <1>2, <1>3, <1>4, <1>5
<1> QED
  BY <1>6, <1>7 DEF b

LEMMA CountStep == TypeOK /\ TypeOK' /\ OnePlace /\ CountInv /\ [Next]_vars => CountInv'
<1> SUFFICES ASSUME TypeOK, TypeOK', OnePlace, CountInv, [Next]_vars PROVE CountInv'
  OBVIOUS
<1> DEFINE Room(j, p) == tries[j] + stalls[j] + (IF Gone(j, p) THEN 1 ELSE 0)
<1>0. tries' \in [Jobs -> Nat] /\ stalls' \in [Jobs -> Nat]
  BY DEF TypeOK, QueueOK, WireOK
<1>1. ASSUME sent' = sent, tries' = tries, stalls' = stalls,
             \A j \in Jobs : \A p \in Nat \ {0} : Gone(j, p) => Gone(j, p)'
      PROVE  CountInv'
  <2>1. \A j \in Jobs : tries[j] \in Nat /\ stalls[j] \in Nat
    BY DEF TypeOK, QueueOK, WireOK
  <2>2. \A j \in Jobs : \A p \in Nat \ {0} :
           tries[j] + stalls[j] + (IF Gone(j, p) THEN 1 ELSE 0)
             <= tries'[j] + stalls'[j] + (IF Gone(j, p)' THEN 1 ELSE 0)
    BY <1>1, <2>1
  <2> QED
    BY <1>0, <1>1, <2>2, CountKept
<1>2. ASSUME NEW q \in Queues, NEW j \in Jobs, NEW n \in Nat, Throw(q, j, n), QueueOf(j) = q, work[q].job = j \/ work[q] = Idle,
             result[j] # "done", sent' = sent, stalls' = stalls
      PROVE  CountInv'
  <2>1. tries'[j] = tries[j] + 1 /\ \A k \in Jobs \ {j} : tries'[k] = tries[k] /\ result'[k] = result[k]
    BY <1>2 DEF Throw, TypeOK, QueueOK
  <2>2. \A k \in Jobs \ {j}, p \in Nat \ {0} : Gone(k, p) => Gone(k, p)'
    <3> SUFFICES ASSUME NEW k \in Jobs \ {j}, NEW p \in Nat \ {0}, Gone(k, p) PROVE Gone(k, p)'
      OBVIOUS
    <3>1. CASE result[k] = "done"
      BY <2>1, <3>1 DEF Gone
    <3>2. CASE QueueOf(k) = q /\ result[k] # "done"
      BY <1>2, <3>2, JobsAssumption DEF Gone, InHand, Idle
    <3>3. CASE QueueOf(k) # q
      <4>1. work'[QueueOf(k)] = work[QueueOf(k)]
        BY <1>2, <3>3, QueueOfType DEF Throw, TypeOK, WorkOK
      <4>2. result'[k] = result[k]
        BY <2>1
      <4> QED
        BY <4>1, <4>2 DEF Gone, InHand
    <3> QED
      BY <3>1, <3>2, <3>3
  <2>3. \A k \in Jobs : tries[k] \in Nat /\ stalls[k] \in Nat
    BY DEF TypeOK, QueueOK, WireOK
  <2>4. \A k \in Jobs : \A p \in Nat \ {0} :
           tries[k] + stalls[k] + (IF Gone(k, p) THEN 1 ELSE 0)
             <= tries'[k] + stalls'[k] + (IF Gone(k, p)' THEN 1 ELSE 0)
    <3> SUFFICES ASSUME NEW k \in Jobs, NEW p \in Nat \ {0}
                 PROVE  tries[k] + stalls[k] + (IF Gone(k, p) THEN 1 ELSE 0)
                          <= tries'[k] + stalls'[k] + (IF Gone(k, p)' THEN 1 ELSE 0)
      OBVIOUS
    <3>1. CASE k = j
      BY <1>2, <2>1, <2>3, <3>1
    <3>2. CASE k # j
      BY <1>2, <2>1, <2>2, <2>3, <3>2
    <3> QED
      BY <3>1, <3>2
  <2> QED
    BY <1>0, <1>2, <2>4, CountKept
<1>3. ASSUME NEW j \in Jobs, Add(j) \/ Backoff(j) PROVE CountInv'
  <2>1. UNCHANGED <<sent, tries, stalls, work>>
    BY <1>3 DEF Add, Backoff
  <2>2. \A k \in Jobs : result[k] = "done" => result'[k] = "done"
    BY <1>3 DEF Add, Backoff, TypeOK, QueueOK
  <2> QED
    BY <1>1, <2>1, <2>2 DEF Gone, InHand
<1>4. ASSUME NEW q \in Queues, Take(q) PROVE CountInv'
  <2> DEFINE j == Head(wait[q])
  <2>1. work[q] = Idle /\ wait[q] # <<>> /\ sent' = sent /\ stalls' = stalls
    BY <1>4 DEF Take
  <2>2. j \in Jobs /\ QueueOf(j) = q /\ result[j] = "queued"
    <3>1. Waiting(j) /\ j \in Jobs /\ QueueOf(j) = q
      BY <1>4, TakePlace DEF Take
    <3> QED
      BY <3>1 DEF OnePlace
  <2> HIDE DEF j
  <2>3. CASE online
    <3>1. work' = [work EXCEPT ![q] = Begun(j)] /\ result' = result /\ tries' = tries
      BY <1>4, <2>3 DEF Take, j
    <3>2. ASSUME NEW k \in Jobs, NEW p \in Nat \ {0}, Gone(k, p) PROVE Gone(k, p)'
      <4>1. CASE QueueOf(k) = q
        BY <2>1, <3>1, <3>2, <4>1, JobsAssumption DEF Gone, InHand, Idle
      <4>2. CASE QueueOf(k) # q
        <5>1. work'[QueueOf(k)] = work[QueueOf(k)]
          BY <3>1, <4>2, QueueOfType DEF TypeOK, WorkOK
        <5> QED
          BY <3>1, <3>2, <5>1 DEF Gone, InHand
      <4> QED
        BY <4>1, <4>2
    <3> QED
      BY <1>1, <2>1, <3>1, <3>2
  <2>4. CASE ~online
    <3>1. Throw(q, j, CaughtBy(q)) /\ CaughtBy(q) \in Nat
      BY <1>4, <2>4 DEF Take, j, CaughtBy
    <3> QED
      BY <1>2, <2>1, <2>2, <3>1
  <2> QED
    BY <2>3, <2>4
<1>5. ASSUME NEW q \in Queues, Transmit(q) PROVE CountInv'
  <2>0. work[q].job \in Jobs /\ work[q].part \in Nat \ {0}
    BY <1>5, Transmitted DEF Busy
  <2> SUFFICES ASSUME NEW j \in Jobs, j = work[q].job, NEW b \in Nat \ {0}, b = work[q].part
               PROVE  CountInv'
    BY <2>0
  <2>1. /\ QueueOf(j) = q /\ work[q].step = "send" /\ InHand(j)
        /\ work'[q].job = j /\ work'[q].part = b /\ work'[q].step = "ack"
        /\ \A p \in Queues \ {q} : work'[p] = work[p]
    BY <1>5, Transmitted DEF Busy, InHand
  <2>2. UNCHANGED <<tries, stalls, result>>
    BY <1>5 DEF Transmit, queueVars
  <2>3. result[j] = "queued"
    BY <2>1 DEF OnePlace
  <2>4. /\ OfPart(j, b)' = OfPart(j, b) \cup {Len(sent[q]) + 1}
        /\ \A p \in Nat \ {b} : OfPart(j, p)' = OfPart(j, p)
        /\ \A k \in Jobs \ {j} : \A p \in Nat : OfPart(k, p)' = OfPart(k, p)
    BY <1>5, <2>1, CopiesGrow
  <2>5. \A k \in Jobs : tries[k] \in Nat /\ stalls[k] \in Nat
    BY DEF TypeOK, QueueOK, WireOK
  <2>6. ASSUME NEW k \in Jobs, NEW p \in Nat \ {0}, k # j \/ p # b
        PROVE  Cardinality(OfPart(k, p)') <= tries'[k] + stalls'[k] + (IF Gone(k, p)' THEN 1 ELSE 0)
    <3>1. OfPart(k, p)' = OfPart(k, p)
      BY <2>4, <2>6
    <3>2. Gone(k, p)' <=> Gone(k, p)
      <4>1. CASE QueueOf(k) = q
        BY <2>1, <2>2, <2>6, <4>1 DEF Gone, InHand
      <4>2. CASE QueueOf(k) # q
        <5>1. work'[QueueOf(k)] = work[QueueOf(k)]
          BY <2>1, <4>2, QueueOfType
        <5> QED
          BY <2>2, <5>1 DEF Gone, InHand
      <4> QED
        BY <4>1, <4>2
    <3>3. Cardinality(OfPart(k, p)) <= tries[k] + stalls[k] + (IF Gone(k, p) THEN 1 ELSE 0)
      BY DEF CountInv
    <3> QED
      BY <2>2, <3>1, <3>2, <3>3
  <2>7. Cardinality(OfPart(j, b)') <= tries'[j] + stalls'[j] + (IF Gone(j, b)' THEN 1 ELSE 0)
    <3>1. ~Gone(j, b)
      BY <2>1, <2>3 DEF Gone, InHand
    <3>2. Gone(j, b)'
      BY <2>1 DEF Gone, InHand
    <3>5. /\ IsFiniteSet(OfPart(j, b)) /\ Cardinality(OfPart(j, b)) \in Nat
          /\ Len(sent[q]) + 1 \notin OfPart(j, b)
      BY <2>1, OfPartFinite
    <3>6. Cardinality(OfPart(j, b)) <= tries[j] + stalls[j] + (IF Gone(j, b) THEN 1 ELSE 0)
      BY DEF CountInv
    <3>3. Cardinality(OfPart(j, b)) <= tries[j] + stalls[j] /\ Cardinality(OfPart(j, b)) \in Nat
      BY <2>5, <3>1, <3>5, <3>6
    <3>4. Cardinality(OfPart(j, b)') = Cardinality(OfPart(j, b)) + 1
      <4>1. \A S, x : IsFiniteSet(S) /\ x \notin S => Cardinality(S \cup {x}) = Cardinality(S) + 1
        BY FS_AddElement
      <4> QED
        BY <2>4, <3>5, <4>1
    <3> QED
      BY <2>1, <2>2, <2>5, <3>2, <3>3, <3>4
  <2> QED
    BY <2>6, <2>7 DEF CountInv
<1>6. ASSUME NEW q \in Queues, Acked(q) PROVE CountInv'
  <2>1. /\ work[q].step = "ack" /\ work[q] \in Busy /\ work'[q] = Continue(q)
        /\ \A p \in Queues \ {q} : work'[p] = work[p]
    BY <1>6, HandType DEF Acked, TypeOK, WorkOK
  <2>2. UNCHANGED <<sent, tries, stalls, result>>
    BY <1>6 DEF Acked, queueVars
  <2>3. /\ work'[q].job = work[q].job
        /\ \/ work'[q].part = work[q].part /\ work'[q].step # "send"
           \/ work'[q].part = work[q].part + 1
    BY <2>1 DEF Continue, Busy
  <2>4. ASSUME NEW k \in Jobs, NEW p \in Nat \ {0}, Gone(k, p) PROVE Gone(k, p)'
    <3>1. CASE QueueOf(k) = q
      BY <2>1, <2>2, <2>3, <2>4, <3>1 DEF Gone, InHand, Busy
    <3>2. CASE QueueOf(k) # q
      <4>1. work'[QueueOf(k)] = work[QueueOf(k)]
        BY <2>1, <3>2, QueueOfType
      <4> QED
        BY <2>2, <2>4, <4>1 DEF Gone, InHand
    <3> QED
      BY <3>1, <3>2
  <2> QED
    BY <1>1, <2>2, <2>4
<1>7. ASSUME NEW q \in Queues, SendFails(q) \/ RecordFails(q) PROVE CountInv'
  <2>1. \E n \in Nat : Throw(q, work[q].job, n)
    BY <1>7 DEF SendFails, RecordFails, CaughtBy
  <2>2. work[q].job \in Jobs /\ QueueOf(work[q].job) = q
    BY <1>7, HandType DEF SendFails, RecordFails
  <2>3. result[work[q].job] # "done"
    BY <2>2 DEF OnePlace, InHand
  <2>4. sent' = sent /\ stalls' = stalls
    BY <1>7 DEF SendFails, RecordFails
  <2> QED
    BY <1>2, <2>1, <2>2, <2>3, <2>4
<1>8. ASSUME NEW q \in Queues, Record(q) PROVE CountInv'
  <2>1. work[q].step = "record" /\ work[q] \in Busy /\ work' = [work EXCEPT ![q].step = "finish"]
    BY <1>8, HandType DEF Record
  <2>2. UNCHANGED <<sent, tries, stalls, result>>
    BY <1>8 DEF Record, queueVars
  <2>3. \A p \in Queues : /\ work'[p].job = work[p].job /\ work'[p].part = work[p].part
                          /\ work'[p].step = "send" <=> work[p].step = "send"
    BY <2>1 DEF TypeOK, WorkOK, Busy
  <2>4. ASSUME NEW k \in Jobs, NEW p \in Nat \ {0}, Gone(k, p) PROVE Gone(k, p)'
    BY <2>2, <2>3, <2>4, QueueOfType DEF Gone, InHand
  <2> QED
    BY <1>1, <2>2, <2>4
<1>9. ASSUME NEW q \in Queues, Finish(q) PROVE CountInv'
  <2>1. work[q].job \in Jobs /\ QueueOf(work[q].job) = q
    BY <1>9, HandType DEF Finish
  <2>2. UNCHANGED <<sent, tries, stalls>> /\ result' = [result EXCEPT ![work[q].job] = "done"]
        /\ \A p \in Queues \ {q} : work'[p] = work[p]
    BY <1>9 DEF Finish, TypeOK, WorkOK
  <2>3. \A k \in Jobs : result'[k] = IF k = work[q].job THEN "done" ELSE result[k]
    BY <2>1, <2>2 DEF TypeOK, QueueOK
  <2>4. ASSUME NEW k \in Jobs, NEW p \in Nat \ {0}, Gone(k, p) PROVE Gone(k, p)'
    <3>1. CASE k = work[q].job
      BY <2>3, <3>1 DEF Gone
    <3>2. CASE k # work[q].job /\ QueueOf(k) = q
      BY <2>3, <2>4, <3>2 DEF Gone, InHand
    <3>3. CASE QueueOf(k) # q
      <4>1. work'[QueueOf(k)] = work[QueueOf(k)] /\ result'[k] = result[k]
        BY <2>1, <2>2, <2>3, <3>3, QueueOfType
      <4> QED
        BY <2>4, <4>1 DEF Gone, InHand
    <3> QED
      BY <3>1, <3>2, <3>3
  <2> QED
    BY <1>1, <2>2, <2>4
<1>10. CASE Crash
  <2>1. sent' = sent /\ tries' = tries /\ result' = result
    BY <1>10 DEF Crash
  <2>2. \A k \in Jobs : tries[k] \in Nat /\ stalls[k] \in Nat
    BY DEF TypeOK, QueueOK, WireOK
  <2>3. \A k \in Jobs : stalls'[k] = IF InHand(k) THEN stalls[k] + 1 ELSE stalls[k]
    BY <1>10 DEF Crash, InHand
  <2>4. \A k \in Jobs : \A p \in Nat \ {0} :
           tries[k] + stalls[k] + (IF Gone(k, p) THEN 1 ELSE 0)
             <= tries'[k] + stalls'[k] + (IF Gone(k, p)' THEN 1 ELSE 0)
    <3> SUFFICES ASSUME NEW k \in Jobs, NEW p \in Nat \ {0}
                 PROVE  tries[k] + stalls[k] + (IF Gone(k, p) THEN 1 ELSE 0)
                          <= tries'[k] + stalls'[k] + (IF Gone(k, p)' THEN 1 ELSE 0)
      OBVIOUS
    <3>1. InHand(k) \/ (Gone(k, p) => Gone(k, p)')
      BY <2>1 DEF Gone
    <3> QED
      BY <2>1, <2>2, <2>3, <3>1
  <2> QED
    BY <1>0, <2>1, <2>4, CountKept
<1>11. CASE Drop \/ Connect \/ UNCHANGED vars
  <2>1. UNCHANGED <<sent, tries, stalls, work, result>>
    BY <1>11 DEF Drop, Connect, vars, queueVars
  <2> QED
    BY <1>1, <2>1 DEF Gone, InHand
<1> QED
  BY <1>3, <1>4, <1>5, <1>6, <1>7, <1>8, <1>9, <1>10, <1>11 DEF Next, QueueStep

\* An attempt fails or the job does, at the last one.
LEMMA TriesStep == TypeOK /\ OnePlace /\ TriesInv /\ [Next]_vars => TriesInv'
<1> SUFFICES ASSUME TypeOK, OnePlace, TriesInv, [Next]_vars PROVE TriesInv'
  OBVIOUS
<1>1. ASSUME tries' = tries, \A j \in Jobs : result[j] = "failed" => result'[j] = "failed"
      PROVE  TriesInv'
  BY <1>1 DEF TriesInv
<1>2. ASSUME NEW q \in Queues, NEW j \in Jobs, NEW n \in Nat, Throw(q, j, n), result[j] = "queued"
      PROVE  TriesInv'
  <2>1. tries[j] \in Nat /\ tries[j] <= Attempts /\ tries[j] # Attempts /\ Attempts \in Nat
    BY <1>2, LimitsAssumption DEF TriesInv, TypeOK, QueueOK
  <2>2. tries'[j] = tries[j] + 1 /\ \A k \in Jobs \ {j} : tries'[k] = tries[k] /\ result'[k] = result[k]
    BY <1>2 DEF Throw, TypeOK, QueueOK
  <2>3. tries[j] + 1 < Attempts \/ result'[j] = "failed"
    BY <1>2 DEF Throw, TriesLeft, TypeOK, QueueOK
  <2>4. tries'[j] <= Attempts /\ (tries'[j] = Attempts => result'[j] = "failed")
    BY <2>1, <2>2, <2>3
  <2> QED
    BY <2>2, <2>4 DEF TriesInv
<1>3. ASSUME NEW j \in Jobs, Add(j) \/ Backoff(j) PROVE TriesInv'
  <2>1. \A k \in Jobs : result[k] = "failed" => result'[k] = "failed"
    BY <1>3 DEF Add, Backoff, TypeOK, QueueOK
  <2> QED
    BY <1>1, <1>3, <2>1 DEF Add, Backoff
<1>4. ASSUME NEW q \in Queues, Take(q) PROVE TriesInv'
  <2> DEFINE j == Head(wait[q])
  <2>1. j \in Jobs /\ result[j] = "queued"
    <3>1. Waiting(j) /\ j \in Jobs
      BY <1>4, TakePlace DEF Take
    <3> QED
      BY <3>1 DEF OnePlace
  <2>2. (tries' = tries /\ result' = result) \/ \E n \in Nat : Throw(q, j, n)
    BY <1>4 DEF Take, CaughtBy
  <2> HIDE DEF j
  <2> QED
    BY <1>1, <1>2, <2>1, <2>2
<1>5. ASSUME NEW q \in Queues, Transmit(q) \/ Acked(q) \/ Record(q) PROVE TriesInv'
  BY <1>1, <1>5 DEF Transmit, Acked, Record, queueVars
<1>6. ASSUME NEW q \in Queues, SendFails(q) \/ RecordFails(q) \/ Finish(q) PROVE TriesInv'
  <2>1. work[q].job \in Jobs /\ QueueOf(work[q].job) = q
    BY <1>6, HandType DEF SendFails, RecordFails, Finish
  <2>2. result[work[q].job] = "queued"
    BY <2>1 DEF OnePlace, InHand
  <2>3. CASE Finish(q)
    <3>1. \A k \in Jobs : result[k] = "failed" => result'[k] = "failed"
      BY <2>2, <2>3 DEF Finish, TypeOK, QueueOK
    <3> QED
      BY <1>1, <2>3, <3>1 DEF Finish
  <2>4. CASE SendFails(q) \/ RecordFails(q)
    <3>1. \E n \in Nat : Throw(q, work[q].job, n)
      BY <2>4 DEF SendFails, RecordFails, CaughtBy
    <3> QED
      BY <1>2, <2>1, <2>2, <3>1
  <2> QED
    BY <1>6, <2>3, <2>4
<1>7. CASE Drop \/ Connect \/ Crash \/ UNCHANGED vars
  <2>1. tries' = tries /\ result' = result
    BY <1>7 DEF Drop, Connect, Crash, vars, queueVars
  <2> QED
    BY <1>1, <2>1
<1> QED
  BY <1>3, <1>4, <1>5, <1>6, <1>7 DEF Next, QueueStep

\* The lead receives no balloon more often than the job was tried and stalled.
THEOREM CopiesAreBounded == Spec => []CopiesBounded
<1>1. Init => TriesInv
  BY LimitsAssumption DEF Init, TriesInv
<1>2. Init => CountInv
  <2> SUFFICES ASSUME Init, NEW j \in Jobs, NEW p \in Nat \ {0}
               PROVE  Cardinality(OfPart(j, p)) <= tries[j] + stalls[j] + (IF Gone(j, p) THEN 1 ELSE 0)
    BY DEF CountInv
  <2>1. OfPart(j, p) = {}
    BY QueueOfType DEF Init, OfPart, Copies
  <2>2. Cardinality(OfPart(j, p)) = 0
    BY <2>1, FS_EmptySet
  <2> QED
    BY <2>2 DEF Init
<1>3. TypeOK /\ OnePlace /\ TriesInv /\ CountInv => CopiesBounded
  <2> SUFFICES ASSUME TypeOK, OnePlace, TriesInv, CountInv, NEW j \in Jobs, NEW p \in 1..Parts[j]
               PROVE  Cardinality(OfPart(j, p)) <= Attempts + stalls[j]
    BY DEF CopiesBounded, OfPart
  <2>1. p \in Nat \ {0}
    BY JobsAssumption
  <2>2. /\ Cardinality(OfPart(j, p)) <= tries[j] + stalls[j] + (IF Gone(j, p) THEN 1 ELSE 0)
        /\ Cardinality(OfPart(j, p)) \in Nat
    BY <2>1, OfPartFinite DEF CountInv
  <2>3. tries[j] \in Nat /\ stalls[j] \in Nat /\ Attempts \in Nat /\ tries[j] <= Attempts
    BY LimitsAssumption DEF TypeOK, QueueOK, WireOK, TriesInv
  <2>4. tries[j] = Attempts => ~Gone(j, p)
    BY DEF TriesInv, Gone, OnePlace
  <2> QED
    BY <2>2, <2>3, <2>4
<1> QED
  BY <1>1, <1>2, <1>3, TriesStep, CountStep, TypeCorrect, JobInOnePlace, PTL DEF Spec

-----------------------------------------------------------------------------
(* A reply goes out whole.                                                   *)

\* The balloons the attempt in hand has put on the wire.
Away(q) == IF work[q].step = "send" THEN work[q].part - 1 ELSE work[q].part

\* They are the last copies of the queue, in order, on the socket of the attempt.
RunInv ==
  \A q \in Queues : work[q] # Idle =>
    /\ Away(q) <= Len(sent[q])
    /\ \A k \in 1..Away(q) :
         sent[q][Len(sent[q]) - Away(q) + k] = [job |-> work[q].job, part |-> k, sock |-> work[q].sock]
    /\ work[q].step \in {"record", "finish"} => work[q].part = Parts[work[q].job]

LEMMA RunStep == TypeOK /\ RunInv /\ [Next]_vars => RunInv'
<1> SUFFICES ASSUME TypeOK, RunInv, [Next]_vars PROVE RunInv'
  OBVIOUS
<1>1. CASE UNCHANGED <<work, sent>>
  BY <1>1 DEF RunInv, Away
<1>2. ASSUME NEW q \in Queues, sent' = sent, \A p \in Queues \ {q} : work'[p] = work[p],
             \/ work'[q] = Idle
             \/ work'[q].step = "send" /\ work'[q].part = 1
             \/ /\ work[q] # Idle /\ Away(q)' = Away(q) /\ work'[q].job = work[q].job
                /\ work'[q].sock = work[q].sock
                /\ work'[q].step \in {"record", "finish"} => work'[q].part = Parts[work[q].job]
      PROVE  RunInv'
  <2>1. \A p \in Queues \ {q} : Away(p)' = Away(p)
    BY <1>2 DEF Away
  <2>2. Len(sent[q]) \in Nat
    BY LenProperties DEF TypeOK, WireOK
  <2>3. CASE work'[q] = Idle
    BY <1>2, <2>1, <2>3 DEF RunInv
  <2>4. CASE work'[q].step = "send" /\ work'[q].part = 1
    <3>1. Away(q)' = 0
      BY <2>4 DEF Away
    <3>2. 1..0 = {}
      OBVIOUS
    <3> QED
      BY <1>2, <2>1, <2>2, <2>4, <3>1, <3>2 DEF RunInv
  <2>5. CASE /\ work[q] # Idle /\ Away(q)' = Away(q) /\ work'[q].job = work[q].job
             /\ work'[q].sock = work[q].sock
             /\ work'[q].step \in {"record", "finish"} => work'[q].part = Parts[work[q].job]
    BY <1>2, <2>1, <2>5 DEF RunInv
  <2> QED
    BY <1>2, <2>3, <2>4, <2>5
<1>3. ASSUME NEW q \in Queues, Take(q) \/ SendFails(q) \/ RecordFails(q) \/ Finish(q) PROVE RunInv'
  <2>1. sent' = sent /\ \A p \in Queues \ {q} : work'[p] = work[p]
    BY <1>3 DEF Take, SendFails, RecordFails, Finish, Throw, TypeOK, WorkOK
  <2>2. work'[q] = Idle \/ (work'[q].step = "send" /\ work'[q].part = 1)
    BY <1>3 DEF Take, SendFails, RecordFails, Finish, Throw, TypeOK, WorkOK, Begun
  <2> QED
    BY <1>2, <2>1, <2>2
<1>4. ASSUME NEW q \in Queues, Acked(q) PROVE RunInv'
  <2>1. /\ work[q].step = "ack" /\ work[q] \in Busy /\ work[q] # Idle /\ work'[q] = Continue(q)
        /\ work[q].part <= Parts[work[q].job] /\ Parts[work[q].job] \in Nat
        /\ sent' = sent /\ \A p \in Queues \ {q} : work'[p] = work[p]
    BY <1>4, HandType, JobsAssumption DEF Acked, TypeOK, WorkOK
  <2>2. /\ work'[q].job = work[q].job /\ work'[q].sock = work[q].sock
        /\ \/ work'[q].step = "send" /\ work'[q].part = work[q].part + 1
           \/ /\ work'[q].step # "send" /\ work'[q].part = work[q].part
              /\ work[q].part = Parts[work[q].job]
    BY <2>1 DEF Continue, Busy
  <2>3. Away(q)' = Away(q)
    BY <2>1, <2>2 DEF Away, Busy
  <2> QED
    BY <1>2, <2>1, <2>2, <2>3
<1>5. ASSUME NEW q \in Queues, Record(q) PROVE RunInv'
  <2>1. /\ work[q].step = "record" /\ work[q] \in Busy /\ work[q] # Idle
        /\ work' = [work EXCEPT ![q].step = "finish"] /\ sent' = sent
    BY <1>5, HandType DEF Record
  <2>2. /\ work'[q].job = work[q].job /\ work'[q].sock = work[q].sock /\ work'[q].part = work[q].part
        /\ work'[q].step = "finish" /\ \A p \in Queues \ {q} : work'[p] = work[p]
    BY <2>1 DEF TypeOK, WorkOK, Busy
  <2>3. Away(q)' = Away(q)
    BY <2>1, <2>2 DEF Away
  <2>4. work[q].part = Parts[work[q].job]
    BY <2>1 DEF RunInv
  <2> QED
    BY <1>2, <2>1, <2>2, <2>3, <2>4
<1>6. ASSUME NEW q \in Queues, Transmit(q) PROVE RunInv'
  <2> DEFINE n == Len(sent[q])
             m == Away(q)
  <2>1. /\ work[q] \in Busy /\ work[q] # Idle /\ work[q].step = "send"
        /\ work'[q].job = work[q].job /\ work'[q].part = work[q].part
        /\ work'[q].sock = work[q].sock /\ work'[q].step = "ack"
        /\ n \in Nat /\ Len(sent'[q]) = n + 1
        /\ \A p \in Queues \ {q} : sent'[p] = sent[p] /\ work'[p] = work[p]
    BY <1>6, Transmitted
  <2>2. /\ sent'[q][n + 1] = [job |-> work[q].job, part |-> work[q].part, sock |-> work[q].sock]
        /\ \A i \in 1..n : sent'[q][i] = sent[q][i]
    BY <1>6, Transmitted
  <2>3. m \in Nat /\ m = work[q].part - 1 /\ Away(q)' = m + 1 /\ m <= n
    BY <2>1 DEF Away, Busy, RunInv
  <2>4. \A k \in 1..m : sent[q][n - m + k] = [job |-> work[q].job, part |-> k, sock |-> work[q].sock]
    BY <2>1 DEF RunInv
  <2>5. \A p \in Queues \ {q} : Away(p)' = Away(p)
    BY <2>1 DEF Away
  <2> HIDE DEF n, m
  <2>6. ASSUME NEW k \in 1..m + 1
        PROVE  sent'[q][(n + 1) - (m + 1) + k] = [job |-> work[q].job, part |-> k, sock |-> work[q].sock]
    <3>1. CASE k \in 1..m
      <4>0. n \in Nat /\ m \in Nat /\ k \in Nat /\ 1 <= k /\ k <= m /\ m <= n
        BY <2>1, <2>3, <3>1
      <4>1. (n + 1) - (m + 1) + k = n - m + k /\ n - m + k \in 1..n
        BY <4>0
      <4> QED
        BY <2>2, <2>4, <3>1, <4>1
    <3>2. CASE k = m + 1
      <4>1. (n + 1) - (m + 1) + k = n + 1 /\ k = work[q].part
        BY <2>1, <2>3, <3>2 DEF Busy
      <4> QED
        BY <2>2, <4>1
    <3> QED
      BY <2>3, <3>1, <3>2
  <2>7. m + 1 <= n + 1
    BY <2>1, <2>3
  <2>8. /\ Away(q)' <= Len(sent'[q])
        /\ \A k \in 1..Away(q)' :
             sent'[q][Len(sent'[q]) - Away(q)' + k] = [job |-> work'[q].job, part |-> k, sock |-> work'[q].sock]
        /\ work'[q].step \notin {"record", "finish"}
    BY <2>1, <2>3, <2>6, <2>7
  <2>9. \A p \in Queues \ {q} : work'[p] # Idle =>
          /\ Away(p)' <= Len(sent'[p])
          /\ \A k \in 1..Away(p)' :
               sent'[p][Len(sent'[p]) - Away(p)' + k] = [job |-> work'[p].job, part |-> k, sock |-> work'[p].sock]
          /\ work'[p].step \in {"record", "finish"} => work'[p].part = Parts[work'[p].job]
    BY <2>1, <2>5 DEF RunInv
  <2> QED
    BY <2>8, <2>9 DEF RunInv
<1>7. CASE Crash
  BY <1>7 DEF Crash, RunInv
<1>8. ASSUME NEW j \in Jobs, Add(j) \/ Backoff(j) PROVE UNCHANGED <<work, sent>>
  BY <1>8 DEF Add, Backoff
<1>9. Drop \/ Connect \/ UNCHANGED vars => UNCHANGED <<work, sent>>
  BY DEF Drop, Connect, vars
<1> QED
  BY <1>1, <1>3, <1>4, <1>5, <1>6, <1>7, <1>8, <1>9 DEF Next, QueueStep

\* The copies of a queue stay where they are.
LEMMA WholeKept ==
  ASSUME TypeOK, NEW r \in Replies, result[r] = "done", WholeReply, [Next]_vars
  PROVE  LET out == sent'["outbound"]
         IN \E i \in 0..(Len(out) - Parts[r]) : \A k \in 1..Parts[r] :
              out[i + k].job = r /\ out[i + k].part = k /\ out[i + k].sock = out[i + 1].sock
<1> DEFINE old == sent["outbound"]
           out == sent'["outbound"]
<1>1. PICK i \in 0..(Len(old) - Parts[r]) : \A k \in 1..Parts[r] :
              old[i + k].job = r /\ old[i + k].part = k /\ old[i + k].sock = old[i + 1].sock
  BY DEF WholeReply
<1>2. Parts[r] \in Nat \ {0}
  BY JobsAssumption DEF Jobs
<1>3. Len(old) \in Nat
  BY LenProperties DEF TypeOK, WireOK, Queues
<1>4. Len(out) \in Nat /\ Len(out) >= Len(old) /\ \A m \in 1..Len(old) : out[m] = old[m]
  <2>1. CASE sent' = sent
    BY <1>3, <2>1
  <2>2. CASE \E q \in Queues : Transmit(q)
    <3>1. PICK q \in Queues : Transmit(q)
      BY <2>2
    <3>2. CASE q = "outbound"
      <4>1. /\ Len(sent[q]) \in Nat /\ Len(sent'[q]) = Len(sent[q]) + 1
            /\ \A m \in 1..Len(sent[q]) : sent'[q][m] = sent[q][m]
        BY <3>1, Transmitted
      <4>2. Len(sent'[q]) \in Nat /\ Len(sent'[q]) >= Len(sent[q])
        BY <4>1
      <4> QED
        BY <3>2, <4>1, <4>2
    <3>3. CASE q # "outbound"
      <4>1. sent'["outbound"] = sent["outbound"]
        BY <3>1, <3>3, Transmitted DEF Queues
      <4> QED
        BY <1>3, <4>1
    <3> QED
      BY <3>2, <3>3
  <2> QED
    BY <2>1, <2>2, SentStep
<1> HIDE DEF old, out
<1>5. \A k \in 1..Parts[r] : i + k \in 1..Len(old)
  BY <1>1, <1>2, <1>3
<1>6. \A k \in 1..Parts[r] : out[i + k] = old[i + k]
  BY <1>4, <1>5
<1>7. 1 \in 1..Parts[r]
  BY <1>2
<1>8. i \in 0..(Len(out) - Parts[r])
  BY <1>1, <1>2, <1>3, <1>4
<1>9. \A k \in 1..Parts[r] : out[i + k].job = r /\ out[i + k].part = k /\ out[i + k].sock = out[i + 1].sock
  BY <1>1, <1>6, <1>7
<1> QED
  BY <1>8, <1>9 DEF out

LEMMA WholeStep == TypeOK /\ RunInv /\ WholeReply /\ [Next]_vars => WholeReply'
<1> SUFFICES ASSUME TypeOK, RunInv, WholeReply, [Next]_vars, NEW r \in Replies, result'[r] = "done"
             PROVE  LET out == sent'["outbound"]
                    IN \E i \in 0..(Len(out) - Parts[r]) : \A k \in 1..Parts[r] :
                         out[i + k].job = r /\ out[i + k].part = k /\ out[i + k].sock = out[i + 1].sock
  BY DEF WholeReply
<1>1. CASE result[r] = "done"
  BY <1>1, WholeKept
<1>2. CASE result[r] # "done"
  <2>1. PICK q \in Queues : Finish(q) /\ r = work[q].job
    <3>1. r \in Jobs
      BY DEF Jobs
    <3>2. PICK q \in Queues : Finish(q)
      BY <1>2, <3>1 DEF Next, QueueStep, Add, Backoff, Take, Transmit, Acked, SendFails, Record,
            RecordFails, Drop, Connect, Crash, Throw, vars, queueVars, TypeOK, QueueOK
    <3>3. r = work[q].job
      BY <1>2, <3>1, <3>2 DEF Finish, TypeOK, QueueOK
    <3> QED
      BY <3>2, <3>3
  <2>2. /\ work[q].step = "finish" /\ work[q] # Idle /\ sent' = sent /\ q = "outbound"
        /\ work[q].part = Parts[r] /\ Away(q) = Parts[r]
    <3>1. work[q].step = "finish" /\ work[q] # Idle /\ sent' = sent /\ QueueOf(r) = q
      BY <2>1, HandType DEF Finish
    <3>2. q = "outbound"
      BY <3>1, JobsAssumption DEF QueueOf
    <3>3. work[q].part = Parts[r]
      BY <2>1, <3>1 DEF RunInv
    <3> QED
      BY <3>1, <3>2, <3>3 DEF Away
  <2> DEFINE out == sent["outbound"]
             i == Len(out) - Parts[r]
  <2>3. Parts[r] \in Nat \ {0} /\ Len(out) \in Nat
    BY JobsAssumption, LenProperties DEF TypeOK, WireOK, Queues, Jobs
  <2>4. /\ Parts[r] <= Len(out)
        /\ \A k \in 1..Parts[r] : out[i + k] = [job |-> r, part |-> k, sock |-> work[q].sock]
    BY <2>1, <2>2 DEF RunInv
  <2>5. i \in 0..(Len(out) - Parts[r]) /\ 1 \in 1..Parts[r]
    BY <2>3, <2>4
  <2> HIDE DEF i, out
  <2>7. ASSUME NEW k \in 1..Parts[r]
        PROVE  out[i + k].job = r /\ out[i + k].part = k /\ out[i + k].sock = work[q].sock
    <3>1. out[i + k] = [job |-> r, part |-> k, sock |-> work[q].sock]
      BY <2>4
    <3> QED
      BY <3>1
  <2>6. \A k \in 1..Parts[r] : out[i + k].job = r /\ out[i + k].part = k /\ out[i + k].sock = out[i + 1].sock
    <3>1. out[i + 1].sock = work[q].sock
      BY <2>5, <2>7
    <3> QED
      BY <2>7, <3>1
  <2> QED
    BY <2>2, <2>5, <2>6 DEF out
<1> QED
  BY <1>1, <1>2

\* A reply that is done left whole, in order and on one socket, in its last attempt.
THEOREM RepliesAreWhole == Spec => []WholeReply
<1>1. Init => RunInv /\ WholeReply
  BY DEF Init, RunInv, WholeReply, Idle, Jobs
<1> QED
  BY <1>1, RunStep, WholeStep, TypeCorrect, PTL DEF Spec
-----------------------------------------------------------------------------
(* Wording: the runs of tick().  What one was handed, the checks had accepted. *)

Phases == {"idle", "listed", "chosen", "pushed", "trimmed"}
Runs == [at : Phases, seen : [Ids -> Templates \cup {Null}], pick : Ids \cup {Null},
         could : BOOLEAN, blind : Nat]

TemplatesAccepted ==
  /\ DOMAIN templates = Ids
  /\ \A i \in Ids : templates[i] = Null \/ /\ templates[i].pieces \in Templates
                                           /\ templates[i].active \in BOOLEAN
                                           /\ Accepted(templates[i].pieces)

RunOK(r) ==
  /\ r \in Runs
  /\ \A i \in Ids : r.seen[i] # Null => Accepted(r.seen[i])
  /\ r.at \in {"chosen", "pushed", "trimmed"} => r.pick \in Ids /\ r.seen[r.pick] # Null
  /\ r.at \in {"idle", "listed"} => r.blind = 0

RunsInv ==
  /\ TemplatesAccepted
  /\ openers \in [Openers -> Runs]
  /\ \A o \in Openers : RunOK(openers[o])

LEMMA NoOpeningOK == NoOpening.at = "idle" /\ RunOK(NoOpening)
BY DEF NoOpening, RunOK, Runs, Phases

LEMMA TemplatesStep ==
  ASSUME TemplatesAccepted, Edit
  PROVE  TemplatesAccepted'
<1>1. ASSUME NEW template \in Templates, NEW active \in BOOLEAN, Create(template, active)
      PROVE  TemplatesAccepted'
  BY <1>1 DEF TemplatesAccepted, Create
<1>2. ASSUME NEW x \in Ids, NEW template \in Templates \cup {Null}, NEW active \in BOOLEAN,
             Update(x, template, active)
      PROVE  TemplatesAccepted'
  BY <1>2 DEF TemplatesAccepted, Update
<1>3. ASSUME NEW x \in Ids, Delete(x)
      PROVE  TemplatesAccepted'
  BY <1>3 DEF TemplatesAccepted, Delete
<1> QED
  BY <1>1, <1>2, <1>3 DEF Edit

\* A step of one run changes its own record and, if it is lpush, what the others missed.
LEMMA ListOK ==
  ASSUME RunsInv, NEW o \in Openers, List(o)
  PROVE  RunOK(openers'[o])
<1> DEFINE seen == [i \in Ids |-> IF i \in Active THEN templates[i].pieces ELSE Null]
<1>1. openers'[o] = [NoOpening EXCEPT !.at = "listed", !.seen = seen]
  BY DEF List, RunsInv
<1>2. seen \in [Ids -> Templates \cup {Null}]
  BY DEF RunsInv, TemplatesAccepted, Active
<1>3. \A i \in Ids : seen[i] # Null => Accepted(seen[i])
  BY DEF RunsInv, TemplatesAccepted, Active
<1> HIDE DEF seen
<1>4. openers'[o] = [at |-> "listed", seen |-> seen, pick |-> Null, could |-> FALSE, blind |-> 0]
  BY <1>1 DEF NoOpening
<1> QED
  BY <1>2, <1>3, <1>4 DEF RunOK, Runs, Phases

LEMMA ChooseOK ==
  ASSUME RunsInv, NEW o \in Openers, NEW i \in Ids, Choose(o, i)
  PROVE  /\ openers[o].at = "listed" /\ i \in Seen(o) /\ i \in Pool(o)
         /\ openers'[o] = [at |-> "chosen", seen |-> openers[o].seen, pick |-> i,
                           could |-> Cardinality(Seen(o)) > Len(recent), blind |-> 0]
         /\ RunOK(openers'[o])
<1> DEFINE r == openers[o]
           c == Cardinality(Seen(o)) > Len(recent)
<1>1. r \in Runs /\ RunOK(r) /\ r.at = "listed" /\ r.blind = 0
  BY DEF RunsInv, RunOK, Choose
<1>2. i \in Pool(o) /\ i \in Seen(o)
  BY DEF Choose, Pool
<1>3. openers'[o] = [r EXCEPT !.at = "chosen", !.pick = i, !.could = c]
  BY DEF Choose, RunsInv
<1>4. c \in BOOLEAN
  OBVIOUS
<1> HIDE DEF r, c
<1>5. openers'[o] = [at |-> "chosen", seen |-> r.seen, pick |-> i, could |-> c, blind |-> 0]
  BY <1>1, <1>3 DEF Runs
<1>6. r.seen[i] # Null
  BY <1>2 DEF Seen, r
<1>7. RunOK(openers'[o])
  BY <1>1, <1>4, <1>5, <1>6 DEF RunOK, Runs, Phases
<1> QED
  BY <1>1, <1>2, <1>5, <1>7 DEF r, c

LEMMA OpenerStep ==
  ASSUME RunsInv, NEW o \in Openers, Opening(o)
  PROVE  /\ templates' = templates /\ openers' = [p \in Openers |-> openers'[p]]
         /\ \A p \in Openers : RunOK(openers'[p])
         /\ \A p \in Openers \ {o} :
              \/ openers'[p] = openers[p]
              \/ Push(o) /\ openers[p].at = "chosen"
<1>1. CASE List(o)
  BY <1>1, ListOK DEF List, RunsInv
<1>2. ASSUME NEW i \in Ids, Choose(o, i)
      PROVE  /\ templates' = templates /\ openers' = [p \in Openers |-> openers'[p]]
             /\ RunOK(openers'[o]) /\ \A p \in Openers \ {o} : openers'[p] = openers[p]
  BY <1>2, ChooseOK DEF Choose, RunsInv
<1>3. CASE Push(o)
  <2>1. templates' = templates /\ openers' = [p \in Openers |-> openers'[p]]
    BY <1>3 DEF Push
  <2>2. ASSUME NEW p \in Openers
        PROVE  /\ RunOK(openers'[p])
               /\ p # o => openers'[p] = openers[p] \/ openers[p].at = "chosen"
    <3> DEFINE r == openers[p]
    <3>1. r \in Runs /\ RunOK(r)
      BY DEF RunsInv, RunOK
    <3>2. CASE p = o
      <4>1. openers'[p] = [r EXCEPT !.at = "pushed"] /\ r.at = "chosen"
        BY <1>3, <3>2 DEF Push
      <4> HIDE DEF r
      <4> QED
        BY <3>1, <3>2, <4>1 DEF RunOK, Runs, Phases
    <3>3. CASE p # o /\ r.at = "chosen"
      <4>1. openers'[p] = [r EXCEPT !.blind = @ + 1]
        BY <1>3, <3>3 DEF Push
      <4> HIDE DEF r
      <4>2. RunOK(openers'[p])
        BY <3>1, <3>3, <4>1 DEF RunOK, Runs, Phases
      <4> QED
        BY <3>3, <4>2 DEF r
    <3>4. CASE p # o /\ r.at # "chosen"
      BY <1>3, <3>1, <3>4 DEF Push
    <3> QED
      BY <3>2, <3>3, <3>4
  <2> QED
    BY <1>3, <2>1, <2>2
<1>4. CASE LTrim(o)
  <2> DEFINE r == openers[o]
  <2>1. r \in Runs /\ RunOK(r) /\ r.at = "pushed"
    BY <1>4 DEF RunsInv, RunOK, LTrim
  <2>2. /\ templates' = templates /\ openers' = [p \in Openers |-> openers'[p]]
        /\ openers'[o] = [r EXCEPT !.at = "trimmed"]
        /\ \A p \in Openers \ {o} : openers'[p] = openers[p]
    BY <1>4 DEF LTrim, RunsInv
  <2> HIDE DEF r
  <2>3. RunOK(openers'[o])
    BY <2>1, <2>2 DEF RunOK, Runs, Phases
  <2> QED
    BY <2>2, <2>3 DEF RunsInv
<1>5. ASSUME openers' = [openers EXCEPT ![o] = NoOpening]
      PROVE  /\ openers' = [p \in Openers |-> openers'[p]]
             /\ RunOK(openers'[o]) /\ \A p \in Openers \ {o} : openers'[p] = openers[p]
  BY <1>5, NoOpeningOK DEF RunsInv
<1>6. CASE Abandon(o) \/ \E name \in Names, allowLink \in BOOLEAN : Open(o, name, allowLink)
  <2>1. openers' = [openers EXCEPT ![o] = NoOpening] /\ templates' = templates
    BY <1>6 DEF Abandon, Open
  <2> QED
    BY <1>5, <2>1 DEF RunsInv
<1>7. CASE \E i \in Ids : Choose(o, i)
  BY <1>2, <1>7 DEF RunsInv
<1> QED
  BY <1>1, <1>3, <1>4, <1>6, <1>7 DEF Opening

LEMMA RunsStep ==
  ASSUME RunsInv, [WordingNext]_wordingVars
  PROVE  RunsInv'
<1>1. CASE UNCHANGED <<templates, openers>>
  BY <1>1 DEF RunsInv, TemplatesAccepted
<1>2. CASE Edit
  <2>1. openers' = openers
    BY <1>2 DEF Edit
  <2> QED
    BY <1>2, <2>1, TemplatesStep DEF RunsInv
<1>3. ASSUME NEW o \in Openers, Opening(o) PROVE RunsInv'
  <2>1. templates' = templates
    BY <1>3, OpenerStep
  <2>2. TemplatesAccepted'
    BY <2>1 DEF RunsInv, TemplatesAccepted
  <2>3. /\ openers' = [p \in Openers |-> openers'[p]]
        /\ \A p \in Openers : RunOK(openers'[p])
    BY <1>3, OpenerStep
  <2>4. \A p \in Openers : openers'[p] \in Runs
    BY <2>3 DEF RunOK
  <2>5. openers' \in [Openers -> Runs]
    BY <2>3, <2>4, Zenon
  <2> QED
    BY <2>2, <2>3, <2>5 DEF RunsInv
<1>4. CASE Expire \/ (\E wants \in BOOLEAN : Ask(wants)) \/ Model
  BY <1>1, <1>4 DEF Expire, Ask, Model, Answer, NoAnswer, flow
<1> QED
  BY <1>1, <1>2, <1>3, <1>4 DEF WordingNext, wordingVars

LEMMA RunsInit == WordingInit => RunsInv
<1> SUFFICES ASSUME WordingInit PROVE RunsInv
  OBVIOUS
<1>1. TemplatesAccepted
  BY DEF WordingInit, TemplatesAccepted
<1>2. openers = [o \in Openers |-> NoOpening]
  BY DEF WordingInit
<1>3. NoOpening \in Runs
  BY NoOpeningOK DEF RunOK
<1>4. openers \in [Openers -> Runs] /\ \A o \in Openers : openers[o] = NoOpening
  BY <1>2, <1>3
<1> QED
  BY <1>1, <1>4, NoOpeningOK DEF RunsInv

-----------------------------------------------------------------------------
(* Wording: the rotation of the templates of a chip, through any edits and    *)
(* any number of runs at once.                                                *)

Picks == [id : Ids, could : BOOLEAN, blind : Nat]

\* None of the RECENT choices behind the newest b is i.
Apart(b, i) == \A m \in b + 1..b + RECENT : m \in 1..Len(picks) => picks[m].id # i

\* The front of the list the code keeps is that of the history; and who has drawn kept apart
\* from the list it read, which the pushes it missed have moved back.
RotationInv ==
  /\ recent \in Seq(Ids) /\ picks \in Seq(Picks)
  /\ \A n \in 1..RECENT : n \in 1..Len(picks) => n \in 1..Len(recent) /\ recent[n] = picks[n].id
  /\ \A o \in Openers : openers[o].at = "chosen" /\ openers[o].could =>
       Apart(openers[o].blind, openers[o].pick)
  /\ Rotates

LEMMA LeastOfTwo ==
  ASSUME NEW a \in Int, NEW b \in Int
  PROVE  Min({a, b}) = IF a < b THEN a ELSE b
BY DEF Min

\* lpush: the newest first.
LEMMA PushedFirst ==
  ASSUME NEW S, NEW s \in Seq(S), NEW x \in S
  PROVE  /\ <<x>> \o s \in Seq(S) /\ Len(<<x>> \o s) = Len(s) + 1
         /\ (<<x>> \o s)[1] = x
         /\ \A n \in 2..Len(s) + 1 : (<<x>> \o s)[n] = s[n - 1]
<1>1. <<x>> \in Seq(S) /\ Len(<<x>>) = 1 /\ <<x>>[1] = x
  OBVIOUS
<1> QED
  BY <1>1, ConcatProperties

\* ltrim: the first RECENT stay.
LEMMA KeptFirst ==
  ASSUME RECENT \in Nat, NEW s \in Seq(Ids)
  PROVE  /\ Kept(s) \in Seq(Ids)
         /\ \A n \in 1..RECENT : n \in 1..Len(s) => n \in 1..Len(Kept(s)) /\ Kept(s)[n] = s[n]
<1> DEFINE k == IF RECENT < Len(s) THEN RECENT ELSE Len(s)
           t == SubSeq(s, 1, k)
<1>1. Len(s) \in Nat /\ k \in Nat /\ k <= Len(s)
  OBVIOUS
<1>2. Kept(s) = t
  BY <1>1, LeastOfTwo DEF Kept
<1>3. \A n \in 1..RECENT : n \in 1..Len(s) => n \in 1..k
  BY <1>1
<1> HIDE DEF k
<1>4. \A n \in 1..k : s[n] \in Ids
  BY <1>1, ElementOfSeq
<1>5. t \in Seq(Ids) /\ Len(t) = k
  BY <1>1, <1>4, SubSeqProperties
<1>6. \A n \in 1..k - 1 + 1 : t[n] = s[1 + n - 1]
  BY <1>1, <1>4, SubSeqProperties
<1>7. \A n \in 1..k : t[n] = s[n]
  BY <1>1, <1>6
<1> HIDE DEF t
<1> QED
  BY <1>2, <1>3, <1>5, <1>7

\* A set of templates within a list has no more members than the list has places.
LEMMA FewRecent ==
  ASSUME NEW s \in Seq(Ids), NEW A, A \subseteq ToSet(s)
  PROVE  Cardinality(A) \in 0..Len(s)
<1>1. s \in Surjection(1..Len(s), ToSet(s))
  BY DEF ToSet, Surjection
<1>2. IsFiniteSet(1..Len(s)) /\ Cardinality(1..Len(s)) = Len(s)
  <2>1. Len(s) \in Nat
    OBVIOUS
  <2> QED
    BY <2>1, FS_Interval
<1>3. IsFiniteSet(ToSet(s)) /\ Cardinality(ToSet(s)) <= Len(s)
  BY <1>1, <1>2, FS_Surjection
<1>4. IsFiniteSet(A) /\ Cardinality(A) <= Cardinality(ToSet(s))
  BY <1>3, FS_Subset
<1> QED
  BY <1>3, <1>4, FS_CardinalityType

\* Who had a choice draws none of the recent ones.
LEMMA Drawn ==
  ASSUME RotationInv, RECENT \in Nat, NEW o \in Openers, NEW i \in Pool(o),
         Cardinality(Seen(o)) > Len(recent)
  PROVE  Apart(0, i)
<1>1. recent \in Seq(Ids) /\ Len(recent) \in Nat
  BY DEF RotationInv
<1>2. ~(Seen(o) \subseteq ToSet(recent))
  <2> SUFFICES ASSUME Seen(o) \subseteq ToSet(recent) PROVE FALSE
    OBVIOUS
  <2>1. Cardinality(Seen(o)) \in 0..Len(recent)
    BY <1>1, FewRecent
  <2> QED
    BY <1>1, <2>1
<1>3. i \notin ToSet(recent)
  BY <1>2 DEF Pool
<1>4. \A n \in 1..Len(recent) : recent[n] # i
  BY <1>1, <1>3 DEF ToSet
<1>5. \A m \in 1..RECENT : m \in 1..Len(picks) => picks[m].id # i
  BY <1>4 DEF RotationInv
<1> QED
  BY <1>5 DEF Apart

\* A push moves back what the others keep apart from.
LEMMA Missed ==
  ASSUME NEW s \in Seq(Picks), NEW x \in Picks, picks = s, picks' = <<x>> \o s,
         RECENT \in Nat, NEW b \in Nat, NEW i, Apart(b, i)
  PROVE  \A m \in b + 2..b + 1 + RECENT : m \in 1..Len(picks') => picks'[m].id # i
<1> SUFFICES ASSUME NEW m \in b + 2..b + 1 + RECENT, m \in 1..Len(picks')
             PROVE  picks'[m].id # i
  OBVIOUS
<1>1. Len(picks') = Len(s) + 1 /\ Len(s) \in Nat
  BY PushedFirst
<1>2. m \in 2..Len(s) + 1 /\ m - 1 \in b + 1..b + RECENT /\ m - 1 \in 1..Len(s)
  BY <1>1
<1>3. picks'[m] = s[m - 1]
  BY <1>2, PushedFirst
<1> QED
  BY <1>2, <1>3 DEF Apart

LEMMA PushStep ==
  ASSUME RECENT \in Nat \ {0}, RunsInv, RotationInv, NEW o \in Openers, Push(o)
  PROVE  RotationInv'
<1> DEFINE r == openers[o]
           x == [id |-> r.pick, could |-> r.could, blind |-> r.blind]
           s == picks
<1>1. RunOK(r) /\ r.at = "chosen" /\ r.pick \in Ids /\ r.could \in BOOLEAN /\ r.blind \in Nat
  BY DEF Push, RunsInv, RunOK, Runs
<1>2. x \in Picks /\ x.id = r.pick /\ x.could = r.could /\ x.blind = r.blind
  BY <1>1 DEF Picks
<1>3. s \in Seq(Picks) /\ picks' = <<x>> \o s /\ recent' = <<r.pick>> \o recent
  BY DEF Push, RotationInv
<1>4. r.could => Apart(r.blind, r.pick)
  BY <1>1 DEF RotationInv
<1> HIDE DEF x, r
<1>5. /\ picks' \in Seq(Picks) /\ Len(picks') = Len(s) + 1 /\ picks'[1] = x
      /\ \A n \in 2..Len(s) + 1 : picks'[n] = s[n - 1]
  <2> HIDE DEF s
  <2> QED
    BY <1>2, <1>3, PushedFirst
<1>6. /\ recent \in Seq(Ids) /\ recent' \in Seq(Ids) /\ Len(recent') = Len(recent) + 1
      /\ recent'[1] = r.pick
      /\ \A n \in 2..Len(recent) + 1 : recent'[n] = recent[n - 1]
  <2>1. recent \in Seq(Ids)
    BY DEF RotationInv
  <2> QED
    BY <1>1, <1>3, <2>1, PushedFirst
<1>7. Len(s) \in Nat /\ Len(recent) \in Nat
  BY <1>3, <1>6
<1>8. ASSUME NEW n \in 1..RECENT, n \in 1..Len(picks')
      PROVE  n \in 1..Len(recent') /\ recent'[n] = picks'[n].id
  <2>1. CASE n = 1
    BY <1>2, <1>5, <1>6, <1>7, <2>1
  <2>2. CASE n # 1
    <3>1. n - 1 \in 1..RECENT /\ n - 1 \in 1..Len(picks) /\ n \in 2..Len(s) + 1
      BY <1>5, <1>7, <1>8, <2>2
    <3>2. n - 1 \in 1..Len(recent) /\ recent[n - 1] = picks[n - 1].id
      BY <3>1 DEF RotationInv
    <3>3. n \in 2..Len(recent) + 1 /\ n \in 1..Len(recent')
      BY <1>6, <1>7, <3>1, <3>2
    <3> QED
      BY <1>5, <1>6, <3>1, <3>2, <3>3
  <2> QED
    BY <2>1, <2>2
<1>9. ASSUME NEW p \in Openers, openers'[p].at = "chosen", openers'[p].could
      PROVE  \A m \in openers'[p].blind + 1..openers'[p].blind + RECENT :
               m \in 1..Len(picks') => picks'[m].id # openers'[p].pick
  <2> DEFINE q == openers[p]
  <2>1. RunOK(q) /\ q \in Runs
    BY DEF RunsInv, RunOK
  <2>2. p # o
    <3> SUFFICES ASSUME p = o PROVE FALSE
      OBVIOUS
    <3>1. openers'[p] = [q EXCEPT !.at = "pushed"]
      BY DEF Push
    <3> HIDE DEF q
    <3>2. openers'[p].at = "pushed"
      BY <2>1, <3>1 DEF Runs
    <3> QED
      BY <1>9, <3>2
  <2>3. q.at = "chosen" /\ openers'[p] = [q EXCEPT !.blind = @ + 1]
    BY <1>9, <2>2 DEF Push
  <2>4. RotationInv
    OBVIOUS
  <2>5. q.could => Apart(q.blind, q.pick)
    BY <2>3, <2>4 DEF RotationInv
  <2> HIDE DEF q
  <2>6. /\ openers'[p].blind = q.blind + 1 /\ openers'[p].pick = q.pick
        /\ openers'[p].could = q.could /\ q.blind \in Nat
    BY <2>1, <2>3 DEF Runs
  <2>7. Apart(q.blind, q.pick)
    BY <1>9, <2>5, <2>6
  <2>8. \A m \in q.blind + 2..q.blind + 1 + RECENT :
          m \in 1..Len(picks') => picks'[m].id # q.pick
    <3> DEFINE b == q.blind
               i == q.pick
    <3>1. b \in Nat /\ Apart(b, i)
      BY <2>6, <2>7
    <3> HIDE DEF b, i
    <3>2. \A m \in b + 2..b + 1 + RECENT : m \in 1..Len(picks') => picks'[m].id # i
      BY <1>2, <1>3, <3>1, Missed
    <3> QED
      BY <3>2 DEF b, i
  <2>9. q.blind + 1 + 1 = q.blind + 2
    BY <2>6
  <2> QED
    BY <2>6, <2>8, <2>9
<1>10. Rotates'
  <2> SUFFICES ASSUME NEW n \in 1..Len(picks'), picks'[n].could,
                      NEW m \in n + picks'[n].blind + 1..n + picks'[n].blind + RECENT,
                      m \in 1..Len(picks')
               PROVE  picks'[m].id # picks'[n].id
    BY <1>5 DEF Rotates
  <2>1. CASE n = 1
    <3>1. x.could /\ x.blind \in Nat /\ picks'[n] = x
      BY <1>1, <1>2, <1>5, <2>1
    <3>2. m \in 2..Len(s) + 1 /\ m - 1 \in x.blind + 1..x.blind + RECENT /\ m - 1 \in 1..Len(s)
      BY <1>5, <1>7, <2>1, <3>1
    <3>3. picks'[m] = s[m - 1]
      BY <1>5, <3>2
    <3>4. Apart(x.blind, x.id)
      BY <1>2, <1>4, <3>1
    <3> QED
      BY <3>1, <3>2, <3>3, <3>4 DEF Apart
  <2>2. CASE n # 1
    <3>1. n \in 2..Len(s) + 1 /\ n - 1 \in 1..Len(s)
      BY <1>5, <1>7, <2>2
    <3>2. picks'[n] = s[n - 1] /\ s[n - 1] \in Picks
      BY <1>3, <1>5, <3>1, ElementOfSeq
    <3> DEFINE b == s[n - 1].blind
    <3>3. b \in Nat /\ picks'[n].blind = b
      BY <3>2 DEF Picks
    <3> HIDE DEF b
    <3>4. m \in n + b + 1..n + b + RECENT
      BY <3>3
    <3>5. m \in 2..Len(s) + 1 /\ m - 1 \in 1..Len(s) /\ m - 1 \in (n - 1) + b + 1..(n - 1) + b + RECENT
      BY <1>5, <1>7, <3>1, <3>3, <3>4
    <3>6. picks'[m] = s[m - 1]
      BY <1>5, <3>5
    <3>7. Rotates /\ DOMAIN picks = 1..Len(picks)
      BY <1>3 DEF RotationInv
    <3> QED
      BY <3>1, <3>2, <3>5, <3>6, <3>7 DEF Rotates, b
  <2> QED
    BY <2>1, <2>2
<1> QED
  BY <1>5, <1>6, <1>8, <1>9, <1>10 DEF RotationInv, Apart

LEMMA RotationStep ==
  ASSUME RECENT \in Nat \ {0}, RunsInv, RotationInv, [WordingNext]_wordingVars
  PROVE  RotationInv'
<1>1. CASE UNCHANGED <<recent, openers, picks>>
  BY <1>1 DEF RotationInv, Rotates, Apart
<1>2. CASE Expire
  <2>1. recent' = <<>> /\ picks' = <<>>
    BY <1>2 DEF Expire
  <2>2. recent' \in Seq(Ids) /\ picks' \in Seq(Picks) /\ Len(picks') = 0
    BY <2>1
  <2> QED
    BY <2>1, <2>2 DEF RotationInv, Rotates, Apart
<1>3. ASSUME UNCHANGED <<recent, picks>>, NEW o \in Openers,
             \A p \in Openers \ {o} : openers'[p] = openers[p],
             openers'[o].at = "chosen" /\ openers'[o].could =>
               Apart(openers'[o].blind, openers'[o].pick)
      PROVE  RotationInv'
  BY <1>3 DEF RotationInv, Rotates, Apart
<1>4. ASSUME NEW o \in Openers, List(o) \/ Abandon(o)
                \/ \E name \in Names, allowLink \in BOOLEAN : Open(o, name, allowLink)
      PROVE  RotationInv'
  <2>1. UNCHANGED <<recent, picks>> /\ Opening(o) /\ ~Push(o)
    BY <1>4 DEF List, Abandon, Open, Opening, Push, NoOpening
  <2>2. \A p \in Openers \ {o} : openers'[p] = openers[p]
    BY <2>1, OpenerStep
  <2>3. openers'[o].at # "chosen"
    BY <1>4 DEF List, Abandon, Open, NoOpening, RunsInv
  <2> QED
    BY <1>3, <2>1, <2>2, <2>3
<1>5. ASSUME NEW o \in Openers, NEW i \in Ids, Choose(o, i) PROVE RotationInv'
  <2>1. UNCHANGED <<recent, picks>> /\ \A p \in Openers \ {o} : openers'[p] = openers[p]
    BY <1>5 DEF Choose, RunsInv
  <2>2. /\ i \in Pool(o)
        /\ openers'[o] = [at |-> "chosen", seen |-> openers[o].seen, pick |-> i,
                          could |-> Cardinality(Seen(o)) > Len(recent), blind |-> 0]
    BY <1>5, ChooseOK
  <2>3. openers'[o].could => Apart(openers'[o].blind, openers'[o].pick)
    <3> DEFINE c == Cardinality(Seen(o)) > Len(recent)
    <3>1. c => Apart(0, i)
      BY <2>2, Drawn
    <3> HIDE DEF c
    <3>2. openers'[o].could = c /\ openers'[o].blind = 0 /\ openers'[o].pick = i
      BY <2>2 DEF c
    <3> QED
      BY <3>1, <3>2
  <2> QED
    BY <1>3, <2>1, <2>3
<1>6. ASSUME NEW o \in Openers, LTrim(o) PROVE RotationInv'
  <2>1. picks' = picks /\ recent' = Kept(recent)
    BY <1>6 DEF LTrim
  <2>2. recent \in Seq(Ids)
    BY DEF RotationInv
  <2>3. /\ recent' \in Seq(Ids)
        /\ \A n \in 1..RECENT : n \in 1..Len(recent) =>
             n \in 1..Len(recent') /\ recent'[n] = recent[n]
    BY <2>1, <2>2, KeptFirst
  <2>4. \A n \in 1..RECENT : n \in 1..Len(picks') =>
          n \in 1..Len(recent') /\ recent'[n] = picks'[n].id
    BY <2>1, <2>3 DEF RotationInv
  <2>5. \A p \in Openers \ {o} : openers'[p] = openers[p]
    BY <1>6 DEF LTrim, RunsInv
  <2>6. openers'[o].at = "trimmed"
    BY <1>6 DEF LTrim, RunsInv, RunOK, Runs
  <2> QED
    BY <2>1, <2>3, <2>4, <2>5, <2>6 DEF RotationInv, Rotates, Apart
<1>7. ASSUME NEW o \in Openers, Opening(o) PROVE RotationInv'
  BY <1>4, <1>5, <1>6, <1>7, PushStep DEF Opening
<1>8. CASE Edit \/ (\E wants \in BOOLEAN : Ask(wants)) \/ Model
  BY <1>1, <1>8 DEF Edit, Ask, Model, Answer, NoAnswer, flow
<1> QED
  BY <1>1, <1>2, <1>7, <1>8 DEF WordingNext, wordingVars

\* Through every edit of the templates and with any number of runs of tick() at once, one
\* that was handed more of them than the list it read is long chooses none of the RECENT
\* last choices of the chip, but for those it missed (scheduler.service.ts:180-184, 349-362).
THEOREM OpeningsRotate == WordingSpec => []Rotates
<1>. RECENT \in Nat \ {0}
  BY LengthsAssumption
<1>1. WordingInit => RotationInv
  BY DEF WordingInit, RotationInv, Rotates, NoOpening
<1>2. RotationInv => Rotates
  BY DEF RotationInv
<1> QED
  BY <1>1, <1>2, RunsInit, RunsStep, RotationStep, PTL DEF WordingSpec
-----------------------------------------------------------------------------
(* Texts put together.  The induction is over a set of numbers: what has no   *)
(* least member is empty.                                                     *)

Before == {p \in Nat \X Nat : p[1] < p[2]}

LEMMA LeastNumber ==
  ASSUME NEW T \in SUBSET Nat, T # {}
  PROVE  \E x \in T : \A y \in T : x <= y
<1>1. IsWellFoundedOn(Before, Nat)
  BY NatLessThanWellFounded DEF OpToRel, Before
<1>2. \E x \in T : \A y \in T : <<y, x>> \notin Before
  <2> HIDE DEF Before
  <2> QED
    BY <1>1, WFMin
<1>3. \A x, y \in Nat : <<y, x>> \notin Before => x <= y
  BY DEF Before
<1> QED
  BY <1>2, <1>3

LEMMA Climb ==
  ASSUME NEW T \in SUBSET Nat, 0 \in T, \A n \in T : n + 1 \in T
  PROVE  T = Nat
<1> SUFFICES ASSUME Nat \ T # {} PROVE FALSE
  OBVIOUS
<1>1. PICK x \in Nat \ T : \A y \in Nat \ T : x <= y
  BY LeastNumber
<1> QED
  BY <1>1

\* FlattenSeq is a recursive function: there is one, and it is its last value.
LEMMA Flattening ==
  ASSUME NEW W, NEW v \in Seq(Seq(W)), v # <<>>
  PROVE  \E f : /\ f \in [1..Len(v) -> Seq(W)]
                /\ f[1] = v[1]
                /\ \A i \in 2..Len(v) : f[i] = f[i - 1] \o v[i]
                /\ FlattenSeq(v) = f[Len(v)]
<1> DEFINE Is(f, n) == f = [i \in 1..n |-> IF i = 1 THEN v[i] ELSE f[i - 1] \o v[i]]
           Some == {n \in Nat : \E f : Is(f, n)}
<1>0. Len(v) \in Nat \ {0} /\ \A i \in 1..Len(v) : v[i] \in Seq(W)
  OBVIOUS
<1>1. 0 \in Some
  <2> DEFINE f == [i \in 1..0 |-> v[i]]
  <2>1. Is(f, 0)
    OBVIOUS
  <2> QED
    BY <2>1
<1>2. ASSUME NEW n \in Some PROVE n + 1 \in Some
  <2>1. PICK f : Is(f, n)
    OBVIOUS
  <2>2. n \in Nat /\ \A i \in 1..n : f[i] = IF i = 1 THEN v[i] ELSE f[i - 1] \o v[i]
    BY <2>1
  <2> DEFINE g == [i \in 1..n + 1 |-> IF i <= n THEN f[i]
                                      ELSE IF i = 1 THEN v[i] ELSE f[n] \o v[i]]
  <2>3. ASSUME NEW i \in 1..n + 1 PROVE g[i] = IF i = 1 THEN v[i] ELSE g[i - 1] \o v[i]
    <3>1. CASE i <= n
      <4>1. g[i] = f[i] /\ i \in 1..n /\ (i # 1 => g[i - 1] = f[i - 1])
        BY <2>2, <3>1
      <4> HIDE DEF g
      <4> QED
        BY <2>2, <4>1
    <3>2. CASE i = n + 1
      <4>1. g[i] = (IF i = 1 THEN v[i] ELSE f[n] \o v[i]) /\ (i # 1 => g[i - 1] = f[n])
        BY <2>2, <3>2
      <4> QED
        BY <4>1
    <3> QED
      BY <2>2, <3>1, <3>2
  <2>4. g = [i \in 1..n + 1 |-> g[i]]
    OBVIOUS
  <2> HIDE DEF g
  <2>5. Is(g, n + 1)
    BY <2>3, <2>4
  <2> HIDE DEF Is
  <2> QED
    BY <2>2, <2>5
<1>3. Some = Nat
  <2> HIDE DEF Some
  <2>1. Some \in SUBSET Nat
    BY DEF Some
  <2> QED
    BY <1>1, <1>2, <2>1, Climb
<1>4. \E f : Is(f, Len(v))
  <2> HIDE DEF Is
  <2> QED
    BY <1>0, <1>3
<1> DEFINE f == CHOOSE f : Is(f, Len(v))
<1>5. Is(f, Len(v))
  BY <1>4
<1>6. FlattenSeq(v) = f[Len(v)]
  BY DEF FlattenSeq
<1> HIDE DEF f
<1>8. \A i \in 1..Len(v) : f[i] = IF i = 1 THEN v[i] ELSE f[i - 1] \o v[i]
  BY <1>5
<1>9. \A i \in 1..Len(v) : f[i] \in Seq(W)
  <2> DEFINE Bad == {i \in 1..Len(v) : f[i] \notin Seq(W)}
  <2> SUFFICES ASSUME Bad # {} PROVE FALSE
    OBVIOUS
  <2>1. PICK x \in Bad : \A y \in Bad : x <= y
    <3>1. Bad \in SUBSET Nat
      OBVIOUS
    <3> HIDE DEF Bad
    <3> QED
      BY <3>1, LeastNumber
  <2>2. x \in 1..Len(v) /\ f[x] \notin Seq(W)
    OBVIOUS
  <2>3. x # 1 /\ x - 1 \in 1..Len(v)
    BY <1>0, <1>8, <2>2
  <2>4. f[x - 1] \in Seq(W)
    BY <2>1, <2>2, <2>3
  <2>5. f[x - 1] \o v[x] \in Seq(W)
    BY <1>0, <2>2, <2>4
  <2> QED
    BY <1>8, <2>2, <2>3, <2>5
<1>10. DOMAIN f = 1..Len(v)
  BY <1>5
<1>11. f = [i \in 1..Len(v) |-> f[i]]
  BY <1>5, <1>10
<1>12. f \in [1..Len(v) -> Seq(W)]
  BY <1>9, <1>11
<1>13. f[1] = v[1] /\ \A i \in 2..Len(v) : f[i] = f[i - 1] \o v[i]
  <2>1. f[1] = v[1]
    BY <1>0, <1>8
  <2>2. ASSUME NEW i \in 2..Len(v) PROVE f[i] = f[i - 1] \o v[i]
    <3>1. i \in 1..Len(v) /\ i # 1
      BY <1>0
    <3> QED
      BY <1>8, <3>1
  <2> QED
    BY <2>1, <2>2
<1> QED
  BY <1>6, <1>12, <1>13

\* Where the parts of a flattened sequence are: the n-th one begins after at[n - 1].
LEMMA Located ==
  ASSUME NEW W, NEW v \in Seq(Seq(W)), v # <<>>
  PROVE  LET t == FlattenSeq(v)
         IN  /\ t \in Seq(W)
             /\ \E at : /\ \A n \in 0..Len(v) : at[n] \in Nat
                        /\ at[0] = 0 /\ at[Len(v)] = Len(t)
                        /\ \A n \in 1..Len(v) :
                             /\ at[n] = at[n - 1] + Len(v[n])
                             /\ \A j \in 1..Len(v[n]) :
                                  at[n - 1] + j \in 1..Len(t) /\ t[at[n - 1] + j] = v[n][j]
                        /\ \A i \in 1..Len(t) : \E n \in 1..Len(v) :
                             i \in at[n - 1] + 1..at[n]
<1>1. PICK f : /\ f \in [1..Len(v) -> Seq(W)]
               /\ f[1] = v[1]
               /\ \A i \in 2..Len(v) : f[i] = f[i - 1] \o v[i]
               /\ FlattenSeq(v) = f[Len(v)]
  BY Flattening
<1> DEFINE at == [n \in 0..Len(v) |-> IF n = 0 THEN 0 ELSE Len(f[n])]
<1>2. Len(v) \in Nat \ {0} /\ \A n \in 1..Len(v) : v[n] \in Seq(W) /\ Len(v[n]) \in Nat
  OBVIOUS
<1>3. \A n \in 0..Len(v) : at[n] \in Nat
  BY <1>1
<1>4. at[0] = 0 /\ \A n \in 1..Len(v) : at[n] = Len(f[n])
  OBVIOUS
<1>5. \A n \in 1..Len(v) : at[n] = at[n - 1] + Len(v[n])
  <2> SUFFICES ASSUME NEW n \in 1..Len(v) PROVE at[n] = at[n - 1] + Len(v[n])
    OBVIOUS
  <2>1. CASE n = 1
    BY <1>1, <1>2, <1>4, <2>1
  <2>2. CASE n # 1
    <3>1. n \in 2..Len(v) /\ n - 1 \in 1..Len(v)
      BY <1>2, <2>2
    <3>2. f[n] = f[n - 1] \o v[n] /\ f[n - 1] \in Seq(W) /\ v[n] \in Seq(W)
      BY <1>1, <1>2, <3>1
    <3>3. Len(f[n]) = Len(f[n - 1]) + Len(v[n])
      BY <3>2, ConcatProperties
    <3> QED
      BY <1>4, <3>1, <3>3
  <2> QED
    BY <2>1, <2>2
<1> HIDE DEF at
\* What the first n parts make.
<1> DEFINE Fine(n) ==
      /\ \A m \in 1..n : \A j \in 1..Len(v[m]) :
           at[m - 1] + j \in 1..at[n] /\ f[n][at[m - 1] + j] = v[m][j]
      /\ \A i \in 1..at[n] : \E m \in 1..n : i \in at[m - 1] + 1..at[m]
<1>6. Fine(1)
  BY <1>1, <1>2, <1>3, <1>4, <1>5
<1>7. ASSUME NEW n \in 2..Len(v), Fine(n - 1) PROVE Fine(n)
  <2> DEFINE a == at[n - 1]
             b == Len(v[n])
             g == f[n - 1]
             h == f[n]
  <2>1. n \in 1..Len(v) /\ n - 1 \in 1..Len(v) /\ n \in Nat /\ n - 1 \in Nat
    BY <1>2
  <2>2. a \in Nat /\ b \in Nat /\ at[n] = a + b /\ a = Len(g)
    BY <1>2, <1>3, <1>4, <1>5, <2>1
  <2>3. h = g \o v[n] /\ g \in Seq(W) /\ v[n] \in Seq(W)
    BY <1>1, <1>2, <2>1
  <2>4. /\ \A m \in 1..n - 1 : \A j \in 1..Len(v[m]) :
             at[m - 1] + j \in 1..a /\ g[at[m - 1] + j] = v[m][j]
        /\ \A i \in 1..a : \E m \in 1..n - 1 : i \in at[m - 1] + 1..at[m]
    BY <1>7
  <2> HIDE DEF a, b, g, h, Fine
  <2>5. \A i \in 1..a + b : h[i] = IF i <= a THEN g[i] ELSE v[n][i - a]
    BY <2>2, <2>3, ConcatProperties DEF b
  <2>6. ASSUME NEW m \in 1..n, NEW j \in 1..Len(v[m])
        PROVE  at[m - 1] + j \in 1..at[n] /\ f[n][at[m - 1] + j] = v[m][j]
    <3>1. CASE m = n
      <4>1. j \in 1..b /\ at[m - 1] = a
        BY <3>1 DEF a, b
      <4> DEFINE k == a + j
      <4>2. k \in 1..a + b /\ ~(k <= a) /\ k - a = j
        BY <2>2, <4>1
      <4> HIDE DEF k
      <4>3. h[k] = v[n][j]
        BY <2>5, <4>2
      <4> QED
        BY <2>2, <3>1, <4>1, <4>2, <4>3 DEF h, k
    <3>2. CASE m # n
      <4>1. m \in 1..n - 1
        BY <2>1, <3>2
      <4> DEFINE k == at[m - 1] + j
      <4>2. k \in 1..a /\ g[k] = v[m][j]
        BY <2>4, <4>1
      <4> HIDE DEF k
      <4>3. k \in 1..a + b /\ k <= a
        BY <2>2, <4>2
      <4>4. h[k] = v[m][j]
        BY <2>5, <4>2, <4>3
      <4> QED
        BY <2>2, <4>3, <4>4 DEF k, h
    <3> QED
      BY <3>1, <3>2
  <2>7. ASSUME NEW i \in 1..at[n] PROVE \E m \in 1..n : i \in at[m - 1] + 1..at[m]
    <3>1. CASE i <= a
      <4>1. i \in 1..a
        BY <2>2, <3>1
      <4> QED
        BY <2>1, <2>4, <4>1
    <3>2. CASE ~(i <= a)
      <4>1. n \in 1..n
        BY <2>1
      <4>2. i \in a + 1..at[n]
        BY <2>2, <3>2
      <4> QED
        BY <4>1, <4>2 DEF a
    <3> QED
      BY <3>1, <3>2
  <2> QED
    BY <2>6, <2>7 DEF Fine
<1>8. Fine(Len(v))
  <2> DEFINE T == {n \in Nat : n \in 1..Len(v) => Fine(n)}
  <2> HIDE DEF Fine
  <2>1. T \in SUBSET Nat /\ 0 \in T
    OBVIOUS
  <2>2. ASSUME NEW n \in T PROVE n + 1 \in T
    <3>1. n \in Nat /\ n + 1 \in Nat /\ n + 1 - 1 = n
      OBVIOUS
    <3>2. CASE n = 0
      BY <1>6, <3>2
    <3>3. CASE n # 0 /\ n + 1 \in 1..Len(v)
      <4>1. n + 1 \in 2..Len(v) /\ n \in 1..Len(v)
        BY <1>2, <3>1, <3>3
      <4>2. Fine(n + 1 - 1)
        BY <3>1, <4>1
      <4> QED
        BY <1>7, <3>1, <4>1, <4>2
    <3> QED
      BY <3>1, <3>2, <3>3
  <2>3. T = Nat
    <3> HIDE DEF T
    <3> QED
      BY <2>1, <2>2, Climb
  <2> QED
    BY <1>2, <2>3
<1> DEFINE t == FlattenSeq(v)
<1>9. t = f[Len(v)] /\ t \in Seq(W) /\ Len(t) = at[Len(v)]
  <2>1. t = f[Len(v)] /\ Len(v) \in 1..Len(v)
    BY <1>1, <1>2
  <2> HIDE DEF t
  <2> QED
    BY <1>1, <1>4, <2>1
<1>10. \A n \in 1..Len(v) : \A j \in 1..Len(v[n]) :
         at[n - 1] + j \in 1..Len(t) /\ t[at[n - 1] + j] = v[n][j]
  BY <1>8, <1>9
<1>11. \A i \in 1..Len(t) : \E n \in 1..Len(v) : i \in at[n - 1] + 1..at[n]
  BY <1>8, <1>9
<1> HIDE DEF t, Fine
<1>12. /\ t \in Seq(W)
       /\ \E x : /\ \A n \in 0..Len(v) : x[n] \in Nat
                 /\ x[0] = 0 /\ x[Len(v)] = Len(t)
                 /\ \A n \in 1..Len(v) :
                      /\ x[n] = x[n - 1] + Len(v[n])
                      /\ \A j \in 1..Len(v[n]) :
                           x[n - 1] + j \in 1..Len(t) /\ t[x[n - 1] + j] = v[n][j]
                 /\ \A i \in 1..Len(t) : \E n \in 1..Len(v) :
                      i \in x[n - 1] + 1..x[n]
  BY <1>3, <1>4, <1>5, <1>9, <1>10, <1>11
<1> QED
  BY <1>12 DEF t
-----------------------------------------------------------------------------
(* "abertura NUNCA leva link".                                               *)

\* A listed domain is three things in a row.
LEMMA LinkIsThree ==
  ASSUME NEW t \in Seq(STRING)
  PROVE  ListedLink(t) <=>
           \E i \in 2..Len(t) - 1 : t[i] = "." /\ IsWord(t[i - 1])
                                    /\ IsWord(t[i + 1]) /\ t[i + 1] \in Endings
<1>1. DOMAIN t = 1..Len(t) /\ Len(t) \in Nat
  OBVIOUS
<1>2. ASSUME NEW i \in 1..Len(t), DotAt(t, i), t[i] = ".", t[i + 1] \in Endings
      PROVE  i \in 2..Len(t) - 1 /\ IsWord(t[i - 1]) /\ IsWord(t[i + 1])
  BY <1>1, <1>2 DEF DotAt, EndsDomain
<1>3. ASSUME NEW i \in 2..Len(t) - 1, t[i] = ".", IsWord(t[i - 1]), IsWord(t[i + 1]),
             t[i + 1] \in Endings
      PROVE  i \in 1..Len(t) /\ DotAt(t, i)
  <2>1. EndsDomain(t[i + 1])
    BY <1>3, TextsAssumption DEF EndsDomain
  <2> QED
    BY <1>1, <1>3, <2>1 DEF DotAt
<1> QED
  BY <1>1, <1>2, <1>3 DEF ListedLink

\* A fence between two texts: one of them has a mark there that ends a word.
Fenced(v) ==
  \A n \in 1..Len(v) - 1 :
    \/ v[n] # <<>> /\ v[n][Len(v[n])] \in Blanks
    \/ v[n + 1] # <<>> /\ v[n + 1][1] \in Blanks \cup {"?"}

LEMMA LinkInside ==
  ASSUME NEW v \in Seq(Seq(STRING)), v # <<>>, Fenced(v), ListedLink(FlattenSeq(v))
  PROVE  \E n \in 1..Len(v) : ListedLink(v[n])
<1> DEFINE t == FlattenSeq(v)
<1>1. t \in Seq(STRING)
  BY Located
<1>2. PICK at : /\ \A n \in 0..Len(v) : at[n] \in Nat
                /\ at[0] = 0 /\ at[Len(v)] = Len(t)
                /\ \A n \in 1..Len(v) :
                     /\ at[n] = at[n - 1] + Len(v[n])
                     /\ \A j \in 1..Len(v[n]) :
                          at[n - 1] + j \in 1..Len(t) /\ t[at[n - 1] + j] = v[n][j]
                /\ \A i \in 1..Len(t) : \E n \in 1..Len(v) :
                     i \in at[n - 1] + 1..at[n]
  BY Located
<1>3. PICK i \in 2..Len(t) - 1 :
        t[i] = "." /\ IsWord(t[i - 1]) /\ IsWord(t[i + 1]) /\ t[i + 1] \in Endings
  BY <1>1, LinkIsThree
<1> HIDE DEF t
<1>4. Len(t) \in Nat /\ Len(v) \in Nat \ {0} /\ i \in 1..Len(t) /\ i \in Nat
  BY <1>1, <1>3
<1>5. ASSUME NEW m \in 1..Len(v)
      PROVE  /\ v[m] \in Seq(STRING) /\ Len(v[m]) \in Nat /\ at[m - 1] \in Nat
             /\ at[m] = at[m - 1] + Len(v[m])
             /\ \A j \in 1..Len(v[m]) : t[at[m - 1] + j] = v[m][j]
  <2>1. m - 1 \in 0..Len(v) /\ v[m] \in Seq(STRING)
    BY <1>4
  <2> QED
    BY <1>2, <2>1, SMTT(30)
\* The text before the m-th part, if any, ends with its last word.
<1>6. ASSUME NEW m \in 1..Len(v), v[m] # <<>>
      PROVE  t[at[m]] = v[m][Len(v[m])] /\ t[at[m - 1] + 1] = v[m][1]
  <2> DEFINE c == at[m - 1]
             l == Len(v[m])
  <2>1. l \in Nat \ {0} /\ c \in Nat /\ at[m] = c + l /\ \A j \in 1..l : t[c + j] = v[m][j]
    BY <1>5, <1>6
  <2> HIDE DEF c, l
  <2>2. t[c + l] = v[m][l] /\ t[c + 1] = v[m][1]
    BY <2>1
  <2> QED
    BY <2>1, <2>2 DEF c, l
<1>7. PICK n \in 1..Len(v) : i \in at[n - 1] + 1..at[n]
  BY <1>2, <1>4
<1> DEFINE a == at[n - 1]
           b == Len(v[n])
<1>8. /\ a \in Nat /\ b \in Nat /\ at[n] = a + b /\ i >= a + 1 /\ i <= a + b
      /\ \A j \in 1..b : t[a + j] = v[n][j]
  <2> HIDE DEF a, b
  <2>1. /\ a \in Nat /\ b \in Nat /\ at[n] = a + b
        /\ \A j \in 1..b : t[a + j] = v[n][j]
    BY <1>5 DEF a, b
  <2>2. i \in a + 1..a + b
    BY <1>7, <2>1 DEF a
  <2> QED
    BY <1>4, <2>1, <2>2
<1> HIDE DEF a, b
<1>9. v[n] # <<>>
  BY <1>4, <1>5, <1>8 DEF b
<1>10. i # a + 1
  <2> SUFFICES ASSUME i = a + 1 PROVE FALSE
    OBVIOUS
  <2>1. a # 0 /\ i - 1 = a
    BY <1>3, <1>8
  <2>2. n # 1
    BY <1>2, <2>1 DEF a
  <2>3. n - 1 \in 1..Len(v) - 1 /\ n - 1 \in 1..Len(v) /\ n - 1 + 1 = n
    BY <1>4, <2>2
  <2>4. v[n - 1] # <<>> => t[i - 1] = v[n - 1][Len(v[n - 1])]
    BY <1>6, <2>1, <2>3 DEF a
  <2>5. t[i] = v[n][1]
    BY <1>6, <1>9 DEF a
  <2>6. \/ v[n - 1] # <<>> /\ v[n - 1][Len(v[n - 1])] \in Blanks
        \/ v[n][1] \in Blanks \cup {"?"}
    BY <2>3 DEF Fenced
  <2> QED
    BY <1>3, <2>4, <2>5, <2>6 DEF IsWord, Marks, Blanks
<1>11. i # a + b
  <2> SUFFICES ASSUME i = a + b PROVE FALSE
    OBVIOUS
  <2>1. i = at[n] /\ at[n] < Len(t)
    BY <1>3, <1>4, <1>8
  <2>2. n # Len(v)
    BY <1>2, <1>4, <2>1
  <2>3. n \in 1..Len(v) - 1 /\ n + 1 \in 1..Len(v) /\ n + 1 - 1 = n
    BY <1>4, <2>2
  <2>4. v[n + 1] # <<>> => t[i + 1] = v[n + 1][1]
    <3>1. v[n + 1] # <<>> => t[at[n + 1 - 1] + 1] = v[n + 1][1]
      BY <1>6, <2>3
    <3> QED
      BY <2>1, <2>3, <3>1
  <2>5. t[i] = v[n][Len(v[n])]
    BY <1>6, <1>9, <2>1
  <2>6. \/ v[n][Len(v[n])] \in Blanks
        \/ v[n + 1] # <<>> /\ v[n + 1][1] \in Blanks \cup {"?"}
    BY <2>3 DEF Fenced
  <2> QED
    BY <1>3, <2>4, <2>5, <2>6 DEF IsWord, Marks, Blanks, Stops
<1> DEFINE j == i - a
<1>12. /\ j \in 2..b - 1 /\ a + j = i /\ a + (j - 1) = i - 1 /\ a + (j + 1) = i + 1
       /\ j - 1 \in 1..b /\ j \in 1..b /\ j + 1 \in 1..b
  BY <1>4, <1>8, <1>10, <1>11
<1> HIDE DEF j
<1>13. v[n][j] = t[i] /\ v[n][j - 1] = t[i - 1] /\ v[n][j + 1] = t[i + 1]
  <2>1. /\ t[a + j] = v[n][j] /\ t[a + (j - 1)] = v[n][j - 1]
        /\ t[a + (j + 1)] = v[n][j + 1]
    BY <1>8, <1>12
  <2> QED
    BY <1>12, <2>1
<1>14. v[n] \in Seq(STRING) /\ j \in 2..Len(v[n]) - 1
  BY <1>5, <1>12 DEF b
<1>15. ListedLink(v[n])
  BY <1>3, <1>13, <1>14, LinkIsThree
<1> QED
  BY <1>15

LEMMA OneWord == ASSUME NEW S, NEW x \in S PROVE <<x>> \in Seq(S) /\ Len(<<x>>) = 1
OBVIOUS

\* What a variable is filled with: the data of the lead or of the flow, or the name.
LEMMA Context ==
  ASSUME NEW name \in Names, NEW allowLink \in BOOLEAN, NEW k \in Keys
  PROVE  LET x == BuildLeadContext(name, allowLink)[k]
         IN  /\ x \in Seq(STRING)
             /\ ListedLink(x) =>
                  \E t \in {Metas[name][k], FlowVars[k]} : t # Null /\ ListedLink(t)
<1> DEFINE x == BuildLeadContext(name, allowLink)[k]
<1>1. x \in {<<>>, <<name>>} \/ (Metas[name][k] # Null /\ x = Metas[name][k])
        \/ (FlowVars[k] # Null /\ x = FlowVars[k])
  BY DEF BuildLeadContext
<1>2. /\ Metas[name][k] \in Seq(STRING) \cup {Null} /\ FlowVars[k] \in Seq(STRING) \cup {Null}
      /\ name \in STRING
  BY TextsAssumption
<1> HIDE DEF x
<1>3. /\ <<name>> \in Seq(STRING) /\ Len(<<name>>) = 1
      /\ <<>> \in Seq(STRING) /\ Len(<<>>) = 0
  <2>1. name \in STRING
    BY <1>2
  <2>2. <<name>> \in Seq(STRING) /\ Len(<<name>>) = 1
    BY <2>1, OneWord, Zenon
  <2>3. <<>> \in Seq(STRING) /\ Len(<<>>) = 0
    OBVIOUS
  <2> QED
    BY <2>2, <2>3
<1>4. x \in {<<>>, <<name>>} => ~ListedLink(x)
  <2> SUFFICES ASSUME x \in {<<>>, <<name>>}, ListedLink(x) PROVE FALSE
    OBVIOUS
  <2>1. x \in Seq(STRING) /\ Len(x) < 2 /\ Len(x) \in Nat
    <3>1. CASE x = <<>>
      BY <1>3, <3>1
    <3>2. CASE x = <<name>>
      BY <1>3, <3>2
    <3> QED
      BY <3>1, <3>2
  <2>2. PICK i \in 2..Len(x) - 1 : TRUE
    BY <2>1, LinkIsThree
  <2> QED
    BY <2>1, <2>2
<1>5. x \in Seq(STRING)
  BY <1>1, <1>2, <1>3
<1>6. ListedLink(x) =>
        \E t \in {Metas[name][k], FlowVars[k]} : t # Null /\ ListedLink(t)
  BY <1>1, <1>4
<1> QED
  BY <1>5, <1>6 DEF x

LEMMA RenderedClean ==
  ASSUME NEW template \in Templates, AssertNoLink(template),
         Spaced(template), NEW name \in Names, NEW allowLink \in BOOLEAN,
         ListedLink(RenderTemplate(template, BuildLeadContext(name, allowLink)))
  PROVE  \E k \in Keys : \E t \in {Metas[name][k], FlowVars[k]} :
           t # Null /\ ListedLink(t)
<1> DEFINE ctx == BuildLeadContext(name, allowLink)
           Filled(p) == IF p.key # Null /\ ctx[p.key] # <<>> THEN ctx[p.key] ELSE p.text
           v == [n \in DOMAIN template |-> Filled(template[n])]
<1>1. /\ template \in Seq([key : Keys \cup {Null}, text : Seq(STRING)])
      /\ \A n \in DOMAIN template : template[n].key = Null =>
           template[n].text # <<>> /\ (n < Len(template) => template[n + 1].key # Null)
  BY TextsAssumption
<1>2. /\ Len(template) \in Nat /\ DOMAIN template = 1..Len(template)
      /\ \A n \in 1..Len(template) :
           /\ template[n].key \in Keys \cup {Null}
           /\ template[n].text \in Seq(STRING)
  <2> DEFINE Piece == [key : Keys \cup {Null}, text : Seq(STRING)]
  <2>1. template \in Seq(Piece)
    BY <1>1
  <2>2. \A p \in Piece : p.key \in Keys \cup {Null} /\ p.text \in Seq(STRING)
    OBVIOUS
  <2> HIDE DEF Piece
  <2>3. /\ Len(template) \in Nat /\ DOMAIN template = 1..Len(template)
        /\ \A n \in 1..Len(template) : template[n] \in Piece
    BY <2>1
  <2> QED
    BY <2>2, <2>3
<1>3. ListedLink(FlattenSeq(v))
  BY DEF RenderTemplate
<1> HIDE DEF ctx
<1>4. ASSUME NEW n \in 1..Len(template) PROVE Filled(template[n]) \in Seq(STRING)
  <2>1. template[n].key # Null => ctx[template[n].key] \in Seq(STRING)
    BY <1>2, Context DEF ctx
  <2> QED
    BY <1>2, <2>1
<1> HIDE DEF Filled
<1>5. v \in Seq(Seq(STRING)) /\ Len(v) = Len(template)
      /\ \A n \in 1..Len(template) : v[n] = Filled(template[n])
  BY <1>2, <1>4
<1> HIDE DEF v
<1>6. v # <<>>
  <2> SUFFICES ASSUME v = <<>> PROVE FALSE
    OBVIOUS
  <2>1. FlattenSeq(v) = <<>>
    BY DEF FlattenSeq
  <2>2. PICK i \in 2..Len(<<>>) - 1 : TRUE
    <3>1. <<>> \in Seq(STRING)
      OBVIOUS
    <3> QED
      BY <1>3, <2>1, <3>1, LinkIsThree
  <2> QED
    BY <2>2
<1>7. Fenced(v)
  <2> SUFFICES ASSUME NEW n \in 1..Len(v) - 1
               PROVE  \/ v[n] # <<>> /\ v[n][Len(v[n])] \in Blanks
                      \/ v[n + 1] # <<>> /\ v[n + 1][1] \in Blanks \cup {"?"}
    BY DEF Fenced
  <2>1. /\ n \in 1..Len(template) /\ n + 1 \in 1..Len(template) /\ n < Len(template)
        /\ n + 1 > 1 /\ n + 1 - 1 = n
    BY <1>2, <1>5
  <2>2. CASE template[n].key # Null
    <3>1. template[n + 1].key = Null /\ Head(template[n + 1].text) \in Blanks \cup {"?"}
      BY <1>2, <2>1, <2>2 DEF Spaced
    <3>2. v[n + 1] = template[n + 1].text /\ template[n + 1].text # <<>>
      BY <1>1, <1>2, <1>5, <2>1, <3>1 DEF Filled
    <3>3. template[n + 1].text[1] = Head(template[n + 1].text)
      BY <1>2, <2>1, <3>2
    <3> QED
      BY <3>1, <3>2, <3>3
  <2>3. CASE template[n].key = Null
    <3>1. template[n].text # <<>> /\ template[n + 1].key # Null
      BY <1>1, <1>2, <2>1, <2>3
    <3>2. Last(template[n].text) \in Blanks
      <4> DEFINE m == n + 1
      <4>1. m \in DOMAIN template /\ m > 1 /\ m - 1 = n /\ template[m].key # Null
        BY <1>2, <2>1, <3>1
      <4> HIDE DEF m
      <4> QED
        BY <4>1 DEF Spaced
    <3>3. v[n] = template[n].text
      BY <1>5, <2>1, <2>3 DEF Filled
    <3> QED
      BY <3>1, <3>2, <3>3 DEF Last
  <2> QED
    BY <2>2, <2>3
<1>8. PICK n \in 1..Len(v) : ListedLink(v[n])
  BY <1>3, <1>5, <1>6, <1>7, LinkInside
<1>9. v[n] # template[n].text
  BY <1>2, <1>5, <1>8 DEF AssertNoLink
<1>10. template[n].key \in Keys /\ ListedLink(ctx[template[n].key])
  BY <1>2, <1>5, <1>8, <1>9 DEF Filled
<1> QED
  BY <1>10, Context DEF ctx

\* The first message of the lead is the rendering of a template that assertNoLink let in.
CleanInv ==
  lead # Null =>
    /\ lead.name \in Names /\ lead.pieces \in Templates
    /\ AssertNoLink(lead.pieces)
    /\ 1 \in 1..Len(rows)
    /\ \E allowLink \in BOOLEAN :
         rows[1] = RenderTemplate(lead.pieces, BuildLeadContext(lead.name, allowLink))

LEMMA CleanStep ==
  ASSUME RunsInv, CleanInv, [WordingNext]_wordingVars
  PROVE  CleanInv'
<1>1. CASE UNCHANGED <<rows, lead>>
  BY <1>1 DEF CleanInv
<1>2. ASSUME NEW o \in Openers, NEW name \in Names, NEW allowLink \in BOOLEAN,
             Open(o, name, allowLink)
      PROVE  CleanInv'
  <2> DEFINE pieces == openers[o].seen[openers[o].pick]
  <2>1. pieces \in Templates /\ AssertNoLink(pieces)
    BY <1>2 DEF Open, RunsInv, RunOK, Runs, Accepted
  <2>2. \/ /\ rows' = <<RenderTemplate(pieces, BuildLeadContext(name, allowLink))>>
           /\ lead' = [name |-> name, pieces |-> pieces]
        \/ UNCHANGED <<rows, lead>>
    BY <1>2 DEF Open
  <2> HIDE DEF pieces
  <2> QED
    BY <1>1, <2>1, <2>2 DEF CleanInv
<1>3. ASSUME NEW o \in Openers, Opening(o) PROVE CleanInv'
  <2>1. CASE List(o) \/ Push(o) \/ LTrim(o) \/ Abandon(o) \/ \E i \in Ids : Choose(o, i)
    BY <1>1, <2>1 DEF List, Push, LTrim, Abandon, Choose
  <2> QED
    BY <1>2, <1>3, <2>1 DEF Opening
<1>4. ASSUME NEW parts, rows' = rows \o parts, lead' = lead
      PROVE  CleanInv'
  BY <1>4 DEF CleanInv
<1>5. ASSUME NEW text, NEW by, NEW cut, Send(text, by, cut), lead' = lead
      PROVE  CleanInv'
  BY <1>4, <1>5 DEF Send
<1>6. CASE Model
  <2>1. lead' = lead
    BY <1>6 DEF Model, Answer, NoAnswer, flow
  <2> QED
    BY <1>1, <1>5, <1>6, <2>1 DEF Model, Answer, NoAnswer
<1>7. CASE Edit \/ Expire \/ \E wants \in BOOLEAN : Ask(wants)
  BY <1>1, <1>7 DEF Edit, Expire, Ask, flow
<1> QED
  BY <1>1, <1>3, <1>6, <1>7 DEF WordingNext, wordingVars

\* An opening has no domain that assertNoLink knows, whatever operators write and edit, but
\* for the data of the lead and of the flow, which nobody checks
\* (opening-messages.service.ts:82-111, template.ts:7-18, 44-77).
THEOREM OpeningsAreClean == WordingSpec => []OpeningClean
<1>1. WordingInit => CleanInv
  BY DEF WordingInit, CleanInv
<1>2. CleanInv => OpeningClean
  <2> SUFFICES ASSUME CleanInv, lead # Null, Spaced(lead.pieces),
                      ListedLink(rows[1])
               PROVE  \E k \in Keys : \E t \in {Metas[lead.name][k], FlowVars[k]} :
                        t # Null /\ ListedLink(t)
    BY DEF OpeningClean
  <2>1. PICK allowLink \in BOOLEAN : rows[1] =
          RenderTemplate(lead.pieces, BuildLeadContext(lead.name, allowLink))
    BY DEF CleanInv
  <2> QED
    BY <2>1, RenderedClean DEF CleanInv
<1> QED
  BY <1>1, <1>2, RunsInit, RunsStep, CleanStep, PTL DEF WordingSpec
-----------------------------------------------------------------------------
(* Texts within texts.                                                       *)

\* s stands in t, after its first a things.
Within(s, a, t) == \A i \in 1..Len(s) : a + i \in 1..Len(t) /\ s[i] = t[a + i]

LEMMA WithinBoth ==
  ASSUME NEW r \in Seq(STRING), NEW s \in Seq(STRING), NEW t \in Seq(STRING),
         NEW a \in Nat, NEW b \in Nat, Within(r, a, s), Within(s, b, t)
  PROVE  Within(r, b + a, t)
<1>1. ASSUME NEW i \in 1..Len(r) PROVE b + a + i \in 1..Len(t) /\ r[i] = t[b + a + i]
  <2>1. a + i \in 1..Len(s) /\ r[i] = s[a + i]
    BY DEF Within
  <2>2. b + (a + i) \in 1..Len(t) /\ s[a + i] = t[b + (a + i)]
    BY <2>1 DEF Within
  <2> QED
    BY <2>1, <2>2
<1> QED
  BY <1>1 DEF Within

LEMMA DotIs ==
  ASSUME NEW t \in Seq(STRING), NEW i \in 1..Len(t)
  PROVE  DotAt(t, i) <=>
           \/ /\ t[i] \in {".", "ponto"} /\ i - 1 \in 1..Len(t) /\ i + 1 \in 1..Len(t)
              /\ IsWord(t[i - 1]) /\ EndsDomain(t[i + 1])
           \/ /\ t[i] = "ponto" /\ i - 2 \in 1..Len(t) /\ i - 1 \in 1..Len(t)
              /\ i + 1 \in 1..Len(t) /\ i + 2 \in 1..Len(t)
              /\ t[i - 1] \in Blanks /\ t[i + 1] \in Blanks
              /\ IsWord(t[i - 2]) /\ EndsDomain(t[i + 2])
<1>1. DOMAIN t = 1..Len(t) /\ Len(t) \in Nat
  OBVIOUS
<1>2. i - 2 \in 1..Len(t) /\ i + 2 \in 1..Len(t) => i - 1 \in 1..Len(t) /\ i + 1 \in 1..Len(t)
  BY <1>1
<1> QED
  BY <1>1, <1>2 DEF DotAt

\* A part of a text has the links it has there.
LEMMA DotWithin ==
  ASSUME NEW s \in Seq(STRING), NEW t \in Seq(STRING), NEW a \in Nat, Within(s, a, t),
         NEW i \in 1..Len(s), DotAt(s, i)
  PROVE  a + i \in 1..Len(t) /\ DotAt(t, a + i)
<1>1. ASSUME NEW j \in -2..2, i + j \in 1..Len(s)
      PROVE  (a + i) + j \in 1..Len(t) /\ s[i + j] = t[(a + i) + j]
  <2> DEFINE k == i + j
  <2>1. k \in 1..Len(s) /\ (a + i) + j = a + k
    BY <1>1
  <2> HIDE DEF k
  <2>2. a + k \in 1..Len(t) /\ s[k] = t[a + k]
    BY <2>1 DEF Within
  <2> QED
    BY <2>1, <2>2 DEF k
<1>2. i - 1 \in 1..Len(s) => (a + i) - 1 \in 1..Len(t) /\ s[i - 1] = t[(a + i) - 1]
  BY <1>1
<1>3. i + 1 \in 1..Len(s) => (a + i) + 1 \in 1..Len(t) /\ s[i + 1] = t[(a + i) + 1]
  BY <1>1
<1>4. i - 2 \in 1..Len(s) => (a + i) - 2 \in 1..Len(t) /\ s[i - 2] = t[(a + i) - 2]
  BY <1>1
<1>5. i + 2 \in 1..Len(s) => (a + i) + 2 \in 1..Len(t) /\ s[i + 2] = t[(a + i) + 2]
  BY <1>1
<1>6. a + i \in 1..Len(t) /\ s[i] = t[a + i]
  BY DEF Within
<1> DEFINE x == a + i
<1> HIDE DEF x
<1>7. DotAt(t, x)
  BY <1>2, <1>3, <1>4, <1>5, <1>6, DotIs DEF x
<1> QED
  BY <1>6, <1>7 DEF x

LEMMA Stretch ==
  ASSUME NEW t \in Seq(STRING), NEW m \in Nat \ {0}, NEW n \in Nat, n <= Len(t)
  PROVE  LET s == SubSeq(t, m, n)
         IN  /\ s \in Seq(STRING) /\ Len(s) = (IF m <= n THEN n - m + 1 ELSE 0)
             /\ Within(s, m - 1, t)
<1> DEFINE s == SubSeq(t, m, n)
<1>1. \A i \in m..n : t[i] \in STRING
  <2> SUFFICES ASSUME NEW i \in m..n PROVE t[i] \in STRING
    OBVIOUS
  <2>1. i \in 1..Len(t)
    OBVIOUS
  <2> QED
    BY <2>1, ElementOfSeq
<1>2. /\ s \in Seq(STRING) /\ Len(s) = (IF m <= n THEN n - m + 1 ELSE 0)
      /\ \A i \in 1..n - m + 1 : s[i] = t[m + i - 1]
  BY <1>1, SubSeqProperties
<1> HIDE DEF s
<1>3. ASSUME NEW i \in 1..Len(s) PROVE m - 1 + i \in 1..Len(t) /\ s[i] = t[m - 1 + i]
  <2>1. i \in 1..n - m + 1 /\ m + i - 1 = m - 1 + i /\ Len(t) \in Nat
    BY <1>2
  <2> QED
    BY <1>2, <2>1
<1>4. Within(s, m - 1, t)
  BY <1>3 DEF Within
<1> QED
  BY <1>2, <1>4 DEF s

\* What is not blank at its ends stays.
LEMMA Trimmed ==
  ASSUME NEW t \in Seq(STRING)
  PROVE  LET s == Trim(t)
         IN  /\ s \in Seq(STRING) /\ Len(s) <= Len(t)
             /\ \E a \in Nat : Within(s, a, t) /\ a + Len(s) <= Len(t)
                               /\ (t # <<>> /\ t[1] \notin Blanks => a = 0)
                               /\ (t # <<>> /\ t[Len(t)] \notin Blanks => a + Len(s) = Len(t))
             /\ (\E i \in 1..Len(t) : t[i] \notin Blanks) => s # <<>>
             /\ s # <<>> => s[1] \notin Blanks /\ s[Len(s)] \notin Blanks
<1> DEFINE s == Trim(t)
           solid == {i \in DOMAIN t : t[i] \notin Blanks}
<1>1. DOMAIN t = 1..Len(t) /\ Len(t) \in Nat /\ solid \in SUBSET Nat
  OBVIOUS
<1>2. CASE solid = {}
  <2>1. s = <<>>
    BY <1>2 DEF Trim
  <2>2. <<>> \in Seq(STRING) /\ Len(<<>>) = 0 /\ Within(<<>>, 0, t)
    BY DEF Within
  <2>3. \A i \in 1..Len(t) : t[i] \in Blanks
    BY <1>1, <1>2
  <2>4. t # <<>> => t[1] \in Blanks /\ t[Len(t)] \in Blanks
    BY <1>1, <2>3
  <2> QED
    <3> HIDE DEF s
    <3>1. Len(s) = 0 /\ Within(s, 0, t) /\ s \in Seq(STRING) /\ 0 + Len(s) <= Len(t)
      BY <1>1, <2>1, <2>2
    <3>2. \E a \in Nat : Within(s, a, t) /\ a + Len(s) <= Len(t)
                          /\ (t # <<>> /\ t[1] \notin Blanks => a = 0)
                          /\ (t # <<>> /\ t[Len(t)] \notin Blanks => a + Len(s) = Len(t))
      BY <2>4, <3>1
    <3>3. ~(\E i \in 1..Len(t) : t[i] \notin Blanks) /\ ~(s # <<>>) /\ Len(s) <= Len(t)
      BY <1>1, <2>1, <2>3, <3>1
    <3> QED
      BY <3>1, <3>2, <3>3 DEF s
<1>3. CASE solid # {}
  <2> DEFINE p == Min(solid)
             q == Max(solid)
  <2>1. p \in solid /\ \A y \in solid : p <= y
    <3>1. \E x \in solid : \A y \in solid : x <= y
      <4> HIDE DEF solid
      <4> QED
        BY <1>1, <1>3, LeastNumber
    <3> HIDE DEF solid
    <3> QED
      BY <3>1 DEF Min
  <2>2. q \in solid /\ \A y \in solid : q >= y
    <3> DEFINE back == {Len(t) - i : i \in solid}
    <3>1. back \in SUBSET Nat /\ back # {}
      BY <1>1, <1>3
    <3>2. PICK x \in back : \A y \in back : x <= y
      <4> HIDE DEF back
      <4> QED
        BY <3>1, LeastNumber
    <3>3. PICK i \in solid : x = Len(t) - i
      OBVIOUS
    <3>4. \A y \in solid : Len(t) - i <= Len(t) - y
      BY <3>2, <3>3
    <3>5. i \in Nat /\ \A y \in solid : y \in Nat
      BY <1>1
    <3>6. \A y \in solid : i >= y
      <4> HIDE DEF solid
      <4> QED
        BY <1>1, <3>4, <3>5
    <3> HIDE DEF solid
    <3> QED
      BY <3>3, <3>6 DEF Max
  <2>3. s = SubSeq(t, p, q)
    BY <1>3 DEF Trim
  <2>4. p \in Nat \ {0} /\ q \in Nat /\ p <= q /\ q <= Len(t)
        /\ t[p] \notin Blanks /\ t[q] \notin Blanks
    BY <1>1, <2>1, <2>2
  <2> HIDE DEF p, q, s
  <2>5. s \in Seq(STRING) /\ Len(s) = q - p + 1 /\ Within(s, p - 1, t)
    BY <2>3, <2>4, Stretch
  <2>6. s # <<>> /\ s[1] = t[p] /\ s[Len(s)] = t[q]
    <3>1. Len(s) \in Nat \ {0} /\ 1 \in 1..Len(s) /\ Len(s) \in 1..Len(s)
      BY <2>4, <2>5
    <3>2. s[1] = t[p - 1 + 1] /\ s[Len(s)] = t[p - 1 + Len(s)]
      BY <2>5, <3>1 DEF Within
    <3>3. p - 1 + 1 = p /\ p - 1 + Len(s) = q
      BY <2>4, <2>5
    <3> QED
      BY <3>1, <3>2, <3>3
  <2>7. t[1] \notin Blanks => p = 1
    <3>1. 1 \in DOMAIN t
      BY <1>1, <2>4
    <3> QED
      BY <2>1, <2>4, <3>1
  <2>8. t[Len(t)] \notin Blanks => q = Len(t)
    <3> SUFFICES ASSUME t[Len(t)] \notin Blanks PROVE q = Len(t)
      OBVIOUS
    <3>1. Len(t) \in DOMAIN t
      BY <1>1, <2>4
    <3>2. q >= Len(t)
      BY <2>2, <3>1
    <3>3. q \in Nat /\ q <= Len(t) /\ Len(t) \in Nat
      BY <1>1, <2>4
    <3> QED
      BY <3>2, <3>3
  <2>9. p - 1 \in Nat /\ p - 1 + Len(s) = q /\ Len(s) <= Len(t)
    BY <1>1, <2>4, <2>5
  <2>10. \E a \in Nat : Within(s, a, t) /\ a + Len(s) <= Len(t)
                               /\ (t # <<>> /\ t[1] \notin Blanks => a = 0)
                               /\ (t # <<>> /\ t[Len(t)] \notin Blanks => a + Len(s) = Len(t))
    <3> DEFINE a == p - 1
    <3>1. a \in Nat /\ Within(s, a, t) /\ a + Len(s) = q /\ (p = 1 => a = 0)
      BY <2>4, <2>5, <2>9
    <3> HIDE DEF a
    <3> QED
      BY <2>4, <2>7, <2>8, <3>1
  <2> QED
    BY <2>4, <2>5, <2>6, <2>9, <2>10 DEF s
<1> QED
  BY <1>2, <1>3
-----------------------------------------------------------------------------
(* Sentences.                                                                *)

\* A finite set of numbers has an n-th member, the first of those above the one before.
LEMMA Ranked ==
  ASSUME NEW L \in Nat, NEW E \in SUBSET (1..L)
  PROVE  /\ Cardinality(E) \in Nat /\ (Cardinality(E) = 0 <=> E = {})
         /\ \A n \in 1..Cardinality(E) : Nth(E, n) \in E
         /\ \A n \in 1..Cardinality(E) - 1 : Nth(E, n) < Nth(E, n + 1)
         /\ \A n \in 1..Cardinality(E) - 1 : \A i \in E :
              ~(Nth(E, n) < i /\ i < Nth(E, n + 1))
         /\ \A i \in E : Nth(E, 1) <= i /\ i <= Nth(E, Cardinality(E))
<1> DEFINE Below(i) == {j \in E : j < i}
           R(i) == Cardinality(Below(i))
           C == Cardinality(E)
<1>1. IsFiniteSet(E) /\ C \in Nat /\ (C = 0 <=> E = {})
  <2>1. IsFiniteSet(1..L)
    BY FS_Interval
  <2>2. IsFiniteSet(E)
    BY <2>1, FS_Subset
  <2> QED
    BY <2>2, FS_CardinalityType, FS_EmptySet
<1>2. \A i \in E : i \in Nat
  OBVIOUS
<1>3. ASSUME NEW i \in E
      PROVE  /\ IsFiniteSet(Below(i)) /\ R(i) \in Nat
             /\ IsFiniteSet(Below(i) \cup {i}) /\ Cardinality(Below(i) \cup {i}) = R(i) + 1
  <2>1. Below(i) \subseteq E /\ i \notin Below(i)
    BY <1>2
  <2> HIDE DEF Below
  <2>2. IsFiniteSet(Below(i))
    BY <1>1, <2>1, FS_Subset
  <2> QED
    BY <2>1, <2>2, FS_CardinalityType, FS_AddElement
<1>4. ASSUME NEW i \in E PROVE R(i) + 1 <= C
  <2>1. Below(i) \cup {i} \subseteq E
    OBVIOUS
  <2>2. Cardinality(Below(i) \cup {i}) <= C
    BY <1>1, <2>1, FS_Subset
  <2> HIDE DEF Below
  <2> QED
    BY <1>3, <2>2
<1>5. ASSUME NEW i \in E, NEW k \in E, i < k PROVE R(i) < R(k)
  <2>1. Below(i) \cup {i} \subseteq Below(k)
    <3>1. \A j \in E : j < i => j < k
      BY <1>2, <1>5
    <3> QED
      BY <1>5, <3>1
  <2>2. Cardinality(Below(i) \cup {i}) <= Cardinality(Below(k))
    <3> HIDE DEF Below
    <3> QED
      BY <1>3, <2>1, FS_Subset
  <2>3. R(i) \in Nat /\ R(k) \in Nat /\ Cardinality(Below(i) \cup {i}) = R(i) + 1
    BY <1>3
  <2> HIDE DEF Below
  <2> QED
    BY <2>2, <2>3
<1>6. ASSUME NEW T \in SUBSET E, T # {} PROVE \E x \in T : \A y \in T : x <= y
  <2>1. T \in SUBSET Nat
    BY <1>2
  <2> QED
    BY <1>6, <2>1, LeastNumber
<1> DEFINE Found == {m \in Nat : m < C => \E i \in E : R(i) = m}
<1>7. 0 \in Found
  <2> SUFFICES ASSUME 0 < C PROVE \E i \in E : R(i) = 0
    OBVIOUS
  <2>1. E # {}
    BY <1>1
  <2>2. PICK x \in E : \A y \in E : x <= y
    BY <1>6, <2>1
  <2>3. \A y \in E : ~(y < x)
    BY <1>2, <2>2
  <2>4. Below(x) = {}
    BY <2>3
  <2> QED
    BY <2>4, FS_EmptySet
<1>8. ASSUME NEW m \in Found PROVE m + 1 \in Found
  <2> SUFFICES ASSUME m + 1 < C PROVE \E i \in E : R(i) = m + 1
    OBVIOUS
  <2>1. m \in Nat /\ m < C
    BY <1>1
  <2>2. PICK i \in E : R(i) = m
    BY <2>1
  <2> DEFINE Above == {j \in E : i < j}
  <2>3. Above # {}
    <3> SUFFICES ASSUME Above = {} PROVE FALSE
      OBVIOUS
    <3>1. E \subseteq Below(i) \cup {i}
      BY <1>2
    <3>2. C <= Cardinality(Below(i) \cup {i})
      <4> HIDE DEF Below
      <4> QED
        BY <1>3, <3>1, FS_Subset
    <3>3. Cardinality(Below(i) \cup {i}) = m + 1
      BY <1>3, <2>2
    <3> HIDE DEF Below
    <3> QED
      BY <1>1, <2>1, <3>2, <3>3
  <2>4. PICK k \in Above : \A y \in Above : k <= y
    <3>1. Above \in SUBSET E
      OBVIOUS
    <3> HIDE DEF Above
    <3> QED
      BY <1>6, <2>3, <3>1
  <2>5. k \in E /\ i < k
    OBVIOUS
  <2>6. \A j \in E : j < k <=> j < i \/ j = i
    <3> SUFFICES ASSUME NEW j \in E PROVE j < k <=> j < i \/ j = i
      OBVIOUS
    <3>1. i < j => k <= j
      BY <2>4
    <3> HIDE DEF Above
    <3> QED
      BY <1>2, <2>5, <3>1
  <2>7. Below(k) = Below(i) \cup {i}
    BY <2>6
  <2>8. Cardinality(Below(i) \cup {i}) = m + 1
    BY <1>3, <2>2
  <2> HIDE DEF Below, Above
  <2> QED
    BY <2>5, <2>7, <2>8
<1>9. Found = Nat
  <2>1. Found \in SUBSET Nat
    OBVIOUS
  <2> HIDE DEF Found
  <2> QED
    BY <1>7, <1>8, <2>1, Climb
<1>10. ASSUME NEW n \in 1..C PROVE Nth(E, n) \in E /\ R(Nth(E, n)) = n - 1
  <2>1. \E i \in E : R(i) = n - 1
    <3>1. n - 1 \in Nat /\ n - 1 < C
      BY <1>1
    <3>2. n - 1 \in Found
      BY <1>9, <3>1
    <3> HIDE DEF R
    <3> QED
      BY <3>1, <3>2
  <2> QED
    BY <2>1 DEF Nth
<1>11. \A i \in E : R(i) \in Nat /\ R(i) + 1 <= C
  BY <1>3, <1>4
<1> HIDE DEF R, C, Found
<1>12. ASSUME NEW i \in E, NEW k \in E, R(i) < R(k) PROVE i < k
  <2>1. ~(k < i) /\ i # k
    BY <1>5, <1>11, <1>12
  <2> QED
    BY <1>2, <2>1
<1>13. ASSUME NEW n \in 1..C - 1
       PROVE  /\ n \in 1..C /\ n + 1 \in 1..C /\ n \in Nat
              /\ R(Nth(E, n)) = n - 1 /\ R(Nth(E, n + 1)) = n
              /\ Nth(E, n) \in E /\ Nth(E, n + 1) \in E
  <2>1. n \in 1..C /\ n + 1 \in 1..C /\ n \in Nat /\ n + 1 - 1 = n
    BY <1>1
  <2> QED
    BY <1>10, <2>1
<1>14. ASSUME NEW n \in 1..C - 1 PROVE Nth(E, n) < Nth(E, n + 1)
  <2>1. R(Nth(E, n)) < R(Nth(E, n + 1))
    BY <1>13
  <2> QED
    BY <1>12, <1>13, <2>1
<1>15. ASSUME NEW n \in 1..C - 1, NEW i \in E, Nth(E, n) < i, i < Nth(E, n + 1) PROVE FALSE
  <2>1. R(Nth(E, n)) < R(i) /\ R(i) < R(Nth(E, n + 1))
    BY <1>5, <1>13, <1>15
  <2>2. n - 1 < R(i) /\ R(i) < n /\ R(i) \in Nat /\ n \in Nat
    BY <1>11, <1>13, <2>1
  <2> QED
    BY <2>2
<1>16. ASSUME NEW i \in E PROVE Nth(E, 1) <= i /\ i <= Nth(E, C)
  <2>1. 1 \in 1..C /\ C \in 1..C /\ C \in Nat
    BY <1>1
  <2>2. /\ Nth(E, 1) \in E /\ Nth(E, C) \in E
        /\ R(Nth(E, 1)) = 0 /\ R(Nth(E, C)) = C - 1
    BY <1>10, <2>1
  <2>3. R(i) \in Nat /\ R(i) + 1 <= C
    BY <1>11
  <2>4. ~(i < Nth(E, 1))
    <3> SUFFICES ASSUME i < Nth(E, 1) PROVE FALSE
      OBVIOUS
    <3>1. R(i) < 0
      BY <1>5, <2>2
    <3> QED
      BY <2>3, <3>1
  <2>5. ~(Nth(E, C) < i)
    <3> SUFFICES ASSUME Nth(E, C) < i PROVE FALSE
      OBVIOUS
    <3>1. C - 1 < R(i)
      BY <1>5, <2>2
    <3> QED
      BY <2>1, <2>3, <3>1
  <2>6. Nth(E, 1) \in Nat /\ Nth(E, C) \in Nat /\ i \in Nat
    BY <1>2, <2>2
  <2> QED
    BY <2>4, <2>5, <2>6
<1> QED
  BY <1>1, <1>10, <1>14, <1>15, <1>16 DEF C

Ends(t) == {i \in DOMAIN t : EndsSentence(t, i)}
Starts(t, n) == IF n = 1 THEN Min({i \in DOMAIN t : t[i] \notin Stops}) ELSE Nth(Ends(t), n - 1) + 1

\* Where the n-th sentence is: no other ends in it, and each but the last ends in a full stop.
LEMMA Spans ==
  ASSUME NEW t \in Seq(STRING), NEW n \in 1..Cardinality(Ends(t))
  PROVE  /\ Cardinality(Ends(t)) \in Nat
         /\ Starts(t, n) \in Nat \ {0} /\ Nth(Ends(t), n) \in 1..Len(t)
         /\ Starts(t, n) <= Nth(Ends(t), n)
         /\ t[Nth(Ends(t), n)] \notin Blanks
         /\ n < Cardinality(Ends(t)) => t[Nth(Ends(t), n)] \in Stops
         /\ \A i \in Starts(t, n)..Nth(Ends(t), n) - 1 : ~EndsSentence(t, i)
<1> DEFINE E == Ends(t)
           C == Cardinality(E)
           z == Nth(E, n)
<1>1. Len(t) \in Nat /\ DOMAIN t = 1..Len(t) /\ E \in SUBSET (1..Len(t))
  BY DEF Ends
<1>2. /\ C \in Nat /\ (C = 0 <=> E = {})
      /\ \A m \in 1..C : Nth(E, m) \in E
      /\ \A m \in 1..C - 1 : Nth(E, m) < Nth(E, m + 1)
      /\ \A m \in 1..C - 1 : \A i \in E : ~(Nth(E, m) < i /\ i < Nth(E, m + 1))
      /\ \A i \in E : Nth(E, 1) <= i /\ i <= Nth(E, C)
  <2> HIDE DEF E
  <2> QED
    BY <1>1, Ranked
<1>3. \A i \in E : i \in 1..Len(t) /\ EndsSentence(t, i)
  BY DEF Ends
<1>4. \A i \in 1..Len(t) : EndsSentence(t, i) => i \in E
  BY DEF Ends
<1>0. n \in 1..C
  OBVIOUS
<1> HIDE DEF E
<1>5. z \in E /\ z \in 1..Len(t) /\ EndsSentence(t, z) /\ n \in 1..C /\ n \in Nat
  BY <1>0, <1>2, <1>3
<1>6. t[z] \notin Blanks
  BY <1>5 DEF EndsSentence
<1>7. ASSUME n < C PROVE t[z] \in Stops
  <2> SUFFICES ASSUME t[z] \notin Stops PROVE FALSE
    OBVIOUS
  <2> DEFINE y == Nth(E, n + 1)
  <2>1. n \in 1..C - 1 /\ n + 1 \in 1..C
    BY <1>2, <1>5, <1>7
  <2>2. z < y /\ y \in E
    BY <1>2, <2>1
  <2>3. y \in 1..Len(t) /\ EndsSentence(t, y)
    BY <1>3, <2>2
  <2> HIDE DEF y
  <2> HIDE DEF z
  <2>4. y \in z + 1..Len(t) /\ t[y] \notin Blanks
    <3>1. t[y] \notin Blanks
      BY <2>3 DEF EndsSentence
    <3>2. z \in Nat /\ y \in Nat /\ z < y /\ y <= Len(t)
      BY <1>1, <1>5, <2>2, <2>3
    <3> QED
      BY <1>1, <3>1, <3>2
  <2>5. \A j \in z + 1..Len(t) : t[j] \in Blanks
    BY <1>5 DEF EndsSentence
  <2> QED
    BY <2>4, <2>5
<1>8. CASE n = 1
  <2> DEFINE T == {i \in DOMAIN t : t[i] \notin Stops}
             a == Min(T)
  <2>1. Starts(t, n) = a
    BY <1>8 DEF Starts
  <2>2. PICK j \in 1..z : t[j] \notin Stops
    BY <1>5 DEF EndsSentence
  <2>3. j \in T /\ T \in SUBSET Nat
    BY <1>1, <1>5, <2>2
  <2>4. a \in T /\ \A y \in T : a <= y
    <3>1. \E x \in T : \A y \in T : x <= y
      <4> HIDE DEF T
      <4> QED
        BY <2>3, LeastNumber
    <3> HIDE DEF T
    <3> QED
      BY <3>1 DEF Min
  <2>5. a \in 1..Len(t) /\ a <= j
    BY <1>1, <2>3, <2>4
  <2> HIDE DEF T, a, z
  <2>6. a \in Nat \ {0} /\ a <= z
    BY <1>5, <2>2, <2>5
  <2>7. ASSUME NEW i \in a..z - 1 PROVE ~EndsSentence(t, i)
    <3>1. i \in 1..Len(t) /\ i < z
      BY <1>1, <1>5, <2>5
    <3>2. z <= i \/ ~EndsSentence(t, i)
      BY <1>2, <1>4, <1>8, <3>1 DEF z
    <3> QED
      BY <1>5, <3>1, <3>2
  <2> QED
    BY <1>2, <1>5, <1>6, <1>7, <2>1, <2>6, <2>7 DEF z, C, E
<1>9. CASE n # 1
  <2> DEFINE m == n - 1
             y == Nth(E, m)
  <2>1. m \in 1..C /\ m \in 1..C - 1 /\ m + 1 = n
    BY <1>2, <1>5, <1>9
  <2> HIDE DEF m
  <2>2. y \in E /\ y < z
    <3>1. y < Nth(E, m + 1)
      BY <1>2, <2>1
    <3> QED
      BY <1>2, <2>1, <3>1
  <2>3. \A i \in E : ~(y < i /\ i < z)
    <3>1. \A i \in E : ~(y < i /\ i < Nth(E, m + 1))
      BY <1>2, <2>1
    <3> QED
      BY <2>1, <3>1
  <2>4. Starts(t, n) = y + 1
    BY <1>9 DEF Starts, E, m
  <2>5. y \in 1..Len(t)
    BY <1>3, <2>2
  <2> HIDE DEF y, z
  <2>6. y + 1 \in Nat \ {0} /\ y + 1 <= z
    BY <1>5, <2>2, <2>5
  <2>7. ASSUME NEW i \in y + 1..z - 1 PROVE ~EndsSentence(t, i)
    <3>1. i \in 1..Len(t) /\ y < i /\ i < z
      BY <1>1, <1>5, <2>5
    <3> QED
      BY <1>4, <2>3, <3>1
  <2> QED
    BY <1>2, <1>5, <1>6, <1>7, <2>4, <2>6, <2>7 DEF z, C, E
<1> QED
  BY <1>8, <1>9

\* A sentence is a part of its text.
LEMMA Sentenced ==
  ASSUME NEW t \in Seq(STRING)
  PROVE  LET s == Sentences(t)
         IN  /\ s \in Seq(Seq(STRING)) /\ Len(s) = Cardinality(Ends(t)) /\ Len(s) \in Nat
             /\ \A n \in 1..Len(s) :
                  /\ s[n] \in Seq(STRING) /\ s[n] # <<>> /\ s[n][1] \notin Blanks
                  /\ n < Len(s) => s[n][Len(s[n])] \in Stops
                  /\ \E a \in Nat : /\ Within(s[n], a, t)
                                    /\ \A i \in 1..Len(s[n]) - 1 : ~EndsSentence(t, a + i)
<1> DEFINE s == Sentences(t)
           C == Cardinality(Ends(t))
           Sentence(n) == Trim(SubSeq(t, Starts(t, n), Nth(Ends(t), n)))
<1>1. s = [n \in 1..C |-> Sentence(n)]
  BY DEF Sentences, Starts, Ends
<1>2. C \in Nat
  <2>1. Len(t) \in Nat /\ Ends(t) \in SUBSET (1..Len(t))
    BY DEF Ends
  <2> QED
    BY <2>1, Ranked
<1>3. ASSUME NEW n \in 1..C
      PROVE  /\ Sentence(n) \in Seq(STRING) /\ Sentence(n) # <<>>
             /\ Sentence(n)[1] \notin Blanks
             /\ n < C => Sentence(n)[Len(Sentence(n))] \in Stops
             /\ \E a \in Nat : /\ Within(Sentence(n), a, t)
                               /\ \A i \in 1..Len(Sentence(n)) - 1 : ~EndsSentence(t, a + i)
  <2> DEFINE b == Starts(t, n)
             z == Nth(Ends(t), n)
             w == SubSeq(t, b, z)
             x == Trim(w)
  <2>1. /\ b \in Nat \ {0} /\ z \in 1..Len(t) /\ b <= z
        /\ t[z] \notin Blanks /\ (n < C => t[z] \in Stops)
        /\ \A i \in b..z - 1 : ~EndsSentence(t, i)
    BY Spans
  <2> HIDE DEF b, z, C
  <2>2. z \in Nat /\ z <= Len(t) /\ Len(t) \in Nat
    BY <2>1
  <2>3. w \in Seq(STRING) /\ Len(w) = z - b + 1 /\ Within(w, b - 1, t)
    BY <2>1, <2>2, Stretch
  <2> HIDE DEF w
  <2>4. Len(w) \in Nat \ {0} /\ Len(w) \in 1..Len(w) /\ b - 1 + Len(w) = z /\ b - 1 \in Nat
    BY <2>1, <2>2, <2>3
  <2>5. w[Len(w)] = t[z]
    BY <2>3, <2>4 DEF Within
  <2>6. w # <<>> /\ w[Len(w)] \notin Blanks
    BY <2>1, <2>4, <2>5
  <2>7. x \in Seq(STRING) /\ x # <<>> /\ x[1] \notin Blanks
    BY <2>3, <2>4, <2>6, Trimmed
  <2>8. PICK c \in Nat : Within(x, c, w) /\ c + Len(x) = Len(w)
    BY <2>3, <2>6, Trimmed
  <2> HIDE DEF x
  <2> DEFINE a == b - 1 + c
  <2>9. a \in Nat /\ Within(x, a, t)
    BY <2>3, <2>4, <2>7, <2>8, WithinBoth
  <2>10. Len(x) \in Nat \ {0} /\ a + Len(x) = z /\ a >= b - 1
    BY <2>4, <2>7, <2>8, SMTT(30)
  <2> HIDE DEF a
  <2>11. x[Len(x)] = t[z]
    <3>1. Len(x) \in 1..Len(x)
      BY <2>10
    <3> QED
      BY <2>9, <2>10, <3>1 DEF Within
  <2>12. \A i \in 1..Len(x) - 1 : ~EndsSentence(t, a + i)
    <3> SUFFICES ASSUME NEW i \in 1..Len(x) - 1 PROVE ~EndsSentence(t, a + i)
      OBVIOUS
    <3>1. a + i \in b..z - 1
      BY <2>1, <2>2, <2>9, <2>10
    <3> QED
      BY <2>1, <3>1
  <2>13. Sentence(n) = x
    BY DEF x, w, b, z
  <2> QED
    BY <2>1, <2>7, <2>9, <2>11, <2>12, <2>13
<1> HIDE DEF Sentence, C
<1>4. /\ s \in Seq(Seq(STRING)) /\ Len(s) = C
      /\ \A n \in 1..C : s[n] = Sentence(n)
  BY <1>1, <1>2, <1>3
<1> HIDE DEF s
<1> QED
  BY <1>2, <1>3, <1>4 DEF s, C
-----------------------------------------------------------------------------
(* Balloons.                                                                 *)

LEMMA Divided ==
  ASSUME NEW a \in Nat, NEW b \in Nat \ {0}
  PROVE  a \div b \in Nat /\ b * (a \div b) <= a /\ a < b * (a \div b) + b
OBVIOUS

\* Where the n-th balloon ends.
Deal(L, n) == IF n * PerPart(L) < L THEN n * PerPart(L) ELSE L

\* L sentences are dealt into two or three balloons, none of them empty, without rest.
LEMMA Dealt ==
  ASSUME NEW L \in Nat, L >= 2
  PROVE  LET per == PerPart(L)
             q   == (L + per - 1) \div per
         IN  /\ per \in Nat \ {0} /\ q \in 2..3
             /\ Deal(L, 0) = 0 /\ Deal(L, q) = L
             /\ \A n \in 1..q : /\ Deal(L, n) \in 1..L /\ Deal(L, n - 1) \in Nat
                                /\ Deal(L, n - 1) = (n - 1) * per
                                /\ Deal(L, n - 1) < Deal(L, n)
                                /\ Min({n * per, L}) = Deal(L, n)
<1> DEFINE per == PerPart(L)
           q   == (L + per - 1) \div per
<1>1. per \in Nat /\ 3 * per <= L + 2 /\ L + 2 < 3 * per + 3
  BY Divided DEF PerPart, MaxParts
<1> HIDE DEF per
<1>2. per \in Nat \ {0} /\ per < L /\ L <= 3 * per /\ L + per - 1 \in Nat
  BY <1>1
<1>3. q \in Nat /\ per * q <= L + per - 1 /\ L + per - 1 < per * q + per
  BY <1>2, Divided
<1> HIDE DEF q
<1>4. q # 0 /\ q # 1
  BY <1>2, <1>3
<1>5. q <= 3
  <2> SUFFICES ASSUME q >= 4 PROVE FALSE
    BY <1>3
  <2>1. per * 4 <= per * q
    BY <1>2, <1>3
  <2> QED
    BY <1>1, <1>2, <1>3, <2>1
<1>6. q \in {2, 3}
  BY <1>3, <1>4, <1>5
<1>7. \A n \in Int : Deal(L, n) = IF n * per < L THEN n * per ELSE L
  BY DEF Deal, per
<1>8. \A n \in {0, 1, 2, 3} : n * per \in Nat /\ (n * per) = per * n
  BY <1>2
<1>9. /\ 0 * per = 0 /\ 1 * per = per /\ 2 * per = per + per /\ 3 * per = per + per + per
  BY <1>2
<1>10. ASSUME NEW n \in 1..q
       PROVE  /\ Deal(L, n) \in 1..L /\ Deal(L, n - 1) \in Nat
              /\ Deal(L, n - 1) = (n - 1) * per
              /\ Deal(L, n - 1) < Deal(L, n)
              /\ Min({n * per, L}) = Deal(L, n)
  <2>1. n \in {1, 2, 3} /\ n <= q /\ n - 1 \in {0, 1, 2}
    BY <1>6
  <2>2. (n - 1) * per < L
    BY <1>2, <1>3, <1>6, <1>9, <2>1
  <2>3. n * per \in Nat /\ (n - 1) * per \in Nat /\ (n - 1) * per < n * per /\ n * per >= 1
    BY <1>2, <1>9, <2>1
  <2>4. Min({n * per, L}) = IF n * per < L THEN n * per ELSE L
    BY <2>3, LeastOfTwo
  <2>5. Deal(L, n) = (IF n * per < L THEN n * per ELSE L) /\ Deal(L, n - 1) = (n - 1) * per
    BY <1>7, <2>1, <2>2
  <2> QED
    BY <1>2, <2>2, <2>3, <2>4, <2>5
<1>11. Deal(L, 0) = 0 /\ Deal(L, q) = L
  <2>1. Deal(L, 0) = 0
    BY <1>2, <1>7, <1>9
  <2>2. ~(q * per < L)
    BY <1>2, <1>3, <1>6, <1>9
  <2>3. Deal(L, q) = L
    BY <1>3, <1>7, <2>2
  <2> QED
    BY <2>1, <2>3
<1>12. q \in 2..3
  BY <1>6
<1>13. /\ per \in Nat \ {0} /\ q \in 2..3
       /\ Deal(L, 0) = 0 /\ Deal(L, q) = L
       /\ \A n \in 1..q : /\ Deal(L, n) \in 1..L /\ Deal(L, n - 1) \in Nat
                          /\ Deal(L, n - 1) = (n - 1) * per
                          /\ Deal(L, n - 1) < Deal(L, n)
                          /\ Min({n * per, L}) = Deal(L, n)
  BY <1>2, <1>10, <1>11, <1>12
<1> QED
  BY <1>13, Zenon DEF per, q

\* A message is one balloon, or two or three of whole sentences in their order.
LEMMA Balloons ==
  ASSUME NEW t \in Seq(STRING)
  PROVE  LET s == Sentences(t)
             p == SplitMessage(t)
             L == Len(s)
         IN  \/ p = <<t>> /\ (Len(t) <= SPLIT \/ L <= 1)
             \/ /\ Len(t) > SPLIT /\ L >= 2 /\ Len(p) \in 2..3
                /\ p = [n \in 1..Len(p) |-> p[n]]
                /\ Deal(L, 0) = 0 /\ Deal(L, Len(p)) = L
                /\ \A n \in 1..Len(p) :
                     /\ Deal(L, n) \in 1..L /\ Deal(L, n - 1) \in Nat
                     /\ Deal(L, n - 1) < Deal(L, n)
                     /\ p[n] = Join(SubSeq(s, Deal(L, n - 1) + 1, Deal(L, n)))
<1> DEFINE s   == Sentences(t)
           L   == Len(s)
           per == PerPart(L)
           q   == (L + per - 1) \div per
           B(n) == Join(SubSeq(s, (n - 1) * per + 1, Min({n * per, L})))
           all == [n \in 1..q |-> B(n)]
<1>1. L \in Nat
  BY Sentenced
<1>2. SplitMessage(t) = IF Len(t) <= SPLIT \/ L <= 1 THEN <<t>>
                        ELSE SubSeq(all, 1, Min({MaxParts, Len(all)}))
  BY DEF SplitMessage
<1>3. CASE Len(t) <= SPLIT \/ L <= 1
  <2> HIDE DEF s, L
  <2> QED
    BY <1>2, <1>3 DEF s, L
<1>4. CASE ~(Len(t) <= SPLIT \/ L <= 1)
  <2>1. L >= 2 /\ Len(t) > SPLIT
    <3>1. SPLIT \in Nat /\ Len(t) \in Nat
      BY LengthsAssumption
    <3> HIDE DEF L
    <3> QED
      BY <1>1, <1>4, <3>1
  <2>2. /\ per \in Nat \ {0} /\ q \in 2..3
        /\ Deal(L, 0) = 0 /\ Deal(L, q) = L
        /\ \A n \in 1..q : /\ Deal(L, n) \in 1..L /\ Deal(L, n - 1) \in Nat
                           /\ Deal(L, n - 1) = (n - 1) * per
                           /\ Deal(L, n - 1) < Deal(L, n)
                           /\ Min({n * per, L}) = Deal(L, n)
    <3> HIDE DEF L
    <3> QED
      BY <1>1, <2>1, Dealt
  <2> HIDE DEF q, B
  <2>3. q \in Nat /\ q <= 3 /\ Len(all) = q /\ \A n \in 1..q : all[n] = B(n)
    BY <2>2
  <2>4. Min({MaxParts, Len(all)}) = q
    <3>1. Len(all) \in Int /\ 3 \in Int
      BY <2>3
    <3> HIDE DEF all
    <3>2. Min({3, Len(all)}) = IF 3 < Len(all) THEN 3 ELSE Len(all)
      BY <3>1, LeastOfTwo
    <3> QED
      BY <2>3, <3>2 DEF MaxParts
  <2> DEFINE p == SplitMessage(t)
  <2>5. p = SubSeq(all, 1, q)
    BY <1>2, <1>4, <2>4
  <2> HIDE DEF all, p
  <2>6. Len(p) = q /\ p = [n \in 1..q |-> p[n]] /\ \A n \in 1..q : p[n] = all[n]
    <3> DEFINE S == {all[i] : i \in 1..q}
    <3>1. \A i \in 1..q : all[i] \in S
      OBVIOUS
    <3> HIDE DEF S
    <3>2. /\ p \in Seq(S) /\ Len(p) = (IF 1 <= q THEN q - 1 + 1 ELSE 0)
          /\ \A i \in 1..q - 1 + 1 : p[i] = all[1 + i - 1]
      BY <2>3, <2>5, <3>1, SubSeqProperties
    <3>3. 1 <= q /\ q - 1 + 1 = q /\ \A i \in 1..q : 1 + i - 1 = i
      BY <2>2
    <3>4. Len(p) = q /\ p = [n \in 1..q |-> p[n]]
      BY <3>2, <3>3
    <3>5. \A i \in 1..q : p[i] = all[i]
      BY <3>2, <3>3
    <3> QED
      BY <3>4, <3>5
  <2>7. ASSUME NEW n \in 1..q PROVE p[n] = Join(SubSeq(s, Deal(L, n - 1) + 1, Deal(L, n)))
    <3>1. p[n] = B(n)
      BY <2>3, <2>6
    <3>2. (n - 1) * per + 1 = Deal(L, n - 1) + 1 /\ Min({n * per, L}) = Deal(L, n)
      BY <2>2
    <3> HIDE DEF s, L, per
    <3> QED
      BY <3>1, <3>2 DEF B
  <2>8. p = [n \in 1..Len(p) |-> p[n]]
    BY <2>6
  <2> HIDE DEF s, L, per
  <2> QED
    BY <2>1, <2>2, <2>6, <2>7, <2>8 DEF s, L, p
<1> QED
  BY <1>3, <1>4

\* What is put before a text.
LEMMA Prefixed ==
  ASSUME NEW W, NEW b \in W, NEW x \in Seq(W)
  PROVE  /\ <<b>> \o x \in Seq(W) /\ Len(<<b>> \o x) = Len(x) + 1
         /\ (<<b>> \o x)[1] = b /\ \A j \in 1..Len(x) : (<<b>> \o x)[j + 1] = x[j]
<1> DEFINE c == <<b>>
<1>1. c \in Seq(W) /\ Len(c) = 1 /\ c[1] = b
  OBVIOUS
<1>2. Len(x) \in Nat
  OBVIOUS
<1> HIDE DEF c
<1>3. /\ c \o x \in Seq(W) /\ Len(c \o x) = 1 + Len(x)
      /\ \A i \in 1..1 + Len(x) : (c \o x)[i] = IF i <= 1 THEN c[i] ELSE x[i - 1]
  <2>1. /\ c \o x \in Seq(W) /\ Len(c \o x) = Len(c) + Len(x)
        /\ \A i \in 1..Len(c) + Len(x) :
             (c \o x)[i] = IF i <= Len(c) THEN c[i] ELSE x[i - Len(c)]
    BY <1>1, ConcatProperties
  <2> QED
    BY <1>1, <2>1
<1>4. ASSUME NEW j \in 1..Len(x) PROVE (c \o x)[j + 1] = x[j]
  <2>1. j + 1 \in 1..1 + Len(x) /\ ~(j + 1 <= 1) /\ j + 1 - 1 = j
    BY <1>2
  <2> QED
    BY <1>3, <2>1
<1>5. (c \o x)[1] = b
  <2>1. 1 \in 1..1 + Len(x)
    BY <1>2
  <2> QED
    BY <1>1, <1>3, <2>1
<1> QED
  BY <1>2, <1>3, <1>4, <1>5 DEF c

\* Texts joined by single marks: the n-th one stands after at[n] things.
Strung(s, b) == FlattenSeq([n \in DOMAIN s |-> IF n = 1 THEN s[n] ELSE <<b>> \o s[n]])

\* Each text of s stands in t after its first at[n] things; between two there is one b.
Placed(s, b, at, t) ==
  /\ at[1] = 0 /\ Len(t) = at[Len(s)] + Len(s[Len(s)])
  /\ \A n \in 1..Len(s) : at[n] \in Nat /\ Within(s[n], at[n], t)
  /\ \A n \in 1..Len(s) - 1 :
       at[n + 1] = at[n] + Len(s[n]) + 1 /\ at[n + 1] \in 1..Len(t) /\ t[at[n + 1]] = b
  /\ \A i \in 1..Len(t) : \/ \E n \in 1..Len(s) : i \in at[n] + 1..at[n] + Len(s[n])
                          \/ \E n \in 1..Len(s) - 1 : i = at[n + 1]

LEMMA Placing ==
  ASSUME NEW W, NEW b \in W, NEW s \in Seq(Seq(W)), s # <<>>
  PROVE  Strung(s, b) \in Seq(W) /\ \E at : Placed(s, b, at, Strung(s, b))
<1> DEFINE v == [n \in DOMAIN s |-> IF n = 1 THEN s[n] ELSE <<b>> \o s[n]]
           t == Strung(s, b)
           N == Len(s)
           l(n) == Len(s[n])
<1>1. N \in Nat \ {0} /\ DOMAIN s = 1..N
      /\ \A n \in 1..N : s[n] \in Seq(W) /\ l(n) \in Nat
  OBVIOUS
<1>2. \A n \in 1..N : (IF n = 1 THEN s[n] ELSE <<b>> \o s[n]) \in Seq(W)
  BY <1>1, Prefixed
<1>3. v \in Seq(Seq(W)) /\ Len(v) = N
  BY <1>1, <1>2
<1>4. v[1] = s[1] /\ \A n \in 2..N : v[n] = <<b>> \o s[n]
  BY <1>1
<1>5. t = FlattenSeq(v)
  BY DEF Strung
<1> HIDE DEF v, t
<1>6. v # <<>>
  BY <1>1, <1>3
<1>7. \A n \in 2..N : /\ Len(v[n]) = l(n) + 1 /\ v[n][1] = b
                      /\ \A j \in 1..l(n) : v[n][j + 1] = s[n][j]
  BY <1>1, <1>4, Prefixed
<1>8. t \in Seq(W) /\ Len(t) \in Nat
  BY <1>3, <1>5, <1>6, Located
<1>9. PICK z : /\ \A n \in 0..N : z[n] \in Nat
               /\ z[0] = 0 /\ z[N] = Len(t)
               /\ \A n \in 1..N :
                    /\ z[n] = z[n - 1] + Len(v[n])
                    /\ \A j \in 1..Len(v[n]) :
                         z[n - 1] + j \in 1..Len(t) /\ t[z[n - 1] + j] = v[n][j]
               /\ \A i \in 1..Len(t) : \E n \in 1..N : i \in z[n - 1] + 1..z[n]
  <2> DEFINE f == FlattenSeq(v)
             M == Len(v)
  <2>1. PICK z : /\ \A n \in 0..M : z[n] \in Nat
                 /\ z[0] = 0 /\ z[M] = Len(f)
                 /\ \A n \in 1..M :
                      /\ z[n] = z[n - 1] + Len(v[n])
                      /\ \A j \in 1..Len(v[n]) :
                           z[n - 1] + j \in 1..Len(f) /\ f[z[n - 1] + j] = v[n][j]
                 /\ \A i \in 1..Len(f) : \E n \in 1..M : i \in z[n - 1] + 1..z[n]
    BY <1>3, <1>6, Located
  <2>2. f = t /\ M = N
    BY <1>3, <1>5
  <2> HIDE DEF N, f, M
  <2> QED
    BY <2>1, <2>2
<1> DEFINE at == [n \in 1..N |-> IF n = 1 THEN 0 ELSE z[n - 1] + 1]
<1>10. \A n \in 1..N : at[n] = IF n = 1 THEN 0 ELSE z[n - 1] + 1
  OBVIOUS
<1>11. l(1) = Len(v[1])
  BY <1>4
<1> HIDE DEF at, N, l
<1>12. ASSUME NEW n \in 1..N
       PROVE  /\ at[n] \in Nat /\ z[n - 1] \in Nat /\ z[n] \in Nat
              /\ z[n] = at[n] + l(n)
              /\ n # 1 => at[n] = z[n - 1] + 1 /\ at[n] \in 1..Len(t) /\ t[at[n]] = b
              /\ n = 1 => at[n] = 0 /\ z[n - 1] = 0
  <2>1. z[n - 1] \in Nat /\ z[n] \in Nat /\ z[n] = z[n - 1] + Len(v[n])
    <3>1. n - 1 \in 0..N /\ n \in 0..N
      BY <1>1
    <3> QED
      BY <1>9, <3>1
  <2>2. CASE n = 1
    <3>1. at[n] = 0 /\ z[n - 1] = 0 /\ Len(v[n]) = l(n)
      BY <1>9, <1>10, <1>11, <2>2
    <3> QED
      BY <2>1, <2>2, <3>1
  <2>3. CASE n # 1
    <3>1. n \in 2..N
      BY <1>1, <2>3
    <3>2. at[n] = z[n - 1] + 1 /\ Len(v[n]) = l(n) + 1 /\ v[n][1] = b /\ l(n) \in Nat
      BY <1>1, <1>7, <1>10, <2>3, <3>1
    <3>3. 1 \in 1..Len(v[n])
      BY <3>2
    <3>4. z[n - 1] + 1 \in 1..Len(t) /\ t[z[n - 1] + 1] = v[n][1]
      BY <1>9, <3>3
    <3> DEFINE c == z[n - 1]
               k == l(n)
    <3>5. z[n] = at[n] + l(n) /\ at[n] \in Nat
      <4>1. c \in Nat /\ k \in Nat /\ at[n] = c + 1 /\ z[n] = c + (k + 1)
        BY <2>1, <3>2
      <4> HIDE DEF c, k
      <4>2. z[n] = at[n] + k /\ at[n] \in Nat
        BY <4>1
      <4> QED
        BY <4>2 DEF k
    <3> QED
      BY <2>1, <2>3, <3>2, <3>4, <3>5
  <2> QED
    BY <2>2, <2>3
<1>13. ASSUME NEW n \in 1..N, NEW j \in 1..l(n)
       PROVE  at[n] + j \in 1..Len(t) /\ s[n][j] = t[at[n] + j]
  <2>1. CASE n = 1
    <3>1. j \in 1..Len(v[n]) /\ v[n][j] = s[n][j] /\ at[n] = 0 /\ z[n - 1] = 0
      BY <1>4, <1>11, <1>12, <2>1
    <3>2. z[n - 1] + j \in 1..Len(t) /\ t[z[n - 1] + j] = v[n][j]
      BY <1>9, <3>1
    <3> QED
      BY <3>1, <3>2
  <2>2. CASE n # 1
    <3>1. n \in 2..N /\ l(n) \in Nat
      BY <1>1, <2>2
    <3>2. Len(v[n]) = l(n) + 1 /\ v[n][j + 1] = s[n][j]
      BY <1>7, <3>1
    <3>3. j + 1 \in 1..Len(v[n])
      BY <3>1, <3>2
    <3>4. z[n - 1] + (j + 1) \in 1..Len(t) /\ t[z[n - 1] + (j + 1)] = v[n][j + 1]
      BY <1>9, <3>3
    <3>5. z[n - 1] + (j + 1) = at[n] + j
      <4> DEFINE c == z[n - 1]
      <4>1. c \in Nat /\ at[n] = c + 1 /\ j \in Nat
        BY <1>12, <2>2, <3>1
      <4> HIDE DEF c
      <4>2. c + (j + 1) = at[n] + j
        BY <4>1
      <4> QED
        BY <4>2 DEF c
    <3> QED
      BY <3>2, <3>4, <3>5
  <2> QED
    BY <2>1, <2>2
<1>14. ASSUME NEW n \in 1..N PROVE Within(s[n], at[n], t)
  BY <1>13 DEF Within, l
<1>15. ASSUME NEW n \in 1..N - 1
       PROVE  at[n + 1] = at[n] + l(n) + 1 /\ at[n + 1] \in 1..Len(t) /\ t[at[n + 1]] = b
  <2>1. n \in 1..N /\ n + 1 \in 1..N /\ n + 1 # 1 /\ n + 1 - 1 = n
    BY <1>1
  <2>2. at[n + 1] = z[n + 1 - 1] + 1 /\ at[n + 1] \in 1..Len(t) /\ t[at[n + 1]] = b
    BY <1>12, <2>1
  <2>3. z[n] = at[n] + l(n)
    BY <1>12, <2>1
  <2> QED
    BY <2>1, <2>2, <2>3
<1>16. at[1] = 0 /\ Len(t) = at[N] + l(N)
  <2>1. 1 \in 1..N /\ N \in 1..N
    BY <1>1
  <2> QED
    BY <1>9, <1>12, <2>1
<1>17. ASSUME NEW i \in 1..Len(t)
       PROVE  \/ \E n \in 1..N : i \in at[n] + 1..at[n] + l(n)
              \/ \E n \in 1..N - 1 : i = at[n + 1]
  <2>1. PICK n \in 1..N : i \in z[n - 1] + 1..z[n]
    BY <1>9
  <2>2. CASE n = 1
    <3>1. i \in at[n] + 1..at[n] + l(n)
      BY <1>12, <2>1, <2>2
    <3> QED
      BY <3>1
  <2>3. CASE n # 1
    <3>1. i = at[n] \/ i \in at[n] + 1..at[n] + l(n)
      BY <1>12, <2>1, <2>3, SMTT(30)
    <3>2. n - 1 \in 1..N - 1 /\ n - 1 + 1 = n
      BY <1>1, <2>3
    <3> QED
      BY <3>1, <3>2
  <2> QED
    BY <2>2, <2>3
<1>18. Placed(s, b, at, t)
  BY <1>12, <1>14, <1>15, <1>16, <1>17 DEF Placed, N, l
<1> QED
  BY <1>8, <1>18 DEF t

LEMMA JoinIs == \A s : Join(s) = Strung(s, " ")
BY DEF Join, Strung

LEMMA Joined ==
  ASSUME NEW s \in Seq(Seq(STRING)), s # <<>>
  PROVE  Join(s) \in Seq(STRING) /\ \E at : Placed(s, " ", at, Join(s))
<1>1. " " \in STRING
  BY TextsAssumption DEF Marks, Blanks
<1> DEFINE b == " "
           W == STRING
<1>2. b \in W /\ s \in Seq(Seq(W)) /\ s # <<>>
  BY <1>1
<1>3. Join(s) = Strung(s, b)
  BY JoinIs
<1> HIDE DEF b, W
<1>4. Strung(s, b) \in Seq(W) /\ \E at : Placed(s, b, at, Strung(s, b))
  BY <1>2, Placing, Zenon
<1> QED
  BY <1>3, <1>4, Zenon DEF b, W

\* No link is put together where two sentences meet.
LEMMA LinkInSentence ==
  ASSUME NEW s \in Seq(Seq(STRING)), s # <<>>,
         \A n \in 1..Len(s) : s[n] # <<>> /\ (n < Len(s) => s[n][Len(s[n])] \in Stops),
         NEW i \in 1..Len(Join(s)), DotAt(Join(s), i)
  PROVE  \E n \in 1..Len(s) : \E c \in Nat : \E j \in 1..Len(s[n]) :
           Within(s[n], c, Join(s)) /\ i = c + j /\ DotAt(s[n], j)
<1> DEFINE t == Join(s)
           N == Len(s)
           l(n) == Len(s[n])
<1>1. N \in Nat \ {0} /\ \A n \in 1..N : s[n] \in Seq(STRING) /\ l(n) \in Nat \ {0}
  OBVIOUS
<1>3. t \in Seq(STRING)
  BY Joined
<1>2. PICK at : Placed(s, " ", at, t)
  BY Joined
<1>4.           /\ at[1] = 0 /\ Len(t) = at[N] + l(N)
                /\ \A n \in 1..N : at[n] \in Nat /\ Within(s[n], at[n], t)
                /\ \A n \in 1..N - 1 : /\ at[n + 1] = at[n] + l(n) + 1
                                       /\ at[n + 1] \in 1..Len(t) /\ t[at[n + 1]] = " "
                /\ \A k \in 1..Len(t) : \/ \E n \in 1..N : k \in at[n] + 1..at[n] + l(n)
                                        \/ \E n \in 1..N - 1 : k = at[n + 1]
  <2> HIDE DEF t
  <2> QED
    BY <1>2 DEF Placed
<1>5. i \in 1..Len(t) /\ DotAt(t, i)
  OBVIOUS
<1>6. \A n \in 1..N - 1 : s[n][l(n)] \in Stops
  <2> SUFFICES ASSUME NEW n \in 1..N - 1 PROVE s[n][l(n)] \in Stops
    OBVIOUS
  <2>1. n \in 1..N /\ n < N
    BY <1>1
  <2> QED
    BY <2>1
<1> HIDE DEF t, N, l
<1>7. Len(t) \in Nat /\ i \in Nat
  BY <1>3, <1>5
<1>8. t[i] \notin Blanks /\ (t[i] = "." \/ t[i] = "ponto")
  BY <1>3, <1>5, DotIs DEF Blanks
<1>9. PICK n \in 1..N : i \in at[n] + 1..at[n] + l(n)
  BY <1>4, <1>5, <1>8 DEF Blanks
<1> DEFINE c == at[n]
           k == l(n)
           j == i - c
<1>10. c \in Nat /\ k \in Nat \ {0} /\ i \in c + 1..c + k /\ Within(s[n], c, t)
  BY <1>1, <1>4, <1>9
<1> HIDE DEF c, k
<1>11. j \in 1..k /\ i = c + j
  BY <1>7, <1>10
<1>12. \A m \in 1..k : c + m \in 1..Len(t) /\ s[n][m] = t[c + m]
  BY <1>10 DEF Within, k, l
\* Before the sentence: nothing, or a blank after a full stop.
<1>13. c = 0 \/ (c \in 1..Len(t) /\ t[c] = " " /\ c - 1 \in 1..Len(t) /\ t[c - 1] \in Stops)
  <2> SUFFICES ASSUME c # 0
               PROVE  c \in 1..Len(t) /\ t[c] = " " /\ c - 1 \in 1..Len(t) /\ t[c - 1] \in Stops
    OBVIOUS
  <2>1. n # 1
    BY <1>4 DEF c
  <2> DEFINE p == n - 1
  <2>2. p \in 1..N - 1 /\ p \in 1..N /\ p + 1 = n
    BY <1>1, <2>1
  <2> HIDE DEF p
  <2>3. at[p + 1] = at[p] + l(p) + 1 /\ at[p + 1] \in 1..Len(t) /\ t[at[p + 1]] = " "
    BY <1>4, <2>2
  <2>4. c = at[p] + l(p) + 1 /\ c \in 1..Len(t) /\ t[c] = " "
    BY <2>2, <2>3 DEF c
  <2> DEFINE a == at[p]
             q == l(p)
  <2>5. a \in Nat /\ q \in Nat \ {0} /\ s[p][q] \in Stops /\ Within(s[p], a, t)
    BY <1>1, <1>4, <1>6, <2>2
  <2>6. a + q \in 1..Len(t) /\ s[p][q] = t[a + q]
    <3>1. q \in 1..Len(s[p])
      BY <2>5 DEF l
    <3> HIDE DEF a, q
    <3> QED
      BY <2>5, <3>1 DEF Within
  <2>7. c = a + q + 1
    BY <2>4
  <2> HIDE DEF a, q
  <2>8. c - 1 = a + q
    BY <2>5, <2>7
  <2> QED
    BY <2>4, <2>5, <2>6, <2>8
\* After it: nothing, or a blank, and it ends in a full stop.
<1>14. c + k = Len(t) \/ (c + k + 1 \in 1..Len(t) /\ t[c + k + 1] = " " /\ t[c + k] \in Stops)
  <2>1. CASE n = N
    BY <1>4, <2>1 DEF c, k
  <2>2. CASE n # N
    <3>1. n \in 1..N - 1
      BY <1>1, <2>2
    <3>2. c + k + 1 \in 1..Len(t) /\ t[c + k + 1] = " "
      <4>1. at[n + 1] = at[n] + l(n) + 1 /\ at[n + 1] \in 1..Len(t) /\ t[at[n + 1]] = " "
        BY <1>4, <3>1
      <4> QED
        BY <4>1 DEF c, k
    <3>3. s[n][k] \in Stops
      BY <1>6, <3>1 DEF k
    <3>4. s[n][k] = t[c + k]
      BY <1>10, <1>12
    <3> QED
      BY <3>2, <3>3, <3>4
  <2> QED
    BY <2>1, <2>2
<1> HIDE DEF j
<1>15. /\ " " \in Blanks /\ "." \notin Blanks /\ "ponto" \notin Blanks /\ "ponto" \notin Stops
       /\ \A x : IsWord(x) => x \notin Blanks /\ x \notin Stops
       /\ \A x : x \in Blanks => x \notin Stops
       /\ \A x : EndsDomain(x) => IsWord(x)
  BY DEF EndsDomain, IsWord, Marks, Blanks, Stops
<1>16. \/ /\ t[i] \in {".", "ponto"} /\ i - 1 \in 1..Len(t) /\ i + 1 \in 1..Len(t)
          /\ IsWord(t[i - 1]) /\ EndsDomain(t[i + 1])
       \/ /\ t[i] = "ponto" /\ i - 2 \in 1..Len(t) /\ i - 1 \in 1..Len(t)
          /\ i + 1 \in 1..Len(t) /\ i + 2 \in 1..Len(t)
          /\ t[i - 1] \in Blanks /\ t[i + 1] \in Blanks
          /\ IsWord(t[i - 2]) /\ EndsDomain(t[i + 2])
  BY <1>3, <1>5, DotIs
<1>17. j # 1
  <2> SUFFICES ASSUME j = 1 PROVE FALSE
    OBVIOUS
  <2>1. i - 1 = c /\ i - 2 = c - 1
    BY <1>10, <1>11
  <2>2. CASE c = 0
    BY <1>16, <2>1, <2>2
  <2>3. CASE t[c] = " " /\ t[c - 1] \in Stops
    <3>1. ~IsWord(t[i - 1]) /\ ~IsWord(t[i - 2])
      BY <1>15, <2>1, <2>3
    <3> QED
      BY <1>16, <3>1
  <2> QED
    BY <1>13, <2>2, <2>3
<1>18. j # k
  <2> SUFFICES ASSUME j = k PROVE FALSE
    OBVIOUS
  <2>1. i = c + k /\ i + 1 = c + k + 1
    BY <1>10, <1>11
  <2>2. i # Len(t)
    BY <1>7, <1>16
  <2>3. t[i + 1] = " " /\ t[i] \in Stops
    BY <1>14, <2>1, <2>2
  <2>4. ~EndsDomain(t[i + 1]) /\ t[i] # "ponto"
    BY <1>15, <2>3
  <2> QED
    BY <1>16, <2>4
<1>19. j - 1 \in 1..k /\ j + 1 \in 1..k
  BY <1>10, <1>11, <1>17, <1>18
<1>20. s[n][j - 1] = t[i - 1] /\ s[n][j] = t[i] /\ s[n][j + 1] = t[i + 1]
  <2>1. c + (j - 1) = i - 1 /\ c + (j + 1) = i + 1
    BY <1>10, <1>11
  <2>2. s[n][j - 1] = t[c + (j - 1)] /\ s[n][j] = t[c + j] /\ s[n][j + 1] = t[c + (j + 1)]
    BY <1>11, <1>12, <1>19
  <2> QED
    BY <1>11, <2>1, <2>2
<1>21. s[n] \in Seq(STRING) /\ k = Len(s[n])
  BY <1>1 DEF k, l
<1>22. CASE t[i] \in {".", "ponto"} /\ IsWord(t[i - 1]) /\ EndsDomain(t[i + 1])
  <2>1. j \in 1..Len(s[n])
    BY <1>11, <1>21
  <2>2. DotAt(s[n], j)
    BY <1>8, <1>19, <1>20, <1>21, <1>22, <2>1, DotIs
  <2> QED
    BY <1>10, <1>11, <2>1, <2>2 DEF t, N
<1>23. CASE /\ t[i] = "ponto" /\ i - 2 \in 1..Len(t) /\ i - 1 \in 1..Len(t)
            /\ i + 1 \in 1..Len(t) /\ i + 2 \in 1..Len(t)
            /\ t[i - 1] \in Blanks /\ t[i + 1] \in Blanks
            /\ IsWord(t[i - 2]) /\ EndsDomain(t[i + 2])
  <2>1. j # 2
    <3> SUFFICES ASSUME j = 2 PROVE FALSE
      OBVIOUS
    <3>1. i - 2 = c
      BY <1>10, <1>11
    <3>2. CASE c = 0
      BY <1>23, <3>1, <3>2
    <3>3. CASE t[c] = " "
      BY <1>15, <1>23, <3>1, <3>3
    <3> QED
      BY <1>13, <3>2, <3>3
  <2>2. j + 1 # k
    <3> SUFFICES ASSUME j + 1 = k PROVE FALSE
      OBVIOUS
    <3>1. i + 1 = c + k /\ i + 2 = c + k + 1
      BY <1>10, <1>11
    <3>2. i + 1 # Len(t)
      BY <1>7, <1>23
    <3>3. t[i + 2] = " "
      BY <1>14, <3>1, <3>2
    <3> QED
      BY <1>15, <1>23, <3>3
  <2>3. j - 2 \in 1..k /\ j + 2 \in 1..k
    BY <1>10, <1>11, <1>19, <2>1, <2>2
  <2>4. s[n][j - 2] = t[i - 2] /\ s[n][j + 2] = t[i + 2]
    <3>1. c + (j - 2) = i - 2 /\ c + (j + 2) = i + 2
      BY <1>10, <1>11
    <3>2. s[n][j - 2] = t[c + (j - 2)] /\ s[n][j + 2] = t[c + (j + 2)]
      BY <1>12, <2>3
    <3> QED
      BY <3>1, <3>2
  <2>5. j \in 1..Len(s[n])
    BY <1>11, <1>21
  <2>6. DotAt(s[n], j)
    BY <1>19, <1>20, <1>21, <1>23, <2>3, <2>4, <2>5, DotIs
  <2> QED
    BY <1>10, <1>11, <2>5, <2>6 DEF t, N
<1> QED
  BY <1>16, <1>22, <1>23

LEMMA Among ==
  ASSUME NEW W, NEW b, NEW s \in Seq(Seq(W)), NEW t \in Seq(W), NEW at, Placed(s, b, at, t)
  PROVE  \A i \in 1..Len(t) : t[i] # b =>
           \E n \in 1..Len(s) : \E j \in 1..Len(s[n]) : t[i] = s[n][j]
<1> SUFFICES ASSUME NEW i \in 1..Len(t), t[i] # b
             PROVE  \E n \in 1..Len(s) : \E j \in 1..Len(s[n]) : t[i] = s[n][j]
  OBVIOUS
<1>1. PICK n \in 1..Len(s) : i \in at[n] + 1..at[n] + Len(s[n])
  BY DEF Placed
<1> DEFINE c == at[n]
           r == s[n]
           k == Len(r)
           j == i - c
<1>2. r \in Seq(W) /\ k \in Nat
  OBVIOUS
<1>3. c \in Nat /\ i \in c + 1..c + k /\ Within(r, c, t)
  BY <1>1 DEF Placed
<1>4. i \in Int
  OBVIOUS
<1> HIDE DEF c, k
<1>5. j \in 1..k /\ c + j = i
  BY <1>2, <1>3, <1>4
<1>6. r[j] = t[i]
  <2> HIDE DEF r
  <2> QED
    BY <1>3, <1>5 DEF Within, k
<1> QED
  BY <1>5, <1>6 DEF r, k

\* A balloon has nothing but what its sentences have, and blanks.
LEMMA WordInSentence ==
  ASSUME NEW s \in Seq(Seq(STRING)), s # <<>>
  PROVE  \A i \in 1..Len(Join(s)) : Join(s)[i] # " " =>
           \E n \in 1..Len(s) : \E j \in 1..Len(s[n]) : Join(s)[i] = s[n][j]
<1> DEFINE t == Join(s)
           W == STRING
           b == " "
<1>1. t \in Seq(W) /\ s \in Seq(Seq(W))
  BY Joined
<1>2. PICK at : Placed(s, b, at, t)
  BY Joined
<1> HIDE DEF t, W, b
<1>3. \A i \in 1..Len(t) : t[i] # b =>
        \E n \in 1..Len(s) : \E j \in 1..Len(s[n]) : t[i] = s[n][j]
  BY <1>1, <1>2, Among
<1> QED
  BY <1>3, Zenon DEF t, b

-----------------------------------------------------------------------------
(* What a reply says.                                                        *)

\* A text with no link and no gap, as the guard lets through; one without a forbidden word.
Sound(t) == t \in Seq(STRING) /\ ~HasLink(t) /\ \A i \in 1..Len(t) : t[i] # "gap"
Allowed(t) == \A i \in 1..Len(t) : t[i] \notin Forbidden

\* The text with the link of the code.
Whole(t, linked) == IF linked THEN t \o <<"gap">> \o Url ELSE t

LEMMA OwnIs ==
  ASSUME NEW t \in Seq(STRING)
  PROVE  LET s == Own(t)
         IN  /\ s \in Seq(STRING) /\ Within(s, 0, t) /\ \A i \in 1..Len(s) : s[i] # "gap"
<1> DEFINE s == Own(t)
           gaps == {i \in DOMAIN t : t[i] = "gap"}
<1>1. DOMAIN t = 1..Len(t) /\ Len(t) \in Nat /\ gaps \in SUBSET Nat
  OBVIOUS
<1>2. CASE gaps = {}
  <2>1. s = t
    BY <1>2 DEF Own
  <2>2. \A i \in 1..Len(t) : t[i] # "gap" /\ 0 + i = i
    BY <1>1, <1>2
  <2>3. Within(t, 0, t)
    BY <2>2 DEF Within
  <2> HIDE DEF s
  <2>4. s \in Seq(STRING) /\ Within(s, 0, t) /\ \A i \in 1..Len(s) : s[i] # "gap"
    BY <2>1, <2>2, <2>3
  <2> QED
    BY <2>4 DEF s
<1>3. CASE gaps # {}
  <2> DEFINE g == Min(gaps)
  <2>1. g \in gaps /\ \A y \in gaps : g <= y
    <3>1. \E x \in gaps : \A y \in gaps : x <= y
      <4> HIDE DEF gaps
      <4> QED
        BY <1>1, <1>3, LeastNumber
    <3> HIDE DEF gaps
    <3> QED
      BY <3>1 DEF Min
  <2>2. s = SubSeq(t, 1, g - 1)
    BY <1>3 DEF Own
  <2>3. g \in 1..Len(t) /\ \A i \in 1..g - 1 : i \in 1..Len(t) /\ t[i] # "gap"
    BY <1>1, <2>1, SMTT(30)
  <2> HIDE DEF g, s, gaps
  <2> DEFINE k == g - 1
  <2>4. k \in Nat /\ k <= Len(t) /\ s = SubSeq(t, 1, k)
    BY <1>1, <2>2, <2>3
  <2>5. \A i \in 1..k : t[i] # "gap"
    BY <2>3
  <2> HIDE DEF k
  <2>6. s \in Seq(STRING) /\ Len(s) = k /\ Within(s, 0, t)
    <3>1. s \in Seq(STRING) /\ Len(s) = (IF 1 <= k THEN k - 1 + 1 ELSE 0) /\ Within(s, 1 - 1, t)
      BY <2>4, Stretch
    <3>2. (IF 1 <= k THEN k - 1 + 1 ELSE 0) = k /\ 1 - 1 = 0
      BY <2>4
    <3> QED
      BY <3>1, <3>2
  <2>7. \A i \in 1..Len(s) : s[i] # "gap"
    <3> SUFFICES ASSUME NEW i \in 1..Len(s) PROVE s[i] # "gap"
      OBVIOUS
    <3>1. s[i] = t[0 + i] /\ 0 + i = i /\ i \in 1..k
      BY <2>6 DEF Within
    <3> QED
      BY <2>5, <3>1
  <2> QED
    BY <2>6, <2>7 DEF s
<1> QED
  BY <1>2, <1>3

LEMMA WholeIs ==
  ASSUME NEW t \in Seq(STRING), NEW linked \in BOOLEAN
  PROVE  LET w == Whole(t, linked)
         IN  /\ w \in Seq(STRING)
             /\ \A i \in 1..Len(t) : i \in 1..Len(w) /\ w[i] = t[i]
             /\ ~linked => w = t
             /\ linked => /\ Len(w) = Len(t) + 4 /\ w[Len(t) + 1] = "gap" /\ w[Len(t) + 2] = "go"
                          /\ w[Len(t) + 3] = "." /\ w[Len(t) + 4] = "com/r"
<1> DEFINE w == Whole(t, linked)
<1>1. CASE ~linked
  BY <1>1 DEF Whole
<1>2. CASE linked
  <2> DEFINE g == <<"gap">>
             u == Url
             L == Len(t)
  <2>1. g \in Seq(STRING) /\ Len(g) = 1 /\ g[1] = "gap"
    <3>1. "gap" \in STRING
      BY TextsAssumption DEF Marks, Blanks
    <3> QED
      BY <3>1
  <2>2. u \in Seq(STRING) /\ Len(u) = 3 /\ u[1] = "go" /\ u[2] = "." /\ u[3] = "com/r"
    <3>1. \A i \in 1..3 : Url[i] \in ToSet(Url)
      BY DEF ToSet, Url
    <3>2. Url[1] \in STRING /\ Url[2] \in STRING /\ Url[3] \in STRING
      BY <3>1, TextsAssumption
    <3>3. "go" \in STRING /\ "." \in STRING /\ "com/r" \in STRING
      BY <3>2 DEF Url
    <3> QED
      BY <3>3 DEF Url
  <2>3. w = (t \o g) \o u
    BY <1>2 DEF Whole
  <2> HIDE DEF g, u, w
  <2> DEFINE x == t \o g
  <2>4. /\ x \in Seq(STRING) /\ Len(x) = L + 1
        /\ \A i \in 1..L + 1 : x[i] = IF i <= L THEN t[i] ELSE g[i - L]
    <3>1. /\ x \in Seq(STRING) /\ Len(x) = L + Len(g)
          /\ \A i \in 1..L + Len(g) : x[i] = IF i <= L THEN t[i] ELSE g[i - L]
      BY <2>1, ConcatProperties, Zenon
    <3> QED
      BY <2>1, <3>1
  <2>5. w = x \o u
    BY <2>3
  <2>6. L \in Nat
    OBVIOUS
  <2> HIDE DEF x, L
  <2>7. /\ w \in Seq(STRING) /\ Len(w) = Len(x) + 3
        /\ \A i \in 1..Len(x) + 3 : w[i] = IF i <= Len(x) THEN x[i] ELSE u[i - Len(x)]
    <3>1. x \in Seq(STRING) /\ u \in Seq(STRING) /\ Len(u) = 3
      BY <2>2, <2>4
    <3> DEFINE y == x \o u
    <3>2. /\ y \in Seq(STRING) /\ Len(y) = Len(x) + Len(u)
          /\ \A i \in 1..Len(x) + Len(u) : y[i] = IF i <= Len(x) THEN x[i] ELSE u[i - Len(x)]
      BY <3>1, ConcatProperties, Zenon
    <3> HIDE DEF y
    <3>3. y = w
      BY <2>5 DEF y
    <3> QED
      BY <3>1, <3>2, <3>3
  <2>8. /\ Len(w) = L + 4
        /\ \A i \in 1..L + 4 : w[i] = IF i <= L + 1 THEN x[i] ELSE u[i - (L + 1)]
    BY <2>4, <2>6, <2>7
  <2>9. \A i \in 1..L : i \in 1..Len(w) /\ w[i] = t[i]
    BY <2>4, <2>6, <2>8
  <2>10. w[L + 1] = g[1] /\ w[L + 2] = u[1] /\ w[L + 3] = u[2] /\ w[L + 4] = u[3]
    BY <2>4, <2>6, <2>8
  <2> QED
    BY <1>2, <2>1, <2>2, <2>7, <2>8, <2>9, <2>10 DEF L, w
<1> QED
  BY <1>1, <1>2

\* The only links of a whole are the Url of the code, and one spelled out that ends in its gap.
LEMMA DotOfWhole ==
  ASSUME NEW t, Sound(t), NEW linked \in BOOLEAN, NEW i \in 1..Len(Whole(t, linked)),
         DotAt(Whole(t, linked), i)
  PROVE  /\ linked
         /\ \/ i = Len(t) + 3
            \/ i = Len(t) /\ Whole(t, linked)[i + 1] = "gap"
<1> DEFINE w == Whole(t, linked)
           L == Len(t)
<1>1. t \in Seq(STRING) /\ L \in Nat /\ \A k \in 1..L : ~DotAt(t, k)
  BY DEF Sound, HasLink
<1>2. /\ w \in Seq(STRING) /\ \A k \in 1..L : k \in 1..Len(w) /\ w[k] = t[k]
      /\ ~linked => w = t
      /\ linked => /\ Len(w) = L + 4 /\ w[L + 1] = "gap" /\ w[L + 2] = "go"
                   /\ w[L + 3] = "." /\ w[L + 4] = "com/r"
  BY <1>1, WholeIs
<1>3. linked
  BY <1>1, <1>2
<1>4. i \in 1..L + 4 /\ DotAt(w, i)
  BY <1>2, <1>3
<1> HIDE DEF w, L
<1>5. \/ /\ w[i] \in {".", "ponto"} /\ i - 1 \in 1..Len(w) /\ i + 1 \in 1..Len(w)
         /\ IsWord(w[i - 1]) /\ EndsDomain(w[i + 1])
      \/ /\ w[i] = "ponto" /\ i - 2 \in 1..Len(w) /\ i - 1 \in 1..Len(w)
         /\ i + 1 \in 1..Len(w) /\ i + 2 \in 1..Len(w)
         /\ w[i - 1] \in Blanks /\ w[i + 1] \in Blanks
         /\ IsWord(w[i - 2]) /\ EndsDomain(w[i + 2])
  BY <1>2, <1>3, <1>4, DotIs
<1>6. ~IsWord("gap") /\ ~EndsDomain("gap") /\ w[i] # "gap" /\ w[i] # "go" /\ w[i] # "com/r"
  BY <1>5 DEF EndsDomain, IsWord, Marks, Blanks
<1>7. i \in 1..L \/ i = L + 3
  BY <1>1, <1>2, <1>3, <1>4, <1>6
<1>8. ASSUME i \in 1..L, i # L PROVE FALSE
  <2>1. i \in 1..Len(t) /\ w[i] = t[i] /\ i + 1 \in 1..L /\ w[i + 1] = t[i + 1]
    BY <1>1, <1>2, <1>8 DEF L
  <2>2. \A k \in {i - 1, i - 2} : k \in 1..Len(w) => k \in 1..L /\ w[k] = t[k]
    BY <1>1, <1>2, <1>8
  <2>3. CASE /\ w[i] \in {".", "ponto"} /\ i - 1 \in 1..Len(w)
             /\ IsWord(w[i - 1]) /\ EndsDomain(w[i + 1])
    <3>1. DotAt(t, i)
      BY <1>1, <2>1, <2>2, <2>3, DotIs DEF L
    <3> QED
      BY <1>1, <1>8, <3>1
  <2>4. CASE /\ w[i] = "ponto" /\ i - 2 \in 1..Len(w) /\ i - 1 \in 1..Len(w)
             /\ i + 2 \in 1..Len(w)
             /\ w[i - 1] \in Blanks /\ w[i + 1] \in Blanks
             /\ IsWord(w[i - 2]) /\ EndsDomain(w[i + 2])
    <3>1. i + 2 # L + 1
      BY <1>2, <1>3, <1>6, <2>4
    <3>2. i + 2 \in 1..L /\ w[i + 2] = t[i + 2]
      BY <1>1, <1>2, <1>8, <3>1
    <3>3. DotAt(t, i)
      BY <1>1, <2>1, <2>2, <2>4, <3>2, DotIs DEF L
    <3> QED
      BY <1>1, <1>8, <3>3
  <2> QED
    BY <1>5, <2>3, <2>4
<1> QED
  BY <1>2, <1>3, <1>7, <1>8 DEF w, L

LEMMA OwnDot ==
  ASSUME NEW t \in Seq(STRING), NEW i \in 1..Len(Own(t)), DotAt(Own(t), i)
  PROVE  /\ i \in 1..Len(t) /\ DotAt(t, i) /\ i + 1 \in 1..Len(t) /\ t[i + 1] # "gap"
         /\ \A k \in 1..i : t[k] # "gap"
<1> DEFINE s == Own(t)
<1>1. s \in Seq(STRING) /\ Within(s, 0, t) /\ \A k \in 1..Len(s) : s[k] # "gap"
  BY OwnIs
<1>2. i \in 1..Len(s) /\ DotAt(s, i)
  OBVIOUS
<1> HIDE DEF s
<1>3. i \in Nat /\ Len(s) \in Nat /\ i + 1 \in 1..Len(s)
  BY <1>1, <1>2, DotIs
<1>4. i \in 1..Len(t) /\ DotAt(t, i)
  <2>1. 0 + i \in 1..Len(t) /\ DotAt(t, 0 + i)
    BY <1>1, <1>2, DotWithin
  <2> QED
    BY <1>3, <2>1
<1>5. \A k \in 1..Len(s) : k \in 1..Len(t) /\ s[k] = t[k]
  <2> SUFFICES ASSUME NEW k \in 1..Len(s) PROVE k \in 1..Len(t) /\ s[k] = t[k]
    OBVIOUS
  <2>1. 0 + k \in 1..Len(t) /\ s[k] = t[0 + k] /\ 0 + k = k
    BY <1>1 DEF Within
  <2> QED
    BY <2>1
<1>6. \A k \in 1..i : k \in 1..Len(s)
  BY <1>3
<1> QED
  BY <1>1, <1>3, <1>4, <1>5, <1>6

\* Some sentences of a text, one after the other.
LEMMA Some ==
  ASSUME NEW w \in Seq(STRING), NEW m \in 1..Len(Sentences(w)), NEW n \in m..Len(Sentences(w))
  PROVE  LET r == SubSeq(Sentences(w), m, n)
         IN  /\ r \in Seq(Seq(STRING)) /\ r # <<>>
             /\ \A k \in 1..Len(r) :
                  /\ r[k] \in Seq(STRING) /\ r[k] # <<>>
                  /\ k < Len(r) => r[k][Len(r[k])] \in Stops
                  /\ \E a \in Nat : /\ Within(r[k], a, w)
                                    /\ \A i \in 1..Len(r[k]) - 1 : ~EndsSentence(w, a + i)
<1> DEFINE s == Sentences(w)
           r == SubSeq(s, m, n)
           W == Seq(STRING)
<1>1. s \in Seq(W) /\ Len(s) \in Nat
      /\ \A k \in 1..Len(s) :
                  /\ s[k] \in W /\ s[k] # <<>>
                  /\ k < Len(s) => s[k][Len(s[k])] \in Stops
                  /\ \E a \in Nat : /\ Within(s[k], a, w)
                                    /\ \A i \in 1..Len(s[k]) - 1 : ~EndsSentence(w, a + i)
  BY Sentenced
<1>2. m \in 1..Len(s) /\ n \in m..Len(s)
  OBVIOUS
<1> HIDE DEF s, W
<1>3. /\ r \in Seq(W) /\ Len(r) = n - m + 1
      /\ \A k \in 1..n - m + 1 : r[k] = s[m + k - 1]
  <2>1. \A i \in m..n : s[i] \in W
    BY <1>1, <1>2
  <2>2. m \in Nat \ {0} /\ n \in Nat /\ n \in Int /\ m \in Int /\ m <= n
    BY <1>1, <1>2
  <2> QED
    BY <1>1, <1>2, <2>1, <2>2, SubSeqProperties, SMTT(30)
<1> HIDE DEF r
<1>4. ASSUME NEW k \in 1..Len(r)
      PROVE  /\ m + k - 1 \in 1..Len(s) /\ r[k] = s[m + k - 1]
             /\ k < Len(r) => m + k - 1 < Len(s)
  BY <1>1, <1>2, <1>3
<1>5. r # <<>>
  BY <1>1, <1>2, <1>3
<1>6. \A k \in 1..Len(r) :
                  /\ r[k] \in W /\ r[k] # <<>>
                  /\ k < Len(r) => r[k][Len(r[k])] \in Stops
                  /\ \E a \in Nat : /\ Within(r[k], a, w)
                                    /\ \A i \in 1..Len(r[k]) - 1 : ~EndsSentence(w, a + i)
  BY <1>1, <1>4
<1> QED
  BY <1>3, <1>5, <1>6 DEF r, s, W

\* A link of a balloon is one of the text, and it is not where a sentence ends.
LEMMA LinkInBalloon ==
  ASSUME NEW w \in Seq(STRING), NEW r \in Seq(Seq(STRING)), r # <<>>,
         \A k \in 1..Len(r) :
                  /\ r[k] \in Seq(STRING) /\ r[k] # <<>>
                  /\ k < Len(r) => r[k][Len(r[k])] \in Stops
                  /\ \E a \in Nat : /\ Within(r[k], a, w)
                                    /\ \A i \in 1..Len(r[k]) - 1 : ~EndsSentence(w, a + i),
         NEW i \in 1..Len(Join(r)), DotAt(Join(r), i)
  PROVE  \E k \in 1..Len(w) : /\ DotAt(w, k) /\ ~EndsSentence(w, k)
                              /\ k + 1 \in 1..Len(w) /\ w[k + 1] = Join(r)[i + 1]
<1> DEFINE b == Join(r)
<1>1. PICK n \in 1..Len(r) : \E c \in Nat : \E j \in 1..Len(r[n]) :
             Within(r[n], c, b) /\ i = c + j /\ DotAt(r[n], j)
  BY LinkInSentence
<1> DEFINE s == r[n]
<1>2. PICK c \in Nat, j \in 1..Len(s) : Within(s, c, b) /\ i = c + j /\ DotAt(s, j)
  BY <1>1
<1>3. PICK a \in Nat : Within(s, a, w) /\ \A x \in 1..Len(s) - 1 : ~EndsSentence(w, a + x)
  OBVIOUS
<1>4. s \in Seq(STRING)
  OBVIOUS
<1> HIDE DEF s, b
<1>5. j \in Nat /\ Len(s) \in Nat /\ j + 1 \in 1..Len(s) /\ j \in 1..Len(s) - 1
  BY <1>2, <1>4, DotIs
<1>6. a + j \in 1..Len(w) /\ DotAt(w, a + j)
  BY <1>2, <1>3, <1>4, DotWithin
<1>7. ~EndsSentence(w, a + j)
  BY <1>3, <1>5
<1>8. a + (j + 1) \in 1..Len(w) /\ s[j + 1] = w[a + (j + 1)] /\ s[j + 1] = b[c + (j + 1)]
  BY <1>2, <1>3, <1>5 DEF Within
<1>9. a + (j + 1) = (a + j) + 1 /\ c + (j + 1) = i + 1
  BY <1>2, <1>5
<1>10. (a + j) + 1 \in 1..Len(w) /\ w[(a + j) + 1] = b[i + 1]
  BY <1>8, <1>9
<1> QED
  BY <1>6, <1>7, <1>10 DEF b

LEMMA WordInBalloon ==
  ASSUME NEW w \in Seq(STRING), NEW r \in Seq(Seq(STRING)), r # <<>>,
         \A k \in 1..Len(r) : \E a \in Nat : Within(r[k], a, w)
  PROVE  \A i \in 1..Len(Join(r)) : Join(r)[i] # " " => \E k \in 1..Len(w) : Join(r)[i] = w[k]
<1> SUFFICES ASSUME NEW i \in 1..Len(Join(r)), Join(r)[i] # " "
             PROVE  \E k \in 1..Len(w) : Join(r)[i] = w[k]
  OBVIOUS
<1>1. PICK n \in 1..Len(r) : \E j \in 1..Len(r[n]) : Join(r)[i] = r[n][j]
  BY WordInSentence
<1>2. PICK j \in 1..Len(r[n]) : Join(r)[i] = r[n][j]
  BY <1>1
<1>3. PICK a \in Nat : Within(r[n], a, w)
  OBVIOUS
<1>4. a + j \in 1..Len(w) /\ r[n][j] = w[a + j]
  BY <1>3 DEF Within
<1> QED
  BY <1>2, <1>4

LEMMA WholeAllowed ==
  ASSUME Forbidden \cap ToSet(Url) = {}, NEW t \in Seq(STRING), Allowed(t), NEW linked \in BOOLEAN
  PROVE  Allowed(Whole(t, linked))
<1> DEFINE w == Whole(t, linked)
           L == Len(t)
<1>1. L \in Nat /\ \A i \in 1..L : t[i] \notin Forbidden
  BY DEF Allowed
<1>2. /\ w \in Seq(STRING) /\ \A i \in 1..L : i \in 1..Len(w) /\ w[i] = t[i]
      /\ ~linked => w = t
      /\ linked => /\ Len(w) = L + 4 /\ w[L + 1] = "gap" /\ w[L + 2] = "go"
                   /\ w[L + 3] = "." /\ w[L + 4] = "com/r"
  BY WholeIs
<1> HIDE DEF w, L
<1>3. \A i \in 1..Len(w) : w[i] \notin Forbidden
  <2>1. \A x \in {"go", ".", "com/r"} : x \in ToSet(Url)
    <3>1. Url[1] = "go" /\ Url[2] = "." /\ Url[3] = "com/r" /\ DOMAIN Url = 1..3
      BY DEF Url
    <3> QED
      BY <3>1 DEF ToSet
  <2>2. \A x \in {"go", ".", "com/r", "gap"} : x \notin Forbidden
    BY <2>1, TextsAssumption DEF Marks, Blanks
  <2>3. CASE linked
    <3>1. \A i \in 1..Len(w) : i \in 1..L \/ i = L + 1 \/ i = L + 2 \/ i = L + 3 \/ i = L + 4
      BY <1>1, <1>2, <2>3
    <3> QED
      BY <1>1, <1>2, <2>2, <2>3, <3>1
  <2>4. CASE ~linked
    BY <1>1, <1>2, <2>4 DEF L
  <2> QED
    BY <2>3, <2>4
<1> QED
  BY <1>3 DEF Allowed, w

\* The whole of a sound text has no link before its gap.
LEMMA WholeSound ==
  ASSUME NEW t, Sound(t), NEW linked \in BOOLEAN
  PROVE  LET w == Whole(t, linked)
         IN  /\ w \in Seq(STRING)
             /\ ~HasLink(Own(w))
             /\ \A i \in 1..Len(w) : DotAt(w, i) /\ ~EndsSentence(w, i) => w[i + 1] = "gap"
<1> DEFINE w == Whole(t, linked)
           L == Len(t)
<1>1. t \in Seq(STRING) /\ L \in Nat 
  BY DEF Sound
<1>2. /\ w \in Seq(STRING) /\ \A i \in 1..L : i \in 1..Len(w) /\ w[i] = t[i]
      /\ ~linked => w = t
      /\ linked => /\ Len(w) = L + 4 /\ w[L + 1] = "gap" /\ w[L + 2] = "go"
                   /\ w[L + 3] = "." /\ w[L + 4] = "com/r"
  BY <1>1, WholeIs
<1>3. ASSUME NEW i \in 1..Len(w), DotAt(w, i)
      PROVE  linked /\ (i = L + 3 \/ (i = L /\ w[i + 1] = "gap"))
  BY <1>3, DotOfWhole
<1>4. Sound(t)
  OBVIOUS
<1> HIDE DEF w, L
<1>6. ~HasLink(Own(w))
  <2> SUFFICES ASSUME NEW i \in DOMAIN Own(w), DotAt(Own(w), i) PROVE FALSE
    BY DEF HasLink
  <2>1. i \in 1..Len(Own(w))
    BY <1>2, OwnIs
  <2>2. /\ i \in 1..Len(w) /\ DotAt(w, i) /\ w[i + 1] # "gap" /\ \A k \in 1..i : w[k] # "gap"
    BY <1>2, <2>1, OwnDot
  <2>3. linked /\ i = L + 3
    BY <1>3, <2>2
  <2>4. L + 1 \in 1..i
    BY <1>1, <2>3
  <2> QED
    BY <1>2, <2>2, <2>3, <2>4
<1>7. ASSUME linked PROVE EndsSentence(w, L + 3)
  <2>1. w[L + 3] \notin Blanks /\ w[L + 3] \in Stops /\ w[L + 4] \notin Stops /\ w[L + 2] \notin Stops
    BY <1>2, <1>7 DEF Blanks, Stops
  <2>2. L + 2 \in 1..L + 3 /\ L + 3 + 1 = L + 4
    BY <1>1
  <2> QED
    BY <2>1, <2>2 DEF EndsSentence
<1> QED
  BY <1>2, <1>3, <1>6, <1>7 DEF w

LEMMA JoinedFull ==
  ASSUME NEW s \in Seq(Seq(STRING)), s # <<>>, \A n \in 1..Len(s) : s[n] # <<>>
  PROVE  Join(s) # <<>>
<1> DEFINE t == Join(s)
           N == Len(s)
           k == Len(s[N])
<1>1. N \in 1..N /\ s[N] \in Seq(STRING) /\ s[N] # <<>>
  OBVIOUS
<1>2. k \in Nat \ {0}
  BY <1>1
<1>3. PICK at : Placed(s, " ", at, t)
  BY Joined
<1> HIDE DEF t
<1>4. Len(t) = at[N] + k /\ at[N] \in Nat
  BY <1>1, <1>3 DEF Placed
<1> DEFINE c == at[N]
           l == Len(t)
<1>5. l = c + k /\ c \in Nat
  BY <1>4
<1> HIDE DEF c, k, l
<1>6. l # 0
  BY <1>2, <1>5
<1>7. t # <<>>
  BY <1>6 DEF l
<1> QED
  BY <1>7 DEF t

\* Balloons with the words of w, none of them empty and none with a link before its gap.
Balloon(b, w) == /\ b # <<>> /\ ~HasLink(Own(b))
                 /\ \A i \in 1..Len(b) : b[i] # " " => \E k \in 1..Len(w) : b[i] = w[k]
BalloonsOf(p, w) == /\ p \in Seq(Seq(STRING)) /\ Len(p) \in Nat \ {0}
                    /\ \A n \in 1..Len(p) : Balloon(p[n], w)
                    /\ Len(p) = 1 => p = <<w>>

LEMMA BalloonsSound ==
  ASSUME NEW t, Sound(t), t # <<>>, NEW linked \in BOOLEAN
  PROVE  BalloonsOf(SplitMessage(Whole(t, linked)), Whole(t, linked))
<1> DEFINE w == Whole(t, linked)
           p == SplitMessage(w)
           s == Sentences(w)
<1>1. /\ w \in Seq(STRING)
      /\ ~HasLink(Own(w))
      /\ \A i \in 1..Len(w) : DotAt(w, i) /\ ~EndsSentence(w, i) => w[i + 1] = "gap"
  BY WholeSound
<1>5. w # <<>>
  <2>1. t \in Seq(STRING) /\ 1 \in 1..Len(t)
    BY DEF Sound
  <2>2. 1 \in 1..Len(w)
    BY <2>1, WholeIs
  <2> HIDE DEF w
  <2> QED
    BY <2>2
<1> HIDE DEF w
<1>2. \/ p = <<w>>
      \/ /\ Len(p) \in 2..3 /\ p = [n \in 1..Len(p) |-> p[n]]
         /\ \A n \in 1..Len(p) :
              /\ Deal(Len(s), n) \in 1..Len(s) /\ Deal(Len(s), n - 1) \in Nat
              /\ Deal(Len(s), n - 1) < Deal(Len(s), n)
              /\ p[n] = Join(SubSeq(s, Deal(Len(s), n - 1) + 1, Deal(Len(s), n)))
  BY <1>1, Balloons
<1>3. CASE p = <<w>>
  <2>1. /\ p \in Seq(Seq(STRING)) /\ Len(p) = 1 /\ p[1] = w
    BY <1>1, <1>3
  <2> HIDE DEF p
  <2>2. \A n \in 1..Len(p) : p[n] = w
    BY <2>1
  <2>3. Balloon(w, w)
    BY <1>1, <1>5 DEF Balloon
  <2>4. BalloonsOf(p, w)
    BY <1>3, <2>1, <2>2, <2>3 DEF BalloonsOf
  <2> QED
    BY <2>4 DEF p, w
<1>4. CASE /\ Len(p) \in 2..3 /\ p = [n \in 1..Len(p) |-> p[n]]
           /\ \A n \in 1..Len(p) :
                /\ Deal(Len(s), n) \in 1..Len(s) /\ Deal(Len(s), n - 1) \in Nat
                /\ Deal(Len(s), n - 1) < Deal(Len(s), n)
                /\ p[n] = Join(SubSeq(s, Deal(Len(s), n - 1) + 1, Deal(Len(s), n)))
  <2> HIDE DEF p
  <2>1. ASSUME NEW n \in 1..Len(p)
        PROVE  p[n] \in Seq(STRING) /\ Balloon(p[n], w)
    <3> DEFINE m == Deal(Len(s), n - 1) + 1
               q == Deal(Len(s), n)
               r == SubSeq(s, m, q)
    <3>1. p[n] = Join(r)
      BY <1>4
    <3>2. m \in 1..Len(s) /\ q \in m..Len(s)
      <4>1. Len(s) \in Nat
        BY <1>1, Sentenced
      <4> DEFINE x == Deal(Len(s), n - 1)
                 l == Len(s)
      <4>2. q \in 1..l /\ x \in Nat /\ x < q /\ l \in Nat
        BY <1>4, <4>1
      <4> HIDE DEF x, q, l
      <4>3. x + 1 \in 1..l /\ q \in x + 1..l
        BY <4>2
      <4> QED
        BY <4>3 DEF x, l
    <3> HIDE DEF m, q
    <3>3. /\ r \in Seq(Seq(STRING)) /\ r # <<>>
          /\ \A k \in 1..Len(r) :
               /\ r[k] \in Seq(STRING) /\ r[k] # <<>>
               /\ k < Len(r) => r[k][Len(r[k])] \in Stops
               /\ \E a \in Nat : /\ Within(r[k], a, w)
                                 /\ \A i \in 1..Len(r[k]) - 1 : ~EndsSentence(w, a + i)
      BY <1>1, <3>2, Some
    <3> HIDE DEF r, s
    <3> DEFINE b == Join(r)
    <3>4. b \in Seq(STRING) /\ b # <<>>
      BY <3>3, Joined, JoinedFull
    <3>5. ~HasLink(Own(b))
      <4> SUFFICES ASSUME NEW i \in DOMAIN Own(b), DotAt(Own(b), i) PROVE FALSE
        BY DEF HasLink
      <4>1. i \in 1..Len(Own(b))
        BY <3>4, OwnIs
      <4>2. i \in 1..Len(b) /\ DotAt(b, i) /\ b[i + 1] # "gap"
        BY <3>4, <4>1, OwnDot
      <4>3. \E k \in 1..Len(w) : /\ DotAt(w, k) /\ ~EndsSentence(w, k)
                                 /\ k + 1 \in 1..Len(w) /\ w[k + 1] = b[i + 1]
        BY <1>1, <3>3, <4>2, LinkInBalloon
      <4> QED
        BY <1>1, <4>2, <4>3
    <3>6. \A i \in 1..Len(b) : b[i] # " " => \E k \in 1..Len(w) : b[i] = w[k]
      BY <1>1, <3>3, WordInBalloon
    <3> QED
      BY <3>1, <3>4, <3>5, <3>6 DEF Balloon
  <2>2. p \in Seq(Seq(STRING))
    <3>1. \A n \in 1..Len(p) : p[n] \in Seq(STRING)
      BY <2>1
    <3>2. Len(p) \in Nat
      BY <1>4
    <3> QED
      BY <1>4, <3>1, <3>2
  <2>3. Len(p) \in Nat \ {0} /\ Len(p) # 1
    <3> DEFINE l == Len(p)
    <3>1. l \in 2..3
      BY <1>4
    <3> HIDE DEF l
    <3>2. l \in Nat \ {0} /\ l # 1
      BY <3>1
    <3> QED
      BY <3>2 DEF l
  <2>4. BalloonsOf(p, w)
    BY <2>1, <2>2, <2>3 DEF BalloonsOf
  <2> QED
    BY <2>4 DEF p, w
<1> QED
  BY <1>2, <1>3, <1>4

LEMMA Greatest ==
  ASSUME NEW L \in Nat, NEW E \in SUBSET (1..L), E # {}
  PROVE  Max(E) \in E /\ \A y \in E : Max(E) >= y
<1> DEFINE back == {L - i : i \in E}
<1>1. back \in SUBSET Nat /\ back # {}
  <2>1. \A i \in E : i \in 1..L
    OBVIOUS
  <2>2. \A i \in E : L - i \in Nat
    BY <2>1
  <2> QED
    BY <2>2
<1>2. PICK x \in back : \A y \in back : x <= y
  <2> HIDE DEF back
  <2> QED
    BY <1>1, LeastNumber
<1>3. PICK i \in E : x = L - i
  OBVIOUS
<1>4. \A y \in E : L - i <= L - y
  BY <1>2, <1>3
<1>5. i \in Nat /\ \A y \in E : y \in Nat
  OBVIOUS
<1>6. \A y \in E : i >= y
  BY <1>4, <1>5
<1> QED
  BY <1>3, <1>6 DEF Max

LEMMA SoundWithin ==
  ASSUME NEW t, Sound(t), NEW s \in Seq(STRING), NEW a \in Nat, Within(s, a, t)
  PROVE  Sound(s) /\ (Allowed(t) => Allowed(s))
<1>1. t \in Seq(STRING) /\ \A i \in 1..Len(t) : ~DotAt(t, i) /\ t[i] # "gap"
  BY DEF Sound, HasLink
<1>2. ~HasLink(s)
  <2> SUFFICES ASSUME NEW i \in 1..Len(s), DotAt(s, i) PROVE FALSE
    BY DEF HasLink
  <2>1. a + i \in 1..Len(t) /\ DotAt(t, a + i)
    BY <1>1, DotWithin
  <2> QED
    BY <1>1, <2>1
<1>3. \A i \in 1..Len(s) : s[i] # "gap"
  BY <1>1 DEF Within
<1>4. Allowed(t) => Allowed(s)
  BY DEF Within, Allowed
<1> QED
  BY <1>2, <1>3, <1>4 DEF Sound

\* What Truncated leaves stands in the text, and is not empty.
LEMMA TruncatedWithin ==
  ASSUME NEW t \in Seq(STRING), t # <<>>, t[1] \notin Blanks
  PROVE  LET s == Truncated(t)
         IN  s \in Seq(STRING) /\ s # <<>> /\ \E a \in Nat : Within(s, a, t)
<1> DEFINE s == Truncated(t)
           cut == SubSeq(t, 1, MAX_CHARS)
           ends == {i \in 1..MAX_CHARS - 1 :
                      cut[i] \in Stops /\ cut[i + 1] = " " /\ i > LEAST_CUT + 1}
           part(n) == SubSeq(cut, 1, n)
           r == IF ends = {} THEN cut ELSE SubSeq(cut, 1, Max(ends))
<1>1. MAX_CHARS \in Nat
  BY LengthsAssumption
<1>2. CASE MAX_CHARS = 0 \/ Len(t) <= MAX_CHARS
  <2>1. s = t
    BY <1>2 DEF Truncated
  <2>2. Within(t, 0, t)
    BY DEF Within
  <2> HIDE DEF s
  <2>3. s \in Seq(STRING) /\ s # <<>> /\ \E a \in Nat : Within(s, a, t)
    BY <2>1, <2>2
  <2> QED
    BY <2>3 DEF s
<1>3. CASE ~(MAX_CHARS = 0 \/ Len(t) <= MAX_CHARS)
  <2>1. s = Trim(r)
    BY <1>3 DEF Truncated
  <2> DEFINE M == MAX_CHARS
  <2>2. M \in Nat \ {0} /\ M <= Len(t) /\ Len(t) \in Nat
    BY <1>1, <1>3
  <2>3. cut \in Seq(STRING) /\ Len(cut) = M /\ Within(cut, 0, t)
    <3>1. cut \in Seq(STRING) /\ Len(cut) = (IF 1 <= M THEN M - 1 + 1 ELSE 0) /\ Within(cut, 1 - 1, t)
      BY <2>2, Stretch
    <3> QED
      BY <2>2, <3>1
  <2>4. ends \in SUBSET (1..M)
    <3>1. \A i \in 1..M - 1 : i \in 1..M
      BY <2>2
    <3> QED
      BY <3>1
  <2> HIDE DEF cut, M, s
  <2>5. \E n \in 1..M : r = SubSeq(cut, 1, n)
    <3>1. CASE ends = {}
      <4>1. cut = SubSeq(cut, 1, M)
        BY <2>2, <2>3
      <4>2. r = cut
        BY <3>1
      <4> HIDE DEF r
      <4> QED
        BY <2>2, <4>1, <4>2
    <3>2. CASE ends # {}
      <4>1. Max(ends) \in 1..M
        <5> HIDE DEF ends
        <5> QED
          BY <2>2, <2>4, <3>2, Greatest
      <4> QED
        BY <3>2, <4>1
    <3> QED
      BY <3>1, <3>2
  <2> HIDE DEF r, ends
  <2>6. PICK n \in 1..M : r = SubSeq(cut, 1, n)
    BY <2>5
  <2>7. r \in Seq(STRING) /\ Len(r) = n /\ Within(r, 0, cut)
    <3>1. n \in Nat /\ 1 <= n /\ n <= Len(cut)
      BY <2>2, <2>3
    <3>2. r \in Seq(STRING) /\ Len(r) = (IF 1 <= n THEN n - 1 + 1 ELSE 0) /\ Within(r, 1 - 1, cut)
      BY <2>3, <2>6, <3>1, Stretch
    <3> QED
      BY <3>1, <3>2
  <2>8. Within(r, 0, t)
    <3>1. Within(r, 0 + 0, t)
      BY <2>3, <2>7, WithinBoth
    <3> QED
      BY <3>1
  <2>9. 1 \in 1..Len(r) /\ r[1] = t[1]
    <3>1. 1 \in 1..Len(r)
      BY <2>2, <2>7
    <3>2. r[1] = t[0 + 1]
      BY <2>8, <3>1 DEF Within
    <3> QED
      BY <3>1, <3>2
  <2>10. s \in Seq(STRING) /\ s # <<>> /\ \E a \in Nat : Within(s, a, r)
    BY <2>1, <2>7, <2>9, Trimmed
  <2>11. PICK a \in Nat : Within(s, a, r)
    BY <2>10
  <2>12. Within(s, 0 + a, t)
    BY <2>7, <2>8, <2>10, <2>11, WithinBoth
  <2>13. 0 + a \in Nat
    OBVIOUS
  <2> QED
    BY <2>10, <2>12, <2>13 DEF s
<1> QED
  BY <1>2, <1>3

\* The guard lets sound texts through, and the cut leaves them sound.
LEMMA PassedSound ==
  ASSUME NEW raw \in Raws, Passes(raw)
  PROVE  Sound(Truncated(raw)) /\ Allowed(Truncated(raw)) /\ Truncated(raw) # <<>>
<1>1. raw \in Seq(STRING) /\ raw # <<>> /\ raw[1] \notin Blanks
  BY TextsAssumption
<1>2. Sound(raw) /\ Allowed(raw)
  <2>1. ~HasLink(raw) /\ "gap" \notin ToSet(raw) /\ ToSet(raw) \cap Forbidden = {}
    BY DEF Passes, LinkStripped, Overpromise
  <2>2. \A i \in 1..Len(raw) : raw[i] \in ToSet(raw)
    BY <1>1 DEF ToSet
  <2> QED
    BY <1>1, <2>1, <2>2 DEF Sound, Allowed
<1>3. /\ Truncated(raw) \in Seq(STRING) /\ Truncated(raw) # <<>>
      /\ \E a \in Nat : Within(Truncated(raw), a, raw)
  BY <1>1, TruncatedWithin
<1> QED
  BY <1>2, <1>3, SoundWithin

LEMMA FallbackIs ==
  /\ Fallback = [i \in 1..4 |-> Fallback[i]] /\ Len(Fallback) = 4
  /\ \A i \in 1..4 : Fallback[i] # "." /\ Fallback[i] # "ponto" /\ Fallback[i] # "gap"
<1>1. Fallback = [i \in 1..4 |-> Fallback[i]] /\ Len(Fallback) = 4
  BY DEF Fallback
<1>2. Fallback[1] = "posso" /\ Fallback[2] = " " /\ Fallback[3] = "ajudar" /\ Fallback[4] = "?"
  BY DEF Fallback
<1>3. \A i \in 1..4 : i = 1 \/ i = 2 \/ i = 3 \/ i = 4
  OBVIOUS
<1>4. \A i \in 1..4 : Fallback[i] # "." /\ Fallback[i] # "ponto" /\ Fallback[i] # "gap"
  BY <1>2, <1>3
<1> QED
  BY <1>1, <1>4

LEMMA FallbackSound ==
  /\ Sound(Fallback) /\ Fallback # <<>>
  /\ Forbidden \cap ToSet(Fallback) = {} => Allowed(Fallback)
<1> DEFINE t == Fallback
<1>1. /\ t = [i \in 1..4 |-> t[i]] /\ Len(t) = 4
      /\ \A i \in 1..4 : t[i] # "." /\ t[i] # "ponto" /\ t[i] # "gap"
  BY FallbackIs
<1> HIDE DEF t
<1>2. DOMAIN t = 1..4 /\ t # <<>>
  BY <1>1
<1>3. \A i \in 1..4 : t[i] \in ToSet(t)
  BY <1>2 DEF ToSet
<1>4. \A i \in 1..4 : t[i] \in STRING
  BY <1>3, TextsAssumption DEF t
<1>5. t \in Seq(STRING)
  <2>1. [i \in 1..4 |-> t[i]] \in Seq(STRING)
    BY <1>4
  <2> QED
    BY <1>1, <2>1, Zenon
<1>6. ~HasLink(t)
  <2> SUFFICES ASSUME NEW i \in 1..4, DotAt(t, i) PROVE FALSE
    BY <1>2 DEF HasLink
  <2> QED
    BY <1>1 DEF DotAt
<1>7. Forbidden \cap ToSet(t) = {} => Allowed(t)
  BY <1>1, <1>3 DEF Allowed
<1> QED
  BY <1>1, <1>2, <1>5, <1>6, <1>7 DEF Sound, t

-----------------------------------------------------------------------------
(* The types of Wording.                                                     *)

LEMMA Rendered ==
  ASSUME NEW template \in Templates, Accepted(template),
         NEW name \in Names, NEW allowLink \in BOOLEAN
  PROVE  LET t == RenderTemplate(template, BuildLeadContext(name, allowLink))
         IN  t \in Seq(STRING) /\ t # <<>>
<1> DEFINE ctx == BuildLeadContext(name, allowLink)
           Filled(p) == IF p.key # Null /\ ctx[p.key] # <<>> THEN ctx[p.key] ELSE p.text
           v == [n \in DOMAIN template |-> Filled(template[n])]
           t == RenderTemplate(template, BuildLeadContext(name, allowLink))
<1>1. t = FlattenSeq(v)
  BY DEF RenderTemplate
<1>2. /\ Len(template) \in Nat /\ DOMAIN template = 1..Len(template)
      /\ \A n \in 1..Len(template) :
           /\ template[n].key \in Keys \cup {Null}
           /\ template[n].text \in Seq(STRING)
  <2> DEFINE Piece == [key : Keys \cup {Null}, text : Seq(STRING)]
  <2>1. template \in Seq(Piece)
    BY TextsAssumption
  <2>2. \A p \in Piece : p.key \in Keys \cup {Null} /\ p.text \in Seq(STRING)
    OBVIOUS
  <2> HIDE DEF Piece
  <2>3. /\ Len(template) \in Nat /\ DOMAIN template = 1..Len(template)
        /\ \A n \in 1..Len(template) : template[n] \in Piece
    BY <2>1
  <2> QED
    BY <2>2, <2>3
<1>3. PICK n \in 1..Len(template) : template[n].text # <<>>
  <2>1. PICK n \in DOMAIN template : ToSet(template[n].text) \cap (Inviting \cup {"?"}) # {}
    BY DEF Accepted, AssertInvitesReply
  <2>2. ToSet(<<>>) = {}
    BY DEF ToSet
  <2> QED
    BY <1>2, <2>1, <2>2
<1> HIDE DEF ctx, t
<1>4. ASSUME NEW k \in 1..Len(template) PROVE Filled(template[k]) \in Seq(STRING)
  <2>1. template[k].key # Null => ctx[template[k].key] \in Seq(STRING)
    BY <1>2, Context DEF ctx
  <2> QED
    BY <1>2, <2>1
<1>5. Filled(template[n]) # <<>>
  BY <1>3
<1> HIDE DEF Filled
<1>6. v \in Seq(Seq(STRING)) /\ n \in 1..Len(v) /\ v[n] # <<>>
  BY <1>2, <1>4, <1>5
<1> HIDE DEF v
<1> DEFINE f == FlattenSeq(v)
           W == STRING
<1>7. v \in Seq(Seq(W)) /\ v # <<>>
  BY <1>6
<1> HIDE DEF W
<1>8. f \in Seq(W)
      /\ \E at : \A m \in 1..Len(v) : \A j \in 1..Len(v[m]) : at[m - 1] + j \in 1..Len(f)
  BY <1>7, Located
<1> HIDE DEF f
<1>9. PICK at : \A m \in 1..Len(v) : \A j \in 1..Len(v[m]) : at[m - 1] + j \in 1..Len(f)
  BY <1>8
<1>10. 1 \in 1..Len(v[n])
  <2> DEFINE x == v[n]
  <2>1. x \in Seq(W) /\ x # <<>>
    BY <1>6, <1>7
  <2> HIDE DEF x
  <2>2. 1 \in 1..Len(x)
    BY <2>1
  <2> QED
    BY <2>2 DEF x
<1>11. at[n - 1] + 1 \in 1..Len(f)
  BY <1>6, <1>9, <1>10
<1>12. f # <<>>
  BY <1>8, <1>11
<1> QED
  BY <1>1, <1>8, <1>12 DEF f, t, W

\* Every message is a text.
TextInv ==
  /\ linkSent \in BOOLEAN /\ heard \in Nat /\ budget \in [edits : Nat, opens : Nat, turns : Nat]
  /\ turn \in [at : {"idle", "model"}, attempt : 0..ATTEMPTS - 1, tries : 0..RETRIES,
               got : BOOLEAN, allowed : BOOLEAN]
  /\ rows \in Seq(Seq(STRING)) /\ \A n \in 1..Len(rows) : rows[n] # <<>>

\* What Send adds to the messages of the lead.
LEMMA Sending ==
  ASSUME NEW text, Sound(text), text # <<>>, NEW by, NEW cut,
         turn.allowed \in BOOLEAN, linkSent \in BOOLEAN, heard \in Nat, Send(text, by, cut)
  PROVE  \E linked \in BOOLEAN : \E p :
           /\ BalloonsOf(p, Whole(text, linked))
           /\ rows' = rows \o p /\ turn' = NoTurn /\ heard' = heard + 1
           /\ linkSent' \in BOOLEAN
           /\ reply' = [by |-> by, cut |-> cut, linked |-> linked, text |-> text, parts |-> p]
<1> DEFINE linked == turn.allowed /\ ~linkSent
           w == Whole(text, linked)
           p == SplitMessage(w)
<1>1. linked \in BOOLEAN
  OBVIOUS
<1>2. /\ rows' = rows \o p /\ turn' = NoTurn /\ heard' = heard + 1
      /\ linkSent' = (linkSent \/ linked)
      /\ reply' = [by |-> by, cut |-> cut, linked |-> linked, text |-> text, parts |-> p]
  BY DEF Send, Whole
<1> HIDE DEF linked
<1>3. BalloonsOf(p, w)
  BY <1>1, BalloonsSound
<1>4. linkSent' \in BOOLEAN
  BY <1>1, <1>2
<1> HIDE DEF p
<1> QED
  BY <1>1, <1>2, <1>3, <1>4 DEF w

LEMMA TurnTypes ==
  ASSUME turn \in [at : {"idle", "model"}, attempt : 0..ATTEMPTS - 1, tries : 0..RETRIES,
                   got : BOOLEAN, allowed : BOOLEAN]
  PROVE  /\ NoTurn \in [at : {"idle", "model"}, attempt : 0..ATTEMPTS - 1, tries : 0..RETRIES,
                        got : BOOLEAN, allowed : BOOLEAN]
         /\ ~LastAttempt =>
              /\ NextAttempt \in [at : {"idle", "model"}, attempt : 0..ATTEMPTS - 1,
                                  tries : 0..RETRIES, got : BOOLEAN, allowed : BOOLEAN]
              /\ [NextAttempt EXCEPT !.got = TRUE]
                   \in [at : {"idle", "model"}, attempt : 0..ATTEMPTS - 1,
                        tries : 0..RETRIES, got : BOOLEAN, allowed : BOOLEAN]
         /\ turn.tries < RETRIES => [turn EXCEPT !.tries = @ + 1]
              \in [at : {"idle", "model"}, attempt : 0..ATTEMPTS - 1, tries : 0..RETRIES,
                   got : BOOLEAN, allowed : BOOLEAN]
<1>1. ATTEMPTS \in Nat \ {0} /\ RETRIES \in Nat
  BY LengthsAssumption
<1>2. 0 \in 0..ATTEMPTS - 1 /\ 0 \in 0..RETRIES
  BY <1>1
<1>3. NoTurn \in [at : {"idle", "model"}, attempt : 0..ATTEMPTS - 1, tries : 0..RETRIES,
                  got : BOOLEAN, allowed : BOOLEAN]
  BY <1>2 DEF NoTurn
<1>4. turn.attempt \in 0..ATTEMPTS - 1 /\ turn.tries \in 0..RETRIES
  OBVIOUS
<1>5. ~LastAttempt => turn.attempt + 1 \in 0..ATTEMPTS - 1
  BY <1>1, <1>4 DEF LastAttempt
<1>6. turn.tries < RETRIES => turn.tries + 1 \in 0..RETRIES
  BY <1>1, <1>4
<1>7. ASSUME ~LastAttempt
      PROVE  NextAttempt \in [at : {"idle", "model"}, attempt : 0..ATTEMPTS - 1,
                               tries : 0..RETRIES, got : BOOLEAN, allowed : BOOLEAN]
  BY <1>2, <1>5, <1>7 DEF NextAttempt
<1>8. ASSUME ~LastAttempt
      PROVE  [NextAttempt EXCEPT !.got = TRUE]
               \in [at : {"idle", "model"}, attempt : 0..ATTEMPTS - 1,
                    tries : 0..RETRIES, got : BOOLEAN, allowed : BOOLEAN]
  BY <1>7, <1>8
<1>9. ASSUME turn.tries < RETRIES
      PROVE  [turn EXCEPT !.tries = @ + 1]
              \in [at : {"idle", "model"}, attempt : 0..ATTEMPTS - 1, tries : 0..RETRIES,
                   got : BOOLEAN, allowed : BOOLEAN]
  BY <1>6, <1>9
<1> QED
  BY <1>3, <1>7, <1>8, <1>9

\* A text and its balloons come after the messages there are.
LEMMA TextSent ==
  ASSUME TextInv, NEW text, Sound(text), text # <<>>, NEW by, NEW cut, Send(text, by, cut),
         budget' = budget
  PROVE  TextInv'
<1>1. turn.allowed \in BOOLEAN /\ linkSent \in BOOLEAN /\ heard \in Nat
  BY DEF TextInv
<1>2. PICK linked \in BOOLEAN : \E p :
           /\ BalloonsOf(p, Whole(text, linked))
           /\ rows' = rows \o p /\ turn' = NoTurn /\ heard' = heard + 1
           /\ linkSent' \in BOOLEAN
  BY <1>1, Sending
<1>7. PICK p :
           /\ BalloonsOf(p, Whole(text, linked))
           /\ rows' = rows \o p /\ turn' = NoTurn /\ heard' = heard + 1
           /\ linkSent' \in BOOLEAN
  BY <1>2
<1>3. p \in Seq(Seq(STRING)) /\ \A n \in 1..Len(p) : p[n] # <<>>
  BY <1>7 DEF BalloonsOf, Balloon
<1>4. rows' \in Seq(Seq(STRING)) /\ \A n \in 1..Len(rows') : rows'[n] # <<>>
  <2> DEFINE W == Seq(STRING)
  <2>1. rows \in Seq(W) /\ p \in Seq(W) /\ \A n \in 1..Len(rows) : rows[n] # <<>>
    BY <1>3 DEF TextInv
  <2> HIDE DEF W
  <2>2. /\ rows' \in Seq(W) /\ Len(rows') = Len(rows) + Len(p)
        /\ \A n \in 1..Len(rows) + Len(p) :
             rows'[n] = IF n <= Len(rows) THEN rows[n] ELSE p[n - Len(rows)]
    BY <1>7, <2>1, ConcatProperties
  <2>3. ASSUME NEW n \in 1..Len(rows') PROVE rows'[n] # <<>>
    <3>1. CASE n <= Len(rows)
      BY <2>1, <2>2, <3>1
    <3>2. CASE ~(n <= Len(rows))
      <4>1. n - Len(rows) \in 1..Len(p) /\ rows'[n] = p[n - Len(rows)]
        BY <2>1, <2>2, <3>2
      <4> QED
        BY <1>3, <4>1
    <3> QED
      BY <3>1, <3>2
  <2> QED
    BY <2>2, <2>3 DEF W
<1>5. heard' \in Nat
  BY <1>1, <1>7
<1>6. turn' \in [at : {"idle", "model"}, attempt : 0..ATTEMPTS - 1, tries : 0..RETRIES,
                 got : BOOLEAN, allowed : BOOLEAN]
  BY <1>7, TurnTypes DEF TextInv
<1> QED
  BY <1>7, <1>4, <1>5, <1>6 DEF TextInv

LEMMA TextStep == RunsInv /\ TextInv /\ [WordingNext]_wordingVars => TextInv'
<1> SUFFICES ASSUME RunsInv, TextInv, [WordingNext]_wordingVars PROVE TextInv'
  OBVIOUS
<1>1. CASE UNCHANGED wordingVars
  BY <1>1 DEF TextInv, wordingVars
<1>2. CASE Edit
  <2>1. UNCHANGED <<rows, linkSent, turn, heard>>
    BY <1>2 DEF Edit
  <2>2. budget' \in [edits : Nat, opens : Nat, turns : Nat]
    <3>1. budget.edits > 0 /\ budget' = [budget EXCEPT !.edits = @ - 1]
      BY <1>2 DEF Edit
    <3> QED
      BY <3>1 DEF TextInv
  <2> QED
    BY <2>1, <2>2 DEF TextInv
<1>3. ASSUME NEW o \in Openers, Opening(o) PROVE TextInv'
  <2>1. UNCHANGED <<linkSent, turn, heard>>
    BY <1>3 DEF Opening, List, Choose, Push, LTrim, Open, Abandon
  <2>2. budget' \in [edits : Nat, opens : Nat, turns : Nat]
    <3>1. \/ budget.opens > 0 /\ budget' = [budget EXCEPT !.opens = @ - 1]
          \/ budget' = budget
      BY <1>3 DEF Opening, List, Choose, Push, LTrim, Open, Abandon
    <3> QED
      BY <3>1 DEF TextInv
  <2> DEFINE W == Seq(STRING)
  <2>3. ASSUME NEW name \in Names, NEW allowLink \in BOOLEAN, Open(o, name, allowLink)
        PROVE  rows' \in Seq(W) /\ \A n \in 1..Len(rows') : rows'[n] # <<>>
    <3> DEFINE pieces == openers[o].seen[openers[o].pick]
               t == RenderTemplate(pieces, BuildLeadContext(name, allowLink))
    <3>1. pieces \in Templates /\ Accepted(pieces)
      BY <2>3 DEF Open, RunsInv, RunOK, Runs
    <3>2. t \in W /\ t # <<>>
      BY <3>1, Rendered
    <3>3. rows' = <<t>> \/ rows' = rows
      BY <2>3 DEF Open
    <3>4. rows \in Seq(W) /\ \A n \in 1..Len(rows) : rows[n] # <<>>
      BY DEF TextInv
    <3> HIDE DEF t
    <3>5. CASE rows' = <<t>>
      <4> HIDE DEF W
      <4>1. Len(rows') = 1 /\ rows'[1] = t /\ rows' \in Seq(W)
        BY <3>2, <3>5
      <4> QED
        BY <3>2, <4>1
    <3> QED
      BY <3>3, <3>4, <3>5
  <2>4. CASE List(o) \/ Push(o) \/ LTrim(o) \/ Abandon(o) \/ \E i \in Ids : Choose(o, i)
    <3>1. rows' = rows
      BY <2>4 DEF List, Push, LTrim, Abandon, Choose
    <3> QED
      BY <2>1, <2>2, <3>1 DEF TextInv
  <2> QED
    BY <1>3, <2>1, <2>2, <2>3, <2>4 DEF Opening, TextInv
<1>4. CASE Expire
  BY <1>4 DEF Expire, TextInv
<1>5. ASSUME NEW wants \in BOOLEAN, Ask(wants) PROVE TextInv'
  <2>1. UNCHANGED <<rows, linkSent, heard>>
    BY <1>5 DEF Ask, flow
  <2>2. budget' \in [edits : Nat, opens : Nat, turns : Nat]
    <3>1. budget.turns > 0 /\ budget' = [budget EXCEPT !.turns = @ - 1]
      BY <1>5 DEF Ask
    <3> QED
      BY <3>1 DEF TextInv
  <2>3. turn' = [NoTurn EXCEPT !.at = "model", !.allowed = ShouldReleaseLink(wants)]
    BY <1>5 DEF Ask
  <2>4. ShouldReleaseLink(wants) \in BOOLEAN
    BY DEF ShouldReleaseLink
  <2>5. turn' \in [at : {"idle", "model"}, attempt : 0..ATTEMPTS - 1, tries : 0..RETRIES,
                   got : BOOLEAN, allowed : BOOLEAN]
    <3>1. NoTurn \in [at : {"idle", "model"}, attempt : 0..ATTEMPTS - 1, tries : 0..RETRIES,
                      got : BOOLEAN, allowed : BOOLEAN]
      BY TurnTypes DEF TextInv
    <3> QED
      BY <2>3, <2>4, <3>1
  <2> QED
    BY <2>1, <2>2, <2>5 DEF TextInv
<1>6. ASSUME NEW raw \in Raws, Answer(raw) PROVE TextInv'
  <2>1. budget' = budget
    BY <1>6 DEF Answer
  <2>2. CASE Passes(raw) /\ Send(Truncated(raw), "model", Truncated(raw) # raw)
    BY <2>1, <2>2, PassedSound, TextSent
  <2>3. CASE Send(Fallback, "fallback", FALSE)
    BY <2>1, <2>3, FallbackSound, TextSent
  <2>4. CASE ~LastAttempt /\ turn' = [NextAttempt EXCEPT !.got = TRUE]
             /\ UNCHANGED <<rows, linkSent, heard, reply>>
    BY <2>1, <2>4, TurnTypes DEF TextInv
  <2> QED
    BY <1>6, <2>2, <2>3, <2>4 DEF Answer
<1>7. ASSUME NEW final \in BOOLEAN, NoAnswer(final) PROVE TextInv'
  <2>1. budget' = budget
    BY <1>7 DEF NoAnswer
  <2>2. CASE Send(Fallback, "fallback", FALSE)
    BY <2>1, <2>2, FallbackSound, TextSent
  <2>3. CASE \/ turn.tries < RETRIES /\ turn' = [turn EXCEPT !.tries = @ + 1]
             \/ ~LastAttempt /\ turn' = NextAttempt
             \/ turn' = NoTurn
    <3>1. turn' \in [at : {"idle", "model"}, attempt : 0..ATTEMPTS - 1, tries : 0..RETRIES,
                     got : BOOLEAN, allowed : BOOLEAN]
      BY <2>3, TurnTypes DEF TextInv
    <3>2. CASE UNCHANGED <<rows, linkSent, heard, reply>>
      BY <2>1, <3>1, <3>2 DEF TextInv
    <3> QED
      BY <1>7, <2>2, <3>2 DEF NoAnswer
  <2> QED
    BY <1>7, <2>2, <2>3 DEF NoAnswer
<1> QED
  BY <1>1, <1>2, <1>3, <1>4, <1>5, <1>6, <1>7 DEF WordingNext, Model

LEMMA TextInit == WordingInit => TextInv
<1> SUFFICES ASSUME WordingInit PROVE TextInv
  OBVIOUS
<1>1. turn \in [at : {"idle", "model"}, attempt : 0..ATTEMPTS - 1, tries : 0..RETRIES,
                got : BOOLEAN, allowed : BOOLEAN]
  BY LengthsAssumption DEF WordingInit, NoTurn
<1>2. budget \in [edits : Nat, opens : Nat, turns : Nat]
  BY LengthsAssumption DEF WordingInit
<1>3. rows \in Seq(Seq(STRING)) /\ \A n \in 1..Len(rows) : rows[n] # <<>>
  BY DEF WordingInit
<1> QED
  BY <1>1, <1>2, <1>3 DEF WordingInit, TextInv

\* The openings of a flow, the list of a chip and the turns of a lead keep their types, and no
\* message of the lead is empty, whatever is edited, filled in, cut or dealt into balloons.
THEOREM WordingTypes == WordingSpec => []WordingOK
<1>. RECENT \in Nat \ {0}
  BY LengthsAssumption
<1>1. WordingInit => RotationInv
  BY LengthsAssumption DEF WordingInit, RotationInv, Rotates, NoOpening
<1>2. RunsInv /\ RotationInv /\ TextInv => WordingOK
  <2> SUFFICES ASSUME RunsInv, RotationInv, TextInv PROVE WordingOK
    OBVIOUS
  <2>1. \A i \in Ids : templates[i] = Null \/ (templates[i].pieces \in Templates
                                             /\ templates[i].active \in BOOLEAN)
    BY DEF RunsInv, TemplatesAccepted
  <2>2. openers \in [Openers -> Runs]
    BY DEF RunsInv
  <2>3. DOMAIN rows = 1..Len(rows)
    BY DEF TextInv
  <2> QED
    BY <2>1, <2>2, <2>3 DEF Runs, Phases, RotationInv, TextInv, WordingOK
<1> QED
  BY <1>1, <1>2, RunsInit, RunsStep, TextInit, TextStep, RotationStep, PTL DEF WordingSpec

-----------------------------------------------------------------------------
(* Wording: what reaches the lead.                                           *)

\* An opening comes before the first reply.
SaidInv == (heard = 0 => reply = NoReply) /\ Sanitised

LEMMA GreatestOfTwo ==
  ASSUME NEW a \in Int, NEW b \in Int
  PROVE  Max({a, b}) = IF a > b THEN a ELSE b
BY DEF Max

\* A text that repeats none of the last messages, and comes after them.
LEMMA NotRepeated ==
  ASSUME NEW raw, ~Repeat(raw), rows \in Seq(Seq(STRING)), rows' = rows \o <<raw>>,
         raw \in Seq(STRING)
  PROVE  \A n \in Max({1, Len(rows') - LAST})..Len(rows') - 1 :
           Norm(rows'[n]) # Norm(rows'[Len(rows')])
<1> DEFINE W == Seq(STRING)
           L == Len(rows)
           m == Max({1, L - LAST + 1})
           last == SubSeq(rows, m, L)
<1>1. LAST \in Nat \ {0} /\ L \in Nat
  BY LengthsAssumption
<1>2. m = IF 1 > L - LAST + 1 THEN 1 ELSE L - LAST + 1
  <2> DEFINE b == L - LAST + 1
  <2>1. b \in Int /\ 1 \in Int
    BY <1>1
  <2> HIDE DEF b
  <2>2. Max({1, b}) = IF 1 > b THEN 1 ELSE b
    BY <2>1, GreatestOfTwo
  <2> QED
    BY <2>2 DEF b
<1>3. rows \in Seq(W) /\ <<raw>> \in Seq(W) /\ Len(<<raw>>) = 1
  OBVIOUS
<1>4. \A k \in DOMAIN last : Norm(last[k]) # Norm(raw)
  BY DEF Repeat, RecentBot
<1> HIDE DEF W, m
<1>5. /\ Len(rows') = L + 1 /\ \A n \in 1..L : rows'[n] = rows[n]
      /\ rows'[L + 1] = raw
  <2> DEFINE x == <<raw>>
  <2>1. x \in Seq(W) /\ Len(x) = 1 /\ x[1] = raw /\ rows' = rows \o x
    BY <1>3
  <2> HIDE DEF x
  <2>2. /\ Len(rows') = L + 1
        /\ \A n \in 1..L + 1 : rows'[n] = IF n <= L THEN rows[n] ELSE x[n - L]
    BY <1>3, <2>1, ConcatProperties
  <2> QED
    BY <1>1, <2>1, <2>2
<1>6. m \in Nat \ {0} /\ m <= L + 1
  BY <1>1, <1>2
<1>7. /\ Len(last) = (IF m <= L THEN L - m + 1 ELSE 0) /\ DOMAIN last = 1..Len(last)
      /\ \A i \in 1..L - m + 1 : last[i] = rows[m + i - 1]
  <2>1. \A i \in m..L : rows[i] \in W
    BY <1>1, <1>3, <1>6
  <2>2. /\ last \in Seq(W) /\ Len(last) = (IF m <= L THEN L - m + 1 ELSE 0)
        /\ \A i \in 1..L - m + 1 : last[i] = rows[m + i - 1]
    BY <1>1, <1>6, <2>1, SubSeqProperties
  <2> QED
    BY <2>2
<1> HIDE DEF last
<1>8. Max({1, Len(rows') - LAST}) = m
  <2>1. Len(rows') - LAST = L - LAST + 1
    BY <1>1, <1>5
  <2> QED
    BY <2>1 DEF m
<1> HIDE DEF L
<1>9. ASSUME NEW n \in m..L PROVE Norm(rows'[n]) # Norm(raw)
  <2> DEFINE i == n - m + 1
  <2>1. i \in 1..L - m + 1 /\ m + i - 1 = n /\ n \in 1..L /\ m <= L
    BY <1>1, <1>6
  <2> HIDE DEF i
  <2>2. i \in DOMAIN last /\ last[i] = rows[n]
    BY <1>7, <2>1
  <2> QED
    BY <1>4, <1>5, <2>1, <2>2
<1>10. Len(rows') - 1 = L
  BY <1>1, <1>5
<1> QED
  BY <1>5, <1>8, <1>9, <1>10

LEMMA SaidSent ==
  ASSUME Forbidden \cap ToSet(Url) = {}, TextInv,
         NEW text, Sound(text), Allowed(text), text # <<>>, NEW by, NEW cut \in BOOLEAN,
         Send(text, by, cut), by = "model" /\ ~cut => ~Repeat(text)
  PROVE  SaidInv'
<1>1. turn.allowed \in BOOLEAN /\ linkSent \in BOOLEAN /\ heard \in Nat
      /\ rows \in Seq(Seq(STRING))
  BY DEF TextInv
<1>11. PICK linked \in BOOLEAN : \E p :
           /\ BalloonsOf(p, Whole(text, linked))
           /\ rows' = rows \o p /\ heard' = heard + 1
           /\ reply' = [by |-> by, cut |-> cut, linked |-> linked, text |-> text, parts |-> p]
  BY <1>1, Sending
<1>2. PICK p :
           /\ BalloonsOf(p, Whole(text, linked))
           /\ rows' = rows \o p /\ heard' = heard + 1
           /\ reply' = [by |-> by, cut |-> cut, linked |-> linked, text |-> text, parts |-> p]
  BY <1>11
<1> DEFINE w == Whole(text, linked)
<1>3. heard' # 0
  BY <1>1, <1>2
<1>4. Allowed(w) /\ " " \notin Forbidden
  <2>1. text \in Seq(STRING)
    BY DEF Sound
  <2>2. Allowed(w)
    BY <2>1, WholeAllowed
  <2> QED
    BY <2>2, TextsAssumption DEF Marks, Blanks
<1>5. BalloonsOf(p, w)
  BY <1>2
<1>6. ~linked => w = text
  BY DEF Whole
<1> HIDE DEF w
<1>7. \A n \in DOMAIN p : ~HasLink(Own(p[n])) /\ ~Overpromise(p[n])
  <2> SUFFICES ASSUME NEW n \in DOMAIN p PROVE ~HasLink(Own(p[n])) /\ ~Overpromise(p[n])
    OBVIOUS
  <2> DEFINE b == p[n]
  <2>1. n \in 1..Len(p) /\ b \in Seq(STRING) /\ Balloon(b, w)
    BY <1>5 DEF BalloonsOf
  <2> HIDE DEF b
  <2>2. ~HasLink(Own(b)) /\ \A i \in 1..Len(b) : b[i] # " " => \E k \in 1..Len(w) : b[i] = w[k]
    BY <2>1 DEF Balloon
  <2>3. \A i \in 1..Len(b) : b[i] \notin Forbidden
    BY <1>4, <2>2 DEF Allowed
  <2>4. ~Overpromise(b)
    BY <2>1, <2>3 DEF Overpromise, ToSet
  <2> QED
    BY <2>2, <2>4 DEF b
<1>8. ASSUME by = "model", ~cut, ~linked, Len(p) = 1
      PROVE  \A n \in Max({1, Len(rows') - LAST})..Len(rows') - 1 :
               Norm(rows'[n]) # Norm(rows'[Len(rows')])
  <2>1. p = <<text>>
    BY <1>5, <1>6, <1>8 DEF BalloonsOf
  <2>2. text \in Seq(STRING) /\ rows' = rows \o <<text>> /\ ~Repeat(text)
    BY <1>2, <1>8, <2>1 DEF Sound
  <2> QED
    BY <1>1, <2>2, NotRepeated
<1>9. /\ reply'.parts = p /\ reply'.by = by /\ reply'.cut = cut /\ reply'.linked = linked
  BY <1>2
<1>10. Sanitised'
  BY <1>7, <1>8, <1>9 DEF Sanitised
<1> QED
  BY <1>3, <1>10 DEF SaidInv

LEMMA SaidStep ==
  ASSUME Forbidden \cap (ToSet(Url) \cup ToSet(Fallback)) = {},
         TextInv, SaidInv, [WordingNext]_wordingVars
  PROVE  SaidInv'
<1>1. CASE UNCHANGED <<rows, heard, reply>>
  <2>1. Sanitised' = Sanitised
    BY <1>1 DEF Sanitised
  <2> QED
    BY <1>1, <2>1 DEF SaidInv
<1>2. CASE Edit \/ Expire \/ \E wants \in BOOLEAN : Ask(wants)
  BY <1>1, <1>2 DEF Edit, Expire, Ask
<1>3. ASSUME heard = 0, UNCHANGED <<heard, reply>> PROVE SaidInv'
  <2>1. heard = 0 /\ heard' = heard /\ reply' = reply
    BY <1>3
  <2>2. reply' = NoReply
    BY <2>1 DEF SaidInv
  <2>3. reply'.parts = <<>> /\ reply'.by = "none"
    BY <2>2 DEF NoReply
  <2>4. Sanitised'
    BY <2>3 DEF Sanitised
  <2> QED
    BY <2>2, <2>4 DEF SaidInv
<1>4. Forbidden \cap ToSet(Url) = {} /\ Forbidden \cap ToSet(Fallback) = {}
  OBVIOUS
<1>5. CASE Send(Fallback, "fallback", FALSE)
  BY <1>4, <1>5, FallbackSound, SaidSent
<1>6. ASSUME NEW raw \in Raws, Answer(raw) PROVE SaidInv'
  <2>1. CASE Passes(raw) /\ Send(Truncated(raw), "model", Truncated(raw) # raw)
    <3> DEFINE text == Truncated(raw)
               cut == text # raw
    <3>1. Sound(text) /\ Allowed(text) /\ text # <<>>
      BY <2>1, PassedSound
    <3>2. cut \in BOOLEAN /\ (~cut => text = raw) /\ ~Repeat(raw)
      BY <2>1 DEF Passes
    <3>3. Send(text, "model", cut)
      BY <2>1
    <3> HIDE DEF text, cut
    <3>4. ~cut => ~Repeat(text)
      BY <3>2
    <3> QED
      BY <1>4, <3>1, <3>2, <3>3, <3>4, SaidSent
  <2> QED
    BY <1>1, <1>5, <1>6, <2>1 DEF Answer
<1>7. ASSUME NEW final \in BOOLEAN, NoAnswer(final) PROVE SaidInv'
  BY <1>1, <1>5, <1>7 DEF NoAnswer
<1>8. ASSUME NEW o \in Openers, Opening(o) PROVE SaidInv'
  <2>1. UNCHANGED <<heard, reply>> /\ (rows' = rows \/ heard = 0)
    BY <1>8 DEF Opening, List, Choose, Push, LTrim, Open, Abandon
  <2> QED
    BY <1>1, <1>3, <2>1
<1> QED
  BY <1>1, <1>2, <1>6, <1>7, <1>8 DEF WordingNext, Model, wordingVars

\* Nothing the guard rejects reaches the lead, wherever a reply is cut, whichever balloons it
\* is dealt into and however the link is added (ai.service.ts:52-71, output-guard.ts:16-59,
\* humanize.ts:1-31), as long as the words of the code itself are not forbidden: no guard
\* reads those.
THEOREM RepliesAreSanitised ==
  ASSUME Forbidden \cap (ToSet(Url) \cup ToSet(Fallback)) = {}
  PROVE  WordingSpec => []Sanitised
<1>1. WordingInit => SaidInv
  <2> SUFFICES ASSUME WordingInit PROVE SaidInv
    OBVIOUS
  <2>1. reply = NoReply /\ reply.parts = <<>> /\ reply.by = "none"
    BY DEF WordingInit, NoReply
  <2> QED
    BY <2>1 DEF SaidInv, Sanitised
<1>2. SaidInv => Sanitised
  BY DEF SaidInv
<1>3. TextInv /\ SaidInv /\ [WordingNext]_wordingVars => SaidInv'
  BY SaidStep
<1> QED
  BY <1>1, <1>2, <1>3, RunsInit, RunsStep, TextInit, TextStep, PTL DEF WordingSpec
-----------------------------------------------------------------------------
(* Texts and their words, one after the other.                               *)

LEMMA Grown ==
  ASSUME NEW W, NEW v \in Seq(W), NEW n \in Nat, n + 1 <= Len(v)
  PROVE  /\ SubSeq(v, 1, n) \in Seq(W) /\ v[n + 1] \in W
         /\ SubSeq(v, 1, n + 1) = SubSeq(v, 1, n) \o <<v[n + 1]>>
<1>1. 1 \in 1..Len(v) /\ n + 1 \in 1..Len(v) /\ n + 1 - 1 = n /\ Len(v) \in Nat
  OBVIOUS
<1>2. SubSeq(v, 1, n + 1) = SubSeq(v, 1, n + 1 - 1) \o <<v[n + 1]>>
  BY <1>1, SubSeqRecursiveSecond
<1>3. \A i \in 1..n : v[i] \in W
  BY <1>1
<1>4. SubSeq(v, 1, n) \in Seq(W)
  BY <1>3, SubSeqProperties
<1> QED
  BY <1>1, <1>2, <1>4

LEMMA Regroup ==
  ASSUME NEW W, NEW a \in Seq(W), NEW b \in Seq(W), NEW c \in Seq(W)
  PROVE  a \o (b \o c) = (a \o b) \o c
<1>1. (a \o b) \o c = a \o (b \o c)
  BY ConcatAssociative
<1> QED
  BY <1>1, Zenon

LEMMA FlattenNone == FlattenSeq(<<>>) = <<>>
BY DEF FlattenSeq

LEMMA FlattenType ==
  ASSUME NEW W, NEW v \in Seq(Seq(W)) PROVE FlattenSeq(v) \in Seq(W)
<1>1. CASE v = <<>>
  <2>1. FlattenSeq(v) = <<>>
    BY <1>1, FlattenNone
  <2> QED
    BY <2>1
<1>2. CASE v # <<>>
  BY <1>2, Located
<1> QED
  BY <1>1, <1>2

LEMMA FlattenLast ==
  ASSUME NEW W, NEW v \in Seq(Seq(W)), NEW x \in Seq(W)
  PROVE  FlattenSeq(v \o <<x>>) = FlattenSeq(v) \o x
<1> DEFINE u == v \o <<x>>
           N == Len(v)
           V == Seq(W)
           o == <<x>>
<1>1. v \in Seq(V) /\ N \in Nat /\ o \in Seq(V) /\ Len(o) = 1 /\ o[1] = x /\ x \in V
  OBVIOUS
<1> HIDE DEF V, o
<1>2. /\ v \o o \in Seq(V) /\ Len(v \o o) = N + 1
      /\ \A i \in 1..N + 1 : (v \o o)[i] = IF i <= N THEN v[i] ELSE o[i - N]
  <2>1. /\ v \o o \in Seq(V) /\ Len(v \o o) = Len(v) + Len(o)
        /\ \A i \in 1..Len(v) + Len(o) : (v \o o)[i] = IF i <= Len(v) THEN v[i] ELSE o[i - Len(v)]
    BY <1>1, ConcatProperties
  <2> QED
    BY <1>1, <2>1
<1>3. u = v \o o
  BY DEF o
<1> HIDE DEF u
<1>4. u \in Seq(V) /\ Len(u) = N + 1 /\ u[N + 1] = x /\ \A i \in 1..N : u[i] = v[i]
  <2>1. N + 1 \in 1..N + 1 /\ N + 1 - N = 1 /\ ~(N + 1 <= N)
    BY <1>1
  <2> QED
    BY <1>1, <1>2, <1>3, <2>1
<1>5. u # <<>>
  BY <1>1, <1>4
<1>6. PICK f : /\ f[1] = u[1]
               /\ \A i \in 2..Len(u) : f[i] = f[i - 1] \o u[i]
               /\ FlattenSeq(u) = f[Len(u)]
  BY <1>4, <1>5, Flattening DEF V
<1>7. CASE v = <<>>
  <2>1. N = 0
    BY <1>7
  <2>2. FlattenSeq(u) = x
    BY <1>4, <1>6, <2>1
  <2>3. FlattenSeq(v) = <<>>
    BY <1>7, FlattenNone
  <2>4. <<>> \o x = x
    BY ConcatEmptySeq
  <2> QED
    BY <2>2, <2>3, <2>4 DEF u, o
<1>8. CASE v # <<>>
  <2>1. PICK g : /\ g[1] = v[1]
                 /\ \A i \in 2..Len(v) : g[i] = g[i - 1] \o v[i]
                 /\ FlattenSeq(v) = g[Len(v)]
    BY <1>8, Flattening
  <2>2. N \in Nat \ {0}
    BY <1>1, <1>8
  <2> DEFINE T == {n \in Nat : n + 1 <= N => f[n + 1] = g[n + 1]}
  <2>3. 0 \in T
    BY <1>4, <1>6, <2>1, <2>2
  <2>4. ASSUME NEW n \in T PROVE n + 1 \in T
    <3>1. n \in Nat
      OBVIOUS
    <3>2. ASSUME n + 1 + 1 <= N PROVE f[n + 1 + 1] = g[n + 1 + 1]
      <4> DEFINE m == n + 1
                 k == m + 1
      <4>1. m <= N /\ k \in 2..N /\ k \in 2..Len(u) /\ k - 1 = m /\ k \in 1..N
        BY <1>1, <1>4, <3>1, <3>2
      <4>2. f[m] = g[m]
        BY <4>1
      <4> HIDE DEF k, m, T
      <4>3. f[k] = f[m] \o u[k] /\ g[k] = g[m] \o v[k] /\ u[k] = v[k]
        BY <1>4, <1>6, <2>1, <4>1
      <4>4. f[k] = g[k]
        BY <4>2, <4>3
      <4> QED
        BY <4>4 DEF k, m
    <3> QED
      BY <3>1, <3>2
  <2>5. T = Nat
    <3>1. T \in SUBSET Nat
      OBVIOUS
    <3> HIDE DEF T
    <3> QED
      BY <2>3, <2>4, <3>1, Climb
  <2>6. f[N] = g[N]
    <3> DEFINE m == N - 1
    <3>1. m \in Nat /\ m + 1 = N
      BY <2>2
    <3> HIDE DEF m
    <3>2. m + 1 <= N => f[m + 1] = g[m + 1]
      BY <2>5, <3>1
    <3> QED
      BY <2>2, <3>1, <3>2
  <2>7. f[N + 1] = f[N] \o x
    <3> DEFINE k == N + 1
    <3>1. k \in 2..Len(u) /\ k - 1 = N /\ u[k] = x
      BY <1>4, <2>2
    <3> HIDE DEF k, T
    <3>2. f[k] = f[N] \o x
      BY <1>6, <3>1
    <3> QED
      BY <3>2 DEF k
  <2>8. FlattenSeq(u) = FlattenSeq(v) \o x
    BY <1>4, <1>6, <2>1, <2>6, <2>7
  <2> QED
    BY <2>8 DEF u, o
<1> QED
  BY <1>7, <1>8

LEMMA FlattenMore ==
  ASSUME NEW W, NEW a \in Seq(Seq(W)), NEW c \in Seq(Seq(W)), NEW x \in Seq(W),
         FlattenSeq(a \o c) = FlattenSeq(a) \o FlattenSeq(c)
  PROVE  FlattenSeq(a \o (c \o <<x>>)) = FlattenSeq(a) \o FlattenSeq(c \o <<x>>)
<1> DEFINE V == Seq(W)
           o == <<x>>
<1>1. a \in Seq(V) /\ c \in Seq(V) /\ o \in Seq(V)
  OBVIOUS
<1>2. FlattenSeq(c \o <<x>>) = FlattenSeq(c) \o x
  BY FlattenLast
<1>3. FlattenSeq(a) \in Seq(W) /\ FlattenSeq(c) \in Seq(W)
  BY FlattenType
<1>4. a \o c \in Seq(V)
  <2> HIDE DEF V
  <2> QED
    BY <1>1, ConcatProperties
<1>5. FlattenSeq((a \o c) \o <<x>>) = FlattenSeq(a \o c) \o x
  BY <1>4, FlattenLast
<1>6. a \o (c \o o) = (a \o c) \o o
  <2> HIDE DEF V, o
  <2> QED
    BY <1>1, Regroup, SMTT(30)
<1>7. FlattenSeq(a) \o (FlattenSeq(c) \o x) = (FlattenSeq(a) \o FlattenSeq(c)) \o x
  BY <1>3, Regroup, SMTT(30)
<1> QED
  BY <1>2, <1>5, <1>6, <1>7

\* Texts put together in two parts; induction over the second.
LEMMA FlattenPair ==
  ASSUME NEW W, NEW a \in Seq(Seq(W)), NEW b \in Seq(Seq(W))
  PROVE  FlattenSeq(a \o b) = FlattenSeq(a) \o FlattenSeq(b)
<1> DEFINE V == Seq(W)
           N == Len(b)
           B(n) == SubSeq(b, 1, n)
           T == {n \in Nat : n <= N => FlattenSeq(a \o B(n)) = FlattenSeq(a) \o FlattenSeq(B(n))}
<1>1. a \in Seq(V) /\ b \in Seq(V) /\ N \in Nat
  OBVIOUS
<1>2. 0 \in T
  <2>1. B(0) = <<>>
    BY SubSeqEmpty
  <2>2. a \o <<>> = a
    BY ConcatEmptySeq
  <2>3. FlattenSeq(a) \in Seq(W)
    BY FlattenType
  <2>4. FlattenSeq(a) \o FlattenSeq(<<>>) = FlattenSeq(a)
    BY <2>3, FlattenNone, ConcatEmptySeq
  <2>5. FlattenSeq(a \o B(0)) = FlattenSeq(a) \o FlattenSeq(B(0))
    BY <2>1, <2>2, <2>4
  <2> HIDE DEF B
  <2> QED
    BY <2>5
<1>3. ASSUME NEW n \in T PROVE n + 1 \in T
  <2>1. n \in Nat
    OBVIOUS
  <2>2. ASSUME n + 1 <= N
        PROVE  FlattenSeq(a \o B(n + 1)) = FlattenSeq(a) \o FlattenSeq(B(n + 1))
    <3> DEFINE x == b[n + 1]
               c == B(n)
    <3>1. c \in Seq(V) /\ x \in V /\ B(n + 1) = c \o <<x>>
      BY <1>1, <2>1, <2>2, Grown
    <3>2. FlattenSeq(a \o c) = FlattenSeq(a) \o FlattenSeq(c)
      <4>1. n <= N
        BY <1>1, <2>1, <2>2
      <4> HIDE DEF B
      <4> QED
        BY <2>1, <4>1
    <3> HIDE DEF B, c, x
    <3> HIDE DEF V, N, T
    <3>3. FlattenSeq(a \o (c \o <<x>>)) = FlattenSeq(a) \o FlattenSeq(c \o <<x>>)
      BY <1>1, <3>1, <3>2, FlattenMore DEF V
    <3> QED
      BY <3>1, <3>3
  <2> HIDE DEF B
  <2> QED
    BY <2>1, <2>2
<1>4. T = Nat
  <2>1. T \in SUBSET Nat
    OBVIOUS
  <2> HIDE DEF T
  <2> QED
    BY <1>2, <1>3, <2>1, Climb
<1>5. FlattenSeq(a \o B(N)) = FlattenSeq(a) \o FlattenSeq(B(N))
  <2> HIDE DEF B
  <2> QED
    BY <1>1, <1>4
<1>6. B(N) = b
  BY <1>1, SubSeqFull
<1> QED
  BY <1>5, <1>6

WordIn(x) == IF IsWord(x) THEN <<x>> ELSE <<>>

LEMMA WordsNone == WordsOf(<<>>) = <<>>
<1>1. [i \in DOMAIN <<>> |-> IF IsWord(<<>>[i]) THEN <<<<>>[i]>> ELSE <<>>] = <<>>
  OBVIOUS
<1> QED
  BY <1>1, FlattenNone DEF WordsOf

LEMMA WordsType ==
  ASSUME NEW t \in Seq(STRING)
  PROVE  /\ [i \in DOMAIN t |-> WordIn(t[i])] \in Seq(Seq(STRING))
         /\ WordsOf(t) = FlattenSeq([i \in DOMAIN t |-> WordIn(t[i])])
         /\ WordsOf(t) \in Seq(STRING)
<1> DEFINE v == [i \in DOMAIN t |-> WordIn(t[i])]
<1>1. DOMAIN t = 1..Len(t) /\ Len(t) \in Nat /\ \A i \in 1..Len(t) : t[i] \in STRING
  OBVIOUS
<1> DEFINE V == Seq(STRING)
<1>2. \A x \in STRING : WordIn(x) \in V
  BY OneWord, EmptySeq DEF WordIn
<1>3. v \in Seq(V)
  <2> HIDE DEF V
  <2>1. \A i \in 1..Len(t) : WordIn(t[i]) \in V
    BY <1>1, <1>2
  <2> QED
    BY <1>1, <2>1
<1>4. WordsOf(t) = FlattenSeq(v)
  BY DEF WordsOf, WordIn
<1> HIDE DEF v
<1>5. WordsOf(t) \in Seq(STRING)
  BY <1>3, <1>4, FlattenType
<1> QED
  BY <1>3, <1>4, <1>5 DEF v

\* The words of a text are those of its two parts.
LEMMA WordsPair ==
  ASSUME NEW a \in Seq(STRING), NEW b \in Seq(STRING)
  PROVE  WordsOf(a \o b) = WordsOf(a) \o WordsOf(b)
<1> DEFINE c == a \o b
           A == [i \in DOMAIN a |-> WordIn(a[i])]
           B == [i \in DOMAIN b |-> WordIn(b[i])]
           C == [i \in DOMAIN c |-> WordIn(c[i])]
           V == Seq(STRING)
           K == Len(a)
           M == Len(b)
<1>1. /\ c \in Seq(STRING) /\ Len(c) = K + M /\ K \in Nat /\ M \in Nat
      /\ \A i \in 1..K + M : c[i] = IF i <= K THEN a[i] ELSE b[i - K]
  BY ConcatProperties
<1>2. DOMAIN a = 1..K /\ DOMAIN b = 1..M
  OBVIOUS
<1> HIDE DEF c
<1>3. DOMAIN c = 1..K + M
  BY <1>1
<1>4. /\ A \in Seq(V) /\ B \in Seq(V) /\ C \in Seq(V)
      /\ WordsOf(a) = FlattenSeq(A) /\ WordsOf(b) = FlattenSeq(B) /\ WordsOf(c) = FlattenSeq(C)
  BY <1>1, WordsType
<1>5. Len(A) = K /\ Len(B) = M /\ Len(C) = K + M
  BY <1>1, <1>2, <1>3
<1>6. /\ \A i \in 1..K : A[i] = WordIn(a[i])
      /\ \A i \in 1..M : B[i] = WordIn(b[i])
      /\ \A i \in 1..K + M : C[i] = WordIn(c[i])
  BY <1>2, <1>3
<1> HIDE DEF A, B, C, V, K, M
<1>7. /\ A \o B \in Seq(V) /\ Len(A \o B) = K + M
      /\ \A i \in 1..K + M : (A \o B)[i] = IF i <= K THEN A[i] ELSE B[i - K]
  <2>1. /\ A \o B \in Seq(V) /\ Len(A \o B) = Len(A) + Len(B)
        /\ \A i \in 1..Len(A) + Len(B) : (A \o B)[i] = IF i <= Len(A) THEN A[i] ELSE B[i - Len(A)]
    BY <1>4, ConcatProperties
  <2> QED
    BY <1>5, <2>1
<1>8. ASSUME NEW i \in 1..K + M PROVE C[i] = (A \o B)[i]
  <2>1. CASE i <= K
    <3>1. i \in 1..K
      BY <1>1, <2>1
    <3> QED
      BY <1>1, <1>6, <1>7, <2>1, <3>1
  <2>2. CASE ~(i <= K)
    <3>1. i - K \in 1..M
      BY <1>1, <2>2
    <3> QED
      BY <1>1, <1>6, <1>7, <2>2, <3>1
  <2> QED
    BY <2>1, <2>2
<1>9. C = A \o B
  BY <1>4, <1>5, <1>7, <1>8, SeqEqual
<1>10. FlattenSeq(A \o B) = FlattenSeq(A) \o FlattenSeq(B)
  BY <1>4, FlattenPair DEF V
<1>11. WordsOf(c) = WordsOf(a) \o WordsOf(b)
  BY <1>4, <1>9, <1>10
<1> QED
  BY <1>11 DEF c

LEMMA NoWords ==
  ASSUME NEW t \in Seq(STRING), \A i \in 1..Len(t) : ~IsWord(t[i])
  PROVE  WordsOf(t) = <<>>
<1> DEFINE v == [i \in DOMAIN t |-> WordIn(t[i])]
           f == FlattenSeq(v)
<1>1. v \in Seq(Seq(STRING)) /\ WordsOf(t) = f
  BY WordsType
<1>2. DOMAIN t = 1..Len(t) /\ Len(t) \in Nat
  OBVIOUS
<1>3. \A i \in 1..Len(t) : WordIn(t[i]) = <<>>
  BY DEF WordIn
<1>4. Len(v) = Len(t) /\ \A n \in 1..Len(v) : v[n] = <<>>
  BY <1>2, <1>3
<1>5. CASE v = <<>>
  BY <1>1, <1>5, FlattenNone
<1>6. CASE v # <<>>
  <2> HIDE DEF v
  <2>1. f \in Seq(STRING)
    BY <1>1, FlattenType
  <2>2. PICK at : /\ \A n \in 0..Len(v) : at[n] \in Nat
                  /\ \A n \in 1..Len(v) : at[n] = at[n - 1] + Len(v[n])
                  /\ \A i \in 1..Len(f) : \E n \in 1..Len(v) : i \in at[n - 1] + 1..at[n]
    BY <1>1, <1>6, Located
  <2> HIDE DEF f
  <2>3. f = <<>>
    <3> SUFFICES ASSUME f # <<>> PROVE FALSE
      OBVIOUS
    <3>1. 1 \in 1..Len(f)
      BY <2>1
    <3>2. PICK n \in 1..Len(v) : 1 \in at[n - 1] + 1..at[n]
      BY <2>2, <3>1
    <3>3. at[n] = at[n - 1] + 0 /\ at[n - 1] \in Nat
      <4>1. Len(v[n]) = 0 /\ n - 1 \in 0..Len(v)
        BY <1>2, <1>4
      <4> QED
        BY <2>2, <4>1
    <3> QED
      BY <3>2, <3>3
  <2> QED
    BY <1>1, <2>3 DEF f
<1> QED
  BY <1>5, <1>6

\* The words of texts put together, if w counts them up.
LEMMA WordsSum ==
  ASSUME NEW p \in Seq(Seq(STRING)), NEW w, w[0] = <<>>,
         \A n \in 1..Len(p) : w[n] = w[n - 1] \o WordsOf(p[n])
  PROVE  WordsOf(FlattenSeq(p)) = w[Len(p)]
<1> DEFINE V == Seq(STRING)
           N == Len(p)
           P(n) == WordsOf(FlattenSeq(SubSeq(p, 1, n)))
           T == {n \in Nat : n <= N => P(n) = w[n]}
<1>1. p \in Seq(V) /\ N \in Nat
  OBVIOUS
<1>2. 0 \in T
  <2>1. SubSeq(p, 1, 0) = <<>>
    BY SubSeqEmpty
  <2>2. P(0) = <<>>
    BY <2>1, FlattenNone, WordsNone
  <2> HIDE DEF P
  <2> QED
    BY <2>2
<1>3. ASSUME NEW n \in T PROVE n + 1 \in T
  <2>1. n \in Nat
    OBVIOUS
  <2>2. ASSUME n + 1 <= N PROVE P(n + 1) = w[n + 1]
    <3> DEFINE m == n + 1
               x == p[m]
               c == SubSeq(p, 1, n)
    <3>1. n <= N /\ m \in 1..N /\ m - 1 = n
      BY <1>1, <2>1, <2>2
    <3>2. P(n) = w[n]
      <4> HIDE DEF P
      <4> QED
        BY <2>1, <3>1
    <3>3. c \in Seq(V) /\ x \in V /\ SubSeq(p, 1, m) = c \o <<x>>
      BY <1>1, <2>1, <2>2, Grown
    <3>4. P(m) = WordsOf(FlattenSeq(c \o <<x>>)) /\ P(n) = WordsOf(FlattenSeq(c))
      BY <3>3
    <3> HIDE DEF P, T
    <3>5. w[m] = w[n] \o WordsOf(x)
      BY <3>1
    <3> HIDE DEF c, x, m
    <3>6. FlattenSeq(c \o <<x>>) = FlattenSeq(c) \o x /\ FlattenSeq(c) \in V
      BY <3>3, FlattenLast, FlattenType
    <3>7. WordsOf(FlattenSeq(c) \o x) = WordsOf(FlattenSeq(c)) \o WordsOf(x)
      BY <3>3, <3>6, WordsPair
    <3>8. P(m) = w[m]
      BY <3>2, <3>4, <3>5, <3>6, <3>7
    <3> QED
      BY <3>8 DEF m
  <2> HIDE DEF P
  <2> QED
    BY <2>1, <2>2
<1>4. T = Nat
  <2>1. T \in SUBSET Nat
    OBVIOUS
  <2> HIDE DEF T
  <2> QED
    BY <1>2, <1>3, <2>1, Climb
<1>5. P(N) = w[N]
  <2> HIDE DEF P
  <2> QED
    BY <1>1, <1>4
<1>6. SubSeq(p, 1, N) = p
  BY <1>1, SubSeqFull
<1> QED
  BY <1>5, <1>6

LEMMA Cuts ==
  ASSUME NEW W, NEW t \in Seq(W), NEW a \in 0..Len(t), NEW b \in a..Len(t), NEW c \in b..Len(t)
  PROVE  /\ SubSeq(t, a + 1, b) \in Seq(W)
         /\ SubSeq(t, a + 1, b) \o SubSeq(t, b + 1, c) = SubSeq(t, a + 1, c)
<1>1. /\ a + 1 \in 1..Len(t) + 1 /\ b \in a + 1 - 1..Len(t) /\ c \in b..Len(t)
      /\ Len(t) \in Nat /\ a \in Nat /\ b \in Nat /\ b <= Len(t)
  OBVIOUS
<1>2. SubSeq(t, a + 1, b) \o SubSeq(t, b + 1, c) = SubSeq(t, a + 1, c)
  BY <1>1, ConcatAdjacentSubSeq
<1>3. \A i \in a + 1..b : t[i] \in W
  BY <1>1
<1>4. SubSeq(t, a + 1, b) \in Seq(W)
  BY <1>1, <1>3, SubSeqProperties
<1> QED
  BY <1>2, <1>4

LEMMA WordsTrim ==
  ASSUME NEW t \in Seq(STRING) PROVE WordsOf(Trim(t)) = WordsOf(t)
<1> DEFINE solid == {i \in DOMAIN t : t[i] \notin Blanks}
<1>0. \A x : x \in Blanks => ~IsWord(x)
  BY DEF IsWord, Marks
<1>1. DOMAIN t = 1..Len(t) /\ Len(t) \in Nat /\ solid \in SUBSET Nat
  OBVIOUS
<1>2. CASE solid = {}
  <2>1. \A i \in 1..Len(t) : ~IsWord(t[i])
    BY <1>0, <1>1, <1>2
  <2>2. Trim(t) = <<>>
    BY <1>2 DEF Trim
  <2> QED
    BY <2>1, <2>2, NoWords, WordsNone
<1>3. CASE solid # {}
  <2> DEFINE m == Min(solid)
             k == Max(solid)
  <2>1. m \in solid /\ \A y \in solid : m <= y
    <3>1. \E x \in solid : \A y \in solid : x <= y
      <4> HIDE DEF solid
      <4> QED
        BY <1>1, <1>3, LeastNumber
    <3> HIDE DEF solid
    <3> QED
      BY <3>1 DEF Min
  <2>2. k \in solid /\ \A y \in solid : y <= k
    <3>1. solid \in SUBSET (1..Len(t))
      BY <1>1
    <3> HIDE DEF solid
    <3>2. \A y \in solid : y \in Nat
      BY <1>1
    <3>3. Max(solid) \in solid /\ \A y \in solid : Max(solid) >= y
      BY <1>1, <1>3, <3>1, Greatest
    <3> QED
      BY <3>2, <3>3
  <2>3. Trim(t) = SubSeq(t, m, k)
    BY <1>3 DEF Trim
  <2> HIDE DEF m, k
  <2>4. /\ m \in 1..Len(t) /\ k \in m..Len(t)
        /\ \A i \in 1..m - 1 : i \in 1..Len(t) /\ t[i] \in Blanks
        /\ \A i \in k + 1..Len(t) : i \in 1..Len(t) /\ t[i] \in Blanks
    BY <1>1, <2>1, <2>2
  <2> HIDE DEF solid
  <2> DEFINE h == m - 1
             x == SubSeq(t, 1, h)
             y == SubSeq(t, h + 1, k)
             z == SubSeq(t, k + 1, Len(t))
  <2>5. h \in 0..Len(t) /\ k \in h..Len(t) /\ h + 1 = m /\ 0 + 1 = 1 /\ h \in Nat /\ k \in Nat
    BY <1>1, <2>4
  <2> HIDE DEF h
  <2>6. x \in Seq(STRING) /\ y \in Seq(STRING) /\ z \in Seq(STRING)
        /\ x \o y = SubSeq(t, 1, k) /\ SubSeq(t, 1, k) \o z = t /\ SubSeq(t, 1, k) \in Seq(STRING)
    <3>6. /\ 0 \in 0..Len(t) /\ h \in 0..Len(t) /\ k \in 0..Len(t)
          /\ Len(t) \in k..Len(t) /\ k \in h..Len(t)
      BY <1>1, <2>5
    <3>1. SubSeq(t, 0 + 1, h) \in Seq(STRING)
          /\ SubSeq(t, 0 + 1, h) \o SubSeq(t, h + 1, k) = SubSeq(t, 0 + 1, k)
      BY <3>6, Cuts
    <3>2. SubSeq(t, 0 + 1, k) \in Seq(STRING)
          /\ SubSeq(t, 0 + 1, k) \o SubSeq(t, k + 1, Len(t)) = SubSeq(t, 0 + 1, Len(t))
      BY <3>6, Cuts
    <3>3. SubSeq(t, h + 1, k) \in Seq(STRING)
      BY <1>1, <2>5, Cuts
    <3>4. SubSeq(t, k + 1, Len(t)) \in Seq(STRING)
      <4>1. Len(t) \in k..Len(t) /\ k \in 0..Len(t) /\ Len(t) \in Len(t)..Len(t)
        BY <1>1, <2>5
      <4> QED
        BY <4>1, Cuts
    <3>5. SubSeq(t, 1, Len(t)) = t
      BY SubSeqFull
    <3> QED
      BY <2>5, <3>1, <3>2, <3>3, <3>4, <3>5
  <2>7. WordsOf(x) = <<>>
    <3>1. Len(x) = (IF 1 <= h THEN h - 1 + 1 ELSE 0) /\ Within(x, 1 - 1, t)
      BY <2>5, Stretch
    <3>2. \A i \in 1..Len(x) : ~IsWord(x[i])
      <4> SUFFICES ASSUME NEW i \in 1..Len(x) PROVE ~IsWord(x[i])
        OBVIOUS
      <4>1. x[i] = t[1 - 1 + i] /\ 1 - 1 + i = i /\ i \in 1..m - 1
        BY <2>5, <3>1 DEF Within
      <4> QED
        BY <1>0, <2>4, <4>1
    <3> QED
      BY <2>6, <3>2, NoWords
  <2>8. WordsOf(z) = <<>>
    <3>1. Len(z) = (IF k + 1 <= Len(t) THEN Len(t) - (k + 1) + 1 ELSE 0) /\ Within(z, k + 1 - 1, t)
      BY <1>1, <2>5, Stretch
    <3>2. \A i \in 1..Len(z) : ~IsWord(z[i])
      <4> SUFFICES ASSUME NEW i \in 1..Len(z) PROVE ~IsWord(z[i])
        OBVIOUS
      <4>1. z[i] = t[k + 1 - 1 + i] /\ k + 1 - 1 + i \in k + 1..Len(t)
        BY <1>1, <2>5, <3>1 DEF Within
      <4> QED
        BY <1>0, <2>4, <4>1
    <3> QED
      BY <2>6, <3>2, NoWords
  <2> HIDE DEF x, y, z
  <2>9. WordsOf(t) = (WordsOf(x) \o WordsOf(y)) \o WordsOf(z)
    <3> DEFINE u == SubSeq(t, 1, k)
    <3>1. u \in Seq(STRING) /\ u = x \o y /\ t = u \o z
      BY <2>6
    <3> HIDE DEF u
    <3>2. WordsOf(u) = WordsOf(x) \o WordsOf(y)
      BY <2>6, <3>1, WordsPair
    <3>3. WordsOf(t) = WordsOf(u) \o WordsOf(z)
      BY <2>6, <3>1, WordsPair
    <3> QED
      BY <3>2, <3>3
  <2>10. WordsOf(y) \in Seq(STRING)
    BY <2>6, WordsType
  <2>11. WordsOf(t) = WordsOf(y)
    BY <2>7, <2>8, <2>9, <2>10, ConcatEmptySeq
  <2> QED
    BY <2>3, <2>5, <2>11 DEF y
<1> QED
  BY <1>2, <1>3

LEMMA FlattenOne ==
  ASSUME NEW W, NEW x \in Seq(W) PROVE FlattenSeq(<<x>>) = x
<1>1. <<>> \in Seq(Seq(W)) /\ <<x>> \in Seq(Seq(W))
  OBVIOUS
<1>2. FlattenSeq(<<>> \o <<x>>) = FlattenSeq(<<>>) \o x
  BY <1>1, FlattenLast
<1>3. <<>> \o <<x>> = <<x>> /\ <<>> \o x = x
  BY <1>1, ConcatEmptySeq
<1> QED
  BY <1>2, <1>3, FlattenNone

\* Joining adds no word.
LEMMA WordsJoin ==
  ASSUME NEW s \in Seq(Seq(STRING))
  PROVE  Join(s) \in Seq(STRING) /\ WordsOf(Join(s)) = WordsOf(FlattenSeq(s))
<1> DEFINE V == Seq(STRING)
           N == Len(s)
           Put(n) == IF n = 1 THEN s[n] ELSE <<" ">> \o s[n]
           v == [n \in DOMAIN s |-> Put(n)]
           w == [n \in 0..N |-> WordsOf(FlattenSeq(SubSeq(s, 1, n)))]
<1>1. s \in Seq(V) /\ N \in Nat /\ DOMAIN s = 1..N /\ \A n \in 1..N : s[n] \in V
  OBVIOUS
<1>2. <<" ">> \in V /\ WordsOf(<<" ">>) = <<>>
  <2> DEFINE b == " "
             o == <<b>>
  <2>1. b \in STRING /\ ~IsWord(b)
    BY TextsAssumption DEF Marks, Blanks, IsWord
  <2> HIDE DEF b
  <2>2. o \in V /\ Len(o) = 1 /\ o[1] = b
    BY <2>1, OneWord
  <2> HIDE DEF o
  <2>3. \A i \in 1..Len(o) : ~IsWord(o[i])
    <3>1. \A i \in 1..Len(o) : i = 1
      BY <2>2
    <3> QED
      BY <2>1, <2>2, <3>1, Zenon
  <2>4. WordsOf(o) = <<>>
    BY <2>2, <2>3, NoWords
  <2> QED
    BY <2>2, <2>4 DEF o, b
<1>3. ASSUME NEW n \in 1..N PROVE Put(n) \in V /\ WordsOf(Put(n)) = WordsOf(s[n])
  <2> DEFINE o == <<" ">>
  <2>1. s[n] \in V /\ o \in V /\ WordsOf(o) = <<>>
    BY <1>1, <1>2
  <2> HIDE DEF o
  <2>2. o \o s[n] \in V
    BY <2>1, ConcatProperties
  <2>3. WordsOf(o \o s[n]) = WordsOf(o) \o WordsOf(s[n]) /\ WordsOf(s[n]) \in V
    BY <2>1, WordsPair, WordsType
  <2>4. WordsOf(o \o s[n]) = WordsOf(s[n])
    BY <2>1, <2>3, ConcatEmptySeq
  <2> QED
    BY <2>1, <2>2, <2>4 DEF o
<1>4. v \in Seq(V) /\ Len(v) = N /\ \A n \in 1..N : v[n] = Put(n)
  <2> HIDE DEF V, Put
  <2> QED
    BY <1>1, <1>3
<1>5. Join(s) = FlattenSeq(v)
  BY DEF Join
<1> HIDE DEF Put, v
<1>6. ASSUME NEW n \in 1..N PROVE w[n] = w[n - 1] \o WordsOf(v[n])
  <2> DEFINE k == n - 1
             x == s[n]
             c == SubSeq(s, 1, k)
  <2>1. k \in Nat /\ k + 1 = n /\ k \in 0..N /\ n \in 0..N
    BY <1>1
  <2> HIDE DEF k
  <2>2. c \in Seq(V) /\ x \in V /\ SubSeq(s, 1, n) = c \o <<x>>
    <3>1. k + 1 <= Len(s)
      BY <1>1, <2>1
    <3>2. /\ SubSeq(s, 1, k) \in Seq(V) /\ s[k + 1] \in V
          /\ SubSeq(s, 1, k + 1) = SubSeq(s, 1, k) \o <<s[k + 1]>>
      BY <1>1, <2>1, <3>1, Grown
    <3> QED
      BY <2>1, <3>2
  <2>3. w[n] = WordsOf(FlattenSeq(c \o <<x>>)) /\ w[k] = WordsOf(FlattenSeq(c))
    BY <2>1, <2>2
  <2>4. WordsOf(v[n]) = WordsOf(x)
    BY <1>3, <1>4
  <2> HIDE DEF w, c, x
  <2>5. FlattenSeq(c \o <<x>>) = FlattenSeq(c) \o x /\ FlattenSeq(c) \in V
    BY <2>2, FlattenLast, FlattenType
  <2>6. WordsOf(FlattenSeq(c) \o x) = WordsOf(FlattenSeq(c)) \o WordsOf(x)
    BY <2>2, <2>5, WordsPair
  <2>7. w[n] = w[k] \o WordsOf(v[n])
    BY <2>3, <2>4, <2>5, <2>6
  <2> QED
    BY <2>7 DEF k
<1>7. w[0] = <<>> /\ w[N] = WordsOf(FlattenSeq(s))
  <2>1. SubSeq(s, 1, 0) = <<>> /\ SubSeq(s, 1, N) = s
    BY <1>1, SubSeqEmpty, SubSeqFull
  <2>2. 0 \in 0..N /\ N \in 0..N
    BY <1>1
  <2> QED
    BY <2>1, <2>2, FlattenNone, WordsNone
<1> HIDE DEF w
<1>8. WordsOf(FlattenSeq(v)) = w[N]
  BY <1>4, <1>6, <1>7, WordsSum
<1>9. FlattenSeq(v) \in V
  BY <1>4, FlattenType
<1> QED
  BY <1>5, <1>7, <1>8, <1>9

\* After a word some sentence ends.
LEMMA EndAfter ==
  ASSUME NEW t \in Seq(STRING), NEW i \in 1..Len(t), IsWord(t[i])
  PROVE  \E e \in Ends(t) : i <= e
<1>1. Len(t) \in Nat /\ DOMAIN t = 1..Len(t) /\ i \in Nat
  OBVIOUS
<1>2. t[i] \notin Blanks /\ t[i] \notin Stops /\ \A x \in Stops : x \notin Blanks
  BY DEF IsWord, Marks, Blanks, Stops
<1>3. ASSUME NEW k \in i..Len(t), t[k] \in Stops PROVE \E e \in Ends(t) : i <= e
  <2>0. k \in Nat /\ i <= k
    BY <1>1
  <2> DEFINE T == {m \in k..Len(t) : m = Len(t) \/ t[m + 1] \notin Stops}
  <2>1. T \in SUBSET Nat /\ Len(t) \in T
    BY <1>1, <2>0
  <2>2. PICK e \in T : \A y \in T : e <= y
    <3> HIDE DEF T
    <3> QED
      BY <2>1, LeastNumber
  <2>3. e \in k..Len(t) /\ (e = Len(t) \/ t[e + 1] \notin Stops)
    OBVIOUS
  <2>9. e \in Nat /\ k <= e /\ e <= Len(t)
    <3> HIDE DEF T
    <3>1. e \in k..Len(t)
      BY <2>3
    <3> QED
      BY <1>1, <2>0, <3>1
  <2>4. t[e] \in Stops
    <3>1. CASE e = k
      BY <1>3, <3>1
    <3>2. CASE e # k
      <4> DEFINE m == e - 1
      <4>1. m \in k..Len(t) /\ m # Len(t) /\ m + 1 = e /\ ~(e <= m)
        <5> HIDE DEF T
        <5> QED
          BY <1>1, <2>0, <2>9, <3>2
      <4>2. m \notin T
        <5> HIDE DEF T, m
        <5> QED
          BY <2>2, <4>1
      <4> HIDE DEF m
      <4>3. t[m + 1] \in Stops
        BY <4>1, <4>2
      <4> QED
        BY <4>1, <4>3
    <3> QED
      BY <3>1, <3>2
  <2> HIDE DEF T
  <2>5. e \in 1..Len(t) /\ i \in 1..e /\ i <= e
    BY <1>1, <2>0, <2>9
  <2>6. EndsSentence(t, e)
    BY <1>2, <2>3, <2>4, <2>5 DEF EndsSentence
  <2> QED
    BY <1>1, <2>5, <2>6 DEF Ends
<1>4. ASSUME \A k \in i..Len(t) : t[k] \notin Stops PROVE \E e \in Ends(t) : i <= e
  <2> DEFINE T == {m \in i..Len(t) : t[m] \notin Blanks}
             e == Max(T)
  <2>1. T \in SUBSET (1..Len(t)) /\ i \in T
    BY <1>1, <1>2
  <2>2. e \in T /\ \A y \in T : e >= y
    <3> HIDE DEF T
    <3> QED
      BY <1>1, <2>1, Greatest
  <2> HIDE DEF e
  <2>3. e \in i..Len(t) /\ t[e] \notin Blanks
    BY <2>2
  <2>4. e \in 1..Len(t) /\ e \in 1..e /\ i <= e /\ t[e] \notin Stops
    BY <1>1, <1>4, <2>3
  <2>5. ASSUME NEW j \in e + 1..Len(t) PROVE t[j] \in Blanks
    <3>1. j \in i..Len(t) /\ ~(e >= j)
      BY <1>1, <2>3
    <3>2. j \notin T
      <4> HIDE DEF T
      <4> QED
        BY <2>2, <3>1
    <3> QED
      BY <3>1, <3>2
  <2> HIDE DEF T
  <2>6. EndsSentence(t, e)
    BY <2>3, <2>4, <2>5 DEF EndsSentence
  <2> QED
    BY <1>1, <2>4, <2>6 DEF Ends
<1> QED
  BY <1>3, <1>4

\* A stretch of a text without a word.
LEMMA Wordless ==
  ASSUME NEW t \in Seq(STRING), NEW a \in 0..Len(t), NEW b \in a..Len(t),
         \A i \in a + 1..b : ~IsWord(t[i])
  PROVE  SubSeq(t, a + 1, b) \in Seq(STRING) /\ WordsOf(SubSeq(t, a + 1, b)) = <<>>
<1> DEFINE x == SubSeq(t, a + 1, b)
<1>1. a + 1 \in Nat \ {0} /\ b \in Nat /\ b <= Len(t) /\ a \in Nat
  OBVIOUS
<1>2. x \in Seq(STRING) /\ Len(x) = (IF a + 1 <= b THEN b - (a + 1) + 1 ELSE 0)
      /\ Within(x, a + 1 - 1, t)
  BY <1>1, Stretch
<1> HIDE DEF x
<1>3. ASSUME NEW i \in 1..Len(x) PROVE ~IsWord(x[i])
  <2>1. x[i] = t[a + 1 - 1 + i] /\ a + 1 - 1 + i \in a + 1..b
    BY <1>1, <1>2 DEF Within
  <2> QED
    BY <2>1
<1>4. WordsOf(x) = <<>>
  BY <1>2, <1>3, NoWords
<1> QED
  BY <1>2, <1>4 DEF x

\* Where the sentences are cut; the words of a sentence are those from cut to cut.
CutAt(t, n) == IF n = 0 THEN 0 ELSE Nth(Ends(t), n)

LEMMA Covered ==
  ASSUME NEW t \in Seq(STRING), NEW n \in 1..Cardinality(Ends(t))
  PROVE  /\ CutAt(t, n - 1) \in 0..Len(t) /\ CutAt(t, n) \in CutAt(t, n - 1)..Len(t)
         /\ SubSeq(t, CutAt(t, n - 1) + 1, CutAt(t, n)) \in Seq(STRING)
         /\ WordsOf(Sentences(t)[n]) = WordsOf(SubSeq(t, CutAt(t, n - 1) + 1, CutAt(t, n)))
<1> DEFINE C == Cardinality(Ends(t))
           z == Nth(Ends(t), n)
           b == Starts(t, n)
           a == CutAt(t, n - 1)
           x == SubSeq(t, a + 1, z)
           y == SubSeq(t, b, z)
<1>1. /\ C \in Nat /\ b \in Nat \ {0} /\ z \in 1..Len(t) /\ b <= z /\ Len(t) \in Nat
  BY Spans
<1>2. Sentences(t)[n] = Trim(y)
  BY DEF Sentences, Starts, Ends
<1>3. CutAt(t, n) = z
  BY <1>1 DEF CutAt
<1>0. n \in Nat /\ n >= 1
  BY <1>1
<1> HIDE DEF z
<1>4. z \in Nat /\ z <= Len(t) /\ z \in 0..Len(t)
  BY <1>1
<1>5. CASE n = 1
  <2>1. a = 0
    BY <1>5 DEF CutAt
  <2> HIDE DEF a
  <2> DEFINE solid == {i \in DOMAIN t : t[i] \notin Stops}
             h == b - 1
  <2>2. b = Min(solid)
    BY <1>5 DEF Starts
  <2>3. solid \in SUBSET Nat /\ solid # {}
    <3>1. z \in Ends(t)
      <4>1. Ends(t) \in SUBSET (1..Len(t))
        BY DEF Ends
      <4> HIDE DEF C
      <4> QED
        BY <1>1, <4>1, Ranked DEF C, z
    <3>2. PICK j \in 1..z : t[j] \notin Stops
      BY <3>1 DEF Ends, EndsSentence
    <3>3. j \in 1..Len(t)
      BY <1>1, <1>4
    <3> QED
      BY <3>2, <3>3
  <2>4. b \in solid /\ \A i \in solid : b <= i
    <3>1. \E i \in solid : \A j \in solid : i <= j
      <4> HIDE DEF solid
      <4> QED
        BY <2>3, LeastNumber
    <3> HIDE DEF solid
    <3> QED
      BY <2>2, <3>1 DEF Min
  <2> HIDE DEF b
  <2>5. ASSUME NEW i \in 0 + 1..h PROVE ~IsWord(t[i])
    <3>1. i \in 1..Len(t) /\ ~(b <= i)
      BY <1>1, <1>4
    <3>2. t[i] \in Stops
      BY <2>4, <3>1
    <3> QED
      BY <3>2 DEF IsWord, Marks
  <2> HIDE DEF solid
  <2>6. h \in 0..Len(t) /\ z \in h..Len(t) /\ h + 1 = b /\ 0 \in 0..Len(t)
    BY <1>1, <1>4
  <2> HIDE DEF h
  <2>7. SubSeq(t, 0 + 1, h) \in Seq(STRING) /\ WordsOf(SubSeq(t, 0 + 1, h)) = <<>>
    BY <2>5, <2>6, Wordless
  <2>8. SubSeq(t, 0 + 1, h) \o SubSeq(t, h + 1, z) = SubSeq(t, 0 + 1, z)
    BY <2>6, Cuts
  <2>9. y \in Seq(STRING)
    BY <1>1, <1>4, Stretch
  <2>10. x = SubSeq(t, 0 + 1, h) \o y /\ x \in Seq(STRING)
    <3>1. SubSeq(t, 0 + 1, z) \in Seq(STRING)
      BY <1>4, <2>6, Cuts
    <3> QED
      BY <2>1, <2>6, <2>8, <3>1
  <2> DEFINE g == SubSeq(t, 0 + 1, h)
  <2>11. g \in Seq(STRING) /\ WordsOf(g) = <<>> /\ x = g \o y
    BY <2>7, <2>10
  <2> HIDE DEF g, x, y
  <2>12. WordsOf(x) = WordsOf(g) \o WordsOf(y) /\ WordsOf(y) \in Seq(STRING)
    BY <2>9, <2>11, WordsPair, WordsType
  <2>13. WordsOf(x) = WordsOf(y)
    BY <2>11, <2>12, ConcatEmptySeq
  <2>14. WordsOf(Trim(y)) = WordsOf(y)
    BY <2>9, WordsTrim
  <2>15. a \in 0..Len(t) /\ z \in a..Len(t)
    BY <1>1, <1>4, <2>1
  <2> QED
    BY <1>2, <1>3, <2>10, <2>13, <2>14, <2>15 DEF a, x
<1>6. CASE n # 1
  <2> DEFINE m == n - 1
  <2>1. m \in 1..C /\ m \in 1..C - 1 /\ m + 1 = n /\ m # 0
    BY <1>0, <1>1, <1>6
  <2>2. b = Nth(Ends(t), m) + 1 /\ a = Nth(Ends(t), m)
    BY <1>6, <2>1 DEF Starts, CutAt
  <2>3. Nth(Ends(t), m) \in 1..Len(t)
    BY <2>1, Spans
  <2> HIDE DEF a, b, m
  <2>4. a \in 0..Len(t) /\ z \in a..Len(t) /\ a + 1 = b
    BY <1>1, <1>4, <2>2, <2>3
  <2>5. x = y /\ x \in Seq(STRING)
    <3>1. y \in Seq(STRING)
      BY <1>1, <1>4, Stretch
    <3>2. x = y
      BY <2>4
    <3> QED
      BY <3>1, <3>2
  <2> HIDE DEF x, y
  <2>6. WordsOf(Trim(y)) = WordsOf(y)
    BY <2>5, WordsTrim
  <2> QED
    BY <1>2, <1>3, <2>4, <2>5, <2>6 DEF a, x
<1> QED
  BY <1>5, <1>6

\* The sentences have the words of the text.
LEMMA WordsSentences ==
  ASSUME NEW t \in Seq(STRING), Ends(t) # {}
  PROVE  WordsOf(FlattenSeq(Sentences(t))) = WordsOf(t)
<1> DEFINE s == Sentences(t)
           C == Cardinality(Ends(t))
           w == [n \in 0..C |-> WordsOf(SubSeq(t, 1, CutAt(t, n)))]
           z == CutAt(t, C)
<1>1. s \in Seq(Seq(STRING)) /\ Len(s) = C /\ C \in Nat
  BY Sentenced
<1>2. Ends(t) \in SUBSET (1..Len(t)) /\ Len(t) \in Nat
  BY DEF Ends
<1>3. C # 0 /\ \A e \in Ends(t) : e <= Nth(Ends(t), C)
  BY <1>1, <1>2, Ranked
<1>4. ASSUME NEW n \in 1..C PROVE w[n] = w[n - 1] \o WordsOf(s[n])
  <2> DEFINE m == n - 1
             a == CutAt(t, m)
             b == CutAt(t, n)
  <2>1. m \in 0..C /\ n \in 0..C
    BY <1>1
  <2>2. a \in 0..Len(t) /\ b \in a..Len(t) /\ SubSeq(t, a + 1, b) \in Seq(STRING)
        /\ WordsOf(s[n]) = WordsOf(SubSeq(t, a + 1, b))
    BY Covered
  <2>3. w[n] = WordsOf(SubSeq(t, 1, b)) /\ w[m] = WordsOf(SubSeq(t, 1, a))
    BY <2>1
  <2> HIDE DEF a, b, w, m, s, C
  <2>4. 0 \in 0..Len(t) /\ a \in 0..Len(t) /\ b \in a..Len(t) /\ 0 + 1 = 1
    BY <1>2, <2>2
  <2>5. SubSeq(t, 0 + 1, a) \in Seq(STRING)
        /\ SubSeq(t, 0 + 1, a) \o SubSeq(t, a + 1, b) = SubSeq(t, 0 + 1, b)
    BY <2>4, Cuts
  <2>6. WordsOf(SubSeq(t, 0 + 1, a) \o SubSeq(t, a + 1, b))
          = WordsOf(SubSeq(t, 0 + 1, a)) \o WordsOf(SubSeq(t, a + 1, b))
    BY <2>2, <2>5, WordsPair
  <2>7. w[n] = w[m] \o WordsOf(s[n])
    BY <2>2, <2>3, <2>4, <2>5, <2>6
  <2> QED
    BY <2>7 DEF m
<1>5. w[0] = <<>> /\ w[C] = WordsOf(SubSeq(t, 1, z))
  <2>1. 0 \in 0..C /\ C \in 0..C /\ CutAt(t, 0) = 0
    BY <1>1 DEF CutAt
  <2>2. SubSeq(t, 1, 0) = <<>>
    BY SubSeqEmpty
  <2> QED
    BY <2>1, <2>2, WordsNone
<1> HIDE DEF w, s
<1>6. WordsOf(FlattenSeq(s)) = WordsOf(SubSeq(t, 1, z))
  BY <1>1, <1>4, <1>5, WordsSum
<1>7. C \in 1..C
  BY <1>1, <1>3
<1>8. z = Nth(Ends(t), C) /\ z \in 0..Len(t)
  <2>1. z = Nth(Ends(t), C)
    BY <1>3 DEF CutAt
  <2>2. Nth(Ends(t), C) \in 1..Len(t)
    BY <1>7, Spans
  <2> QED
    BY <2>1, <2>2
<1> HIDE DEF z, C
<1>9. ASSUME NEW i \in z + 1..Len(t) PROVE ~IsWord(t[i])
  <2> SUFFICES ASSUME IsWord(t[i]) PROVE FALSE
    OBVIOUS
  <2>1. i \in 1..Len(t) /\ ~(i <= z)
    BY <1>2, <1>8
  <2>2. PICK e \in Ends(t) : i <= e
    BY <2>1, EndAfter
  <2>3. e <= z /\ e \in Nat
    BY <1>2, <1>3, <1>8
  <2> QED
    BY <1>8, <2>1, <2>2, <2>3
<1>10. /\ 0 \in 0..Len(t) /\ z \in 0..Len(t) /\ Len(t) \in z..Len(t) /\ 0 + 1 = 1
  BY <1>2, <1>8
<1>11. SubSeq(t, 0 + 1, z) \in Seq(STRING)
       /\ SubSeq(t, 0 + 1, z) \o SubSeq(t, z + 1, Len(t)) = SubSeq(t, 0 + 1, Len(t))
  BY <1>10, Cuts
<1>12. SubSeq(t, z + 1, Len(t)) \in Seq(STRING) /\ WordsOf(SubSeq(t, z + 1, Len(t))) = <<>>
  BY <1>9, <1>10, Wordless
<1>13. SubSeq(t, 1, Len(t)) = t
  BY SubSeqFull
<1> DEFINE x == SubSeq(t, 1, z)
           y == SubSeq(t, z + 1, Len(t))
<1>14. x \in Seq(STRING) /\ y \in Seq(STRING) /\ t = x \o y /\ WordsOf(y) = <<>>
  BY <1>10, <1>11, <1>12, <1>13
<1>15. WordsOf(FlattenSeq(s)) = WordsOf(x)
  BY <1>6
<1> HIDE DEF x, y
<1>16. WordsOf(t) = WordsOf(x) \o WordsOf(y) /\ WordsOf(x) \in Seq(STRING)
  BY <1>14, WordsPair, WordsType
<1>17. WordsOf(t) = WordsOf(x)
  BY <1>14, <1>16, ConcatEmptySeq
<1> QED
  BY <1>15, <1>17 DEF s

\* So do the balloons.
LEMMA WordsSplit ==
  ASSUME NEW t \in Seq(STRING)
  PROVE  LET p == SplitMessage(t)
         IN  /\ Len(p) \in 1..3 /\ WordsOf(FlattenSeq(p)) = WordsOf(t)
             /\ Len(t) <= SPLIT => p = <<t>>
<1> DEFINE s == Sentences(t)
           p == SplitMessage(t)
           L == Len(s)
           N == Len(p)
           w == [n \in 0..N |-> WordsOf(FlattenSeq(SubSeq(s, 1, Deal(L, n))))]
<1>1. CASE p = <<t>>
  <2>1. FlattenSeq(<<t>>) = t /\ Len(<<t>>) = 1
    BY FlattenOne
  <2> HIDE DEF p
  <2>2. Len(p) \in 1..3 /\ WordsOf(FlattenSeq(p)) = WordsOf(t) /\ (Len(t) <= SPLIT => p = <<t>>)
    BY <1>1, <2>1
  <2> QED
    BY <2>2 DEF p
<1>2. CASE p # <<t>>
  <2>1. s \in Seq(Seq(STRING)) /\ L = Cardinality(Ends(t)) /\ L \in Nat /\ Len(t) \in Nat
    BY Sentenced
  <2>2. /\ Len(t) > SPLIT /\ L >= 2 /\ N \in 2..3
        /\ p = [n \in 1..N |-> p[n]]
        /\ Deal(L, 0) = 0 /\ Deal(L, N) = L
        /\ \A n \in 1..N :
             /\ Deal(L, n) \in 1..L /\ Deal(L, n - 1) \in Nat
             /\ Deal(L, n - 1) < Deal(L, n)
             /\ p[n] = Join(SubSeq(s, Deal(L, n - 1) + 1, Deal(L, n)))
    BY <1>2, Balloons
  <2>3. ~(Len(t) <= SPLIT)
    BY <2>1, <2>2, LengthsAssumption
  <2>4. Ends(t) # {}
    <3>1. Ends(t) \in SUBSET (1..Len(t))
      BY DEF Ends
    <3> HIDE DEF L
    <3> QED
      BY <2>1, <2>2, <3>1, Ranked
  <2>5. WordsOf(FlattenSeq(s)) = WordsOf(t)
    BY <2>4, WordsSentences
  <2> HIDE DEF s, p, L
  <2> DEFINE V == Seq(STRING)
  <2>6. s \in Seq(V) /\ L = Len(s) /\ N \in Nat
    BY <2>1, <2>2 DEF L
  <2> HIDE DEF N
  <2>7. ASSUME NEW n \in 1..N
        PROVE  p[n] \in V /\ w[n] = w[n - 1] \o WordsOf(p[n])
    <3> DEFINE m == n - 1
               a == Deal(L, m)
               b == Deal(L, n)
               x == SubSeq(s, a + 1, b)
               y == SubSeq(s, 1, a)
    <3>1. m \in 0..N /\ n \in 0..N
      BY <2>6
    <3>2. a \in Nat /\ b \in 1..L /\ a < b /\ p[n] = Join(x)
      BY <2>2
    <3>3. w[n] = WordsOf(FlattenSeq(SubSeq(s, 1, b))) /\ w[m] = WordsOf(FlattenSeq(y))
      BY <3>1
    <3> HIDE DEF a, b, w, m, V
    <3>4. 0 \in 0..Len(s) /\ a \in 0..Len(s) /\ b \in a..Len(s) /\ 0 + 1 = 1
      BY <2>1, <2>6, <3>2
    <3>5. SubSeq(s, 0 + 1, a) \in Seq(V)
          /\ SubSeq(s, 0 + 1, a) \o SubSeq(s, a + 1, b) = SubSeq(s, 0 + 1, b)
      BY <2>6, <3>4, Cuts
    <3>6. SubSeq(s, a + 1, b) \in Seq(V)
      <4>1. b \in b..Len(s)
        BY <3>4
      <4> QED
        BY <2>6, <3>4, <4>1, Cuts
    <3>7. x \in Seq(V) /\ y \in Seq(V) /\ SubSeq(s, 1, b) = y \o x
      BY <3>4, <3>5, <3>6
    <3> HIDE DEF x, y
    <3>8. p[n] \in V /\ WordsOf(p[n]) = WordsOf(FlattenSeq(x))
      BY <3>2, <3>7, WordsJoin DEF V
    <3>9. FlattenSeq(y \o x) = FlattenSeq(y) \o FlattenSeq(x)
          /\ FlattenSeq(y) \in Seq(STRING) /\ FlattenSeq(x) \in Seq(STRING)
      BY <3>7, FlattenPair, FlattenType DEF V
    <3>10. WordsOf(FlattenSeq(y) \o FlattenSeq(x))
             = WordsOf(FlattenSeq(y)) \o WordsOf(FlattenSeq(x))
      BY <3>9, WordsPair
    <3>11. w[n] = w[m] \o WordsOf(p[n])
      BY <3>3, <3>7, <3>8, <3>9, <3>10
    <3> QED
      BY <3>8, <3>11 DEF m
  <2>8. p \in Seq(V) /\ Len(p) = N
    <3>1. \A n \in 1..N : p[n] \in V
      BY <2>7
    <3>2. p = [n \in 1..N |-> p[n]]
      BY <2>2
    <3> HIDE DEF V, w
    <3>3. [n \in 1..N |-> p[n]] \in Seq(V) /\ Len([n \in 1..N |-> p[n]]) = N
      BY <2>6, <3>1
    <3> QED
      BY <3>2, <3>3
  <2>9. w[0] = <<>> /\ w[N] = WordsOf(t)
    <3>1. 0 \in 0..N /\ N \in 0..N
      BY <2>6
    <3>2. SubSeq(s, 1, 0) = <<>> /\ SubSeq(s, 1, L) = s
      BY <2>6, SubSeqEmpty, SubSeqFull
    <3> QED
      BY <2>2, <2>5, <3>1, <3>2, FlattenNone, WordsNone
  <2> HIDE DEF w
  <2>10. WordsOf(FlattenSeq(p)) = w[N]
    BY <2>7, <2>8, <2>9, WordsSum
  <2>11. N \in 1..3
    BY <2>2
  <2> QED
    BY <2>3, <2>8, <2>9, <2>10, <2>11 DEF p
<1> QED
  BY <1>1, <1>2

\* A reply that is sent is whole.
LEMMA WholeSent ==
  ASSUME NEW text \in Seq(STRING), NEW by, NEW cut,
         turn.allowed \in BOOLEAN, linkSent \in BOOLEAN, Send(text, by, cut)
  PROVE  BalloonsWhole'
<1> DEFINE linked == turn.allowed /\ ~linkSent
           w == Whole(text, linked)
           p == SplitMessage(w)
<1>1. linked \in BOOLEAN
  OBVIOUS
<1>2. reply' = [by |-> by, cut |-> cut, linked |-> linked, text |-> text, parts |-> p]
  BY DEF Send, Whole
<1> HIDE DEF linked
<1>3. w \in Seq(STRING) /\ (linked => Len(w) = Len(text) + 4)
  BY <1>1, WholeIs
<1> HIDE DEF w
<1>4. /\ Len(p) \in 1..3 /\ WordsOf(FlattenSeq(p)) = WordsOf(w)
      /\ Len(w) <= SPLIT => p = <<w>>
  BY <1>3, WordsSplit
<1> HIDE DEF p
<1>5. /\ reply'.parts = p
      /\ (IF reply'.linked THEN reply'.text \o <<"gap">> \o Url ELSE reply'.text) = w
  BY <1>2 DEF w, Whole
<1> QED
  BY <1>4, <1>5 DEF BalloonsWhole, MaxParts

LEMMA BalloonsStep ==
  ASSUME TextInv, BalloonsWhole, [WordingNext]_wordingVars
  PROVE  BalloonsWhole'
<1>1. CASE UNCHANGED reply
  BY <1>1 DEF BalloonsWhole
<1>2. turn.allowed \in BOOLEAN /\ linkSent \in BOOLEAN
  BY DEF TextInv
<1>3. CASE Send(Fallback, "fallback", FALSE)
  <2>1. Fallback \in Seq(STRING)
    BY FallbackSound DEF Sound
  <2> QED
    BY <1>2, <1>3, <2>1, WholeSent
<1>4. ASSUME NEW raw \in Raws, Answer(raw) PROVE BalloonsWhole'
  <2>1. CASE Passes(raw) /\ Send(Truncated(raw), "model", Truncated(raw) # raw)
    <3>1. Truncated(raw) \in Seq(STRING)
      BY <2>1, PassedSound DEF Sound
    <3> QED
      BY <1>2, <2>1, <3>1, WholeSent
  <2> QED
    BY <1>1, <1>3, <1>4, <2>1 DEF Answer
<1>5. ASSUME NEW final \in BOOLEAN, NoAnswer(final) PROVE BalloonsWhole'
  BY <1>1, <1>3, <1>5 DEF NoAnswer
<1>6. CASE Edit \/ Expire \/ \E wants \in BOOLEAN : Ask(wants)
  BY <1>1, <1>6 DEF Edit, Expire, Ask
<1>7. ASSUME NEW o \in Openers, Opening(o) PROVE BalloonsWhole'
  BY <1>1, <1>7 DEF Opening, List, Choose, Push, LTrim, Open, Abandon
<1> QED
  BY <1>1, <1>4, <1>5, <1>6, <1>7 DEF WordingNext, Model, wordingVars

\* One to three balloons hold every word of the reply and of its link, in their order, for any
\* text: none is lost at the cuts between sentences, in the division into three or in the
\* slice that follows it; and up to SPLIT it is one balloon, as written (humanize.ts:1-17,
\* conversation.service.ts:306-328).  The two sides of a full stop within a number, or within
\* the Url, are two words here: in a longer reply a sentence ends between them.
THEOREM BalloonsAreWhole == WordingSpec => []BalloonsWhole
<1>1. WordingInit => BalloonsWhole
  <2> SUFFICES ASSUME WordingInit PROVE BalloonsWhole
    OBVIOUS
  <2>1. reply = NoReply /\ reply.by = "none"
    BY DEF WordingInit, NoReply
  <2> QED
    BY <2>1 DEF BalloonsWhole
<1>2. TextInv /\ BalloonsWhole /\ [WordingNext]_wordingVars => BalloonsWhole'
  BY BalloonsStep
<1> QED
  BY <1>1, <1>2, RunsInit, RunsStep, TextInit, TextStep, PTL DEF WordingSpec
=============================================================================
