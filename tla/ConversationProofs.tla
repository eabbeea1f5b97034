-------------------------- MODULE ConversationProofs --------------------------
(***************************************************************************)
(* Theorems about Conversation, for any messages, consumers and bounds.     *)
(***************************************************************************)
EXTENDS Conversation, FiniteSetTheorems, TLAPS

-----------------------------------------------------------------------------
(* Types.                                                                    *)

LEMMA TypeInit == Init => TypeOK
<1> SUFFICES ASSUME Init PROVE TypeOK
  OBVIOUS
<1> USE LimitsAssumption, ActorsAssumption DEF Init
<1>1. JobsOK
  BY DEF JobsOK
<1>2. RowsOK
  BY DEF RowsOK
<1>3. TurnsOK
  BY DEF TurnsOK, PC
<1>4. PastOK
  BY DEF PastOK
<1> QED
  BY <1>1, <1>2, <1>3, <1>4 DEF TypeOK

\* A consumer with a message ends its turn.
LEMMA LeaveType ==
  ASSUME TurnsOK, NEW c \in Consumers, Leave(c) PROVE TurnsOK'
BY DEF TurnsOK, Leave, PC

LEMMA EndType ==
  ASSUME TypeOK, NEW c \in Consumers, pc[c] # "idle", NEW state \in {"done", "wait", "failed"},
         End(c, state), tries' \in [Messages -> 0..Attempts],
         \A m \in Messages : tries'[m] = tries[m] \/ (m = msg[c] /\ owner[m] = c),
         state = "wait" => tries'[msg[c]] < Attempts
  PROVE  JobsOK' /\ TurnsOK'
<1> USE DEF TypeOK
<1>1. TurnsOK'
  BY LeaveType DEF End
<1> DEFINE m == msg[c]
<1>2. m \in Messages
  BY DEF TurnsOK
<1>3. CASE owner[m] # c
  <2>1. job' = job /\ owner' = owner /\ UNCHANGED <<intent, again>>
    BY <1>3 DEF End
  <2>2. \A n \in Messages : tries'[n] = tries[n]
    BY <1>3
  <2> QED
    BY <1>1, <2>1, <2>2 DEF JobsOK
<1>4. CASE owner[m] = c
  <2>1. job' = [job EXCEPT ![m] = state] /\ owner' = [owner EXCEPT ![m] = None]
    BY <1>4 DEF End
  <2>2. UNCHANGED <<intent, again>>
    BY DEF End
  <2>3. \A n \in Messages : job'[n] \in {"wait", "active"} => tries'[n] < Attempts
    BY <1>2, <2>1 DEF JobsOK
  <2>4. \A n \in Messages : job'[n] = "active" <=> owner'[n] # None
    BY <1>2, <2>1 DEF JobsOK
  <2>5. job' \in [Messages -> {"none", "wait", "active", "done", "failed"}]
    BY <2>1 DEF JobsOK
  <2>6. owner' \in [Messages -> Consumers \cup {None}]
    BY <2>1 DEF JobsOK
  <2> QED
    BY <1>1, <2>2, <2>3, <2>4, <2>5, <2>6 DEF JobsOK
<1> QED
  BY <1>1, <1>3, <1>4

LEMMA DoneType ==
  ASSUME TypeOK, NEW c \in Consumers, pc[c] # "idle", Done(c) PROVE JobsOK' /\ TurnsOK'
<1>1. End(c, "done") /\ tries' = tries
  BY DEF Done
<1>2. tries' \in [Messages -> 0..Attempts] /\ \A m \in Messages : tries'[m] = tries[m]
  BY <1>1 DEF TypeOK, JobsOK
<1>3. "done" \in {"done", "wait", "failed"} /\ "done" # "wait"
  OBVIOUS
<1> QED
  BY <1>1, <1>2, <1>3, EndType

LEMMA GiveBackType ==
  ASSUME TypeOK, NEW c \in Consumers, pc[c] # "idle", GiveBack(c) PROVE JobsOK' /\ TurnsOK'
<1> DEFINE m == msg[c]
           state == IF tries[m] + 1 < Attempts THEN "wait" ELSE "failed"
<1>1. m \in Messages
  BY DEF TypeOK, TurnsOK
<1>2. End(c, state)
  BY DEF GiveBack
<1>3. CASE owner[m] # c
  <2>1. tries' = tries
    BY <1>3 DEF GiveBack
  <2>2. TurnsOK'
    BY <1>2, LeaveType DEF End, TypeOK
  <2>3. JobsOK'
    BY <1>2, <1>3, <2>1 DEF End, JobsOK, TypeOK
  <2> QED
    BY <2>2, <2>3
<1>4. CASE owner[m] = c
  <2>1. tries' = [tries EXCEPT ![m] = tries[m] + 1]
    BY <1>4 DEF GiveBack
  <2>2. job[m] = "active"
    BY <1>1, <1>4, ActorsAssumption DEF TypeOK, JobsOK
  <2>3. tries[m] \in Nat /\ tries[m] < Attempts
    BY <1>1, <2>2 DEF TypeOK, JobsOK
  <2>4. tries' \in [Messages -> 0..Attempts]
    <3>1. tries[m] + 1 \in 0..Attempts
      BY <2>3, LimitsAssumption
    <3>2. tries \in [Messages -> 0..Attempts]
      BY DEF TypeOK, JobsOK
    <3> HIDE DEF m
    <3> QED
      BY <2>1, <3>1, <3>2
  <2>5. \A n \in Messages : tries'[n] = tries[n] \/ (n = m /\ owner[n] = c)
    <3>1. tries \in [Messages -> 0..Attempts]
      BY DEF TypeOK, JobsOK
    <3> HIDE DEF m
    <3> QED
      BY <1>4, <2>1, <3>1
  <2>6. state = "wait" => tries'[m] < Attempts
    BY <1>1, <2>1, <2>3 DEF TypeOK, JobsOK
  <2>7. state \in {"done", "wait", "failed"}
    OBVIOUS
  <2> HIDE DEF state
  <2> QED
    BY <1>2, <2>4, <2>5, <2>6, <2>7, EndType
<1> QED
  BY <1>3, <1>4

LEMMA StepType ==
  ASSUME TypeOK, NEW c \in Consumers, pc[c] # "idle", NEW step \in PC, Step(c, step)
  PROVE  JobsOK' /\ TurnsOK'
BY DEF TypeOK, JobsOK, TurnsOK, Step, Goto, jobVars, locals

LEMMA RowsType ==
  ASSUME TypeOK, NEW c \in Consumers, pc[c] # "idle", RowWrite(c) \/ UNCHANGED rowVars
  PROVE  RowsOK'
<1> USE DEF TypeOK, RowsOK
<1>1. msg[c] \in Messages
  BY DEF TurnsOK
<1>2. CASE RecordRow(c)
  BY <1>1, <1>2 DEF RecordRow
<1>3. CASE SuppressRow(c) \/ FlagRow(c)
  BY <1>3 DEF SuppressRow, FlagRow
<1>4. CASE AddReply(c)
  <2>1. answers[msg[c]] + 1 \in Nat
    BY <1>1
  <2>2. answers' \in [Messages -> Nat]
    BY <1>4, <2>1 DEF AddReply
  <2> QED
    BY <1>1, <1>4, <2>2 DEF AddReply
<1>5. CASE ReleaseRow(c)
  BY <1>5 DEF ReleaseRow
<1>6. CASE ConverseRow(c)
  BY <1>6 DEF ConverseRow
<1>7. CASE UNCHANGED rowVars
  BY <1>7 DEF rowVars
<1> QED
  BY <1>2, <1>3, <1>4, <1>5, <1>6, <1>7 DEF RowWrite

\* What the history variables gain are messages.
LEMMA PastType ==
  ASSUME TypeOK PROVE Past \subseteq Messages /\ \A c \in Consumers : pc[c] # "idle" => msg[c] \in Messages
BY DEF TypeOK, TurnsOK, Past, InTurn

LEMMA TypeStep == TypeOK /\ [Next]_vars => TypeOK'
<1> SUFFICES ASSUME TypeOK, [Next]_vars PROVE TypeOK'
  OBVIOUS
<1>1. ASSUME NEW m \in Messages, NEW i \in Intents, Publish(m, i) PROVE TypeOK'
  <2>1. JobsOK'
    BY <1>1, LimitsAssumption DEF Publish, Waits, TypeOK, JobsOK
  <2> QED
    BY <1>1, <2>1 DEF Publish, TypeOK, RowsOK, TurnsOK, PastOK, rowVars, turnVars, locals, pastVars
<1>2. ASSUME NEW m \in Messages, PublishAgain(m) PROVE TypeOK'
  <2>1. JobsOK'
    BY <1>2, LimitsAssumption DEF PublishAgain, Waits, TypeOK, JobsOK
  <2> QED
    BY <1>2, <2>1 DEF PublishAgain, TypeOK, RowsOK, TurnsOK, PastOK, rowVars, turnVars, locals, pastVars
<1>3. ASSUME NEW m \in Messages, Stall(m) PROVE TypeOK'
  <2>1. JobsOK'
    BY <1>3, LimitsAssumption DEF Stall, TypeOK, JobsOK
  <2> QED
    BY <1>3, <2>1 DEF Stall, Fault, TypeOK, RowsOK, TurnsOK, PastOK, rowVars, turnVars, locals, pastVars
<1>4. ASSUME NEW c \in Consumers, NEW m \in Messages, Take(c, m) PROVE TypeOK'
  <2>1. JobsOK'
    BY <1>4, ActorsAssumption DEF Take, TypeOK, JobsOK
  <2>2. TurnsOK'
    BY <1>4 DEF Take, TypeOK, TurnsOK, PC
  <2> QED
    BY <1>4, <2>1, <2>2 DEF Take, TypeOK, RowsOK, PastOK, rowVars, pastVars
<1>5. ASSUME NEW c \in Consumers, HandleInbound(c) \/ ProcessTurn(c) PROVE TypeOK'
  <2> USE DEF HandleInbound, ProcessTurn
  <2>1. pc[c] # "idle"
    BY <1>5 DEF CheckDup, CheckList, LoadConv, LoadHistory, Generate, Link, Record, RecordClash,
       Suppress, Flag, Close, MarkHandoff, Draft, Enqueue, Release, Activate, Converse, Plain,
       RecordRow, SuppressRow, FlagRow, AddReply, ReleaseRow, ConverseRow
  <2>2. RowsOK'
    <3>1. RowWrite(c) \/ UNCHANGED rowVars
      BY <1>5 DEF CheckDup, CheckList, LoadConv, LoadHistory, Generate, Link, Record, RecordClash,
         Suppress, Flag, Close, MarkHandoff, Draft, Enqueue, Release, Activate, Converse, Plain,
         RowWrite
    <3> QED
      BY <2>1, <3>1, RowsType
  <2>3. PastOK'
    BY <1>5, <2>1, PastType DEF CheckDup, CheckList, LoadConv, LoadHistory, Generate, Link, Record,
       RecordClash, Suppress, Flag, Close, MarkHandoff, Draft, Enqueue, Release, Activate, Converse,
       Plain, PastOK, TypeOK, pastVars
  <2>4. CASE LoadConv(c) \/ LoadHistory(c) \/ Link(c)
    <3>1. JobsOK'
      BY <2>4 DEF LoadConv, LoadHistory, Link, Goto, TypeOK, JobsOK, jobVars
    <3>2. TurnsOK'
      BY <2>1, <2>4 DEF LoadConv, LoadHistory, Link, Goto, TypeOK, TurnsOK, RowsOK, PC, InTurn
    <3> QED
      BY <2>2, <2>3, <3>1, <3>2 DEF TypeOK
  <2>5. CASE ~(LoadConv(c) \/ LoadHistory(c) \/ Link(c))
    <3>1. Done(c) \/ GiveBack(c) \/ \E step \in PC : Step(c, step)
      BY <1>5, <2>5 DEF CheckDup, CheckList, Generate, Record, RecordClash, Suppress, Flag, Close,
         MarkHandoff, Draft, Enqueue, Release, Activate, Converse, Plain, PC, InTurn, Recorded
    <3> QED
      BY <2>1, <2>2, <2>3, <3>1, DoneType, GiveBackType, StepType DEF TypeOK
  <2> QED
    BY <2>4, <2>5
<1>6. ASSUME NEW c \in Consumers, Throw(c) PROVE TypeOK'
  <2>1. pc[c] # "idle" /\ (RowWrite(c) \/ UNCHANGED rowVars) /\ GiveBack(c)
    BY <1>6 DEF Throw
  <2>2. PastOK'
    BY <1>6, <2>1, PastType DEF Throw, Fault, PastOK, TypeOK
  <2> QED
    BY <2>1, <2>2, RowsType, GiveBackType DEF TypeOK
<1>7. ASSUME Crash PROVE TypeOK'
  <2>1. JobsOK'
    BY <1>7, LimitsAssumption DEF Crash, TypeOK, JobsOK
  <2>2. TurnsOK'
    BY <1>7 DEF Crash, TypeOK, TurnsOK, PC
  <2>3. PastOK'
    BY <1>7, PastType DEF Crash, Fault, TypeOK, PastOK, Recorded
  <2> QED
    BY <1>7, <2>1, <2>2, <2>3 DEF Crash, TypeOK, RowsOK, rowVars
<1>8. ASSUME UNCHANGED vars PROVE TypeOK'
  BY <1>8 DEF vars, jobVars, rowVars, turnVars, locals, pastVars, TypeOK, JobsOK, RowsOK, TurnsOK, PastOK
<1> QED
  BY <1>1, <1>2, <1>3, <1>4, <1>5, <1>6, <1>7, <1>8 DEF Next, Consume

\* Every step leaves the rows, the jobs and the turns well-formed
\* (conversation.service.ts:105-525).
THEOREM TypeCorrect == Spec => []TypeOK
<1>1. Init => TypeOK
  BY TypeInit
<1>2. TypeOK /\ [Next]_vars => TypeOK'
  BY TypeStep
<1> QED
  BY <1>1, <1>2, PTL DEF Spec

-----------------------------------------------------------------------------
(* The inductive invariants.                                                 *)

\* A message that was not published has no job, no row and no turn.
Published ==
  /\ \A m \in Messages : intent[m] = "none" => job[m] = "none" /\ m \notin recorded
  /\ \A c \in Consumers : pc[c] # "idle" => intent[msg[c]] # "none"

\* One turn at most wrote the row of a message, and only it may answer.
AnswerInv ==
  /\ \A m \in Messages : answers[m] <= 1 /\ (m \notin recorded => answers[m] = 0)
  /\ \A c \in Consumers : pc[c] \in Recorded => msg[c] \in recorded
  /\ \A c, d \in Consumers :
        pc[c] \in Recorded /\ pc[d] \in Recorded /\ msg[c] = msg[d] => c = d
  /\ \A c \in Consumers : pc[c] \in {"handoff", "draft", "enqueue"} => answers[msg[c]] = 0

\* What was read of the history is there still, and the row of the message came on top.
GateInv ==
  /\ linked # {} => Cardinality(recorded) >= MinTurns
  /\ \A c \in Consumers :
        /\ heard[c] \subseteq recorded
        /\ link[c] => pc[c] \in {"record", "draft", "enqueue", "release", "converse"}
        /\ pc[c] = "link" \/ link[c] => /\ intent[msg[c]] = "buy" /\ ~sent[c]
                                        /\ Cardinality(heard[c]) + 1 >= MinTurns
        /\ link[c] /\ pc[c] \in {"draft", "enqueue"} => Cardinality(recorded) >= MinTurns

\* An opt-out whose row is there is on its way, or has landed.
OptOutInv ==
  /\ \A m \in (Messages \cap recorded) \ cut : intent[m] = "optout" =>
        \/ suppression /\ leadStatus = "SUPPRESSED"
        \/ \E c \in Consumers : msg[c] = m /\ pc[c] \in {"suppress", "flag", "close"}
  /\ \A c \in Consumers :
        /\ pc[c] \in {"flag", "close"} => suppression
        /\ pc[c] = "close" => leadStatus = "SUPPRESSED"

\* Of two turns under way one is crossed; a turn that is not, and read no linkSent, knows
\* of no other link; and a link with linkSent unwritten has its turn at that write.
LinkInv ==
  /\ \A c, d \in Consumers :
        c # d /\ pc[c] \in InTurn /\ pc[d] \in InTurn => msg[c] \in crossed \/ msg[d] \in crossed
  /\ \A c \in Consumers :
        pc[c] \in InTurn /\ ~sent[c] /\ msg[c] \notin crossed => linked \ crossed \subseteq {msg[c]}
  /\ ~linkSent => \A m \in linked \ crossed : \E c \in Consumers : pc[c] = "release" /\ msg[c] = m
  /\ \A c \in Consumers : pc[c] = "release" => link[c]

\* Who is past the list once it holds the phone was past it by then.
QuietInv ==
  suppression => \A c \in Consumers : pc[c] \in {"load"} \cup InTurn => msg[c] \in before

-----------------------------------------------------------------------------
(* The steps keep them.                                                      *)

LEMMA PublishedStep == TypeOK /\ TypeOK' /\ Published /\ [Next]_vars => Published'
<1> SUFFICES ASSUME TypeOK, TypeOK', Published, [Next]_vars PROVE Published'
  OBVIOUS
<1> USE ActorsAssumption, IntentsAssumption DEF TypeOK, TurnsOK, RowsOK, Published, JobsOK,
      Step, Goto, Done, End, Leave, GiveBack, rowVars, jobVars, locals, pastVars
<1>1. ASSUME NEW m \in Messages, (\E i \in Intents : Publish(m, i)) \/ PublishAgain(m) \/ Stall(m) PROVE Published'
  BY <1>1 DEF Publish, PublishAgain, Stall, Waits, JobsOK, turnVars
<1>2. ASSUME NEW c \in Consumers, NEW m \in Messages, Take(c, m) PROVE Published'
  BY <1>2 DEF Take, JobsOK
<1>3. ASSUME NEW c \in Consumers, CheckDup(c) PROVE Published'
  BY <1>3 DEF CheckDup
<1>4. ASSUME NEW c \in Consumers, CheckList(c) PROVE Published'
  BY <1>4 DEF CheckList
<1>5. ASSUME NEW c \in Consumers, LoadConv(c) PROVE Published'
  BY <1>5 DEF LoadConv
<1>6. ASSUME NEW c \in Consumers, LoadHistory(c) PROVE Published'
  BY <1>6 DEF LoadHistory
<1>7. ASSUME NEW c \in Consumers, Generate(c) PROVE Published'
  BY <1>7 DEF Generate, LinkAllowed
<1>8. ASSUME NEW c \in Consumers, Link(c) PROVE Published'
  BY <1>8 DEF Link
<1>9. ASSUME NEW c \in Consumers, Record(c) PROVE Published'
  BY <1>9 DEF Record, RecordRow
<1>10. ASSUME NEW c \in Consumers, RecordClash(c) PROVE Published'
  BY <1>10 DEF RecordClash
<1>11. ASSUME NEW c \in Consumers, Suppress(c) PROVE Published'
  BY <1>11 DEF Suppress, SuppressRow
<1>12. ASSUME NEW c \in Consumers, Flag(c) PROVE Published'
  BY <1>12 DEF Flag, FlagRow
<1>13. ASSUME NEW c \in Consumers, Close(c) PROVE Published'
  BY <1>13 DEF Close
<1>14. ASSUME NEW c \in Consumers, MarkHandoff(c) PROVE Published'
  BY <1>14 DEF MarkHandoff, Plain
<1>15. ASSUME NEW c \in Consumers, Draft(c) PROVE Published'
  BY <1>15 DEF Draft, Plain
<1>16. ASSUME NEW c \in Consumers, Enqueue(c) PROVE Published'
  BY <1>16 DEF Enqueue, AddReply
<1>17. ASSUME NEW c \in Consumers, Release(c) PROVE Published'
  BY <1>17 DEF Release, ReleaseRow
<1>18. ASSUME NEW c \in Consumers, Activate(c) PROVE Published'
  BY <1>18 DEF Activate, Plain
<1>19. ASSUME NEW c \in Consumers, Converse(c) PROVE Published'
  BY <1>19 DEF Converse, ConverseRow
<1>20. ASSUME NEW c \in Consumers, Throw(c) PROVE Published'
  BY <1>20 DEF Throw, RowWrite, RecordRow, SuppressRow, FlagRow, AddReply, ReleaseRow, ConverseRow
<1>21. ASSUME Crash PROVE Published'
  BY <1>21 DEF Crash, JobsOK
<1>22. ASSUME UNCHANGED vars PROVE Published'
  BY <1>22 DEF vars, turnVars
<1> QED
  BY <1>1, <1>2, <1>3, <1>4, <1>5, <1>6, <1>7, <1>8, <1>9, <1>10, <1>11, <1>12, <1>13, <1>14,
     <1>15, <1>16, <1>17, <1>18, <1>19, <1>20, <1>21, <1>22
     DEF Next, Consume, HandleInbound, ProcessTurn

LEMMA AnswerStep == TypeOK /\ TypeOK' /\ Published /\ AnswerInv /\ [Next]_vars => AnswerInv'
<1> SUFFICES ASSUME TypeOK, TypeOK', Published, AnswerInv, [Next]_vars PROVE AnswerInv'
  OBVIOUS
<1> USE ActorsAssumption, IntentsAssumption DEF TypeOK, TurnsOK, RowsOK, Published, AnswerInv, Recorded,
      Step, Goto, Done, End, Leave, GiveBack, rowVars, jobVars, locals, pastVars
<1>1. ASSUME NEW m \in Messages, (\E i \in Intents : Publish(m, i)) \/ PublishAgain(m) \/ Stall(m) PROVE AnswerInv'
  BY <1>1 DEF Publish, PublishAgain, Stall, Waits, JobsOK, turnVars
<1>2. ASSUME NEW c \in Consumers, NEW m \in Messages, Take(c, m) PROVE AnswerInv'
  BY <1>2 DEF Take, JobsOK
<1>3. ASSUME NEW c \in Consumers, CheckDup(c) PROVE AnswerInv'
  BY <1>3 DEF CheckDup
<1>4. ASSUME NEW c \in Consumers, CheckList(c) PROVE AnswerInv'
  BY <1>4 DEF CheckList
<1>5. ASSUME NEW c \in Consumers, LoadConv(c) PROVE AnswerInv'
  BY <1>5 DEF LoadConv
<1>6. ASSUME NEW c \in Consumers, LoadHistory(c) PROVE AnswerInv'
  BY <1>6 DEF LoadHistory
<1>7. ASSUME NEW c \in Consumers, Generate(c) PROVE AnswerInv'
  BY <1>7 DEF Generate, LinkAllowed
<1>8. ASSUME NEW c \in Consumers, Link(c) PROVE AnswerInv'
  BY <1>8 DEF Link
<1>9. ASSUME NEW c \in Consumers, Record(c) PROVE AnswerInv'
  BY <1>9 DEF Record, RecordRow
<1>10. ASSUME NEW c \in Consumers, RecordClash(c) PROVE AnswerInv'
  BY <1>10 DEF RecordClash
<1>11. ASSUME NEW c \in Consumers, Suppress(c) PROVE AnswerInv'
  BY <1>11 DEF Suppress, SuppressRow
<1>12. ASSUME NEW c \in Consumers, Flag(c) PROVE AnswerInv'
  BY <1>12 DEF Flag, FlagRow
<1>13. ASSUME NEW c \in Consumers, Close(c) PROVE AnswerInv'
  BY <1>13 DEF Close
<1>14. ASSUME NEW c \in Consumers, MarkHandoff(c) PROVE AnswerInv'
  BY <1>14 DEF MarkHandoff, Plain
<1>15. ASSUME NEW c \in Consumers, Draft(c) PROVE AnswerInv'
  BY <1>15 DEF Draft, Plain
<1>16. ASSUME NEW c \in Consumers, Enqueue(c) PROVE AnswerInv'
  BY <1>16 DEF Enqueue, AddReply
<1>17. ASSUME NEW c \in Consumers, Release(c) PROVE AnswerInv'
  BY <1>17 DEF Release, ReleaseRow
<1>18. ASSUME NEW c \in Consumers, Activate(c) PROVE AnswerInv'
  BY <1>18 DEF Activate, Plain
<1>19. ASSUME NEW c \in Consumers, Converse(c) PROVE AnswerInv'
  BY <1>19 DEF Converse, ConverseRow
<1>20. ASSUME NEW c \in Consumers, Throw(c) PROVE AnswerInv'
  BY <1>20 DEF Throw, RowWrite, RecordRow, SuppressRow, FlagRow, AddReply, ReleaseRow, ConverseRow
<1>21. ASSUME Crash PROVE AnswerInv'
  BY <1>21 DEF Crash, JobsOK
<1>22. ASSUME UNCHANGED vars PROVE AnswerInv'
  BY <1>22 DEF vars, turnVars
<1> QED
  BY <1>1, <1>2, <1>3, <1>4, <1>5, <1>6, <1>7, <1>8, <1>9, <1>10, <1>11, <1>12, <1>13, <1>14,
     <1>15, <1>16, <1>17, <1>18, <1>19, <1>20, <1>21, <1>22
     DEF Next, Consume, HandleInbound, ProcessTurn

\* Finite sets of rows: they grow, and by one when a row is written.
LEMMA RowsCount ==
  ASSUME TypeOK PROVE
    /\ IsFiniteSet(recorded) /\ Cardinality(recorded) \in Nat
    /\ \A old \in SUBSET recorded : Cardinality(old) \in Nat /\ Cardinality(old) <= Cardinality(recorded)
    /\ \A m \in Messages \ recorded : Cardinality(recorded \cup {m}) = Cardinality(recorded) + 1
<1>1. IsFiniteSet(Messages \cup Earlier)
  BY ActorsAssumption, FS_Union
<1>2. IsFiniteSet(recorded)
  BY <1>1, FS_Subset DEF TypeOK, RowsOK
<1> QED
  BY <1>2, FS_Subset, FS_AddElement, FS_CardinalityType

LEMMA GateStep == TypeOK /\ TypeOK' /\ Published /\ GateInv /\ [Next]_vars => GateInv'
<1> SUFFICES ASSUME TypeOK, TypeOK', Published, GateInv, [Next]_vars PROVE GateInv'
  OBVIOUS
<1> USE ActorsAssumption, IntentsAssumption DEF TypeOK, TurnsOK, RowsOK, Published, GateInv,
      Step, Goto, Done, End, Leave, GiveBack, rowVars, jobVars, locals, pastVars
<1>1. ASSUME NEW m \in Messages, (\E i \in Intents : Publish(m, i)) \/ PublishAgain(m) \/ Stall(m) PROVE GateInv'
  BY <1>1 DEF Publish, PublishAgain, Stall, Waits, JobsOK, turnVars
<1>2. ASSUME NEW c \in Consumers, NEW m \in Messages, Take(c, m) PROVE GateInv'
  BY <1>2 DEF Take, JobsOK
<1>3. ASSUME NEW c \in Consumers, CheckDup(c) PROVE GateInv'
  BY <1>3 DEF CheckDup
<1>4. ASSUME NEW c \in Consumers, CheckList(c) PROVE GateInv'
  BY <1>4 DEF CheckList
<1>5. ASSUME NEW c \in Consumers, LoadConv(c) PROVE GateInv'
  BY <1>5 DEF LoadConv
<1>6. ASSUME NEW c \in Consumers, LoadHistory(c) PROVE GateInv'
  BY <1>6 DEF LoadHistory
<1>7. ASSUME NEW c \in Consumers, Generate(c) PROVE GateInv'
  BY <1>7 DEF Generate, LinkAllowed
<1>8. ASSUME NEW c \in Consumers, Link(c) PROVE GateInv'
  BY <1>8 DEF Link
<1>9. ASSUME NEW c \in Consumers, Record(c) PROVE GateInv'
  <2>1. msg[c] \in Messages \ recorded /\ recorded' = recorded \cup {msg[c]}
    BY <1>9 DEF Record, RecordRow
  <2>2. Cardinality(recorded') = Cardinality(recorded) + 1 /\ Cardinality(recorded) \in Nat
    BY <2>1, RowsCount
  <2>3. Cardinality(heard[c]) \in Nat /\ Cardinality(heard[c]) <= Cardinality(recorded)
    BY RowsCount
  <2>4. link[c] => Cardinality(recorded') >= MinTurns
    BY <2>2, <2>3, LimitsAssumption
  <2>5. Cardinality(recorded) >= MinTurns => Cardinality(recorded') >= MinTurns
    BY <2>2, LimitsAssumption
  <2> QED
    BY <1>9, <2>1, <2>4, <2>5 DEF Record, RecordRow
<1>10. ASSUME NEW c \in Consumers, RecordClash(c) PROVE GateInv'
  BY <1>10 DEF RecordClash
<1>11. ASSUME NEW c \in Consumers, Suppress(c) PROVE GateInv'
  BY <1>11 DEF Suppress, SuppressRow
<1>12. ASSUME NEW c \in Consumers, Flag(c) PROVE GateInv'
  BY <1>12 DEF Flag, FlagRow
<1>13. ASSUME NEW c \in Consumers, Close(c) PROVE GateInv'
  BY <1>13 DEF Close
<1>14. ASSUME NEW c \in Consumers, MarkHandoff(c) PROVE GateInv'
  BY <1>14 DEF MarkHandoff, Plain
<1>15. ASSUME NEW c \in Consumers, Draft(c) PROVE GateInv'
  BY <1>15 DEF Draft, Plain
<1>16. ASSUME NEW c \in Consumers, Enqueue(c) PROVE GateInv'
  BY <1>16 DEF Enqueue, AddReply
<1>17. ASSUME NEW c \in Consumers, Release(c) PROVE GateInv'
  BY <1>17 DEF Release, ReleaseRow
<1>18. ASSUME NEW c \in Consumers, Activate(c) PROVE GateInv'
  BY <1>18 DEF Activate, Plain
<1>19. ASSUME NEW c \in Consumers, Converse(c) PROVE GateInv'
  BY <1>19 DEF Converse, ConverseRow
<1>20. ASSUME NEW c \in Consumers, Throw(c) PROVE GateInv'
  <2>1. msg[c] \in Messages /\ pc[c] # "idle"
    BY <1>20 DEF Throw
  <2>2. recorded' = recorded \/ (msg[c] \notin recorded /\ recorded' = recorded \cup {msg[c]})
    BY <1>20 DEF Throw, RowWrite, RecordRow, SuppressRow, FlagRow, AddReply, ReleaseRow, ConverseRow
  <2>3. recorded \subseteq recorded'
    BY <2>2
  <2>4. Cardinality(recorded) >= MinTurns => Cardinality(recorded') >= MinTurns
    BY <2>1, <2>2, RowsCount, LimitsAssumption
  <2>5. linked' = linked \/ (link[c] /\ pc[c] = "enqueue")
    BY <1>20 DEF Throw, RowWrite, RecordRow, SuppressRow, FlagRow, AddReply, ReleaseRow, ConverseRow
  <2>6. \A d \in Consumers \ {c} : /\ pc'[d] = pc[d] /\ msg'[d] = msg[d] /\ sent'[d] = sent[d]
                                /\ heard'[d] = heard[d] /\ link'[d] = link[d]
    BY <1>20 DEF Throw
  <2>7. pc'[c] = "idle" /\ ~link'[c] /\ heard'[c] = {}
    BY <1>20 DEF Throw
  <2>8. intent' = intent
    BY <1>20 DEF Throw
  <2> QED
    BY <2>3, <2>4, <2>5, <2>6, <2>7, <2>8
<1>21. ASSUME Crash PROVE GateInv'
  BY <1>21 DEF Crash, JobsOK
<1>22. ASSUME UNCHANGED vars PROVE GateInv'
  BY <1>22 DEF vars, turnVars
<1> QED
  BY <1>1, <1>2, <1>3, <1>4, <1>5, <1>6, <1>7, <1>8, <1>9, <1>10, <1>11, <1>12, <1>13, <1>14,
     <1>15, <1>16, <1>17, <1>18, <1>19, <1>20, <1>21, <1>22
     DEF Next, Consume, HandleInbound, ProcessTurn

LEMMA OptOutStep == TypeOK /\ TypeOK' /\ Published /\ OptOutInv /\ [Next]_vars => OptOutInv'
<1> SUFFICES ASSUME TypeOK, TypeOK', Published, OptOutInv, [Next]_vars PROVE OptOutInv'
  OBVIOUS
<1> USE ActorsAssumption, IntentsAssumption DEF TypeOK, TurnsOK, RowsOK, Published, OptOutInv, Recorded,
      Step, Goto, Done, End, Leave, GiveBack, rowVars, jobVars, locals, pastVars
<1>1. ASSUME NEW m \in Messages, (\E i \in Intents : Publish(m, i)) \/ PublishAgain(m) \/ Stall(m) PROVE OptOutInv'
  BY <1>1 DEF Publish, PublishAgain, Stall, Waits, JobsOK, turnVars
<1>2. ASSUME NEW c \in Consumers, NEW m \in Messages, Take(c, m) PROVE OptOutInv'
  BY <1>2 DEF Take, JobsOK
<1>3. ASSUME NEW c \in Consumers, CheckDup(c) PROVE OptOutInv'
  BY <1>3 DEF CheckDup
<1>4. ASSUME NEW c \in Consumers, CheckList(c) PROVE OptOutInv'
  BY <1>4 DEF CheckList
<1>5. ASSUME NEW c \in Consumers, LoadConv(c) PROVE OptOutInv'
  BY <1>5 DEF LoadConv
<1>6. ASSUME NEW c \in Consumers, LoadHistory(c) PROVE OptOutInv'
  BY <1>6 DEF LoadHistory
<1>7. ASSUME NEW c \in Consumers, Generate(c) PROVE OptOutInv'
  BY <1>7 DEF Generate, LinkAllowed
<1>8. ASSUME NEW c \in Consumers, Link(c) PROVE OptOutInv'
  BY <1>8 DEF Link
<1>9. ASSUME NEW c \in Consumers, Record(c) PROVE OptOutInv'
  BY <1>9 DEF Record, RecordRow
<1>10. ASSUME NEW c \in Consumers, RecordClash(c) PROVE OptOutInv'
  BY <1>10 DEF RecordClash
<1>11. ASSUME NEW c \in Consumers, Suppress(c) PROVE OptOutInv'
  BY <1>11 DEF Suppress, SuppressRow
<1>12. ASSUME NEW c \in Consumers, Flag(c) PROVE OptOutInv'
  BY <1>12 DEF Flag, FlagRow
<1>13. ASSUME NEW c \in Consumers, Close(c) PROVE OptOutInv'
  BY <1>13 DEF Close
<1>14. ASSUME NEW c \in Consumers, MarkHandoff(c) PROVE OptOutInv'
  BY <1>14 DEF MarkHandoff, Plain
<1>15. ASSUME NEW c \in Consumers, Draft(c) PROVE OptOutInv'
  BY <1>15 DEF Draft, Plain
<1>16. ASSUME NEW c \in Consumers, Enqueue(c) PROVE OptOutInv'
  BY <1>16 DEF Enqueue, AddReply
<1>17. ASSUME NEW c \in Consumers, Release(c) PROVE OptOutInv'
  BY <1>17 DEF Release, ReleaseRow
<1>18. ASSUME NEW c \in Consumers, Activate(c) PROVE OptOutInv'
  BY <1>18 DEF Activate, Plain
<1>19. ASSUME NEW c \in Consumers, Converse(c) PROVE OptOutInv'
  BY <1>19 DEF Converse, ConverseRow
<1>20. ASSUME NEW c \in Consumers, Throw(c) PROVE OptOutInv'
  BY <1>20 DEF Throw, RowWrite, RecordRow, SuppressRow, FlagRow, AddReply, ReleaseRow, ConverseRow
<1>21. ASSUME Crash PROVE OptOutInv'
  BY <1>21 DEF Crash, JobsOK
<1>22. ASSUME UNCHANGED vars PROVE OptOutInv'
  BY <1>22 DEF vars, turnVars
<1> QED
  BY <1>1, <1>2, <1>3, <1>4, <1>5, <1>6, <1>7, <1>8, <1>9, <1>10, <1>11, <1>12, <1>13, <1>14,
     <1>15, <1>16, <1>17, <1>18, <1>19, <1>20, <1>21, <1>22
     DEF Next, Consume, HandleInbound, ProcessTurn

LEMMA LinkStep == TypeOK /\ TypeOK' /\ Published /\ GateInv /\ LinkInv /\ [Next]_vars => LinkInv'
<1> SUFFICES ASSUME TypeOK, TypeOK', Published, GateInv, LinkInv, [Next]_vars PROVE LinkInv'
  OBVIOUS
<1> USE ActorsAssumption, IntentsAssumption DEF TypeOK, TurnsOK, RowsOK, Published, GateInv, LinkInv, InTurn,
      Step, Goto, Done, End, Leave, GiveBack, rowVars, jobVars, locals, pastVars
<1>1. ASSUME NEW m \in Messages, (\E i \in Intents : Publish(m, i)) \/ PublishAgain(m) \/ Stall(m) PROVE LinkInv'
  BY <1>1 DEF Publish, PublishAgain, Stall, Waits, JobsOK, turnVars
<1>2. ASSUME NEW c \in Consumers, NEW m \in Messages, Take(c, m) PROVE LinkInv'
  BY <1>2 DEF Take, JobsOK
<1>3. ASSUME NEW c \in Consumers, CheckDup(c) PROVE LinkInv'
  BY <1>3 DEF CheckDup
<1>4. ASSUME NEW c \in Consumers, CheckList(c) PROVE LinkInv'
  BY <1>4 DEF CheckList
<1>5. ASSUME NEW c \in Consumers, LoadConv(c) PROVE LinkInv'
  BY <1>5 DEF LoadConv
<1>6. ASSUME NEW c \in Consumers, LoadHistory(c) PROVE LinkInv'
  BY <1>6 DEF LoadHistory
<1>7. ASSUME NEW c \in Consumers, Generate(c) PROVE LinkInv'
  BY <1>7 DEF Generate, LinkAllowed
<1>8. ASSUME NEW c \in Consumers, Link(c) PROVE LinkInv'
  BY <1>8 DEF Link
<1>9. ASSUME NEW c \in Consumers, Record(c) PROVE LinkInv'
  BY <1>9 DEF Record, RecordRow
<1>10. ASSUME NEW c \in Consumers, RecordClash(c) PROVE LinkInv'
  BY <1>10 DEF RecordClash
<1>11. ASSUME NEW c \in Consumers, Suppress(c) PROVE LinkInv'
  BY <1>11 DEF Suppress, SuppressRow
<1>12. ASSUME NEW c \in Consumers, Flag(c) PROVE LinkInv'
  BY <1>12 DEF Flag, FlagRow
<1>13. ASSUME NEW c \in Consumers, Close(c) PROVE LinkInv'
  BY <1>13 DEF Close
<1>14. ASSUME NEW c \in Consumers, MarkHandoff(c) PROVE LinkInv'
  BY <1>14 DEF MarkHandoff, Plain
<1>15. ASSUME NEW c \in Consumers, Draft(c) PROVE LinkInv'
  BY <1>15 DEF Draft, Plain
<1>16. ASSUME NEW c \in Consumers, Enqueue(c) PROVE LinkInv'
  BY <1>16 DEF Enqueue, AddReply
<1>17. ASSUME NEW c \in Consumers, Release(c) PROVE LinkInv'
  BY <1>17 DEF Release, ReleaseRow
<1>18. ASSUME NEW c \in Consumers, Activate(c) PROVE LinkInv'
  BY <1>18 DEF Activate, Plain
<1>19. ASSUME NEW c \in Consumers, Converse(c) PROVE LinkInv'
  BY <1>19 DEF Converse, ConverseRow
<1>20. ASSUME NEW c \in Consumers, Throw(c) PROVE LinkInv'
  BY <1>20 DEF Throw, RowWrite, RecordRow, SuppressRow, FlagRow, AddReply, ReleaseRow, ConverseRow
<1>21. ASSUME Crash PROVE LinkInv'
  BY <1>21 DEF Crash, JobsOK
<1>22. ASSUME UNCHANGED vars PROVE LinkInv'
  BY <1>22 DEF vars, turnVars
<1> QED
  BY <1>1, <1>2, <1>3, <1>4, <1>5, <1>6, <1>7, <1>8, <1>9, <1>10, <1>11, <1>12, <1>13, <1>14,
     <1>15, <1>16, <1>17, <1>18, <1>19, <1>20, <1>21, <1>22
     DEF Next, Consume, HandleInbound, ProcessTurn

LEMMA OnceStep == TypeOK /\ TypeOK' /\ GateInv /\ LinkInv /\ LinkOnce /\ [Next]_vars => LinkOnce'
<1> SUFFICES ASSUME TypeOK, TypeOK', GateInv, LinkInv, LinkOnce, [Next]_vars PROVE LinkOnce'
  OBVIOUS
<1> USE ActorsAssumption, IntentsAssumption DEF TypeOK, TurnsOK, RowsOK, GateInv, LinkInv, LinkOnce, InTurn,
      Step, Goto, Done, End, Leave, GiveBack, rowVars, jobVars, locals, pastVars
<1>1. ASSUME NEW m \in Messages, (\E i \in Intents : Publish(m, i)) \/ PublishAgain(m) \/ Stall(m) PROVE LinkOnce'
  BY <1>1 DEF Publish, PublishAgain, Stall, Waits, JobsOK, turnVars
<1>2. ASSUME NEW c \in Consumers, NEW m \in Messages, Take(c, m) PROVE LinkOnce'
  BY <1>2 DEF Take, JobsOK
<1>3. ASSUME NEW c \in Consumers, CheckDup(c) PROVE LinkOnce'
  BY <1>3 DEF CheckDup
<1>4. ASSUME NEW c \in Consumers, CheckList(c) PROVE LinkOnce'
  BY <1>4 DEF CheckList
<1>5. ASSUME NEW c \in Consumers, LoadConv(c) PROVE LinkOnce'
  BY <1>5 DEF LoadConv
<1>6. ASSUME NEW c \in Consumers, LoadHistory(c) PROVE LinkOnce'
  BY <1>6 DEF LoadHistory
<1>7. ASSUME NEW c \in Consumers, Generate(c) PROVE LinkOnce'
  BY <1>7 DEF Generate, LinkAllowed
<1>8. ASSUME NEW c \in Consumers, Link(c) PROVE LinkOnce'
  BY <1>8 DEF Link
<1>9. ASSUME NEW c \in Consumers, Record(c) PROVE LinkOnce'
  BY <1>9 DEF Record, RecordRow
<1>10. ASSUME NEW c \in Consumers, RecordClash(c) PROVE LinkOnce'
  BY <1>10 DEF RecordClash
<1>11. ASSUME NEW c \in Consumers, Suppress(c) PROVE LinkOnce'
  BY <1>11 DEF Suppress, SuppressRow
<1>12. ASSUME NEW c \in Consumers, Flag(c) PROVE LinkOnce'
  BY <1>12 DEF Flag, FlagRow
<1>13. ASSUME NEW c \in Consumers, Close(c) PROVE LinkOnce'
  BY <1>13 DEF Close
<1>14. ASSUME NEW c \in Consumers, MarkHandoff(c) PROVE LinkOnce'
  BY <1>14 DEF MarkHandoff, Plain
<1>15. ASSUME NEW c \in Consumers, Draft(c) PROVE LinkOnce'
  BY <1>15 DEF Draft, Plain
<1>16. ASSUME NEW c \in Consumers, Enqueue(c) PROVE LinkOnce'
  BY <1>16 DEF Enqueue, AddReply
<1>17. ASSUME NEW c \in Consumers, Release(c) PROVE LinkOnce'
  BY <1>17 DEF Release, ReleaseRow
<1>18. ASSUME NEW c \in Consumers, Activate(c) PROVE LinkOnce'
  BY <1>18 DEF Activate, Plain
<1>19. ASSUME NEW c \in Consumers, Converse(c) PROVE LinkOnce'
  BY <1>19 DEF Converse, ConverseRow
<1>20. ASSUME NEW c \in Consumers, Throw(c) PROVE LinkOnce'
  BY <1>20 DEF Throw, RowWrite, RecordRow, SuppressRow, FlagRow, AddReply, ReleaseRow, ConverseRow
<1>21. ASSUME Crash PROVE LinkOnce'
  BY <1>21 DEF Crash, JobsOK
<1>22. ASSUME UNCHANGED vars PROVE LinkOnce'
  BY <1>22 DEF vars, turnVars
<1> QED
  BY <1>1, <1>2, <1>3, <1>4, <1>5, <1>6, <1>7, <1>8, <1>9, <1>10, <1>11, <1>12, <1>13, <1>14,
     <1>15, <1>16, <1>17, <1>18, <1>19, <1>20, <1>21, <1>22
     DEF Next, Consume, HandleInbound, ProcessTurn

LEMMA QuietStep == TypeOK /\ TypeOK' /\ QuietInv /\ [Next]_vars => QuietInv'
<1> SUFFICES ASSUME TypeOK, TypeOK', QuietInv, [Next]_vars PROVE QuietInv'
  OBVIOUS
<1> USE ActorsAssumption, IntentsAssumption DEF TypeOK, TurnsOK, RowsOK, QuietInv, InTurn,
      Step, Goto, Done, End, Leave, GiveBack, rowVars, jobVars, locals, pastVars
<1>1. ASSUME NEW m \in Messages, (\E i \in Intents : Publish(m, i)) \/ PublishAgain(m) \/ Stall(m) PROVE QuietInv'
  <2>1. UNCHANGED <<suppression, before, pc, msg>>
    BY <1>1 DEF Publish, PublishAgain, Stall, turnVars
  <2> QED
    BY <2>1
<1>2. ASSUME NEW c \in Consumers, NEW m \in Messages, Take(c, m) PROVE QuietInv'
  BY <1>2 DEF Take, JobsOK
<1>3. ASSUME NEW c \in Consumers, CheckDup(c) PROVE QuietInv'
  BY <1>3 DEF CheckDup
<1>4. ASSUME NEW c \in Consumers, CheckList(c) PROVE QuietInv'
  BY <1>4 DEF CheckList
<1>5. ASSUME NEW c \in Consumers, LoadConv(c) PROVE QuietInv'
  BY <1>5 DEF LoadConv
<1>6. ASSUME NEW c \in Consumers, LoadHistory(c) PROVE QuietInv'
  BY <1>6 DEF LoadHistory
<1>7. ASSUME NEW c \in Consumers, Generate(c) PROVE QuietInv'
  BY <1>7 DEF Generate, LinkAllowed
<1>8. ASSUME NEW c \in Consumers, Link(c) PROVE QuietInv'
  BY <1>8 DEF Link
<1>9. ASSUME NEW c \in Consumers, Record(c) PROVE QuietInv'
  BY <1>9 DEF Record, RecordRow
<1>10. ASSUME NEW c \in Consumers, RecordClash(c) PROVE QuietInv'
  BY <1>10 DEF RecordClash
<1>11. ASSUME NEW c \in Consumers, Suppress(c) PROVE QuietInv'
  BY <1>11 DEF Suppress, SuppressRow, Past
<1>12. ASSUME NEW c \in Consumers, Flag(c) PROVE QuietInv'
  BY <1>12 DEF Flag, FlagRow
<1>13. ASSUME NEW c \in Consumers, Close(c) PROVE QuietInv'
  BY <1>13 DEF Close
<1>14. ASSUME NEW c \in Consumers, MarkHandoff(c) PROVE QuietInv'
  BY <1>14 DEF MarkHandoff, Plain
<1>15. ASSUME NEW c \in Consumers, Draft(c) PROVE QuietInv'
  BY <1>15 DEF Draft, Plain
<1>16. ASSUME NEW c \in Consumers, Enqueue(c) PROVE QuietInv'
  BY <1>16 DEF Enqueue, AddReply
<1>17. ASSUME NEW c \in Consumers, Release(c) PROVE QuietInv'
  BY <1>17 DEF Release, ReleaseRow
<1>18. ASSUME NEW c \in Consumers, Activate(c) PROVE QuietInv'
  BY <1>18 DEF Activate, Plain
<1>19. ASSUME NEW c \in Consumers, Converse(c) PROVE QuietInv'
  BY <1>19 DEF Converse, ConverseRow
<1>20. ASSUME NEW c \in Consumers, Throw(c) PROVE QuietInv'
  <2>1. \A d \in Consumers \ {c} : pc'[d] = pc[d] /\ msg'[d] = msg[d]
    BY <1>20 DEF Throw
  <2>2. pc'[c] = "idle"
    BY <1>20 DEF Throw
  <2>3. CASE suppression' = suppression
    <3>1. before' = before
      BY <1>20, <2>3 DEF Throw
    <3> QED
      BY <2>1, <2>2, <2>3, <3>1
  <2>4. CASE suppression' # suppression
    <3>1. before' = Past
      BY <1>20, <2>4 DEF Throw
    <3> QED
      BY <2>1, <2>2, <3>1 DEF Past
  <2> QED
    BY <2>3, <2>4
<1>21. ASSUME Crash PROVE QuietInv'
  BY <1>21 DEF Crash, JobsOK
<1>22. ASSUME UNCHANGED vars PROVE QuietInv'
  BY <1>22 DEF vars, turnVars
<1> QED
  BY <1>1, <1>2, <1>3, <1>4, <1>5, <1>6, <1>7, <1>8, <1>9, <1>10, <1>11, <1>12, <1>13, <1>14,
     <1>15, <1>16, <1>17, <1>18, <1>19, <1>20, <1>21, <1>22
     DEF Next, Consume, HandleInbound, ProcessTurn

-----------------------------------------------------------------------------
(* The theorems.                                                             *)

LEMMA InvInit ==
  Init => Published /\ AnswerInv /\ GateInv /\ OptOutInv /\ LinkInv /\ LinkOnce /\ QuietInv
BY ActorsAssumption DEF Init, Published, AnswerInv, GateInv, OptOutInv, LinkInv, LinkOnce, QuietInv,
   Recorded, InTurn

LEMMA PublishedHolds == Spec => []Published
BY InvInit, PublishedStep, TypeCorrect, PTL DEF Spec

\* Each message is answered at most once, for any number of consumers, attempts,
\* redeliveries, stalled jobs and crashes (conversation.service.ts:109-119, 421-433, 453).
THEOREM AnsweredOnce == Spec => []AnswerOnce
<1>1. AnswerInv => AnswerOnce
  BY DEF AnswerInv, AnswerOnce
<1> QED
  BY <1>1, InvInit, AnswerStep, PublishedHolds, TypeCorrect, PTL DEF Spec

LEMMA GateHolds == Spec => []GateInv
BY InvInit, GateStep, PublishedHolds, TypeCorrect, PTL DEF Spec

\* No link goes out before the lead has written enough, however the turns of its messages
\* overlap (conversation.service.ts:403-410).
THEOREM GateKept == Spec => []LinkGate
<1>1. GateInv => LinkGate
  BY DEF GateInv, LinkGate
<1> QED
  BY <1>1, GateHolds, PTL

\* The link goes out once, but for turns that overlap or break before linkSent is written
\* (conversation.service.ts:306-319, 462-467).
THEOREM LinkReleasedOnce == Spec => []LinkOnce
<1>1. Spec => []LinkInv
  BY InvInit, LinkStep, GateHolds, PublishedHolds, TypeCorrect, PTL DEF Spec
<1> QED
  BY <1>1, InvInit, OnceStep, GateHolds, TypeCorrect, PTL DEF Spec

\* An opt-out whose turn did not break after its row is in the list and on the lead
\* (conversation.service.ts:262-272, 487-490).
THEOREM OptOutStays == Spec => []OptOutLands
<1>1. OptOutInv => OptOutLands
  BY DEF OptOutInv, OptOutLands
<1> QED
  BY <1>1, InvInit, OptOutStep, PublishedHolds, TypeCorrect, PTL DEF Spec

\* Once the phone is on the list, only the turns that were past it by then still answer
\* (conversation.service.ts:121).
THEOREM ListSilences == Spec => Silence
<1>1. Spec => []QuietInv
  BY InvInit, QuietStep, TypeCorrect, PTL DEF Spec
<1>2. ASSUME TypeOK, QuietInv, [Next]_vars, NEW m \in Messages, suppression, answers'[m] > answers[m]
      PROVE m \in before
  <2>1. PICK c \in Consumers : AddReply(c)
    <3> USE DEF rowVars
    <3>1. ASSUME NEW c \in Consumers, RowWrite(c) PROVE answers' = answers \/ AddReply(c)
      BY <3>1 DEF RowWrite, RecordRow, SuppressRow, FlagRow, ReleaseRow, ConverseRow
    <3>2. ASSUME NEW c \in Consumers, HandleInbound(c) \/ ProcessTurn(c) \/ Throw(c)
          PROVE RowWrite(c) \/ answers' = answers
      BY <3>2 DEF HandleInbound, ProcessTurn, CheckDup, CheckList, LoadConv, LoadHistory, Generate,
         Link, Record, RecordClash, Suppress, Flag, Close, MarkHandoff, Draft, Enqueue, Release,
         Activate, Converse, Plain, Throw, RowWrite
    <3>3. answers' = answers \/ \E c \in Consumers : HandleInbound(c) \/ ProcessTurn(c) \/ Throw(c)
      BY <1>2 DEF Next, Consume, Publish, PublishAgain, Stall, Crash, Take, vars
    <3>4. answers' # answers
      BY <1>2 DEF TypeOK, RowsOK
    <3> QED
      BY <3>1, <3>2, <3>3, <3>4
  <2>2. m = msg[c] /\ pc[c] = "enqueue"
    BY <1>2, <2>1 DEF AddReply, TypeOK, RowsOK
  <2> QED
    BY <1>2, <2>2 DEF QuietInv, InTurn
<1>3. TypeOK /\ QuietInv /\ [Next]_vars
        => [\A m \in Messages : suppression /\ answers'[m] > answers[m] => m \in before]_vars
  BY <1>2
<1> QED
  BY <1>1, <1>3, TypeCorrect, PTL DEF Spec, Silence
=============================================================================
