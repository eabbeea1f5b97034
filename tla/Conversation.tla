---------------------------- MODULE Conversation ----------------------------
(***************************************************************************)
(* The conversation of one lead: the INBOUND jobs of its messages, handled  *)
(* four at once with no lock on the conversation, and the turn each takes   *)
(* through opt-out, handoff or an answer of the model, with the link once   *)
(* the gate opens.  A turn reads the rows first and writes them last.       *)
(*                                                                          *)
(* Every message has a waMessageId.  What a text asks for is its intent;    *)
(* states and texts that no code reads again are left out, not the awaits   *)
(* that write them.  What becomes of an answer is another module's.         *)
(***************************************************************************)
EXTENDS Integers, FiniteSets

CONSTANTS
  Consumers,   \* the concurrent handlers of the INBOUND queue
  Messages,    \* what the lead sends
  Earlier,     \* what it sent before: those of them that have an IN row count for the link
  None,        \* no message, no consumer
  Intents,     \* what a message may ask for
  MinTurns,    \* linkReleaseRule.minInboundTurns
  Attempts,    \* attempts of a job
  MaxAgain, MaxFaults  \* bounds: redeliveries; exceptions, stalls and crashes

ASSUME ActorsAssumption ==
  /\ IsFiniteSet(Messages) /\ IsFiniteSet(Earlier)
  /\ Messages \cap Earlier = {}
  /\ None \notin Consumers \cup Messages

\* "buy" has a keyword of the link rule; "optout" and "human" are what the detectors find.
ASSUME IntentsAssumption == Intents \subseteq {"buy", "chat", "human", "optout"} /\ "none" \notin Intents

ASSUME LimitsAssumption ==
  /\ MinTurns \in Nat /\ Attempts \in Nat \ {0}
  /\ MaxAgain \in Nat /\ MaxFaults \in Nat

VARIABLES
  intent,                    \* per message: what it asks for
  job, tries, owner, again,  \* its INBOUND job: state, failed attempts, who holds its lock; redeliveries
  recorded, linkSent,        \* messages with an IN row; Conversation.linkSent
  suppression, leadStatus,   \* the phone is in Suppression; Lead.status
  answers, linked,           \* per message: OUTBOUND jobs added; messages answered with a link
  pc, msg, sent, heard, link,  \* per consumer: step, message, linkSent and history read, link injected
  faults,
  crossed, cut, before       \* history variables: no guard or state write reads them

jobVars  == <<intent, job, tries, owner, again>>
rowVars  == <<recorded, linkSent, suppression, leadStatus, answers, linked>>
locals   == <<sent, heard, link>>
turnVars == <<pc, msg, locals>>
pastVars == <<crossed, cut, before>>
vars == <<jobVars, rowVars, turnVars, faults, pastVars>>

\* The awaits from the read of the conversation to the write of linkSent, and those that
\* come after the IN row.
InTurn == {"history", "generate", "link", "record", "handoff", "draft", "enqueue", "release"}
Recorded == {"suppress", "flag", "close", "handoff", "draft", "enqueue", "release", "activate", "converse"}
PC == {"idle", "dup", "list", "load"} \cup InTurn \cup Recorded

JobsOK == /\ intent \in [Messages -> Intents \cup {"none"}]
          /\ job \in [Messages -> {"none", "wait", "active", "done", "failed"}]
          /\ tries \in [Messages -> 0..Attempts] /\ again \in Nat
          /\ \A m \in Messages : job[m] \in {"wait", "active"} => tries[m] < Attempts
          /\ owner \in [Messages -> Consumers \cup {None}]
          /\ \A m \in Messages : job[m] = "active" <=> owner[m] # None

RowsOK == /\ recorded \subseteq Messages \cup Earlier /\ linked \subseteq Messages
          /\ linkSent \in BOOLEAN /\ suppression \in BOOLEAN
          /\ leadStatus \in {"OPENED", "CONVERSING", "SUPPRESSED"}
          /\ answers \in [Messages -> Nat]

TurnsOK == /\ pc \in [Consumers -> PC]
           /\ msg \in [Consumers -> Messages \cup {None}]
           /\ sent \in [Consumers -> BOOLEAN] /\ link \in [Consumers -> BOOLEAN]
           /\ heard \in [Consumers -> SUBSET (Messages \cup Earlier)]
           /\ \A c \in Consumers : pc[c] # "idle" => msg[c] \in Messages

PastOK == /\ faults \in Nat
          /\ crossed \subseteq Messages /\ cut \subseteq Messages /\ before \subseteq Messages

TypeOK == JobsOK /\ RowsOK /\ TurnsOK /\ PastOK

-----------------------------------------------------------------------------
\* The opening was sent; the lead has answered with nothing yet that would end the talk.
Init ==
  /\ intent = [m \in Messages |-> "none"]
  /\ job = [m \in Messages |-> "none"] /\ tries = [m \in Messages |-> 0]
  /\ owner = [m \in Messages |-> None] /\ again = 0
  /\ recorded \in SUBSET Earlier /\ linkSent = FALSE /\ suppression = FALSE /\ leadStatus = "OPENED"
  /\ answers = [m \in Messages |-> 0] /\ linked = {}
  /\ pc = [c \in Consumers |-> "idle"] /\ msg = [c \in Consumers |-> None]
  /\ sent = [c \in Consumers |-> FALSE] /\ link = [c \in Consumers |-> FALSE]
  /\ heard = [c \in Consumers |-> {}]
  /\ faults = 0
  /\ crossed = {} /\ cut = {} /\ before = {}

-----------------------------------------------------------------------------
(* The queue.                                                                *)

Waits(m) == job' = [job EXCEPT ![m] = "wait"] /\ tries' = [tries EXCEPT ![m] = 0]

\* publishInbound() of a new message.
Publish(m, i) ==
  /\ job[m] = "none" /\ intent[m] = "none"
  /\ intent' = [intent EXCEPT ![m] = i]
  /\ Waits(m)
  /\ UNCHANGED <<owner, again, rowVars, turnVars, faults, pastVars>>

\* WhatsApp delivers it again.  The job id drops it while the job is there; a job that has
\* ended may be gone by now.
PublishAgain(m) ==
  /\ job[m] \in {"done", "failed"}
  /\ again < MaxAgain /\ again' = again + 1
  /\ Waits(m)
  /\ UNCHANGED <<intent, owner, rowVars, turnVars, faults, pastVars>>

Take(c, m) ==
  /\ pc[c] = "idle" /\ job[m] = "wait"
  /\ job' = [job EXCEPT ![m] = "active"] /\ owner' = [owner EXCEPT ![m] = c]
  /\ pc' = [pc EXCEPT ![c] = "dup"] /\ msg' = [msg EXCEPT ![c] = m]
  /\ UNCHANGED <<intent, tries, again, sent, heard, link, rowVars, faults, pastVars>>

Goto(c, step) == pc' = [pc EXCEPT ![c] = step] /\ UNCHANGED <<jobVars, msg>>

Step(c, step) == Goto(c, step) /\ UNCHANGED locals

\* The turn of c is over: what it read is gone.
Leave(c) ==
  /\ pc' = [pc EXCEPT ![c] = "idle"] /\ msg' = [msg EXCEPT ![c] = None]
  /\ sent' = [sent EXCEPT ![c] = FALSE] /\ link' = [link EXCEPT ![c] = FALSE]
  /\ heard' = [heard EXCEPT ![c] = {}]

\* The handler of c ends: its job becomes `state`, if c still holds the lock of it.
End(c, state) ==
  /\ Leave(c)
  /\ \/ owner[msg[c]] # c /\ UNCHANGED <<job, owner>>
     \/ /\ owner[msg[c]] = c
        /\ job' = [job EXCEPT ![msg[c]] = state] /\ owner' = [owner EXCEPT ![msg[c]] = None]
  /\ UNCHANGED <<intent, again>>

Done(c) == End(c, "done") /\ UNCHANGED tries

\* [mutant] the error of a handler is swallowed
SwallowError(c) == Done(c)

\* An exception leaves the handler: the job is tried again, after the backoff.
GiveBack(c) ==
  /\ tries' = IF owner[msg[c]] = c THEN [tries EXCEPT ![msg[c]] = @ + 1] ELSE tries
  /\ End(c, IF tries[msg[c]] + 1 < Attempts THEN "wait" ELSE "failed")

-----------------------------------------------------------------------------
(* handleInbound(): the reads.                                               *)

CheckDup(c) ==
  /\ pc[c] = "dup"
  /\ \/ msg[c] \in recorded /\ Done(c)
     \/ msg[c] \notin recorded /\ Step(c, "list")
  /\ UNCHANGED <<rowVars, faults, pastVars>>

\* [mutant] the suppression list is not read
SkipList(c) ==
  /\ pc[c] = "list"
  /\ Step(c, "load")
  /\ UNCHANGED <<rowVars, faults, pastVars>>

CheckList(c) ==
  /\ pc[c] = "list"
  /\ \/ suppression /\ Done(c)
     \/ ~suppression /\ Step(c, "load")
  /\ UNCHANGED <<rowVars, faults, pastVars>>

\* The conversation is read; it is `crossed` if a turn under way may yet release the link.
LoadConv(c) ==
  /\ pc[c] = "load"
  /\ sent' = [sent EXCEPT ![c] = linkSent]
  /\ Goto(c, "history")
  /\ crossed' = IF \E d \in Consumers \ {c} : pc[d] \in InTurn
                THEN crossed \cup {msg[c]} ELSE crossed
  /\ UNCHANGED <<rowVars, heard, link, faults, cut, before>>

\* Its messages are read, and processTurn() looks at the text.
LoadHistory(c) ==
  /\ pc[c] = "history"
  /\ heard' = [heard EXCEPT ![c] = recorded]
  /\ Goto(c, IF intent[msg[c]] \in {"optout", "human"} THEN "record" ELSE "generate")
  /\ UNCHANGED <<rowVars, sent, link, faults, pastVars>>

-----------------------------------------------------------------------------
(* processTurn().                                                            *)

\* shouldReleaseLink(): enough messages of the lead with this one, and a keyword in it.
LinkAllowed(c) == intent[msg[c]] = "buy" /\ Cardinality(heard[c]) + 1 >= MinTurns

\* generateGuarded() has an answer or its fallback.
Generate(c) ==
  /\ pc[c] = "generate"
  /\ Step(c, IF LinkAllowed(c) /\ ~sent[c] THEN "link" ELSE "record")
  /\ UNCHANGED <<rowVars, faults, pastVars>>

\* getOrCreateTrackedLink(): one per lead, whoever asks.
Link(c) ==
  /\ pc[c] = "link"
  /\ link' = [link EXCEPT ![c] = TRUE]
  /\ Goto(c, "record")
  /\ UNCHANGED <<rowVars, sent, heard, faults, pastVars>>

-----------------------------------------------------------------------------
(* The writes of a turn, each as what it does to the rows.                   *)

\* [mutant] two IN rows may have the same waMessageId
RecordTwice(c) ==
  /\ pc[c] = "record"
  /\ recorded' = recorded \cup {msg[c]}
  /\ UNCHANGED <<linkSent, suppression, leadStatus, answers, linked>>

\* recordInbound(): chip and waMessageId are unique.
RecordRow(c) ==
  /\ pc[c] = "record" /\ msg[c] \notin recorded
  /\ recorded' = recorded \cup {msg[c]}
  /\ UNCHANGED <<linkSent, suppression, leadStatus, answers, linked>>

\* suppress(): the list, then the lead.
SuppressRow(c) ==
  /\ pc[c] = "suppress"
  /\ suppression' = TRUE
  /\ UNCHANGED <<recorded, linkSent, leadStatus, answers, linked>>

FlagRow(c) ==
  /\ pc[c] = "flag"
  /\ leadStatus' = "SUPPRESSED"
  /\ UNCHANGED <<recorded, linkSent, suppression, answers, linked>>

\* outbound.add().
AddReply(c) ==
  /\ pc[c] = "enqueue"
  /\ answers' = [answers EXCEPT ![msg[c]] = @ + 1]
  /\ linked' = IF link[c] THEN linked \cup {msg[c]} ELSE linked
  /\ UNCHANGED <<recorded, linkSent, suppression, leadStatus>>

\* [mutant] linkSent is left as it was
ReleaseForgotten(c) == pc[c] = "release" /\ UNCHANGED rowVars

ReleaseRow(c) ==
  /\ pc[c] = "release"
  /\ linkSent' = TRUE
  /\ UNCHANGED <<recorded, suppression, leadStatus, answers, linked>>

\* [mutant] the status of the lead is not looked at
ConverseAlways(c) ==
  /\ pc[c] = "converse"
  /\ leadStatus' = "CONVERSING"
  /\ UNCHANGED <<recorded, linkSent, suppression, answers, linked>>

\* Of afterTurn(): OPENED becomes CONVERSING, and nothing else does.
ConverseRow(c) ==
  /\ pc[c] = "converse"
  /\ leadStatus' = IF leadStatus = "OPENED" THEN "CONVERSING" ELSE leadStatus
  /\ UNCHANGED <<recorded, linkSent, suppression, answers, linked>>

RowWrite(c) == \/ RecordRow(c) \/ SuppressRow(c) \/ FlagRow(c)
               \/ AddReply(c) \/ ReleaseRow(c) \/ ConverseRow(c)

-----------------------------------------------------------------------------
(* The steps of a turn that write.                                           *)

Record(c) ==
  /\ RecordRow(c)
  /\ Step(c, CASE intent[msg[c]] = "optout" -> "suppress"
               [] intent[msg[c]] = "human" -> "handoff"
               [] OTHER -> "draft")
  /\ UNCHANGED <<faults, pastVars>>

\* The row is there already: a handler that stalled wrote it.
RecordClash(c) ==
  /\ pc[c] = "record" /\ msg[c] \in recorded
  /\ GiveBack(c)
  /\ UNCHANGED <<rowVars, faults, pastVars>>

\* The turns that are past the list by now.
Past == {msg[d] : d \in {e \in Consumers : pc[e] \in {"load"} \cup InTurn}}

Suppress(c) ==
  /\ SuppressRow(c) /\ Step(c, "flag")
  /\ before' = IF suppression THEN before ELSE Past
  /\ UNCHANGED <<faults, crossed, cut>>

Flag(c) == FlagRow(c) /\ Step(c, "close") /\ UNCHANGED <<faults, pastVars>>

\* conversation.update of the state alone, or the OUT rows: nothing reads them again.
Plain(c, step, next) ==
  /\ pc[c] = step /\ Step(c, next)
  /\ UNCHANGED <<rowVars, faults, pastVars>>

Close(c) == /\ pc[c] = "close" /\ Done(c)
            /\ UNCHANGED <<rowVars, faults, pastVars>>

MarkHandoff(c) == Plain(c, "handoff", "draft")
Draft(c) == Plain(c, "draft", "enqueue")

\* The link was injected: linkSent comes next.  A handoff is over with its answer.
Enqueue(c) ==
  /\ AddReply(c)
  /\ \/ intent[msg[c]] = "human" /\ Done(c)
     \/ intent[msg[c]] # "human" /\ Step(c, IF link[c] THEN "release" ELSE "activate")
  /\ UNCHANGED <<faults, pastVars>>

Release(c) == ReleaseRow(c) /\ Step(c, "converse") /\ UNCHANGED <<faults, pastVars>>

Activate(c) == Plain(c, "activate", "converse")

\* The summary that follows catches its own errors.
Converse(c) == ConverseRow(c) /\ Done(c) /\ UNCHANGED <<faults, pastVars>>

-----------------------------------------------------------------------------
(* Faults.                                                                   *)

Fault == faults < MaxFaults /\ faults' = faults + 1

\* An await throws; a write may have taken effect all the same.
Throw(c) ==
  /\ pc[c] # "idle" /\ Fault
  /\ RowWrite(c) \/ UNCHANGED rowVars
  /\ GiveBack(c)
  /\ crossed' = IF pc[c] \in {"enqueue", "release"} /\ msg[c] \in linked' /\ ~linkSent'
                THEN crossed \cup {msg[c]} ELSE crossed
  /\ cut' = IF pc[c] \in Recorded \/ recorded' # recorded THEN cut \cup {msg[c]} ELSE cut
  /\ before' = IF suppression = suppression' THEN before ELSE Past

\* The lock of a job expires under its handler, which goes on: another may take the job,
\* unless it has stalled too often.
Stall(m) ==
  /\ job[m] = "active" /\ Fault
  /\ \E state \in {"wait", "failed"} : job' = [job EXCEPT ![m] = state]
  /\ owner' = [owner EXCEPT ![m] = None]
  /\ UNCHANGED <<intent, tries, again, rowVars, turnVars, pastVars>>

\* The core ends: its jobs stall, and come back or are given up.
Crash ==
  /\ Fault
  /\ \E back \in SUBSET {m \in Messages : job[m] = "active"} :
       job' = [m \in Messages |-> IF job[m] # "active" THEN job[m]
                                  ELSE IF m \in back THEN "wait" ELSE "failed"]
  /\ owner' = [m \in Messages |-> None]
  /\ pc' = [c \in Consumers |-> "idle"] /\ msg' = [c \in Consumers |-> None]
  /\ sent' = [c \in Consumers |-> FALSE] /\ link' = [c \in Consumers |-> FALSE]
  /\ heard' = [c \in Consumers |-> {}]
  /\ crossed' = crossed \cup {msg[c] : c \in {d \in Consumers : pc[d] = "release"}}
  /\ cut' = cut \cup {msg[c] : c \in {d \in Consumers : pc[d] \in Recorded}}
  /\ UNCHANGED <<intent, tries, again, rowVars, before>>

-----------------------------------------------------------------------------
HandleInbound(c) == CheckDup(c) \/ CheckList(c) \/ LoadConv(c) \/ LoadHistory(c)

ProcessTurn(c) ==
  \/ Generate(c) \/ Link(c) \/ Record(c) \/ RecordClash(c)
  \/ Suppress(c) \/ Flag(c) \/ Close(c) \/ MarkHandoff(c)
  \/ Draft(c) \/ Enqueue(c) \/ Release(c) \/ Activate(c) \/ Converse(c)

Consume(c) == (\E m \in Messages : Take(c, m)) \/ HandleInbound(c) \/ ProcessTurn(c)

Next ==
  \/ \E m \in Messages : (\E i \in Intents : Publish(m, i)) \/ PublishAgain(m) \/ Stall(m)
  \/ \E c \in Consumers : Consume(c) \/ Throw(c)
  \/ Crash

Spec == Init /\ [][Next]_vars

\* The consumers take what waits, and their awaits settle.
Fairness == \A c \in Consumers : WF_vars(Consume(c))

FairSpec == Spec /\ Fairness

-----------------------------------------------------------------------------
(* Safety.                                                                   *)

\* A message is answered once, however often it is delivered, tried again or handled twice
\* at the same time (conversation.service.ts:109-119, 421-433, 453).
AnswerOnce == \A m \in Messages : answers[m] <= 1

\* The link is sent in one answer, unless a turn read the conversation while another one
\* was under way, or linkSent was never written after the answer was added
\* (conversation.service.ts:306-319, 462-467).
LinkOnce == \A m, n \in linked \ crossed : m = n

\* No link before the lead has written MinTurns messages (conversation.service.ts:403-410).
LinkGate == linked # {} => Cardinality(recorded) >= MinTurns

\* An opt-out whose turn did not break after its IN row ends with the phone on the list and
\* the lead SUPPRESSED, whatever other turns write meanwhile
\* (conversation.service.ts:262-272, 487-490).
OptOutLands ==
  \A m \in (Messages \cap recorded) \ cut :
     intent[m] = "optout" /\ (\A c \in Consumers : msg[c] # m)
       => suppression /\ leadStatus = "SUPPRESSED"

\* Once the phone is on the list, only a turn that was past the list by then is still
\* answered (conversation.service.ts:121).
Silence ==
  [][\A m \in Messages : suppression /\ answers'[m] > answers[m] => m \in before]_vars

-----------------------------------------------------------------------------
\* Liveness: a message is answered in the end, unless the lead is out, its attempts are
\* spent or its turn broke after the IN row (conversation.service.ts:105-174, 326-328).
Answered ==
  \A m \in Messages :
     job[m] = "wait" ~> answers[m] > 0 \/ suppression \/ job[m] = "failed" \/ m \in cut
=============================================================================
