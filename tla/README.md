# A TLA+ model of the dispatch engine

The repository is a WhatsApp dispatch engine: a NestJS core (`apps/core`), a Baileys
session worker (`apps/session-worker`), shared contracts (`packages/shared`), a React
panel and a Postgres schema (`prisma/schema.prisma`). Core and worker talk through five
BullMQ queues in Redis; Postgres holds every row both read and write. There are no
tests in the repository, so the reference is the source, with its comments and `docs/`.

## 1. Inventory

### 1.1 Components

| Component | State it keeps | Operations | Hard because |
|---|---|---|---|
| Scheduler (`core/src/scheduler`) | `running` flag; `Lead.status`, `Dispatch.status`, `WhatsappNumber.{sentToday, dailyCap, rampDay, lastResetAt, status}`; redis `sched:nextSend`, `opening:recent` | `safeTick`, `tick` (also `POST /scheduler/tick`), `resetDailyIfNeeded`, `dispatchOne`, `pickEligibleChip`, `armNextSend` | rows are read once per tick and used across many awaits; two ticks can overlap; any await may throw |
| Dispatches (`core/src/dispatches`) | `Dispatch.status`, its chips (the *esteira*) | `create`, `setStatus`, `setChips`, `addChips`, `removeChip` | races the tick's snapshot |
| Suppression (`core/src/suppression`) | `Suppression` rows, `Lead.{suppressed, status}` | `suppress`, `unsuppress` | two and three statements, no transaction, against the tick's claim |
| Health monitor (`core/src/health-monitor`) | `WhatsappNumber.{healthScore, consecFails, lastSignalAt, status, dailyCap}`; a promise chain per chip; `HealthEvent` | `ingestSignal` → `process` → `applyPolicy` (retire, cooldown, reduceRamp, recover), `sweepCooldowns` | status is decided from a row read several awaits before it is written; several writers |
| Delivery monitor (same folder) | `Message.{waMessageId, deliveredAt, readAt, failed}`; stored `HealthEvent`s | `sweepNoDelivery`, `sweepNoRead`, `sweepReplyDrop` | an interval that waits for no earlier sweep; races late, repeated and lost receipts |
| Chips (`core/src/chips`) | `WhatsappNumber` rows | `create`, `bindProxy`, `pair`, `pairState`, `sendControl`, `updateConfig` | row write and control command are two steps |
| Conversation (`core/src/conversation`) | `Conversation.{state, linkSent}`, `Message` rows | `handleInbound` → `processTurn` → `afterTurn`, `rollSummary` | concurrency 4 with no lock per conversation; job retries |
| AI service (`core/src/ai`) | none | adapters with retries, `generateGuarded`, output guard, prompt builder; `splitMessage` after it | an external model that writes anything; what is checked is not what is sent |
| Bridge (`core/src/bridge`), preview/recap | as Conversation | `bridge.service` | writes conversation rows |
| Lead import (`core/src/leads`) | `Lead`; `Suppression` read | `import`: `parse`, `detectPhoneKey`, `clean`, `readExistingPhones`, `readSuppressedPhones`, `insertChunks` | reads the leads and the list before its transaction; other imports and `suppress()` run beside it |
| Openings of a flow (`core/src/flows`) | `OpeningMessage` rows; redis `opening:recent` per chip | `create`, `update`, `remove` with their checks; `chooseOpening`, `render` | templates edited under a running rotation; data filled in after the checks |
| Session supervisor (`session-worker/src/supervisor`) | map of sessions | `startSession`, `stopSession`, `onControl`, `onOpening`, `onOutbound`, `recoverSessions`, hooks | CONTROL concurrency 4, test-then-await-then-set |
| Baileys session (`session-worker/src/session`) | socket, timers, `stopping`, attempts | `start`, `stop`, `send`, `scheduleReconnect`, `wipeAuth`, receipts | events, timers and commands interleave |
| Auth state (`session-worker/src/baileys`) | memory copy, write chain, `WhatsappNumber.authState` | `saveCreds`, `keys.set`, `flush`, `clear` | a coalescing asynchronous writer, crash, wipe |
| Queues (`core/src/redis`, `packages/shared`) | OPENINGS, OUTBOUND, CONTROL, INBOUND, HEALTH | `add`, at-least-once delivery, 3 attempts | retries repeat what was done |
| Panel, auth, config, proxies, health endpoint | — | — | presentation and wiring: not modelled |

### 1.2 How they interact

```
 panel --HTTP--> core  --OPENINGS, OUTBOUND, CONTROL-->  worker --sockets--> WhatsApp
                 core  <--INBOUND, HEALTH--------------  worker
                 core  <--rows--> Postgres <--rows-->    worker (authState, CONNECTED hook, receipts)
```

* The scheduler reads what dispatches, suppression, health and chips write, and has no
  lock on any of it: its only atomic test is the conditional claim of a lead.
* The health monitor decides on rows that the scheduler's reset, the chip endpoints and
  the worker's CONNECTED hook also write.
* The worker never decides a status; it turns control commands into sessions, and the
  only thing that keeps it from reviving a retired chip is a read before `start`.

### 1.3 What makes each part correct

* **Scheduler.** A lead gets one opening, however many ticks run; a lead whose opt-out
  flag is up is not claimed; no error path loses a lead; a chip does not pass its cap nor
  its jitter; the ramp climbs a day per day; a dispatch ends.
* **Health monitor.** Concurrent signals do not lose each other's score; light signals
  add up; the kill switch fires, and of what it retires no session is left but of a START
  already past its read; a cooldown ends.
* **Session supervisor and sessions.** One socket per chip; a stopped or retired chip has
  none; a closed socket is replaced; a restarted worker hosts its chips again.
* **Auth state.** The row follows the memory and never goes back; nothing is dropped;
  a stop leaves everything in the row; wiped credentials stay wiped.
* **Conversation.** A message is answered, and not twice; the link goes out once, and not
  before its gate; an opt-out lands and silences.
* **Send pipeline.** A job that is done went out whole; no balloon leaves more often than
  its job was tried; the row of an opening bears its own id; failures are told, and not
  twice over; every job settles.
* **Delivery monitor.** One message costs the chip one signal, one fall of the reply rate
  one signal; an opening with an id is delivered or found out.
* **Lead import.** The answer accounts for every row of the file; the leads agree with the
  suppression list; the right column is read; no import writes over a lead.
* **Wording.** A chip does not repeat its openings while it has others; no link in an
  opening; nothing the guard rejects reaches the lead; the balloons lose no word of a reply.

## 2. Modules

| Module | Models | Holds |
|---|---|---|
| `Dispatcher` | scheduler, dispatch endpoints, suppression, as one shared state | the specification and its properties |
| `DispatcherMC` | – | small instances; the documented property the code breaks |
| `DispatcherProofs` | – | theorems of `Dispatcher` |
| `ChipHealth`, `ChipHealthMC`, `ChipHealthProofs` | one chip's row: health monitor, sweep, daily reset, chip endpoints, CONNECTED hook | likewise |
| `WriteBehind` | – | what the auth state promises, in a page |
| `AuthState`, `AuthStateProofs` | the coalescing writer of the credentials, session load, stop, log-out wipe | the detailed specification, its refinement of `WriteBehind`, theorems |
| `SessionSupervisor`, `SessionSupervisorMC`, `SessionSupervisorProofs` | the worker's map of sessions, CONTROL handlers, recovery, sockets and reconnection | specification, instances, theorems |
| `Conversation`, `ConversationMC`, `ConversationProofs` | INBOUND jobs and the turn each takes through one conversation | specification, instance, theorems |
| `SendPipeline`, `SendPipelineMC`, `SendPipelineProofs` | OPENINGS and OUTBOUND jobs, `onOpening`, `onOutbound`, `send()` over a socket that may go | specification, instance, theorems, those on the texts sent (`Wording`) included |
| `DeliveryWatch`, `DeliveryWatchMC`, `DeliveryWatchProofs` | the rows of openings between the receipts and the sweeps of the delivery monitor | specification, instance, theorems |
| `LeadImport`, `LeadImportMC`, `LeadImportProofs` | `import()` from the file to its answer, beside `suppress()` and `unsuppress()` | specification, instance, theorems |
| `Wording`, `WordingMC` | openings and their rotation, the guard on what the model writes, the balloons | specification and instance; its theorems are in `SendPipelineProofs` |

No module declares a RECURSIVE operator. A definition whose comment starts with
`[mutant]` is not part of a specification: it is the form a definition of the code would
take with a plausible bug, kept to show that the property can fail.

### 2.1 How state and steps correspond to the code

One rule holds everywhere: Node runs one thread, so what lies between two awaits is one
step, and an await (a Prisma call, a Redis call, a queue add, a timer) is a place
where anything else may happen. Section 6 names the awaits that are taken together. A local variable that lives across an await is a
variable of the model. History variables record what the properties need, are read by no
guard and write no state of the code; each module's `VARIABLES` names its own.

* **`Dispatcher`.** A member of `Ticks` is a caller of `tick()`: the interval timer, with
  its `running` flag, or a `POST /scheduler/tick`, which has none. `pc` is the await the
  caller stands at: `reset` (the daily reset), `loop`, `choose` (`pickEligibleChip`), `find` and `claim`
  (`dispatchOne`), `prepare` (the awaits from the draw of the opening to its row, lines
  232-251, in one step), `enqueue`, `count`, `mark`, `arm`, `revert` (its catch),
  `finish`. `plan`, `todo`, `stale` are the rows read at the start of the tick.
  `suppress()` and `unsuppress()` are one step per statement (`optOut`).
* **`ChipHealth`.** A member of `Slots` is a call of `ingestSignal()`; `chain` is the map
  of promises, `seen` the row a call read. The cooldown sweep, the daily reset and an
  operator's command each have their own step variable and their own stale copy. Of the
  worker there are the commands on their way (`starts`, `ends`) and its handlers between
  their awaits, as counters: `looking` (in `findUnique`), `found` (its answer was read,
  `sessions.set` not reached), `stops` (in `stop()`), with `session`, the entry of its map.
* **`AuthState`.** An instance is one call of `usePostgresAuthState()`; a state of the
  credentials is the login it belongs to and the updates it carries. `flights` holds the
  `update` calls that Postgres has not answered: each *lands* (takes effect), then is
  *answered*, or fails with or without effect.
* **`SessionSupervisor`.** A handler of CONTROL is at `look` (in `findUnique`), `found`
  (its answer was read, `sessions.set` not reached), `starting` or `stopping`;
  `recoverSessions()` is one more process with the same steps. Per session: `sock`, the
  `stopping` flag and `reconn` (`scheduleReconnect` waiting, or in its `start()`).
* **`Conversation`.** A consumer stands at an await of `handleInbound()` or
  `processTurn()`: `dup`, `list`, `load`, `history` are the reads, `generate` the model,
  `link` the tracked link, `record` the IN row, and what follows are the writes of an
  opt-out (`suppress`, `flag`, `close`), a handoff or an answer. `sent`, `heard` and
  `link` are its local variables. Each write of a row is an operator, so that an exception
  (`Throw`) can strike before or after it. `owner` is BullMQ's lock of a job: a handler
  that stalled goes on while another has the job.
* **`SendPipeline`.** Per queue one worker with one job at a time: `wait`, `delayed`
  (backoff), `result` and `tries` are BullMQ's view, `work` is the job in hand. It is at
  `send` (before the next balloon), `ack` (in `sendMessage`), `record` (an opening, in the
  update of `waMessageId`) or `finish` (return, then BullMQ's completion). `work.sock` is
  the socket `send()` took at its start: it goes on only while that is the live one.
* **`DeliveryWatch`.** A member of `Sweepers` is one call of `sweep()`: which of its three
  parts it is in, the candidates it read, and the row whose signal it is about to ingest.
  `marks` holds the calls of `markDelivered` and `markRead` that have not written yet.
* **`LeadImport`.** A member of `Imports` is one call of `import()`: parsing is one step
  with the request, then `existing` and `hushed` (one step per chunk read), then `insert`,
  the transaction. A member of `Callers` is a call of `suppress()` (list, then `mark` the
  leads) or of `unsuppress()` (list, `unflag`, `restore`). Files are records of headings
  and rows; `PhoneKey` (`detectPhoneKey`), `Cleaned` (`clean`) and `Normal`
  (`normalizeE164`) are operators on them. `ReadAs` says as which phone, if any, a number
  abroad is read that is written without its `+`.
* **`Wording`.** A text is a sequence of words, blanks and full stops. A member of `Openers`
  is a run of `tick()`: `List` reads the templates, `Choose` is `lrange` and the draw,
  `Push` and `LTrim` are the two writes of `opening:recent`, `Open` fills in the template
  that was listed; it may break off at each (`Abandon`). `turn` is the turn under way: the
  attempt of `generateGuarded` and the retry of the adapter; `Passes` is the guard,
  `SplitMessage` makes the balloons.

## 3. Runs

| Run | Asks | Answer |
|---|---|---|
| `dispatcher_race` | two callers of `tick()`, a fault, opt-outs and a midnight: are openings unique, flagged leads parked, QUEUED leads held, ramp days single? | holds |
| `dispatcher_timer` | the timer alone, two dispatches sharing a chip: is the cap respected from one stale read per tick, and does a running dispatch end? | holds, the end under fairness |
| `dispatcher_optout` | is no opening added for a suppressed lead, as `docs/ESPEC_MOTOR_DISPARO.md:508` says? | **violated** |
| `chip_kill` | concurrent signals against sweep, reset and operator: do signals add up, does the kill switch fire, and is the session of a RETIRED chip gone? | holds, but for late writes of a row, a START past its read and a RETIRE that was not delivered |
| `chip_cooldown` | with a fault or a crash on the way: does a cooldown end? | holds under fairness |
| `auth_store` | does the writer implement `WriteBehind`, keep a wipe, leave everything at a stop, and write every update in the end? | holds, but for late writes of ended sockets and crossed wipes |
| `sessions_host` | crossing commands, recovery, reconnections and a crash: no leaked session, none of a retired chip, a closed socket replaced, a chip hosted again after a restart? | holds, but for the crossings named in section 4 |
| `conversation_turns` | overlapping turns, redelivery, a stall, an exception or a crash: one answer per message, one link, opt-outs that land and silence, an answer in the end? | holds, but for the crossings and breaks named below |
| `send_pipeline` | lost connections, rejected sends, a failing database, a dying worker: are replies whole, copies bounded, ids own, failures told, and does every job settle? | holds, the end under fairness |
| `delivery_watch` | overlapping, throwing and crashing sweeps beside late, repeated and lost receipts: one signal per message, one per fall of the rate, and nothing unwatched? | holds, the end under fairness |
| `lead_import` | two imports beside calls on the list: does the answer add up, do leads and list agree, is the right column read, is nothing overwritten? | holds, but for the three cases `InStep` names and numbers abroad without `+` |
| `wording` | edits beside two runs of `tick()`; a model that writes anything: rotation, clean openings, sanitised replies, no word lost in the balloons? | holds, but for choices that cross |

The types of every module (`TypeOK`, `WordingOK`) are proved (section 5), so no run is spent
on them.

### 3.1 Bounds

Every bound is a constant read only by a guard that stops an *input* (a signal, a command,
a midnight, a fault), never a step of the code under way. The theorems of section 5 hold
for every value of them; the runs use small ones:

* *Dispatcher*: two callers, since every race is between two, one of which may be the
  timer; one lead where the race is for the lead, two where they compete for a cap of one
  or two; one midnight; one fault, at any await or as a crash of the whole core.
  The ramp curves have two days, so that both the end and the step before it are reached.
* *ChipHealth*: three signals where the kill switch is asked about, of which three
  REPLY_DROPs take a chip from 70 below every threshold, and five for the cooldown, where
  five SEND_FAILs reach the limit of failures. Two slots are two concurrent calls, of which
  one waits in the chain. The commands in the queue and in the worker's hands are those the
  run adds.
* *AuthState*: three instances (a session, the one after a wipe, the one after that),
  three updates, so that two meet a write on the wire and are coalesced; one write of an
  ended socket, one crossed wipe, one fault.
* *SessionSupervisor*: two of the four handlers, since each race is between two and
  the recovery is a third; two commands of three kinds; four sessions, so that liveness does
  not starve on the bound; two closes of a socket; one fault or crash.
* *Conversation*: two of the four consumers; two messages, beside one that the lead may
  have sent before, so that with a gate of two turns either may release the link, or
  only the later one; two attempts, one redelivery, one fault. Two faults, or three
  messages, give the same answers without liveness (1.1 and 1.6 million states).
* *SendPipeline*: one opening and one reply of two balloons, since the queues share only
  the socket; two attempts (the code has three), so that a second one follows a partial
  first; two mishaps, so that both attempts may fail, or the balloons meet two sockets.
* *DeliveryWatch*: one opening, two copies and two receipts, so that a receipt may be of
  the copy the row no longer bears, or come twice; two sweepers; one exception or crash;
  counts of traffic on both sides of the threshold, at the least sample that counts.
* *LeadImport*: two imports and two callers with three calls between them, so that a call
  may run, or end, inside another's window; one exception; two phones read in chunks of
  one, so that a call falls between chunks; three files: one with the same phone in two
  forms, one whose best-named column holds no phone and in which a number abroad, without
  its `+`, is read as the phone of the next row (`TakenFor`), one that is not what its name
  says.
* *Wording*: five templates over two ids with a memory of one, so that there is a choice;
  two runs of `tick()`, since each crossing is of two; twelve texts, one for each reason of
  the guard and each way to cut, and a number with a full stop; two edits and three openings
  (a third one behind a choice that crossed another), three edits and two, or one of each
  and three turns, since edits do not touch a reply. The
  lengths 500, 40 and 140 are scaled to 19, 6 and 9.

### 3.2 Fairness

Only what the program drives itself is fair, and weakly: the steps of a tick that has
begun, the interval timers, the elapsing of a jitter, awaits that Postgres or Redis
answers, a process that its supervisor restarts, the queue workers and BullMQ's backoff,
the sweeps of the delivery monitor and the aging of a row. No fairness is given to operators,
signals, opt-outs beginning, sockets closing or opening, or faults. A fault that the bound
still allows is never forced to stop or to happen; liveness properties say what they except:
a dispatch that has a chip able to send from some point on, a write that failed with
nothing after it, a reconnection whose `start()` threw, a turn that broke after its row.

Deadlock is checked in the runs of `Dispatcher` and `ChipHealth`. The others switch it
off: a worker with no input left, a message that is settled, an HTTP server that answered
its last call rest for good.

## 4. Where the code and its documents part

One disagreement is kept as a run and a finding: `dispatcher_optout`. The others were met
while modelling; the specifications show them as the code behaves, and the properties name
them as exceptions:

* RETIRED is not terminal (`docs/ARQUITETURA_ANTIBAN_E_IA.md:135`): a signal that judged a
  cooldown before it writes COOLDOWN after it (`health-monitor.service.ts:137` against line
  71), and the sweep starts the chip again.
* A START past its read when RETIRE is handled leaves a retired chip with a session
  (`supervisor.ts:158` against the comment at line 135): `stray` and `late` in `KilledIsOff`.
* The OPENED write (`scheduler.service.ts:266`) has no condition, and lands over a
  SUPPRESSED written since the claim (`ESPEC_MOTOR_DISPARO.md:17`).
* `POST /scheduler/tick` beside the timer may spend a unit of a chip's cap twice
  (`ESPEC_MOTOR_DISPARO.md:399`); `CapRespected` is asked of the timer alone.
* The daily reset (`scheduler.service.ts:408`) writes ACTIVE from the row it read, so it
  too can undo RETIRED, and it advances the ramp of a chip whatever its health
  (`ARQUITETURA_ANTIBAN_E_IA.md:167`).
* A late signal moves a PAUSED chip to COOLDOWN (`health-monitor.service.ts:118`), from
  which the sweep starts it (line 172).
* The sweep heals the score outside the promise chain (line 184 against the comment at
  line 27): a signal in between overwrites it, in the cautious direction.
* `retire()` writes RETIRED before it adds the command (line 133): if the add fails, the
  job's retry returns at line 72 and the worker is never told (line 21): `untold`.
* The socket of a logged-out session keeps its key store (`baileys-session.ts:96`), and
  one more write of it puts the wiped credentials back (comment at line 226); a stop and a
  start that cross the wipe's `update` (line 234) do the same.
* Two instances of one chip may write one row (`postgres-auth-state.ts:50` against
  line 28), and a stop drops a memory left dirty by a failed write (line 82).
* A logged-out session stays in the supervisor's map, so that START and PAIR do
  nothing (`supervisor.ts:125`, `baileys-session.ts:169-170`); a reconnection whose
  `start()` throws is never tried again (line 267).
* A STOP handled while a START is reading the row finds nothing, and the held chip ends
  with a session; a START that finds the session of a STOP in its flush is ignored, and
  the live chip ends without one.
* An opt-out whose turn breaks after `recordInbound` (`conversation.service.ts:264`) is
  taken for a duplicate when its job is tried again (line 110), and the phone is never
  suppressed, where `ESPEC_MOTOR_DISPARO.md:17` has it suppressed at once. The answer
  to any other message is lost the same way. Both are what `cut` stands for.
* Two turns that overlap may each send the link, as may the turn after one whose write of
  `linkSent` failed (line 463, after the job is added at 453): what `crossed` stands for.
* An answer already past line 121 still goes out after an opt-out: what `before` stands for.
* A send that fails on the socket is signalled by `send()` (`baileys-session.ts:307`) and
  again by `onOpening` (`supervisor.ts:205`): an opening costs up to two SEND_FAILs an attempt.
* A reply is tried again from its first balloon, so the lead may read its beginning several
  times; only openings write a `waMessageId`, so the delivery of replies is never watched.
* The delivery timeout counts from the creation of the row (`delivery-monitor.service.ts:39`),
  not from the sending; NO_READ is signalled again by each sweep for the same rows.
* Two imports that overlap leave `skipped` above zero where `lead-import.service.ts:21`
  says it should be 0; `unsuppress()` takes a failing delete for a missing row
  (`suppression.service.ts:45`) and reopens the leads of a phone that stays listed.
* Digits without a `+` are read as a Brazilian number, "NAO prefixa +55 em numeros
  internacionais" (`phone.ts:8`) notwithstanding (lines 20-25): some numbers abroad come out
  valid, as the phone of somebody else (the Peruvian mobile 51 987654321 as +55 51 98765
  4321), and where that phone has a row of its own further down, the stranger's row is the
  one imported. `Mistaken` in `FileRead` stands for it.
* "A abertura NUNCA leva link" (`opening-messages.service.ts:104`) holds for the listed
  endings in a template only: not for other endings, nor for the data of lead and flow
  filled in afterwards (`scheduler.service.ts:235`), nor for a domain that a variable
  completes. A question inside a fallback passes `invitesReply` and may vanish.
* With no more active templates than the memory of `opening:recent`, the rotation excludes
  them all, and falls back to any of them.
* The list of recent templates is read, pushed and trimmed with no lock
  (`scheduler.service.ts:355-362`): the timer and `POST /scheduler/tick` may both read it
  before either pushes, and send the same template (`blind` in `Rotates`). The id of an
  opening that broke off after its push stays, and puts out one that was sent. The choice is
  among the templates of line 180, whatever was edited since.
* In a reply longer than `splitMessage` leaves alone, the full stops of the injected URL are
  sentence ends (`humanize.ts:6-17` against `prompt-builder.ts:77`): the link is taken apart.
  So are those inside a number, which the guard lets pass, since it is no domain
  (`output-guard.ts:2-3`): 'R$ 1.500' may leave as 'R$ 1.' and '500', in two balloons, or in
  one with a blank between them.
* The guard reports any run of blanks as `link_stripped` (`output-guard.ts:47-51`), compares
  a whole reply with stored balloons before it cuts it, and never checks the fallback reply.
* No code reads `Conversation.handoff` or `state`: the bot goes on answering after a
  handoff, and a late turn writes ACTIVE over CLOSED or HANDOFF (line 484).

## 5. Proofs

Every theorem holds for all values of the constants, under the assumptions on constants
each module names.

| Theorem | Of | Argument |
|---|---|---|
| `TypeCorrect` | each of the eight specifications with a proof module | `TypeOK`, split into groups of variables, is inductive |
| `OpeningOnce`, `FlagParks` | `Dispatcher` | `ClaimInv`: per lead, the job count, the flag, the status and who holds it move together; the claim's test of the status is what keeps a second holder out |
| `QueuedSettles` | `Dispatcher` | `QueuedIsHeld` is inductive beside `TypeOK`: each step that lets go of a lead moves its status or strands it |
| `RampClimbsByDay` | `Dispatcher` | `RampInv`: a reset works from a row of an earlier day, whose ramp day is behind too |
| `OpenedWasEnqueued` | `Dispatcher` | `SettledInv`: after `openings.add` the lead a tick holds has a job |
| `CapHolds` | `Dispatcher`, the timer alone (`TimerAlone`) | `CapInv`: a tick sends from a chip once, and then has armed it or paid for that with an exception; the row of a reset is of an earlier day |
| `ScoreSerialised` | `ChipHealth` | `ChainInv`: only the head of the chain is between its read and its command |
| `HammeringTells` | `ChipHealth` | `ScarInv`: the bound holds too of the score a call is about to write |
| `KillSwitchWorks` | `ChipHealth` | `KillSwitch` with `VerdictInv`: a call that judged less than a retirement leaves a chip that is not low, one that judged a retirement has written it or was overwritten |
| `RetiredIsStopped` | `ChipHealth` | `KilledIsOff` is itself inductive beside `TypeOK`: a RETIRE on its way will stop what it finds, and what it overtook was counted |
| `CoalescingKeeps` | `AuthState` | `WriterInv`: with `dirty` down, the last write sent carries the whole memory |
| `WipeHolds`, `StopWrites`, `Implements` | `AuthState`, while no socket wrote late and no wipe was crossed | `SoleInv`: one instance writes at a time, so the row and the memory form a line |
| `OrphansCross` | `SessionSupervisor` | `MapInv`: only the handler that makes a session brings it to life; what `start()` and `stop()` leave behind is known while they run |
| `RetiredIsSilent` | `SessionSupervisor` | `KillInv`: once no RETIRE is pending, no uncrossed session is alive and every handler about to make one is late |
| `AnsweredOnce` | `Conversation` | `AnswerInv`: of the turns of a message one wrote the row, and only it may answer |
| `GateKept` | `Conversation` | `GateInv`: the history a turn read is still there, and its own row comes on top (cardinalities of finite sets) |
| `LinkReleasedOnce` | `Conversation` | `LinkInv`: of two turns under way one is crossed, and one that is not knows every uncrossed link |
| `OptOutStays`, `ListSilences` | `Conversation` | `OptOutInv`, `QuietInv`: the row of an opt-out is followed to the list, and the turns past the list are known when it fills |
| `JobInOnePlace` | `SendPipeline` | each step moves a job from one of `wait`, `delayed`, `work` to another; what a sequence holds after `Append` and `Tail` |
| `RepliesAreWhole` | `SendPipeline` | `RunInv`: the last copies of the queue are the balloons of the job in hand, on its socket |
| `CopiesAreBounded`, `IdIsOwn`, `FailuresAreTold` | `SendPipeline` | `CountInv`, `LinkInv`, and the bound itself: per job, copies, ids and signals against the attempts begun, the one in hand included; by `JobInOnePlace` only the worker that has the job adds to them |
| `OpeningsRotate` | `Wording` | `RotationInv`: the front of `recent` is that of the choices made, and who has drawn kept apart from those of its read, which each push it missed moves back by one |
| `OpeningsAreClean` | `Wording` | `RunsInv`, `CleanInv`: every template in force, or still held by a run of `tick()`, was accepted; a dot of a rendered text lies inside one piece when its variables stand alone |
| `WordingTypes` | `Wording` | `RunsInv`, `TextInv`: every template was accepted and every message is a text that begins and ends with something, so that cut and balloons are never empty |
| `BalloonsAreWhole` | `Wording` | the words of two texts put together are those of the one, then those of the other; so for the sentences (behind every word one ends), for the balloons (the deal leaves no rest) and for the link; the two sides of a full stop inside a number are two words |
| `RepliesAreSanitised` | `Wording`, the code's own words not forbidden | `SaidInv`: a balloon is a piece of the text, in which no sentence ends inside a link, or joins such pieces by a blank; a link of it is one of the text, or of the Url |
| `RowsTellTrue` | `DeliveryWatch` | `MarksTrue`: a mark yet to write is of a receipt that came |
| `OneSignal`, `OneDrop` | `DeliveryWatch` | the claim of a row and the signal to come are counted together; `DropInv`: a second sweeper past the test of the stored event overlaps the first |
| `AnswerReconciles` | `LeadImport` | an equation of the counters for each step of a call; what `insert` adds is a finite set of the size it counts |
| `FileIsRead` | `LeadImport` | the best column exists (least element of a set of ranks); every row kept is the first of those that are of its phone or mistaken for it |
| `LeadsInStep` | `LeadImport` | `StepInv`: what each caller and each import still owes the leads, for calls alone on their phone |
| `LeadsAreKept` | `LeadImport` | step by step: the commit writes only where no lead is |

The invariants the runs check are not inductive: `OneOpening` does not say what the
status of a held lead is, `NoOrphan` not that a session in its first `start()` is blank, and so on;
the strengthenings were first checked by TLC on the instances of section 3.

Most exceptions are part of the properties, not of the theorems: `Sole` (no late write of an
ended socket, no crossed wipe) in those of `AuthState`, `late`, `stray` and `untold` in
`KilledIsOff`, `blind` in `Rotates`, `Mistaken` in `FileRead`, `cut`, `crossed` and `before` in those of `Conversation`. Section 4 names what happens then. Two
theorems have a hypothesis:

* `CapHolds` is of the timer alone, with jitters that outlast the tick that armed them
  (`TimerAlone`): `POST /scheduler/tick` has no `running` flag, and two ticks may spend the
  same unit of a cap, as may two turns of one tick if the jitter of the flow is that short.
* `RepliesAreSanitised` takes the words of the tracked link and of the fallback reply not to
  be among `guardRules.forbidden`: both are added after the guard, and no code compares them.

The module `Wording` shares no variable with `SendPipeline`, and names its specification
apart (`WordingSpec`, `wordingVars`, `WordingOK`), so one proof module extends both. Its
texts are sequences of any words. `TextsAssumption` says of them what the code makes sure
of: a literal of a template lies between two variables and is not empty, the adapter trims
what the model wrote and refuses an empty text (`qwen.adapter.ts:76-79`). It also says that
the quoted words are strings, which the provers do not know of a literal. Facts that hold by
induction over a text (the places of a flattened sequence, the order of the ends of its
sentences) are proved by the least number at which they would fail (`LeastNumber`), since
the induction theorems of the library take an operator.

Every invariant and every action property that a run checks is stated by a theorem.
Model-checked only is what the provers do not reach, liveness under fairness: `Drains`,
`CooldownEnds`, `Stored`, `Reconnects`, `Recovers`, `Answered`, `Settles`, `Watched`.

## 6. What is abstracted and what is left out

* *Dispatcher*: time is a day number; windows, off hours and an elapsed jitter are
  Booleans; the weighted draw of a chip is any eligible chip; the several awaits of
  `pickEligibleChip` (one per chip) are one step, as are those from the draw of an opening to
  its row (`PrepareOpening`), which touch nothing another step reads here; those of the draw
  are taken apart in `Wording`. `updateConfig` writes the ramp only in `ChipHealth`.
* *ChipHealth*: the worker has the commands and handlers of one chip as counters, in no
  order and any number at once, since jobs are taken four at a time and retries go behind. Its
  `start()` does not fail, it does not restart, and PAIR is START: recovery, several sessions
  of a chip and their sockets are in `SessionSupervisor`. Sweeps do not overlap (one takes
  less than its interval). The read and the write of `create`, and the two updates of the CONNECTED
  hook, are one step each. Signals of the delivery monitor are not retried.
* *AuthState*: a failed write has taken effect by then or never will; serialisation does
  not throw. A reconnection keeps the instance, as the code does.
* *SessionSupervisor*: one chip and one worker process (with several, CONTROL is not
  routed: a STOP taken by a worker that does not host the chip is ignored). The queue is a
  set, since four handlers run at once and retries go behind. The wipe is one step, as
  are an `open` with the writes it triggers. A graceful shutdown is a crash that happens to flush.
  The status written late by monitor and reset, and the registration of a retired phone
  again, are in `ChipHealth`.
* *Conversation*: one conversation that exists, whose lead is there and whose flow has a
  link, so that `getOrCreateTrackedLink` never returns null (`bridge.service.ts:27`, 31: the
  turn would then go on as one that releases none); every message has a `waMessageId`. What a text asks for is its intent. States, summary and OUT rows are read by no
  code that decides, so only their awaits are kept; `preview` writes nothing. The rows that
  suppression and scheduler write meanwhile are in `Dispatcher`. What becomes of an
  OUTBOUND job belongs to `SendPipeline`, its text to `Wording`.
* *SendPipeline*: one chip. An id is the place of a copy among the copies; typing and random
  delays take no time; a session that is not hosted and one that is not CONNECTED are the
  same to a send. Sessions come and go in `SessionSupervisor`.
* *DeliveryWatch*: one chip; the rows to look at are those of the openings, as only they
  bear ids; the counts `sweepReplyDrop` reads are any of `Traffic`. What a signal does to
  the score is in `ChipHealth`.
* *LeadImport*: a text is the number it stands for and its form of writing; the columns other
  than the telephone are left out. `ReadAs` is any function, where the library goes by the
  prefixes and lengths of Brazil. The transaction is one step; a chunk size of the insert is
  not seen from outside it. Leads stay as they enter, since claims are in `Dispatcher`.
* *Wording*: the row of an opening is one step after `ltrim`, as is a turn after its model
  answered; their awaits are in `Dispatcher` and `Conversation`. One flow (the list of a chip
  is shared by all its flows), and one lead followed at a time; a lead whose opening broke off
  after its row was made keeps that row, which is left out. Words are compared whole, where
  the code looks for parts of words, and no cut falls inside one; accents and case are folded
  away. A link is a word, a full stop and the end of a domain: the forms `http://` and `www.`,
  which the guard and `assertNoLink` also know, are left out.
* Not modelled: panel, authentication, configuration, proxies, health endpoint, flow CRUD
  (single rows, no behaviour of several steps); pairing codes and QR (`pair`, `pairState`: a
  key with an expiry that only the panel reads); the text of the prompt, the stub adapters
  and the `detectOptOut` heuristic (Conversation takes the intent as given).

## 7. Plan

Done: 1 `Dispatcher`, 2 `ChipHealth`, 3 `WriteBehind` and `AuthState`, 4
`SessionSupervisor`, 5 `Conversation`, 6 `SendPipeline` and `DeliveryWatch`, 7 `LeadImport`,
8 `Wording`, each with its proofs. In order of importance, what is left:

| Module | Subject | Properties | Theorems |
|---|---|---|---|
| 9 compositions | `SendPipeline` with `SessionSupervisor` and `ChipHealth`; `Dispatcher` with `ChipHealth`; the row `authState` shared with `ChipHealth` | a chip that is off sends nothing; a chip registered again has no old credentials | – |
| 10 `Pairing` | `pair`, the key with its expiry, QR and code events | the panel is shown the code of the attempt under way | – |

The abstract specification worth adding is that of the engine as a whole (a lead is
waiting, opened once, in conversation, or out), which `Dispatcher` with `Conversation`
should implement.
