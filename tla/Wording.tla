------------------------------- MODULE Wording -------------------------------
(***************************************************************************)
(* The texts one lead reads: the opening, a template of the flow filled in *)
(* with the data of the lead, and the replies, which the model writes, the *)
(* guard passes, the code adds the link to, and humanize.ts cuts into      *)
(* balloons.  The turns of a conversation come one at a time here; how     *)
(* they interleave is the subject of Conversation.                         *)
(*                                                                         *)
(* A text is a sequence of words, blanks and full stops; its length is     *)
(* theirs.  Two words with nothing but a full stop between them are a      *)
(* link when the second can end a domain, and else a number; "ponto" is    *)
(* the full stop of who hides one.  A template is a sequence of pieces: a  *)
(* literal text, its key Null, or a variable with its fallback.            *)
(***************************************************************************)
EXTENDS Integers, FiniteSets, SequencesExt

CONSTANTS
  Forbidden, Inviting,  \* words: guardRules.forbidden; those that invite a reply
  Endings,              \* the words assertNoLink knows as the end of a domain
  NoDomain,             \* the words that end none: figures, and a single letter
  Ids, Templates,       \* opening messages of the flow; the templates an operator writes
  Names, Metas,         \* the leads, by their name; and per lead the columns of its file
  FlowVars,             \* flow.variables
  Openers,              \* who may run tick(): the timer, and each call of its endpoint
  Raws,                 \* what the model may write
  Null,
  MAX_CHARS, LEAST_CUT, SPLIT,  \* maxChars, the 40 of the guard, the 140 of splitMessage
  RETRIES, ATTEMPTS,            \* of QwenAdapter and of generateGuarded
  RECENT, LAST,                 \* what the chip and what the guard remember
  MIN_TURNS,                    \* minInboundTurns
  Budgets                       \* bounds: the edits, openings and turns of a behaviour

Keys == {"nome", "link", "site"}
Stops == {".", "?"}
Blanks == {" ", "gap"}   \* one blank; a run of them
Marks == Stops \cup Blanks \cup {"ponto"}
Url == <<"go", ".", "com/r">>
Fallback == <<"posso", " ", "ajudar", "?">>

ASSUME LengthsAssumption ==
  /\ {MAX_CHARS, LEAST_CUT, SPLIT, RETRIES, MIN_TURNS} \subseteq Nat
  /\ {ATTEMPTS, RECENT, LAST} \subseteq Nat \ {0}
  /\ Budgets \subseteq [edits : Nat, opens : Nat, turns : Nat]

\* The literals of a template are what lies between two of its variables; the adapter trims
\* what the model writes, and an empty text is no answer.
ASSUME TextsAssumption ==
  /\ Templates \subseteq Seq([key : Keys \cup {Null}, text : Seq(STRING)])
  /\ \A template \in Templates : \A n \in DOMAIN template : template[n].key = Null =>
       template[n].text # <<>> /\ (n < Len(template) => template[n + 1].key # Null)
  /\ Names \subseteq STRING /\ Metas \in [Names -> [Keys -> Seq(STRING) \cup {Null}]]
  /\ FlowVars \in [Keys -> Seq(STRING) \cup {Null}]
  /\ Raws \subseteq Seq(STRING)
  /\ \A raw \in Raws : raw # <<>> /\ {raw[1], raw[Len(raw)]} \cap Blanks = {}
  /\ Forbidden \cap Marks = {}
  /\ NoDomain \cap (Endings \cup Marks \cup ToSet(Url)) = {}
  /\ Marks \cup ToSet(Url) \cup ToSet(Fallback) \subseteq STRING

VARIABLES
  templates,   \* the rows of OpeningMessage: its pieces and active; Null for no row
  recent,      \* opening:recent of the chip
  openers,     \* per run of tick(): the opening under way
  rows,        \* the OUT messages of the lead, in order
  linkSent,
  turn,        \* the turn under way
  budget,
  heard,       \* the turns of the lead so far
  picks,       \* history: the choices of the chip, the newest first
  lead, reply  \* history: the lead and template of rows; the last reply and its making

wordingVars ==
  <<templates, recent, openers, rows, linkSent, turn, budget, heard, picks, lead, reply>>
flow == <<templates, recent, openers, picks, lead>>

NoTurn == [at |-> "idle", attempt |-> 0, tries |-> 0, got |-> FALSE, allowed |-> FALSE]
NoOpening == [at |-> "idle", seen |-> [i \in Ids |-> Null], pick |-> Null, could |-> FALSE,
              blind |-> 0]
NoReply == [by |-> "none", cut |-> FALSE, linked |-> FALSE, text |-> <<>>, parts |-> <<>>]

-----------------------------------------------------------------------------
(* Texts.                                                                    *)

IsWord(x) == x \notin Marks
WordsOf(t) == FlattenSeq([i \in DOMAIN t |-> IF IsWord(t[i]) THEN <<t[i]>> ELSE <<>>])

Trim(t) ==
  LET solid == {i \in DOMAIN t : t[i] \notin Blanks}
  IN  IF solid = {} THEN <<>> ELSE SubSeq(t, Min(solid), Max(solid))

EndsDomain(x) == IsWord(x) /\ x \notin NoDomain

\* A full stop between a word and the end of a domain; spelled out, it may stand between
\* blanks.
DotAt(t, i) ==
  \/ /\ t[i] \in {".", "ponto"} /\ {i - 1, i + 1} \subseteq DOMAIN t
     /\ IsWord(t[i - 1]) /\ EndsDomain(t[i + 1])
  \/ /\ t[i] = "ponto" /\ {i - 2, i + 2} \subseteq DOMAIN t
     /\ {t[i - 1], t[i + 1]} \subseteq Blanks /\ IsWord(t[i - 2]) /\ EndsDomain(t[i + 2])
HasLink(t) == \E i \in DOMAIN t : DotAt(t, i)

Join(parts) ==
  FlattenSeq([n \in DOMAIN parts |-> IF n = 1 THEN parts[n] ELSE <<" ">> \o parts[n]])

-----------------------------------------------------------------------------
(* Openings.                                                                 *)

ListedLink(t) == \E i \in DOMAIN t : DotAt(t, i) /\ t[i] = "." /\ t[i + 1] \in Endings

\* Both read the source of the template, fallbacks included.
AssertNoLink(template) == \A n \in DOMAIN template : ~ListedLink(template[n].text)
AssertInvitesReply(template) ==
  \E n \in DOMAIN template : ToSet(template[n].text) \cap (Inviting \cup {"?"}) # {}
Accepted(template) == AssertNoLink(template) /\ AssertInvitesReply(template)

\* The extras hide the columns of the lead, these flow.variables, these the name: an empty
\* text hides as well as another.
BuildLeadContext(name, allowLink) ==
  [k \in Keys |->
    CASE allowLink /\ k = "link"   -> <<>>
      [] Metas[name][k] # Null     -> Metas[name][k]
      [] FlowVars[k] # Null        -> FlowVars[k]
      [] k = "nome"                -> <<name>>
      [] OTHER                     -> <<>>]

RenderTemplate(template, ctx) ==
  FlattenSeq([n \in DOMAIN template |->
    LET p == template[n]
    IN  IF p.key # Null /\ ctx[p.key] # <<>> THEN ctx[p.key] ELSE p.text])

Active == {i \in Ids : templates[i] # Null /\ templates[i].active}

\* The operator.  A refused call changes nothing.  The database gives a new row its id.
NewId == CHOOSE i \in Ids : templates[i] = Null

Create(template, active) ==
  /\ \E i \in Ids : templates[i] = Null
  /\ Accepted(template)
  /\ templates' = [templates EXCEPT ![NewId] = [pieces |-> template, active |-> active]]

\* [mutant] the checks of create() are missing from update()
UpdateUnchecked(i, template, active) ==
  /\ templates[i] # Null
  /\ templates' = [templates EXCEPT ![i] =
       [pieces |-> IF template = Null THEN @.pieces ELSE template, active |-> active]]

Update(i, template, active) ==
  /\ templates[i] # Null
  /\ template # Null => Accepted(template)
  /\ templates' = [templates EXCEPT ![i] =
       [pieces |-> IF template = Null THEN @.pieces ELSE template, active |-> active]]

Delete(i) ==
  /\ templates[i] # Null
  /\ templates' = [templates EXCEPT ![i] = Null]

Edit ==
  /\ budget.edits > 0
  /\ budget' = [budget EXCEPT !.edits = @ - 1]
  /\ \/ \E template \in Templates, active \in BOOLEAN : Create(template, active)
     \/ \E i \in Ids, template \in Templates \cup {Null}, active \in BOOLEAN :
          Update(i, template, active)
     \/ \E i \in Ids : Delete(i)
  /\ UNCHANGED <<recent, openers, rows, linkSent, turn, heard, picks, lead, reply>>

\* [mutant] ltrim counts from one
KeptFew(ids) == SubSeq(ids, 1, Min({RECENT - 1, Len(ids)}))

Kept(ids) == SubSeq(ids, 1, Min({RECENT, Len(ids)}))

\* tick() reads the templates; what an operator does to them from here on, this opening
\* does not see.
List(o) ==
  /\ openers[o] = NoOpening /\ budget.opens > 0 /\ Active # {}
  /\ openers' = [openers EXCEPT ![o].at = "listed",
       ![o].seen = [i \in Ids |-> IF i \in Active THEN templates[i].pieces ELSE Null]]
  /\ budget' = [budget EXCEPT !.opens = @ - 1]
  /\ UNCHANGED <<templates, recent, rows, linkSent, turn, heard, picks, lead, reply>>

Seen(o) == {i \in Ids : openers[o].seen[i] # Null}

\* The weights leave no template of the pool without a chance.
Pool(o) == IF Seen(o) \subseteq ToSet(recent) THEN Seen(o) ELSE Seen(o) \ ToSet(recent)

\* lrange, and the draw; another run may be anywhere between its own lrange and ltrim.
Choose(o, i) ==
  /\ openers[o].at = "listed" /\ i \in Pool(o)
  /\ openers' = [openers EXCEPT ![o].at = "chosen", ![o].pick = i,
       ![o].could = Cardinality(Seen(o)) > Len(recent)]
  /\ UNCHANGED <<templates, recent, rows, linkSent, turn, budget, heard, picks, lead, reply>>

\* lpush; a run that has read the list and not yet pushed misses this one.
Push(o) ==
  /\ openers[o].at = "chosen"
  /\ recent' = <<openers[o].pick>> \o recent
  /\ picks' = <<[id |-> openers[o].pick, could |-> openers[o].could,
                 blind |-> openers[o].blind]>> \o picks
  /\ openers' = [p \in Openers |->
       IF p = o THEN [openers[o] EXCEPT !.at = "pushed"]
       ELSE IF openers[p].at = "chosen" THEN [openers[p] EXCEPT !.blind = @ + 1]
       ELSE openers[p]]
  /\ UNCHANGED <<templates, rows, linkSent, turn, budget, heard, lead, reply>>

LTrim(o) ==
  /\ openers[o].at = "pushed"
  /\ openers' = [openers EXCEPT ![o].at = "trimmed"]
  /\ recent' = Kept(recent)
  /\ UNCHANGED <<templates, rows, linkSent, turn, budget, heard, picks, lead, reply>>

\* The row of the opening, and the conversation that starts with it.  It is the lead whose
\* conversation is followed here, or another one.
Open(o, name, allowLink) ==
  /\ openers[o].at = "trimmed"
  /\ openers' = [openers EXCEPT ![o] = NoOpening]
  /\ LET pieces == openers[o].seen[openers[o].pick]
     IN  \/ /\ turn = NoTurn /\ heard = 0
            /\ rows' = <<RenderTemplate(pieces, BuildLeadContext(name, allowLink))>>
            /\ lead' = [name |-> name, pieces |-> pieces]
         \/ UNCHANGED <<rows, lead>>
  /\ UNCHANGED <<templates, recent, linkSent, turn, budget, heard, picks, reply>>

\* No chip or no lead, a claim lost, an exception or a crash: no opening, and what was
\* pushed stays.
Abandon(o) ==
  /\ openers[o] # NoOpening
  /\ openers' = [openers EXCEPT ![o] = NoOpening]
  /\ UNCHANGED <<templates, recent, rows, linkSent, turn, budget, heard, picks, lead, reply>>

Opening(o) ==
  \/ List(o) \/ Push(o) \/ LTrim(o) \/ Abandon(o)
  \/ \E i \in Ids : Choose(o, i)
  \/ \E name \in Names, allowLink \in BOOLEAN : Open(o, name, allowLink)

\* The seven days of `recent` run out; after the last opening nobody would see it.
Expire ==
  /\ recent # <<>> /\ budget.opens > 0
  /\ recent' = <<>> /\ picks' = <<>>
  /\ UNCHANGED <<templates, openers, rows, linkSent, turn, budget, heard, lead, reply>>

-----------------------------------------------------------------------------
(* The guard.                                                                *)

Norm(t) == Trim([i \in DOMAIN t |-> IF t[i] = "gap" THEN " " ELSE t[i]])

\* The last OUT messages; the openings count.
RecentBot == SubSeq(rows, Max({1, Len(rows) - LAST + 1}), Len(rows))

\* [mutant] a link that is spelled out is no link
LinkStrippedPlain(t) == \E i \in DOMAIN t : t[i] = "." /\ DotAt(t, i)

\* Taking links out also folds the blanks, and the comparison sees either.
LinkStripped(t) == HasLink(t) \/ "gap" \in ToSet(t)

Overpromise(t) == ToSet(t) \cap Forbidden # {}

Repeat(t) == \E n \in DOMAIN RecentBot : Norm(RecentBot[n]) = Norm(t)

HasWord(t) == \E i \in DOMAIN t : IsWord(t[i])

Passes(t) == ~LinkStripped(t) /\ ~Overpromise(t) /\ HasWord(t) /\ ~Repeat(t)

\* Cut at the last full stop with a blank after it, unless that leaves too little; 0 is no
\* limit.
Truncated(t) ==
  LET cut == SubSeq(t, 1, MAX_CHARS)
      ends == {i \in 1..MAX_CHARS - 1 : cut[i] \in Stops /\ cut[i + 1] = " " /\ i > LEAST_CUT + 1}
  IN  IF MAX_CHARS = 0 \/ Len(t) <= MAX_CHARS THEN t
      ELSE Trim(IF ends = {} THEN cut ELSE SubSeq(cut, 1, Max(ends)))

-----------------------------------------------------------------------------
(* The balloons.                                                             *)

\* A sentence ends with a run of full stops; what comes after the last one is another.
EndsSentence(t, i) ==
  /\ t[i] \notin Blanks /\ \E j \in 1..i : t[j] \notin Stops
  /\ IF t[i] \in Stops THEN i = Len(t) \/ t[i + 1] \notin Stops
     ELSE \A j \in i + 1..Len(t) : t[j] \in Blanks

Nth(S, n) == CHOOSE i \in S : Cardinality({j \in S : j < i}) = n - 1

Sentences(t) ==
  LET from == Min({i \in DOMAIN t : t[i] \notin Stops})
      ends == {i \in DOMAIN t : EndsSentence(t, i)}
  IN  [n \in 1..Cardinality(ends) |->
        Trim(SubSeq(t, IF n = 1 THEN from ELSE Nth(ends, n - 1) + 1, Nth(ends, n)))]

MaxParts == 3

\* [mutant] the division rounds down
PerPartDown(n) == Max({1, n \div MaxParts})

PerPart(n) == (n + MaxParts - 1) \div MaxParts

SplitMessage(t) ==
  LET s   == Sentences(t)
      per == PerPart(Len(s))
      all == [n \in 1..(Len(s) + per - 1) \div per |->
                Join(SubSeq(s, (n - 1) * per + 1, Min({n * per, Len(s)})))]
  IN  IF Len(t) <= SPLIT \/ Len(s) <= 1 THEN <<t>> ELSE SubSeq(all, 1, Min({MaxParts, Len(all)}))

-----------------------------------------------------------------------------
(* A turn.                                                                   *)

\* The gate: enough messages of the lead; whether this one has a word of intent is its choice.
ShouldReleaseLink(wants) == wants /\ heard + 1 >= MIN_TURNS

Ask(wants) ==
  /\ turn = NoTurn /\ budget.turns > 0 /\ rows # <<>>
  /\ budget' = [budget EXCEPT !.turns = @ - 1]
  /\ turn' = [NoTurn EXCEPT !.at = "model", !.allowed = ShouldReleaseLink(wants)]
  /\ UNCHANGED <<flow, rows, linkSent, heard, reply>>

\* The link, which the code adds and no guard reads, and the balloons of the reply.
Send(text, by, cut) ==
  LET linked == turn.allowed /\ ~linkSent
      whole  == IF linked THEN text \o <<"gap">> \o Url ELSE text
      parts  == SplitMessage(whole)
  IN  /\ rows' = rows \o parts
      /\ linkSent' = (linkSent \/ linked)
      /\ reply' = [by |-> by, cut |-> cut, linked |-> linked, text |-> text, parts |-> parts]
      /\ turn' = NoTurn
      /\ heard' = heard + 1

NextAttempt == [turn EXCEPT !.attempt = @ + 1, !.tries = 0]
LastAttempt == turn.attempt + 1 >= ATTEMPTS

\* The model answers; what the guard rejects is asked for again, once.
Answer(raw) ==
  /\ turn.at = "model"
  /\ \/ /\ Passes(raw)
        /\ Send(Truncated(raw), "model", Truncated(raw) # raw)
     \/ /\ ~Passes(raw) /\ LastAttempt
        /\ Send(Fallback, "fallback", FALSE)
     \/ /\ ~Passes(raw) /\ ~LastAttempt
        /\ turn' = [NextAttempt EXCEPT !.got = TRUE]
        /\ UNCHANGED <<rows, linkSent, heard, reply>>
  /\ UNCHANGED <<flow, budget>>

\* No answer: 30 s are over, the network is down, an HTTP error or an empty text.  The
\* adapter tries again unless the error is final.
NoAnswer(final) ==
  /\ turn.at = "model"
  /\ \/ /\ ~final /\ turn.tries < RETRIES
        /\ turn' = [turn EXCEPT !.tries = @ + 1]
        /\ UNCHANGED <<rows, linkSent, heard, reply>>
     \/ /\ final \/ turn.tries = RETRIES
        /\ \/ /\ ~LastAttempt
              /\ turn' = NextAttempt
              /\ UNCHANGED <<rows, linkSent, heard, reply>>
           \/ /\ LastAttempt /\ turn.got
              /\ Send(Fallback, "fallback", FALSE)
           \/ /\ LastAttempt /\ ~turn.got   \* the job of the inbound queue fails
              /\ turn' = NoTurn
              /\ UNCHANGED <<rows, linkSent, heard, reply>>
  /\ UNCHANGED <<flow, budget>>

Model == (\E raw \in Raws : Answer(raw)) \/ (\E final \in BOOLEAN : NoAnswer(final))

WordingInit ==
  /\ templates = [i \in Ids |-> Null]
  /\ recent = <<>> /\ openers = [o \in Openers |-> NoOpening] /\ rows = <<>> /\ linkSent = FALSE /\ turn = NoTurn
  /\ budget \in Budgets /\ heard = 0
  /\ picks = <<>> /\ lead = Null /\ reply = NoReply

WordingNext ==
  \/ Edit
  \/ \E o \in Openers : Opening(o)
  \/ Expire
  \/ \E wants \in BOOLEAN : Ask(wants)
  \/ Model

WordingSpec == WordingInit /\ [][WordingNext]_wordingVars

-----------------------------------------------------------------------------
(* Properties.                                                               *)

\* Types.
WordingOK ==
  /\ \A i \in Ids : templates[i] = Null \/ (templates[i].pieces \in Templates
                                            /\ templates[i].active \in BOOLEAN)
  /\ recent \in Seq(Ids)
  /\ openers \in [Openers -> [at : {"idle", "listed", "chosen", "pushed", "trimmed"},
                              seen : [Ids -> Templates \cup {Null}], pick : Ids \cup {Null},
                              could : BOOLEAN, blind : Nat]]
  /\ linkSent \in BOOLEAN /\ heard \in Nat /\ budget \in [edits : Nat, opens : Nat, turns : Nat]
  /\ turn \in [at : {"idle", "model"}, attempt : 0..ATTEMPTS - 1, tries : 0..RETRIES,
               got : BOOLEAN, allowed : BOOLEAN]
  /\ \A n \in DOMAIN rows : rows[n] # <<>>

\* The rotation of opening:recent works as far as its steps allow: a run of tick() that was
\* handed more templates than the list it read is long does not choose one of the RECENT
\* last choices of the chip, sent or not, but for those (`blind`) another run pushed after
\* that list was read.
Rotates ==
  \A n \in DOMAIN picks : picks[n].could =>
    \A m \in n + picks[n].blind + 1..n + picks[n].blind + RECENT :
      m \in DOMAIN picks => picks[m].id # picks[n].id

\* A variable that stands alone between blanks.
Spaced(pieces) ==
  \A n \in DOMAIN pieces : pieces[n].key # Null =>
    /\ n > 1 => pieces[n - 1].key = Null /\ Last(pieces[n - 1].text) \in Blanks
    /\ n < Len(pieces) => pieces[n + 1].key = Null /\ Head(pieces[n + 1].text) \in Blanks \cup {"?"}

\* "abertura NUNCA leva link": an opening with a domain assertNoLink knows has it from the
\* data of the lead or of the flow, or put together where a variable touches a text.
OpeningClean ==
  lead # Null /\ Spaced(lead.pieces) /\ ListedLink(rows[1]) =>
    \E k \in Keys : \E t \in {Metas[lead.name][k], FlowVars[k]} : t # Null /\ ListedLink(t)

\* What a reply of the model says before the Url of the code, which a gap announces.
Own(t) ==
  LET gaps == {i \in DOMAIN t : t[i] = "gap"}
  IN  IF gaps = {} THEN t ELSE SubSeq(t, 1, Min(gaps) - 1)

\* Nothing the guard rejects reaches the lead, though it reads neither the text that is cut
\* nor the balloons: no link, plain or spelled out, other than the Url of the code, no
\* forbidden word, and no reply in one balloon that repeats one of the LAST messages.
Sanitised ==
  /\ \A n \in DOMAIN reply.parts : ~HasLink(Own(reply.parts[n])) /\ ~Overpromise(reply.parts[n])
  /\ reply.by = "model" /\ ~reply.cut /\ ~reply.linked /\ Len(reply.parts) = 1 =>
       \A n \in Max({1, Len(rows) - LAST})..Len(rows) - 1 : Norm(rows[n]) # Norm(rows[Len(rows)])

\* One to MaxParts balloons hold every word of the reply and of its link in their order,
\* whatever is cut, divided and sliced off; a reply of up to SPLIT with its link is one
\* balloon, as written.  In a longer one a full stop within a number, or within the Url, is
\* the end of a sentence, and the two sides of it may come apart.
BalloonsWhole ==
  LET whole == IF reply.linked THEN reply.text \o <<"gap">> \o Url ELSE reply.text
  IN  reply.by # "none" =>
        /\ Len(reply.parts) \in 1..MaxParts
        /\ WordsOf(FlattenSeq(reply.parts)) = WordsOf(whole)
        /\ Len(whole) <= SPLIT => reply.parts = <<whole>>
=============================================================================
