------------------------------ MODULE LeadImport ------------------------------
(***************************************************************************)
(* The import of a file of leads and the suppression list it is crossed    *)
(* with.  import() reads the leads of the flow, then the list, each in     *)
(* chunks, and writes what it concluded in one transaction at the end.     *)
(* suppress() and unsuppress() write the list and then the leads, outside  *)
(* any transaction.  The calls of an HTTP server interleave at each await. *)
(*                                                                         *)
(* A file is its format, the headings of its columns and its rows, one     *)
(* text per column.  A text is the number it stands for, None for no       *)
(* number, and its form of writing.                                        *)
(***************************************************************************)
EXTENDS Integers, FiniteSets, Sequences

CONSTANTS
  Flows, Phones, Files,
  Imports, Callers,   \* calls of import(), and of suppress() or unsuppress()
  None,
  ReadAs,             \* the phone that libphonenumber makes of the digits of a foreign number
                      \* without its "+", taken for Brazilian ones; None if it is not valid
  CHUNK,              \* DB_PARAM_CHUNK
  SAMPLE,             \* the rows columnLooksLikePhone looks at
  MaxOps, MaxFaults   \* bounds: the calls of Callers, the exceptions

Headings == {"strong", "weak", "hasStrong", "hasWeak", "name", "other"}
Forms == {"plus", "ddi", "national", "foreign", "empty"}
Texts == [number : Phones \cup {None}, form : Forms]

ASSUME FilesAssumption ==
  \A f \in Files : /\ f.format \in {"csv", "xlsx", "unknown"} /\ f.signed \in BOOLEAN
                   /\ f.heads \in Seq(Headings)
                   /\ f.rows \in Seq([1..Len(f.heads) -> Texts])

ASSUME LimitsAssumption ==
  /\ None \notin Phones /\ None \notin Imports
  /\ ReadAs \in [Phones -> Phones \cup {None}]
  /\ CHUNK \in Nat \ {0} /\ SAMPLE \in Nat \ {0}
  /\ MaxOps \in Nat /\ MaxFaults \in Nat

VARIABLES
  leads,         \* per flow and phone: the row of the lead, its `by` None for no row
  listed,        \* the table Suppression
  imports,       \* per call of import(): its step and its locals
  calls,         \* per caller: its step and its phone
  ops, faults,   \* budgets
  inside, excused  \* history variables: no guard or state write reads them

Kept == [row : Nat \ {0}, phone : Phones]
Counts == [total : Nat, invalid : Nat, duplicates : Nat, inserted : Nat, skipped : Nat,
           suppressed : Nat]

ImportState ==
  [step : {"idle", "rejected", "existing", "hushed", "insert", "done", "failed"},
   flow : Flows \cup {None}, file : Files \cup {None}, clean : SUBSET Kept, at : Nat,
   existing : SUBSET Phones, hushed : SUBSET Phones, counts : Counts]
CallState == {w \in [step : {"idle", "mark", "unflag", "restore"}, phone : Phones \cup {None},
                     after : SUBSET Imports] : w.step # "idle" => w.phone \in Phones}

Lead == [by : Imports \cup {None}, row : Nat, suppressed : BOOLEAN,
         status : {"PENDING", "SUPPRESSED"}]

LeadsOK == leads \in [Flows \X Phones -> Lead]

\* The rows of leads are those of imports that committed.
ImportsOK ==
  /\ imports \in [Imports -> ImportState]
  /\ \A i \in Imports : imports[i].step \notin {"idle", "rejected"} =>
       imports[i].flow \in Flows /\ imports[i].file \in Files
  /\ \A k \in DOMAIN leads : leads[k].by # None => imports[leads[k].by].step = "done"

CallsOK == /\ calls \in [Callers -> CallState] /\ listed \subseteq Phones
           /\ ops \in Nat /\ faults \in Nat
           /\ inside \in [Imports -> SUBSET Phones] /\ excused \subseteq Phones

TypeOK == LeadsOK /\ ImportsOK /\ CallsOK

vars == <<leads, listed, imports, calls, ops, faults, inside, excused>>

NoLead == [by |-> None, row |-> 0, suppressed |-> FALSE, status |-> "PENDING"]
NoCall == [step |-> "idle", phone |-> None, after |-> {}]
NoCounts == [total |-> 0, invalid |-> 0, duplicates |-> 0, inserted |-> 0, skipped |-> 0,
             suppressed |-> 0]
NotBegun == [step |-> "idle", flow |-> None, file |-> None, clean |-> {}, at |-> 0,
             existing |-> {}, hushed |-> {}, counts |-> NoCounts]

-----------------------------------------------------------------------------
(* The file: parseFile, detectColumns and normalizeE164.                    *)

Rejected(f) == f.format = "unknown" \/ (f.format = "xlsx" /\ ~f.signed) \/ f.rows = <<>>

Known == {"plus", "ddi", "national"}

\* normalizeE164: with "+" any country; without it, digits are a number with its 55 if they
\* are twelve or more and begin so, and otherwise a Brazilian one, whosever they are.
Normal(t) ==
  IF t.number = None THEN None
  ELSE IF t.form \in Known THEN t.number
  ELSE IF t.form = "foreign" THEN ReadAs[t.number] ELSE None

Score(h) == CASE h = "strong" -> 4 [] h = "weak" -> 3 [] h = "hasStrong" -> 2
              [] h = "hasWeak" -> 1 [] OTHER -> 0

Candidates(f) == {k \in DOMAIN f.heads : Score(f.heads[k]) > 0}

\* The first of the columns by decreasing score; the sort is stable.
Best(f, columns) ==
  CHOOSE k \in columns : \A j \in columns :
    \/ Score(f.heads[k]) > Score(f.heads[j])
    \/ Score(f.heads[k]) = Score(f.heads[j]) /\ k <= j

\* At least half of the texts of the sample, empty ones aside, are phones.
ColumnLooksLikePhone(f, k) ==
  LET texts == {r \in DOMAIN f.rows : r <= SAMPLE /\ f.rows[r][k].form # "empty"}
      good  == {r \in texts : Normal(f.rows[r][k]) # None}
  IN  texts # {} /\ 2 * Cardinality(good) >= Cardinality(texts)

\* [mutant] the best name wins, whatever the column holds
PhoneKeyByName(f) == IF Candidates(f) = {} THEN 0 ELSE Best(f, Candidates(f))

\* The first that looks like a phone, or else the best name; 0 for no column.
PhoneKey(f) ==
  LET likely == {k \in Candidates(f) : ColumnLooksLikePhone(f, k)}
  IN  IF Candidates(f) = {} THEN 0 ELSE Best(f, IF likely # {} THEN likely ELSE Candidates(f))

\* The valid rows, each the number of its row and its phone.
Cleaned(f) ==
  LET key == PhoneKey(f)
  IN  {c \in [row : 1..Len(f.rows), phone : Phones] : Normal(f.rows[c.row][key]) = c.phone}

\* The first row of each phone.
InFileDeduped(clean) ==
  {c \in clean : ~\E d \in clean : d.phone = c.phone /\ d.row < c.row}

-----------------------------------------------------------------------------
Init ==
  /\ leads = [k \in Flows \X Phones |-> NoLead]
  /\ listed = {}
  /\ imports = [i \in Imports |-> NotBegun]
  /\ calls = [c \in Callers |-> NoCall]
  /\ ops = 0 /\ faults = 0
  /\ inside = [i \in Imports |-> {}] /\ excused = {}

Exists(f, p) == leads[<<f, p>>].by # None

-----------------------------------------------------------------------------
(* import().                                                                *)

\* The flow was found; up to the first read of the leads nothing awaits.
Begin(i, flow, f) ==
  /\ imports[i].step = "idle"
  /\ IF Rejected(f) \/ PhoneKey(f) = 0
     THEN imports' = [imports EXCEPT ![i].step = "rejected"]
     ELSE LET clean == Cleaned(f)
              kept  == InFileDeduped(clean)
          IN  imports' = [imports EXCEPT ![i] =
                [NotBegun EXCEPT
                   !.step = "existing", !.flow = flow, !.file = f, !.clean = kept,
                   !.counts = [NoCounts EXCEPT
                                 !.total = Len(f.rows),
                                 !.invalid = Len(f.rows) - Cardinality(clean),
                                 !.duplicates = Cardinality(clean) - Cardinality(kept)]]]
  /\ UNCHANGED <<leads, listed, calls, ops, faults, inside, excused>>

\* The place of a row among those that are kept, and the phones of the next chunk.
Place(m, c) == Cardinality({d \in m.clean : d.row <= c.row})
Chunk(m) == {c.phone : c \in {d \in m.clean : m.at < Place(m, d) /\ Place(m, d) <= m.at + CHUNK}}
LastChunk(m) == m.at + CHUNK >= Cardinality(m.clean)

\* collectPhones() of the leads of the flow.
ReadExisting(i) ==
  LET m == imports[i]
  IN  /\ m.step = "existing"
      /\ imports' = [imports EXCEPT ![i] =
           [m EXCEPT !.existing = @ \cup {p \in Chunk(m) : Exists(m.flow, p)},
                     !.at = IF LastChunk(m) THEN 0 ELSE @ + CHUNK,
                     !.step = IF LastChunk(m) THEN "hushed" ELSE @]]
      /\ UNCHANGED <<leads, listed, calls, ops, faults, inside, excused>>

\* [mutant] the existing phones are not counted as duplicates
CountedInFile(m) == [m.counts EXCEPT !.suppressed = Cardinality(m.hushed)]

\* The counters, once both sets are there.
Counted(m) ==
  [m.counts EXCEPT !.suppressed = Cardinality(m.hushed),
                   !.duplicates = @ + Cardinality(m.existing)]

\* [mutant] only the first chunk is crossed with the list
HushedFirst(m) == IF m.at = 0 THEN Chunk(m) \cap listed ELSE {}

\* collectPhones() of the list.
Hushed(m) == Chunk(m) \cap listed

ReadSuppressed(i) ==
  LET m == imports[i]
      n == [m EXCEPT !.hushed = @ \cup Hushed(m)]
  IN  /\ m.step = "hushed"
      /\ imports' = [imports EXCEPT ![i] =
           IF LastChunk(m) THEN [n EXCEPT !.step = "insert", !.counts = Counted(n)]
           ELSE [n EXCEPT !.at = @ + CHUNK]]
      /\ UNCHANGED <<leads, listed, calls, ops, faults, inside, excused>>

\* The rows of the transaction.
Novos(m) == {c \in m.clean : c.phone \notin m.existing}

\* [mutant] createMany replaces the rows that are there
InsertedAnyway(m) == Novos(m)

\* skipDuplicates: the unique pair of flow and phone, as it is at the commit.
Inserted(m) == {c \in Novos(m) : ~Exists(m.flow, c.phone)}

Commit(i) ==
  LET m == imports[i]
      new == Inserted(m)
      lead(c) == [by |-> i, row |-> c.row, suppressed |-> c.phone \in m.hushed,
                  status |-> IF c.phone \in m.hushed THEN "SUPPRESSED" ELSE "PENDING"]
  IN  /\ m.step = "insert"
      /\ leads' = [k \in DOMAIN leads |->
           IF k[1] = m.flow /\ \E c \in new : c.phone = k[2]
           THEN lead(CHOOSE c \in new : c.phone = k[2]) ELSE leads[k]]
      /\ imports' = [imports EXCEPT
           ![i].step = "done",
           ![i].counts = [@ EXCEPT !.inserted = Cardinality(new),
                                   !.skipped = Cardinality(Novos(m)) - Cardinality(new)]]
      /\ excused' = excused \cup inside[i]
      /\ UNCHANGED <<listed, calls, ops, faults, inside>>

\* An await throws, the transaction times out or the core dies: it is rolled back.
ImportFails(i) ==
  /\ imports[i].step \in {"existing", "hushed", "insert"}
  /\ faults < MaxFaults /\ faults' = faults + 1
  /\ imports' = [imports EXCEPT ![i].step = "failed"]
  /\ UNCHANGED <<leads, listed, calls, ops, inside, excused>>

-----------------------------------------------------------------------------
(* suppress() and unsuppress().                                             *)

BusyWith(p) == {c \in Callers : calls[c].step # "idle" /\ calls[c].phone = p}

\* The imports that have read the list for the phone and have not written.
Concluded(p) ==
  {i \in Imports : \E c \in imports[i].clean :
     /\ c.phone = p
     /\ \/ imports[i].step = "insert"
        \/ imports[i].step = "hushed" /\ Place(imports[i], c) <= imports[i].at}

\* A call on p begins; it excuses nothing if it is alone and its write of the list lands.
Beginning(c, p, step, lands) ==
  /\ calls[c].step = "idle" /\ ops < MaxOps /\ ops' = ops + 1
  /\ calls' = [calls EXCEPT ![c] = [step |-> step, phone |-> p, after |-> Concluded(p)]]
  /\ excused' = IF lands /\ BusyWith(p) = {} THEN excused \ {p} ELSE excused \cup {p}
  /\ UNCHANGED <<leads, imports, inside>>

\* It writes the leads: an import that read the list before it began has not written yet.
Marking(c) ==
  inside' = [i \in Imports |-> IF i \in calls[c].after \cap Concluded(calls[c].phone)
                               THEN inside[i] \cup {calls[c].phone} ELSE inside[i]]

\* The rows of the phone in every flow.
RowsOf(p) == {k \in DOMAIN leads : k[2] = p /\ leads[k].by # None}

\* suppress(): the upsert,
Upsert(c, p) ==
  listed' = listed \cup {p} /\ Beginning(c, p, "mark", TRUE) /\ UNCHANGED faults

Suppressed(l) == [l EXCEPT !.suppressed = TRUE, !.status = "SUPPRESSED"]

\* and the leads.
MarkSuppressed(c) ==
  /\ calls[c].step = "mark"
  /\ leads' = [k \in DOMAIN leads |->
       IF k \in RowsOf(calls[c].phone) THEN Suppressed(leads[k]) ELSE leads[k]]
  /\ Marking(c)
  /\ calls' = [calls EXCEPT ![c] = NoCall]
  /\ UNCHANGED <<listed, imports, ops, faults, excused>>

\* unsuppress(): the delete, any error of which is swallowed,
Delete(c, p) ==
  \/ listed' = listed \ {p} /\ Beginning(c, p, "unflag", TRUE) /\ UNCHANGED faults
  \/ /\ faults < MaxFaults /\ faults' = faults + 1
     /\ Beginning(c, p, "unflag", FALSE) /\ UNCHANGED listed

\* the flag,
Unflag(c) ==
  /\ calls[c].step = "unflag"
  /\ leads' = [k \in DOMAIN leads |->
       IF k \in RowsOf(calls[c].phone) THEN [leads[k] EXCEPT !.suppressed = FALSE] ELSE leads[k]]
  /\ Marking(c)
  /\ calls' = [calls EXCEPT ![c].step = "restore"]
  /\ UNCHANGED <<listed, imports, ops, faults, excused>>

\* and the status.
Restore(c) ==
  /\ calls[c].step = "restore"
  /\ leads' = [k \in DOMAIN leads |->
       IF k \in RowsOf(calls[c].phone) /\ leads[k].status = "SUPPRESSED"
       THEN [leads[k] EXCEPT !.status = "PENDING"] ELSE leads[k]]
  /\ calls' = [calls EXCEPT ![c] = NoCall]
  /\ UNCHANGED <<listed, imports, ops, faults, inside, excused>>

\* An await throws, or the core dies, after the list was written.
CallFails(c) ==
  /\ calls[c].step # "idle"
  /\ faults < MaxFaults /\ faults' = faults + 1
  /\ calls' = [calls EXCEPT ![c] = NoCall]
  /\ excused' = excused \cup {calls[c].phone}
  /\ UNCHANGED <<leads, listed, imports, ops, inside>>

-----------------------------------------------------------------------------
Next ==
  \/ \E i \in Imports, flow \in Flows, f \in Files : Begin(i, flow, f)
  \/ \E i \in Imports : ReadExisting(i) \/ ReadSuppressed(i) \/ Commit(i) \/ ImportFails(i)
  \/ \E c \in Callers, p \in Phones : Upsert(c, p) \/ Delete(c, p)
  \/ \E c \in Callers : MarkSuppressed(c) \/ Unflag(c) \/ Restore(c) \/ CallFails(c)

Spec == Init /\ [][Next]_vars

-----------------------------------------------------------------------------
(* Properties.                                                               *)

LeadsOf(i) == {k \in DOMAIN leads : leads[k].by = i}

\* Every row of the file is accounted for once in the answer, and inserted is the number
\* of leads the import really left, whatever ran beside it (lead-import.service.ts:124).
Reconciles ==
  \A i \in Imports : imports[i].step = "done" =>
    LET c == imports[i].counts
    IN  /\ c.total = c.invalid + c.duplicates + c.inserted + c.skipped
        /\ c.inserted = Cardinality(LeadsOf(i))

\* Where no call on the phone is running, the leads of a phone are suppressed exactly if
\* it is on the list, but for three cases: two calls on it overlapped; one was cut, or its
\* delete failed unnoticed (suppression.service.ts:45); or a call wrote list and leads
\* entirely between an import's read of the list and its commit.  The next call on the
\* phone puts an end to each of them.
InStep ==
  \A p \in Phones \ excused : BusyWith(p) = {} =>
    \A f \in Flows : Exists(f, p) =>
      /\ leads[<<f, p>>].suppressed = (p \in listed)
      /\ (leads[<<f, p>>].status = "SUPPRESSED") = (p \in listed)

\* The text is of the phone, in a form the code reads; or of another one abroad, whose
\* digits it takes for the phone.
Means(t, p) == t.form \in Known /\ t.number = p
Mistaken(t, p) == t.form = "foreign" /\ t.number # None /\ ReadAs[t.number] = p

\* If a column with a likely name holds phones, leads come of the file, whatever the names
\* of the others (lead-import.service.ts:268-283, 296-323).  The row of a lead is of its
\* phone, and none above it is; unless the row is of a number abroad without its "+", which
\* phone.ts:20-25 may read as a valid Brazilian phone, and put before the rows of that phone.
FileRead ==
  /\ \A i \in Imports : imports[i].step \notin {"idle", "rejected"} =>
       LET f == imports[i].file
       IN  (\E k \in Candidates(f) : ColumnLooksLikePhone(f, k)) => imports[i].clean # {}
  /\ \A k \in DOMAIN leads : Exists(k[1], k[2]) =>
       LET f == imports[leads[k].by].file
           text(r) == f.rows[r][PhoneKey(f)]
           row == leads[k].row
       IN  /\ row \in DOMAIN f.rows
           /\ Means(text(row), k[2]) \/ Mistaken(text(row), k[2])
           /\ \A r \in DOMAIN f.rows :
                Means(text(r), k[2]) \/ Mistaken(text(r), k[2]) => r >= row

\* An import never writes over a lead: not its origin, nor what became of it.
NoOverwrite ==
  [][\A k \in DOMAIN leads : leads[k].by # None /\ calls' = calls => leads'[k] = leads[k]]_vars
=============================================================================
