-------------------------- MODULE LeadImportProofs --------------------------
(***************************************************************************)
(* Theorems about LeadImport, for any flows, phones, files, chunk, calls    *)
(* and bounds.                                                              *)
(***************************************************************************)
EXTENDS LeadImport, SequenceTheorems, FunctionTheorems, FiniteSetTheorems,
        WellFoundedInduction, TLAPS

-----------------------------------------------------------------------------
(* The rows that are kept of a file.                                         *)

\* A row gives one entry at most.
LEMMA CleanedIs ==
  ASSUME NEW f \in Files
  PROVE  /\ Cleaned(f) \subseteq Kept /\ IsFiniteSet(Cleaned(f))
         /\ Len(f.rows) \in Nat /\ Cardinality(Cleaned(f)) \in 0..Len(f.rows)
<1> DEFINE n == Len(f.rows)
           g == [c \in Cleaned(f) |-> c.row]
<1>1. n \in Nat
  BY FilesAssumption, LenProperties
<1>2. Cleaned(f) \subseteq [row : 1..n, phone : Phones]
  BY DEF Cleaned
<1>3. \A c, d \in Cleaned(f) : c.row = d.row => c = d
  <2> SUFFICES ASSUME NEW c \in Cleaned(f), NEW d \in Cleaned(f), c.row = d.row PROVE c = d
    OBVIOUS
  <2>1. c.phone = d.phone
    BY DEF Cleaned
  <2> QED
    BY <1>2, <2>1
<1>4. g \in Injection(Cleaned(f), 1..n)
  BY <1>2, <1>3 DEF Injection, IsInjective
<1>5. IsFiniteSet(1..n) /\ Cardinality(1..n) = n
  BY <1>1, FS_Interval, 1 \in Int, n \in Int
<1> HIDE DEF g, n
<1>6. IsFiniteSet(Cleaned(f)) /\ Cardinality(Cleaned(f)) <= n
  BY <1>4, <1>5, FS_Injection
<1>7. Cardinality(Cleaned(f)) \in Nat
  BY <1>6, FS_CardinalityType
<1> QED
  BY <1>1, <1>2, <1>6, <1>7 DEF Kept, n

\* Of the rows of a phone one is kept, the first.
LEMMA DedupedIs ==
  ASSUME NEW f \in Files, NEW kept, kept = InFileDeduped(Cleaned(f))
  PROVE  /\ kept \subseteq Cleaned(f) /\ kept \subseteq Kept /\ IsFiniteSet(kept)
         /\ Cardinality(kept) \in 0..Cardinality(Cleaned(f))
         /\ \A c, d \in kept : c.phone = d.phone => c = d
<1>1. kept \subseteq Cleaned(f)
  BY DEF InFileDeduped
<1>2. IsFiniteSet(kept) /\ Cardinality(kept) <= Cardinality(Cleaned(f))
  BY <1>1, CleanedIs, FS_Subset
<1>3. Cardinality(kept) \in Nat /\ Cardinality(Cleaned(f)) \in Nat
  BY <1>2, CleanedIs, FS_CardinalityType
<1>4. ASSUME NEW c \in kept, NEW d \in kept, c.phone = d.phone PROVE c = d
  <2>1. ~(c.row < d.row) /\ ~(d.row < c.row)
    BY <1>1, <1>4 DEF InFileDeduped
  <2>2. c \in Kept /\ d \in Kept
    BY <1>1, CleanedIs
  <2>3. c.row = d.row
    BY <2>1, <2>2 DEF Kept
  <2> QED
    BY <1>4, <2>2, <2>3 DEF Kept
<1> QED
  BY <1>1, <1>2, <1>3, <1>4, CleanedIs

-----------------------------------------------------------------------------
(* What an import has read, type correctness, and NoOverwrite.               *)

PhonesIn(m) == {c.phone : c \in m.clean}

Begun(m) == m.step \notin {"idle", "rejected"}

\* What is kept comes of the file, and what is read is of what is kept.
Sound(m) == Begun(m) => /\ m.clean = InFileDeduped(Cleaned(m.file))
                        /\ m.existing \subseteq PhonesIn(m) /\ m.hushed \subseteq PhonesIn(m)

ReadsSound == \A i \in Imports : Sound(imports[i])

TypeInv == TypeOK /\ ReadsSound

\* The phones of an import are as many as its rows.
LEMMA SoundIs ==
  ASSUME NEW m \in ImportState, m.file \in Files, Begun(m), Sound(m)
  PROVE  /\ m.clean \subseteq Kept /\ IsFiniteSet(m.clean) /\ Cardinality(m.clean) \in Nat
         /\ \A c, d \in m.clean : c.phone = d.phone => c = d
         /\ \A T \in SUBSET m.clean : LET ps == {c.phone : c \in T}
                                      IN  IsFiniteSet(ps) /\ Cardinality(ps) = Cardinality(T)
<1>1. /\ m.clean \subseteq Kept /\ IsFiniteSet(m.clean)
      /\ \A c, d \in m.clean : c.phone = d.phone => c = d
  BY DedupedIs DEF Sound
<1>2. Cardinality(m.clean) \in Nat
  BY <1>1, FS_CardinalityType
<1>3. ASSUME NEW T \in SUBSET m.clean
      PROVE  LET ps == {c.phone : c \in T} IN IsFiniteSet(ps) /\ Cardinality(ps) = Cardinality(T)
  <2> DEFINE ps == {c.phone : c \in T}
             g == [c \in T |-> c.phone]
  <2>1. IsFiniteSet(T)
    BY <1>1, FS_Subset
  <2>2. g \in Bijection(T, ps)
    BY <1>1 DEF Bijection, Injection, IsInjective, Surjection
  <2> HIDE DEF g, ps
  <2>3. IsFiniteSet(ps) /\ Cardinality(ps) = Cardinality(T)
    BY <2>1, <2>2, FS_Bijection DEF ExistsBijection
  <2> QED
    BY <2>3 DEF ps
<1> QED
  BY <1>1, <1>2, <1>3

\* The sets that are counted are finite.
LEMMA ReadIs ==
  ASSUME NEW m \in ImportState, m.file \in Files, Begun(m), Sound(m)
  PROVE  /\ IsFiniteSet(m.existing) /\ Cardinality(m.existing) \in 0..Cardinality(m.clean)
         /\ IsFiniteSet(m.hushed) /\ Cardinality(m.hushed) \in 0..Cardinality(m.clean)
         /\ Chunk(m) \subseteq PhonesIn(m) /\ Chunk(m) \subseteq Phones
<1>1. IsFiniteSet(PhonesIn(m)) /\ Cardinality(PhonesIn(m)) = Cardinality(m.clean)
  BY SoundIs DEF PhonesIn
<1>2. ASSUME NEW S \in SUBSET PhonesIn(m)
      PROVE  IsFiniteSet(S) /\ Cardinality(S) \in 0..Cardinality(m.clean)
  <2>1. IsFiniteSet(S) /\ Cardinality(S) <= Cardinality(m.clean)
    BY <1>1, FS_Subset
  <2> QED
    BY <2>1, SoundIs, FS_CardinalityType
<1>3. Chunk(m) \subseteq PhonesIn(m)
  BY DEF Chunk, PhonesIn
<1>4. Chunk(m) \subseteq Phones
  BY <1>3, SoundIs DEF PhonesIn, Kept
<1> QED
  BY <1>2, <1>3, <1>4 DEF Sound

\* What the steps write of the counters.
LEMMA CountsWritten ==
  ASSUME NEW a \in Nat, NEW b \in Nat, NEW d \in Nat
  PROVE  /\ LET x == [NoCounts EXCEPT !.total = a, !.invalid = b, !.duplicates = d]
            IN  x \in Counts /\ x.total = a /\ x.invalid = b /\ x.duplicates = d
         /\ \A c \in Counts :
              /\ LET x == [c EXCEPT !.suppressed = a, !.duplicates = b]
                 IN  x \in Counts /\ x.total = c.total /\ x.invalid = c.invalid
                     /\ x.duplicates = b
              /\ LET x == [c EXCEPT !.inserted = a, !.skipped = b]
                 IN  x \in Counts /\ x.total = c.total /\ x.invalid = c.invalid
                     /\ x.duplicates = c.duplicates /\ x.inserted = a /\ x.skipped = b
<1>1. NoCounts \in Counts
  BY DEF NoCounts, Counts
<1>2. ASSUME NEW c \in Counts
      PROVE  LET x == [c EXCEPT !.total = a, !.invalid = b, !.duplicates = d]
             IN  x \in Counts /\ x.total = a /\ x.invalid = b /\ x.duplicates = d
  BY DEF Counts
<1>3. ASSUME NEW c \in Counts
      PROVE  LET x == [c EXCEPT !.suppressed = a, !.duplicates = b]
             IN  x \in Counts /\ x.total = c.total /\ x.invalid = c.invalid
                 /\ x.duplicates = b
  BY DEF Counts
<1>4. ASSUME NEW c \in Counts
      PROVE  LET x == [c EXCEPT !.inserted = a, !.skipped = b]
             IN  x \in Counts /\ x.total = c.total /\ x.invalid = c.invalid
                 /\ x.duplicates = c.duplicates /\ x.inserted = a /\ x.skipped = b
  BY DEF Counts
<1> QED
  BY <1>1, <1>2, <1>3, <1>4

\* What a step of import() leaves of its locals has their types.
LEMMA BeginTypes ==
  ASSUME TypeInv, NEW i \in Imports, NEW flow \in Flows, NEW f \in Files, Begin(i, flow, f)
  PROVE  imports'[i] \in ImportState /\ Sound(imports'[i])
         /\ (Begun(imports'[i]) => imports'[i].flow \in Flows /\ imports'[i].file \in Files)
<1>1. imports \in [Imports -> ImportState] /\ imports[i] \in ImportState
  BY DEF TypeInv, TypeOK, ImportsOK
<1>2. CASE Rejected(f) \/ PhoneKey(f) = 0
  <2>1. imports'[i] = [imports[i] EXCEPT !.step = "rejected"]
    BY <1>1, <1>2 DEF Begin
  <2> QED
    BY <1>1, <2>1 DEF ImportState, Sound, Begun
<1>3. CASE ~(Rejected(f) \/ PhoneKey(f) = 0)
  <2> DEFINE clean == Cleaned(f)
             kept == InFileDeduped(Cleaned(f))
             counts == [NoCounts EXCEPT
                          !.total = Len(f.rows), !.invalid = Len(f.rows) - Cardinality(clean),
                          !.duplicates = Cardinality(clean) - Cardinality(kept)]
  <2>1. imports'[i] = [NotBegun EXCEPT !.step = "existing", !.flow = flow, !.file = f,
                                       !.clean = kept, !.counts = counts]
    BY <1>1, <1>3 DEF Begin
  <2>2. counts \in Counts
    <3>1. /\ Len(f.rows) \in Nat /\ Cardinality(clean) \in 0..Len(f.rows)
          /\ Cardinality(kept) \in 0..Cardinality(clean)
      BY CleanedIs, DedupedIs
    <3>2. SUFFICES ASSUME NEW n \in Nat, NEW a \in 0..n, NEW b \in 0..a
                   PROVE  [NoCounts EXCEPT !.total = n, !.invalid = n - a, !.duplicates = a - b]
                            \in Counts
      BY <3>1
    <3>3. n - a \in Nat /\ a - b \in Nat
      OBVIOUS
    <3> QED
      BY <3>3, CountsWritten
  <2>3. kept \subseteq Kept
    BY DedupedIs
  <2> HIDE DEF counts, kept, clean
  <2>4. imports'[i] = [step |-> "existing", flow |-> flow, file |-> f, clean |-> kept, at |-> 0,
                       existing |-> {}, hushed |-> {}, counts |-> counts]
    BY <2>1 DEF NotBegun
  <2>5. imports'[i] \in ImportState
    BY <2>2, <2>3, <2>4 DEF ImportState
  <2> QED
    BY <2>4, <2>5 DEF Sound, Begun, kept
<1> QED
  BY <1>2, <1>3

LEMMA StepTypes ==
  ASSUME TypeInv, NEW i \in Imports,
         ReadExisting(i) \/ ReadSuppressed(i) \/ Commit(i) \/ ImportFails(i)
  PROVE  /\ imports'[i] \in ImportState /\ Sound(imports'[i]) /\ Begun(imports[i])
         /\ imports'[i].flow = imports[i].flow /\ imports'[i].file = imports[i].file
         /\ imports'[i].clean = imports[i].clean /\ imports[i].step # "done"
         /\ imports' = [imports EXCEPT ![i] = imports'[i]]
<1> DEFINE m == imports[i]
<1>1. /\ imports \in [Imports -> ImportState] /\ m \in ImportState /\ Sound(m)
  BY DEF TypeInv, TypeOK, ImportsOK, ReadsSound
<1>2. Begun(m) /\ m.file \in Files /\ m.step # "done"
  BY <1>1 DEF TypeInv, TypeOK, ImportsOK, Begun, ReadExisting, ReadSuppressed, Commit, ImportFails
<1>3. /\ Chunk(m) \subseteq PhonesIn(m) /\ Chunk(m) \subseteq Phones
      /\ m.existing \subseteq PhonesIn(m) /\ m.hushed \subseteq PhonesIn(m)
      /\ m.clean = InFileDeduped(Cleaned(m.file)) /\ CHUNK \in Nat
  BY <1>1, <1>2, ReadIs, LimitsAssumption DEF Sound
<1>4. CASE ReadExisting(i)
  <2> DEFINE new == m.existing \cup {p \in Chunk(m) : Exists(m.flow, p)}
             n == [m EXCEPT !.existing = new,
                            !.at = IF LastChunk(m) THEN 0 ELSE @ + CHUNK,
                            !.step = IF LastChunk(m) THEN "hushed" ELSE @]
  <2>1. imports' = [imports EXCEPT ![i] = n]
    BY <1>4 DEF ReadExisting
  <2>2. new \subseteq Phones /\ new \subseteq PhonesIn(m)
    BY <1>1, <1>3 DEF ImportState
  <2>3. m.step = "existing"
    BY <1>4 DEF ReadExisting
  <2> HIDE DEF new
  <2>4. n \in ImportState
    <3>1. CASE LastChunk(m)
      BY <1>1, <2>2, <2>3, <3>1 DEF ImportState
    <3>2. CASE ~LastChunk(m)
      <4>1. m.at + CHUNK \in Nat
        BY <1>1, <1>3 DEF ImportState
      <4>2. n = [m EXCEPT !.existing = new, !.at = m.at + CHUNK]
        BY <1>1, <2>3, <3>2 DEF ImportState
      <4> QED
        BY <1>1, <2>2, <4>1, <4>2 DEF ImportState
    <3> QED
      BY <3>1, <3>2
  <2>5. /\ n.clean = m.clean /\ n.flow = m.flow /\ n.file = m.file /\ n.existing = new
        /\ n.hushed = m.hushed
    BY <1>1 DEF ImportState
  <2> HIDE DEF n
  <2>6. imports'[i] = n
    BY <1>1, <2>1
  <2> QED
    BY <1>2, <1>3, <2>1, <2>2, <2>4, <2>5, <2>6 DEF Sound, PhonesIn
<1>5. CASE ReadSuppressed(i)
  <2> DEFINE new == m.hushed \cup Hushed(m)
             n == [m EXCEPT !.hushed = new]
             last == [n EXCEPT !.step = "insert", !.counts = Counted(n)]
             next == [n EXCEPT !.at = @ + CHUNK]
  <2>1. imports' = [imports EXCEPT ![i] = IF LastChunk(m) THEN last ELSE next]
    BY <1>5 DEF ReadSuppressed
  <2>2. new \subseteq Phones /\ new \subseteq PhonesIn(m)
    BY <1>1, <1>3 DEF ImportState, Hushed
  <2>3. m.step = "hushed"
    BY <1>5 DEF ReadSuppressed
  <2> HIDE DEF new
  <2>4. /\ n \in ImportState /\ n.clean = m.clean /\ n.flow = m.flow /\ n.file = m.file
        /\ n.step = "hushed" /\ n.existing = m.existing /\ n.hushed = new
    BY <1>1, <2>2, <2>3 DEF ImportState
  <2> HIDE DEF n
  <2>5. Sound(n)
    BY <1>3, <2>2, <2>4 DEF Sound, PhonesIn
  <2>6. Counted(n) \in Counts
    <3>1. Cardinality(n.hushed) \in Nat /\ Cardinality(n.existing) \in Nat
      BY <1>2, <2>4, <2>5, ReadIs, FS_CardinalityType DEF Begun
    <3>2. n.counts \in Counts
      BY <2>4 DEF ImportState
    <3>3. SUFFICES ASSUME NEW c \in Counts, NEW a \in Nat, NEW b \in Nat
                   PROVE  [c EXCEPT !.suppressed = a, !.duplicates = @ + b] \in Counts
      BY <3>1, <3>2 DEF Counted
    <3>4. c.duplicates + b \in Nat
      BY DEF Counts
    <3> QED
      BY <3>4, CountsWritten
  <2>7. /\ last \in ImportState /\ last.clean = n.clean /\ last.flow = n.flow
        /\ last.file = n.file /\ last.existing = n.existing /\ last.hushed = n.hushed
    BY <2>4, <2>6 DEF ImportState
  <2>8. /\ next \in ImportState /\ next.clean = n.clean /\ next.flow = n.flow
        /\ next.file = n.file /\ next.existing = n.existing /\ next.hushed = n.hushed
    BY <1>3, <2>4 DEF ImportState
  <2>9. imports'[i] = IF LastChunk(m) THEN last ELSE next
    BY <1>1, <2>1
  <2> HIDE DEF last, next
  <2>10. Sound(last) /\ Sound(next)
    BY <1>3, <2>2, <2>4, <2>7, <2>8 DEF Sound, PhonesIn
  <2>11. imports' = [imports EXCEPT ![i] = imports'[i]]
    BY <1>1, <2>1, <2>9
  <2> QED
    BY <1>2, <2>4, <2>7, <2>8, <2>9, <2>10, <2>11
<1>6. CASE Commit(i)
  <2> DEFINE new == Inserted(m)
             counts == [m.counts EXCEPT !.inserted = Cardinality(new),
                                        !.skipped = Cardinality(Novos(m)) - Cardinality(new)]
             n == [m EXCEPT !.step = "done", !.counts = counts]
  <2>1. imports' = [imports EXCEPT ![i].step = "done",
                                   ![i].counts = [@ EXCEPT !.inserted = Cardinality(new),
                                       !.skipped = Cardinality(Novos(m)) - Cardinality(new)]]
    BY <1>6 DEF Commit
  <2>2. counts \in Counts
    <3>1. IsFiniteSet(Novos(m)) /\ new \subseteq Novos(m)
      BY <1>1, <1>2, SoundIs, FS_Subset DEF Novos, Inserted
    <3>2. IsFiniteSet(new) /\ Cardinality(new) <= Cardinality(Novos(m))
      BY <3>1, FS_Subset
    <3>3. Cardinality(new) \in Nat /\ Cardinality(Novos(m)) \in Nat
      BY <3>1, <3>2, FS_CardinalityType
    <3>4. m.counts \in Counts
      BY <1>1 DEF ImportState
    <3> HIDE DEF new
    <3>5. SUFFICES ASSUME NEW c \in Counts, NEW a \in Nat, NEW b \in Nat, b <= a
                   PROVE  [c EXCEPT !.inserted = b, !.skipped = a - b] \in Counts
      BY <3>2, <3>3, <3>4
    <3>6. a - b \in Nat
      BY <3>5
    <3> QED
      BY <3>6, CountsWritten
  <2>3. imports' = [imports EXCEPT ![i] = n]
    BY <1>1, <2>1
  <2> HIDE DEF counts, new
  <2>4. /\ n \in ImportState /\ n.clean = m.clean /\ n.flow = m.flow /\ n.file = m.file
        /\ n.existing = m.existing /\ n.hushed = m.hushed
    BY <1>1, <2>2 DEF ImportState
  <2> HIDE DEF n
  <2>5. imports'[i] = n
    BY <1>1, <2>3
  <2> QED
    BY <1>2, <1>3, <2>3, <2>4, <2>5 DEF Sound, PhonesIn
<1>7. CASE ImportFails(i)
  <2> DEFINE n == [m EXCEPT !.step = "failed"]
  <2>1. imports' = [imports EXCEPT ![i] = n]
    BY <1>1, <1>7 DEF ImportFails
  <2>2. /\ n \in ImportState /\ n.clean = m.clean /\ n.flow = m.flow /\ n.file = m.file
        /\ n.existing = m.existing /\ n.hushed = m.hushed
    BY <1>1 DEF ImportState
  <2> HIDE DEF n
  <2>3. imports'[i] = n
    BY <1>1, <2>1
  <2> QED
    BY <1>2, <1>3, <2>1, <2>2, <2>3 DEF Sound, PhonesIn
<1> QED
  BY <1>4, <1>5, <1>6, <1>7

-----------------------------------------------------------------------------
(* What becomes of the leads.                                                *)

\* A commit leaves a lead as it is, or makes it of the row that is kept for the phone.
LEMMA CommitLeads ==
  ASSUME TypeInv, NEW i \in Imports, Commit(i), NEW k \in DOMAIN leads
  PROVE  /\ k \in Flows \X Phones /\ DOMAIN leads' = DOMAIN leads /\ leads'[k] \in Lead
         /\ \/ /\ leads'[k] = leads[k]
               /\ ~\E c \in Inserted(imports[i]) : k = <<imports[i].flow, c.phone>>
            \/ \E c \in Inserted(imports[i]) :
                 /\ k = <<imports[i].flow, c.phone>> /\ leads[k].by = None
                 /\ leads'[k] = [by |-> i, row |-> c.row,
                                 suppressed |-> c.phone \in imports[i].hushed,
                                 status |-> IF c.phone \in imports[i].hushed
                                            THEN "SUPPRESSED" ELSE "PENDING"]
<1> DEFINE m == imports[i]
           new == Inserted(m)
           lead(c) == [by |-> i, row |-> c.row, suppressed |-> c.phone \in m.hushed,
                       status |-> IF c.phone \in m.hushed THEN "SUPPRESSED" ELSE "PENDING"]
<1>1. leads \in [Flows \X Phones -> Lead]
  BY DEF TypeInv, TypeOK, LeadsOK
<1>2. k \in Flows \X Phones /\ k = <<k[1], k[2]>>
  BY <1>1
<1>3. leads' = [l \in DOMAIN leads |->
           IF l[1] = m.flow /\ \E c \in new : c.phone = l[2]
           THEN lead(CHOOSE c \in new : c.phone = l[2]) ELSE leads[l]]
  BY DEF Commit
<1>4. CASE k[1] = m.flow /\ \E c \in new : c.phone = k[2]
  <2> DEFINE c == CHOOSE x \in new : x.phone = k[2]
  <2>1. c \in new /\ c.phone = k[2]
    BY <1>4
  <2>2. leads'[k] = lead(c)
    BY <1>1, <1>3, <1>4
  <2> HIDE DEF c
  <2>3. m \in ImportState /\ Sound(m) /\ Begun(m) /\ m.file \in Files
    BY DEF TypeInv, TypeOK, ImportsOK, ReadsSound, Commit, Begun
  <2>4. c \in Kept
    BY <2>1, <2>3, SoundIs DEF Inserted, Novos
  <2>5. k = <<m.flow, c.phone>>
    BY <1>2, <1>4, <2>1
  <2>6. leads[<<m.flow, c.phone>>].by = None
    BY <2>1 DEF Inserted, Exists
  <2>7. leads[k].by = None
    BY <2>5, <2>6
  <2> HIDE DEF new
  <2>8. lead(c) \in Lead
    BY <2>4 DEF Lead, Kept
  <2> QED
    BY <1>1, <1>2, <1>3, <2>1, <2>2, <2>5, <2>7, <2>8 DEF new
<1>5. CASE ~(k[1] = m.flow /\ \E c \in new : c.phone = k[2])
  <2>1. leads'[k] = leads[k]
    BY <1>3, <1>5
  <2>2. ~\E c \in Inserted(m) : k = <<m.flow, c.phone>>
    BY <1>5
  <2> QED
    BY <1>1, <1>2, <1>3, <2>1, <2>2
<1> QED
  BY <1>4, <1>5

\* A call on the list changes the flag and the status of the leads of its phone alone.
LEMMA CallLeads ==
  ASSUME TypeInv, NEW c \in Callers, MarkSuppressed(c) \/ Unflag(c) \/ Restore(c),
         NEW k \in DOMAIN leads
  PROVE  /\ k \in Flows \X Phones /\ DOMAIN leads' = DOMAIN leads /\ leads'[k] \in Lead
         /\ leads'[k].by = leads[k].by /\ leads'[k].row = leads[k].row
         /\ (k[2] # calls[c].phone \/ leads[k].by = None => leads'[k] = leads[k])
         /\ (k[2] = calls[c].phone /\ leads[k].by # None =>
              /\ (MarkSuppressed(c) => leads'[k].suppressed = TRUE
                                       /\ leads'[k].status = "SUPPRESSED")
              /\ (Unflag(c) => leads'[k].suppressed = FALSE)
              /\ (Restore(c) => leads'[k].suppressed = leads[k].suppressed
                                /\ leads'[k].status = "PENDING"))
<1>1. leads \in [Flows \X Phones -> Lead] /\ leads[k] \in Lead
  BY DEF TypeInv, TypeOK, LeadsOK
<1> DEFINE mine == k[2] = calls[c].phone /\ leads[k].by # None
<1>2. k \in RowsOf(calls[c].phone) <=> mine
  BY DEF RowsOf
<1>3. /\ MarkSuppressed(c) => calls[c].step = "mark"
      /\ Unflag(c) => calls[c].step = "unflag"
      /\ Restore(c) => calls[c].step = "restore"
  BY DEF MarkSuppressed, Unflag, Restore
<1>4. CASE MarkSuppressed(c)
  <2>1. /\ DOMAIN leads' = DOMAIN leads
        /\ leads'[k] = IF mine THEN [leads[k] EXCEPT !.suppressed = TRUE, !.status = "SUPPRESSED"]
                       ELSE leads[k]
    BY <1>1, <1>2, <1>4 DEF MarkSuppressed, Suppressed
  <2> QED
    BY <1>1, <1>3, <1>4, <2>1 DEF Lead
<1>5. CASE Unflag(c)
  <2>1. /\ DOMAIN leads' = DOMAIN leads
        /\ leads'[k] = IF mine THEN [leads[k] EXCEPT !.suppressed = FALSE] ELSE leads[k]
    BY <1>1, <1>2, <1>5 DEF Unflag
  <2> QED
    BY <1>1, <1>3, <1>5, <2>1 DEF Lead
<1>6. CASE Restore(c)
  <2>1. /\ DOMAIN leads' = DOMAIN leads
        /\ leads'[k] = IF mine /\ leads[k].status = "SUPPRESSED"
                       THEN [leads[k] EXCEPT !.status = "PENDING"] ELSE leads[k]
    BY <1>1, <1>2, <1>6 DEF Restore
  <2> QED
    BY <1>1, <1>3, <1>6, <2>1 DEF Lead
<1> QED
  BY <1>4, <1>5, <1>6

\* Type correctness with what an import has read.
LEMMA TypeStep == TypeInv /\ [Next]_vars => TypeInv'
<1> SUFFICES ASSUME TypeInv, [Next]_vars PROVE TypeInv'
  OBVIOUS
<1>1. /\ leads \in [Flows \X Phones -> Lead] /\ imports \in [Imports -> ImportState]
      /\ \A i \in Imports : Begun(imports[i]) =>
           imports[i].flow \in Flows /\ imports[i].file \in Files
      /\ \A k \in DOMAIN leads : leads[k].by # None => imports[leads[k].by].step = "done"
      /\ CallsOK /\ ReadsSound /\ None \notin Imports
  BY LimitsAssumption DEF TypeInv, TypeOK, LeadsOK, ImportsOK, Begun
<1>2. SUFFICES /\ leads' \in [Flows \X Phones -> Lead]
               /\ ImportsOK' /\ CallsOK' /\ ReadsSound'
  BY DEF TypeInv, TypeOK, LeadsOK
<1>3. ASSUME NEW i \in Imports, NEW flow \in Flows, NEW f \in Files, Begin(i, flow, f)
      PROVE  leads' \in [Flows \X Phones -> Lead] /\ ImportsOK' /\ CallsOK' /\ ReadsSound'
  <2>1. UNCHANGED <<leads, listed, calls, ops, faults, inside, excused>>
    BY <1>3 DEF Begin
  <2>2. imports[i].step = "idle" /\ imports' = [imports EXCEPT ![i] = imports'[i]]
    BY <1>1, <1>3 DEF Begin
  <2>3. imports'[i] \in ImportState /\ Sound(imports'[i])
        /\ (Begun(imports'[i]) => imports'[i].flow \in Flows /\ imports'[i].file \in Files)
    BY <1>3, BeginTypes
  <2>4. ImportsOK' /\ ReadsSound'
    <3>1. \A k \in DOMAIN leads : leads[k].by # None => imports'[leads[k].by].step = "done"
      BY <1>1, <2>2 DEF Lead
    <3> QED
      BY <1>1, <2>1, <2>2, <2>3, <3>1 DEF ImportsOK, ReadsSound, Begun
  <2> QED
    BY <1>1, <2>1, <2>4 DEF CallsOK
<1>4. ASSUME NEW i \in Imports,
             ReadExisting(i) \/ ReadSuppressed(i) \/ Commit(i) \/ ImportFails(i)
      PROVE  leads' \in [Flows \X Phones -> Lead] /\ ImportsOK' /\ CallsOK' /\ ReadsSound'
  <2>1. /\ imports'[i] \in ImportState /\ Sound(imports'[i]) /\ Begun(imports[i])
        /\ imports'[i].flow = imports[i].flow /\ imports'[i].file = imports[i].file
        /\ imports[i].step # "done" /\ imports' = [imports EXCEPT ![i] = imports'[i]]
    BY <1>4, StepTypes
  <2>2. ReadsSound' /\ imports' \in [Imports -> ImportState]
        /\ \A j \in Imports : Begun(imports'[j]) =>
             imports'[j].flow \in Flows /\ imports'[j].file \in Files
    BY <1>1, <2>1 DEF ReadsSound
  <2>3. CASE Commit(i)
    <3>1. imports'[i].step = "done"
      BY <1>1, <2>3 DEF Commit, ImportState
    <3>2. leads' \in [Flows \X Phones -> Lead]
      <4>1. \A k \in DOMAIN leads : leads'[k] \in Lead /\ DOMAIN leads' = DOMAIN leads
        BY <2>3, CommitLeads
      <4>2. leads' = [k \in DOMAIN leads |-> leads'[k]]
        BY <2>3 DEF Commit
      <4> QED
        BY <1>1, <4>1, <4>2
    <3>3. ASSUME NEW k \in DOMAIN leads, leads'[k].by # None
          PROVE  imports'[leads'[k].by].step = "done"
      <4>1. leads'[k].by = leads[k].by \/ leads'[k].by = i
        <5>1. CASE leads'[k] = leads[k]
          BY <5>1
        <5>2. CASE \E c \in Inserted(imports[i]) :
                     leads'[k] = [by |-> i, row |-> c.row,
                                  suppressed |-> c.phone \in imports[i].hushed,
                                  status |-> IF c.phone \in imports[i].hushed
                                             THEN "SUPPRESSED" ELSE "PENDING"]
          BY <5>2
        <5> QED
          BY <2>3, <5>1, <5>2, CommitLeads
      <4>2. leads[k].by # None => leads[k].by # i
        BY <1>1, <2>1
      <4>3. leads[k].by \in Imports \cup {None}
        BY <1>1 DEF Lead
      <4> QED
        BY <1>1, <2>1, <3>1, <3>3, <4>1, <4>2, <4>3
    <3>4. UNCHANGED <<listed, calls, ops, faults, inside>> /\ excused' = excused \cup inside[i]
      BY <2>3 DEF Commit
    <3>5. CallsOK'
      BY <1>1, <3>4 DEF CallsOK
    <3> QED
      BY <1>1, <2>2, <3>2, <3>3, <3>5 DEF ImportsOK, Begun
  <2>4. CASE ReadExisting(i) \/ ReadSuppressed(i) \/ ImportFails(i)
    <3>1. UNCHANGED <<leads, listed, calls, ops, inside, excused>>
      BY <2>4 DEF ReadExisting, ReadSuppressed, ImportFails
    <3>2. faults' \in Nat
      BY <1>1, <2>4 DEF ReadExisting, ReadSuppressed, ImportFails, CallsOK
    <3>3. \A k \in DOMAIN leads : leads[k].by # None => imports'[leads[k].by].step = "done"
      BY <1>1, <2>1 DEF Lead
    <3> QED
      BY <1>1, <2>2, <3>1, <3>2, <3>3 DEF ImportsOK, CallsOK, Begun
  <2> QED
    BY <1>4, <2>3, <2>4
<1>5. ASSUME NEW c \in Callers, NEW p \in Phones, Upsert(c, p) \/ Delete(c, p)
      PROVE  leads' \in [Flows \X Phones -> Lead] /\ ImportsOK' /\ CallsOK' /\ ReadsSound'
  <2>1. /\ UNCHANGED <<leads, imports, inside>> /\ ops' \in Nat /\ faults' \in Nat
        /\ listed' \subseteq Phones /\ excused' \subseteq Phones
    BY <1>1, <1>5 DEF Upsert, Delete, Beginning, CallsOK
  <2>2. PICK w \in CallState : calls' = [calls EXCEPT ![c] = w]
    <3>1. PICK s \in {"mark", "unflag"} :
            calls' = [calls EXCEPT ![c] = [step |-> s, phone |-> p, after |-> Concluded(p)]]
      BY <1>5 DEF Upsert, Delete, Beginning
    <3>2. [step |-> s, phone |-> p, after |-> Concluded(p)] \in CallState
      BY DEF CallState, Concluded
    <3> QED
      BY <3>1, <3>2
  <2> QED
    BY <1>1, <2>1, <2>2 DEF ImportsOK, CallsOK, ReadsSound, Begun
<1>6. ASSUME NEW c \in Callers, MarkSuppressed(c) \/ Unflag(c) \/ Restore(c)
      PROVE  leads' \in [Flows \X Phones -> Lead] /\ ImportsOK' /\ CallsOK' /\ ReadsSound'
  <2>1. leads' = [k \in DOMAIN leads |-> leads'[k]]
    BY <1>6 DEF MarkSuppressed, Unflag, Restore
  <2>2. \A k \in DOMAIN leads : leads'[k] \in Lead /\ leads'[k].by = leads[k].by
    BY <1>6, CallLeads
  <2>3. UNCHANGED <<listed, imports, ops, faults, excused>>
    BY <1>6 DEF MarkSuppressed, Unflag, Restore
  <2>4. calls[c] \in CallState /\ calls \in [Callers -> CallState]
        /\ inside \in [Imports -> SUBSET Phones]
    BY <1>1 DEF CallsOK
  <2>5. calls' \in [Callers -> CallState]
    <3>1. NoCall \in CallState
      BY DEF NoCall, CallState
    <3>2. calls[c].step = "unflag" => [calls[c] EXCEPT !.step = "restore"] \in CallState
      BY <2>4 DEF CallState
    <3> QED
      BY <1>6, <2>4, <3>1, <3>2 DEF MarkSuppressed, Unflag, Restore
  <2>6. inside' \in [Imports -> SUBSET Phones]
    <3>1. CASE Restore(c)
      BY <2>4, <3>1 DEF Restore
    <3>2. CASE MarkSuppressed(c) \/ Unflag(c)
      <4>1. calls[c].phone \in Phones
        BY <2>4, <3>2 DEF MarkSuppressed, Unflag, CallState
      <4>2. Marking(c)
        BY <3>2 DEF MarkSuppressed, Unflag
      <4> QED
        BY <2>4, <4>1, <4>2 DEF Marking
    <3> QED
      BY <1>6, <3>1, <3>2
  <2> QED
    BY <1>1, <2>1, <2>2, <2>3, <2>5, <2>6 DEF ImportsOK, CallsOK, ReadsSound, Begun
<1>7. ASSUME NEW c \in Callers, CallFails(c)
      PROVE  leads' \in [Flows \X Phones -> Lead] /\ ImportsOK' /\ CallsOK' /\ ReadsSound'
  <2>1. /\ UNCHANGED <<leads, listed, imports, ops, inside>> /\ faults' \in Nat
        /\ calls' = [calls EXCEPT ![c] = NoCall]
    BY <1>1, <1>7 DEF CallFails, CallsOK
  <2>2. calls[c].phone \in Phones
    BY <1>1, <1>7 DEF CallFails, CallsOK, CallState
  <2>3. NoCall \in CallState
    BY DEF NoCall, CallState
  <2> QED
    BY <1>1, <1>7, <2>1, <2>2, <2>3 DEF CallFails, ImportsOK, CallsOK, ReadsSound, Begun
<1>8. CASE UNCHANGED vars
  BY <1>1, <1>8 DEF vars, ImportsOK, CallsOK, ReadsSound, Begun
<1> QED
  BY <1>2, <1>3, <1>4, <1>5, <1>6, <1>7, <1>8 DEF Next

LEMMA TypeInit == Init => TypeInv
<1> SUFFICES ASSUME Init PROVE TypeInv
  OBVIOUS
<1>1. NoLead \in Lead
  BY DEF NoLead, Lead
<1>2. NoCall \in CallState
  BY DEF NoCall, CallState
<1>3. NotBegun \in ImportState
  BY DEF NotBegun, ImportState, NoCounts, Counts
<1>4. LeadsOK /\ \A k \in DOMAIN leads : leads[k].by = None
  <2>1. leads = [k \in Flows \X Phones |-> NoLead]
    BY DEF Init
  <2>2. NoLead.by = None
    BY DEF NoLead
  <2> QED
    BY <1>1, <2>1, <2>2 DEF LeadsOK
<1>5. ImportsOK /\ ReadsSound
  BY <1>3, <1>4 DEF Init, ImportsOK, ReadsSound, Sound, Begun, NotBegun
<1>6. CallsOK
  BY <1>2 DEF Init, CallsOK
<1> QED
  BY <1>4, <1>5, <1>6 DEF TypeInv, TypeOK

\* Type correctness: the leads are those of imports that committed.
THEOREM TypeCorrect == Spec => []TypeOK
<1>1. TypeInv => TypeOK
  BY DEF TypeInv
<1> QED
  BY <1>1, TypeInit, TypeStep, PTL DEF Spec

LEMMA TypeAlways == Spec => []TypeInv
  BY TypeInit, TypeStep, PTL DEF Spec

\* No import writes over a lead: neither its origin nor what became of it since
\* (skipDuplicates, lead-import.service.ts).
THEOREM LeadsAreKept == Spec => NoOverwrite
<1> DEFINE A == \A k \in DOMAIN leads : leads[k].by # None /\ calls' = calls =>
                  leads'[k] = leads[k]
<1>1. ASSUME TypeInv, [Next]_vars PROVE [A]_vars
  <2> SUFFICES ASSUME Next, NEW k \in DOMAIN leads, leads[k].by # None, calls' = calls
               PROVE  leads'[k] = leads[k]
    BY <1>1 DEF vars
  <2>1. calls \in [Callers -> CallState]
    BY <1>1 DEF TypeInv, TypeOK, CallsOK
  <2>2. ASSUME NEW i \in Imports, Commit(i) PROVE leads'[k] = leads[k]
    BY <1>1, <2>2, CommitLeads
  <2>3. ASSUME NEW c \in Callers, MarkSuppressed(c) \/ Unflag(c) \/ Restore(c) PROVE FALSE
    <3>1. calls[c].step # "idle" /\ (Unflag(c) => calls[c].step = "unflag")
      BY <2>3 DEF MarkSuppressed, Unflag, Restore
    <3>2. calls'[c].step = "idle" \/ (Unflag(c) /\ calls'[c].step = "restore")
      BY <2>1, <2>3 DEF MarkSuppressed, Unflag, Restore, NoCall, CallState
    <3> QED
      BY <3>1, <3>2
  <2>4. \/ UNCHANGED leads
        \/ \E i \in Imports : Commit(i)
        \/ \E c \in Callers : MarkSuppressed(c) \/ Unflag(c) \/ Restore(c)
    BY DEF Next, Begin, ReadExisting, ReadSuppressed, ImportFails, Upsert, Delete, Beginning,
           CallFails
  <2> QED
    BY <2>2, <2>3, <2>4
<1> QED
  BY <1>1, TypeAlways, PTL DEF Spec, NoOverwrite

-----------------------------------------------------------------------------
(* What is read of a file.                                                   *)

LEMMA Least ==
  ASSUME NEW T, T \subseteq Nat, T # {}
  PROVE  \E x \in T : \A y \in T : x <= y
<1>1. \E x \in T : \A y \in T : ~(<<y, x>> \in OpToRel(<, Nat))
  BY WFMin, NatLessThanWellFounded, Zenon
<1>2. PICK x \in T : \A y \in T : ~(<<y, x>> \in OpToRel(<, Nat))
  BY <1>1
<1>3. ASSUME NEW y \in T PROVE x <= y
  <2>1. x \in Nat /\ y \in Nat
    BY <1>2
  <2>2. <<y, x>> \in OpToRel(<, Nat) <=> y < x
    BY <2>1 DEF OpToRel
  <2>3. ~(y < x)
    BY <1>2, <2>2, Zenon
  <2> QED
    BY <2>1, <2>3
<1> QED
  BY <1>2, <1>3

\* There is a best column of any.
LEMMA BestIs ==
  ASSUME NEW f \in Files, NEW ks, ks \subseteq DOMAIN f.heads, ks # {}
  PROVE  Best(f, ks) \in ks
<1>1. DOMAIN f.heads \subseteq Nat
  <2>1. Len(f.heads) \in Nat /\ DOMAIN f.heads = 1..Len(f.heads)
    BY FilesAssumption, LenProperties
  <2> QED
    BY <2>1
<1>2. \A k \in ks : Score(f.heads[k]) \in 0..4
  BY DEF Score
<1>3. PICK s \in 0..4 : /\ \E k \in ks : Score(f.heads[k]) = s
                        /\ \A k \in ks : Score(f.heads[k]) <= s
  <2> DEFINE has(s) == \E k \in ks : Score(f.heads[k]) = s
  <2>1. \E s \in 0..4 : has(s)
    BY <1>2
  <2>2. \A k \in ks : has(Score(f.heads[k]))
    OBVIOUS
  <2>3. \E s \in 0..4 : has(s) /\ \A t \in 0..4 : has(t) => t <= s
    <3> HIDE DEF has
    <3>1. 0..4 = {0, 1, 2, 3, 4}
      OBVIOUS
    <3>2. has(0) \/ has(1) \/ has(2) \/ has(3) \/ has(4)
      BY <2>1, <3>1
    <3>3. CASE has(4)
      BY <3>1, <3>3
    <3>4. CASE ~has(4) /\ has(3)
      BY <3>1, <3>4
    <3>5. CASE ~has(4) /\ ~has(3) /\ has(2)
      BY <3>1, <3>5
    <3>6. CASE ~has(4) /\ ~has(3) /\ ~has(2) /\ has(1)
      BY <3>1, <3>6
    <3>7. CASE ~has(4) /\ ~has(3) /\ ~has(2) /\ ~has(1) /\ has(0)
      BY <3>1, <3>7
    <3> QED
      BY <3>2, <3>3, <3>4, <3>5, <3>6, <3>7
  <2> QED
    BY <1>2, <2>2, <2>3
<1>4. PICK k \in {j \in ks : Score(f.heads[j]) = s} :
        \A j \in {j \in ks : Score(f.heads[j]) = s} : k <= j
  BY <1>1, <1>3, Least
<1>5. \A j \in ks : \/ Score(f.heads[k]) > Score(f.heads[j])
                    \/ Score(f.heads[k]) = Score(f.heads[j]) /\ k <= j
  <2> TAKE j \in ks
  <2>1. Score(f.heads[k]) = s /\ Score(f.heads[j]) <= s /\ Score(f.heads[j]) \in 0..4
    BY <1>2, <1>3, <1>4
  <2>2. CASE Score(f.heads[j]) = s
    BY <1>4, <2>1, <2>2
  <2>3. CASE Score(f.heads[j]) # s
    BY <2>1, <2>3
  <2> QED
    BY <2>2, <2>3
<1> QED
  BY <1>4, <1>5, Zenon DEF Best

\* Where a candidate holds phones, rows are kept.
LEMMA LikelyIsKept ==
  ASSUME NEW f \in Files, \E k \in Candidates(f) : ColumnLooksLikePhone(f, k)
  PROVE  InFileDeduped(Cleaned(f)) # {}
<1> DEFINE likely == {k \in Candidates(f) : ColumnLooksLikePhone(f, k)}
           key == PhoneKey(f)
           texts == {r \in DOMAIN f.rows : r <= SAMPLE /\ f.rows[r][key].form # "empty"}
           good == {r \in texts : Normal(f.rows[r][key]) # None}
<1>1. key \in DOMAIN f.heads /\ ColumnLooksLikePhone(f, key)
  <2>1. likely \subseteq DOMAIN f.heads /\ likely # {} /\ Candidates(f) # {}
    BY DEF Candidates
  <2>2. key = Best(f, likely)
    BY <2>1 DEF PhoneKey
  <2>3. key \in likely
    BY <2>1, <2>2, BestIs
  <2> QED
    BY <2>1, <2>3
<1>2. /\ Len(f.rows) \in Nat /\ DOMAIN f.rows = 1..Len(f.rows)
      /\ f.rows \in [1..Len(f.rows) -> [1..Len(f.heads) -> Texts]]
      /\ DOMAIN f.heads = 1..Len(f.heads)
  BY FilesAssumption, LenProperties
<1>3. good # {}
  <2>1. texts # {} /\ 2 * Cardinality(good) >= Cardinality(texts)
    BY <1>1 DEF ColumnLooksLikePhone
  <2>2. IsFiniteSet(1..Len(f.rows))
    BY <1>2, FS_Interval, 1 \in Int, Len(f.rows) \in Int
  <2>3. IsFiniteSet(texts) /\ IsFiniteSet(good)
    <3>1. texts \in SUBSET (1..Len(f.rows)) /\ good \in SUBSET (1..Len(f.rows))
      BY <1>2
    <3> HIDE DEF texts, good
    <3> QED
      BY <2>2, <3>1, FS_Subset
  <2> HIDE DEF texts, good
  <2>4. Cardinality(texts) \in Nat \ {0}
    BY <2>1, <2>3, FS_EmptySet, FS_CardinalityType
  <2>5. Cardinality({}) = 0
    BY FS_EmptySet
  <2>6. ASSUME good = {} PROVE FALSE
    BY <2>1, <2>4, <2>5, <2>6
  <2> QED
    BY <2>6
<1>4. PICK r \in 1..Len(f.rows) : Normal(f.rows[r][key]) # None
  BY <1>2, <1>3
<1>5. Normal(f.rows[r][key]) \in Phones
  BY <1>1, <1>2, <1>4, LimitsAssumption DEF Normal, Texts
<1> DEFINE c0 == [row |-> r, phone |-> Normal(f.rows[r][key])]
           same == {c \in Cleaned(f) : c.phone = c0.phone}
           rows == {n \in Nat : \E c \in same : c.row = n}
<1>6. c0 \in same
  BY <1>4, <1>5 DEF Cleaned
<1>7. Cleaned(f) \subseteq Kept
  BY CleanedIs
<1>8. \A c \in same : c.row \in rows
  BY <1>7 DEF Kept
<1>9. PICK n \in rows : \A y \in rows : n <= y
  BY <1>6, <1>8, Least
<1>10. PICK c \in same : c.row = n
  BY <1>9
<1>11. ~\E d \in Cleaned(f) : d.phone = c.phone /\ d.row < c.row
  <2> SUFFICES ASSUME NEW d \in Cleaned(f), d.phone = c.phone, d.row < c.row PROVE FALSE
    OBVIOUS
  <2>1. d \in same
    BY <1>10
  <2>2. n <= d.row /\ n \in Nat /\ d.row \in Nat
    BY <1>8, <1>9, <2>1
  <2> QED
    BY <1>10, <2>2
<1> QED
  BY <1>10, <1>11 DEF InFileDeduped

\* Which texts are read as a phone.
LEMMA NormalIs ==
  ASSUME NEW t, NEW p \in Phones
  PROVE  Normal(t) = p <=> Means(t, p) \/ Mistaken(t, p)
BY LimitsAssumption DEF Normal, Means, Mistaken, Known

\* The row that is kept for a phone is read as it.
LEMMA KeptIsRead ==
  ASSUME NEW f \in Files, NEW c \in InFileDeduped(Cleaned(f))
  PROVE  c.phone \in Phones /\ c.row \in DOMAIN f.rows /\ Normal(f.rows[c.row][PhoneKey(f)]) = c.phone
<1>1. DOMAIN f.rows = 1..Len(f.rows)
  BY FilesAssumption, LenProperties
<1>2. c \in Cleaned(f)
  BY DedupedIs
<1> QED
  BY <1>1, <1>2 DEF Cleaned

\* Of the rows that stand for a phone the one that is kept is the first.
LEMMA FirstIsKept ==
  ASSUME NEW f \in Files, NEW c \in InFileDeduped(Cleaned(f)), NEW r \in DOMAIN f.rows,
         Normal(f.rows[r][PhoneKey(f)]) = c.phone
  PROVE  r >= c.row
<1>1. Len(f.rows) \in Nat /\ DOMAIN f.rows = 1..Len(f.rows)
  BY FilesAssumption, LenProperties
<1>2. c \in Cleaned(f) /\ c \in Kept
  BY DedupedIs
<1> DEFINE d == [row |-> r, phone |-> c.phone]
<1>3. d \in Cleaned(f)
  BY <1>1, <1>2 DEF Cleaned, Kept
<1>4. ~(d.row < c.row)
  BY <1>3 DEF InFileDeduped
<1> QED
  BY <1>1, <1>2, <1>4 DEF Kept

\* A lead is of a row that its import kept.
Origin ==
  \A k \in DOMAIN leads : leads[k].by # None =>
    \E c \in imports[leads[k].by].clean :
      k = <<imports[leads[k].by].flow, c.phone>> /\ leads[k].row = c.row

LEMMA OriginStep == TypeInv /\ Origin /\ [Next]_vars => Origin'
<1> SUFFICES ASSUME TypeInv, Origin, [Next]_vars,
                    NEW k \in DOMAIN leads', leads'[k].by # None
             PROVE  \E c \in imports'[leads'[k].by].clean :
                      k = <<imports'[leads'[k].by].flow, c.phone>> /\ leads'[k].row = c.row
  BY DEF Origin
<1>1. /\ leads \in [Flows \X Phones -> Lead] /\ imports \in [Imports -> ImportState]
      /\ \A l \in DOMAIN leads : leads[l].by # None => imports[leads[l].by].step = "done"
      /\ \A l \in DOMAIN leads : leads[l].by \in Imports \cup {None}
  BY DEF TypeInv, TypeOK, LeadsOK, ImportsOK, Lead
<1>2. \A i \in Imports : imports[i].step = "done" => imports'[i] = imports[i]
  <2>1. CASE \E i \in Imports, flow \in Flows, f \in Files : Begin(i, flow, f)
    BY <1>1, <2>1 DEF Begin
  <2>2. ASSUME NEW i \in Imports,
               ReadExisting(i) \/ ReadSuppressed(i) \/ Commit(i) \/ ImportFails(i)
        PROVE  \A j \in Imports : imports[j].step = "done" => imports'[j] = imports[j]
    BY <1>1, <2>2, StepTypes
  <2>3. CASE UNCHANGED imports
    BY <2>3
  <2> QED
    BY <2>1, <2>2, <2>3 DEF Next, vars, Upsert, Delete, Beginning, MarkSuppressed, Unflag,
                            Restore, CallFails
<1>3. ASSUME k \in DOMAIN leads, leads'[k].by = leads[k].by, leads'[k].row = leads[k].row
      PROVE  \E c \in imports'[leads'[k].by].clean :
               k = <<imports'[leads'[k].by].flow, c.phone>> /\ leads'[k].row = c.row
  BY <1>1, <1>2, <1>3 DEF Origin
<1>4. ASSUME NEW i \in Imports, Commit(i)
      PROVE  \E c \in imports'[leads'[k].by].clean :
               k = <<imports'[leads'[k].by].flow, c.phone>> /\ leads'[k].row = c.row
  <2>1. k \in DOMAIN leads
    BY <1>4 DEF Commit
  <2>2. CASE leads'[k] = leads[k]
    BY <1>3, <2>1, <2>2
  <2>3. CASE leads'[k] # leads[k]
    <3>1. PICK c \in Inserted(imports[i]) :
            k = <<imports[i].flow, c.phone>> /\ leads'[k].by = i /\ leads'[k].row = c.row
      <4>1. PICK c \in Inserted(imports[i]) :
              /\ k = <<imports[i].flow, c.phone>>
              /\ leads'[k] = [by |-> i, row |-> c.row,
                              suppressed |-> c.phone \in imports[i].hushed,
                              status |-> IF c.phone \in imports[i].hushed
                                         THEN "SUPPRESSED" ELSE "PENDING"]
        BY <1>4, <2>1, <2>3, CommitLeads
      <4> QED
        BY <4>1
    <3>2. c \in imports[i].clean
      BY <3>1 DEF Inserted, Novos
    <3>3. imports'[i].clean = imports[i].clean /\ imports'[i].flow = imports[i].flow
      BY <1>4, StepTypes
    <3> QED
      BY <3>1, <3>2, <3>3
  <2> QED
    BY <2>2, <2>3
<1>5. ASSUME NEW c \in Callers, MarkSuppressed(c) \/ Unflag(c) \/ Restore(c)
      PROVE  k \in DOMAIN leads /\ leads'[k].by = leads[k].by /\ leads'[k].row = leads[k].row
  <2>1. k \in DOMAIN leads
    BY <1>5 DEF MarkSuppressed, Unflag, Restore
  <2> QED
    BY <1>5, <2>1, CallLeads
<1>6. CASE UNCHANGED leads
  BY <1>3, <1>6
<1> QED
  BY <1>3, <1>4, <1>5, <1>6
     DEF Next, vars, Begin, ReadExisting, ReadSuppressed, ImportFails, Upsert, Delete, Beginning,
         CallFails

LEMMA OriginAlways == Spec => []Origin
<1>1. Init => Origin
  BY DEF Init, Origin, NoLead
<1> QED
  BY <1>1, TypeAlways, OriginStep, PTL DEF Spec

\* If a column with a likely name holds phones, leads come of the file; and the row of a lead
\* is the first that is of its phone, or of a foreign number taken for it (FileRead; import
\* and normalizeE164).
THEOREM FileIsRead == Spec => []FileRead
<1>1. ASSUME TypeInv, Origin PROVE FileRead
  <2>1. ASSUME NEW i \in Imports, imports[i].step \notin {"idle", "rejected"},
               \E k \in Candidates(imports[i].file) : ColumnLooksLikePhone(imports[i].file, k)
        PROVE  imports[i].clean # {}
    <3>1. imports[i].file \in Files /\ imports[i].clean = InFileDeduped(Cleaned(imports[i].file))
      BY <1>1, <2>1 DEF TypeInv, TypeOK, ImportsOK, ReadsSound, Sound, Begun
    <3> QED
      BY <2>1, <3>1, LikelyIsKept
  <2>2. ASSUME NEW k \in DOMAIN leads, Exists(k[1], k[2])
        PROVE  LET f == imports[leads[k].by].file
                   text(r) == f.rows[r][PhoneKey(f)]
                   row == leads[k].row
               IN  /\ row \in DOMAIN f.rows
                   /\ Means(text(row), k[2]) \/ Mistaken(text(row), k[2])
                   /\ \A r \in DOMAIN f.rows :
                        Means(text(r), k[2]) \/ Mistaken(text(r), k[2]) => r >= row
    <3>1. leads \in [Flows \X Phones -> Lead]
      BY <1>1 DEF TypeInv, TypeOK, LeadsOK
    <3>2. k = <<k[1], k[2]>>
      BY <3>1
    <3>3. leads[k].by # None /\ leads[k].by \in Imports
      BY <2>2, <3>1, <3>2 DEF Exists, Lead
    <3> DEFINE m == imports[leads[k].by]
    <3>4. m.file \in Files /\ m.clean = InFileDeduped(Cleaned(m.file))
      BY <1>1, <3>3 DEF TypeInv, TypeOK, ImportsOK, ReadsSound, Sound, Begun
    <3>5. PICK c \in m.clean : k = <<m.flow, c.phone>> /\ leads[k].row = c.row
      BY <1>1, <3>3 DEF Origin
    <3>6. k[2] = c.phone
      BY <3>5
    <3> DEFINE text(r) == m.file.rows[r][PhoneKey(m.file)]
    <3>7. /\ c.phone \in Phones /\ c.row \in DOMAIN m.file.rows
          /\ Normal(text(c.row)) = c.phone
      BY <3>4, <3>5, KeptIsRead
    <3>8. ASSUME NEW r \in DOMAIN m.file.rows, Normal(text(r)) = c.phone PROVE r >= c.row
      BY <3>4, <3>5, <3>8, FirstIsKept
    <3>9. \A r : Normal(text(r)) = c.phone <=> Means(text(r), c.phone) \/ Mistaken(text(r), c.phone)
      BY <3>7, NormalIs
    <3> QED
      BY <3>5, <3>6, <3>7, <3>8, <3>9
  <2> QED
    BY <2>1, <2>2, Zenon DEF FileRead
<1> QED
  BY <1>1, TypeAlways, OriginAlways, PTL

-----------------------------------------------------------------------------
(* The answer of an import.                                                  *)

\* The counters of a call, by its step.
Sums(i) ==
  LET m == imports[i]
      c == m.counts
  IN  /\ m.step \in {"existing", "hushed"} =>
           c.total = c.invalid + c.duplicates + Cardinality(m.clean)
      /\ m.step = "insert" =>
           c.total = c.invalid + c.duplicates + Cardinality(Novos(m))
      /\ m.step = "done" => /\ c.total = c.invalid + c.duplicates + c.inserted + c.skipped
                            /\ c.inserted = Cardinality(LeadsOf(i))

\* The rows of the transaction are those kept without those whose phone was there.
LEMMA NovosAre ==
  ASSUME NEW m \in ImportState, m.file \in Files, Begun(m), Sound(m)
  PROVE  /\ IsFiniteSet(Novos(m)) /\ Cardinality(Novos(m)) \in Nat
         /\ Cardinality(m.clean) = Cardinality(Novos(m)) + Cardinality(m.existing)
<1> DEFINE taken == {c \in m.clean : c.phone \in m.existing}
<1>1. IsFiniteSet(m.clean) /\ Cardinality(m.clean) \in Nat
  BY SoundIs
<1>2. m.existing = {c.phone : c \in taken}
  BY DEF Sound, PhonesIn
<1>3. taken \in SUBSET m.clean
  OBVIOUS
<1>4. Cardinality(m.existing) = Cardinality(taken)
  BY <1>2, <1>3, SoundIs
<1>5. Novos(m) = m.clean \ taken /\ m.clean \cap taken = taken
  BY DEF Novos
<1> HIDE DEF taken
<1>6. IsFiniteSet(m.clean \ taken)
      /\ Cardinality(m.clean \ taken) = Cardinality(m.clean) - Cardinality(m.clean \cap taken)
  BY <1>1, FS_Difference
<1>7. Cardinality(Novos(m)) \in Nat /\ Cardinality(m.existing) \in Nat
  BY <1>5, <1>6, ReadIs, FS_CardinalityType
<1> QED
  BY <1>1, <1>4, <1>5, <1>6, <1>7

\* A commit leaves as many leads of its import as it says.
LEMMA CommitCounts ==
  ASSUME TypeInv, NEW i \in Imports, Commit(i)
  PROVE  /\ Cardinality(LeadsOf(i)') = Cardinality(Inserted(imports[i]))
         /\ \A j \in Imports \ {i} : LeadsOf(j)' = LeadsOf(j)
<1> DEFINE m == imports[i]
           new == Inserted(m)
           g == [c \in new |-> <<m.flow, c.phone>>]
<1>1. leads \in [Flows \X Phones -> Lead] /\ DOMAIN leads' = DOMAIN leads
  BY DEF TypeInv, TypeOK, LeadsOK, Commit
<1>2. /\ m \in ImportState /\ m.flow \in Flows /\ m.file \in Files /\ Begun(m) /\ Sound(m)
      /\ m.step = "insert"
  BY DEF TypeInv, TypeOK, ImportsOK, ReadsSound, Commit, Begun
<1>3. \A k \in DOMAIN leads : leads[k].by # None => leads[k].by # i
  BY <1>2 DEF TypeInv, TypeOK, ImportsOK
<1>4. new \subseteq m.clean
  BY DEF Inserted, Novos
<1>5. \A c \in new : c.phone \in Phones
  BY <1>2, <1>4, SoundIs DEF Kept
<1>6. i # None
  BY LimitsAssumption
<1>7. \A k \in DOMAIN leads :
        \/ leads'[k] = leads[k] /\ ~\E c \in new : k = <<m.flow, c.phone>>
        \/ /\ \E c \in new : k = <<m.flow, c.phone>>
           /\ leads[k].by = None /\ leads'[k].by = i
  <2> TAKE k \in DOMAIN leads
  <2>1. CASE leads'[k] = leads[k] /\ ~\E c \in new : k = <<m.flow, c.phone>>
    BY <2>1
  <2>2. CASE ~(leads'[k] = leads[k] /\ ~\E c \in new : k = <<m.flow, c.phone>>)
    <3>1. PICK c \in new :
            /\ k = <<m.flow, c.phone>> /\ leads[k].by = None
            /\ leads'[k] = [by |-> i, row |-> c.row, suppressed |-> c.phone \in m.hushed,
                            status |-> IF c.phone \in m.hushed
                                       THEN "SUPPRESSED" ELSE "PENDING"]
      BY <2>2, CommitLeads
    <3>2. leads'[k].by = i
      BY <3>1
    <3> QED
      BY <3>1, <3>2
  <2> QED
    BY <2>1, <2>2
<1>8. LeadsOf(i)' = {<<m.flow, c.phone>> : c \in new}
  <2>1. ASSUME NEW k \in LeadsOf(i)' PROVE k \in {<<m.flow, c.phone>> : c \in new}
    <3>1. k \in DOMAIN leads /\ leads'[k].by = i
      BY <1>1, <2>1 DEF LeadsOf
    <3> QED
      BY <1>3, <1>6, <1>7, <3>1
  <2>2. ASSUME NEW c \in new PROVE <<m.flow, c.phone>> \in LeadsOf(i)'
    <3>1. <<m.flow, c.phone>> \in DOMAIN leads
      BY <1>1, <1>2, <1>5
    <3>2. leads'[<<m.flow, c.phone>>].by = i
      BY <1>7, <3>1
    <3> QED
      BY <1>1, <3>1, <3>2 DEF LeadsOf
  <2> QED
    BY <2>1, <2>2
<1>9. g \in Bijection(new, LeadsOf(i)')
  <2>1. \A c, d \in new : g[c] = g[d] => c = d
    BY <1>2, <1>4, SoundIs
  <2> QED
    BY <1>8, <2>1 DEF Bijection, Injection, IsInjective, Surjection
<1>10. IsFiniteSet(new)
  BY <1>2, <1>4, SoundIs, FS_Subset
<1>11. \A j \in Imports \ {i} : LeadsOf(j)' = LeadsOf(j)
  <2> TAKE j \in Imports \ {i}
  <2>1. j # None
    BY LimitsAssumption
  <2>2. \A k \in DOMAIN leads : leads'[k].by = j <=> leads[k].by = j
    BY <1>7, <2>1
  <2> QED
    BY <1>1, <2>2 DEF LeadsOf
<1> HIDE DEF g, new
<1>12. Cardinality(LeadsOf(i)') = Cardinality(new)
  BY <1>9, <1>10, FS_Bijection DEF ExistsBijection
<1> QED
  BY <1>11, <1>12 DEF new

\* What a step of an import does to its counters.
LEMMA StepSums ==
  ASSUME TypeInv, NEW i \in Imports, Sums(i),
         ReadExisting(i) \/ ReadSuppressed(i) \/ Commit(i) \/ ImportFails(i)
  PROVE  Sums(i)'
<1> DEFINE m == imports[i]
           n == imports'[i]
<1>1. /\ imports \in [Imports -> ImportState] /\ m \in ImportState /\ Sound(m) /\ Begun(m)
      /\ m.file \in Files /\ m.counts \in Counts
  BY StepTypes DEF TypeInv, TypeOK, ImportsOK, ReadsSound, Begun, ImportState
<1>2. n.clean = m.clean /\ n \in ImportState
  BY StepTypes
<1>3. CASE ReadExisting(i)
  <2>1. m.step = "existing" /\ n.counts = m.counts /\ n.step \in {"existing", "hushed"}
    BY <1>1, <1>3 DEF ReadExisting, ImportState
  <2> QED
    BY <1>2, <2>1 DEF Sums
<1>4. CASE ReadSuppressed(i)
  <2> DEFINE new == m.hushed \cup Hushed(m)
             w == [m EXCEPT !.hushed = new]
             last == [w EXCEPT !.step = "insert", !.counts = Counted(w)]
             next == [w EXCEPT !.at = @ + CHUNK]
  <2>1. m.step = "hushed" /\ n = IF LastChunk(m) THEN last ELSE next
    BY <1>1, <1>4 DEF ReadSuppressed
  <2>2. new \subseteq Phones /\ new \subseteq PhonesIn(m)
    BY <1>1, ReadIs DEF ImportState, Hushed, Sound
  <2> HIDE DEF new
  <2>3. /\ w \in ImportState /\ w.clean = m.clean /\ w.file = m.file /\ w.step = m.step
        /\ w.existing = m.existing /\ w.hushed = new /\ w.counts = m.counts
    BY <1>1, <2>2 DEF ImportState
  <2> HIDE DEF w
  <2>4. CASE LastChunk(m)
    <3>1. Cardinality(m.existing) \in Nat /\ Cardinality(w.hushed) \in Nat
      <4>1. Sound(w) /\ Begun(w)
        BY <1>1, <2>2, <2>3 DEF Sound, Begun, PhonesIn
      <4> QED
        BY <1>1, <2>3, <4>1, ReadIs, FS_CardinalityType
    <3>2. SUFFICES ASSUME NEW a \in Nat, a = Cardinality(w.hushed),
                          NEW b \in Nat, b = Cardinality(m.existing)
                   PROVE  Sums(i)'
      BY <3>1
    <3>3. Counted(w) = [m.counts EXCEPT !.suppressed = a, !.duplicates = m.counts.duplicates + b]
      BY <2>3, <3>2 DEF Counted
    <3>4. m.counts.duplicates + b \in Nat
      BY <1>1 DEF Counts
    <3>5. /\ Counted(w).total = m.counts.total /\ Counted(w).invalid = m.counts.invalid
          /\ Counted(w).duplicates = m.counts.duplicates + b
      <4>1. \A v, z \in Nat :
              LET y == [m.counts EXCEPT !.suppressed = v, !.duplicates = z]
              IN  /\ y.total = m.counts.total /\ y.invalid = m.counts.invalid
                  /\ y.duplicates = z
        BY <1>1 DEF Counts
      <4> DEFINE s == m.counts.duplicates + b
      <4>2. s \in Nat /\ a \in Nat
        BY <3>2, <3>4
      <4> DEFINE y == [m.counts EXCEPT !.suppressed = a, !.duplicates = s]
      <4>3. Counted(w) = y
        BY <3>3
      <4> HIDE DEF s
      <4>4. y.total = m.counts.total /\ y.invalid = m.counts.invalid /\ y.duplicates = s
        BY <4>1, <4>2, Zenon
      <4> HIDE DEF y
      <4> QED
        BY <4>3, <4>4 DEF s
    <3>6. n.step = "insert" /\ n.counts = Counted(w) /\ n.existing = m.existing
      BY <2>1, <2>3, <2>4 DEF ImportState
    <3>7. Novos(n) = Novos(m)
      BY <1>2, <3>6 DEF Novos
    <3>8. Cardinality(m.clean) = Cardinality(Novos(m)) + b /\ Cardinality(Novos(m)) \in Nat
      BY <1>1, <3>2, NovosAre
    <3>9. m.counts.total = m.counts.invalid + m.counts.duplicates + Cardinality(m.clean)
      BY <2>1 DEF Sums
    <3>10. /\ m.counts.total \in Nat /\ m.counts.invalid \in Nat /\ m.counts.duplicates \in Nat
      BY <1>1 DEF Counts
    <3>11. n.counts.total = n.counts.invalid + n.counts.duplicates + Cardinality(Novos(n))
      BY <3>5, <3>6, <3>7, <3>8, <3>9, <3>10
    <3> QED
      BY <3>6, <3>11 DEF Sums
  <2>5. CASE ~LastChunk(m)
    <3>1. n.step = "hushed" /\ n.counts = m.counts
      BY <2>1, <2>3, <2>5 DEF ImportState
    <3> QED
      BY <1>2, <2>1, <3>1 DEF Sums
  <2> QED
    BY <2>4, <2>5
<1>5. CASE Commit(i)
  <2>1. Novos(m) = Novos(m) /\ Inserted(m) \subseteq Novos(m) /\ m.step = "insert"
    BY <1>5 DEF Inserted, Commit
  <2>2. /\ IsFiniteSet(Novos(m)) /\ Cardinality(Novos(m)) \in Nat
    BY <1>1, NovosAre
  <2>3. Cardinality(Inserted(m)) \in 0..Cardinality(Novos(m))
    <3>1. IsFiniteSet(Inserted(m)) /\ Cardinality(Inserted(m)) <= Cardinality(Novos(m))
      BY <2>1, <2>2, FS_Subset
    <3> QED
      BY <2>2, <3>1, FS_CardinalityType
  <2>4. SUFFICES ASSUME NEW a \in Nat, a = Cardinality(Novos(m)),
                        NEW b \in 0..a, b = Cardinality(Inserted(m))
                 PROVE  Sums(i)'
    BY <2>2, <2>3
  <2> DEFINE c == m.counts
             x == [c EXCEPT !.inserted = b, !.skipped = a - b]
  <2>5. n.step = "done" /\ n.counts = x
    BY <1>1, <1>5, <2>4 DEF Commit, ImportState
  <2>6. b \in Nat /\ a - b \in Nat
    BY <2>4
  <2>7. /\ x.total = c.total /\ x.invalid = c.invalid /\ x.duplicates = c.duplicates
        /\ x.inserted = b /\ x.skipped = a - b
    <3>1. \A v, w \in Nat :
            LET y == [c EXCEPT !.inserted = v, !.skipped = w]
            IN  /\ y.total = c.total /\ y.invalid = c.invalid /\ y.duplicates = c.duplicates
                /\ y.inserted = v /\ y.skipped = w
      BY <1>1 DEF Counts
    <3> QED
      BY <2>6, <3>1, Zenon
  <2> HIDE DEF x
  <2>8. c.total = c.invalid + c.duplicates + a
    BY <2>1, <2>4 DEF Sums
  <2>9. c.total \in Nat /\ c.invalid \in Nat /\ c.duplicates \in Nat
    BY <1>1 DEF Counts
  <2>10. x.total = x.invalid + x.duplicates + x.inserted + x.skipped
    BY <2>6, <2>7, <2>8, <2>9
  <2>11. x.inserted = Cardinality(LeadsOf(i)')
    BY <1>5, <2>4, <2>7, CommitCounts
  <2>12. Cardinality(LeadsOf(i)') = Cardinality(LeadsOf(i))'
    OBVIOUS
  <2> QED
    BY <2>5, <2>10, <2>11, <2>12 DEF Sums
<1>6. CASE ImportFails(i)
  <2>1. n.step = "failed"
    BY <1>1, <1>6 DEF ImportFails, ImportState
  <2> QED
    BY <2>1 DEF Sums
<1> QED
  BY <1>3, <1>4, <1>5, <1>6

AllSums == \A i \in Imports : Sums(i)

LEMMA SumsStep == TypeInv /\ AllSums /\ [Next]_vars => AllSums'
<1> SUFFICES ASSUME TypeInv, AllSums, [Next]_vars, NEW j \in Imports PROVE Sums(j)'
  BY DEF AllSums
<1>1. /\ leads \in [Flows \X Phones -> Lead] /\ imports \in [Imports -> ImportState]
      /\ Sums(j)
  BY DEF TypeInv, TypeOK, LeadsOK, ImportsOK, AllSums
<1>2. ASSUME imports'[j] = imports[j], LeadsOf(j)' = LeadsOf(j) PROVE Sums(j)'
  BY <1>1, <1>2 DEF Sums, Novos
<1>3. ASSUME NEW i \in Imports, NEW flow \in Flows, NEW f \in Files, Begin(i, flow, f)
      PROVE  Sums(j)'
  <2>1. LeadsOf(j)' = LeadsOf(j)
    BY <1>3 DEF Begin, LeadsOf
  <2>2. CASE i # j
    BY <1>1, <1>2, <1>3, <2>1, <2>2 DEF Begin
  <2>3. CASE i = j /\ (Rejected(f) \/ PhoneKey(f) = 0)
    <3>1. imports'[j].step = "rejected"
      BY <1>1, <1>3, <2>3 DEF Begin, ImportState
    <3> QED
      BY <3>1 DEF Sums
  <2>4. CASE i = j /\ ~(Rejected(f) \/ PhoneKey(f) = 0)
    <3> DEFINE clean == Cleaned(f)
               kept == InFileDeduped(clean)
    <3>1. /\ Len(f.rows) \in Nat /\ Cardinality(clean) \in 0..Len(f.rows)
          /\ Cardinality(kept) \in 0..Cardinality(clean)
      BY CleanedIs, DedupedIs
    <3>2. SUFFICES ASSUME NEW l \in Nat, l = Len(f.rows),
                          NEW a \in 0..l, a = Cardinality(clean),
                          NEW b \in 0..a, b = Cardinality(kept)
                   PROVE  Sums(j)'
      BY <3>1
    <3> DEFINE x == [NoCounts EXCEPT !.total = l, !.invalid = l - a, !.duplicates = a - b]
    <3>3. /\ imports'[j].step = "existing" /\ imports'[j].clean = kept
          /\ imports'[j].counts = x
      BY <1>1, <1>3, <2>4, <3>2 DEF Begin, NotBegun
    <3>4. l - a \in Nat /\ a - b \in Nat
      OBVIOUS
    <3>5. x.total = l /\ x.invalid = l - a /\ x.duplicates = a - b
      <4>1. \A v, w \in Nat :
              LET y == [NoCounts EXCEPT !.total = l, !.invalid = v, !.duplicates = w]
              IN  y.total = l /\ y.invalid = v /\ y.duplicates = w
        BY DEF NoCounts
      <4> QED
        BY <3>4, <4>1, Zenon
    <3> HIDE DEF x, kept, clean
    <3>6. x.total = x.invalid + x.duplicates + Cardinality(kept)
      BY <3>2, <3>5
    <3>7. imports'[j].counts.total = imports'[j].counts.invalid + imports'[j].counts.duplicates
                                       + Cardinality(imports'[j].clean)
      BY <3>3, <3>6
    <3> QED
      BY <3>3, <3>7 DEF Sums
  <2> QED
    BY <2>2, <2>3, <2>4
<1>4. ASSUME NEW i \in Imports,
             ReadExisting(i) \/ ReadSuppressed(i) \/ Commit(i) \/ ImportFails(i)
      PROVE  Sums(j)'
  <2>1. CASE i = j
    BY <1>1, <1>4, <2>1, StepSums
  <2>2. CASE i # j
    <3>1. imports'[j] = imports[j]
      BY <1>1, <1>4, <2>2, StepTypes
    <3>2. LeadsOf(j)' = LeadsOf(j)
      <4>1. CASE Commit(i)
        BY <2>2, <4>1, CommitCounts
      <4>2. CASE UNCHANGED leads
        BY <4>2 DEF LeadsOf
      <4> QED
        BY <1>4, <4>1, <4>2 DEF ReadExisting, ReadSuppressed, ImportFails
    <3> QED
      BY <1>2, <3>1, <3>2
  <2> QED
    BY <2>1, <2>2
<1>5. ASSUME NEW c \in Callers, MarkSuppressed(c) \/ Unflag(c) \/ Restore(c)
      PROVE  Sums(j)'
  <2>1. imports' = imports /\ DOMAIN leads' = DOMAIN leads
    BY <1>5 DEF MarkSuppressed, Unflag, Restore
  <2>2. \A k \in DOMAIN leads : leads'[k].by = leads[k].by
    BY <1>5, CallLeads
  <2>3. LeadsOf(j)' = LeadsOf(j)
    BY <2>1, <2>2 DEF LeadsOf
  <2> QED
    BY <1>2, <2>1, <2>3
<1>6. CASE UNCHANGED <<leads, imports>>
  BY <1>2, <1>6 DEF LeadsOf
<1> QED
  BY <1>3, <1>4, <1>5, <1>6 DEF Next, vars, Upsert, Delete, Beginning, CallFails

\* Every row of the file is in one counter of the answer, and `inserted` is the number of
\* leads the import left, whatever ran beside it (lead-import.service.ts:124).
THEOREM AnswerReconciles == Spec => []Reconciles
<1>1. Init => AllSums
  BY DEF Init, AllSums, Sums, NotBegun
<1>2. AllSums => Reconciles
  BY DEF AllSums, Sums, Reconciles
<1> QED
  BY <1>1, <1>2, TypeAlways, SumsStep, PTL DEF Spec

-----------------------------------------------------------------------------
(* The list and the leads.                                                   *)

\* The import has read the list for the phone.
ReadOf(m, p) == \E c \in m.clean : Place(m, c) <= m.at /\ c.phone = p

InOrder(m) == /\ m.step = "existing" => m.hushed = {}
              /\ m.step = "hushed" => \A p \in m.hushed : ReadOf(m, p)

Alone(p) == \A c, d \in BusyWith(p) : c = d

ListTells(p) == \A c \in BusyWith(p) : (calls[c].step = "mark") <=> (p \in listed)

\* A call that has yet to write the flags began after the import read the list.
Pending(p, i) == \E c \in BusyWith(p) : calls[c].step # "restore" /\ i \in calls[c].after

ImportTells(p) ==
  \A i \in Concluded(p) : p \in PhonesIn(imports[i]) =>
    \/ (p \in imports[i].hushed) <=> (p \in listed)
    \/ p \in inside[i]
    \/ Pending(p, i)

LeadsTell(p) ==
  \A k \in DOMAIN leads : k[2] = p /\ leads[k].by # None =>
    /\ BusyWith(p) = {} =>
         /\ p \in listed => leads[k].suppressed = TRUE /\ leads[k].status = "SUPPRESSED"
         /\ p \notin listed => leads[k].suppressed = FALSE /\ leads[k].status = "PENDING"
    /\ \A c \in BusyWith(p) : calls[c].step = "restore" => leads[k].suppressed = FALSE

Calm(p) == Alone(p) /\ ListTells(p) /\ ImportTells(p) /\ LeadsTell(p)

StepInv == /\ \A i \in Imports : InOrder(imports[i])
           /\ \A p \in Phones \ excused : Calm(p)

\* The calls on a phone are those they were.
SameCalls(p) == /\ BusyWith(p)' = BusyWith(p)
                /\ \A c \in BusyWith(p) : calls'[c] = calls[c]
                /\ (p \in listed') <=> (p \in listed)

LEMMA CallsStay ==
  ASSUME NEW p, SameCalls(p)
  PROVE  /\ Alone(p) => Alone(p)' /\ (ListTells(p) => ListTells(p)')
         /\ \A i : Pending(p, i) => Pending(p, i)'
  BY DEF SameCalls, Alone, ListTells, Pending

\* An import concludes as the list says, or concluded before what it does now.
Concludes(p, i) ==
  \/ (p \in imports'[i].hushed) <=> (p \in listed)
  \/ /\ i \in Concluded(p) /\ imports'[i].clean = imports[i].clean
     /\ (p \in imports'[i].hushed) <=> (p \in imports[i].hushed)

\* Nothing of a phone changes but what an import concludes.
LEMMA Untouched ==
  ASSUME NEW p \in Phones, Calm(p), SameCalls(p),
         \A i \in Imports : p \in inside[i] => p \in inside'[i],
         \A i \in Concluded(p)' : p \in PhonesIn(imports[i])' => Concludes(p, i)
  PROVE  /\ Alone(p)' /\ ListTells(p)' /\ ImportTells(p)'
         /\ (DOMAIN leads' = DOMAIN leads
             /\ (\A k \in DOMAIN leads : k[2] = p => leads'[k] = leads[k])) => Calm(p)'
<1>1. Alone(p)' /\ ListTells(p)'
  BY CallsStay DEF Calm
<1>2. ImportTells(p)'
  <2> SUFFICES ASSUME NEW i \in Concluded(p)', p \in PhonesIn(imports[i])'
               PROVE  \/ ((p \in imports[i].hushed) <=> (p \in listed))'
                      \/ p \in inside'[i]
                      \/ Pending(p, i)'
    BY DEF ImportTells
  <2>1. CASE (p \in imports'[i].hushed) <=> (p \in listed)
    BY <2>1 DEF SameCalls
  <2>2. CASE /\ i \in Concluded(p) /\ imports'[i].clean = imports[i].clean
             /\ (p \in imports'[i].hushed) <=> (p \in imports[i].hushed)
    <3>1. p \in PhonesIn(imports[i])
      BY <2>2 DEF PhonesIn
    <3>2. \/ (p \in imports[i].hushed) <=> (p \in listed)
          \/ p \in inside[i]
          \/ Pending(p, i)
      BY <2>2, <3>1 DEF Calm, ImportTells
    <3> QED
      BY <2>2, <3>2, CallsStay DEF SameCalls, Concluded
  <2> QED
    BY <2>1, <2>2 DEF Concludes
<1>3. ASSUME DOMAIN leads' = DOMAIN leads,
             \A k \in DOMAIN leads : k[2] = p => leads'[k] = leads[k]
      PROVE  LeadsTell(p)'
  BY <1>3 DEF Calm, LeadsTell, SameCalls
<1> QED
  BY <1>1, <1>2, <1>3 DEF Calm

\* Where a read of the list ends.
LEMMA ReadAll ==
  ASSUME NEW m \in ImportState, m.file \in Files, Begun(m), Sound(m), LastChunk(m),
         NEW c \in m.clean
  PROVE  Place(m, c) <= m.at + CHUNK
<1> DEFINE upto == {d \in m.clean : d.row <= c.row}
<1>1. IsFiniteSet(m.clean) /\ Cardinality(m.clean) \in Nat /\ upto \in SUBSET m.clean
  BY SoundIs
<1>2. Cardinality(upto) <= Cardinality(m.clean) /\ IsFiniteSet(upto)
  BY <1>1, FS_Subset
<1>3. Cardinality(upto) \in Nat
  BY <1>2, FS_CardinalityType
<1> HIDE DEF upto
<1>4. m.at \in Nat /\ CHUNK \in Nat /\ m.at + CHUNK >= Cardinality(m.clean)
  BY LimitsAssumption DEF ImportState, LastChunk
<1> QED
  BY <1>1, <1>2, <1>3, <1>4 DEF Place, upto

LEMMA PlaceIs ==
  ASSUME NEW m \in ImportState, m.file \in Files, Begun(m), Sound(m), NEW c \in m.clean
  PROVE  Place(m, c) \in Nat
<1> DEFINE upto == {d \in m.clean : d.row <= c.row}
<1>1. IsFiniteSet(m.clean) /\ upto \in SUBSET m.clean
  BY SoundIs
<1>2. IsFiniteSet(upto)
  BY <1>1, FS_Subset
<1> HIDE DEF upto
<1> QED
  BY <1>2, FS_CardinalityType DEF Place, upto

\* A read of the list, of one chunk.
LEMMA ReadTells ==
  ASSUME TypeInv, NEW i \in Imports, InOrder(imports[i]), ReadSuppressed(i)
  PROVE  /\ InOrder(imports'[i])
         /\ \A p \in Phones :
              i \in Concluded(p)' /\ p \in PhonesIn(imports[i]) =>
                \/ (p \in imports'[i].hushed) <=> (p \in listed)
                \/ /\ i \in Concluded(p)
                   /\ (p \in imports'[i].hushed) <=> (p \in imports[i].hushed)
         /\ \A p : \A j \in Concluded(p)' : j # i => j \in Concluded(p)
<1> DEFINE m == imports[i]
           new == m.hushed \cup Hushed(m)
           w == [m EXCEPT !.hushed = new]
           last == [w EXCEPT !.step = "insert", !.counts = Counted(w)]
           next == [w EXCEPT !.at = @ + CHUNK]
           n == imports'[i]
<1>1. /\ imports \in [Imports -> ImportState] /\ m \in ImportState /\ Sound(m) /\ Begun(m)
      /\ m.file \in Files /\ m.step = "hushed" /\ n.clean = m.clean
      /\ imports' = [imports EXCEPT ![i] = imports'[i]]
  BY StepTypes DEF TypeInv, TypeOK, ImportsOK, ReadsSound, Begun, ReadSuppressed
<1>2. n = IF LastChunk(m) THEN last ELSE next
  BY <1>1 DEF ReadSuppressed
<1>3. m.at \in Nat /\ CHUNK \in Nat
  BY <1>1, LimitsAssumption DEF ImportState
<1>4. n.hushed = new
  <2> HIDE DEF new
  <2>1. w.hushed = new /\ DOMAIN w = DOMAIN m
    BY <1>1 DEF ImportState
  <2>2. last.hushed = w.hushed /\ next.hushed = w.hushed
    BY <1>1 DEF ImportState
  <2> QED
    BY <1>2, <2>1, <2>2
<1>5. ASSUME NEW p \in Phones, NEW c \in m.clean, c.phone = p, Place(m, c) <= m.at + CHUNK
      PROVE  \/ (p \in new) <=> (p \in listed)
             \/ i \in Concluded(p) /\ ((p \in new) <=> (p \in m.hushed))
  <2>1. Place(m, c) \in Nat
    BY <1>1, PlaceIs
  <2>2. CASE Place(m, c) <= m.at
    <3>1. i \in Concluded(p)
      BY <1>1, <1>5, <2>2 DEF Concluded
    <3>2. p \notin Chunk(m)
      <4> SUFFICES ASSUME p \in Chunk(m) PROVE FALSE
        OBVIOUS
      <4>1. PICK d \in m.clean : d.phone = p /\ m.at < Place(m, d)
        BY DEF Chunk
      <4>2. d = c
        BY <1>1, <1>5, <4>1, SoundIs
      <4> QED
        BY <1>3, <2>1, <2>2, <4>1, <4>2
    <3> QED
      BY <3>1, <3>2 DEF Hushed
  <2>3. CASE m.at < Place(m, c)
    <3>1. p \in Chunk(m)
      BY <1>5, <2>3 DEF Chunk
    <3>2. p \notin m.hushed
      <4> SUFFICES ASSUME p \in m.hushed PROVE FALSE
        OBVIOUS
      <4>1. PICK d \in m.clean : Place(m, d) <= m.at /\ d.phone = p
        BY <1>1 DEF InOrder, ReadOf
      <4>2. d = c
        BY <1>1, <1>5, <4>1, SoundIs
      <4> QED
        BY <1>3, <2>1, <2>3, <4>1, <4>2
    <3> QED
      BY <3>1, <3>2 DEF Hushed
  <2> QED
    BY <1>3, <1>5, <2>1, <2>2, <2>3
<1>6. CASE LastChunk(m)
  <2>1. n.step = "insert"
    <3> HIDE DEF new
    <3> QED
      BY <1>1, <1>2, <1>6 DEF ImportState
  <2>2. InOrder(n)
    BY <2>1 DEF InOrder
  <2>3. ASSUME NEW p \in Phones, p \in PhonesIn(m)
        PROVE  \/ (p \in new) <=> (p \in listed)
               \/ i \in Concluded(p) /\ ((p \in new) <=> (p \in m.hushed))
    <3>1. PICK c \in m.clean : c.phone = p
      BY <2>3 DEF PhonesIn
    <3>2. Place(m, c) <= m.at + CHUNK
      BY <1>1, <1>6, ReadAll
    <3> QED
      BY <1>5, <3>1, <3>2
  <2>4. \A p : \A j \in Concluded(p)' : j # i => j \in Concluded(p)
    BY <1>1 DEF Concluded, Place
  <2> HIDE DEF new
  <2> QED
    BY <1>4, <2>2, <2>3, <2>4
<1>7. CASE ~LastChunk(m)
  <2>1. n.step = "hushed" /\ n.at = m.at + CHUNK
    <3> HIDE DEF new
    <3> QED
      BY <1>1, <1>2, <1>7 DEF ImportState
  <2>2. \A c : Place(n, c) = Place(m, c)
    BY <1>1 DEF Place
  <2>3. InOrder(n)
    <3> SUFFICES ASSUME NEW p \in new PROVE ReadOf(n, p)
      BY <1>4, <2>1 DEF InOrder
    <3>1. CASE p \in m.hushed
      <4>1. PICK c \in m.clean : Place(m, c) <= m.at /\ c.phone = p
        BY <1>1, <3>1 DEF InOrder, ReadOf
      <4>2. Place(m, c) <= m.at + CHUNK
        BY <1>1, <1>3, <4>1, PlaceIs
      <4> QED
        BY <1>1, <2>1, <2>2, <4>1, <4>2 DEF ReadOf
    <3>2. CASE p \in Chunk(m)
      <4>1. PICK c \in m.clean : Place(m, c) <= m.at + CHUNK /\ c.phone = p
        BY <3>2 DEF Chunk
      <4> QED
        BY <1>1, <2>1, <2>2, <4>1 DEF ReadOf
    <3> QED
      BY <3>1, <3>2 DEF Hushed
  <2>4. ASSUME NEW p \in Phones, i \in Concluded(p)'
        PROVE  \/ (p \in new) <=> (p \in listed)
               \/ i \in Concluded(p) /\ ((p \in new) <=> (p \in m.hushed))
    <3>1. PICK c \in m.clean : Place(m, c) <= m.at + CHUNK /\ c.phone = p
      <4>1. \E c \in n.clean : Place(n, c) <= n.at /\ c.phone = p
        BY <2>1, <2>4 DEF Concluded, Place
      <4> QED
        BY <1>1, <2>1, <2>2, <4>1
    <3> QED
      BY <1>5, <3>1
  <2>5. \A p : \A j \in Concluded(p)' : j # i => j \in Concluded(p)
    BY <1>1 DEF Concluded, Place
  <2> HIDE DEF new
  <2> QED
    BY <1>4, <2>3, <2>4, <2>5
<1> QED
  BY <1>6, <1>7

\* Every step of a call of import() but the commit.
LEMMA ImportCalm ==
  ASSUME TypeInv, StepInv, NEW i \in Imports,
         \/ \E flow \in Flows, f \in Files : Begin(i, flow, f)
         \/ ReadExisting(i) \/ ReadSuppressed(i) \/ ImportFails(i)
  PROVE  StepInv'
<1>1. /\ imports \in [Imports -> ImportState] /\ imports[i] \in ImportState
      /\ UNCHANGED <<leads, listed, calls, inside, excused>>
      /\ \A j \in Imports : j # i => imports'[j] = imports[j]
  BY DEF TypeInv, TypeOK, ImportsOK, Begin, ReadExisting, ReadSuppressed, ImportFails
<1>2. \A p : SameCalls(p)
  BY <1>1 DEF SameCalls, BusyWith
<1>3. SUFFICES /\ InOrder(imports'[i])
               /\ \A p \in Phones \ excused : Calm(p)'
  BY <1>1 DEF StepInv, InOrder, ReadOf, Place
<1>4. ASSUME imports'[i].step \notin {"hushed", "insert"}, InOrder(imports'[i])
      PROVE  \A p \in Phones \ excused : Calm(p)'
  <2> TAKE p \in Phones \ excused
  <2>1. \A j \in Concluded(p)' : Concludes(p, j)
    <3>1. \A j \in Concluded(p)' : j \in Concluded(p) /\ imports'[j] = imports[j]
      BY <1>1, <1>4 DEF Concluded, Place
    <3> QED
      BY <3>1 DEF Concludes
  <2> QED
    BY <1>1, <1>2, <2>1, Untouched DEF StepInv
<1>5. CASE \E flow \in Flows, f \in Files : Begin(i, flow, f)
  <2>1. PICK flow \in Flows : \E f \in Files : Begin(i, flow, f)
    BY <1>5
  <2>2. PICK f \in Files : Begin(i, flow, f)
    BY <2>1
  <2>3. /\ imports'[i].step \in {"rejected", "existing"}
        /\ imports'[i].step = "existing" => imports'[i].hushed = {}
    <3>1. CASE Rejected(f) \/ PhoneKey(f) = 0
      <4>1. imports'[i] = [imports[i] EXCEPT !.step = "rejected"]
        BY <1>1, <2>2, <3>1 DEF Begin
      <4> QED
        BY <1>1, <4>1 DEF ImportState
    <3>2. CASE ~(Rejected(f) \/ PhoneKey(f) = 0)
      <4>1. imports'[i].step = "existing" /\ imports'[i].hushed = {}
        BY <1>1, <2>2, <3>2 DEF Begin, NotBegun
      <4> QED
        BY <4>1
    <3> QED
      BY <3>1, <3>2
  <2>4. InOrder(imports'[i])
    BY <2>3 DEF InOrder
  <2> QED
    BY <1>3, <1>4, <2>3, <2>4
<1>6. CASE ReadExisting(i)
  <2> DEFINE m == imports[i]
  <2>1. m.step = "existing" /\ m.hushed = {}
    BY <1>6 DEF ReadExisting, StepInv, InOrder
  <2>2. /\ imports'[i].hushed = {} /\ imports'[i].clean = m.clean
        /\ imports'[i].step = IF LastChunk(m) THEN "hushed" ELSE "existing"
        /\ LastChunk(m) => imports'[i].at = 0
    BY <1>1, <1>6, <2>1 DEF ReadExisting, ImportState
  <2>3. InOrder(imports'[i])
    BY <2>2 DEF InOrder
  <2>4. ASSUME NEW p \in Phones \ excused PROVE Calm(p)'
    <3>1. i \notin Concluded(p)'
      <4> SUFFICES ASSUME i \in Concluded(p)' PROVE FALSE
        OBVIOUS
      <4>1. PICK c \in m.clean : Place(imports'[i], c) <= imports'[i].at /\ imports'[i].at = 0
        BY <2>2 DEF Concluded, Place
      <4>2. Begun(m) /\ Sound(m) /\ m.file \in Files
        BY <2>1 DEF TypeInv, TypeOK, ImportsOK, ReadsSound, Begun
      <4> DEFINE upto == {d \in m.clean : d.row <= c.row}
      <4>3. IsFiniteSet(upto) /\ c \in upto
        <5>1. IsFiniteSet(m.clean) /\ c \in Kept
          BY <1>1, <4>2, SoundIs
        <5>2. upto \in SUBSET m.clean /\ c \in upto
          BY <5>1 DEF Kept
        <5> HIDE DEF upto
        <5> QED
          BY <5>1, <5>2, FS_Subset
      <4> HIDE DEF upto
      <4>4. Cardinality(upto) \in Nat \ {0}
        BY <4>3, FS_EmptySet, FS_CardinalityType
      <4>5. Place(imports'[i], c) = Cardinality(upto)
        BY <2>2 DEF Place, upto
      <4> QED
        BY <4>1, <4>4, <4>5
    <3>2. \A j \in Concluded(p)' : j \in Concluded(p) /\ imports'[j] = imports[j]
      BY <1>1, <3>1 DEF Concluded, Place
    <3>3. \A j \in Concluded(p)' : Concludes(p, j)
      BY <3>2 DEF Concludes
    <3> QED
      BY <1>1, <1>2, <3>3, Untouched DEF StepInv
  <2> QED
    BY <1>3, <2>3, <2>4
<1>7. CASE ReadSuppressed(i)
  <2>1. /\ InOrder(imports'[i]) /\ imports'[i].clean = imports[i].clean
        /\ \A p : \A j \in Concluded(p)' : j # i => j \in Concluded(p)
    BY <1>7, ReadTells, StepTypes DEF StepInv
  <2>2. ASSUME NEW p \in Phones \ excused, NEW j \in Concluded(p)', p \in PhonesIn(imports[j])'
        PROVE  Concludes(p, j)
    <3>1. CASE j # i
      <4>1. j \in Imports /\ j \in Concluded(p) /\ imports'[j] = imports[j]
        BY <1>1, <2>1, <2>2, <3>1 DEF Concluded
      <4> QED
        BY <4>1 DEF Concludes
    <3>2. CASE j = i
      <4>1. p \in PhonesIn(imports[i])
        BY <2>1, <2>2, <3>2 DEF PhonesIn
      <4>2. \/ (p \in imports'[i].hushed) <=> (p \in listed)
            \/ /\ i \in Concluded(p)
               /\ (p \in imports'[i].hushed) <=> (p \in imports[i].hushed)
        BY <1>7, <2>2, <3>2, <4>1, ReadTells DEF StepInv
      <4> QED
        BY <2>1, <3>2, <4>2 DEF Concludes
    <3> QED
      BY <3>1, <3>2
  <2> QED
    BY <1>1, <1>2, <1>3, <2>1, <2>2, Untouched DEF StepInv
<1>8. CASE ImportFails(i)
  <2>1. imports'[i].step = "failed"
    BY <1>1, <1>8 DEF ImportFails, ImportState
  <2>2. InOrder(imports'[i])
    BY <2>1 DEF InOrder
  <2> QED
    BY <1>3, <1>4, <2>1, <2>2
<1> QED
  BY <1>5, <1>6, <1>7, <1>8

\* A commit excuses the phones that a call wrote behind its back, and writes the others right.
LEMMA CommitCalm == ASSUME TypeInv, StepInv, NEW i \in Imports, Commit(i) PROVE StepInv'
<1> DEFINE m == imports[i]
<1>1. /\ imports \in [Imports -> ImportState] /\ leads \in [Flows \X Phones -> Lead]
      /\ m.step = "insert" /\ UNCHANGED <<listed, calls, ops, faults, inside>>
      /\ excused' = excused \cup inside[i] /\ DOMAIN leads' = DOMAIN leads
      /\ imports' = [imports EXCEPT ![i] = imports'[i]]
  BY StepTypes DEF TypeInv, TypeOK, ImportsOK, LeadsOK, Commit
<1>2. imports'[i].step = "done"
  BY <1>1 DEF Commit, ImportState
<1>3. \A j \in Imports : InOrder(imports'[j])
  BY <1>1, <1>2 DEF StepInv, InOrder, ReadOf, Place
<1>4. ASSUME NEW p \in Phones \ excused' PROVE Calm(p)'
  <2>1. Calm(p) /\ p \notin inside[i]
    BY <1>1, <1>4 DEF StepInv
  <2>2. SameCalls(p)
    BY <1>1 DEF SameCalls, BusyWith
  <2>3. \A j \in Concluded(p)' : Concludes(p, j)
    <3>1. \A j \in Concluded(p)' : j \in Concluded(p) /\ imports'[j] = imports[j]
      BY <1>1, <1>2 DEF Concluded, Place
    <3> QED
      BY <3>1 DEF Concludes
  <2>4. Alone(p)' /\ ListTells(p)' /\ ImportTells(p)'
    BY <1>1, <2>1, <2>2, <2>3, Untouched
  <2>5. LeadsTell(p)'
    <3> SUFFICES ASSUME NEW k \in DOMAIN leads, k[2] = p, leads'[k].by # None
                 PROVE  /\ BusyWith(p) = {} =>
                             /\ p \in listed => leads'[k].suppressed = TRUE
                                                /\ leads'[k].status = "SUPPRESSED"
                             /\ p \notin listed => leads'[k].suppressed = FALSE
                                                   /\ leads'[k].status = "PENDING"
                        /\ \A c \in BusyWith(p) :
                             calls[c].step = "restore" => leads'[k].suppressed = FALSE
      BY <1>1, <2>2 DEF LeadsTell, SameCalls
    <3>1. CASE leads'[k] = leads[k]
      BY <2>1, <3>1 DEF Calm, LeadsTell
    <3>2. CASE leads'[k] # leads[k]
      <4>1. PICK c \in Inserted(m) :
              /\ k = <<m.flow, c.phone>>
              /\ leads'[k] = [by |-> i, row |-> c.row, suppressed |-> c.phone \in m.hushed,
                              status |-> IF c.phone \in m.hushed
                                         THEN "SUPPRESSED" ELSE "PENDING"]
        BY <3>2, CommitLeads
      <4>2. c \in m.clean /\ c.phone = p
        BY <4>1 DEF Inserted, Novos
      <4>3. /\ p \in m.hushed => leads'[k].suppressed = TRUE /\ leads'[k].status = "SUPPRESSED"
            /\ p \notin m.hushed => leads'[k].suppressed = FALSE
                                    /\ leads'[k].status = "PENDING"
        <5>1. leads'[k] = [by |-> i, row |-> c.row, suppressed |-> p \in m.hushed,
                           status |-> IF p \in m.hushed THEN "SUPPRESSED" ELSE "PENDING"]
          BY <4>1, <4>2
        <5>2. CASE p \in m.hushed
          <6>1. leads'[k] = [by |-> i, row |-> c.row, suppressed |-> TRUE,
                             status |-> "SUPPRESSED"]
            BY <5>1, <5>2, Zenon
          <6> QED
            BY <5>2, <6>1
        <5>3. CASE p \notin m.hushed
          <6>1. (p \in m.hushed) = FALSE
            BY <5>3
          <6>2. leads'[k] = [by |-> i, row |-> c.row, suppressed |-> FALSE,
                             status |-> "PENDING"]
            BY <5>1, <6>1
          <6> QED
            BY <5>3, <6>2
        <5> QED
          BY <5>2, <5>3
      <4>4. i \in Concluded(p) /\ p \in PhonesIn(m)
        BY <1>1, <4>2 DEF Concluded, PhonesIn
      <4>5. ((p \in m.hushed) <=> (p \in listed)) \/ Pending(p, i)
        BY <2>1, <4>4 DEF Calm, ImportTells
      <4>6. CASE (p \in m.hushed) <=> (p \in listed)
        <5>1. \A d \in BusyWith(p) : calls[d].step = "restore" => p \notin listed
          BY <2>1 DEF Calm, ListTells
        <5> QED
          BY <4>3, <4>6, <5>1
      <4>7. CASE Pending(p, i)
        <5>1. BusyWith(p) # {} /\ \A d \in BusyWith(p) : calls[d].step # "restore"
          BY <2>1, <4>7 DEF Calm, Alone, Pending
        <5> QED
          BY <5>1
      <4> QED
        BY <4>5, <4>6, <4>7
    <3> QED
      BY <3>1, <3>2
  <2> QED
    BY <2>4, <2>5 DEF Calm
<1> QED
  BY <1>3, <1>4 DEF StepInv

\* A step of a call does nothing to the other phones.
LEMMA OthersCalm ==
  ASSUME TypeInv, NEW c \in Callers, NEW p \in Phones, NEW q \in Phones, q # p, Calm(q),
         calls[c].step # "idle" => calls[c].phone = p,
         calls'[c].step # "idle" => calls'[c].phone = p,
         \A d \in Callers : d # c => calls'[d] = calls[d],
         imports' = imports, (q \in listed') <=> (q \in listed),
         \A i \in Imports : q \in inside[i] => q \in inside'[i],
         DOMAIN leads' = DOMAIN leads,
         \A k \in DOMAIN leads : k[2] = q => leads'[k] = leads[k]
  PROVE  Calm(q)'
<1>1. SameCalls(q)
  BY DEF SameCalls, BusyWith
<1>2. \A j \in Concluded(q)' : Concludes(q, j)
  BY DEF Concluded, Place, Concludes
<1> QED
  BY <1>1, <1>2, Untouched

\* The call that begins, where it excuses nothing, is alone and after every import that
\* has read the list.
LEMMA BeginningCalm ==
  ASSUME TypeInv, StepInv, NEW c \in Callers, NEW p \in Phones,
         Upsert(c, p) \/ Delete(c, p)
  PROVE  StepInv'
<1>1. /\ UNCHANGED <<leads, imports, inside>> /\ calls \in [Callers -> CallState]
      /\ calls[c].step = "idle"
      /\ \A q : q # p => ((q \in listed') <=> (q \in listed))
                         /\ (q \notin excused' => q \notin excused)
  BY DEF TypeInv, TypeOK, CallsOK, Upsert, Delete, Beginning
<1>2. PICK s \in {"mark", "unflag"} :
        /\ calls' = [calls EXCEPT ![c] = [step |-> s, phone |-> p, after |-> Concluded(p)]]
        /\ p \notin excused' =>
             BusyWith(p) = {} /\ ((s = "mark") <=> (p \in listed'))
  <2>1. CASE Upsert(c, p)
    BY <2>1 DEF Upsert, Beginning
  <2>2. CASE Delete(c, p)
    BY <2>2 DEF Delete, Beginning
  <2> QED
    BY <2>1, <2>2
<1>3. /\ calls'[c] = [step |-> s, phone |-> p, after |-> Concluded(p)]
      /\ \A d \in Callers : d # c => calls'[d] = calls[d]
  BY <1>1, <1>2
<1>4. \A i \in Imports : InOrder(imports'[i])
  BY <1>1 DEF StepInv, InOrder, ReadOf, Place
<1>5. ASSUME NEW q \in Phones \ excused', q # p PROVE Calm(q)'
  <2>1. Calm(q) /\ calls'[c].phone = p
    BY <1>1, <1>3, <1>5 DEF StepInv
  <2> QED
    BY <1>1, <1>3, <1>5, <2>1, OthersCalm
<1>6. ASSUME p \notin excused' PROVE Calm(p)'
  <2>1. BusyWith(p)' = {c}
    BY <1>2, <1>3, <1>6 DEF BusyWith
  <2>2. calls'[c].step = s /\ calls'[c].after = Concluded(p)
    BY <1>3
  <2>3. Alone(p)' /\ ListTells(p)'
    BY <1>2, <1>6, <2>1, <2>2 DEF Alone, ListTells
  <2>4. ImportTells(p)'
    <3>1. \A i \in Concluded(p)' : i \in Concluded(p)
      BY <1>1 DEF Concluded, Place
    <3>2. \A i \in Concluded(p)' : Pending(p, i)'
      BY <2>1, <2>2, <3>1 DEF Pending
    <3> QED
      BY <3>2 DEF ImportTells
  <2>5. LeadsTell(p)'
    BY <2>1, <2>2 DEF LeadsTell
  <2> QED
    BY <2>3, <2>4, <2>5 DEF Calm
<1> QED
  BY <1>4, <1>5, <1>6 DEF StepInv

\* A call that writes the leads.
LEMMA WritingCalm ==
  ASSUME TypeInv, StepInv, NEW c \in Callers, MarkSuppressed(c) \/ Unflag(c) \/ Restore(c)
  PROVE  StepInv'
<1>0. SUFFICES ASSUME NEW p, p = calls[c].phone PROVE StepInv'
  OBVIOUS
<1>1. /\ UNCHANGED <<listed, imports, excused>> /\ calls \in [Callers -> CallState]
      /\ leads \in [Flows \X Phones -> Lead] /\ DOMAIN leads' = DOMAIN leads
      /\ calls[c].step # "idle" /\ p \in Phones
      /\ inside \in [Imports -> SUBSET Phones]
  BY <1>0 DEF TypeInv, TypeOK, CallsOK, CallState, LeadsOK, MarkSuppressed, Unflag, Restore
<1>2. /\ \A d \in Callers : d # c => calls'[d] = calls[d]
      /\ MarkSuppressed(c) \/ Restore(c) => calls'[c].step = "idle"
      /\ Unflag(c) => /\ calls'[c].step = "restore" /\ calls'[c].phone = p
                      /\ calls'[c].after = calls[c].after
      /\ MarkSuppressed(c) => calls[c].step = "mark"
      /\ Unflag(c) => calls[c].step = "unflag"
      /\ Restore(c) => calls[c].step = "restore"
  BY <1>0, <1>1 DEF MarkSuppressed, Unflag, Restore, NoCall, CallState
<1>3. /\ \A i \in Imports, q \in Phones : q \in inside[i] => q \in inside'[i]
      /\ \A i \in calls[c].after \cap Concluded(p) : ~Restore(c) => p \in inside'[i]
  <2>1. CASE Restore(c)
    BY <2>1 DEF Restore
  <2>2. CASE Marking(c)
    BY <1>0, <1>1, <2>2 DEF Marking, Concluded
  <2> QED
    BY <2>1, <2>2 DEF MarkSuppressed, Unflag
<1>4. \A i \in Imports : InOrder(imports'[i])
  BY <1>0, <1>1 DEF StepInv, InOrder, ReadOf, Place
<1>5. ASSUME NEW q \in Phones \ excused, q # p PROVE Calm(q)'
  <2>1. \A k \in DOMAIN leads : k[2] = q => leads'[k] = leads[k]
    BY <1>0, <1>5, CallLeads
  <2>2. Calm(q)
    BY <1>5 DEF StepInv
  <2>3. calls'[c].step # "idle" => calls'[c].phone = p
    BY <1>0, <1>2
  <2> QED
    BY <1>0, <1>1, <1>2, <1>3, <1>5, <2>1, <2>2, <2>3, OthersCalm
<1>6. ASSUME p \notin excused PROVE Calm(p)'
  <2>1. Calm(p) /\ c \in BusyWith(p)
    BY <1>0, <1>1, <1>6 DEF StepInv, BusyWith
  <2>2. BusyWith(p) = {c}
    BY <2>1 DEF Calm, Alone
  <2>3. /\ MarkSuppressed(c) \/ Restore(c) => BusyWith(p)' = {}
        /\ Unflag(c) => BusyWith(p)' = {c}
    BY <1>0, <1>2, <2>2 DEF BusyWith
  <2>4. (calls[c].step = "mark") <=> (p \in listed)
    BY <2>1 DEF Calm, ListTells
  <2>5. Alone(p)' /\ ListTells(p)'
    BY <1>0, <1>1, <1>2, <2>3, <2>4 DEF Alone, ListTells
  <2>6. ImportTells(p)'
    <3> SUFFICES ASSUME NEW i \in Concluded(p)', p \in PhonesIn(imports[i])'
                 PROVE  \/ (p \in imports[i].hushed) <=> (p \in listed)
                        \/ p \in inside'[i]
      BY <1>0, <1>1 DEF ImportTells
    <3>1. i \in Concluded(p) /\ p \in PhonesIn(imports[i]) /\ i \in Imports
      BY <1>0, <1>1 DEF Concluded, PhonesIn, Place
    <3>2. \/ (p \in imports[i].hushed) <=> (p \in listed)
          \/ p \in inside[i]
          \/ Pending(p, i)
      BY <2>1, <3>1 DEF Calm, ImportTells
    <3>3. CASE Pending(p, i)
      <4>1. calls[c].step # "restore" /\ i \in calls[c].after
        BY <2>2, <3>3 DEF Pending
      <4> QED
        BY <1>2, <1>3, <3>1, <4>1
    <3> QED
      BY <1>0, <1>1, <1>3, <3>1, <3>2, <3>3
  <2>7. LeadsTell(p)'
    <3> SUFFICES ASSUME NEW k \in DOMAIN leads, k[2] = p, leads'[k].by # None
                 PROVE  /\ BusyWith(p)' = {} =>
                             /\ p \in listed => leads'[k].suppressed = TRUE
                                                /\ leads'[k].status = "SUPPRESSED"
                             /\ p \notin listed => leads'[k].suppressed = FALSE
                                                   /\ leads'[k].status = "PENDING"
                        /\ Unflag(c) => leads'[k].suppressed = FALSE
      BY <1>0, <1>1, <1>2, <2>3 DEF LeadsTell
    <3>1. /\ leads[k].by # None
          /\ MarkSuppressed(c) => leads'[k].suppressed = TRUE /\ leads'[k].status = "SUPPRESSED"
          /\ Unflag(c) => leads'[k].suppressed = FALSE
          /\ Restore(c) => leads'[k].suppressed = leads[k].suppressed
                           /\ leads'[k].status = "PENDING"
      BY <1>0, CallLeads
    <3>2. Restore(c) => leads[k].suppressed = FALSE
      BY <1>0, <1>2, <2>1, <3>1 DEF Calm, LeadsTell
    <3> QED
      BY <1>2, <2>3, <2>4, <3>1, <3>2
  <2> QED
    BY <2>5, <2>6, <2>7 DEF Calm
<1> QED
  BY <1>1, <1>4, <1>5, <1>6 DEF StepInv

\* A call that is cut excuses its phone.
LEMMA CutCalm == ASSUME TypeInv, StepInv, NEW c \in Callers, CallFails(c) PROVE StepInv'
<1> DEFINE p == calls[c].phone
<1>1. /\ UNCHANGED <<leads, listed, imports, inside>> /\ excused' = excused \cup {p}
      /\ calls' = [calls EXCEPT ![c] = NoCall] /\ calls \in [Callers -> CallState]
      /\ p \in Phones
  BY DEF TypeInv, TypeOK, CallsOK, CallState, CallFails
<1>2. calls'[c].step = "idle" /\ \A d \in Callers : d # c => calls'[d] = calls[d]
  BY <1>1 DEF NoCall
<1>3. \A i \in Imports : InOrder(imports'[i])
  BY <1>1 DEF StepInv, InOrder, ReadOf, Place
<1>4. ASSUME NEW q \in Phones \ excused' PROVE Calm(q)'
  <2>1. q # p /\ Calm(q)
    BY <1>1, <1>4 DEF StepInv
  <2> QED
    BY <1>1, <1>2, <1>4, <2>1, OthersCalm
<1> QED
  BY <1>3, <1>4 DEF StepInv

LEMMA InStepStep == TypeInv /\ StepInv /\ [Next]_vars => StepInv'
<1> SUFFICES ASSUME TypeInv, StepInv, [Next]_vars PROVE StepInv'
  OBVIOUS
<1>1. CASE UNCHANGED vars
  <2>1. \A p : Concluded(p)' = Concluded(p)
    BY <1>1 DEF vars, Concluded, Place
  <2> QED
    BY <1>1, <2>1 DEF vars, StepInv, InOrder, ReadOf, Place, Calm, Alone, ListTells, ImportTells,
                      Pending, LeadsTell, BusyWith, PhonesIn
<1> QED
  BY <1>1, ImportCalm, CommitCalm, BeginningCalm, WritingCalm, CutCalm DEF Next

\* Where no call on the phone is running, its leads are suppressed exactly if it is on the
\* list, but for the cases that InStep excuses (import, suppress and unsuppress).
THEOREM LeadsInStep == Spec => []InStep
<1>1. Init => StepInv
  BY DEF Init, StepInv, InOrder, NotBegun, Calm, Alone, ListTells, ImportTells, LeadsTell,
         BusyWith, NoCall, Concluded, NoLead
<1>2. ASSUME TypeInv, StepInv PROVE InStep
  <2> SUFFICES ASSUME NEW p \in Phones \ excused, BusyWith(p) = {}, NEW f \in Flows,
                      Exists(f, p)
               PROVE  /\ leads[<<f, p>>].suppressed = (p \in listed)
                      /\ (leads[<<f, p>>].status = "SUPPRESSED") = (p \in listed)
    BY DEF InStep
  <2> DEFINE k == <<f, p>>
  <2>1. leads \in [Flows \X Phones -> Lead] /\ k \in DOMAIN leads /\ k[2] = p
    BY <1>2 DEF TypeInv, TypeOK, LeadsOK
  <2>2. leads[k].by # None
    BY DEF Exists
  <2>3. /\ p \in listed => leads[k].suppressed = TRUE /\ leads[k].status = "SUPPRESSED"
        /\ p \notin listed => leads[k].suppressed = FALSE /\ leads[k].status = "PENDING"
    BY <1>2, <2>1, <2>2 DEF StepInv, Calm, LeadsTell
  <2> HIDE DEF k
  <2>4. CASE p \in listed
    BY <2>3, <2>4 DEF k
  <2>5. CASE p \notin listed
    <3>1. leads[k].suppressed = FALSE /\ leads[k].status = "PENDING"
      BY <2>3, <2>5
    <3>2. leads[k].status # "SUPPRESSED"
      BY <3>1
    <3>3. (p \in listed) = FALSE /\ (leads[k].status = "SUPPRESSED") = FALSE
      BY <2>5, <3>2
    <3> QED
      BY <3>1, <3>3, Zenon DEF k
  <2> QED
    BY <2>4, <2>5
<1> QED
  BY <1>1, <1>2, TypeAlways, InStepStep, PTL DEF Spec
=============================================================================
