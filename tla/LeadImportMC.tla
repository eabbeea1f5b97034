----------------------------- MODULE LeadImportMC -----------------------------
(***************************************************************************)
(* Small instances of LeadImport for TLC.                                   *)
(***************************************************************************)
EXTENDS LeadImport, TLC

CONSTANTS f1, p1, p2, i1, i2, c1, c2

Text(p, form) == [number |-> p, form |-> form]
Blank == Text(None, "empty")

\* One number in two forms and another one.
Book == [format |-> "csv", signed |-> FALSE, heads |-> <<"name", "strong">>,
         rows |-> <<<<Blank, Text(p1, "ddi")>>,
                    <<Blank, Text(p1, "plus")>>,
                    <<Blank, Text(p2, "national")>>>>]

\* The digits of p2 without its "+" are those of p1 without its 55.
TakenFor == (p1 :> None) @@ (p2 :> p1)

\* Three columns that claim to be the telephone: no numbers; half of them; no numbers.  In
\* the second, p2 without "+" comes before p1.
Crm  == [format |-> "xlsx", signed |-> TRUE, heads |-> <<"strong", "hasStrong", "hasWeak">>,
         rows |-> <<<<Text(None, "national"), Text(p2, "foreign"), Blank>>,
                    <<Blank, Text(None, "plus"), Text(p1, "foreign")>>,
                    <<Blank, Text(p1, "plus"), Blank>>>>]

Bin  == [format |-> "xlsx", signed |-> FALSE, heads |-> <<"strong">>,
         rows |-> <<<<Text(p1, "plus")>>>>]

Alike == Permutations(Imports) \cup Permutations(Callers)

SmallFiles == {Book, Crm, Bin}
=============================================================================
