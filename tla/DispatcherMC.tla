---------------------------- MODULE DispatcherMC ----------------------------
(***************************************************************************)
(* Small instances of Dispatcher for TLC, and a property its documents      *)
(* claim and the code does not keep.                                        *)
(***************************************************************************)
EXTENDS Dispatcher, TLC

CONSTANTS l1, l2, c1, c2, d1, d2, f1, f2, n1, n2, t1, t2

\* Two leads of one flow, with one or two dispatches of that flow.
OneFlow == [x \in Leads \cup Dispatches |-> f1]
TwoPhones == (l1 :> n1) @@ (l2 :> n2)

\* The same phone imported into two flows.
TwoFlows == (l1 :> f1) @@ (l2 :> f2) @@ (d1 :> f1) @@ (d2 :> f2)
OnePhone == [x \in Leads |-> n1]

\* The callers of tick() are interchangeable: only the fairness names the timer.
TickSymmetry == Permutations(Ticks)

CurveOne == <<1, 2>>
CurveTwo == <<2, 3>>

\* Properties of the documents ------------------------------------------------

\* "O numero nunca mais e enfileirado em nenhum fluxo": no opening job is added for a
\* lead whose suppression is complete (docs/ESPEC_MOTOR_DISPARO.md:508).
OptOutSacred ==
  [][\A l \in Leads : jobs'[l] > jobs[l] => ~suppressed[l]]_vars
=============================================================================
