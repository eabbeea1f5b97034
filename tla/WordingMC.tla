----------------------------- MODULE WordingMC -----------------------------
(***************************************************************************)
(* A small instance of Wording for TLC.                                     *)
(***************************************************************************)
EXTENDS Wording, TLC

CONSTANTS o1, o2, timer, post

Lit(t) == [key |-> Null, text |-> t]
Var(k, t) == [key |-> k, text |-> t]

\* A name; a variable with a fallback; a domain of another ending; the two refused ones, a
\* listed domain and a text that asks for nothing.
Greeting == <<Lit(<<"oi", " ">>), Var("nome", <<>>), Lit(<<" ", "topa", "?">>)>>
Site     == <<Lit(<<"veja", " ">>), Var("site", <<"aqui">>), Lit(<<" ", "topa">>)>>
Offer    == <<Lit(<<"loja", ".", "app", "?">>), Var("link", <<>>)>>
Linked   == <<Lit(<<"loja", ".", "com", "?">>)>>
Bare     == <<Lit(<<"oi">>)>>
SmallTemplates == {Greeting, Site, Offer, Linked, Bare}

\* Ana has a site in her file, an empty name and a link; Bia has nothing.
NoColumns == [k \in Keys |-> Null]
SmallMetas == [n \in {"ana", "bia"} |->
  IF n = "ana" THEN [nome |-> <<>>, link |-> <<"x", ".", "com">>, site |-> <<"y", ".", "net">>]
  ELSE NoColumns]
SmallFlowVars == [NoColumns EXCEPT !["site"] = <<"loja">>]

\* A sentence; two; four and one unfinished; seven; too long; a link, one spelled out, one
\* that only blanks make; a promise; no word; a long one with a number that has a full stop.
SmallRaws == {
  <<"a", ".">>, <<"b", "?">>, <<"b", " ", "a", ".">>,
  <<"a", ".", " ", "b", "?", " ", "c", ".", ".", " ", "d", "?", " ", "e">>,
  <<"a", ".", " ", "b", ".", " ", "c", ".", " ", "d", ".", " ", "e", ".", " ", "f", ".", " ", "g">>,
  <<"a", " ", "b", " ", "c", " ", "d", ".", " ", "e", " ", "f", ".", " ", "g", " ", "h", " ", "i", " ", "j", " ", "k">>,
  <<"a", ".", "b">>, <<"a", " ", "ponto", " ", "b">>, <<"a", ".", "gap", "b">>,
  <<"a", " ", "certo", ".">>, <<"?">>,
  <<"a", " ", "1", ".", "500", " ", "b", ".", " ", "c">> }

SmallBudgets == {
  [edits |-> 2, opens |-> 3, turns |-> 0], [edits |-> 3, opens |-> 2, turns |-> 0],
  [edits |-> 1, opens |-> 1, turns |-> 3] }

\* The two runs of tick() do the same.
TwoRuns == Permutations({timer, post})
=============================================================================
