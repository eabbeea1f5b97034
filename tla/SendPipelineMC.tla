--------------------------- MODULE SendPipelineMC ---------------------------
(***************************************************************************)
(* Small instances of SendPipeline for TLC.                                 *)
(***************************************************************************)
EXTENDS SendPipeline, TLC

CONSTANTS o1, r1

\* An opening is one balloon, a reply two.
TwoBalloons == [j \in Jobs |-> IF j \in Openings THEN 1 ELSE 2]
=============================================================================
