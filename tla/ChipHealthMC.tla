---------------------------- MODULE ChipHealthMC ----------------------------
(***************************************************************************)
(* Small instances of ChipHealth for TLC.                                   *)
(***************************************************************************)
EXTENDS ChipHealth, TLC

CONSTANTS s1, s2, s3

CurveThree == <<5, 8, 15>>
SlotSymmetry == Permutations(Slots)
=============================================================================
