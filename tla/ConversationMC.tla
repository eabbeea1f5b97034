--------------------------- MODULE ConversationMC ---------------------------
(***************************************************************************)
(* A small instance of Conversation for TLC.                                *)
(***************************************************************************)
EXTENDS Conversation

CONSTANTS k1, k2, m1, m2, e1
=============================================================================
