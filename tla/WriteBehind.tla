----------------------------- MODULE WriteBehind -----------------------------
(***************************************************************************)
(* What the auth state promises: a memory that takes updates at once and a  *)
(* stored copy that follows behind.  The stored copy is always a past state *)
(* of the memory and never goes back; a restart may lose only what it had   *)
(* not reached; a wipe empties both.                                        *)
(***************************************************************************)
CONSTANT Updates

VARIABLES memory, stored

vars == <<memory, stored>>

Behind == stored \subseteq memory /\ memory \subseteq Updates

Init == memory = {} /\ stored = {}

Set(u) == memory' = memory \cup {u} /\ UNCHANGED stored

\* The states of memory the stored copy may move to.
Ahead == {s \in SUBSET memory : stored \subseteq s}

Sync == stored' \in Ahead /\ UNCHANGED memory

Restart == stored' \in Ahead /\ memory' = stored'

Wipe == memory' = {} /\ stored' = {}

Next == (\E u \in Updates : Set(u)) \/ Sync \/ Restart \/ Wipe

Spec == Init /\ [][Next]_vars
=============================================================================
