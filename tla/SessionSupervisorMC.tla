------------------------ MODULE SessionSupervisorMC ------------------------
(***************************************************************************)
(* A small instance of SessionSupervisor for TLC.                           *)
(***************************************************************************)
EXTENDS SessionSupervisor

CONSTANTS h1, h2, boot
=============================================================================
