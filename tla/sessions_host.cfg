\* Three commands, two handlers and the recovery; two sessions more than the chip needs.
SPECIFICATION FairSpec
CONSTANTS
  h1 = h1  h2 = h2  boot = boot
  Handlers = {h1, h2}  Recovery = boot
  Commands = {"START", "STOP", "RETIRE"}
  MaxCmds = 2  MaxSessions = 4  MaxCloses = 2  MaxFaults = 1
INVARIANTS NoOrphan RetiredHasNone
PROPERTIES Reconnects Recovers
CHECK_DEADLOCK FALSE
