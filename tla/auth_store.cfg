\* Sessions that stop, are logged out or crash, and a socket that writes after its end.
SPECIFICATION FairSpec
CONSTANTS MaxInst = 3  MaxSets = 3  MaxLate = 1  MaxCross = 1  MaxFaults = 1
INVARIANTS WipedStays
PROPERTIES StopKeeps Refines Stored
CHECK_DEADLOCK FALSE
