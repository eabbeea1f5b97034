\* Two overlapping sweeps, receipts that are late, repeated or lost, and a fault.
SPECIFICATION FairSpec
CONSTANTS
  o1 = o1  w1 = w1  w2 = w2
  Openings = {o1}  Sweepers = {w1, w2}  Traffic <- Boundary  None = None
  MaxCopies = 2  MaxReceipts = 2  MaxFaults = 1  MaxUnread = 1
INVARIANTS SignalledOnce DropOnce
PROPERTIES Watched
CHECK_DEADLOCK FALSE
