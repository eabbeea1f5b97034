\* Two callers of tick(), a crash or exception, and opt-outs come and gone, over one lead and a midnight.
SPECIFICATION Spec
CONSTANTS
  l1 = l1  l2 = l2  c1 = c1  c2 = c2  d1 = d1  d2 = d2  f1 = f1  f2 = f2
  n1 = n1  n2 = n2  t1 = t1  t2 = t2
  Leads = {l1}  Chips = {c1}  Dispatches = {d1}  Flows = {f1}  Phones = {n1}
  Ticks = {t1, t2}  Timer = t1  None = None
  FlowOf <- OneFlow  PhoneOf <- OnePhone
  RampCurve <- CurveTwo  PromoteDay = 2  ShortJitter = FALSE
  MaxDay = 1  MaxOps = 2  MaxMoves = 0  MaxFaults = 1
SYMMETRY TickSymmetry
INVARIANTS OneOpening FlaggedIsParked QueuedIsHeld RampPerDay
