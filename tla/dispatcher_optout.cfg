\* An opt-out that arrives while its lead is being dispatched.
SPECIFICATION Spec
CONSTANTS
  l1 = l1  l2 = l2  c1 = c1  c2 = c2  d1 = d1  d2 = d2  f1 = f1  f2 = f2
  n1 = n1  n2 = n2  t1 = t1  t2 = t2
  Leads = {l1}  Chips = {c1}  Dispatches = {d1}  Flows = {f1}  Phones = {n1}
  Ticks = {t1}  Timer = t1  None = None
  FlowOf <- OneFlow  PhoneOf <- OnePhone
  RampCurve <- CurveTwo  PromoteDay = 2  ShortJitter = FALSE
  MaxDay = 0  MaxOps = 1  MaxMoves = 0  MaxFaults = 0
PROPERTIES OptOutSacred
