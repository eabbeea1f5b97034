\* The interval timer alone, over two dispatches that share one chip, with a fault, a
\* write to the chip by others and a midnight.
SPECIFICATION FairSpec
CONSTANTS
  l1 = l1  l2 = l2  c1 = c1  c2 = c2  d1 = d1  d2 = d2  f1 = f1  f2 = f2
  n1 = n1  n2 = n2  t1 = t1  t2 = t2
  Leads = {l1, l2}  Chips = {c1}  Dispatches = {d1, d2}  Flows = {f1, f2}  Phones = {n1}
  Ticks = {t1}  Timer = t1  None = None
  FlowOf <- TwoFlows  PhoneOf <- OnePhone
  RampCurve <- CurveOne  PromoteDay = 2  ShortJitter = FALSE
  MaxDay = 1  MaxOps = 0  MaxMoves = 1  MaxFaults = 1
INVARIANTS CapRespected
PROPERTIES Drains
