\* The kill switch under racing signals, the sweep, the reset and the operator.
SPECIFICATION Spec
CONSTANTS
  s1 = s1  s2 = s2  s3 = s3
  Slots = {s1, s2}
  Signals = {"REPLY_DROP", "RECOVERED"}
  Heals = {0, 16}  StartScores = {70}
  RampCurve <- CurveThree  PromoteDay = 2
  Commands = {"START", "RETIRE"}
  MaxSignals = 3  MaxDay = 1  MaxOps = 1  MaxConnects = 1  MaxFaults = 0
SYMMETRY SlotSymmetry
INVARIANTS NoScarring KillSwitch KilledIsOff
