\* Send failures whose jobs fail and come back, a crash, and the way out of the cooldown.
SPECIFICATION FairSpec
CONSTANTS
  s1 = s1  s2 = s2  s3 = s3
  Slots = {s1, s2}
  Signals = {"SEND_FAIL", "RECOVERED"}
  Heals = {0}  StartScores = {80, 100}
  RampCurve <- CurveThree  PromoteDay = 2
  Commands = {"STOP", "PAIR"}
  MaxSignals = 5  MaxDay = 0  MaxOps = 0  MaxConnects = 0  MaxFaults = 1
PROPERTIES CooldownEnds
