\* An opening and a reply of two balloons, each tried twice; lost connections, crashes, rejected calls.
SPECIFICATION FairSpec
CONSTANTS
  o1 = o1  r1 = r1
  Openings = {o1}  Replies = {r1}  Parts <- TwoBalloons  None = None
  Attempts = 2
  MaxMishaps = 2
INVARIANTS WholeReply CopiesBounded LinkedToOwn FailureTells
PROPERTIES Settles
CHECK_DEADLOCK FALSE
