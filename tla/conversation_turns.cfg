\* Two consumers, two messages after one the lead may have sent before, redelivery and faults.
SPECIFICATION FairSpec
CONSTANTS
  k1 = k1  k2 = k2  m1 = m1  m2 = m2  e1 = e1  None = None
  Consumers = {k1, k2}  Messages = {m1, m2}  Earlier = {e1}
  Intents = {"buy", "human", "optout"}
  MinTurns = 2  Attempts = 2
  MaxAgain = 1  MaxFaults = 1
INVARIANTS AnswerOnce LinkOnce OptOutLands
PROPERTIES Silence Answered
CHECK_DEADLOCK FALSE
