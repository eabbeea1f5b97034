\* Two runs of tick(): two edits of the templates and three openings, three edits and two
\* openings; or one of each, and three turns of the lead.
SPECIFICATION WordingSpec
CONSTANTS
  o1 = o1  o2 = o2  timer = timer  post = post
  Ids = {o1, o2}  Templates <- SmallTemplates
  Names = {"ana", "bia"}  Metas <- SmallMetas  FlowVars <- SmallFlowVars  Raws <- SmallRaws
  Forbidden = {"certo"}  Inviting = {"topa"}  Endings = {"com", "net"}  NoDomain = {"1", "500"}
  Openers = {timer, post}
  Null = Null
  MAX_CHARS = 19  LEAST_CUT = 6  SPLIT = 9
  RETRIES = 1  ATTEMPTS = 2  RECENT = 1  LAST = 3  MIN_TURNS = 2
  Budgets <- SmallBudgets
INVARIANTS Rotates OpeningClean Sanitised BalloonsWhole
SYMMETRY TwoRuns
CHECK_DEADLOCK FALSE
