SPECIFICATION RulesSpec
CONSTANTS
  c1 = c1
  c2 = c2
  rd = rd
  Procs = {en, dev}
  Enforced = {en}
  Denies <- DevDenies
  Tasks = {c1, c2, rd}
  Changes = {c1, c2}
  Ttl <- Lifetimes
  Cap = 1
  MaxTime = 1
  MaxArgs = 4
  NoName = NoName
  MaxEdits = 1
  Nothing = Nothing
  MaxChanges = 2
  MaxCalls = 3
  NoWindow = NoWindow
  MaxWindows = 2
  MaxActions = 2
  Letters = {"a", "b"}
  MaxValue = 4
  MaxPattern = 4
  MaxStarts = 4
INVARIANTS
  TypeOK
  RulesTypeOK
  RunsAreApproved
  ChallengesStayOpenAndFew
  NothingRunsUnasked
  ChecksAreTrue
  EffectsStayInside
  BrowserIsKept
PROPERTIES
  TighteningNeverLoosens
VIEW Distinct
CHECK_DEADLOCK FALSE
