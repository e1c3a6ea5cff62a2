SPECIFICATION Spec
CONSTANTS
  Workers = {0, 1}
  Tasks = {r, a, b}
  Root = r
  Scope = scope
  None = None
  r = r
  a = a
  b = b
  Programs <- MCPrograms
INVARIANTS
  NoForgottenJoiner
  JoinTellsTheTruth
  SurvivorsAreCounted
PROPERTY
  StopEnds
CHECK_DEADLOCK FALSE
