\* Runs are made once each and the person stops choosing.
CHECK_DEADLOCK FALSE
SPECIFICATION Spec
CONSTANTS
  s1 = s1
  s2 = s2
  t1 = t1
  r1 = r1
  i1 = i1
  i2 = i2
  v1 = v1
  v2 = v2
  c1 = c1
  c2 = c2
  None = None
  Invs = {"a", "b"}
  Runs <- MCRuns
  ButtonOf <- MCButtonOf
  InvOf <- MCInvOf
  Succeeds <- MCSucceeds
  Says <- MCSays
  Scenarios <- MCScenarios
INVARIANTS
  TypeOK
  VerdictOfALoneRun
  ViewMatchesTab
  PollsDoNotMultiply
PROPERTIES
  RunGoesWhereShown
  RunningLabelGoes
