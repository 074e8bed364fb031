\* Requests are made once each, so the system may come to rest.
CHECK_DEADLOCK FALSE
SPECIFICATION RegistrySpec
CONSTANTS
  c1 = c1
  c2 = c2
  i1 = i1
  i2 = i2
  p1 = p1
  p2 = p2
  p3 = p3
  None = None
  Requests <- MCRequests
  Keys <- MCKeys
  Locks <- MCLocks
  KeyOf <- MCKeyOf
  LockOf <- MCLockOf
  OutputLen <- MCOutputLen
  LogCap = 2
  PipeCap = 1
  Plans <- MCPlans
  Slots <- MCSlots
  SlotOf <- MCSlotOf
  PlanSlot <- MCPlanSlot
  Ensuring = {"installation"}
  Labelled = {"cilium"}
  FirstLogs = {"install", "cluster"}
  Preset = {}
  Scenarios <- MCScenarios
INVARIANTS
  RegistryTypeOK
  OverlapBoundedByCreations
  LogCoherentWithoutRace
  LabelOfALoneRun
PROPERTIES
  NoKeyErrorAfterPlan
  EveryPostAnswered
