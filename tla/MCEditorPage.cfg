\* The person does a bounded number of things, so the page may come to rest.
CHECK_DEADLOCK FALSE
SPECIFICATION Spec
CONSTANTS
  n1 = n1
  n2 = n2
  Nodes <- MCNodes
  InvNames <- MCInvNames
  Sample = "sample"
  Existing <- MCExisting
  Files = {"all.yml", "etcd.yml"}
  Keys = {"k"}
  Values = {"typed"}
  Blank = "blank"
  HOSTS_VIEW = "__hosts__"
  None = None
  Scenarios <- MCScenarios
  MaxActs <- MCMaxActs
  MaxInFlight = 2
  MaxLosses = 1
INVARIANTS
  TypeOK
  SavesCarryTheirOwnEdits
  SelectionIsShown
  OpsReachIsWhatTheFormShows
  DiscardedStaysDiscarded
PROPERTIES
  EditsLeaveSavedOrDiscarded
