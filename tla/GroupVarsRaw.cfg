\* Requests are made once each, so the system may come to rest.
CHECK_DEADLOCK FALSE
SPECIFICATION Spec
CONSTANTS
  save1 = save1
  save2 = save2
  bad = bad
  conf = conf
  raw = raw
  get = get
  Keys = {"a", "b", "c", "k"}
  None = "-"
  Texts <- MCTexts
  Empty = ""
  Garbled = "key:"
  Handlers <- MCHandlers
  Kind <- MCKind
  Updates <- MCUpdates
  Template <- MCTemplate
  Header <- MCHeader
  Order <- MCOrder
  MaxCrashes = 1
INVARIANT RawSavesAreTaken
