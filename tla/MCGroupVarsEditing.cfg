SPECIFICATION Spec
CONSTANTS
  Keys = {"a", "b", "c"}
  None = "-"
  Texts <- MCTexts
  Empty = ""
  Garbled = "key:"
  Templates <- MCTemplates
  Typed <- MCTyped
  Blocks <- MCBlocks
  Repos <- MCRepos
  RepoValue <- MCRepoValue
  Urls <- MCUrls
  FilesRepo = "{{files_repo}}"
  Header <- MCHeader
  MaxKeys = 2
  MaxLines = 6
INVARIANTS
  TypeOK
  OtherKeysUntouched
  UpdatesReadBack
  SwitchingBackRestores
  ConfigureIsIdempotent
  ConfigureEnables
\* A session may end, and each further save may pass the bound on the lines.
CHECK_DEADLOCK FALSE
