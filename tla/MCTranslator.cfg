SPECIFICATION Spec
CONSTANTS
  Tables <- SomeTables
  Commands <- SomeCommands
  MaxUpdates = 2
  MaxDepth = 3
  Contents <- SomeContents
  Filters <- SomeFilters
  SortKeys <- SomeSortKeys
  Records <- SomeRecords
  MaxRecords = 3
  ProjectSets <- SomeProjections
  Pipelines <- SomePipelines
  Width = 6
  ExpBits = 3
  ManBits = 2
  Bias = 1
  Base = 3
  Digits = 3
  MaxOptions = 3
  Cells = {0, 1, 2, 3}
  MaxLength = 8
  Sendable <- SomeRequests
  Flags = {0, 1, 4}
  Tokens = {")", ",", ";", "{", "}", ":", "x"}
  MaxTokens = 6
  Arguments <- SomeArguments
  Shelf = 2
INVARIANTS KeysAndIdsAgree FilterAgrees ResultsAreShaped EncodingsAreFaithful RequestsReadWhole StatementsMeanWhatTheySay
PROPERTIES UpdatesDoWhatTheySay
CHECK_DEADLOCK FALSE
