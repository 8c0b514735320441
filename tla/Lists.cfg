CONSTANTS
  w1 = w1
  NULL = NULL
  Confs <- MCConfs
  Kind <- MCKind
  Includes <- MCIncludes
  Phrases = "phrases"
  Labels <- MCLabels
  Numbers <- MCNumbers
  nlimit = 1
  abort_on_missing_list = FALSE
  Workers <- MCWorkers
  MaxEdits = 2
  MaxLoads = 3
  Bits = 3
  filter_groups = 2
  None = None
  FewBranches = 2
  MaxItems = 3
  MaxLines = 2
  SiteFiles <- MCSiteFiles
  URLFiles <- MCURLFiles
  ExtensionFiles <- MCExtensionFiles
  IPFiles <- MCIPFiles
  PhraseFiles <- MCPhraseFiles
  Hosts <- MCHosts
  URLs <- MCURLs
  FileNames <- MCFileNames
  FilterConfs <- MCFilterConfs
  Texts <- MCTexts
  Times <- MCTimes
SPECIFICATION ListsSpec
CHECK_DEADLOCK FALSE
INVARIANTS HeldListsAreKept    
PROPERTY MapsInForceAreNotWritten
