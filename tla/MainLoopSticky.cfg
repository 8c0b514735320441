CONSTANTS
  Handlers = {h1}
  Loggers = FALSE
  abort_on_missing_list = TRUE
  MaxSends = 2
  MaxEdits = 2
  NoLists = NoLists
CHECK_DEADLOCK FALSE
SPECIFICATION FairSpec
PROPERTY ReloadRecovers
