CONSTANTS
  w1 = w1
  w2 = w2
  NULL = NULL
  None = None
  Workers <- MCWorkers
  Requests <- MCRequests
  Lookup <- MCLookup
  Lists <- MCLists
  check_ip = {"me"}
  check_ports = {"n1", "me"}
  connect_retries = 2
  CounterLimit = 4
  MaxLoads = 2
  MaxRequests = 2
  Responses <- MCResponses
  Configs <- MCConfigs
SPECIFICATION ExchangeSpec
CHECK_DEADLOCK FALSE
INVARIANT ScannedIfItFits
