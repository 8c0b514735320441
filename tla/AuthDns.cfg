SPECIFICATION Spec
CONSTANTS
  t1 = t1
  t2 = t2
  Workers = {t1, t2}
  Clients <- MCClients
  IPv4 <- MCIPv4
  Names <- MCNames
  Norm <- MCNorm
  NumGroups = 3
  Listed <- MCListed
  IPGroups <- MCIPGroups
  Txt <- MCTxt
  Confs <- MCConfs
  Requests <- MCRequests
  MaxGen = 2
  MaxVer = 2
  MaxConns = 2
  MaxRequests = 2
SYMMETRY Two
CHECK_DEADLOCK FALSE
INVARIANT DnsGroupIsTheClients
