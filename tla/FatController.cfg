CONSTANTS
  Workers = {w1, w2}
  Listeners = {l1}
  Conns = {c1, c2}
  BadConns = {c2}
  MaxAcceptErrors = 1
  Null = Null
  Wake = Wake
  NoSock = NoSock
SPECIFICATION FairSpec
INVARIANTS OneOwner LogKept
PROPERTIES ImplementsService ThreadsStop 
CHECK_DEADLOCK FALSE
