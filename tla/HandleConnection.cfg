SPECIFICATION PeerSpec
CONSTANTS
  A = A
  B = B
  Parent = Parent
  Closed = Closed
  Dests <- MCDests
  Groups <- MCGroups
  DefaultFG = 0
  DefaultTransFG = 1
  Requests <- MCRequests
  Confs <- MCConfs
INVARIANTS
  
  RefusedIsRefused
  
  AnsweredOnce
  InterceptionAllowed
