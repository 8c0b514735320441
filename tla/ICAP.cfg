SPECIFICATION Spec
CONSTANTS
  Groups <- MCGroups
  Confs <- MCConfs
  NoCom = NoCom
INVARIANTS
  Synchronised
  
  ContentIsOffered
PROPERTIES
  StopEnds
