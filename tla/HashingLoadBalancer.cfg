SPECIFICATION Spec
CONSTANTS
  NumServers = 3
  MaxKeys = 10
INVARIANTS
  TypeOK
  AssemblyOrderIsKeyOrder
  EveryKeyAsked
  NoServerOverloaded
