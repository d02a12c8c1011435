SPECIFICATION SpecOnChain
CONSTANTS
  BlockHashCount = 5
  MaxHeight = 5
  MaxFork = 1
  MaxSpecVersion = 0
  MaxSigned = 3
  WindowSize = 3
INVARIANTS
  TypeOKOnChain
  DataIsOnChain
  DataInNonceOrder
CHECK_DEADLOCK FALSE
