SPECIFICATION Spec
CONSTANTS
  Seeds <- MCSeeds
  EndowedLists <- MCEndowedLists
  ENDOWMENT = 4
  STAKE = 3
  ExistentialDeposit = 2
  MaxVote = 7
  U_MITO = 1
  MITO = 5
  ExtrinsicBaseWeight = 10
  Billion = 20
  One = 2
  Amounts = {1, 4}
  Lengths = {1}
  Weights = {0, 5}
  Multipliers = {2, 4}
  MaxIssuance = 22
  MaxOperations = 5
INVARIANTS
  TypeOK
  IssuanceAccounted
  StakeBacked
  ExposureFaithful
  ElectedByStake
  FlatFee
CHECK_DEADLOCK FALSE
