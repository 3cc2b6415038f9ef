SPECIFICATION FairSpec
CONSTANTS
  alice = alice
  bob = bob
  nobody = nobody
  Creators = {alice, bob}
  FeeOwner = bob
  Nobody = nobody
  Others = {alice}
  MaxCalls = 4
  MaxFaults = 2
INVARIANTS CreationTypeOK StakeBuysTheSupply ReadyToInitialize NeverHalfMade
PROPERTIES FoundedForGood PoolGetsCreated
CHECK_DEADLOCK FALSE
