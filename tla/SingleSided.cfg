SPECIFICATION SmallFoundedSpec
CONSTANTS
  alice = alice
  owner = owner
  nohost = nohost
  LocalhostBuild = TRUE
  U64Max = 400
  RoundsSmallQuotients = TRUE
  PreciseError = 0
  Traders = {alice}
  FeeAccount = owner
  NoHost = nohost
  Curves <- BothCurves
  ValidCurveTypes = {"ConstantPrice", "ConstantProduct"}
  FEES <- SourceFees
  InitialSupply = 100
  Amounts = {3, 4}
  PoolAmounts = {10, 25}
  Limits = {0, 400}
  StartWallet <- TraderWallet
INVARIANTS NoFreeLunch
PROPERTIES OneSidedKeepsRoot OneSidedKeepsValue
CHECK_DEADLOCK FALSE
