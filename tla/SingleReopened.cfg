SPECIFICATION SingleClosedSpec
CONSTANTS
  alice = alice
  owner = owner
  nohost = nohost
  LocalhostBuild = TRUE
  U64Max = 60
  RoundsSmallQuotients = TRUE
  PreciseError = 0
  Traders = {alice}
  FeeAccount = owner
  NoHost = nohost
  Curves <- ProductCurves
  ValidCurveTypes = {"ConstantPrice", "ConstantProduct"}
  FEES <- SourceFees
  InitialSupply = 8
  Amounts = {1, 4}
  PoolAmounts = {4, 8}
  Limits = {0, 60}
  StartWallet <- SmallWallet
INVARIANTS BothSidesLive
CHECK_DEADLOCK FALSE
