SPECIFICATION Spec
CONSTANTS
  alice = alice
  owner = owner
  nohost = nohost
  U64Max = 20
  RoundsSmallQuotients = FALSE
  PreciseError = 1
  Traders = {alice}
  FeeAccount = owner
  NoHost = nohost
  Curves <- ProductCurves
  ValidCurveTypes = {"ConstantPrice", "ConstantProduct"}
  FEES <- SourceFees
  InitialSupply = 8
  Amounts = {2, 3, 4}
  PoolAmounts = {3, 8}
  Limits = {0, 3}
  StartWallet <- Wallet
INVARIANTS TypeOK BothSidesLive LastHolderCanLeave
CHECK_DEADLOCK FALSE
