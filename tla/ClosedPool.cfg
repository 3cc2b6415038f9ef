SPECIFICATION ClosedSpec
CONSTANTS
  alice = alice
  owner = owner
  nohost = nohost
  U64Max = 60
  RoundsSmallQuotients = TRUE
  PreciseError = 1
  Traders = {alice}
  FeeAccount = owner
  NoHost = nohost
  Curves <- AllCurves
  ValidCurveTypes = {"ConstantPrice", "ConstantProduct"}
  FEES <- SourceFees
  InitialSupply = 12
  Amounts = {1, 3, 4, 7}
  PoolAmounts = {5, 12}
  Limits = {0, 3}
  StartWallet <- Wallet
INVARIANTS NothingStranded
PROPERTIES TokensConserved DrainedForGood SwapKeepsProduct KeepsPromise SwapKeepsValue OwnerFeePaidFor StayersKeepValue
CHECK_DEADLOCK FALSE
