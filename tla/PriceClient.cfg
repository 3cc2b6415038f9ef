SPECIFICATION FoundedSpec
CONSTANTS
  alice = alice
  owner = owner
  nohost = nohost
  U64Max = 60
  RoundsSmallQuotients = FALSE
  MaxInstructions = 3
  PreciseError = 0
  Traders = {alice}
  Clients = {alice}
  Requests <- SaleRequests
  FeeAccount = owner
  NoHost = nohost
  Curves <- PriceCurves
  ValidCurveTypes = {"ConstantPrice", "ConstantProduct"}
  FEES <- WholeFees
  InitialSupply = 24
  Amounts = {4, 7}
  PoolAmounts = {3}
  Limits = {0, 5}
  StartWallet <- LargeWallet
INVARIANTS FreshPriceSwapLands
CHECK_DEADLOCK FALSE
