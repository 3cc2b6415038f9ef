SPECIFICATION FoundedStayingSpec
CONSTANTS
  alice = alice
  owner = owner
  nohost = nohost
  U64Max = 60
  RoundsSmallQuotients = FALSE
  MaxInstructions = 4
  PreciseError = 0
  Traders = {alice}
  Clients = {alice}
  Requests <- SaleRequests
  FeeAccount = owner
  NoHost = nohost
  Curves <- ProductCurves
  ValidCurveTypes = {"ConstantPrice", "ConstantProduct"}
  FEES <- WholeFees
  InitialSupply = 6
  Amounts = {4, 7}
  PoolAmounts = {3}
  Limits = {0, 5}
  StartWallet <- LargeWallet
PROPERTIES SaleOfAPaysAnOffer
CHECK_DEADLOCK FALSE
