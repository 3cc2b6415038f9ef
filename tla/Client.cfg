SPECIFICATION FoundedSpec
CONSTANTS
  alice = alice
  owner = owner
  nohost = nohost
  U64Max = 60
  RoundsSmallQuotients = FALSE
  MaxInstructions = 5
  PreciseError = 0
  Traders = {alice}
  Clients = {alice}
  Requests <- ClientRequests
  FeeAccount = owner
  NoHost = nohost
  Curves <- ProductCurves
  ValidCurveTypes = {"ConstantPrice", "ConstantProduct"}
  FEES <- WholeFees
  InitialSupply = 6
  Amounts = {4}
  PoolAmounts = {3}
  Limits = {0, 5}
  StartWallet <- ClientWallet
INVARIANTS FreshSwapLands FreshDepositLands FreshWithdrawalLands
CHECK_DEADLOCK FALSE
