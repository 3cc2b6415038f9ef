SPECIFICATION FuzzSpec
CONSTANTS
  alice = alice
  holder = holder
  owner = owner
  nohost = nohost
  LocalhostBuild = TRUE
  U64Max = 40000
  RoundsSmallQuotients = TRUE
  PreciseError = 0
  Traders = {alice, holder}
  FuzzIds = {alice}
  Holder = holder
  SwapTokens <- PoolTokensAB
  CurveParameter <- FuzzParameter
  MaxInstructions = 4
  FeeAccount = owner
  NoHost = nohost
  Curves <- FuzzCurves
  ValidCurveTypes = {"ConstantPrice", "ConstantProduct", "Stable", "Offset"}
  FEES <- SourceFees
  InitialSupply = 150
  Amounts = {7, 40, 100}
  PoolAmounts = {1, 15, 40}
  Limits = {0, 40000}
  StartWallet <- UserWallet
INVARIANTS SupplyIsHeld CloseOutIsPaid TotalsUnchanged SwapsKeepCurveValue SharesKeepCurveValue StableFollowsSimulation
CHECK_DEADLOCK FALSE
