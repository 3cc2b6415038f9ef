SPECIFICATION FuzzSpec
CONSTANTS
  alice = alice
  holder = holder
  owner = owner
  nohost = nohost
  LocalhostBuild = TRUE
  U64Max = 40000
  RoundsSmallQuotients = TRUE
  PreciseError = 0
  Traders = {alice, holder}
  FuzzIds = {alice}
  Holder = holder
  SwapTokens <- DearTokensAB
  CurveParameter <- FuzzParameter
  MaxInstructions = 2
  FeeAccount = owner
  NoHost = nohost
  Curves <- FuzzCurves
  ValidCurveTypes = {"ConstantPrice", "ConstantProduct", "Stable", "Offset"}
  FEES <- SourceFees
  InitialSupply = 10
  Amounts = {3}
  PoolAmounts = {5}
  Limits = {0, 40000}
  StartWallet <- ManyAccounts
INVARIANT FuzzKeepsValue
CHECK_DEADLOCK FALSE
