SPECIFICATION Spec
CONSTANTS
  creator = creator
  owner = owner
  x = x
  y = y
  f = f
  d = d
  mintX = mintX
  mintY = mintY
  userA = userA
  userB = userB
  userPool = userPool
  user = user
  NoKey = nokey
  SwapKey = swapkey
  Authority = authority
  TokenProgram = tokenprogram
  PoolMint = poolmint
  Base = 8
  WordLen = 2
  U64Max = 63
  RoundsSmallQuotients = TRUE
  PreciseError = 0
  FEES <- ScaledFees
  TokenKeys = {x, y, f, d}
  UserKeys <- User
  MintOf <- Mints
  FirstOwner <- Owners
  People = {creator, owner}
  OwnerKey = owner
  ValidCurveTypes = {"ConstantPrice", "ConstantProduct"}
  LocalhostBuild = TRUE
  CreationRequests <- AskedForPrice
INVARIANTS PriceIsAsAsked
CHECK_DEADLOCK FALSE
