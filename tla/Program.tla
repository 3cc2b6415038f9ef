------------------------------ MODULE Program ------------------------------
(***************************************************************************)
(* The program behind its entrypoint: the accounts a pool is made of, what *)
(* people may do to them with the SPL token program before and after, and  *)
(* the instructions that arrive as bytes and lists of accounts.            *)
(*                                                                         *)
(* Amounts are what SwapPool is about.  Here an account, or the supply of  *)
(* the pool mint, is empty (0) or not (1).  The creator prepares the two   *)
(* token accounts in any order, makes mistakes, and may send Initialize at *)
(* any moment.                                                             *)
(***************************************************************************)
EXTENDS Builders

CONSTANTS
  SwapKey, Authority, TokenProgram, PoolMint,   \* Authority: find_program_address
  TokenKeys,        \* the token accounts a pool may be made of
  UserKeys,         \* [userA, userB, userPool, user]: the accounts of a user
  MintOf,           \* the mint of every token account
  FirstOwner,       \* who opened each account of TokenKeys
  People,           \* those who can sign
  OwnerKey,         \* constraints::OWNER_KEY
  ValidCurveTypes,  \* SwapConstraints::valid_curve_types
  CreationRequests, \* [builder, fees, curve]: the pools that are asked for
  LocalhostBuild    \* the cargo feature localhost

ASSUME ProgramAssumption ==
  /\ Authority \notin People /\ NoKey \notin People /\ OwnerKey \in People
  /\ FirstOwner \in [TokenKeys -> People]
  /\ ValidCurveTypes \subseteq CurveTypes

\* What constraints.rs offers: pools that take deposits and ask nothing of those
\* who leave.
ASSUME ConstraintsAssumption ==
  /\ \A t \in ValidCurveTypes : AllowsDeposits([type |-> t])
  /\ FEES.withdraw.num = 0

\* A user has an account of each token, and keeps it out of the pool.
ASSUME UserAssumption ==
  /\ UserKeys.userA \notin TokenKeys /\ UserKeys.userB \notin TokenKeys
  /\ \A k \in TokenKeys :
       MintOf[k] \in {MintOf[UserKeys.userA], MintOf[UserKeys.userB], PoolMint}

VARIABLES
  account,   \* account[k]: the token account at k, or Closed
  mint,      \* the pool mint
  swapData   \* the data of the swap account

vars == <<account, mint, swapData>>

Closed  == [open |-> FALSE]
Open(k) == k \in TokenKeys /\ account[k] # Closed
Purses  == { k \in TokenKeys : MintOf[k] # PoolMint }
Opened  == IsInitialized(swapData)

\* All pool tokens there may be are in other accounts than TokenKeys.
NobodyElseHolds ==
  \A k \in TokenKeys \ Purses : Open(k) => account[k].amount = 0

Init ==
  /\ account = [k \in TokenKeys |-> [open |-> TRUE, owner |-> FirstOwner[k],
                                     delegate |-> NoKey, closer |-> NoKey, amount |-> 0]]
  /\ \E creator \in {FirstOwner[k] : k \in Purses}, freezer \in People \cup {NoKey} :
       mint = [authority |-> creator, freezer |-> freezer, supply |-> 0]
  /\ swapData = NewSwapData

-----------------------------------------------------------------------------
(* The token program in the hands of p.                                    *)

Change(k, new) ==
  /\ account' = [account EXCEPT ![k] = new]
  /\ UNCHANGED <<mint, swapData>>

Fund(k) == Open(k) /\ Change(k, [account[k] EXCEPT !.amount = 1])

Approve(p, k) ==
  Open(k) /\ account[k].owner = p /\ Change(k, [account[k] EXCEPT !.delegate = p])

Revoke(p, k) ==
  Open(k) /\ account[k].owner = p /\ Change(k, [account[k] EXCEPT !.delegate = NoKey])

CloserOf(k) == IF account[k].closer = NoKey THEN account[k].owner ELSE account[k].closer

SetCloser(p, k, closer) ==
  Open(k) /\ CloserOf(k) = p /\ Change(k, [account[k] EXCEPT !.closer = closer])

\* A new owner finds no delegate, but the old close authority.
HandOver(p, k) ==
  /\ Open(k) /\ account[k].owner = p
  /\ Change(k, [account[k] EXCEPT !.owner = Authority, !.delegate = NoKey])

Spend(p, k) ==
  /\ Open(k) /\ p \in {account[k].owner, account[k].delegate}
  /\ account[k].amount > 0
  /\ Change(k, [account[k] EXCEPT !.amount = 0])

Close(p, k) ==
  Open(k) /\ CloserOf(k) = p /\ account[k].amount = 0 /\ Change(k, Closed)

HandOverMint(p) ==
  /\ mint.authority = p
  /\ mint' = [mint EXCEPT !.authority = Authority]
  /\ UNCHANGED <<account, swapData>>

RenounceFreezing(p) ==
  /\ mint.freezer = p
  /\ mint' = [mint EXCEPT !.freezer = NoKey]
  /\ UNCHANGED <<account, swapData>>

MintPoolTokens(p, k) ==
  /\ mint.authority = p /\ Open(k) /\ MintOf[k] = PoolMint
  /\ mint' = [mint EXCEPT !.supply = 1]
  /\ account' = [account EXCEPT ![k].amount = 1]
  /\ UNCHANGED swapData

\* The last pool tokens, which are in none of TokenKeys, are burned.
BurnPoolTokens ==
  /\ NobodyElseHolds /\ mint.supply > 0
  /\ mint' = [mint EXCEPT !.supply = 0]
  /\ UNCHANGED <<account, swapData>>

TokenProgramStep ==
  \E p \in People :
    \/ \E k \in Purses :
         \/ Fund(k) \/ Approve(p, k) \/ Revoke(p, k) \/ HandOver(p, k)
         \/ \E closer \in {p, NoKey} : SetCloser(p, k, closer)
    \/ \E k \in TokenKeys : Spend(p, k) \/ Close(p, k) \/ MintPoolTokens(p, k)
    \/ HandOverMint(p)
    \/ RenounceFreezing(p)
    \/ BurnPoolTokens

-----------------------------------------------------------------------------
(* process_initialize                                                      *)

\* Mutant of SealedAccount: nobody looks at the close authority.
SealedButForCloser(k) ==
  Open(k) /\ account[k].owner = Authority /\ account[k].delegate = NoKey

\* Mutant of SealedAccount: nobody looks at the owner.
SealedButForOwner(k) ==
  Open(k) /\ account[k].delegate = NoKey /\ account[k].closer = NoKey

\* Only the program can take tokens out of the account, or close it.
SealedAccount(k) ==
  /\ Open(k)
  /\ account[k].owner = Authority
  /\ account[k].delegate = NoKey
  /\ account[k].closer = NoKey

\* Only the program can mint pool tokens, and nobody can freeze them.
SealedMint == mint.authority = Authority /\ mint.freezer = NoKey

\* SwapConstraints::validate_fees
MeetsFees(fees) ==
  /\ fees.trade.num >= FEES.trade.num /\ fees.trade.den = FEES.trade.den
  /\ fees.owner.num >= FEES.owner.num /\ fees.owner.den = FEES.owner.den
  /\ fees.withdraw.num >= FEES.withdraw.num /\ fees.withdraw.den = FEES.withdraw.den
  /\ fees.host = FEES.host

\* The owner's constraints: SWAP_CONSTRAINTS and validate_curve.
MeetsConstraints(feeAccount, fees, c) ==
  /\ account[feeAccount].owner = OwnerKey
  /\ c.type \in ValidCurveTypes
  /\ MeetsFees(fees)

\* Not the pool's own: who gets the initial pool tokens and the fees.
Outside(k) == Open(k) /\ account[k].owner # Authority

ProcessInitialize(b, fees, c) ==
  /\ ~Opened
  /\ b.authority = Authority
  /\ SealedAccount(b.tokenA) /\ SealedAccount(b.tokenB)
  /\ MintOf[b.tokenA] # MintOf[b.tokenB]
  /\ Outside(b.destination) /\ Outside(b.feeAccount)
  /\ b.mint = PoolMint /\ SealedMint /\ mint.supply = 0
  /\ ValidSupply(c, account[b.tokenA].amount, account[b.tokenB].amount)
  /\ MintOf[b.feeAccount] = PoolMint
  /\ MeetsConstraints(b.feeAccount, fees, c)
  /\ ValidFees(fees) /\ ValidCurve(c)
  /\ MintOf[b.destination] = PoolMint   \* the token program, asked to mint
  /\ mint' = [mint EXCEPT !.supply = 1]
  /\ account' = [account EXCEPT ![b.destination].amount = 1]
  /\ swapData' = PackSwap([bump |-> 0, tokenProgram |-> b.tokenProgram,
                           tokenA |-> b.tokenA, tokenB |-> b.tokenB, mint |-> b.mint,
                           mintA |-> MintOf[b.tokenA], mintB |-> MintOf[b.tokenB],
                           feeAccount |-> b.feeAccount, fees |-> fees, curve |-> c])

-----------------------------------------------------------------------------
(* The heads of the other handlers: which accounts they accept, for the    *)
(* pool s that the swap account holds.                                     *)

\* check_accounts; users are the pairs of a reserve and the user's account.
CheckAccounts(s, b, users) ==
  /\ b.authority = Authority
  /\ b.tokenA = s.tokenA /\ b.tokenB = s.tokenB
  /\ b.mint = s.mint /\ b.tokenProgram = s.tokenProgram
  /\ \A u \in users : u[1] # u[2]

\* The head of process_swap.
CheckSwap(s, b) ==
  /\ b.authority = Authority
  /\ b.swapSource \in {s.tokenA, s.tokenB} /\ b.swapDestination \in {s.tokenA, s.tokenB}
  /\ b.swapSource # b.swapDestination
  /\ b.swapSource # b.source /\ b.swapDestination # b.destination
  /\ b.mint = s.mint /\ b.feeAccount = s.feeAccount /\ b.tokenProgram = s.tokenProgram

\* The reserve of a single-sided trade is the one with the mint of the user's account.
SingleReserve(s, k) == { r \in {s.tokenA, s.tokenB} : MintOf[r] = MintOf[k] }

Accepts(op, s, b) ==
  CASE op = "Swap" -> CheckSwap(s, b)
    [] op = "DepositAll" ->
         /\ AllowsDeposits(s.curve)
         /\ CheckAccounts(s, b, {<<b.tokenA, b.userA>>, <<b.tokenB, b.userB>>})
    [] op = "WithdrawAll" ->
         /\ CheckAccounts(s, b, {<<b.tokenA, b.userA>>, <<b.tokenB, b.userB>>})
         /\ b.feeAccount = s.feeAccount
    [] op = "DepositSingle" ->
         /\ AllowsDeposits(s.curve)
         /\ SingleReserve(s, b.source) # {}
         /\ CheckAccounts(s, b, SingleReserve(s, b.source) \X {b.source})
    [] op = "WithdrawSingle" ->
         /\ SingleReserve(s, b.destination) # {}
         /\ CheckAccounts(s, b, SingleReserve(s, b.destination) \X {b.destination})
         /\ b.feeAccount = s.feeAccount

\* Mutant of FeePayee: a fee of nothing is transferred too.
FeePayeeAlways(s) == {s.feeAccount}

\* The account a withdrawal pays its fee to, if the pool has such a fee.
FeePayee(s) == { f \in {s.feeAccount} : OwnerWithdrawFee(s.fees, U64Max) > 0 }

\* The accounts of TokenKeys without which the handler fails.
Touched(op, s) ==
  {s.tokenA, s.tokenB} \cup
    (IF op \in {"WithdrawAll", "WithdrawSingle"} THEN FeePayee(s) ELSE {})

\* The accounts it pays out of belong to the authority, the mint too.
Served(op, s, metas) ==
  LET b == Bind(op, metas)
  IN  /\ Usable(op, metas)
      /\ Accepts(op, s, b)
      /\ \A k \in Touched(op, s) : Open(k)
      /\ \A k \in {s.tokenA, s.tokenB} : account[k].owner = Authority
      /\ mint.authority = Authority

-----------------------------------------------------------------------------
(* The client, who knows a pool from its swap account, and the entrypoint. *)

\* The key of every role, for a trade that sells A or one that buys it.
KeysRead(read, sellA) ==
  [swap |-> SwapKey, authority |-> Authority, user |-> UserKeys.user,
   tokenProgram |-> read.tokenProgram, mint |-> read.mint, feeAccount |-> read.feeAccount,
   tokenA |-> read.tokenA, tokenB |-> read.tokenB,
   userA |-> UserKeys.userA, userB |-> UserKeys.userB, userPool |-> UserKeys.userPool,
   source          |-> IF sellA THEN UserKeys.userA ELSE UserKeys.userB,
   destination     |-> IF sellA THEN UserKeys.userB ELSE UserKeys.userA,
   swapSource      |-> IF sellA THEN read.tokenA ELSE read.tokenB,
   swapDestination |-> IF sellA THEN read.tokenB ELSE read.tokenA,
   host |-> IF sellA THEN NoKey ELSE UserKeys.userPool]

Builders == {"Rust", "TypeScript"}

Accounts(builder, op, k) ==
  IF builder = "Rust" THEN RustAccounts(op, k) ELSE TsAccounts(op, k)

Data(builder, request) ==
  IF builder = "Rust" THEN PackInstruction(request) ELSE SerializeInstruction(request)

\* The curve's one number is a u64.
ASSUME CreationAssumption ==
  \A r \in CreationRequests :
    /\ r.builder \in Builders
    /\ r.curve.parameter \in 0 .. U64Max

\* The keys of a creator who makes a pool of a and b.
CreatorKeys(a, b, feeAccount, destination) ==
  [swap |-> SwapKey, authority |-> Authority, tokenA |-> a, tokenB |-> b,
   mint |-> PoolMint, feeAccount |-> feeAccount, destination |-> destination,
   tokenProgram |-> TokenProgram]

Create ==
  \E request \in CreationRequests, a, b \in Purses, f, d \in TokenKeys :
    LET asked == [op |-> "Initialize", fees |-> request.fees, curve |-> request.curve]
        metas == Accounts(request.builder, "Initialize", CreatorKeys(a, b, f, d))
    IN  \E decoded \in UnpackInstruction(Data(request.builder, asked)) :
          /\ Usable("Initialize", metas)
          /\ ProcessInitialize(Bind("Initialize", metas), decoded.fees, decoded.curve)

\* The reserves that an instruction adds to, and those that it pays out of.
TakesIn(op, s, b) ==
  CASE op = "Swap" -> {b.swapSource}
    [] op = "DepositAll" -> {s.tokenA, s.tokenB}
    [] op = "DepositSingle" -> SingleReserve(s, b.source)
    [] OTHER -> {}

PaysOut(op, s, b) ==
  CASE op = "Swap" -> {b.swapDestination}
    [] op = "WithdrawAll" -> {s.tokenA, s.tokenB}
    [] op = "WithdrawSingle" -> SingleReserve(s, b.destination)
    [] OTHER -> {}

\* What an instruction leaves: it may take all of a reserve it pays out of, a
\* swap may be worth a fee in pool tokens, a withdrawal may burn the last ones.
Leaves(op, s, b) ==
  /\ op = "Swap" => account[b.swapDestination].amount > 0
  /\ \E emptied \in SUBSET PaysOut(op, s, b), paid \in SUBSET {s.feeAccount} :
       /\ paid # {} => op = "Swap" /\ mint.supply > 0 /\ Open(s.feeAccount)
       /\ account' = [k \in TokenKeys |->
                        IF k \in emptied THEN [account[k] EXCEPT !.amount = 0]
                        ELSE IF k \in paid \cup TakesIn(op, s, b)
                             THEN [account[k] EXCEPT !.amount = 1] ELSE account[k]]
  /\ \/ op = "Swap" /\ UNCHANGED mint
     \/ op \in {"DepositAll", "DepositSingle"} /\ mint' = [mint EXCEPT !.supply = 1]
     \/ /\ op \in {"WithdrawAll", "WithdrawSingle"} /\ mint.supply > 0
        /\ \/ UNCHANGED mint
           \/ NobodyElseHolds /\ mint' = [mint EXCEPT !.supply = 0]

Serve ==
  \E s \in UnpackSwap(swapData), op \in Ops \ {"Initialize"}, sellA \in BOOLEAN,
     builder \in Builders :
    LET metas == Accounts(builder, op, KeysRead(DecodePoolData(swapData), sellA))
    IN  /\ op \in {"DepositSingle", "WithdrawSingle"} => LocalhostBuild
        /\ Served(op, s, metas)
        /\ Leaves(op, s, Bind(op, metas))
  /\ UNCHANGED swapData

\* process_instruction
ProgramStep == Create \/ Serve

Next == TokenProgramStep \/ ProgramStep

Spec == Init /\ [][Next]_vars

=============================================================================
