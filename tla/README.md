# Saros swap: a TLA+ model with checks and proofs

The repository is a fork of the Solana *token-swap* program (`src/program`), a TypeScript client
service for it (`src/services`) and the upstream JavaScript bindings (`src/js`). The program is an
automated market maker: a pool holds reserves of two tokens, A and B, anybody may sell one for the
other at a price that a *curve* computes from the reserves, and liquidity providers own the pool
through *pool tokens*, an SPL mint whose supply the program controls.

This directory models both halves, from the bytes of an instruction to the arithmetic of the four
curves, and the project's own fuzzer, checks them with TLC and proves the main results with TLAPS. All paths below are relative to the repository; `P/` stands for `src/program/src/`.

## 1. Inventory

### 1.1 Components

| Component | Source | State it keeps | Operations | Model |
|---|---|---|---|---|
| swap processor | `P/processor.rs` | the swap account: initialized flag, curve, keys | Initialize, Swap, DepositAllTokenTypes, WithdrawAllTokenTypes; two single-sided instructions, stubs in the deployed build | `SwapPool`, `SingleSided` (amounts), `Program` (accounts) |
| constant product curve | `P/curve/constant_product.rs` | none | swap, conversions between pool and trading tokens, value | `ConstantProduct` |
| constant price curve | `P/curve/constant_price.rs` | the price | the same | `ConstantPrice` |
| offset curve | `P/curve/offset.rs` | the offset of token B | the same; no deposits | `OffsetCurve` |
| stable curve | `P/curve/stable.rs` | the amplifier | the same, by Newton's method | `StableCurve` |
| curve wrapper, calculator trait | `P/curve/base.rs`, `calculator.rs` | curve type and parameter | swap with fees, owner fee as pool tokens, single-sided amounts, validation; the trait's test functions | `SwapCurve`, `CurveOracles` |
| fees | `P/curve/fees.rs` | four fractions | trading, owner, withdraw, host fee; validation; pack, unpack | `Fees`, `Wire` |
| account state | `P/state.rs` | bytes of the swap account | pack, unpack, is_initialized | `Wire`, `Program` |
| instruction encoding | `P/instruction.rs`, `src/services/saros_swap.instruction.ts` | none | pack, unpack, account lists of both libraries | `Wire`, `Builders` |
| constraints | `P/constraints.rs` | compiled-in owner, fees, curve types | validation | `Program` |
| entrypoint, errors | `P/entrypoint.rs`, `error.rs` | none | dispatch | `Program`, without error codes |
| arithmetic | spl-math, `u128` (external) | none | ceiling division, square roots of fixed precision, checked products | `SplMath` |
| token program | external | balances, supply, owners, delegates, authorities | transfer, mint, burn, approve, revoke, set_authority, close | in `SwapPool` (amounts) and `Program` (authorities) |
| client calculator | `src/services/saros_swap_calculator.ts` | the pool as it was read | quotes | `ClientCalculator` |
| client service | `src/services/saros_swap.service.ts` | one call: what it has read, what it will send | swap, deposit, withdraw; createPool, createDeterministicPool | `SwapClient`, `PoolCreation` |
| fuzzer | `src/program/fuzz/src` | one pool, a user's accounts | a list of instructions, then closing | `FuzzHarness` |
| simulation of the stable curve | `src/program/sim` | two balances | D, y, exchange | `StableSimulation` |
| JS bindings, CLI | `src/js` | none | wrappers and a script | not modelled |

### 1.2 Interactions

* A client sends a *transaction*. Solana executes transactions on one account one at a time and
  undoes a transaction whose instruction returns an error. Inside the program there is therefore no
  interleaving: a handler is one atomic step, enabled when every check on its way succeeds.
* The program does not keep balances. It reads the reserves and the supply from SPL token accounts,
  which anybody can change between two instructions by sending tokens to them or by burning pool
  tokens.
* The program calls the token program (transfer, mint_to, burn); each call has its own u64 checks.
* A client reads the mint and the two reserves with one `await` each, computes a quote, and sends a
  transaction that is executed later, perhaps much later, or never. This is where interleaving,
  stale reads, crashes, retries and lost messages come from.

### 1.3 What is hard, and what makes each component right

| Behaviour | Where | Correct when |
|---|---|---|
| rounding, in each conversion, of a long series of instructions | curves | nobody gains by it: the product or the value per pool token never falls beyond the stated slack |
| fees that are rounded up to one token, split in parts, turned into pool tokens | `fees.rs`, `process_swap` | the fee tokens minted are paid for by the growth of the pool |
| the last pool token | withdraw | nothing stays behind, the pool stays dead |
| joining or leaving with one token, which implies a swap | single-sided handlers | those who stay lose neither product nor value per pool token |
| four curves, each with roundings, truncated iterations or tokens that do not exist | curves | each passes the tests' checks in every pool that can be reached, not only in those a test draws |
| the last withdrawal, when a claim exceeds a reserve | processor | it is cut, paid, and no token is created or lost |
| authorities that the token program keeps or drops when an account changes hands | Initialize | nothing the creator prepared gives a way into the reserves later |
| positions of accounts, order of bytes | instructions | what a client asks for is what the handler does |
| gifts and burns behind the program's back | processor | a pool with supply keeps both reserves, the last holder can leave |
| results that do not fit a u64, accounts that are full | processor | the instruction fails as a whole; no token is created or lost |
| a quote from a pool that has changed, or never was | service, calculator | the transaction either pays what was promised or is refused |
| racing, crashing, retrying creators | createPool | tokens are paid in only against the initial supply, once |

Every hazard, with its line and the properties that would catch it, is in `PROJECT.json`.

## 2. Modules

```
SplMath <- ConstantProduct <- OffsetCurve, StableCurve        LiquidityPool (abstract promise)
           ConstantPrice
SwapCurve = the four curves + Fees
SwapCurve <- SwapPool <- SwapPoolProperties <- MCSwapPool
                 |
                 +-- SingleSided <- SingleSidedProperties <- MCSingleSided
                 |        +-- FuzzHarness --+
                 |  CurveOracles, StableSimulation <- CurveTests --+-- FuzzProperties <- MCFuzz
                 +-- SwapClient (with ClientCalculator) <- SwapClientProperties <- MCSwapClient
SwapCurve <- Wire <- Builders <- Program <- ProgramProperties <- MCProgram
PoolCreation <- PoolCreationProperties <- MCPoolCreation
CurveProofs <- SwapPoolProofs <- PoolSafetyProofs <- SwapClientProofs   PoolCreationProofs
        |                            +-- SingleSidedProofs <- FuzzProofs
        +------ ProgramProofs
```

`SwapPool` and `Program` look at the same program from two sides. `SwapPool` has the amounts and takes
for granted that each account is the right one; `Program` has the accounts, their authorities and the
bytes, and knows of an amount only whether it is zero. Each leaves out of the state what only the other
one's properties depend on, and the product of both would be out of TLC's reach.

Definitions whose comment says *Mutant of X* are deliberately wrong variants of X, with a plausible
bug. No specification uses them; each of them, put in the place of X, makes TLC report a violation of
the property it was written for, which shows that the property can fail.

### 2.1 `SplMath`, `Fees`, the four curves, `SwapCurve`

Operators only. A Rust `Option` is a set: `{}` is `None`, `{x}` is `Some(x)`, and a set with several
members is a result that the source does not determine:

* `CheckedCeilDiv` follows spl-math. The manifest pins `~0.1`, which admits a version that returns
  `None` for every quotient below one and a version that rounds such a quotient to the nearest of 0
  and 1. The constant `RoundsSmallQuotients` stands for both; the proofs hold for both.
* `Imprecise`: `PreciseNumber` has twelve decimals and rounds in its division and its iterated square
  root, so the integer taken from it may differ from the exact one; `PreciseError` bounds the difference.

`ConstantProductSwap` is `swap`, `ProRata` is one side of `pool_tokens_to_trading_tokens`, with the
source's rule that a ceiling is only taken when the floor is positive, and
`ConstantProductWithdrawSingle` is what prices the owner fee. `SwapWithFees` is `SwapCurve::swap`:
both fees off the amount, the curve, and the fees back on the source side. `DepositSingleExactIn` and
`WithdrawSingleExactOut` take one token for pool tokens, with the trading fee on half of it; their
square roots (`SharesForExactIn`, `SharesForExactOut`) are stated by what they solve, squared.

`OffsetCurve` adds the offset to token B, as source or as destination, and goes on like the constant
product; a product that does not fit a u128 is refused. `StableCurve` has both of Newton's iterations as recursive functions of the step, with the
source's divisions in the source's order; all 32 steps are made, since a step that changes nothing
changes nothing again.

### 2.2 `SwapPool`

| Variable | In the program |
|---|---|
| `curve` | `SwapV1.swap_curve`, `NoCurve` while `is_initialized` is false |
| `reserve` | balances of the pool's two token accounts |
| `supply` | supply of the pool mint |
| `wallet` | the traders' balances of A and B |
| `lp` | balances of the pool token accounts, the owner's fee account included |

One action per instruction: `Initialize`, `Swap`, `DepositAllTokenTypes`, `WithdrawAllTokenTypes`,
each with the checks, both transfers, burns, mints, fees and the host's part of a fee. Two more
actions are the token program's own: `SendToPool` (also how a creator funds the pool) and
`BurnPoolTokens`. `Spec` contains all of them; in `ClosedSpec` nobody touches the accounts of an
open pool except through the program.

What a handler accepts is a set computed from the state: `Exchanges` and `MintedFees` are the exchanges of a
swap and the owner fees it can mint for one of them, `Charges` the prices of a deposit and `Redeemed` what a
withdrawal pays; a set is empty when the handler refuses. An action takes a member of its set, and a
property that says "the program accepts this" says that the set has a member, so it can be proved.

An account in this module is the right account, and each trader has one of each kind; which accounts
the handlers accept is in `Program` (2.8).

### 2.3 `LiquidityPool`

The promise of a constant product pool in three variables (is it open, reserves, supply) and four
actions: opening; a trade that never lowers the product and creates pool tokens only as far as the
product's growth pays for them, up to `Slack` tokens of rounding; joining and leaving that never
lower the share of those who stay; and only the last leaver, who takes everything, empties a side.
`KeepsPromise` says that `SwapPool` implements it under the mapping in `SwapPoolProperties`
(`Slack = 1 + PreciseError`; the reserves count from the moment the pool is initialized).

### 2.4 `ClientCalculator`, `SwapClient`

`ClientCalculator` holds the quotes of the service: `SwapQuote` charges both fees as one fraction and
applies the constant product formula to any pool, `DepositQuote` and `WithdrawQuote` are pro rata.

`SwapClient` adds one variable to `SwapPool`: `session[u]`, the call that user `u` has under way. `Ask`
reads the pool's account, which never changes after Initialize, and the supply; `ReadA` and `ReadB`
are the two further awaits of `getPoolInfo`; `Land` is the transaction being executed with the quote
as its limit (the service passes a slippage of zero everywhere); `Fail` is a quote that throws, a
refused or a lost transaction. Between any two of them everybody else may use the pool. What may be
asked (`Askable`) are the u64 amounts that the instructions can hold. `ClientSpec` lets everybody do everything;
`StayingSpec` leaves out the steps that lower the supply, that is, leaving the pool: joining, trading and
everything clients do goes on.

### 2.5 `PoolCreation`

`createDeterministicPool` derives the pool's address from the two mints, so several creators may work
on one pool. `AskIfFree` is one `isAddressAvailable` await, in the order of the source (`Questions`);
`SendFirst` and `SendSecond` are the two `sendTransaction` calls; `ExecuteFirst`, `ExecuteSecond`,
`Refuse` and `Lose` are what the chain does with a transaction that is in flight, whether its
sender still waits or not; `GiveUp` is a crash or a timeout at any point of a call, after which the
user may call again; `Drain` is the withdrawal of everything. Amounts are abstracted to *stakes*, the pair of
amounts of one call.

Assumed of code that is not in the repository: `sendTransaction` returns after the transaction was
executed and throws when it was refused; a transaction is executed at most once; creating an account
that exists fails. The service always signs the first transaction with the mint's key and the second with
the pool's, and its web3.js (`package.json` pins 1.64) refuses a key that no instruction names: "unknown
signer". So a call of the service throws (`SigningThrows`) when the account was made before. The addresses
follow from the mints, so a creator need not use this service at all. `Others` are creators who use it in some
calls and in others a client that signs only with the keys a transaction needs: such a creator can both send and
throw where this client can only throw. The behaviours in which everybody uses the repository's client are among
those of every choice of `Others`, and they are all there are when it is empty.

### 2.6 `SingleSided`

Extends `SwapPool` by the two instructions that trade one token for pool tokens. `LocalhostBuild` is
the cargo feature: with it `DepositSingle` and `WithdrawSingle` are the whole handlers, without it both
instructions are confirmed and change nothing, as the stubs do. The variable `receipt` records the
single-sided instruction that was just confirmed, for the properties; the program has no such state.

`SingleSidedProperties` also has `FoundedSpec`: a pool as Initialize leaves it, with the pool tokens in the fee account, whose
holder takes nothing out (`FounderStays`) while the traders use all instructions; swaps have no host (`UnhostedTrade`).
`MCSingleSided` starts it from one pool, lets swaps have hosts and traders redeem all they hold.

### 2.7 `FuzzHarness`, `CurveOracles`, `CurveTests`, `StableSimulation`

`FuzzHarness` is `run_fuzz`: a pool of some curve is created (`New`), a list of instructions of a user
is run with the twists of `NativeTokenSwap` (two pool tokens where one was asked for, all where one
would be left), and it is closed: all pool tokens go to the fee account (`Gather`), which redeems them
(`CloseOut`). The processor behind it is `SingleSided` with `LocalhostBuild = TRUE`. An instruction
that is refused changes nothing and is no step. `executed` counts those that were not.

`CurveOracles` has the test functions of the `CurveCalculator` trait, and `CurveTests` the property
tests of the four curves: a check under what the test assumes of its inputs. `StableSimulation` is the
Python model of Curve's pool. The checks that compare single-sided with two-sided trades
(`check_deposit_token_conversion`, `check_withdraw_token_conversion`) are left out, see section 5.

The fuzzer cannot be run at this commit: its manifest asks for a package `spl-token-swap` in `..`,
which is called `saros-swap`; `localhost` is not among the features of the manifest, so single-sided
instructions would be stubs; and `Processor::process` applies the compiled-in constraints, so that
`NativeTokenSwap::new` would be refused for its fee account, and the offset and stable curves for
their type. The model is of what the fuzzer means to run: the handlers without constraints. The fees it
asks for are not charged, because `Fees::unpack` returns the compiled-in ones.

### 2.8 `Wire`, `Builders`, `Program`

`Wire` has the bytes: numbers of `WordLen` digits to the base `Base` (8 bytes of 256 values in the
source), the data of the six instructions as `instruction.rs` packs and unpacks them and as the client
serializes them, and of the swap account as `state.rs` packs and unpacks it and as the client decodes
it. A key is one cell. `Weight[i]` is the weight of digit `i`, a power of `Base` written as a recursive
function, and `U64Max` is the largest number that fits, which the assumption on the constants says. `Builders` has the account lists of the Rust builders and of
`SarosSwapInstructionService`, position by position with the right to sign and to write, and the
order in which the handlers take them.

| Variable of `Program` | Stands for |
|---|---|
| `account` | the token accounts that may become reserves, fee account or destination: open or closed, owner, delegate, close authority, whether there is an amount |
| `mint` | the pool mint: authority, freeze authority, whether there is a supply |
| `swapData` | the bytes of the swap account |

`TokenProgramStep` is everything people do with the token program before, between and after: fund, approve,
revoke, name a closer, hand over, spend, close, mint, burn, give the mint away, renounce freezing.
`ProgramStep` is `process_instruction`: `Create` builds an Initialize with either library, packs it,
unpacks it, and makes every check of `process_initialize`; `Serve` does the same with the other five
instructions for a client that knows the pool only from its swap account. What an instruction does to
amounts is any change of "some" and "none" that the handler's transfers allow (`Leaves`).

Three assumptions say what the module takes from its surroundings: the compiled-in curve types take
deposits and the withdraw fee is zero, as `constraints.rs` has it (`ConstraintsAssumption`); the
user's own accounts are of the pool's two mints and are not its reserves (`UserAssumption`); and creators use
one of the two libraries with a curve parameter that fits a u64 (`CreationAssumption`).

## 3. What the runs check

| Run | Specification and bounds | Properties | Distinct states |
|---|---|---|---|
| `closed_pool` | `ClosedSpec`, one trader, the constant product and prices 0, 1 and 4, fees of the source, amounts 1, 3, 4 and 7, supply 12, rounding error 1 | `NothingStranded`, `TokensConserved`, `DrainedForGood`, `SwapKeepsProduct`, `KeepsPromise`, `SwapKeepsValue`, `OwnerFeePaidFor`, `StayersKeepValue` | 186 k |
| `shared_pool` | `Spec`, gifts and burns, supply 8, `U64Max` = 20 | `TypeOK`, `BothSidesLive`, `LastHolderCanLeave` | 12 k |
| `client` | one user of the service, who also uses the program directly; five instructions | `FreshSwapLands`, `FreshDepositLands`, `FreshWithdrawalLands` | 471 k |
| `torn_quote` | sales of A through the service while others swap and join; four instructions | `SaleOfAPaysAnOffer` | 160 k |
| `creation` | `FairSpec`, two creators, one of them the fee owner, four calls each, two faults; the other one may use another client | `CreationTypeOK`, `StakeBuysTheSupply`, `ReadyToInitialize`, `NeverHalfMade`, `FoundedForGood`, `PoolGetsCreated` | 223 k |
| `single_sided` | `localhost` build, a trader who mixes all instructions against a founder who stays, both curves, fees of the source | `NoFreeLunch`, `OneSidedKeepsRoot`, `OneSidedKeepsValue` | 56 k |
| `single_reopened` | `localhost` build from creation on | `BothSidesLive`: **violated** | |
| `fuzz` | the four curves, 150 pool tokens for 100 A and 130 B, four instructions of a user and then closing, fees of the source | `SupplyIsHeld`, `CloseOutIsPaid`, `TotalsUnchanged`, `SwapsKeepCurveValue`, `SharesKeepCurveValue`, `StableFollowsSimulation` | 54 k |
| `fuzz_value` | the four curves, 10 pool tokens for 300 A and 900 B, two instructions of a user who owns as much | `FuzzKeepsValue`: **violated** | |
| `program` | two possible reserves of different mints, two accounts for pool tokens, a creator and the owner of the program; bytes of eight values, numbers of two bytes; both libraries, three curves, two sets of fees | `PoolIsSealed`, `FeesShownAreCharged`, `ArrivesAsAsked`, `ExitNeverBlocked`, `IdentityForGood`, `OnlyTheProgramMoves` | 13 k |
| `price_client` | the service and a constant price pool | `FreshPriceSwapLands`: **violated** | |
| `client_price` | as `program`, a creator who asks the client for a constant price of 10 | `PriceIsAsAsked`: **violated** | |

**Why these bounds.** The rounding of the curves depends on the remainders of small divisions; with
reserves and supplies of about ten, every combination of "divides exactly", "rounds", "rounds to zero"
and "is at least the minimum fee" occurs, and the state spaces are complete: balances are bounded by
what the wallets start with, so only the client runs bound the number of instructions, and the
creation runs the number of calls and faults. With the fees of the source every fee on such
amounts is the minimum of one token, the case in which rounding weighs most; the client runs use large
fractions so that fees above the minimum occur. A `U64Max` of 20 makes supplies, balances and reserves
overflow in the middle of instructions. `fuzz` needs larger reserves, so that the offset can be
overdrawn, Newton's iterations take several steps and half of a single-sided amount buys something; its
pools are reached by at most four instructions, each state is put to the tests of its curve with all
amounts of the configuration, and closing is taken from every one of them. `program` bounds nothing:
amounts are zero or not, so its state space is finite and complete. Bytes of eight values and two of
them to a number are the smallest that tell six instructions apart and let a parameter take more than
one byte.
Deadlock is not checked: a pool with poor traders, or one that is drained, really has no next step.

### 3.1 What they show

* **Rounding never pays.** `SwapKeepsProduct`, the refinement `KeepsPromise` and `NoFreeLunch` look at the same
  question from one step, from every step with fees, and from the trader's purse after any series of steps.
* **`LastHolderCanLeave`** says what the program must accept: after any gifts and burns, the withdrawal
  of the whole supply is possible and takes both reserves whole.
* **`DrainedForGood`.** The deposit handler has a branch for an empty supply
  (`P/processor.rs:540`), but the reserves are empty too, the deposit is priced at zero, and a zero
  amount is refused. A drained pool can never be used again.
* **One token in, or out.** A single-sided instruction is an implied swap. `OneSidedKeepsRoot` and
  `OneSidedKeepsValue` say that it never takes from those who stay, `NoFreeLunch` that mixing it with all
  other instructions does not pay either, for the traders together. Neither reserve can be emptied by it while the trading fee is
  positive, but a holder of all pool tokens can burn them for part of one token and leave
  the other token behind, and a deposit can reopen such a pool: in the `localhost` build
  `NothingStranded` and `DrainedForGood` do not hold, and `BothSidesLive` only until the supply is zero.
* **Client quotes.** With an unchanged pool a quote is always met, on conditions that the properties
  state and that matter: both fees must be a whole token before the minimum of one is applied
  (`FeeIsWhole`). The client charges *one* combined fee with one minimum, the program *two* fees with
  a minimum each, so on small amounts the client asks for more than the program pays; with the fees
  of the source that concerns amounts below 2000 base units. The program also refuses a sale after
  which one token of the sold kind is worth less than one unit of the other (the quotient below one of
  `CheckedCeilDiv`), which the client does not know.
* **Torn reads.** Because A is read before B, what swaps or deposits in between add to A is missing
  from a quote and what they add to B is in it. A sale of A therefore still pays at least an honest
  quote (`SaleOfAPaysAnOffer`). Two limits, both found by TLC: a *withdrawal* between the reads
  lowers the quote below both honest ones, and a sale of B has no such protection.
* **The fuzzer's promises.** It asserts three things: that no token is lost (`TotalsUnchanged`), that closing is
  possible (`CloseOutIsPaid`), and that the value per pool token has not fallen (`FuzzKeepsValue`), which is not so
  (3.2). For `CloseOutIsPaid` it is the cap of `P/processor.rs:666` (`Lesser`) that makes it hold, as half the value in each token, or a
  share of an offset, may be more than there is.
* **Four curves under the same checks.** `SwapsKeepCurveValue` and `SharesKeepCurveValue` put the
  property tests of the curves to every pool that is reached. For the stable curve the tests compare values of zero: in their build the value is a root of a
  cubic that has no positive root (`P/curve/stable.rs:291`), converted to an unsigned number. So its
  swaps are compared with the simulation instead (`StableFollowsSimulation`).
* **A sealed pool.** `PoolIsSealed` and `OnlyTheProgramMoves` depend on the owner checks, on the checks of both
  close authorities and of the freeze authority: a token account keeps its close authority when it is handed over.
  The check of the delegate is not needed with this token program, which drops a delegate together
  with the owner.
* **`IdentityForGood`** holds because whatever `Initialize` packs can be unpacked again; data that could not
  be would count as not initialized (`P/state.rs:80`).
* **`FeesShownAreCharged`** holds although `Fees::unpack` ignores the stored fees (`P/curve/fees.rs:177`),
  because the unpacking of an Initialize instruction ignores the requested ones in the same way
  (`RequestedFees`), so those stored are the compiled-in ones. The tests `pack_fees`
  (`P/curve/fees.rs:186`) and `pack_intialize` expect other fees back.
* **`ExitNeverBlocked`.** The owner can close the fee account. Swaps then fail, as they mint into it, but
  withdrawals go on, because a fee of zero is not transferred.
* **Creating a pool.** Whatever races, crashes or arrives late, a creator pays in only for the initial
  supply (`StakeBuysTheSupply`), no account is missing when the second transaction is sent, and
  the pool account never exists uninitialized. `FoundedForGood` needs the initialized flag: after a
  drain the supply is zero again and only the flag stops a late second transaction.
* **Racing and retrying.** `PoolGetsCreated` says that a race does not end with every creator stopped by an account of the
  other: while nothing goes wrong, either a creator saw its accounts confirmed and makes the pool, or the mint is
  free and whoever takes it goes on to make the pool. After a fault (a crash or a lost transaction) it says the same, provided
  that a call can still finish (`CanFinish`). It does *not* say that a pool is made in the end. With the
  repository's own client a fault between the two transactions leaves the mint made and nobody to go
  on; every later call finds it made, no longer names it in its first transaction, still signs with its key, and
  throws. The creation is then stuck for good, which TLC finds at once when `Others` is empty and the
  condition `CanFinish` is dropped. No text in the repository promises that a retry works, so there is no
  run for it.

### 3.2 Findings

* `single_reopened`. "The standard constant product curve must have a non-zero supply on both sides"
  (`P/curve/calculator.rs:159`), which Initialize checks. In the `localhost` build a single-sided
  deposit with no pool tokens outstanding mints the supply of a new pool (`P/processor.rs:812`) without
  a look at the other reserve, which is empty after a drain.
* `fuzz_value`. The fuzzer asserts that the value per pool token has not fallen (`src/program/fuzz/src/instructions.rs:224`).
  It counts no pool tokens minted as fees, "because fees in the form of pool tokens can dilute the value of
  the pool" (203-207), but a deposit is priced by the whole supply (`P/processor.rs:538`), those
  tokens included, and what a fee token dilutes a depositor does not pay. In the run a pool of 10 pool
  tokens for 300 A and 900 B takes a swap of 3 A, which mints one pool token, and the next deposit of 5 breaks the
  assertion. The amounts are the fuzzer's in proportion: there, too, a pool token is worth a hundred A or more
  (10^9 for 10^11 A and 3 * 10^11 B), and a swap of 3 A followed by deposits of a few of its 256
  accounts, about 1% of the pool each, is enough. In the pools of the run `fuzz`, where a pool token is cheap, the fee outweighs it.
* `price_client`. "Constant price curve, always X amount of A token for 1 B token"
  (`src/services/saros_swap.instruction.ts:68`), but the client quotes every pool by the constant
  product. For 8 A at a price of 3 it demands 2 B where the program pays 1, and the swap is refused.
* `client_price`. The same comment says that X "is defined at init". The client turns X into bytes with
  `toArrayLike(Buffer)` (`src/services/saros_swap.instruction.ts:130`), most significant byte first, and
  copies them to the start of the curve's 32 bytes; the program reads a number there least
  significant byte first (`P/curve/constant_price.rs:247`). A price of more than one byte becomes
  another price: with bytes of eight values, 10 becomes 17.

Not a finding, but worth knowing: without the feature `localhost`, which the manifest does not even
declare, the single-sided handlers return `Ok(())` (`P/processor.rs:736`, `868`), so a sender is told of a
success that moved nothing. The code says openly that they are stubs.

### 3.3 Fairness

The safety runs assume none. `FairSpec` of `PoolCreation` assumes weak fairness of each creator's
next step in a call that was begun (`Continue`: a process that runs reaches its next `await`) and of the chain settling the
transactions in flight (each is executed or refused unless it is lost, which counts as a fault). Nobody has to call,
or to call again, and nothing is assumed of `GiveUp`, `Lose` or `Drain`.

## 4. What is proved

For every value of the constants that satisfies the named assumptions (`SplMathAssumption`,
`TradersAssumption`, `SwapPoolAssumption`, `SwapClientAssumption`, `SingleSidedAssumption`, `FuzzAssumption`,
`PoolCreationAssumption`, `WireAssumption`, `ProgramAssumption`, `ConstraintsAssumption`,
`UserAssumption`, `CreationAssumption`): any finite number of traders, any valid fees, any amounts and limits,
any integer width, both behaviours of the ceiling division and any error of `PreciseNumber`. A run checks
each assumption for its own constants.

| Theorem | States |
|---|---|
| `SwapPoolProofs!TypeCorrect` | `Spec => []TypeOK`: no u64 overflows or goes below zero |
| `SwapPoolProofs!NoTokenIsLost` | `Spec => TokensConserved` |
| `SwapPoolProofs!SupplyStaysHeld` | `Spec => []SupplyIsHeld`: the pool token accounts add up to the supply |
| `PoolSafetyProofs!BothSidesStayLive` | `Spec => []BothSidesLive` |
| `PoolSafetyProofs!SwapsKeepProduct` | `Spec => SwapKeepsProduct` |
| `PoolSafetyProofs!SwapsKeepValue` | `Spec => SwapKeepsValue`, the constant price curve |
| `PoolSafetyProofs!OwnerFeesArePaidFor` | `Spec => OwnerFeePaidFor` |
| `PoolSafetyProofs!StayersLoseNothing` | `Spec => StayersKeepValue`, joining and leaving under the constant price curve |
| `PoolSafetyProofs!LastHolderLeaves` | `Spec => []LastHolderCanLeave`, after gifts and burns too, if there are no more tokens of a mint than a u64 holds |
| `PoolSafetyProofs!LastHolderTakesAll` | `ClosedSpec => []NothingStranded` |
| `PoolSafetyProofs!DrainedStaysDrained` | `ClosedSpec => DrainedForGood` |
| `PoolSafetyProofs!ProductPoolKeepsPromise` | `ClosedSpec => KeepsPromise`: a constant product pool implements `LiquidityPool`, whichever curves the build offers |
| `SwapClientProofs!SalesPayAnOffer` | `StayingSpec => SaleOfAPaysAnOffer`: what a client is paid for A whose quote was made from torn reads, for any number of clients and traders |
| `SwapClientProofs!FreshSwapsLand` | `ClientSpec => []FreshSwapLands`, for fees that can be charged together (`ChargedTogether`) |
| `SwapClientProofs!FreshDepositsLand`, `FreshWithdrawalsLand` | `ClientSpec => []FreshDepositLands`, `ClientSpec => []FreshWithdrawalLands` |
| `SingleSidedProofs!SingleTypeCorrect` | `SingleSpec => []TypeOK`, in either build |
| `SingleSidedProofs!SingleNoTokenIsLost`, `SingleSupplyStaysHeld` | `SingleSpec => TokensConserved`, `SingleSpec => []SupplyIsHeld` |
| `SingleSidedProofs!OneSidedStepsKeepRoot` | `SingleSpec => OneSidedKeepsRoot` |
| `SingleSidedProofs!OneSidedStepsKeepValue` | `SingleSpec => OneSidedKeepsValue` |
| `SingleSidedProofs!FounderPaysForNobody` | `FoundedSpec => []NoFreeLunch` for constant product pools, in the `localhost` build if the roots are exact, and for constant price pools, in the `localhost` build if there is a trading fee: no series of instructions, by any number of traders together, makes them richer |
| `FuzzProofs!FuzzerLosesNoToken`, `FuzzerHoldsTheSupply` | `FuzzSpec => []TotalsUnchanged`, `FuzzSpec => []SupplyIsHeld`: any list of instructions, closing included |
| `FuzzProofs!EverythingIsPaidOut` | `FuzzSpec => []CloseOutIsPaid`, whatever the curve, if the amounts fit a u64, New brings two tokens B or more, and there is a trading fee |
| `FuzzProofs!SwapsKeepTheCurveValue` | `FuzzSpec => []SwapsKeepCurveValue`: the curves' swap tests in every pool that is reached |
| `FuzzProofs!SharesKeepTheCurveValue` | `FuzzSpec => []SharesKeepCurveValue`: their deposit and withdrawal tests |
| `PoolCreationProofs!CreationTypeCorrect`, `StakeAlwaysBuys`, `AlwaysReady`, `NeverLeftHalfMade`, `FounderStays` | the five safety properties of `PoolCreation` |
| `ProgramProofs!PoolAlwaysSealed` | `Spec => []PoolIsSealed`, for any accounts, people, requests, bytes and fees |
| `ProgramProofs!FeesAlwaysShown` | `Spec => []FeesShownAreCharged` |
| `ProgramProofs!AlwaysArrives` | `Spec => []ArrivesAsAsked`: both libraries, all instructions |
| `ProgramProofs!ExitAlwaysOpen` | `Spec => []ExitNeverBlocked` |
| `ProgramProofs!WrittenOnce` | `Spec => IdentityForGood`: no second Initialize |
| `ProgramProofs!PeopleNeverTake` | `Spec => OnlyTheProgramMoves` |

**The argument for the pool.** `CurveProofs` has the lemmas about the operators: bounds and monotonicity of
fees, of the ceiling division, and of both curves; that a share rounded down is at most, and one
rounded up at least, its exact worth; and `GrowthPaysForShares`, the inequality behind the owner fee.
`TypeOK` is not inductive: a swap divides by the price, which must not be zero, so the
invariant is `TypeInv == TypeOK /\ CurveOK`, an open pool has a curve that Initialize validated.
`SafetyInv == TypeInv /\ BothSidesLive` is inductive under `Spec` because the ceiling division leaves at
least one token in the reserve that pays and a withdrawal rounds down. `ClosedInv == SafetyInv /\
NothingStranded` is inductive under `ClosedSpec` only, since a gift to a drained pool is stranded
there. The refinement shows each action of `ClosedNext` to be a step of the promise in a state
that satisfies `ClosedInv`, before and after; a pool with another curve never opens in the mapping,
so its steps are stutters.

**The argument for the last holder.** `RoomInv` adds to `SafetyInv` that there are as many tokens as the traders started
with. Whoever has all pool tokens has a claim to exactly both reserves (`FloorShare`), neither is
empty, and his accounts have room for them since all tokens together fit a u64 (`RoomForPayments`). That they do is the hypothesis
(`Started(t) <= U64Max`): the token program keeps the supply of a mint in a u64.

**The argument for the constant price curve.** The curve reports half of the pool's value, rounded down, so the
value of a step is compared through `HalfGrows` and `HalfShrinks`. `PriceSwapStep` covers both directions of
a swap, of which one charges only for whole units of B. `ConstantPriceCosts` and `ConstantPriceRedeems` say that what a share
costs, rounded up, is worth at least, and what it pays, rounded down, at most its part of the half value.

**Sums over accounts.** `SumFunction` is defined by recursion and the induction theorems of the library are out of reach
(see below), so `CurveProofs` counts instead: the *units* of a function of natural numbers are the pairs of an
element and a number below its value, a finite set, and the sum is its cardinality (`SumIsUnits`). That this holds for
every finite set is shown by taking a *smallest* subset for which it fails (`SmallestSubset`, from the library's
theorem that a well-founded order has minimal elements) and removing one element. From there
`SumOfChanged` and `SumOfMoved` follow, the effect of one and of two changed accounts. A host may be the
trader or the fee account, so a swap changes one, two or three accounts of one `EXCEPT`.
`SupplyInv` is `TypeInv` with the sum; `TokensConserved` needs `TypeInv` only.

**The argument for torn quotes.** `CallsInv` has the types of the calls under way and says that a call is made to an open
pool, whose curve stays. `StayingInv` adds what the reads are worth: between the two reads, the product of the pool when A was
read has not fallen since (`HalfReadOK`); after them, one of the two pools that were really there had at least
the A and at most the B that were read (`ReadOK`), that is, it was the worse offer. The first needs that no step of
`NobodyLeaves` lowers the product (`ProductStays`), the second follows by cases: if B has grown between the reads the earlier pool
is the worse one, and if it has fallen, A must have grown, and the later is (`ReadBIsOK`). TLC checked both
as invariants of the run `torn_quote` first. A quote falls with A and grows with B (`QuoteMonotone`), so the limit the client sends is
at least the honest quote of that pool. The formula of a quote makes sense only while something is left
after the fees, and the client charges one combined fee where the program charges two; `CombinedFee` says
that it is at most one token more than both, so a sale that the program accepts has a quote.

**The argument for fresh quotes.** `ClientInv` is `CallsInv` with the books of the pool tokens. A call whose reads are those of the
pool as it is (`Fresh`) has asked for an amount that the pool's own formula answers with no less than the quote. For a withdrawal
that is the rounding (`WithdrawalLands`), for a deposit the program's ceiling against the client's (`DepositLands`), and for a
swap the two fees against the combined one (`SeparateFees`), the quotient, and then everything the handler still refuses: an owner fee that is more than the
reserve it is taken from, pool tokens that do not fit (`FeeCanBeMinted`). `ChargedTogether` says that both fees have a denominator and are
together at most one. It is needed: TLC finds a fresh quote refused when the trade fee is 0/0 and the owner fee is not, because the sum of both fractions, as the client
computes it, is 0/0 then and its quote forgets the other fee. The fees of `constraints.rs` satisfy it, and the run `client` checks the property with others that do.

**The argument for the single-sided instructions.** `TypeInv` is inductive under `SingleSpec` too.
`EarnedBounds` and `ChargedBounds` say what the conversions promise: pool tokens earned are at
most, and pool tokens charged at least, those that keep the product per pool token squared
(`ScaledProduct` carries that over to the product) or the value per pool token.

**The argument for the free lunch.** Whether all steps together pay cannot be read off one of them, so
`FoundedInv` compares every state with the first one. What the traders do not hold is what the pool was founded
with and what they lost (`Endowed`, constant because no token is lost). `RootBacked` says that the product per pool token squared, *times the
founder's pool tokens squared*, is at least the first product. Neither factor alone would do: a swap raises the product but mints pool
tokens as its fee, so a pool token may become worth less, by as much as the fee account gets; with no host to share it the founder,
whose part grows by the same number of pool tokens as the whole, loses nothing (`NotDiluted`). In the end the founder
holds all pool tokens (`SupplyIsHeld`), so the product is at least the first one with neither reserve above its first amount,
and both are what they were (`SameReserves`). `ValueBacked` says the same of a constant price pool, in halves: the curve
halves its value rounding down, and in that half a loss of one token A would not show. Such a loss makes an odd value
even. `ValueBacked` therefore asks for one more (`Gained`) when the first value was odd and the present one is even, and `HalfGrows` and
`HalfShrinks` show that a deposit or a withdrawal that changes the value from odd to even leaves one over. TLC checked `FoundedInv`, for prices 1 to 3, with and without
fees and in both builds, before it was proved.
Three conditions remain. A host is excluded in the theorem because the smallest owner fee is one pool token, which may be worth more than
what the swap left for it, and a trader can be the host; in the run `single_sided` hosts take part, in a pool where a pool token is cheap. With
an inexact root a single-sided instruction can earn a pool token too many. In a constant price pool of the `localhost` build a
single-sided instruction keeps the *value* per pool token while the others keep its rounded half, and one of each kind in turn can
make a token: without a trading fee TLC finds a trader who joins a pool of 2 A and 1 B at price 1 with as many pool tokens as the founder has and leaves, partly through one
token, with one A more. With one, the fee of at least one token on half of the amount makes up for the rounded half (`HalfKeepsUpIn`, `HalfKeepsUpOut`,
`OneSidedValue`), so `OneSidedPays` asks for it. The fees of the source have it.

**The argument for the fuzzer.** `FuzzInv` says that the harness moves tokens through the same handlers, so the lemmas
of the pool and of the single-sided instructions apply to each of its stages, with all totals as they
were at the start. The tests of the curves are statements about single conversions in a pool of
`FuzzInv`. The test of a swap says that the value, a root, does not fall and grows by at most one;
`SmallGrowth` turns that into squares: it is enough that the product's growth squared is at most the product.

**The argument for closing.** What the fee account asks for in the end is everything, and under three curves that is a claim to the
reserves, or to more than there is, which is cut (`EverythingFor`). Under a constant price it is half of the value in each token, and the withdrawal would be refused if that half
rounded to nothing, or were less than the price of the one token B that is left. So it must be shown that no list of instructions can
bring the pool there. `ClosingInv` says that the part of the *founders*, who are Holder and the fee account, is worth at least half of
what New brought: their pool tokens are out of reach of the instructions, joining and leaving keep
the half value per pool token, and a swap that mints its fee, for whomever, mints it to founders, as Holder is the host
(`FoundersKept`, one lemma for each kind of instruction). As all pool tokens are gathered, all of the
pool is worth no less than the founders' part was. TLC checked `ClosingInv` on `Fuzz.cfg` first. The amounts in
`src/program/fuzz/src/instructions.rs:74` satisfy the hypotheses: New brings 3 * 10^11 tokens B, and half the value of all tokens there are, those of 256
users included, is below 6 * 10^18 at the price of 10^7, a third of what a u64 holds. So do those of `Fuzz.cfg`. With a single token B half of the pool may be worth less than one token B from the start,
and without a trading fee single-sided instructions can lower the founders' part, as above.

**The argument for the creation.** `SafeInv` relates the three stages of a call: what was asked about
exists or is to be created (`AskedIsKnown`), so the first transaction together with what exists covers all that the second
one reads (`FirstMakesReady`), so a confirmed call finds it all (`ConfirmedIsReady`). Accounts are never
removed, so none of these is disturbed by other creators.

**The argument for the program.** `Inv` has the types, says that a swap account which was written is that of
an initialized pool with sealed reserves and a sealed mint (`Sealed`), and that its bytes hold two purses, the
compiled-in fees and a curve type of the constraints (`WellPacked`); TLC checked it on `Program.cfg` first.
`Packed` is the lemma about the
bytes: what `PackSwap` writes has its reserves where the handlers look for them, and can be unpacked, whatever
the word length; it follows from where the parts of a concatenation lie (`Layout`). `CreateSeals` collects
the checks of Initialize. `PeopleAddOrBurn` goes through the token program: whoever is neither owner, delegate
nor closer of an account can only add to it. `ServeMovesAmounts` says that the other
handlers change amounts only. `Base >= 6` is assumed so that a byte holds a tag.

`ReadAsWritten` says that `FromLeBytes` undoes `ToLeBytes` for every number of a u64: the first `i` digits add up to the
number modulo `Weight[i]`. It is a fact about every `i`, proved like the one about sums, by the smallest natural number for
which it fails (`SmallestNat`). `FeesRead` and `RequestRead` carry it to the swap account and to the data of all
instructions, of either library (the creator's data differ: the client writes the curve otherwise, and
`InitializeFirst` shows that the fees are found nevertheless). `SwapAccounts` and `AccountsSuit` compare the libraries' account
lists with the order in which a handler takes them, and `ClientIsAccepted` puts all of it together: in a state of `Inv` a
client that knows a pool from its bytes passes every check of accounts.

**Only model-checked.** `PoolGetsCreated` is liveness, outside TLAPS. The library's induction theorems take an operator
as a parameter, which the installed provers cannot instantiate. Where a fact about all sums or all digits was
needed it is proved by a smallest counterexample, as above, but `StableFollowsSimulation`, about two computations that
stop at different steps, is left to TLC.
`NoFreeLunch` with hosts, with inexact roots, and for a constant price pool of the `localhost` build without a trading fee holds, or fails, for
the instance at hand (see above).

## 5. Not modelled

* The service's `depositSingleTokenType` and `withdrawSingleTokenType` and their quotes: they quote with
  floating point numbers what the deployed program does not do.
* The value of a stable pool in the build of the tests (`P/curve/stable.rs:287-309`), which solves a cubic in
  floating point, and the two tests that compare it.
* The curves' tests that a single-sided trade earns what a swap and a two-sided one earn, up to half a percent or one pool
  token (`P/curve/calculator.rs:205-379`). It is a statement about pools of 10^8 pool tokens and more and small
  trades. For large ones it does not hold: the check counts the first of two deposits in the supply (272) but not
  in the reserves (270-271), and a deposit of as much as the pool has into a constant price pool
  earns about a tenth less in one piece. That mixing the two does not pay is `NoFreeLunch`.
* The constant price curve halves the pool's value rounding *down* (`P/curve/constant_price.rs:226`) before a deposit is
  rounded *up*, so in whole tokens A a deposit can lower what a pool token is worth by a fraction of one. The
  properties use the value that the curve itself reports (`StayersKeepValue`), in which nothing is lost.
* Error codes and their messages. A refused instruction is a disabled action, whatever the error.
* In `Program`: how program-derived addresses are found (they are keys); freezing after the mint's freeze
  authority is gone; opening a token account again after it was closed; a reserve whose mint is the
  pool mint, which Initialize would accept as token B of a constant price pool.
* In `FuzzHarness`: the approvals before each instruction, which never fail, and several user
  accounts for one token within one instruction. One account pays or receives both tokens.
* The operations of the simulation that no test calls (imbalanced removal, withdrawing one coin).
* `src/js`: upstream bindings that the service does not use, and a script against a local validator.

## 6. Plan

The order in which the model was extended, and what is left.

1. *Done:* curves, fees, `SwapPool`, its properties and the abstract `LiquidityPool`.
2. *Done:* proofs of type correctness, safety and the refinement.
3. *Done:* `SwapClient` with torn and stale reads.
4. *Done:* `PoolCreation` with races, crashes and late transactions, and its proofs.
5. *Done:* `SingleSided`, the two single-sided handlers of the `localhost` build, the stubs of the
   deployed one, and their proofs. Left: the service calls and quotes for them.
6. *Done:* `OffsetCurve`, `StableCurve`, the simulation, the fuzzer and the curves' own tests.
7. *Done:* `Wire`, `Builders`, `Program` and its proofs.
8. Left: a `LiquidityPool` for the constant price curve (value per pool token), with the pool as its
   implementation, and a bound on what a leaver loses.
9. *Done:* proofs for the constant price curve, for the sums over accounts, for the fuzzer's runs and
   the curves' tests, and for what clients read and send.
10. *Done:* `NoFreeLunch` from an invariant that compares every state with the first, for both curves and both builds.
   Left: with hosts, which would need a bound on how dear a pool token can become.
11. *Done:* lemmas on the client's quotes (they grow with the reserve that pays and fall with the one
   that is paid) and from them `SaleOfAPaysAnOffer`.
12. *Done:* what the program must accept, as sets instead of enabledness, and proofs that the last holder can leave,
   that fresh quotes land and that the fuzzer can close the pool.

## 7. Running it

```
tlc -config ClosedPool.cfg MCSwapPool      # one line per run; PROJECT.json lists module and cfg
tlapm PoolSafetyProofs.tla
```
