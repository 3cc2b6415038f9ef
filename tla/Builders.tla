------------------------------ MODULE Builders ------------------------------
(***************************************************************************)
(* The accounts of an instruction, in order: those the Rust builders of    *)
(* instruction.rs list, those SarosSwapInstructionService lists, and those *)
(* the handlers of processor.rs take with next_account_info.               *)
(*                                                                         *)
(* A builder is given the key of every role.  A role has one name here,    *)
(* whatever a function calls it: of the roles that depend on the direction *)
(* of a trade, "source" is the user's account that pays, "destination" the *)
(* user's account that receives, and "swapSource" and "swapDestination"    *)
(* are the pool's.                                                         *)
(***************************************************************************)
EXTENDS Wire

CONSTANT NoKey   \* no account

\* AccountMeta::new and AccountMeta::new_readonly
W(key)  == [key |-> key, signer |-> FALSE, writable |-> TRUE]
R(key)  == [key |-> key, signer |-> FALSE, writable |-> FALSE]
RS(key) == [key |-> key, signer |-> TRUE, writable |-> FALSE]
WS(key) == [key |-> key, signer |-> TRUE, writable |-> TRUE]

Hosted(k) == IF k.host = NoKey THEN <<>> ELSE <<W(k.host)>>

-----------------------------------------------------------------------------
(* instruction.rs                                                          *)

RustInitialize(k) ==
  <<WS(k.swap), R(k.authority), R(k.tokenA), R(k.tokenB), W(k.mint), R(k.feeAccount),
    W(k.destination), R(k.tokenProgram)>>

RustDepositAll(k) ==
  <<R(k.swap), R(k.authority), RS(k.user), W(k.userA), W(k.userB), W(k.tokenA),
    W(k.tokenB), W(k.mint), W(k.userPool), R(k.tokenProgram)>>

RustWithdrawAll(k) ==
  <<R(k.swap), R(k.authority), RS(k.user), W(k.mint), W(k.userPool), W(k.tokenA),
    W(k.tokenB), W(k.userA), W(k.userB), W(k.feeAccount), R(k.tokenProgram)>>

RustDepositSingle(k) ==
  <<R(k.swap), R(k.authority), RS(k.user), W(k.source), W(k.tokenA), W(k.tokenB),
    W(k.mint), W(k.userPool), R(k.tokenProgram)>>

RustWithdrawSingle(k) ==
  <<R(k.swap), R(k.authority), RS(k.user), W(k.mint), W(k.userPool), W(k.tokenA),
    W(k.tokenB), W(k.destination), W(k.feeAccount), R(k.tokenProgram)>>

RustSwap(k) ==
  <<R(k.swap), R(k.authority), RS(k.user), W(k.source), W(k.swapSource),
    W(k.swapDestination), W(k.destination), W(k.mint), W(k.feeAccount),
    R(k.tokenProgram)>> \o Hosted(k)

RustAccounts(op, k) ==
  CASE op = "Initialize"     -> RustInitialize(k)
    [] op = "Swap"           -> RustSwap(k)
    [] op = "DepositAll"     -> RustDepositAll(k)
    [] op = "WithdrawAll"    -> RustWithdrawAll(k)
    [] op = "DepositSingle"  -> RustDepositSingle(k)
    [] op = "WithdrawSingle" -> RustWithdrawSingle(k)

-----------------------------------------------------------------------------
(* saros_swap.instruction.ts                                               *)

\* The pool does not sign: the transaction that creates its account does.
CreatePool(k) ==
  <<W(k.swap), R(k.authority), R(k.tokenA), R(k.tokenB), W(k.mint), R(k.feeAccount),
    W(k.destination), R(k.tokenProgram)>>

\* Mutant of TsSwap: the pool's accounts in the other order.
TsSwapCrossed(k) ==
  <<R(k.swap), R(k.authority), RS(k.user), W(k.source), W(k.swapDestination),
    W(k.swapSource), W(k.destination), W(k.mint), W(k.feeAccount),
    R(k.tokenProgram)>> \o Hosted(k)

TsSwap(k) ==
  <<R(k.swap), R(k.authority), RS(k.user), W(k.source), W(k.swapSource),
    W(k.swapDestination), W(k.destination), W(k.mint), W(k.feeAccount),
    R(k.tokenProgram)>> \o Hosted(k)

TsDepositAll(k) ==
  <<R(k.swap), R(k.authority), RS(k.user), W(k.userA), W(k.userB), W(k.tokenA),
    W(k.tokenB), W(k.mint), W(k.userPool), R(k.tokenProgram)>>

TsWithdrawAll(k) ==
  <<R(k.swap), R(k.authority), RS(k.user), W(k.mint), W(k.userPool), W(k.tokenA),
    W(k.tokenB), W(k.userA), W(k.userB), W(k.feeAccount), R(k.tokenProgram)>>

TsDepositSingle(k) ==
  <<R(k.swap), R(k.authority), RS(k.user), W(k.source), W(k.tokenA), W(k.tokenB),
    W(k.mint), W(k.userPool), R(k.tokenProgram)>>

TsWithdrawSingle(k) ==
  <<R(k.swap), R(k.authority), RS(k.user), W(k.mint), W(k.userPool), W(k.tokenA),
    W(k.tokenB), W(k.destination), W(k.feeAccount), R(k.tokenProgram)>>

TsAccounts(op, k) ==
  CASE op = "Initialize"     -> CreatePool(k)
    [] op = "Swap"           -> TsSwap(k)
    [] op = "DepositAll"     -> TsDepositAll(k)
    [] op = "WithdrawAll"    -> TsWithdrawAll(k)
    [] op = "DepositSingle"  -> TsDepositSingle(k)
    [] op = "WithdrawSingle" -> TsWithdrawSingle(k)

-----------------------------------------------------------------------------
(* processor.rs: what a handler takes the accounts for, in its order.      *)

Roles ==
  [Initialize |-> <<"swap", "authority", "tokenA", "tokenB", "mint", "feeAccount",
                    "destination", "tokenProgram">>,
   Swap |-> <<"swap", "authority", "user", "source", "swapSource", "swapDestination",
              "destination", "mint", "feeAccount", "tokenProgram">>,
   DepositAll |-> <<"swap", "authority", "user", "userA", "userB", "tokenA", "tokenB",
                    "mint", "userPool", "tokenProgram">>,
   WithdrawAll |-> <<"swap", "authority", "user", "mint", "userPool", "tokenA", "tokenB",
                     "userA", "userB", "feeAccount", "tokenProgram">>,
   DepositSingle |-> <<"swap", "authority", "user", "source", "tokenA", "tokenB", "mint",
                       "userPool", "tokenProgram">>,
   WithdrawSingle |-> <<"swap", "authority", "user", "mint", "userPool", "tokenA",
                        "tokenB", "destination", "feeAccount", "tokenProgram">>]

\* The accounts a handler or the token program it calls writes to.
Written ==
  [Initialize |-> {"swap", "mint", "destination"},
   Swap |-> {"source", "swapSource", "swapDestination", "destination", "mint",
             "feeAccount"},
   DepositAll |-> {"userA", "userB", "tokenA", "tokenB", "mint", "userPool"},
   WithdrawAll |-> {"mint", "userPool", "tokenA", "tokenB", "userA", "userB",
                    "feeAccount"},
   DepositSingle |-> {"source", "tokenA", "tokenB", "mint", "userPool"},
   WithdrawSingle |-> {"mint", "userPool", "tokenA", "tokenB", "destination",
                       "feeAccount"}]

\* Enough accounts, the user's signature where the token program asks for it,
\* and leave to write where something is written.
Usable(op, metas) ==
  /\ Len(metas) >= Len(Roles[op])
  /\ \A i \in 1 .. Len(Roles[op]) :
       /\ Roles[op][i] \in Written[op] => metas[i].writable
       /\ Roles[op][i] = "user" => metas[i].signer

\* The key that each role of the handler gets.
Bind(op, metas) ==
  [role \in {Roles[op][i] : i \in 1 .. Len(Roles[op])} |->
     metas[CHOOSE i \in 1 .. Len(Roles[op]) : Roles[op][i] = role].key]

\* The optional account after the others.
BoundHost(metas) ==
  IF Len(metas) > Len(Roles.Swap) THEN metas[Len(Roles.Swap) + 1].key ELSE NoKey

=============================================================================
