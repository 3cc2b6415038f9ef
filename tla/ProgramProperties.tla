------------------------- MODULE ProgramProperties -------------------------
(***************************************************************************)
(* What must hold of a pool behind the program's entrypoint.               *)
(***************************************************************************)
EXTENDS Program

\* The pools that the swap account holds: none, or one.
Pools == UnpackSwap(swapData)

Reserves(s) == {s.tokenA, s.tokenB}

(***************************************************************************)
(* Whatever the creator and the others did to the accounts before, between *)
(* and after, a pool that is initialized has two reserves of different     *)
(* tokens that only the program can spend, close or hand on, and a mint    *)
(* that only the program can use: all the checks of process_initialize     *)
(* together leave no way in, and nothing the token program allows later    *)
(* opens one.                                                              *)
(***************************************************************************)
PoolIsSealed ==
  \A s \in Pools :
    /\ \A k \in Reserves(s) : SealedAccount(k)
    /\ MintOf[s.tokenA] # MintOf[s.tokenB]
    /\ SealedMint

(***************************************************************************)
(* The data of a swap account is written once: whatever Initialize packs,  *)
(* the program can read it again, so the account is in use and a second    *)
(* Initialize is refused, after the pool tokens are burned too             *)
(* (SwapVersion::is_initialized is false for data that cannot be read).    *)
(***************************************************************************)
IdentityForGood ==
  [][swapData # NewSwapData => swapData' = swapData]_vars

(***************************************************************************)
(* Nothing that people can do with the token program takes tokens out of   *)
(* the reserves of an initialized pool, closes a reserve, gives it another *)
(* owner, or mints pool tokens.                                            *)
(***************************************************************************)
OnlyTheProgramMoves ==
  [][(\E s \in Pools :
        \/ \E k \in Reserves(s) :
             \/ account'[k] = Closed
             \/ account'[k].owner # account[k].owner
             \/ account'[k].amount < account[k].amount
        \/ mint'.supply > mint.supply) => ~TokenProgramStep]_vars

(***************************************************************************)
(* The fees that the client reads in the swap account are those the        *)
(* program charges, though the program does not read them there, and       *)
(* whatever fees the creator asked for.                                    *)
(***************************************************************************)
FeesShownAreCharged ==
  \A s \in Pools : DecodePoolData(swapData).fees = s.fees

\* The numbers of a request, all different.
SomeArgs(op) == [i \in 1 .. ArgCount[op] |-> U64Max - i]

Arrives(builder, op, sellA, s) ==
  LET keys    == KeysRead(DecodePoolData(swapData), sellA)
      metas   == Accounts(builder, op, keys)
      bound   == Bind(op, metas)
      request == [op |-> op, args |-> SomeArgs(op)]
  IN  /\ UnpackInstruction(Data(builder, request)) = Some(request)
      /\ \A role \in DOMAIN bound : bound[role] = keys[role]
      /\ op = "Swap" => BoundHost(metas) = keys.host
      /\ Usable(op, metas) /\ Accepts(op, s, bound)

(***************************************************************************)
(* Every instruction that a client builds for an initialized pool, from    *)
(* the swap account alone and with either library, is decoded to what was  *)
(* asked, gives every account to the role it was meant for, with the       *)
(* rights the handler needs, and passes the handler's checks of accounts.  *)
(***************************************************************************)
ArrivesAsAsked ==
  \A s \in Pools : \A op \in Ops \ {"Initialize"}, sellA \in BOOLEAN,
                      builder \in Builders : Arrives(builder, op, sellA, s)

(***************************************************************************)
(* Nobody can take away the way out: whatever the owner and the others do  *)
(* to the accounts, the fee account closed for instance, a holder of pool  *)
(* tokens can withdraw both tokens (processor.rs 688: a fee of nothing is  *)
(* not transferred).                                                       *)
(***************************************************************************)
ExitNeverBlocked ==
  mint.supply > 0 =>
    \A s \in Pools, builder \in Builders :
      Served("WithdrawAll", s,
             Accounts(builder, "WithdrawAll", KeysRead(DecodePoolData(swapData), TRUE)))

(***************************************************************************)
(* The price of a constant price pool is the one its creator asked for     *)
(* (saros_swap.instruction.ts 68: "always X amount of A token for 1 B      *)
(* token, where X is defined at init").                                    *)
(***************************************************************************)
PriceIsAsAsked ==
  \A s \in Pools : \E r \in CreationRequests : s.curve = r.curve

=============================================================================
