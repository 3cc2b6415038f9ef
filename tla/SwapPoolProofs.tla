---------------------------- MODULE SwapPoolProofs ----------------------------
(***************************************************************************)
(* Proofs about SwapPool for every finite set of traders, every curve,     *)
(* every valid fees and every amount: types, and that no token is lost and *)
(* the pool tokens in all accounts are the supply.                         *)
(***************************************************************************)
EXTENDS SwapPoolProperties, CurveProofs

USE SplMathAssumption, SwapPoolAssumption

\* Initialize checked the curve of every open pool.
CurveOK == Initialized => ValidCurve(curve)

TypeInv == TypeOK /\ CurveOK

-----------------------------------------------------------------------------
(* What the state looks like to an instruction.                            *)

\* NoCurve is not a curve anybody can ask for.
LEMMA CurveKinds ==
  ASSUME TypeInv
  PROVE  /\ Initialized => /\ curve \in SwapCurves
                           /\ ValidCurve(curve)
         /\ ByProduct => Initialized
         /\ ByPrice => Initialized
  BY DEF TypeInv, TypeOK, CurveOK, SwapCurves, CurveTypes, ByProduct, ByPrice,
         Initialized, NoCurve

\* Amounts are naturals.
LEMMA StateNat ==
  ASSUME TypeInv
  PROVE  /\ \A t \in Tokens : reserve[t] \in Nat /\ reserve[t] <= U64Max
         /\ reserve["A"] \in Nat /\ reserve["B"] \in Nat
         /\ supply \in Nat
         /\ \A u \in Traders, t \in Tokens : wallet[u][t] \in Nat
         /\ \A l \in LpAccounts : lp[l] \in Nat
         /\ InitialSupply \in Nat \ {0}
  BY DEF TypeInv, TypeOK, Tokens

\* The other token of a token is a token, and the direction one of the two.
LEMMA OtherToken ==
  ASSUME NEW t \in Tokens
  PROVE  /\ Other(t) \in Tokens /\ Other(t) # t
         /\ Direction(t) \in {"AtoB", "BtoA"}
         /\ \A x \in Tokens : x = t \/ x = Other(t)
  BY DEF Tokens, Other, Direction

(***************************************************************************)
(* A swap in terms of its outcome: what the pool takes and pays, and the   *)
(* pool tokens it mints.                                                   *)
(***************************************************************************)
SwapOutcome(t, amount, swapped, poolFee) ==
  /\ swapped \in SwapWithFees(curve, FEES, amount, reserve[t], reserve[Other(t)],
                              Direction(t))
  /\ swapped.source \in Nat
  /\ swapped.destination \in Nat
  /\ curve.type # "Stable" => swapped.destination > 0
  /\ swapped.destination <= reserve[Other(t)]
  /\ swapped.ownerFee \in Nat /\ swapped.ownerFee <= amount
  /\ poolFee \in OwnerFeeInPoolTokens(t, swapped)
  /\ poolFee \in Nat
  /\ reserve' = ReserveAfter(t, swapped)
  /\ reserve'[t] = reserve[t] + swapped.source
  /\ reserve'[Other(t)] = reserve[Other(t)] - swapped.destination
  /\ supply' = supply + poolFee

\* What the swap does to the traders' accounts and the pool token accounts.
SwapSettles(u, v, t, swapped, poolFee) ==
  /\ \E h \in LpAccounts, hostFee \in 0 .. poolFee :
       lp' = [[lp EXCEPT ![h] = @ + hostFee] EXCEPT ![FeeAccount] = @ + (poolFee - hostFee)]
  /\ CanPay(u, t, swapped.source)
  /\ CanTakeIn(t, swapped.source)
  /\ CanReceive(v, Other(t), swapped.destination)
  /\ wallet' = [[wallet EXCEPT ![u][t] = @ - swapped.source]
                   EXCEPT ![v][Other(t)] = @ + swapped.destination]

LEMMA SwapHasOutcome ==
  ASSUME TypeInv, NEW u \in Traders, NEW v \in Traders, NEW t \in Tokens,
         NEW amount \in Nat, NEW minimum, NEW host \in Hosts,
         Swap(u, v, t, amount, minimum, host)
  PROVE  \E swapped, poolFee :
           /\ SwapOutcome(t, amount, swapped, poolFee)
           /\ SwapSettles(u, v, t, swapped, poolFee)
           /\ host = NoHost => lp'[FeeAccount] = lp[FeeAccount] + poolFee
           /\ host \in Traders =>
                /\ lp[host] <= lp'[host]
                /\ lp'[host] + lp'[FeeAccount] = lp[host] + lp[FeeAccount] + poolFee
<1> DEFINE o == Other(t)
<1>1. Initialized
  BY DEF Swap, Exchanges, MintedFees, PoolTokensWithFee, When, None
<1>2. PICK swapped \in SwapWithFees(curve, FEES, amount, reserve[t], reserve[o],
                                    Direction(t)) :
        /\ CanPay(u, t, swapped.source)
        /\ CanTakeIn(t, swapped.source)
        /\ CanReceive(v, o, swapped.destination)
        /\ wallet' = [[wallet EXCEPT ![u][t] = @ - swapped.source]
                         EXCEPT ![v][o] = @ + swapped.destination]
        /\ reserve' = ReserveAfter(t, swapped)
        /\ \E poolFee \in OwnerFeeInPoolTokens(t, swapped) :
             LET part   == SplitFee(poolFee, host)
                 hosted == IF host = NoHost THEN FeeAccount ELSE host
             IN  /\ supply' = supply + poolFee
                 /\ lp' = [[lp EXCEPT ![hosted] = @ + part.host]
                              EXCEPT ![FeeAccount] = @ + part.owner]
  BY DEF Swap, Exchanges, MintedFees, PoolTokensWithFee, When, None
<1>3. PICK poolFee \in OwnerFeeInPoolTokens(t, swapped) :
        LET part   == SplitFee(poolFee, host)
            hosted == IF host = NoHost THEN FeeAccount ELSE host
        IN  /\ supply' = supply + poolFee
            /\ lp' = [[lp EXCEPT ![hosted] = @ + part.host]
                         EXCEPT ![FeeAccount] = @ + part.owner]
  BY <1>2
<1>4. curve \in SwapCurves /\ ValidCurve(curve)
  BY <1>1, CurveKinds
<1>5. amount \in Nat /\ reserve[t] \in Nat /\ reserve[o] \in Nat
  BY OtherToken, StateNat
<1>6. /\ swapped.source \in Nat
      /\ swapped.destination \in Nat
      /\ curve.type # "Stable" => swapped.destination > 0
      /\ swapped.destination <= reserve[o]
      /\ swapped.ownerFee \in Nat
  BY <1>2, <1>4, <1>5, OtherToken, SwapBounds
<1>7. swapped.ownerFee <= amount
  <2>1. swapped.ownerFee = OwnerTradingFee(FEES, amount)
    BY DEF SwapWithFees, When, None
  <2> QED BY <1>5, <2>1, FeeBounds DEF OwnerTradingFee, ValidFees
<1>8. /\ reserve'[t] = reserve[t] + swapped.source
      /\ reserve'[o] = reserve[o] - swapped.destination
  BY <1>2, OtherToken DEF ReserveAfter, TypeInv, TypeOK
<1>9. poolFee \in Nat
  <2> DEFINE after == ReserveAfter(t, swapped)
  <2>1. after["A"] \in Nat /\ after["B"] \in Nat
    BY <1>2, <1>5, <1>6, <1>8, OtherToken DEF Tokens, Other
  <2>2. poolFee \in WithdrawSingleExactOut(curve, FEES, swapped.ownerFee, after["A"],
                                           after["B"], supply, Direction(t))
    BY <1>3 DEF OwnerFeeInPoolTokens
  <2> HIDE DEF after
  <2> QED BY <1>4, <1>6, <2>1, <2>2, OtherToken, StateNat, ExactOutNat
<1>10. \E h \in LpAccounts, hostFee \in 0 .. poolFee :
         lp' = [[lp EXCEPT ![h] = @ + hostFee] EXCEPT ![FeeAccount] = @ + (poolFee - hostFee)]
  <2> DEFINE hostFee == IF host = NoHost THEN 0 ELSE HostFee(FEES, poolFee)
             hosted  == IF host = NoHost THEN FeeAccount ELSE host
  <2>1. hostFee \in 0 .. poolFee
    <3>1. HostFee(FEES, poolFee) \in Nat /\ HostFee(FEES, poolFee) <= poolFee
      BY <1>9, FeeBounds DEF HostFee, ValidFees
    <3> QED BY <1>9, <3>1
  <2>2. hosted \in LpAccounts
    BY DEF Hosts, LpAccounts
  <2>3. lp' = [[lp EXCEPT ![hosted] = @ + hostFee] EXCEPT ![FeeAccount] = @ + (poolFee - hostFee)]
    BY <1>3 DEF SplitFee
  <2> HIDE DEF hostFee, hosted
  <2> QED BY <2>1, <2>2, <2>3
<1>11. host = NoHost => lp'[FeeAccount] = lp[FeeAccount] + poolFee
  <2>1. SUFFICES ASSUME host = NoHost PROVE lp'[FeeAccount] = lp[FeeAccount] + poolFee
    OBVIOUS
  <2>2. lp' = [[lp EXCEPT ![FeeAccount] = @ + 0] EXCEPT ![FeeAccount] = @ + (poolFee - 0)]
    BY <1>3, <2>1 DEF SplitFee
  <2>3. lp \in [LpAccounts -> Nat] /\ FeeAccount \in LpAccounts
    BY DEF TypeInv, TypeOK, LpAccounts
  <2> QED BY <1>9, <2>2, <2>3
<1>12. ASSUME host \in Traders
       PROVE  /\ lp[host] <= lp'[host]
              /\ lp'[host] + lp'[FeeAccount] = lp[host] + lp[FeeAccount] + poolFee
  <2> DEFINE hostFee == HostFee(FEES, poolFee)
  <2>1. hostFee \in Nat
    BY <1>9, FeeBounds DEF HostFee, ValidFees
  <2>2. host # NoHost /\ host # FeeAccount /\ host \in LpAccounts /\ FeeAccount \in LpAccounts
    BY <1>12 DEF LpAccounts
  <2>3. lp' = [[lp EXCEPT ![host] = @ + hostFee] EXCEPT ![FeeAccount] = @ + (poolFee - hostFee)]
    BY <1>3, <2>2 DEF SplitFee
  <2> HIDE DEF hostFee
  <2>4. lp \in [LpAccounts -> Nat]
    BY DEF TypeInv, TypeOK
  <2>5. lp'[host] = lp[host] + hostFee /\ lp'[FeeAccount] = lp[FeeAccount] + (poolFee - hostFee)
    BY <2>2, <2>3, <2>4
  <2> QED BY <1>9, <2>1, <2>2, <2>4, <2>5
<1> QED
  BY <1>2, <1>3, <1>6, <1>7, <1>8, <1>9, <1>10, <1>11, <1>12 DEF SwapOutcome, SwapSettles

(***************************************************************************)
(* A deposit in terms of its outcome.                                      *)
(***************************************************************************)
DepositOutcome(paid, minted, shares) ==
  /\ minted \in Nat /\ shares \in Nat \ {0}
  /\ shares = IF supply > 0 THEN supply ELSE InitialSupply
  /\ paid \in PoolTokensToTradingTokens(curve, minted, shares, reserve["A"],
                                        reserve["B"], "Ceiling")
  /\ \A t \in Tokens : paid[t] \in Nat \ {0}
  /\ reserve' = [t \in Tokens |-> reserve[t] + paid[t]]
  /\ supply' = supply + minted

LEMMA DepositHasOutcome ==
  ASSUME TypeInv, NEW u \in Traders, NEW destination \in LpAccounts,
         NEW poolTokens \in Nat, NEW maximum,
         DepositAllTokenTypes(u, destination, poolTokens, maximum)
  PROVE  \E paid, minted, shares :
           /\ DepositOutcome(paid, minted, shares)
           /\ \A t \in Tokens : CanPay(u, t, paid[t]) /\ CanTakeIn(t, paid[t])
           /\ wallet' = [wallet EXCEPT ![u] = [t \in Tokens |-> @[t] - paid[t]]]
           /\ lp' = [lp EXCEPT ![destination] = @ + minted]
<1> DEFINE minted == IF supply > 0 THEN poolTokens ELSE InitialSupply
           shares == IF supply > 0 THEN supply ELSE InitialSupply
<1>1. /\ Initialized
      /\ supply' = supply + minted
      /\ lp' = [lp EXCEPT ![destination] = @ + minted]
  BY DEF DepositAllTokenTypes, Charges, Minted, When, None
<1>2. PICK paid \in PoolTokensToTradingTokens(curve, minted, shares, reserve["A"],
                                              reserve["B"], "Ceiling") :
        /\ Acceptable(u, paid, maximum)
        /\ wallet' = [wallet EXCEPT ![u] = [t \in Tokens |-> @[t] - paid[t]]]
        /\ reserve' = [t \in Tokens |-> reserve[t] + paid[t]]
  BY DEF DepositAllTokenTypes, Charges, Minted, When, None
<1>3. minted \in Nat /\ shares \in Nat \ {0}
  BY StateNat
<1>4. curve \in SwapCurves /\ ValidCurve(curve)
  BY <1>1, CurveKinds
<1>5. paid["A"] \in Nat /\ paid["B"] \in Nat
  <2> HIDE DEF minted, shares
  <2> QED BY <1>2, <1>3, <1>4, StateNat, TradingTokensNat
<1>6. \A t \in Tokens : paid[t] \in Nat \ {0}
  BY <1>2, <1>5 DEF Acceptable, Tokens
<1> QED
  BY <1>1, <1>2, <1>3, <1>6 DEF DepositOutcome, Acceptable

(***************************************************************************)
(* A withdrawal in terms of its outcome.                                   *)
(***************************************************************************)
WithdrawOutcome(worth, burned) ==
  /\ burned \in Nat /\ burned <= supply /\ supply > 0
  /\ worth \in PoolTokensToTradingTokens(curve, burned, supply, reserve["A"],
                                         reserve["B"], "Floor")
  /\ \A t \in Tokens :
       /\ worth[t] \in Nat
       /\ reserve'[t] = reserve[t] - Lesser(reserve[t], worth[t])
       /\ Lesser(reserve[t], worth[t]) = 0 => reserve[t] = 0
  /\ supply' = supply - burned

LEMMA WithdrawHasOutcome ==
  ASSUME TypeInv, NEW source \in LpAccounts, NEW u \in Traders,
         NEW poolTokens \in Nat, NEW minimum,
         WithdrawAllTokenTypes(source, u, poolTokens, minimum)
  PROVE  \E worth, burned, fee :
           /\ WithdrawOutcome(worth, burned)
           /\ fee \in Nat /\ poolTokens = burned + fee
           /\ poolTokens <= lp[source]
           /\ \A t \in Tokens : CanReceive(u, t, Lesser(reserve[t], worth[t]))
           /\ reserve' = [t \in Tokens |-> reserve[t] - Lesser(reserve[t], worth[t])]
           /\ wallet' = [wallet EXCEPT ![u] =
                           [t \in Tokens |-> @[t] + Lesser(reserve[t], worth[t])]]
           /\ lp' = [[lp EXCEPT ![source] = @ - poolTokens] EXCEPT ![FeeAccount] = @ + fee]
<1> DEFINE fee    == WithdrawFee(source, poolTokens)
           burned == poolTokens - fee
<1>1. /\ Initialized /\ fee <= poolTokens /\ burned <= supply
      /\ poolTokens <= lp[source]
      /\ supply' = supply - burned
      /\ lp' = [[lp EXCEPT ![source] = @ - poolTokens] EXCEPT ![FeeAccount] = @ + fee]
  BY DEF WithdrawAllTokenTypes, Redeemed, PoolTokensAfter, When, None
<1>2. PICK worth \in PoolTokensToTradingTokens(curve, burned, supply, reserve["A"],
                                               reserve["B"], "Floor") :
        LET received == [t \in Tokens |-> Lesser(reserve[t], worth[t])]
        IN  /\ \A t \in Tokens : /\ received[t] = 0 => reserve[t] = 0
                                 /\ CanReceive(u, t, received[t])
            /\ reserve' = [t \in Tokens |-> reserve[t] - received[t]]
            /\ wallet' = [wallet EXCEPT ![u] = [t \in Tokens |-> @[t] + received[t]]]
  <2>1. PICK received \in Redeemed(source, u, poolTokens, minimum) :
          /\ reserve' = [t \in Tokens |-> reserve[t] - received[t]]
          /\ wallet' = [wallet EXCEPT ![u] = [t \in Tokens |-> @[t] + received[t]]]
    BY DEF WithdrawAllTokenTypes
  <2>2. \A t \in Tokens : /\ received[t] = 0 => reserve[t] = 0
                          /\ CanReceive(u, t, received[t])
    BY <2>1 DEF Redeemed, When, None
  <2>3. \E worth \in PoolTokensToTradingTokens(curve, burned, supply, reserve["A"],
                                               reserve["B"], "Floor") :
          received = [t \in Tokens |-> Lesser(reserve[t], worth[t])]
    BY <2>1 DEF Redeemed, When, None
  <2> QED BY <2>1, <2>2, <2>3
<1>3. poolTokens \in Nat /\ fee \in Nat
  BY FeeBounds DEF WithdrawFee, OwnerWithdrawFee, ValidFees
<1> HIDE DEF fee
<1>4. burned \in Nat /\ poolTokens = burned + fee
  BY <1>1, <1>3
<1> HIDE DEF burned
<1>5. curve \in SwapCurves /\ ValidCurve(curve)
  BY <1>1, CurveKinds
<1>6. worth["A"] \in Nat /\ worth["B"] \in Nat /\ supply > 0
  BY <1>2, <1>4, <1>5, StateNat, TradingTokensNat
<1>7. \A t \in Tokens :
        /\ worth[t] \in Nat
        /\ reserve'[t] = reserve[t] - Lesser(reserve[t], worth[t])
        /\ Lesser(reserve[t], worth[t]) = 0 => reserve[t] = 0
        /\ CanReceive(u, t, Lesser(reserve[t], worth[t]))
  BY <1>2, <1>6 DEF Tokens
<1>8. /\ reserve' = [t \in Tokens |-> reserve[t] - Lesser(reserve[t], worth[t])]
      /\ wallet' = [wallet EXCEPT ![u] =
                      [t \in Tokens |-> @[t] + Lesser(reserve[t], worth[t])]]
  BY <1>2
<1>9. WithdrawOutcome(worth, burned)
  BY <1>1, <1>2, <1>4, <1>6, <1>7 DEF WithdrawOutcome
<1> QED
  BY <1>1, <1>3, <1>4, <1>7, <1>8, <1>9

\* Whoever joins or leaves does so with such an outcome.
LEMMA JoinHasOutcome ==
  ASSUME TypeInv, Join
  PROVE  \E paid, minted, shares : DepositOutcome(paid, minted, shares)
<1>1. PICK u \in Traders, destination \in LpAccounts, poolTokens \in PoolAmounts,
           maximum \in [Tokens -> Limits] :
             DepositAllTokenTypes(u, destination, poolTokens, maximum)
  BY DEF Join
<1>2. poolTokens \in Nat
  OBVIOUS
<1> QED
  BY <1>1, <1>2, DepositHasOutcome

LEMMA ExitHasOutcome ==
  ASSUME TypeInv, Exit
  PROVE  \E worth, burned : WithdrawOutcome(worth, burned)
<1>1. PICK source \in LpAccounts, u \in Traders, poolTokens \in PoolAmounts,
           minimum \in [Tokens -> Limits] :
             WithdrawAllTokenTypes(source, u, poolTokens, minimum)
  BY DEF Exit
<1>2. poolTokens \in Nat
  OBVIOUS
<1> QED
  BY <1>1, <1>2, WithdrawHasOutcome

-----------------------------------------------------------------------------
(* Type correctness.                                                       *)

LEMMA InitTypeInv == Init => TypeInv
<1> SUFFICES ASSUME Init PROVE TypeInv
  OBVIOUS
<1>1. StartWallet \in [Tokens -> 0 .. U64Max] /\ U64Max \in Nat
  OBVIOUS
<1>2. TypeOK
  BY <1>1 DEF Init, TypeOK
<1>3. CurveOK
  BY DEF Init, CurveOK, Initialized
<1> QED
  BY <1>2, <1>3 DEF TypeInv

LEMMA SwapTypeInv ==
  ASSUME TypeInv, NEW u \in Traders, NEW v \in Traders, NEW t \in Tokens,
         NEW amount \in Nat, NEW minimum, NEW host \in Hosts,
         Swap(u, v, t, amount, minimum, host)
  PROVE  TypeInv'
<1>1. PICK swapped, poolFee :
        /\ SwapOutcome(t, amount, swapped, poolFee)
        /\ SwapSettles(u, v, t, swapped, poolFee)
  BY SwapHasOutcome
<1> DEFINE o == Other(t)
<1>2. /\ swapped.source \in Nat /\ swapped.destination \in Nat
      /\ swapped.destination <= reserve[o]
      /\ reserve' = ReserveAfter(t, swapped)
  BY <1>1 DEF SwapOutcome
<1>3. o \in Tokens /\ o # t
  BY OtherToken
<1>4. reserve' \in [Tokens -> 0 .. U64Max]
  BY <1>1, <1>2, <1>3 DEF ReserveAfter, SwapSettles, CanTakeIn, TypeInv, TypeOK
<1>5. wallet' \in [Traders -> [Tokens -> 0 .. U64Max]]
  <2>1. wallet[u][t] - swapped.source \in 0 .. U64Max
    BY <1>1, <1>2 DEF SwapSettles, CanPay, TypeInv, TypeOK
  <2>2. wallet[v][o] + swapped.destination \in 0 .. U64Max
    BY <1>1, <1>2, <1>3 DEF SwapSettles, CanReceive, TypeInv, TypeOK
  <2>3. CASE u = v
    <3>1. wallet' = [wallet EXCEPT ![u] =
                       [wallet[u] EXCEPT ![t] = wallet[u][t] - swapped.source,
                                         ![o] = wallet[u][o] + swapped.destination]]
      BY <1>1, <1>3, <2>3 DEF SwapSettles, TypeInv, TypeOK
    <3> QED BY <1>3, <2>1, <2>2, <2>3, <3>1 DEF TypeInv, TypeOK
  <2>4. CASE u # v
    <3>1. wallet' = [wallet EXCEPT
                       ![u] = [wallet[u] EXCEPT ![t] = wallet[u][t] - swapped.source],
                       ![v] = [wallet[v] EXCEPT ![o] = wallet[v][o] + swapped.destination]]
      BY <1>1, <1>3, <2>4 DEF SwapSettles, TypeInv, TypeOK
    <3> QED BY <1>3, <2>1, <2>2, <2>4, <3>1 DEF TypeInv, TypeOK
  <2> QED BY <2>3, <2>4
<1>6. supply' \in 0 .. U64Max /\ PoolTokensFit(lp') /\ curve' = curve
  BY DEF Swap, Exchanges, MintedFees, PoolTokensWithFee, When, None, Mintable, IsU64
<1>7. lp' \in [LpAccounts -> 0 .. U64Max]
  <2>1. \E x, y : \E h \in LpAccounts :
          lp' = [[lp EXCEPT ![h] = @ + x] EXCEPT ![FeeAccount] = @ + y]
    BY <1>1 DEF SwapSettles
  <2>2. \A l \in LpAccounts : lp'[l] \in 0 .. U64Max
    BY <1>6 DEF PoolTokensFit, IsU64
  <2> QED BY <2>1, <2>2 DEF TypeInv, TypeOK
<1> QED
  BY <1>4, <1>5, <1>6, <1>7 DEF TypeInv, TypeOK, CurveOK, Initialized

LEMMA DepositTypeInv ==
  ASSUME TypeInv, NEW u \in Traders, NEW destination \in LpAccounts,
         NEW poolTokens \in Nat, NEW maximum,
         DepositAllTokenTypes(u, destination, poolTokens, maximum)
  PROVE  TypeInv'
<1>1. PICK paid, minted, shares :
        /\ DepositOutcome(paid, minted, shares)
        /\ \A t \in Tokens : CanPay(u, t, paid[t]) /\ CanTakeIn(t, paid[t])
        /\ wallet' = [wallet EXCEPT ![u] = [t \in Tokens |-> @[t] - paid[t]]]
        /\ lp' = [lp EXCEPT ![destination] = @ + minted]
  BY DepositHasOutcome
<1>2. /\ \A t \in Tokens : paid[t] \in Nat
      /\ reserve' = [t \in Tokens |-> reserve[t] + paid[t]]
  BY <1>1 DEF DepositOutcome
<1>3. reserve' \in [Tokens -> 0 .. U64Max]
  BY <1>1, <1>2 DEF CanTakeIn, TypeInv, TypeOK
<1>4. wallet' \in [Traders -> [Tokens -> 0 .. U64Max]]
  <2>1. \A t \in Tokens : wallet[u][t] - paid[t] \in 0 .. U64Max
    BY <1>1, <1>2 DEF CanPay, TypeInv, TypeOK
  <2> QED BY <1>1, <2>1 DEF TypeInv, TypeOK
<1>5. supply' \in 0 .. U64Max /\ PoolTokensFit(lp') /\ curve' = curve
  BY DEF DepositAllTokenTypes, Charges, Minted, When, None, Mintable, IsU64
<1>6. lp' \in [LpAccounts -> 0 .. U64Max]
  BY <1>1, <1>5 DEF PoolTokensFit, IsU64, TypeInv, TypeOK
<1> QED
  BY <1>3, <1>4, <1>5, <1>6 DEF TypeInv, TypeOK, CurveOK, Initialized

LEMMA WithdrawTypeInv ==
  ASSUME TypeInv, NEW source \in LpAccounts, NEW u \in Traders,
         NEW poolTokens \in Nat, NEW minimum,
         WithdrawAllTokenTypes(source, u, poolTokens, minimum)
  PROVE  TypeInv'
<1>1. PICK worth, burned, fee :
        /\ WithdrawOutcome(worth, burned)
        /\ fee \in Nat /\ poolTokens = burned + fee
        /\ poolTokens <= lp[source]
        /\ \A t \in Tokens : CanReceive(u, t, Lesser(reserve[t], worth[t]))
        /\ reserve' = [t \in Tokens |-> reserve[t] - Lesser(reserve[t], worth[t])]
        /\ wallet' = [wallet EXCEPT ![u] =
                        [t \in Tokens |-> @[t] + Lesser(reserve[t], worth[t])]]
        /\ lp' = [[lp EXCEPT ![source] = @ - poolTokens] EXCEPT ![FeeAccount] = @ + fee]
  BY WithdrawHasOutcome
<1>2. \A t \in Tokens : Lesser(reserve[t], worth[t]) \in 0 .. reserve[t]
  BY <1>1, StateNat DEF WithdrawOutcome, Lesser
<1>3. reserve' \in [Tokens -> 0 .. U64Max]
  BY <1>1, <1>2, StateNat DEF TypeInv, TypeOK
<1>4. wallet' \in [Traders -> [Tokens -> 0 .. U64Max]]
  <2>1. \A t \in Tokens : wallet[u][t] + Lesser(reserve[t], worth[t]) \in 0 .. U64Max
    BY <1>1, <1>2, StateNat DEF CanReceive
  <2> QED BY <1>1, <2>1 DEF TypeInv, TypeOK
<1>5. supply' \in 0 .. U64Max
  BY <1>1, StateNat DEF WithdrawOutcome, TypeInv, TypeOK
<1>6. PoolTokensFit(lp') /\ curve' = curve
  BY DEF WithdrawAllTokenTypes, Redeemed, WithdrawFee, PoolTokensAfter, When, None
<1>7. lp' \in [LpAccounts -> 0 .. U64Max]
  BY <1>1, <1>6 DEF PoolTokensFit, IsU64, TypeInv, TypeOK
<1> QED
  BY <1>3, <1>4, <1>5, <1>6, <1>7 DEF TypeInv, TypeOK, CurveOK, Initialized

LEMMA NextTypeInv == TypeInv /\ [Next]_vars => TypeInv'
<1> SUFFICES ASSUME TypeInv, [Next]_vars PROVE TypeInv'
  OBVIOUS
<1>1. CASE Create
  <2>1. PICK c \in Curves, destination \in LpAccounts : Initialize(c, destination)
    BY <1>1 DEF Create
  <2> QED
    BY <2>1 DEF Initialize, TypeInv, TypeOK, CurveOK, Initialized, PoolTokensFit, IsU64
<1>2. CASE Trade
  BY <1>2, SwapTypeInv DEF Trade
<1>3. CASE Join
  BY <1>3, DepositTypeInv DEF Join
<1>4. CASE Exit
  BY <1>4, WithdrawTypeInv DEF Exit
<1>5. CASE Send
  <2>1. PICK u \in Traders, t \in Tokens, n \in Amounts : SendToPool(u, t, n)
    BY <1>5 DEF Send
  <2>2. /\ wallet[u][t] - n \in 0 .. U64Max
        /\ reserve[t] + n \in 0 .. U64Max
    BY <2>1 DEF SendToPool, CanPay, CanTakeIn, TypeInv, TypeOK
  <2> QED
    BY <2>1, <2>2 DEF SendToPool, TypeInv, TypeOK, CurveOK, Initialized
<1>6. CASE Burn
  <2>1. PICK l \in LpAccounts, n \in PoolAmounts : BurnPoolTokens(l, n)
    BY <1>6 DEF Burn
  <2> QED
    BY <2>1 DEF BurnPoolTokens, TypeInv, TypeOK, CurveOK, Initialized
<1>7. CASE UNCHANGED vars
  BY <1>7 DEF vars, TypeInv, TypeOK, CurveOK, Initialized
<1> QED
  BY <1>1, <1>2, <1>3, <1>4, <1>5, <1>6, <1>7 DEF Next

(***************************************************************************)
(* Every balance and the supply stay u64 amounts: no instruction, however  *)
(* its fees and shares round, takes an account below zero or beyond its    *)
(* width.                                                                  *)
(***************************************************************************)
THEOREM TypeCorrect == Spec => []TypeOK
<1>1. Spec => []TypeInv
  BY InitTypeInv, NextTypeInv, PTL DEF Spec
<1>2. TypeInv => TypeOK
  BY DEF TypeInv
<1> QED
  BY <1>1, <1>2, PTL

-----------------------------------------------------------------------------
(* Nothing is created or lost.                                             *)

\* Payments between the pool and one trader leave the total as it is.
LEMMA TotalKept ==
  ASSUME TypeInv, TypeInv', NEW t \in Tokens, NEW u \in Traders,
         \A v \in Traders \ {u} : wallet'[v][t] = wallet[v][t],
         reserve'[t] + wallet'[u][t] = reserve[t] + wallet[u][t]
  PROVE  Total(t)' = Total(t)
<1> DEFINE f == [v \in Traders |-> wallet[v][t]]
           g == [v \in Traders |-> wallet'[v][t]]
<1>1. /\ f \in [Traders -> Nat] /\ g \in [Traders -> Nat]
      /\ f[u] = wallet[u][t] /\ g[u] = wallet'[u][t]
      /\ \A v \in Traders \ {u} : g[v] = f[v]
      /\ reserve[t] \in Nat /\ reserve'[t] \in Nat
  BY DEF TypeInv, TypeOK
<1>2. Total(t) = reserve[t] + SumFunction(f) /\ Total(t)' = reserve'[t] + SumFunction(g)
  BY DEF Total, Owned
<1> HIDE DEF f, g
<1>3. SumFunction(g) = SumFunction(f) - f[u] + g[u]
  BY <1>1, SumOfChanged, TradersAssumption
<1>4. SumFunction(f) \in Nat
  BY <1>1, SumOfNat, TradersAssumption
<1>5. f[u] \in Nat /\ g[u] \in Nat
  BY <1>1
<1> QED
  BY <1>1, <1>2, <1>3, <1>4, <1>5

LEMMA SwapKeepsTotals ==
  ASSUME TypeInv, TypeInv', NEW u \in Traders, NEW v \in Traders, NEW s \in Tokens,
         NEW amount \in Nat, NEW minimum, NEW host \in Hosts,
         Swap(u, v, s, amount, minimum, host), NEW t \in Tokens
  PROVE  Total(t)' = Total(t)
<1>1. PICK swapped, poolFee : /\ SwapOutcome(s, amount, swapped, poolFee)
                              /\ SwapSettles(u, v, s, swapped, poolFee)
  BY SwapHasOutcome
<1> DEFINE o == Other(s)
<1>2. /\ o \in Tokens /\ o # s /\ (t = s \/ t = o)
      /\ swapped.source \in Nat /\ swapped.destination \in Nat
      /\ reserve'[s] = reserve[s] + swapped.source
      /\ reserve'[o] = reserve[o] - swapped.destination
      /\ wallet' = [[wallet EXCEPT ![u][s] = @ - swapped.source]
                       EXCEPT ![v][o] = @ + swapped.destination]
  BY <1>1, OtherToken DEF SwapOutcome, SwapSettles
<1> HIDE DEF o
<1>3. /\ wallet'[u][s] = wallet[u][s] - swapped.source
      /\ \A w \in Traders \ {u} : wallet'[w][s] = wallet[w][s]
      /\ wallet'[v][o] = wallet[v][o] + swapped.destination
      /\ \A w \in Traders \ {v} : wallet'[w][o] = wallet[w][o]
  BY <1>2 DEF TypeInv, TypeOK
<1>4. /\ reserve'[s] + wallet'[u][s] = reserve[s] + wallet[u][s]
      /\ reserve'[o] + wallet'[v][o] = reserve[o] + wallet[v][o]
  BY <1>2, <1>3, StateNat
<1> QED
  BY <1>2, <1>3, <1>4, TotalKept

LEMMA DepositKeepsTotals ==
  ASSUME TypeInv, TypeInv', NEW u \in Traders, NEW destination \in LpAccounts,
         NEW poolTokens \in Nat, NEW maximum,
         DepositAllTokenTypes(u, destination, poolTokens, maximum), NEW t \in Tokens
  PROVE  Total(t)' = Total(t)
<1>1. PICK paid, minted, shares :
        /\ DepositOutcome(paid, minted, shares)
        /\ wallet' = [wallet EXCEPT ![u] = [x \in Tokens |-> @[x] - paid[x]]]
  BY DepositHasOutcome
<1>2. paid[t] \in Nat /\ reserve'[t] = reserve[t] + paid[t]
  BY <1>1 DEF DepositOutcome
<1>3. /\ wallet'[u][t] = wallet[u][t] - paid[t]
      /\ \A v \in Traders \ {u} : wallet'[v][t] = wallet[v][t]
  BY <1>1 DEF TypeInv, TypeOK
<1>4. reserve'[t] + wallet'[u][t] = reserve[t] + wallet[u][t]
  BY <1>2, <1>3, StateNat
<1> QED
  BY <1>3, <1>4, TotalKept

LEMMA WithdrawKeepsTotals ==
  ASSUME TypeInv, TypeInv', NEW source \in LpAccounts, NEW u \in Traders,
         NEW poolTokens \in Nat, NEW minimum,
         WithdrawAllTokenTypes(source, u, poolTokens, minimum), NEW t \in Tokens
  PROVE  Total(t)' = Total(t)
<1>1. PICK worth, burned :
        /\ WithdrawOutcome(worth, burned)
        /\ wallet' = [wallet EXCEPT ![u] =
                        [x \in Tokens |-> @[x] + Lesser(reserve[x], worth[x])]]
  BY WithdrawHasOutcome
<1> DEFINE received == Lesser(reserve[t], worth[t])
<1>2. received \in Nat /\ reserve'[t] = reserve[t] - received
  BY <1>1, StateNat DEF WithdrawOutcome, Lesser
<1>3. /\ wallet'[u][t] = wallet[u][t] + received
      /\ \A v \in Traders \ {u} : wallet'[v][t] = wallet[v][t]
  BY <1>1 DEF TypeInv, TypeOK
<1> HIDE DEF received
<1>4. reserve'[t] + wallet'[u][t] = reserve[t] + wallet[u][t]
  BY <1>2, <1>3, StateNat
<1> QED
  BY <1>3, <1>4, TotalKept

\* A step that leaves the accounts of both tokens alone.
LEMMA TotalsStay ==
  ASSUME TypeInv, UNCHANGED <<reserve, wallet>>, NEW t \in Tokens
  PROVE  Total(t)' = Total(t)
  BY DEF Total, Owned

LEMMA NextKeepsTotals ==
  ASSUME TypeInv, TypeInv', [Next]_vars, NEW t \in Tokens PROVE Total(t)' = Total(t)
<1>1. CASE Create
  BY <1>1, TotalsStay DEF Create, Initialize
<1>2. CASE Trade
  BY <1>2, SwapKeepsTotals DEF Trade
<1>3. CASE Join
  <2>1. PoolAmounts \subseteq Nat
    OBVIOUS
  <2> QED BY <1>3, <2>1, DepositKeepsTotals DEF Join
<1>4. CASE Exit
  <2>1. PoolAmounts \subseteq Nat
    OBVIOUS
  <2> QED BY <1>4, <2>1, WithdrawKeepsTotals DEF Exit
<1>5. CASE Send
  <2>1. PICK u \in Traders, s \in Tokens, n \in Amounts : SendToPool(u, s, n)
    BY <1>5 DEF Send
  <2>2. /\ \A v \in Traders \ {u} : wallet'[v][t] = wallet[v][t]
        /\ reserve'[t] + wallet'[u][t] = reserve[t] + wallet[u][t]
    BY <2>1, StateNat DEF SendToPool, TypeInv, TypeOK
  <2> QED BY <2>2, TotalKept
<1>6. CASE Burn
  BY <1>6, TotalsStay DEF Burn, BurnPoolTokens
<1>7. CASE UNCHANGED vars
  BY <1>7, TotalsStay DEF vars
<1> QED
  BY <1>1, <1>2, <1>3, <1>4, <1>5, <1>6, <1>7 DEF Next

\* A token account that can hold all there is has room for what is paid.
LEMMA RoomForPayments ==
  ASSUME TypeInv, NEW u \in Traders, NEW t \in Tokens, Total(t) <= U64Max
  PROVE  /\ \A n \in 0 .. reserve[t] : CanReceive(u, t, n)
         /\ \A n \in 0 .. wallet[u][t] : CanTakeIn(t, n)
<1> DEFINE f == [v \in Traders |-> wallet[v][t]]
<1>1. /\ f \in [Traders -> Nat] /\ f[u] = wallet[u][t]
      /\ reserve[t] \in Nat /\ wallet[u][t] \in Nat
  BY DEF TypeInv, TypeOK
<1>2. Total(t) = reserve[t] + SumFunction(f)
  BY DEF Total, Owned
<1> HIDE DEF f
<1>3. SumFunction(f) \in Nat /\ f[u] <= SumFunction(f)
  BY <1>1, SumOfNat, SumAtLeast, TradersAssumption
<1> QED
  BY <1>1, <1>2, <1>3 DEF CanReceive, CanTakeIn

\* At first the traders have it all.
LEMMA InitTotal == Init => \A t \in Tokens : Total(t) = Started(t)
<1> SUFFICES ASSUME Init, NEW t \in Tokens PROVE Total(t) = Started(t)
  OBVIOUS
<1> DEFINE f == [v \in Traders |-> wallet[v][t]]
<1>1. /\ StartWallet[t] \in Nat /\ f = [v \in Traders |-> StartWallet[t]]
      /\ reserve[t] = 0
  BY DEF Init
<1>2. Total(t) = reserve[t] + SumFunction(f)
  BY DEF Total, Owned
<1> HIDE DEF f
<1>3. SumFunction(f) = Started(t) /\ Started(t) \in Nat
  BY <1>1, SumOfConstant, TradersAssumption, FS_CardinalityType DEF Started
<1> QED
  BY <1>1, <1>2, <1>3

(***************************************************************************)
(* However many traders there are: swaps, deposits, withdrawals, gifts and *)
(* the fees of all of them create and lose no token.                       *)
(***************************************************************************)
THEOREM NoTokenIsLost == Spec => TokensConserved
<1>1. TypeInv /\ TypeInv' /\ [Next]_vars =>
        [\A t \in Tokens : Total(t)' = Total(t)]_vars
  BY NextKeepsTotals
<1>2. Spec => []TypeInv
  BY InitTypeInv, NextTypeInv, PTL DEF Spec
<1> QED
  BY <1>1, <1>2, PTL DEF Spec, TokensConserved

-----------------------------------------------------------------------------
(* The supply is what the pool token accounts hold.                        *)

SupplyInv == TypeInv /\ SupplyIsHeld

LEMMA LpAccountsFinite == IsFiniteSet(LpAccounts)
  BY FS_AddElement, TradersAssumption DEF LpAccounts

\* Account k gets m pool tokens and account l gets n; k and l may be one.
Moved(k, m, l, n) ==
  \A x \in LpAccounts :
    lp'[x] = lp[x] + (IF x = k THEN m ELSE 0) + (IF x = l THEN n ELSE 0)

\* Tokens minted, burned and paid in this way stay in the books.
LEMMA PoolTokensMove ==
  ASSUME SupplyInv, TypeInv', NEW k \in LpAccounts, NEW l \in LpAccounts,
         NEW m \in Int, NEW n \in Int, Moved(k, m, l, n),
         supply' = supply + m + n
  PROVE  SupplyIsHeld'
<1>1. /\ lp \in [LpAccounts -> Nat] /\ lp' \in [LpAccounts -> Nat]
      /\ supply = SumFunction(lp)
  BY DEF SupplyInv, SupplyIsHeld, TypeInv, TypeOK
<1>2. SumFunction(lp') = SumFunction(lp) + m + n
  <2>1. \A x \in LpAccounts :
          lp'[x] = lp[x] + (IF x = k THEN m ELSE 0) + (IF x = l THEN n ELSE 0)
    BY DEF Moved
  <2> QED BY <1>1, <2>1, SumOfMoved, LpAccountsFinite, SMTT(20)
<1> QED
  BY <1>1, <1>2 DEF SupplyIsHeld

LEMMA SwapHeld ==
  ASSUME SupplyInv, TypeInv', NEW u \in Traders, NEW v \in Traders, NEW t \in Tokens,
         NEW amount \in Nat, NEW minimum, NEW host \in Hosts,
         Swap(u, v, t, amount, minimum, host)
  PROVE  SupplyIsHeld'
<1>1. PICK swapped, poolFee : /\ SwapOutcome(t, amount, swapped, poolFee)
                              /\ SwapSettles(u, v, t, swapped, poolFee)
  BY SwapHasOutcome DEF SupplyInv
<1>2. poolFee \in Nat /\ supply' = supply + poolFee
  BY <1>1 DEF SwapOutcome
<1>3. PICK h \in LpAccounts, hostFee \in 0 .. poolFee :
        lp' = [[lp EXCEPT ![h] = @ + hostFee] EXCEPT ![FeeAccount] = @ + (poolFee - hostFee)]
  BY <1>1 DEF SwapSettles
<1>4. PICK rest \in Int : rest = poolFee - hostFee
  BY <1>2
<1>5. Moved(h, hostFee, FeeAccount, rest)
  <2>1. lp \in [LpAccounts -> Nat] /\ FeeAccount \in LpAccounts
    BY DEF SupplyInv, TypeInv, TypeOK, LpAccounts
  <2>2. CASE h = FeeAccount
    <3>1. /\ lp'[FeeAccount] = lp[FeeAccount] + hostFee + (poolFee - hostFee)
          /\ \A x \in LpAccounts \ {FeeAccount} : lp'[x] = lp[x]
      BY <1>2, <1>3, <2>1, <2>2
    <3> QED
      BY <1>2, <1>4, <2>1, <2>2, <3>1 DEF Moved
  <2>3. CASE h # FeeAccount
    BY <1>3, <1>4, <2>1, <2>3 DEF Moved
  <2> QED
    BY <2>2, <2>3
<1>6. /\ FeeAccount \in LpAccounts /\ hostFee \in Int
      /\ supply' = supply + hostFee + rest
  BY <1>2, <1>4, StateNat DEF SupplyInv, LpAccounts
<1> QED
  BY <1>5, <1>6, PoolTokensMove

LEMMA DepositHeld ==
  ASSUME SupplyInv, TypeInv', NEW u \in Traders, NEW destination \in LpAccounts,
         NEW poolTokens \in Nat, NEW maximum,
         DepositAllTokenTypes(u, destination, poolTokens, maximum)
  PROVE  SupplyIsHeld'
<1>1. PICK paid, minted, shares :
        /\ DepositOutcome(paid, minted, shares)
        /\ lp' = [lp EXCEPT ![destination] = @ + minted]
  BY DepositHasOutcome DEF SupplyInv
<1>2. minted \in Int /\ supply' = supply + minted + 0
  BY <1>1, StateNat DEF DepositOutcome, SupplyInv
<1>3. Moved(destination, minted, destination, 0)
  BY <1>1, <1>2 DEF Moved, SupplyInv, TypeInv, TypeOK
<1> QED
  BY <1>2, <1>3, PoolTokensMove

\* A withdrawal burns what source gives up but for the fee, which is paid on.
LEMMA WithdrawHeld ==
  ASSUME SupplyInv, TypeInv', NEW source \in LpAccounts, NEW u \in Traders,
         NEW poolTokens \in Nat, NEW minimum,
         WithdrawAllTokenTypes(source, u, poolTokens, minimum)
  PROVE  SupplyIsHeld'
<1>1. PICK worth, burned, fee :
        /\ WithdrawOutcome(worth, burned)
        /\ fee \in Nat /\ poolTokens = burned + fee
        /\ poolTokens <= lp[source]
        /\ lp' = [[lp EXCEPT ![source] = @ - poolTokens] EXCEPT ![FeeAccount] = @ + fee]
  BY WithdrawHasOutcome DEF SupplyInv
<1>2. burned \in Nat /\ supply' = supply - burned
  BY <1>1 DEF WithdrawOutcome
<1>3. PICK given \in Int : given = 0 - poolTokens
  OBVIOUS
<1>4. Moved(source, given, FeeAccount, fee)
  <2>1. lp \in [LpAccounts -> Nat] /\ FeeAccount \in LpAccounts
    BY DEF SupplyInv, TypeInv, TypeOK, LpAccounts
  <2>2. CASE source = FeeAccount
    BY <1>1, <1>3, <2>1, <2>2 DEF Moved
  <2>3. CASE source # FeeAccount
    BY <1>1, <1>3, <2>1, <2>3 DEF Moved
  <2> QED
    BY <2>2, <2>3
<1>5. /\ FeeAccount \in LpAccounts /\ fee \in Int
      /\ supply' = supply + given + fee
  BY <1>1, <1>2, <1>3, StateNat DEF SupplyInv, LpAccounts
<1> QED
  BY <1>4, <1>5, PoolTokensMove

LEMMA UnchangedHeld ==
  ASSUME SupplyInv, UNCHANGED <<supply, lp>> PROVE SupplyIsHeld'
  BY DEF SupplyInv, SupplyIsHeld

LEMMA InitSupplyInv == Init => SupplyInv
<1> SUFFICES ASSUME Init PROVE SupplyIsHeld
  BY InitTypeInv DEF SupplyInv
<1>1. lp \in [LpAccounts -> Nat] /\ supply = 0 /\ \A l \in LpAccounts : lp[l] = 0
  BY DEF Init
<1>2. SumFunction(lp) = 0
  BY <1>1, SumOfZeros, LpAccountsFinite
<1> QED
  BY <1>1, <1>2 DEF SupplyIsHeld

LEMMA NextSupplyInv == SupplyInv /\ [Next]_vars => SupplyInv'
<1> SUFFICES ASSUME SupplyInv, [Next]_vars, TypeInv' PROVE SupplyIsHeld'
  BY NextTypeInv DEF SupplyInv
<1>1. CASE Create
  <2>1. PICK c \in Curves, destination \in LpAccounts : Initialize(c, destination)
    BY <1>1 DEF Create
  <2>2. InitialSupply \in Int /\ supply' = supply + InitialSupply + 0
    BY <2>1 DEF Initialize
  <2>3. Moved(destination, InitialSupply, destination, 0)
    BY <2>1, <2>2 DEF Initialize, Moved, SupplyInv, TypeInv, TypeOK
  <2> QED BY <2>2, <2>3, PoolTokensMove
<1>2. CASE Trade
  BY <1>2, SwapHeld DEF Trade
<1>3. CASE Join
  <2>1. PoolAmounts \subseteq Nat
    OBVIOUS
  <2> QED BY <1>3, <2>1, DepositHeld DEF Join
<1>4. CASE Exit
  <2>1. PoolAmounts \subseteq Nat
    OBVIOUS
  <2> QED BY <1>4, <2>1, WithdrawHeld DEF Exit
<1>5. CASE Send
  BY <1>5, UnchangedHeld DEF Send, SendToPool
<1>6. CASE Burn
  <2>1. PICK l \in LpAccounts, n \in PoolAmounts : BurnPoolTokens(l, n)
    BY <1>6 DEF Burn
  <2>2. PICK burned \in Int : burned = 0 - n
    OBVIOUS
  <2>3. supply' = supply + burned + 0
    BY <2>1, <2>2, StateNat DEF BurnPoolTokens, SupplyInv
  <2>4. Moved(l, burned, l, 0)
    BY <2>1, <2>2 DEF BurnPoolTokens, Moved, SupplyInv, TypeInv, TypeOK
  <2> QED BY <2>3, <2>4, PoolTokensMove
<1>7. CASE UNCHANGED vars
  BY <1>7, UnchangedHeld DEF vars
<1> QED
  BY <1>1, <1>2, <1>3, <1>4, <1>5, <1>6, <1>7 DEF Next

(***************************************************************************)
(* The supply that prices every share is at all times the sum of the pool  *)
(* token accounts, whoever holds them and whatever fees they were minted   *)
(* for: no fee is minted twice, and none is burned without being held.     *)
(***************************************************************************)
THEOREM SupplyStaysHeld == Spec => []SupplyIsHeld
<1>1. SupplyInv => SupplyIsHeld
  BY DEF SupplyInv
<1> QED
  BY <1>1, InitSupplyInv, NextSupplyInv, PTL DEF Spec

=============================================================================
