-------------------------- MODULE SingleSidedProofs --------------------------
(***************************************************************************)
(* Proofs about the single-sided instructions, in either build, for every  *)
(* curve, all valid fees and all amounts.                                  *)
(***************************************************************************)
EXTENDS SingleSidedProperties, PoolSafetyProofs

USE SplMathAssumption, SwapPoolAssumption, SingleSidedAssumption

-----------------------------------------------------------------------------
(* Prices.                                                                 *)

\* The fee on half of an amount: at least one token, unless there is no such fee.
LEMMA HalfFee ==
  ASSUME NEW y \in Nat
  PROVE  LET half == IF y \div 2 > 1 THEN y \div 2 ELSE 1
         IN  /\ TradingFee(FEES, half) \in Nat
             /\ FEES.trade.num # 0 => TradingFee(FEES, half) >= 1
<1> DEFINE half == IF y \div 2 > 1 THEN y \div 2 ELSE 1
<1>1. half \in Nat /\ half # 0
  OBVIOUS
<1> HIDE DEF half
<1>2. TradingFee(FEES, half) \in Nat
  BY <1>1, FeeBounds DEF ValidFees, TradingFee
<1>3. ASSUME FEES.trade.num # 0 PROVE TradingFee(FEES, half) # 0
  BY <1>1, <1>3 DEF TradingFee, CalculateFee
<1> QED
  BY <1>2, <1>3 DEF half

\* What amount of token t is worth in token A.
Worth(t, amount) == IF t = "A" THEN amount ELSE amount * curve.parameter

(***************************************************************************)
(* The pool tokens earned by amount are naturals.  In a constant product   *)
(* pool they are at most those, e, that keep the product per pool token    *)
(* squared, up to the error of the root; in a constant price pool they are *)
(* at most the share that amount adds, or, if there is a trading fee, the  *)
(* share that one token A less would add.                                  *)
(***************************************************************************)
LEMMA EarnedBounds ==
  ASSUME TypeInv, Initialized, NEW t \in Tokens, NEW amount \in Nat, supply > 0,
         NEW minted \in SharesEarned(t, amount), minted > 0
  PROVE  /\ minted \in Nat
         /\ ByProduct => \E e \in Nat :
              /\ minted <= e + PreciseError
              /\ (supply + e) * (supply + e) * reserve[t]
                   <= supply * supply * (reserve[t] + amount)
         /\ ByPrice => minted * Value <= supply * Worth(t, amount)
         /\ ByPrice /\ FEES.trade.num # 0 =>
              minted * Value + supply <= supply * Worth(t, amount)
<1> DEFINE half  == IF amount \div 2 > 1 THEN amount \div 2 ELSE 1
           total == amount - TradingFee(FEES, half)
<1>1. /\ TradingFee(FEES, half) \in Nat
      /\ FEES.trade.num # 0 => TradingFee(FEES, half) >= 1
  BY HalfFee
<1>2. /\ curve \in SwapCurves /\ ValidCurve(curve)
      /\ reserve["A"] \in Nat /\ reserve["B"] \in Nat /\ supply \in Nat
  BY CurveKinds, StateNat
<1>3. minted \in DepositSingleExactIn(curve, FEES, amount, reserve["A"], reserve["B"],
                                      supply, Direction(t))
  BY DEF SharesEarned
<1>4. amount # 0 /\ total >= 0
  BY <1>3 DEF DepositSingleExactIn, Some, None, When
<1>5. total \in Nat /\ total <= amount /\ (FEES.trade.num # 0 => total + 1 <= amount)
  BY <1>1, <1>4
<1>6. CASE curve.type = "ConstantProduct"
  <2>1. minted \in ConstantProductDepositSingle(total, reserve[t], supply)
    BY <1>3, <1>4, <1>6 DEF DepositSingleExactIn, PoolTokensForExactIn, When, None,
                            Direction, Tokens
  <2> HIDE DEF total
  <2>2. PICK p \in SharesForExactIn(total, reserve[t], supply) : minted \in Imprecise(p)
    BY <2>1 DEF ConstantProductDepositSingle, When, None
  <2>3. p \in Nat /\ Earns(p, total, reserve[t], supply)
    BY <2>2 DEF SharesForExactIn
  <2>4. minted \in Nat /\ minted <= p + PreciseError
    BY <2>2, <2>3 DEF Imprecise
  <2>5. supply * supply * (reserve[t] + total) <= supply * supply * (reserve[t] + amount)
    <3> DEFINE s == supply * supply
               x == reserve[t] + total
               y == reserve[t] + amount
    <3>1. s \in Nat /\ x \in Nat /\ y \in Nat /\ x <= y
      BY <1>2, <1>5 DEF Tokens
    <3> HIDE DEF s, x, y
    <3>2. s * x <= s * y
      BY <3>1, ProductMonotone
    <3> QED BY <3>2 DEF s, x, y
  <2>6. /\ (supply + p) * (supply + p) * reserve[t] \in Nat
        /\ supply * supply * (reserve[t] + total) \in Nat
        /\ supply * supply * (reserve[t] + amount) \in Nat
    BY <1>2, <1>5, <2>3 DEF Tokens
  <2>7. (supply + p) * (supply + p) * reserve[t]
          <= supply * supply * (reserve[t] + amount)
    BY <2>3, <2>5, <2>6 DEF Earns
  <2> QED BY <1>6, <2>3, <2>4, <2>7 DEF ByPrice
<1>7. CASE curve.type = "ConstantPrice"
  <2> DEFINE price == curve.parameter
             given == IF Direction(t) = "AtoB" THEN total ELSE total * price
             all   == reserve["B"] * price + reserve["A"]
  <2>1. price \in Nat \ {0}
    BY <1>2, <1>7 DEF SwapCurves, ValidCurve
  <2>2. all > 0 /\ minted = (supply * given) \div all
    BY <1>3, <1>4, <1>7 DEF DepositSingleExactIn, PoolTokensForExactIn,
                            ConstantPriceDepositSingle, When, None, Some
  <2>3. given \in Nat /\ given <= Worth(t, amount) /\ Worth(t, amount) \in Nat
    <3> HIDE DEF total
    <3>1. total * price \in Nat /\ amount * price \in Nat
          /\ total * price <= amount * price
      BY <1>5, <2>1, ProductMonotone
    <3> QED BY <1>5, <2>1, <3>1 DEF Worth, Direction, Tokens
  <2>4. all \in Nat /\ all = Value
    BY <1>2, <2>1 DEF Value
  <2> HIDE DEF given, all, price
  <2>5. minted \in Nat /\ all * minted <= supply * given
    <3>1. supply * given \in Nat
      BY <1>2, <2>3
    <3> QED BY <2>2, <2>4, <3>1, DivBounds
  <2>6. supply * given <= supply * Worth(t, amount) /\ supply * Worth(t, amount) \in Nat
    BY <1>2, <2>3, ProductMonotone
  <2>7. minted * Value <= supply * Worth(t, amount)
    <3>1. minted * Value = all * minted
      BY <2>4, <2>5
    <3> QED BY <1>2, <2>3, <2>4, <2>5, <2>6, <3>1
  <2>8. ASSUME FEES.trade.num # 0
        PROVE  minted * Value + supply <= supply * Worth(t, amount)
    <3>1. given + 1 <= Worth(t, amount)
      <4> HIDE DEF total
      <4>1. (total + 1) * price <= amount * price /\ (total + 1) * price = total * price + price
        BY <1>5, <2>1, <2>8, ProductMonotone
      <4>2. total * price \in Nat /\ amount * price \in Nat
        BY <1>5, <2>1
      <4>3. total * price + 1 <= amount * price
        BY <2>1, <4>1, <4>2
      <4> QED BY <1>5, <2>8, <4>3 DEF Worth, Direction, Tokens, given, price
    <3>2. supply * (given + 1) <= supply * Worth(t, amount)
      BY <1>2, <2>3, <3>1, ProductMonotone
    <3>3. supply * (given + 1) = supply * given + supply /\ supply * given \in Nat
      BY <1>2, <2>3
    <3>4. minted * Value = all * minted /\ all * minted \in Nat
      BY <2>4, <2>5
    <3> QED BY <1>2, <2>5, <2>6, <3>2, <3>3, <3>4
  <2> QED BY <1>7, <2>5, <2>7, <2>8 DEF ByProduct
<1>8. CASE curve.type \in {"Stable", "Offset"}
  <2>1. minted \in PoolTokensForExactIn(curve, total, reserve["A"], reserve["B"], supply,
                                        Direction(t))
    BY <1>3, <1>4 DEF DepositSingleExactIn, When, None
  <2>2. minted \in Nat
    BY <1>8, <2>1, ExactInNat
  <2> QED BY <1>8, <2>2 DEF ByProduct, ByPrice
<1> QED
  BY <1>2, <1>6, <1>7, <1>8 DEF SwapCurves, CurveTypes

(***************************************************************************)
(* The pool tokens charged for amount are naturals, and at least those     *)
(* that keep the product per pool token squared, or the value per pool     *)
(* token, and then one token A more if there is a trading fee.             *)
(***************************************************************************)
LEMMA ChargedBounds ==
  ASSUME TypeInv, Initialized, NEW t \in Tokens, NEW amount \in Nat, supply > 0,
         NEW burned \in WithdrawSingleExactOut(curve, FEES, amount, reserve["A"],
                                               reserve["B"], supply, Direction(t)),
         burned > 0, amount <= reserve[t]
  PROVE  /\ ByProduct => \E e \in 0 .. supply :
              /\ e <= burned + PreciseError
              /\ (supply - e) * (supply - e) * reserve[t]
                   <= supply * supply * (reserve[t] - amount)
         /\ ByPrice => supply * Worth(t, amount) <= burned * Value
         /\ ByPrice /\ FEES.trade.num # 0 =>
              supply * Worth(t, amount) + supply <= burned * Value
<1> DEFINE half  == IF amount \div 2 > 1 THEN amount \div 2 ELSE 1
           total == amount + TradingFee(FEES, half)
<1>1. /\ TradingFee(FEES, half) \in Nat
      /\ FEES.trade.num # 0 => TradingFee(FEES, half) >= 1
  BY HalfFee
<1>2. /\ curve \in SwapCurves /\ ValidCurve(curve)
      /\ reserve["A"] \in Nat /\ reserve["B"] \in Nat /\ supply \in Nat
  BY CurveKinds, StateNat
<1>3. total \in Nat /\ amount <= total /\ (FEES.trade.num # 0 => amount + 1 <= total)
  BY <1>1
<1>4. amount # 0
  BY DEF WithdrawSingleExactOut, Some
<1>5. CASE curve.type = "ConstantProduct"
  <2>1. burned \in ConstantProductWithdrawSingle(total, reserve[t], supply)
    BY <1>4, <1>5 DEF WithdrawSingleExactOut, PoolTokensForExactOut, Direction, Tokens
  <2> HIDE DEF total
  <2>2. total <= reserve[t]
    BY <2>1 DEF ConstantProductWithdrawSingle, When, None
  <2>3. PICK p \in SharesForExactOut(total, reserve[t], supply) : burned \in Imprecise(p)
    BY <2>1 DEF ConstantProductWithdrawSingle, When, None
  <2>4. p \in 0 .. supply /\ Covers(p, total, reserve[t], supply)
    BY <2>3 DEF SharesForExactOut
  <2>5. p <= burned + PreciseError
    BY <2>3, <2>4 DEF Imprecise
  <2>6. supply * supply * (reserve[t] - total) <= supply * supply * (reserve[t] - amount)
    <3> DEFINE s == supply * supply
               x == reserve[t] - total
               y == reserve[t] - amount
    <3>1. s \in Nat /\ x \in Nat /\ y \in Nat /\ x <= y
      BY <1>2, <1>3, <2>2 DEF Tokens
    <3> HIDE DEF s, x, y
    <3>2. s * x <= s * y
      BY <3>1, ProductMonotone
    <3> QED BY <3>2 DEF s, x, y
  <2>7. /\ (supply - p) * (supply - p) * reserve[t] \in Int
        /\ supply * supply * (reserve[t] - total) \in Int
        /\ supply * supply * (reserve[t] - amount) \in Int
    BY <1>2, <1>3, <2>4 DEF Tokens
  <2>8. (supply - p) * (supply - p) * reserve[t]
          <= supply * supply * (reserve[t] - amount)
    BY <2>4, <2>6, <2>7 DEF Covers
  <2> QED BY <1>5, <2>4, <2>5, <2>8 DEF ByPrice
<1>6. CASE curve.type = "ConstantPrice"
  <2> DEFINE price == curve.parameter
             given == IF Direction(t) = "AtoB" THEN total ELSE total * price
             all   == reserve["B"] * price + reserve["A"]
  <2>1. price \in Nat \ {0}
    BY <1>2, <1>6 DEF SwapCurves, ValidCurve
  <2>2. burned \in CeilDivQuotients({supply * given}, all)
    BY <1>4, <1>6 DEF WithdrawSingleExactOut, PoolTokensForExactOut,
                      ConstantPriceWithdrawSingle
  <2>3. given \in Nat /\ Worth(t, amount) <= given /\ Worth(t, amount) \in Nat
    <3> HIDE DEF total
    <3>1. total * price \in Nat /\ amount * price \in Nat
          /\ amount * price <= total * price
      BY <1>3, <2>1, ProductMonotone
    <3> QED BY <1>3, <2>1, <3>1 DEF Worth, Direction, Tokens
  <2>4. all \in Nat /\ all = Value
    BY <1>2, <2>1 DEF Value
  <2> HIDE DEF given, all, price
  <2>5. supply * given \in Nat
    BY <1>2, <2>3
  <2>6. PICK c \in CheckedCeilDiv(supply * given, all) : burned = c.quotient
    BY <2>2 DEF CeilDivQuotients
  <2>7. burned \in Nat /\ supply * given <= all * burned
    <3>1. /\ c.quotient \in Nat /\ c.divisor \in Nat
          /\ supply * given >= all => /\ supply * given <= c.divisor * c.quotient
                                      /\ c.divisor <= all
          /\ supply * given < all => c.quotient \in {0, 1}
      BY <2>4, <2>5, <2>6, CheckedCeilDivBounds
    <3>2. c.divisor <= all => c.divisor * burned <= all * burned
      BY <2>4, <2>6, <3>1, ProductMonotone
    <3>3. /\ c.divisor * burned \in Nat /\ all * burned \in Nat
      BY <2>4, <2>6, <3>1
    <3>4. supply * given < all => burned = 1
      BY <2>6, <3>1
    <3> QED BY <2>4, <2>5, <2>6, <3>1, <3>2, <3>3, <3>4
  <2>8. supply * Worth(t, amount) <= supply * given /\ supply * Worth(t, amount) \in Nat
    BY <1>2, <2>3, ProductMonotone
  <2>9. supply * Worth(t, amount) <= burned * Value
    BY <1>2, <2>3, <2>4, <2>5, <2>7, <2>8
  <2>10. ASSUME FEES.trade.num # 0
         PROVE  supply * Worth(t, amount) + supply <= burned * Value
    <3>1. Worth(t, amount) + 1 <= given
      <4> HIDE DEF total
      <4>1. (amount + 1) * price <= total * price /\ (amount + 1) * price = amount * price + price
        BY <1>3, <2>1, <2>10, ProductMonotone
      <4>2. total * price \in Nat /\ amount * price \in Nat
        BY <1>3, <2>1
      <4>3. amount * price + 1 <= total * price
        BY <2>1, <4>1, <4>2
      <4> QED BY <1>3, <2>10, <4>3 DEF Worth, Direction, Tokens, given, price
    <3>2. supply * (Worth(t, amount) + 1) <= supply * given
      BY <1>2, <2>3, <3>1, ProductMonotone
    <3>3. supply * (Worth(t, amount) + 1) = supply * Worth(t, amount) + supply
      BY <1>2, <2>3
    <3>4. burned * Value = all * burned /\ all * burned \in Nat
      BY <2>4, <2>7
    <3> QED BY <1>2, <2>5, <2>7, <2>8, <3>2, <3>3, <3>4
  <2> QED BY <1>6, <2>9, <2>10 DEF ByProduct
<1> QED
  BY <1>5, <1>6 DEF ByProduct, ByPrice

-----------------------------------------------------------------------------
(* Type correctness.                                                       *)

LEMMA DepositSingleTypeInv ==
  ASSUME TypeInv, NEW u \in Traders, NEW destination \in LpAccounts, NEW t \in Tokens,
         NEW amount \in Amounts, NEW minimum,
         DepositSingle(u, destination, t, amount, minimum)
  PROVE  TypeInv'
<1>1. /\ CanPay(u, t, amount) /\ CanTakeIn(t, amount)
      /\ wallet' = [wallet EXCEPT ![u][t] = @ - amount]
      /\ reserve' = [reserve EXCEPT ![t] = @ + amount]
      /\ curve' = curve
  BY DEF DepositSingle
<1>2. PICK minted : /\ Mintable(minted)
                    /\ supply' = supply + minted
                    /\ lp' = [lp EXCEPT ![destination] = @ + minted]
                    /\ PoolTokensFit(lp')
  BY DEF DepositSingle
<1>3. reserve[t] + amount \in 0 .. U64Max /\ wallet[u][t] - amount \in 0 .. U64Max
  BY <1>1 DEF CanPay, CanTakeIn, TypeInv, TypeOK
<1>4. /\ reserve' \in [Tokens -> 0 .. U64Max]
      /\ wallet' \in [Traders -> [Tokens -> 0 .. U64Max]]
  BY <1>1, <1>3 DEF TypeInv, TypeOK
<1>5. supply' \in 0 .. U64Max /\ lp' \in [LpAccounts -> 0 .. U64Max]
  BY <1>2 DEF Mintable, IsU64, PoolTokensFit, TypeInv, TypeOK
<1> QED
  BY <1>1, <1>4, <1>5 DEF TypeInv, TypeOK, CurveOK, Initialized

LEMMA WithdrawSingleTypeInv ==
  ASSUME TypeInv, NEW source \in LpAccounts, NEW u \in Traders, NEW t \in Tokens,
         NEW amount \in Amounts, NEW maximum,
         WithdrawSingle(source, u, t, amount, maximum)
  PROVE  TypeInv'
<1>1. /\ Initialized
      /\ amount <= reserve[t] /\ CanReceive(u, t, amount)
      /\ reserve' = [reserve EXCEPT ![t] = @ - amount]
      /\ wallet' = [wallet EXCEPT ![u][t] = @ + amount]
      /\ curve' = curve
  BY DEF WithdrawSingle
<1>2. PICK burned, fee :
        /\ burned \in WithdrawSingleExactOut(curve, FEES, amount, reserve["A"], reserve["B"],
                                             supply, Direction(t))
        /\ burned <= supply
        /\ supply' = supply - burned
        /\ lp' = PoolTokensAfter(source, burned + fee, fee)
        /\ PoolTokensFit(lp')
  BY DEF WithdrawSingle
<1>3. reserve[t] - amount \in 0 .. U64Max /\ wallet[u][t] + amount \in 0 .. U64Max
  BY <1>1 DEF CanReceive, TypeInv, TypeOK
<1>4. /\ reserve' \in [Tokens -> 0 .. U64Max]
      /\ wallet' \in [Traders -> [Tokens -> 0 .. U64Max]]
  BY <1>1, <1>3 DEF TypeInv, TypeOK
<1>5. burned \in Nat
  <2>1. curve \in SwapCurves /\ ValidCurve(curve) /\ amount \in Nat
    BY <1>1, CurveKinds
  <2> QED BY <1>2, <2>1, ExactOutNat, StateNat, OtherToken
<1>6. supply' \in 0 .. U64Max
  BY <1>2, <1>5 DEF TypeInv, TypeOK
<1>7. lp' \in [LpAccounts -> 0 .. U64Max]
  BY <1>2 DEF PoolTokensAfter, IsU64, PoolTokensFit, TypeInv, TypeOK
<1> QED
  BY <1>1, <1>4, <1>6, <1>7 DEF TypeInv, TypeOK, CurveOK, Initialized

LEMMA SingleNextTypeInv == TypeInv /\ [SingleNext]_singleVars => TypeInv'
<1> SUFFICES ASSUME TypeInv, [SingleNext]_singleVars PROVE TypeInv'
  OBVIOUS
<1>1. UNCHANGED vars => TypeInv'
  BY NextTypeInv
<1>2. CASE JoinOnOneSide
  BY <1>1, <1>2, DepositSingleTypeInv DEF JoinOnOneSide, Executes
<1>3. CASE LeaveOnOneSide
  BY <1>1, <1>3, WithdrawSingleTypeInv DEF LeaveOnOneSide, Executes
<1>4. CASE Next
  BY <1>4, NextTypeInv
<1>5. CASE UNCHANGED singleVars
  BY <1>1, <1>5 DEF singleVars, vars
<1> QED
  BY <1>2, <1>3, <1>4, <1>5 DEF SingleNext, OneSided

LEMMA SingleTypeInvariant == SingleSpec => []TypeInv
<1>1. SingleInit => TypeInv
  BY InitTypeInv DEF SingleInit
<1> QED
  BY <1>1, SingleNextTypeInv, PTL DEF SingleSpec

(***************************************************************************)
(* With the single-sided instructions, too, every balance and the supply   *)
(* stay u64 amounts.                                                       *)
(***************************************************************************)
THEOREM SingleTypeCorrect == SingleSpec => []TypeOK
<1>1. TypeInv => TypeOK
  BY DEF TypeInv
<1> QED
  BY <1>1, SingleTypeInvariant, PTL

-----------------------------------------------------------------------------
(* Nothing is created or lost, with tokens or with pool tokens.            *)

\* The pool tokens earned are naturals, with no pool tokens outstanding too.
LEMMA SharesAreNat ==
  ASSUME TypeInv, Initialized, NEW t \in Tokens, NEW amount \in Nat,
         NEW minted \in SharesEarned(t, amount), 0 < minted
  PROVE  minted \in Nat
<1>1. CASE supply > 0
  BY <1>1, EarnedBounds
<1>2. CASE ~(supply > 0)
  BY <1>2 DEF SharesEarned, Some
<1> QED
  BY <1>1, <1>2

LEMMA DepositSingleKept ==
  ASSUME SupplyInv, NEW u \in Traders, NEW destination \in LpAccounts, NEW t \in Tokens,
         NEW amount \in Amounts, NEW minimum,
         DepositSingle(u, destination, t, amount, minimum)
  PROVE  /\ SupplyIsHeld'
         /\ \A s \in Tokens : Total(s)' = Total(s)
<1>1. /\ CanPay(u, t, amount)
      /\ wallet' = [wallet EXCEPT ![u][t] = @ - amount]
      /\ reserve' = [reserve EXCEPT ![t] = @ + amount]
  BY DEF DepositSingle
<1>2. PICK minted \in SharesEarned(t, amount) :
        /\ 0 < minted
        /\ supply' = supply + minted
        /\ lp' = [lp EXCEPT ![destination] = @ + minted]
  BY DEF DepositSingle
<1>3. TypeInv /\ TypeInv'
  BY DepositSingleTypeInv DEF SupplyInv
<1>4. minted \in Int
  BY <1>2, <1>3, StateNat, SharesAreNat DEF DepositSingle
<1>5. Moved(destination, minted, destination, 0)
  BY <1>2, <1>3, <1>4 DEF Moved, TypeInv, TypeOK
<1>6. supply' = supply + minted + 0
  BY <1>2, <1>3, <1>4, StateNat
<1>7. ASSUME NEW s \in Tokens PROVE Total(s)' = Total(s)
  <2>1. /\ \A v \in Traders \ {u} : wallet'[v][s] = wallet[v][s]
        /\ reserve'[s] + wallet'[u][s] = reserve[s] + wallet[u][s]
    BY <1>1, <1>3, StateNat DEF TypeInv, TypeOK
  <2> QED BY <1>3, <2>1, TotalKept
<1> QED
  BY <1>3, <1>4, <1>5, <1>6, <1>7, PoolTokensMove

LEMMA WithdrawSingleKept ==
  ASSUME SupplyInv, NEW source \in LpAccounts, NEW u \in Traders, NEW t \in Tokens,
         NEW amount \in Amounts, NEW maximum,
         WithdrawSingle(source, u, t, amount, maximum)
  PROVE  /\ SupplyIsHeld'
         /\ \A s \in Tokens : Total(s)' = Total(s)
<1>1. /\ Initialized
      /\ amount <= reserve[t]
      /\ wallet' = [wallet EXCEPT ![u][t] = @ + amount]
      /\ reserve' = [reserve EXCEPT ![t] = @ - amount]
  BY DEF WithdrawSingle
<1>2. PICK burned \in WithdrawSingleExactOut(curve, FEES, amount, reserve["A"],
                                             reserve["B"], supply, Direction(t)) :
        LET fee == WithdrawFee(source, burned)
        IN  /\ supply' = supply - burned
            /\ lp' = PoolTokensAfter(source, burned + fee, fee)
  BY DEF WithdrawSingle
<1>3. TypeInv /\ TypeInv'
  BY WithdrawSingleTypeInv DEF SupplyInv
<1>4. burned \in Nat
  <2>1. curve \in SwapCurves /\ ValidCurve(curve) /\ amount \in Nat
    BY <1>1, <1>3, CurveKinds
  <2> QED BY <1>2, <1>3, <2>1, ExactOutNat, StateNat, OtherToken
<1>5. PICK fee \in Nat : lp' = PoolTokensAfter(source, burned + fee, fee)
  BY <1>2, <1>4, FeeBounds DEF WithdrawFee, OwnerWithdrawFee, ValidFees
<1>6. PICK given \in Int : given = 0 - (burned + fee)
  BY <1>4
<1>7. Moved(source, given, FeeAccount, fee)
  <2>1. lp \in [LpAccounts -> Nat] /\ FeeAccount \in LpAccounts
    BY <1>3 DEF TypeInv, TypeOK, LpAccounts
  <2>2. lp' = [[lp EXCEPT ![source] = @ - (burned + fee)] EXCEPT ![FeeAccount] = @ + fee]
    BY <1>5 DEF PoolTokensAfter
  <2>3. CASE source = FeeAccount
    BY <1>4, <1>6, <2>1, <2>2, <2>3 DEF Moved
  <2>4. CASE source # FeeAccount
    BY <1>4, <1>6, <2>1, <2>2, <2>4 DEF Moved
  <2> QED
    BY <2>3, <2>4
<1>8. FeeAccount \in LpAccounts /\ fee \in Int /\ supply' = supply + given + fee
  BY <1>2, <1>3, <1>4, <1>6, StateNat DEF LpAccounts
<1>9. ASSUME NEW s \in Tokens PROVE Total(s)' = Total(s)
  <2>1. /\ \A v \in Traders \ {u} : wallet'[v][s] = wallet[v][s]
        /\ reserve'[s] + wallet'[u][s] = reserve[s] + wallet[u][s]
    BY <1>1, <1>3, StateNat DEF TypeInv, TypeOK
  <2> QED BY <1>3, <2>1, TotalKept
<1> QED
  BY <1>3, <1>7, <1>8, <1>9, PoolTokensMove

LEMMA SingleNextKept ==
  ASSUME SupplyInv, [SingleNext]_singleVars
  PROVE  /\ SupplyInv'
         /\ \A t \in Tokens : Total(t)' = Total(t)
<1>1. TypeInv /\ TypeInv'
  BY SingleNextTypeInv DEF SupplyInv
<1>2. CASE [Next]_vars
  BY <1>1, <1>2, NextSupplyInv, NextKeepsTotals
<1>3. CASE LocalhostBuild /\ JoinOnOneSide
  BY <1>1, <1>3, DepositSingleKept DEF JoinOnOneSide, Executes, SupplyInv
<1>4. CASE LocalhostBuild /\ LeaveOnOneSide
  BY <1>1, <1>4, WithdrawSingleKept DEF LeaveOnOneSide, Executes, SupplyInv
<1>5. CASE UNCHANGED vars
  BY <1>2, <1>5
<1>6. UNCHANGED singleVars => UNCHANGED vars
  BY DEF singleVars, vars
<1> QED
  BY <1>2, <1>3, <1>4, <1>5, <1>6
     DEF SingleNext, OneSided, JoinOnOneSide, LeaveOnOneSide, Executes

(***************************************************************************)
(* The single-sided instructions keep the books too: what they mint is     *)
(* held, and what they burn was, the withdraw fee included.                *)
(***************************************************************************)
THEOREM SingleSupplyStaysHeld == SingleSpec => []SupplyIsHeld
<1>1. SingleInit => SupplyInv
  BY InitSupplyInv DEF SingleInit
<1>2. SupplyInv /\ [SingleNext]_singleVars => SupplyInv'
  BY SingleNextKept
<1>3. SupplyInv => SupplyIsHeld
  BY DEF SupplyInv
<1> QED
  BY <1>1, <1>2, <1>3, PTL DEF SingleSpec

\* They move tokens between the pool and one trader, and create or lose none.
THEOREM SingleNoTokenIsLost == SingleSpec => TokensConserved
<1>1. SingleInit => SupplyInv
  BY InitSupplyInv DEF SingleInit
<1>2. SupplyInv /\ [SingleNext]_singleVars => SupplyInv'
  BY SingleNextKept
<1>3. SupplyInv /\ [SingleNext]_singleVars =>
        [\A t \in Tokens : Total(t)' = Total(t)]_vars
  BY SingleNextKept
<1> QED
  BY <1>1, <1>2, <1>3, PTL DEF SingleSpec, TokensConserved

-----------------------------------------------------------------------------
(* Those who stay lose nothing.                                            *)

\* What a single-sided instruction does, in either build.
DepositStep(t, amount) ==
  /\ amount \in Nat /\ Initialized
  /\ reserve' = [reserve EXCEPT ![t] = @ + amount]
  /\ \E minted \in SharesEarned(t, amount) : minted > 0 /\ supply' = supply + minted

WithdrawStep(t, amount) ==
  /\ amount \in Nat /\ amount <= reserve[t] /\ Initialized
  /\ reserve' = [reserve EXCEPT ![t] = @ - amount]
  /\ \E burned \in WithdrawSingleExactOut(curve, FEES, amount, reserve["A"],
                                          reserve["B"], supply, Direction(t)) :
       burned > 0 /\ burned <= supply /\ supply' = supply - burned

LEMMA OneSidedSteps ==
  ASSUME TypeInv, OneSided
  PROVE  /\ curve' = curve
         /\ \/ reserve' = reserve /\ supply' = supply
            \/ \E t \in Tokens, amount \in Amounts :
                 DepositStep(t, amount) \/ WithdrawStep(t, amount)
<1>1. CASE ~LocalhostBuild
  BY <1>1 DEF OneSided, JoinOnOneSide, LeaveOnOneSide, Executes, vars
<1>2. CASE LocalhostBuild /\ JoinOnOneSide
  <2>1. PICK u \in Traders, destination \in LpAccounts, t \in Tokens, amount \in Amounts,
             minimum \in Limits : DepositSingle(u, destination, t, amount, minimum)
    BY <1>2 DEF JoinOnOneSide, Executes
  <2>2. DepositStep(t, amount) /\ curve' = curve
    BY <2>1 DEF DepositSingle, DepositStep
  <2> QED BY <2>2
<1>3. CASE LocalhostBuild /\ LeaveOnOneSide
  <2>1. PICK source \in LpAccounts, u \in Traders, t \in Tokens, amount \in Amounts,
             maximum \in Limits : WithdrawSingle(source, u, t, amount, maximum)
    BY <1>3 DEF LeaveOnOneSide, Executes
  <2>2. PICK burned \in WithdrawSingleExactOut(curve, FEES, amount, reserve["A"],
                                               reserve["B"], supply, Direction(t)) :
          /\ 0 < burned + WithdrawFee(source, burned)
          /\ burned <= supply /\ supply' = supply - burned
    BY <2>1 DEF WithdrawSingle
  <2>3. Initialized /\ amount \in Nat
    BY <2>1 DEF WithdrawSingle
  <2>4. burned \in Nat
    BY <2>2, <2>3, ExactOutNat, StateNat, OtherToken, CurveKinds
  <2>5. burned > 0
    <3>1. burned = 0 => WithdrawFee(source, burned) = 0
      BY DEF WithdrawFee, OwnerWithdrawFee, CalculateFee
    <3> QED BY <2>2, <2>4, <3>1
  <2>6. WithdrawStep(t, amount) /\ curve' = curve
    BY <2>1, <2>2, <2>3, <2>5 DEF WithdrawSingle, WithdrawStep
  <2> QED BY <2>6
<1> QED
  BY <1>1, <1>2, <1>3 DEF OneSided

\* Products scaled by squares.
LEMMA ScaledProduct ==
  ASSUME NEW s \in Nat, NEW f \in Nat, NEW g \in Nat, f <= g,
         NEW R \in Nat, NEW N \in Nat, NEW O \in Nat,
         g * g * R <= s * s * N
  PROVE  R * O * f * f <= N * O * s * s
<1>1. f * f <= g * g /\ f * f \in Nat /\ g * g \in Nat /\ s * s \in Nat
  BY ProductMonotone
<1> DEFINE ff == f * f
           gg == g * g
           ss == s * s
<1>2. /\ ff \in Nat /\ gg \in Nat /\ ss \in Nat /\ ff <= gg
      /\ gg * R <= ss * N
  BY <1>1
<1>3. R * O * f * f = (ff * R) * O /\ N * O * s * s = (ss * N) * O
  OBVIOUS
<1> HIDE DEF ff, gg, ss
<1>4. ff * R <= gg * R /\ ff * R \in Nat /\ gg * R \in Nat /\ ss * N \in Nat
  BY <1>2, ProductMonotone
<1>5. ff * R <= ss * N
  BY <1>2, <1>4
<1>6. (ff * R) * O <= (ss * N) * O
  BY <1>4, <1>5, ProductMonotone
<1> QED
  BY <1>3, <1>6

\* The product of the reserves, seen from token t.
LEMMA ProductFrom ==
  ASSUME TypeInv, TypeInv', NEW t \in Tokens
  PROVE  Product = reserve[t] * reserve[Other(t)] /\ Product' = reserve'[t] * reserve'[Other(t)]
  BY StateNat DEF Product, Tokens, Other, TypeInv, TypeOK

LEMMA RootStep ==
  ASSUME TypeInv, TypeInv', OneSided, ByProduct, supply > 0, supply' - PreciseError > 0
  PROVE  Product * (supply' - PreciseError) * (supply' - PreciseError)
           <= Product' * supply * supply
<1> DEFINE fair == supply' - PreciseError
<1>1. fair \in Nat /\ supply \in Nat
  <2>1. supply \in Nat /\ supply' \in Nat /\ PreciseError \in Nat
    BY DEF TypeInv, TypeOK
  <2>2. \A x, y \in Nat : x - y > 0 => x - y \in Nat
    OBVIOUS
  <2>3. fair > 0
    OBVIOUS
  <2> QED BY <2>1, <2>2, <2>3
<1>2. CASE reserve' = reserve /\ supply' = supply
  <2>1. reserve["A"] \in Nat /\ reserve["B"] \in Nat /\ fair <= supply
    BY <1>1, <1>2, StateNat
  <2>2. supply * supply * reserve["A"] <= supply * supply * reserve["A"]
    BY <1>1, <2>1
  <2>3. reserve["A"] * reserve["B"] * fair * fair
          <= reserve["A"] * reserve["B"] * supply * supply
    <3> HIDE DEF fair
    <3> QED BY <1>1, <2>1, <2>2, ScaledProduct
  <2>4. Product = reserve["A"] * reserve["B"] /\ Product' = reserve["A"] * reserve["B"]
    BY <1>2 DEF Product
  <2> QED BY <2>3, <2>4
<1>3. ASSUME NEW t \in Tokens, NEW amount \in Amounts,
             DepositStep(t, amount) \/ WithdrawStep(t, amount)
      PROVE  Product * fair * fair <= Product' * supply * supply
  <2> DEFINE o == Other(t)
  <2>1. reserve[t] \in Nat /\ reserve[o] \in Nat /\ reserve'[t] \in Nat
    BY StateNat, OtherToken DEF TypeInv, TypeOK
  <2>2. \E g \in Nat : fair <= g /\ g * g * reserve[t] <= supply * supply * reserve'[t]
    <3>1. CASE DepositStep(t, amount)
      <4>1. PICK minted \in SharesEarned(t, amount) : minted > 0 /\ supply' = supply + minted
        BY <3>1 DEF DepositStep
      <4>2. PICK e \in Nat :
              /\ minted \in Nat /\ minted <= e + PreciseError
              /\ (supply + e) * (supply + e) * reserve[t]
                   <= supply * supply * (reserve[t] + amount)
        BY <3>1, <4>1, EarnedBounds DEF DepositStep
      <4>3. reserve'[t] = reserve[t] + amount
        BY <3>1 DEF DepositStep, TypeInv, TypeOK
      <4>4. supply + e \in Nat /\ fair <= supply + e
        BY <1>1, <4>1, <4>2
      <4> QED BY <4>2, <4>3, <4>4
    <3>2. CASE WithdrawStep(t, amount)
      <4>1. PICK burned \in WithdrawSingleExactOut(curve, FEES, amount, reserve["A"],
                                                   reserve["B"], supply, Direction(t)) :
              burned > 0 /\ supply' = supply - burned
        BY <3>2 DEF WithdrawStep
      <4>2. PICK e \in 0 .. supply :
              /\ e <= burned + PreciseError
              /\ (supply - e) * (supply - e) * reserve[t]
                   <= supply * supply * (reserve[t] - amount)
        BY <3>2, <4>1, ChargedBounds DEF WithdrawStep
      <4>3. reserve'[t] = reserve[t] - amount
        BY <3>2 DEF WithdrawStep, TypeInv, TypeOK
      <4>4. burned \in Nat
        BY <3>2, <4>1, ExactOutNat, StateNat, OtherToken, CurveKinds DEF WithdrawStep
      <4>5. supply - e \in Nat /\ fair <= supply - e
        BY <1>1, <4>1, <4>2, <4>4
      <4> QED BY <4>2, <4>3, <4>5
    <3> QED BY <1>3, <3>1, <3>2
  <2>3. PICK g \in Nat : fair <= g /\ g * g * reserve[t] <= supply * supply * reserve'[t]
    BY <2>2
  <2>4. reserve'[o] = reserve[o]
    BY <1>3, OtherToken DEF DepositStep, WithdrawStep, TypeInv, TypeOK
  <2> HIDE DEF fair, o
  <2>5. reserve[t] * reserve[o] * fair * fair <= reserve'[t] * reserve[o] * supply * supply
    BY <1>1, <2>1, <2>3, ScaledProduct
  <2>6. Product = reserve[t] * reserve[o] /\ Product' = reserve'[t] * reserve[o]
    BY <2>4, ProductFrom DEF o
  <2> QED BY <2>5, <2>6
<1> QED
  BY <1>2, <1>3, OneSidedSteps

(***************************************************************************)
(* A single-sided step never lowers what a pool token is worth in a        *)
(* constant product pool, up to the error of the square root.              *)
(***************************************************************************)
THEOREM OneSidedStepsKeepRoot == SingleSpec => OneSidedKeepsRoot
<1>1. TypeInv /\ TypeInv' /\ [SingleNext]_singleVars
        => [LET fair == supply' - PreciseError
            IN  ByProduct /\ supply > 0 /\ IsOneSided /\ fair > 0 =>
                  Product * fair * fair <= Product' * supply * supply]_singleVars
  BY RootStep DEF SingleNext, IsOneSided
<1> QED
  BY <1>1, SingleTypeInvariant, PTL DEF SingleSpec, OneSidedKeepsRoot

(***************************************************************************)
(* A pool whose value grows by w for m pool tokens, which a trading fee    *)
(* makes less than their share by one token A: the halved value per pool   *)
(* token does not fall either, and rises when the value was odd and is     *)
(* even.                                                                   *)
(***************************************************************************)
LEMMA HalfKeepsUpIn ==
  ASSUME NEW v \in Nat, NEW w \in Nat, NEW s \in Nat \ {0}, NEW m \in Nat,
         m * v + s <= s * w
  PROVE  (v \div 2) * (s + m) + Gained(v, v + w) <= ((v + w) \div 2) * s
<1> DEFINE h == v \div 2
           g == (v + w) \div 2
           r == v % 2
           q == (v + w) % 2
           e == Gained(v, v + w)
<1>1. /\ h \in Nat /\ g \in Nat /\ r \in {0, 1} /\ q \in {0, 1}
      /\ v = 2 * h + r /\ v + w = 2 * g + q /\ h <= g
  OBVIOUS
<1>2. e = IF r = 1 /\ q = 0 THEN 1 ELSE 0
  BY DEF Gained
<1> HIDE DEF h, g, r, q, e
<1> DEFINE k == g - h
<1>3. k \in Nat /\ g = h + k /\ w = 2 * k + q - r
  BY <1>1
<1> HIDE DEF k
<1>4. m * v = 2 * (h * m) + r * m /\ s * w = 2 * (k * s) + q * s - r * s
  <2>1. m * (2 * h + r) = 2 * (h * m) + r * m
    BY <1>1
  <2>2. s * (2 * k + q - r) = 2 * (k * s) + q * s - r * s
    BY <1>1, <1>3
  <2> QED BY <1>1, <1>3, <2>1, <2>2
<1>5. h * (s + m) = h * s + h * m /\ g * s = h * s + k * s
  BY <1>1, <1>3
<1>6. h * s \in Nat /\ h * m \in Nat /\ k * s \in Nat
  BY <1>1, <1>3
<1>7. h * m + e <= k * s
  BY <1>1, <1>2, <1>4, <1>6
<1>8. e \in Nat
  BY <1>2
<1> QED
  BY <1>5, <1>6, <1>7, <1>8 DEF h, g, e

\* The same for a pool that pays w, and one token A less than the share of n.
LEMMA HalfKeepsUpOut ==
  ASSUME NEW v \in Nat, NEW w \in 0 .. v, NEW s \in Nat \ {0}, NEW n \in 0 .. s,
         s * w + s <= n * v
  PROVE  (v \div 2) * (s - n) + Gained(v, v - w) <= ((v - w) \div 2) * s
<1> DEFINE h == v \div 2
           g == (v - w) \div 2
           r == v % 2
           q == (v - w) % 2
           e == Gained(v, v - w)
<1>1. /\ h \in Nat /\ g \in Nat /\ r \in {0, 1} /\ q \in {0, 1}
      /\ v = 2 * h + r /\ v - w = 2 * g + q /\ g <= h
  OBVIOUS
<1>2. e = IF r = 1 /\ q = 0 THEN 1 ELSE 0
  BY DEF Gained
<1> HIDE DEF h, g, r, q, e
<1> DEFINE k == h - g
           z == s - n
<1>3. k \in Nat /\ h = g + k /\ w = 2 * k + r - q /\ z \in Nat /\ s = z + n
  BY <1>1
<1> HIDE DEF k, z
<1>4. n * v = 2 * (h * n) + r * n /\ s * w = 2 * (k * s) + r * s - q * s
  <2>1. n * (2 * h + r) = 2 * (h * n) + r * n
    BY <1>1
  <2>2. s * (2 * k + r - q) = 2 * (k * s) + r * s - q * s
    BY <1>1, <1>3
  <2> QED BY <1>1, <1>3, <2>1, <2>2
<1>5. h * s = h * z + h * n /\ h * s = g * s + k * s
  <2>1. h * (z + n) = h * z + h * n /\ (g + k) * s = g * s + k * s
    BY <1>1, <1>3
  <2> QED BY <1>3, <2>1
<1>6. h * z \in Nat /\ h * n \in Nat /\ k * s \in Nat /\ g * s \in Nat
  BY <1>1, <1>3
<1>7. k * s + e <= h * n
  BY <1>1, <1>2, <1>4, <1>6
<1>8. e \in Nat
  BY <1>2
<1>9. h * z + e <= g * s
  BY <1>5, <1>6, <1>7, <1>8
<1> QED
  BY <1>9 DEF h, g, e, z

\* The value of the pool and half of it after a step.
LEMMA NextValueNat ==
  ASSUME TypeInv', ByPrice'
  PROVE  Value' \in Nat /\ HalfValue' \in Nat /\ HalfValue' = Value' \div 2
<1>1. curve'.parameter \in Nat /\ reserve'["A"] \in Nat /\ reserve'["B"] \in Nat
  BY DEF ByPrice, SwapCurves, TypeInv, TypeOK, Tokens, NoCurve
<1> DEFINE v == Value'
<1>2. v \in Nat /\ v = reserve'["A"] + reserve'["B"] * curve'.parameter
  BY <1>1 DEF Value
<1> HIDE DEF v
<1>3. HalfValue' = v \div 2
  BY <1>2 DEF HalfValue, ConstantPriceValue
<1> QED
  BY <1>2, <1>3, DivBounds DEF v

(***************************************************************************)
(* The value of the reserves changes by the worth of what is paid or       *)
(* taken.  With a trading fee its half keeps up as well.                   *)
(***************************************************************************)
LEMMA OneSidedValue ==
  ASSUME TypeInv, TypeInv', ByPrice, curve' = curve, supply > 0,
         NEW t \in Tokens, NEW amount \in Nat,
         DepositStep(t, amount) \/ WithdrawStep(t, amount)
  PROVE  /\ Value * supply' <= Value' * supply
         /\ FEES.trade.num # 0 =>
              /\ HalfValue * supply' <= HalfValue' * supply
              /\ HalfValue * supply' + Gained(Value, Value') <= HalfValue' * supply
<1>1. /\ curve.parameter \in Nat
      /\ reserve["A"] \in Nat /\ reserve["B"] \in Nat /\ supply \in Nat \ {0}
  BY CurveKinds, StateNat DEF SwapCurves, ByPrice
<1> DEFINE v == Value
           w == Worth(t, amount)
<1>2. v \in Nat /\ w \in Nat
  BY <1>1 DEF Value, Worth
<1>3. HalfValue = v \div 2 /\ HalfValue' = Value' \div 2
  <2>1. ByPrice'
    BY DEF ByPrice
  <2> QED BY <2>1, ValueNat, NextValueNat
<1>4. ASSUME DepositStep(t, amount)
      PROVE  /\ Value * supply' <= Value' * supply
             /\ FEES.trade.num # 0 =>
                  HalfValue * supply' + Gained(Value, Value') <= HalfValue' * supply
  <2>1. PICK minted \in SharesEarned(t, amount) : minted > 0 /\ supply' = supply + minted
    BY <1>4 DEF DepositStep
  <2>2. /\ minted \in Nat /\ minted * v <= supply * w
        /\ FEES.trade.num # 0 => minted * v + supply <= supply * w
    BY <1>4, <2>1, EarnedBounds DEF DepositStep
  <2>3. Value' = v + w
    BY <1>1, <1>4 DEF Value, Worth, DepositStep, TypeInv, TypeOK, Tokens
  <2> HIDE DEF v, w
  <2>4. v * (supply + minted) = v * supply + minted * v
        /\ (v + w) * supply = v * supply + supply * w
    BY <1>1, <1>2, <2>2
  <2>5. v * supply \in Nat /\ minted * v \in Nat /\ supply * w \in Nat
    BY <1>1, <1>2, <2>2
  <2>6. v * supply' <= Value' * supply
    BY <2>1, <2>2, <2>3, <2>4, <2>5
  <2>7. ASSUME FEES.trade.num # 0
        PROVE  (v \div 2) * supply' + Gained(v, Value') <= (Value' \div 2) * supply
    BY <1>1, <1>2, <2>1, <2>2, <2>3, <2>7, HalfKeepsUpIn
  <2> QED BY <1>3, <2>6, <2>7 DEF v
<1>5. ASSUME WithdrawStep(t, amount)
      PROVE  /\ Value * supply' <= Value' * supply
             /\ FEES.trade.num # 0 =>
                  HalfValue * supply' + Gained(Value, Value') <= HalfValue' * supply
  <2>1. PICK burned \in WithdrawSingleExactOut(curve, FEES, amount, reserve["A"],
                                               reserve["B"], supply, Direction(t)) :
          burned > 0 /\ burned <= supply /\ supply' = supply - burned
    BY <1>5 DEF WithdrawStep
  <2>2. /\ supply * w <= burned * v
        /\ FEES.trade.num # 0 => supply * w + supply <= burned * v
    BY <1>5, <2>1, ChargedBounds DEF WithdrawStep
  <2>3. burned \in 0 .. supply
    <3>1. burned \in Nat
      BY <1>5, <2>1, ExactOutNat, StateNat, OtherToken, CurveKinds DEF WithdrawStep
    <3> QED BY <1>1, <2>1, <3>1
  <2>4. Value' = v - w /\ w <= v
    <3>1. amount <= reserve[t]
      BY <1>5 DEF WithdrawStep
    <3>2. w <= v
      <4>1. amount * curve.parameter \in Nat /\ reserve["B"] * curve.parameter \in Nat
        BY <1>1
      <4>2. t = "B" => amount * curve.parameter <= reserve["B"] * curve.parameter
        BY <1>1, <3>1, ProductMonotone
      <4> QED BY <1>1, <3>1, <4>1, <4>2 DEF Worth, Value, Tokens
    <3> QED
      BY <1>1, <1>5, <3>2 DEF Value, Worth, WithdrawStep, TypeInv, TypeOK, Tokens
  <2> HIDE DEF v, w
  <2>5. v * (supply - burned) = v * supply - burned * v
        /\ (v - w) * supply = v * supply - supply * w
    BY <1>1, <1>2, <2>3
  <2>6. v * supply \in Nat /\ burned * v \in Nat /\ supply * w \in Nat
    BY <1>1, <1>2, <2>3
  <2>7. v * supply' <= Value' * supply
    BY <2>1, <2>2, <2>4, <2>5, <2>6
  <2>8. ASSUME FEES.trade.num # 0
        PROVE  (v \div 2) * supply' + Gained(v, Value') <= (Value' \div 2) * supply
    <3>1. w \in 0 .. v
      BY <1>2, <2>4
    <3> QED BY <1>1, <1>2, <2>1, <2>2, <2>3, <2>4, <2>8, <3>1, HalfKeepsUpOut
  <2> QED BY <1>3, <2>7, <2>8 DEF v
<1>6. /\ Value * supply' <= Value' * supply
      /\ FEES.trade.num # 0 =>
           HalfValue * supply' + Gained(Value, Value') <= HalfValue' * supply
  BY <1>4, <1>5
<1>7. HalfValue * supply' \in Nat /\ HalfValue' * supply \in Nat
  <2>1. HalfValue \in Nat /\ HalfValue' \in Nat /\ supply' \in Nat
    BY <1>2, ValueNat, NextValueNat DEF ByPrice, TypeInv, TypeOK
  <2>2. \A m, n \in Nat : m * n \in Nat
    OBVIOUS
  <2> QED BY <1>1, <2>1, <2>2
<1>8. Gained(Value, Value') \in {0, 1}
  BY DEF Gained
<1>9. ASSUME FEES.trade.num # 0
      PROVE  HalfValue * supply' <= HalfValue' * supply
  <2> DEFINE l == HalfValue * supply'
             r == HalfValue' * supply
             e == Gained(Value, Value')
  <2>1. l \in Nat /\ r \in Nat /\ e \in {0, 1} /\ l + e <= r
    BY <1>6, <1>7, <1>8, <1>9
  <2> HIDE DEF l, r, e
  <2>2. l <= r
    BY <2>1
  <2> QED BY <2>2 DEF l, r
<1> QED
  BY <1>6, <1>9

LEMMA ValueStep ==
  ASSUME TypeInv, TypeInv', OneSided, ByPrice, supply > 0
  PROVE  Value * supply' <= Value' * supply
<1>1. /\ curve.parameter \in Nat /\ curve' = curve
      /\ reserve["A"] \in Nat /\ reserve["B"] \in Nat /\ supply \in Nat
  BY CurveKinds, StateNat, OneSidedSteps DEF SwapCurves, ByPrice
<1>2. CASE reserve' = reserve /\ supply' = supply
  <2>1. Value \in Nat /\ Value' = Value
    BY <1>1, <1>2 DEF Value
  <2> QED BY <1>1, <1>2, <2>1
<1>3. ASSUME NEW t \in Tokens, NEW amount \in Amounts,
             DepositStep(t, amount) \/ WithdrawStep(t, amount)
      PROVE  Value * supply' <= Value' * supply
  <2>1. amount \in Nat
    OBVIOUS
  <2> QED BY <1>1, <1>3, <2>1, OneSidedValue
<1> QED
  BY <1>2, <1>3, OneSidedSteps

(***************************************************************************)
(* A single-sided step never lowers the value per pool token of a constant *)
(* price pool.                                                             *)
(***************************************************************************)
THEOREM OneSidedStepsKeepValue == SingleSpec => OneSidedKeepsValue
<1>1. TypeInv /\ TypeInv' /\ [SingleNext]_singleVars
        => [ByPrice /\ supply > 0 /\ IsOneSided =>
              Value * supply' <= Value' * supply]_singleVars
  BY ValueStep DEF SingleNext, IsOneSided
<1> QED
  BY <1>1, SingleTypeInvariant, PTL DEF SingleSpec, OneSidedKeepsValue

-----------------------------------------------------------------------------
(* Nobody gets richer at the expense of a founder who stays.               *)

Stake      == lp[FeeAccount]
Endowed(t) == Total(t) - Started(t)

\* What the pool was worth when it was founded.
FirstProduct == Endowed("A") * Endowed("B")
FirstValue   == Endowed("A") + curve.parameter * Endowed("B")

(***************************************************************************)
(* The founder's part of the pool is worth no less than the pool once was. *)
(* The value of a constant price pool is halved before it is shared, so    *)
(* that a value that was odd and is even must have grown.  What is lost to *)
(* that rounding a single-sided instruction would pay out, but for the     *)
(* trading fee.                                                            *)
(***************************************************************************)
RootBacked ==
  ByProduct => FirstProduct * (supply * supply) <= Product * (Stake * Stake)

OneSidedPays == LocalhostBuild => FEES.trade.num # 0

ValueBacked ==
  ByPrice /\ OneSidedPays =>
    (FirstValue \div 2) * supply + Gained(FirstValue, Value) <= HalfValue * Stake

FoundedInv ==
  /\ SupplyInv
  /\ InitialSupply <= Stake
  /\ \A t \in Tokens : Endowed(t) \in Nat /\ (ByProduct => Endowed(t) > 0)
  /\ RootBacked
  /\ ValueBacked

\* Two steps of what is behind each pool token make one.
LEMMA StillBacked ==
  ASSUME NEW P \in Nat, NEW h \in Nat, NEW g \in Nat, NEW s \in Nat \ {0},
         NEW z \in Nat \ {0}, NEW f \in Nat \ {0}, NEW y \in Nat,
         NEW d \in {0, 1}, NEW e \in {0, 1}, NEW c \in {0, 1}, c <= d + e,
         P * s + d <= h * f, h * z * f + e <= g * s * y
  PROVE  P * z + c <= g * y
<1> DEFINE x == P * z
           w == g * y
           hf == h * f
<1>1. x \in Nat /\ w \in Nat /\ hf \in Nat /\ P * s \in Nat
  BY ProductMonotone
<1>2. (P * s + d) * z <= hf * z
  <2>1. P * s + d \in Nat
    BY <1>1
  <2> QED BY <1>1, <2>1, ProductMonotone
<1>3. /\ (P * s + d) * z = s * x + d * z
      /\ hf * z = h * z * f
      /\ g * s * y = s * w
  OBVIOUS
<1>4. s * x + d * z + e <= s * w
  <2>1. /\ s * x \in Nat /\ d * z \in Nat /\ s * w \in Nat
        /\ h * z * f \in Nat
    BY <1>1
  <2> QED BY <1>2, <1>3, <2>1
<1>5. d + e > 0 => d * z + e > 0
  BY <1>1
<1> HIDE DEF x, w, hf
<1>6. d * z \in Nat /\ s * x \in Nat /\ s * w \in Nat
  BY <1>1
<1>7. x <= w
  <2>1. SUFFICES ASSUME w + 1 <= x PROVE FALSE
    BY <1>1
  <2>2. s * (w + 1) <= s * x
    BY <1>1, <2>1, ProductMonotone
  <2>3. s * (w + 1) = s * w + s
    BY <1>1
  <2> QED BY <1>4, <1>6, <2>2, <2>3
<1>8. c = 1 => x # w
  BY <1>1, <1>4, <1>5, <1>6
<1>9. x + c <= w
  BY <1>1, <1>7, <1>8
<1> QED
  BY <1>9 DEF x, w

\* Two reserves that keep up with the pool tokens, each for itself.
LEMMA BothKeepUp ==
  ASSUME NEW a \in Nat, NEW b \in Nat, NEW v \in Nat, NEW w \in Nat,
         NEW s \in Nat, NEW z \in Nat, a * z <= v * s, b * z <= w * s
  PROVE  a * b * (z * z) <= v * w * (s * s)
<1> DEFINE az == a * z
           bz == b * z
           vs == v * s
           ws == w * s
<1>1. az \in Nat /\ bz \in Nat /\ vs \in Nat /\ ws \in Nat /\ az <= vs /\ bz <= ws
  OBVIOUS
<1>2. a * b * (z * z) = az * bz /\ v * w * (s * s) = vs * ws
  OBVIOUS
<1> HIDE DEF az, bz, vs, ws
<1>3. az * bz <= vs * ws
  <2>1. az * bz <= vs * bz /\ vs * bz <= vs * ws
    BY <1>1, ProductMonotone
  <2>2. az * bz \in Nat /\ vs * bz \in Nat /\ vs * ws \in Nat
    BY <1>1
  <2> QED BY <2>1, <2>2
<1> QED
  BY <1>2, <1>3

LEMMA FounderStepIsNext == FounderStays => SingleNext
  BY DEF FounderStays, SingleNext, Next, UnhostedTrade, Trade, Hosts

\* What the founder gets of the owner fee no host shares.
LEMMA UnhostedTradeDilutes ==
  ASSUME SupplyInv, UnhostedTrade
  PROVE  /\ Trade
         /\ \E m \in Nat : supply' = supply + m /\ Stake' = Stake + m
<1>1. PICK u \in Traders, v \in Traders, t \in Tokens, amount \in Amounts,
           minimum \in Limits : Swap(u, v, t, amount, minimum, NoHost)
  BY DEF UnhostedTrade
<1>2. NoHost \in Hosts /\ amount \in Nat
  BY DEF Hosts
<1>3. PICK swapped, poolFee : /\ SwapOutcome(t, amount, swapped, poolFee)
                              /\ lp'[FeeAccount] = lp[FeeAccount] + poolFee
  BY <1>1, <1>2, SwapHasOutcome DEF SupplyInv
<1>4. poolFee \in Nat /\ supply' = supply + poolFee
  BY <1>3 DEF SwapOutcome
<1> QED
  BY <1>1, <1>2, <1>3, <1>4 DEF Trade, Stake

\* The founder's pool tokens are some of all.
LEMMA StakeNat ==
  ASSUME SupplyInv, InitialSupply <= Stake
  PROVE  /\ Stake \in Nat \ {0} /\ supply \in Nat \ {0} /\ Stake <= supply
<1>1. lp \in [LpAccounts -> Nat] /\ FeeAccount \in LpAccounts /\ supply = SumFunction(lp)
  BY DEF SupplyInv, SupplyIsHeld, TypeInv, TypeOK, LpAccounts
<1>2. Stake <= supply
  BY <1>1, SumAtLeast, LpAccountsFinite DEF Stake
<1>3. Stake \in Nat /\ supply \in Nat /\ InitialSupply \in Nat \ {0}
  BY <1>1, StateNat DEF Stake, SupplyInv
<1> QED
  BY <1>2, <1>3

\* What every step leaves as it was, and what it keeps.
LEMMA FounderStepFacts ==
  ASSUME FoundedInv, FounderStays
  PROVE  /\ TypeInv /\ TypeInv' /\ SupplyInv'
         /\ curve' = curve /\ (ByProduct' <=> ByProduct) /\ (ByPrice' <=> ByPrice)
         /\ \A t \in Tokens : Endowed(t)' = Endowed(t)
         /\ Stake \in Nat \ {0} /\ supply \in Nat \ {0}
         /\ Stake' \in Nat \ {0} /\ supply' \in Nat \ {0}
         /\ InitialSupply <= Stake' /\ Stake <= Stake' /\ Stake <= supply
<1>1. SingleNext
  BY FounderStepIsNext
<1>2. /\ SupplyInv /\ SupplyInv' /\ TypeInv /\ TypeInv'
      /\ \A t \in Tokens : Total(t)' = Total(t)
  BY <1>1, SingleNextKept DEF FoundedInv, SupplyInv
<1>3. Stake \in Nat \ {0} /\ supply \in Nat \ {0} /\ Stake <= supply
  BY StakeNat DEF FoundedInv
<1>4. Stake <= Stake' /\ supply' \in Nat /\ Stake' \in Nat
  BY <1>2, StateNat DEF FounderStays, Stake, TypeInv, TypeOK, LpAccounts
<1>5. InitialSupply <= Stake' /\ Stake' \in Nat \ {0}
  BY <1>3, <1>4 DEF FoundedInv
<1>6. Stake' <= supply'
  <2>1. /\ lp' \in [LpAccounts -> Nat] /\ FeeAccount \in LpAccounts
        /\ supply' = SumFunction(lp')
    BY <1>2 DEF SupplyInv, SupplyIsHeld, TypeInv, TypeOK, LpAccounts
  <2> QED BY <2>1, SumAtLeast, LpAccountsFinite DEF Stake
<1>7. supply' \in Nat \ {0}
  BY <1>4, <1>5, <1>6
<1>8. curve' = curve
  <2>1. OneSided => curve' = curve
    BY <1>2, OneSidedSteps
  <2>2. UnhostedTrade \/ Join \/ Exit => curve' = curve
    BY DEF UnhostedTrade, Swap, Join, DepositAllTokenTypes, Exit, WithdrawAllTokenTypes
  <2> QED BY <2>1, <2>2 DEF FounderStays
<1>9. \A t \in Tokens : Endowed(t)' = Endowed(t)
  BY <1>2 DEF Endowed, Started
<1> QED
  BY <1>2, <1>3, <1>4, <1>5, <1>7, <1>8, <1>9 DEF ByProduct, ByPrice

\* A founder whose part of the pool tokens grows with all of them is not diluted.
LEMMA NotDiluted ==
  ASSUME NEW s \in Nat, NEW f \in Nat, NEW m \in Nat, f <= s
  PROVE  (s + m) * f <= s * (f + m)
<1>1. m * f <= s * m /\ m * f \in Nat /\ s * m \in Nat /\ s * f \in Nat
  BY ProductMonotone
<1>2. (s + m) * f = s * f + m * f /\ s * (f + m) = s * f + s * m
  OBVIOUS
<1> QED
  BY <1>1, <1>2

(***************************************************************************)
(* A step of a constant product pool keeps the product behind the          *)
(* founder's pool tokens.                                                  *)
(***************************************************************************)
LEMMA StepBacksRoot ==
  ASSUME FoundedInv, FounderStays, ByProduct, LocalhostBuild => PreciseError = 0
  PROVE  Product * (supply' * supply') * (Stake * Stake)
           <= Product' * (supply * supply) * (Stake' * Stake')
<1> DEFINE s == supply
           z == supply'
           f == Stake
           y == Stake'
           h == Product
           g == Product'
<1>1. /\ s \in Nat \ {0} /\ z \in Nat \ {0} /\ f \in Nat \ {0} /\ y \in Nat \ {0}
      /\ f <= y /\ f <= s
      /\ TypeInv /\ TypeInv'
  BY FounderStepFacts
<1>2. h \in Nat /\ g \in Nat
  BY <1>1, StateNat DEF Product, TypeInv, TypeOK, Tokens
<1>3. ASSUME UnhostedTrade PROVE h * (z * z) * (f * f) <= g * (s * s) * (y * y)
  <2>1. Trade /\ \E m \in Nat : z = s + m /\ y = f + m
    BY <1>3, UnhostedTradeDilutes DEF FoundedInv
  <2>2. z * f <= s * y
    BY <1>1, <2>1, NotDiluted
  <2>3. h <= g
    BY <1>1, <2>1, SwapProduct
  <2> HIDE DEF s, z, f, y, h, g
  <2> DEFINE l == z * f
             r == s * y
  <2>4. l \in Nat /\ r \in Nat /\ l <= r
    BY <1>1, <2>2
  <2>5. h * (z * z) * (f * f) = h * (l * l) /\ g * (s * s) * (y * y) = g * (r * r)
    BY <1>1, <1>2
  <2> HIDE DEF l, r
  <2>6. l * l <= r * r /\ l * l \in Nat /\ r * r \in Nat
    BY <2>4, ProductMonotone
  <2>7. h * (l * l) <= h * (r * r) /\ h * (r * r) <= g * (r * r)
    BY <1>2, <2>3, <2>6, ProductMonotone
  <2>8. h * (l * l) \in Nat /\ h * (r * r) \in Nat /\ g * (r * r) \in Nat
    BY <1>2, <2>6
  <2> QED BY <2>5, <2>7, <2>8
<1>4. ASSUME h * (z * z) <= g * (s * s)
      PROVE  h * (z * z) * (f * f) <= g * (s * s) * (y * y)
  <2> HIDE DEF s, z, f, y, h, g
  <2> DEFINE l == h * (z * z)
             r == g * (s * s)
             ff == f * f
             yy == y * y
  <2>1. l \in Nat /\ r \in Nat /\ ff \in Nat /\ yy \in Nat /\ l <= r /\ ff <= yy
    BY <1>1, <1>2, <1>4, ProductMonotone
  <2> HIDE DEF l, r, ff, yy
  <2>2. l * ff <= r * ff /\ r * ff <= r * yy
    BY <2>1, ProductMonotone
  <2>3. l * ff \in Nat /\ r * ff \in Nat /\ r * yy \in Nat
    BY <2>1
  <2>4. l * ff <= r * yy
    BY <2>2, <2>3
  <2> QED BY <2>4 DEF l, r, ff, yy
<1>5. ASSUME \A t \in Tokens : reserve[t] * z <= reserve'[t] * s
      PROVE  h * (z * z) <= g * (s * s)
  <2> HIDE DEF s, z
  <2>1. /\ reserve["A"] \in Nat /\ reserve["B"] \in Nat
        /\ reserve'["A"] \in Nat /\ reserve'["B"] \in Nat
    BY <1>1, StateNat DEF TypeInv, TypeOK, Tokens
  <2>2. reserve["A"] * z <= reserve'["A"] * s /\ reserve["B"] * z <= reserve'["B"] * s
    BY <1>5 DEF Tokens
  <2> QED BY <1>1, <2>1, <2>2, BothKeepUp DEF Product
<1>6. ASSUME Join PROVE \A t \in Tokens : reserve[t] * z <= reserve'[t] * s
  <2>1. PICK paid, minted, shares : DepositOutcome(paid, minted, shares)
    BY <1>1, <1>6, JoinHasOutcome
  <2>2. shares = s /\ minted \in Nat /\ z = s + minted
    BY <1>1, <2>1 DEF DepositOutcome
  <2> HIDE DEF s, z
  <2>3. ASSUME NEW t \in Tokens PROVE reserve[t] * z <= reserve'[t] * s
    <3> DEFINE r == reserve[t]
               n == paid[t]
    <3>1. minted * r <= s * n /\ r \in Nat
      BY <1>1, <2>1, <2>2, ProductDepositStep, StateNat
    <3>2. n \in Nat /\ reserve'[t] = r + n
      BY <2>1 DEF DepositOutcome
    <3> HIDE DEF r, n
    <3>3. r * (s + minted) = r * s + minted * r /\ (r + n) * s = r * s + s * n
      BY <1>1, <2>2, <3>1, <3>2
    <3>4. r * s \in Nat /\ minted * r \in Nat /\ s * n \in Nat
      BY <1>1, <2>2, <3>1, <3>2
    <3>5. r * z <= (r + n) * s
      BY <2>2, <3>1, <3>3, <3>4
    <3> QED BY <3>2, <3>5 DEF r
  <2> QED BY <2>3
<1>7. ASSUME Exit PROVE \A t \in Tokens : reserve[t] * z <= reserve'[t] * s
  <2>1. PICK worth, burned : WithdrawOutcome(worth, burned)
    BY <1>1, <1>7, ExitHasOutcome
  <2>2. z = s - burned
    BY <2>1 DEF WithdrawOutcome
  <2> QED BY <1>1, <2>1, <2>2, ProductWithdrawStep
<1>8. ASSUME OneSided PROVE h * (z * z) <= g * (s * s)
  <2>1. CASE ~LocalhostBuild
    <3>1. UNCHANGED vars
      BY <1>8, <2>1 DEF OneSided, JoinOnOneSide, LeaveOnOneSide, Executes
    <3>2. h * (z * z) = g * (s * s)
      BY <3>1 DEF vars, Product
    <3>3. g * (s * s) \in Nat
      <4> HIDE DEF s, g
      <4> QED BY <1>1, <1>2
    <3> QED BY <3>2, <3>3
  <2>2. CASE PreciseError = 0
    <3> DEFINE fair == supply' - PreciseError
    <3>1. fair = z /\ fair > 0
      <4>1. \A n \in Nat \ {0} : n - 0 = n /\ n > 0
        OBVIOUS
      <4> QED BY <1>1, <2>2, <4>1
    <3>2. Product * fair * fair <= Product' * supply * supply
      BY <1>1, <1>8, <3>1, RootStep
    <3> HIDE DEF s, z, h, g, fair
    <3>3. \A m, n \in Nat : m * n * n = m * (n * n)
      OBVIOUS
    <3>4. h * z * z <= g * s * s
      BY <3>1, <3>2 DEF h, g, s
    <3> QED BY <1>1, <1>2, <3>3, <3>4
  <2> QED BY <2>1, <2>2
<1> HIDE DEF s, z, f, y, h, g
<1>9. h * (z * z) * (f * f) <= g * (s * s) * (y * y)
  BY <1>3, <1>4, <1>5, <1>6, <1>7, <1>8 DEF FounderStays
<1> QED
  BY <1>9 DEF s, z, f, y, h, g

(***************************************************************************)
(* A step of a constant price pool keeps the halved value behind them, and *)
(* adds to it when an odd value becomes even.                              *)
(***************************************************************************)
LEMMA StepBacksValue ==
  ASSUME FoundedInv, FounderStays, ByPrice, OneSidedPays
  PROVE  HalfValue * supply' * Stake + Gained(Value, Value')
           <= HalfValue' * supply * Stake'
<1> DEFINE s == supply
           z == supply'
           f == Stake
           y == Stake'
           h == HalfValue
           g == HalfValue'
           e == Gained(Value, Value')
<1>1. /\ s \in Nat \ {0} /\ z \in Nat \ {0} /\ f \in Nat \ {0} /\ y \in Nat \ {0}
      /\ f <= y /\ f <= s
      /\ TypeInv /\ TypeInv' /\ ByPrice' /\ curve' = curve
  BY FounderStepFacts
<1>2. h \in Nat
  BY <1>1, ValueNat
<1>3. g \in Nat
  BY <1>1, NextValueNat
<1>4. e \in {0, 1}
  BY DEF Gained
<1>5. ASSUME UnhostedTrade PROVE h * z * f + e <= g * s * y
  <2>1. Trade /\ \E m \in Nat : z = s + m /\ y = f + m
    BY <1>5, UnhostedTradeDilutes DEF FoundedInv
  <2>2. z * f <= s * y
    BY <1>1, <2>1, NotDiluted
  <2>3. Value <= Value'
    BY <1>1, <2>1, SwapValue
  <2>4. h + e <= g
    <3>1. \A m, n \in Nat : m <= n => m \div 2 + Gained(m, n) <= n \div 2
      BY DEF Gained
    <3>2. /\ Value \in Nat /\ h = Value \div 2
          /\ Value' \in Nat /\ g = Value' \div 2
      BY <1>1, ValueNat, NextValueNat
    <3> HIDE DEF h, g
    <3> QED BY <2>3, <3>1, <3>2
  <2> HIDE DEF s, z, f, y, h, g, e
  <2> DEFINE l == z * f
             r == s * y
  <2>5. l \in Nat /\ r \in Nat \ {0} /\ l <= r
    BY <1>1, <2>2, ProductMonotone
  <2>6. h * z * f = h * l /\ g * s * y = g * r
    BY <1>1, <1>2, <1>3
  <2> HIDE DEF l, r
  <2>7. h * l <= h * r /\ e * 1 <= e * r /\ (h + e) * r <= g * r
    BY <1>2, <1>3, <1>4, <2>4, <2>5, ProductMonotone
  <2>8. /\ h * l \in Nat /\ h * r \in Nat /\ e * r \in Nat /\ g * r \in Nat
        /\ (h + e) * r = h * r + e * r /\ e * 1 = e
    <3>1. \A m, n, x \in Nat : (m + n) * x = m * x + n * x /\ m * x \in Nat /\ m * 1 = m
      OBVIOUS
    <3> QED BY <1>2, <1>3, <1>4, <2>5, <3>1
  <2> QED BY <1>4, <2>6, <2>7, <2>8
<1>6. ASSUME h * z + e <= g * s PROVE h * z * f + e <= g * s * y
  <2> HIDE DEF s, z, f, y, h, g, e
  <2> DEFINE l == h * z + e
             r == g * s
  <2>1. l \in Nat /\ r \in Nat /\ l <= r
    BY <1>1, <1>2, <1>3, <1>4, <1>6
  <2>2. l * f = h * z * f + e * f /\ h * z * f \in Nat /\ e * f \in Nat
    <3>1. \A m, n, x, i \in Nat : (m * n + i) * x = m * n * x + i * x
                                 /\ m * n * x \in Nat /\ i * x \in Nat
      OBVIOUS
    <3> QED BY <1>1, <1>2, <1>3, <1>4, <3>1
  <2>3. l * f <= r * f /\ r * f <= r * y
    BY <1>1, <2>1, ProductMonotone
  <2>4. l * f \in Nat /\ r * f \in Nat /\ r * y \in Nat
    BY <1>1, <2>1
  <2>5. l * f <= r * y
    BY <2>3, <2>4
  <2>6. e * 1 <= e * f /\ e * 1 = e
    BY <1>1, <1>4, ProductMonotone
  <2> HIDE DEF l
  <2> QED BY <1>4, <2>2, <2>4, <2>5, <2>6
<1>7. ASSUME Join \/ Exit PROVE h * z + e <= g * s
  <2>1. h * z + e * s <= g * s
    BY <1>1, <1>7, JoinKeepsValue, ExitKeepsValue
  <2> HIDE DEF s, z, h, g, e
  <2>2. e * 1 <= e * s /\ e * 1 = e /\ e * s \in Nat /\ h * z \in Nat /\ g * s \in Nat
    BY <1>1, <1>2, <1>3, <1>4, ProductMonotone
  <2> QED BY <1>4, <2>1, <2>2
<1>8. ASSUME OneSided PROVE h * z + e <= g * s
  <2>1. CASE reserve' = reserve /\ supply' = supply
    <3>1. h = g /\ z = s /\ Value' = Value
      BY <1>1, <2>1 DEF HalfValue, Value
    <3>2. e = 0
      BY <3>1 DEF Gained
    <3> HIDE DEF s, z, h, g, e
    <3>3. h * s + 0 = h * s /\ h * s \in Nat
      BY <1>1, <1>2
    <3> QED BY <3>1, <3>2, <3>3
  <2>2. ASSUME NEW t \in Tokens, NEW amount \in Amounts, LocalhostBuild,
               DepositStep(t, amount) \/ WithdrawStep(t, amount)
        PROVE  h * z + e <= g * s
    <3>1. amount \in Nat /\ FEES.trade.num # 0 /\ supply > 0
      BY <1>1, <2>2 DEF OneSidedPays
    <3> QED BY <1>1, <2>2, <3>1, OneSidedValue
  <2>3. ~LocalhostBuild => reserve' = reserve /\ supply' = supply
    BY <1>8 DEF OneSided, JoinOnOneSide, LeaveOnOneSide, Executes, vars
  <2> QED BY <1>1, <1>8, <2>1, <2>2, <2>3, OneSidedSteps
<1> HIDE DEF s, z, f, y, h, g, e
<1>9. h * z * f + e <= g * s * y
  BY <1>5, <1>6, <1>7, <1>8 DEF FounderStays
<1> QED
  BY <1>9 DEF s, z, f, y, h, g, e

\* The first worth does not change.
LEMMA FirstWorthStays ==
  ASSUME FoundedInv, FounderStays
  PROVE  /\ FirstProduct' = FirstProduct /\ FirstProduct \in Nat
         /\ FirstValue' = FirstValue /\ (ByPrice => FirstValue \in Nat)
<1>1. /\ Endowed("A")' = Endowed("A") /\ Endowed("A") \in Nat
      /\ Endowed("B")' = Endowed("B") /\ Endowed("B") \in Nat
      /\ curve' = curve /\ TypeInv
  BY FounderStepFacts DEF FoundedInv, Tokens
<1>2. ByPrice => curve.parameter \in Nat
  BY <1>1, CurveKinds DEF ByPrice, SwapCurves
<1>3. FirstProduct' = Endowed("A")' * Endowed("B")'
      /\ FirstValue' = Endowed("A")' + curve'.parameter * Endowed("B")'
  BY DEF FirstProduct, FirstValue
<1> QED
  BY <1>1, <1>2, <1>3 DEF FirstProduct, FirstValue

LEMMA FounderStepKeepsInv ==
  ASSUME FoundedInv, FounderStays, LocalhostBuild => PreciseError = 0
  PROVE  FoundedInv'
<1>1. /\ TypeInv /\ TypeInv' /\ SupplyInv'
      /\ curve' = curve /\ (ByProduct' <=> ByProduct) /\ (ByPrice' <=> ByPrice)
      /\ \A t \in Tokens : Endowed(t)' = Endowed(t)
      /\ Stake \in Nat \ {0} /\ supply \in Nat \ {0}
      /\ Stake' \in Nat \ {0} /\ supply' \in Nat \ {0}
      /\ InitialSupply <= Stake'
  BY FounderStepFacts
<1>2. \A t \in Tokens : Endowed(t)' \in Nat /\ (ByProduct' => Endowed(t)' > 0)
  BY <1>1 DEF FoundedInv
<1>3. RootBacked'
  <2>1. SUFFICES ASSUME ByProduct
                 PROVE  FirstProduct * (supply' * supply') <= Product' * (Stake' * Stake')
    BY <1>1, FirstWorthStays DEF RootBacked
  <2> DEFINE S == supply * supply
             Z == supply' * supply'
             F == Stake * Stake
             Y == Stake' * Stake'
  <2>2. S \in Nat \ {0} /\ Z \in Nat \ {0} /\ F \in Nat \ {0} /\ Y \in Nat
    <3>1. \A n \in Nat \ {0} : n * n \in Nat \ {0}
      OBVIOUS
    <3> QED BY <1>1, <3>1
  <2>3. Product \in Nat /\ Product' \in Nat /\ FirstProduct \in Nat
    BY <1>1, StateNat, FirstWorthStays DEF Product, TypeInv, TypeOK, Tokens
  <2>4. FirstProduct * S <= Product * F
    BY <2>1 DEF FoundedInv, RootBacked
  <2>5. Product * Z * F <= Product' * S * Y
    BY <2>1, StepBacksRoot
  <2> HIDE DEF S, Z, F, Y
  <2> DEFINE h == Product
             g == Product'
  <2>6. h \in Nat /\ g \in Nat /\ FirstProduct * S + 0 <= h * F
        /\ h * Z * F + 0 <= g * S * Y
    <3>1. h \in Nat /\ g \in Nat /\ FirstProduct * S <= h * F /\ h * Z * F <= g * S * Y
      BY <2>3, <2>4, <2>5
    <3> HIDE DEF h, g
    <3>2. \A m \in Nat : m + 0 = m
      OBVIOUS
    <3>3. FirstProduct * S \in Nat /\ h * Z * F \in Nat
      BY <2>2, <2>3, <3>1
    <3> QED BY <3>1, <3>2, <3>3
  <2> HIDE DEF h, g
  <2>7. FirstProduct * Z + 0 <= g * Y
    BY <2>2, <2>3, <2>6, StillBacked
  <2>8. FirstProduct * Z \in Nat
    BY <2>2, <2>3
  <2>9. FirstProduct * Z <= g * Y
    BY <2>7, <2>8
  <2> QED BY <2>9 DEF g, Z, Y
<1>4. ValueBacked'
  <2>1. SUFFICES ASSUME ByPrice, OneSidedPays
                 PROVE  (FirstValue \div 2) * supply' + Gained(FirstValue, Value')
                          <= HalfValue' * Stake'
    <3>1. Gained(FirstValue, Value)' = Gained(FirstValue, Value')
      BY FirstWorthStays DEF Gained
    <3>2. (FirstValue \div 2)' = FirstValue \div 2
      BY FirstWorthStays
    <3> QED BY <1>1, <3>1, <3>2 DEF ValueBacked
  <2> DEFINE p == FirstValue \div 2
             d == Gained(FirstValue, Value)
             e == Gained(Value, Value')
             c == Gained(FirstValue, Value')
             h == HalfValue
             g == HalfValue'
  <2>2. /\ h \in Nat /\ Value \in Nat /\ p \in Nat /\ FirstValue \in Nat
    BY <1>1, <2>1, ValueNat, FirstWorthStays, DivBounds
  <2>3. g \in Nat /\ Value' \in Nat
    BY <1>1, <2>1, NextValueNat
  <2>4. d \in {0, 1} /\ e \in {0, 1} /\ c \in {0, 1} /\ c <= d + e
    <3>1. \A u, v, w \in Nat : Gained(u, w) <= Gained(u, v) + Gained(v, w)
      BY DEF Gained
    <3>2. d \in {0, 1} /\ e \in {0, 1} /\ c \in {0, 1}
      BY DEF Gained
    <3> QED BY <2>2, <2>3, <3>1, <3>2
  <2>5. p * supply + d <= h * Stake
    BY <2>1 DEF FoundedInv, ValueBacked
  <2>6. h * supply' * Stake + e <= g * supply * Stake'
    BY <2>1, StepBacksValue
  <2> DEFINE s == supply
             z == supply'
             f == Stake
             y == Stake'
  <2>7. s \in Nat \ {0} /\ z \in Nat \ {0} /\ f \in Nat \ {0} /\ y \in Nat
    BY <1>1
  <2>8. p * s + d <= h * f /\ h * z * f + e <= g * s * y
    BY <2>5, <2>6
  <2> HIDE DEF p, d, e, c, h, g, s, z, f, y
  <2>9. p * z + c <= g * y
    BY <2>2, <2>3, <2>4, <2>7, <2>8, StillBacked
  <2> QED BY <2>9 DEF p, c, g, z, y
<1> QED
  BY <1>1, <1>2, <1>3, <1>4 DEF FoundedInv

LEMMA StutterKeepsInv ==
  ASSUME FoundedInv, UNCHANGED singleVars PROVE FoundedInv'
  BY DEF FoundedInv, singleVars, SupplyInv, SupplyIsHeld, TypeInv, TypeOK, CurveOK, Initialized,
         Stake, Endowed, Total, Owned, Started, RootBacked, ValueBacked, FirstProduct,
         FirstValue, Product, Value, HalfValue, ByProduct, ByPrice, Gained

\* What the traders have, and had.
LEMMA OwnedNat ==
  ASSUME TypeInv
  PROVE  \A t \in Tokens : Owned(t) \in Nat /\ Started(t) \in Nat
<1> SUFFICES ASSUME NEW t \in Tokens PROVE Owned(t) \in Nat /\ Started(t) \in Nat
  OBVIOUS
<1>1. [u \in Traders |-> wallet[u][t]] \in [Traders -> Nat]
  BY StateNat
<1>2. Owned(t) \in Nat
  BY <1>1, SumOfNat, TradersAssumption DEF Owned
<1>3. Cardinality(Traders) \in Nat /\ StartWallet[t] \in Nat
  BY TradersAssumption, FS_CardinalityType
<1> QED
  BY <1>2, <1>3 DEF Started

LEMMA FoundedInitInv ==
  ASSUME FoundedInit PROVE FoundedInv
<1>1. TypeInv
  BY DEF FoundedInit, TypeInv, TypeOK, CurveOK, Initialized, LpAccounts
<1>2. SupplyIsHeld /\ Stake = InitialSupply /\ supply = InitialSupply
  <2> DEFINE none == [l \in LpAccounts |-> 0]
  <2>1. /\ none \in [LpAccounts -> Nat] /\ lp \in [LpAccounts -> Nat]
        /\ FeeAccount \in LpAccounts
        /\ none[FeeAccount] = 0 /\ lp[FeeAccount] = InitialSupply
        /\ \A l \in LpAccounts \ {FeeAccount} : lp[l] = none[l]
        /\ \A l \in LpAccounts : none[l] = 0
        /\ supply = InitialSupply /\ InitialSupply \in Nat
    BY DEF FoundedInit, LpAccounts
  <2> HIDE DEF none
  <2>2. SumFunction(none) = 0
    BY <2>1, SumOfZeros, LpAccountsFinite
  <2>3. SumFunction(lp) = SumFunction(none) - none[FeeAccount] + lp[FeeAccount]
    BY <2>1, SumOfChanged, LpAccountsFinite
  <2> QED BY <2>1, <2>2, <2>3 DEF SupplyIsHeld, Stake
<1>3. ASSUME NEW t \in Tokens PROVE Endowed(t) = reserve[t]
  <2>1. StartWallet[t] \in Nat /\ reserve[t] \in Nat
    BY <1>1, StateNat
  <2>2. [u \in Traders |-> wallet[u][t]] = [u \in Traders |-> StartWallet[t]]
    BY DEF FoundedInit
  <2>3. Owned(t) = Started(t)
    BY <2>1, <2>2, SumOfConstant, TradersAssumption DEF Owned, Started
  <2>4. Started(t) \in Nat
    BY <1>1, OwnedNat
  <2> QED BY <2>1, <2>3, <2>4 DEF Endowed, Total
<1>4. /\ Endowed("A") = reserve["A"] /\ Endowed("B") = reserve["B"]
      /\ reserve["A"] \in Nat /\ reserve["B"] \in Nat
  BY <1>1, <1>3, StateNat DEF Tokens
<1>5. \A t \in Tokens : Endowed(t) \in Nat /\ (ByProduct => Endowed(t) > 0)
  BY <1>4 DEF FoundedInit, ValidSupply, ByProduct, Tokens
<1>6. RootBacked
  <2>1. FirstProduct = Product
    BY <1>4 DEF FirstProduct, Product
  <2>2. Product * (InitialSupply * InitialSupply) \in Nat
    <3>1. Product \in Nat /\ InitialSupply \in Nat
      BY <1>4 DEF Product
    <3> QED BY <3>1
  <2> QED BY <1>2, <2>1, <2>2 DEF RootBacked
<1>7. ValueBacked
  <2>1. SUFFICES ASSUME ByPrice
                 PROVE (FirstValue \div 2) * supply + Gained(FirstValue, Value)
                         <= HalfValue * Stake
    BY DEF ValueBacked
  <2>2. FirstValue = Value
    BY <1>4 DEF FirstValue, Value
  <2>3. HalfValue \in Nat /\ HalfValue = FirstValue \div 2
    BY <1>1, <2>1, <2>2, ValueNat
  <2>4. Gained(FirstValue, Value) = 0
    BY <2>2 DEF Gained
  <2>5. \A h, n \in Nat : h * n + 0 <= h * n
    OBVIOUS
  <2> QED BY <1>2, <2>3, <2>4, <2>5
<1>8. SupplyInv /\ InitialSupply <= Stake
  BY <1>1, <1>2 DEF SupplyInv
<1> QED
  BY <1>5, <1>6, <1>7, <1>8 DEF FoundedInv

\* Reserves no larger than they were, whose product is no smaller, are as they were.
LEMMA SameReserves ==
  ASSUME NEW a \in Nat, NEW b \in Nat, NEW v \in Nat \ {0}, NEW w \in Nat \ {0},
         a <= v, b <= w, v * w <= a * b
  PROVE  a = v /\ b = w
<1>1. ASSUME a < v PROVE FALSE
  <2>1. (a + 1) * w <= v * w /\ a * b <= a * w
    BY <1>1, ProductMonotone
  <2>2. (a + 1) * w = a * w + w /\ a * w \in Nat /\ v * w \in Nat /\ a * b \in Nat
    OBVIOUS
  <2> QED BY <2>1, <2>2
<1>2. ASSUME b < w PROVE FALSE
  <2>1. v * (b + 1) <= v * w /\ a * b <= v * b
    BY <1>2, ProductMonotone
  <2>2. v * (b + 1) = v * b + v /\ v * b \in Nat /\ v * w \in Nat /\ a * b \in Nat
    OBVIOUS
  <2> QED BY <2>1, <2>2
<1> QED
  BY <1>1, <1>2

(***************************************************************************)
(* Traders without pool tokens leave them all to the founder, who then has *)
(* the whole pool; what it is worth is no less than at first.              *)
(***************************************************************************)
LEMMA BackedIsNoFreeLunch ==
  ASSUME FoundedInv, ByProduct \/ (ByPrice /\ OneSidedPays) PROVE NoFreeLunch
<1> SUFFICES ASSUME \A u \in Traders : lp[u] = 0, \A t \in Tokens : Owned(t) >= Started(t)
             PROVE  \A t \in Tokens : Owned(t) = Started(t)
  BY DEF NoFreeLunch
<1>1. TypeInv /\ Stake \in Nat \ {0} /\ supply \in Nat \ {0}
  BY StakeNat DEF FoundedInv, SupplyInv
<1>2. supply = Stake
  <2> DEFINE none == [l \in LpAccounts |-> 0]
  <2>1. /\ none \in [LpAccounts -> Nat] /\ lp \in [LpAccounts -> Nat]
        /\ FeeAccount \in LpAccounts
        /\ none[FeeAccount] = 0 /\ lp[FeeAccount] \in Nat
        /\ \A l \in LpAccounts \ {FeeAccount} : lp[l] = none[l]
        /\ \A l \in LpAccounts : none[l] = 0
    BY <1>1 DEF LpAccounts, TypeInv, TypeOK
  <2> HIDE DEF none
  <2>2. SumFunction(none) = 0
    BY <2>1, SumOfZeros, LpAccountsFinite
  <2>3. SumFunction(lp) = SumFunction(none) - none[FeeAccount] + lp[FeeAccount]
    BY <2>1, SumOfChanged, LpAccountsFinite
  <2> QED BY <2>1, <2>2, <2>3 DEF FoundedInv, SupplyInv, SupplyIsHeld, Stake
<1>3. ASSUME NEW t \in Tokens
      PROVE  /\ reserve[t] \in Nat /\ Endowed(t) \in Nat /\ reserve[t] <= Endowed(t)
             /\ reserve[t] = Endowed(t) => Owned(t) = Started(t)
  <2>1. reserve[t] \in Nat /\ Owned(t) \in Nat /\ Started(t) \in Nat /\ Owned(t) >= Started(t)
    BY <1>1, StateNat, OwnedNat
  <2> QED BY <2>1 DEF FoundedInv, Endowed, Total
<1> DEFINE a == reserve["A"]
           b == reserve["B"]
           v == Endowed("A")
           w == Endowed("B")
<1>4. a \in Nat /\ b \in Nat /\ v \in Nat /\ w \in Nat /\ a <= v /\ b <= w
  BY <1>3 DEF Tokens
<1>5. CASE ByProduct
  <2>1. v * w * (Stake * Stake) <= a * b * (Stake * Stake)
    BY <1>2, <1>5 DEF FoundedInv, RootBacked, FirstProduct, Product
  <2>2. v > 0 /\ w > 0
    BY <1>5 DEF FoundedInv, Tokens
  <2> HIDE DEF a, b, v, w
  <2> DEFINE x == v * w
             y == a * b
             n == Stake * Stake
  <2>3. x \in Nat /\ y \in Nat /\ n \in Nat \ {0} /\ x * n <= y * n
    <3>1. \A m \in Nat \ {0} : m * m \in Nat \ {0}
      OBVIOUS
    <3> QED BY <1>1, <1>4, <2>1, <3>1
  <2> HIDE DEF x, y, n
  <2>4. x <= y
    <3>1. SUFFICES ASSUME y + 1 <= x PROVE FALSE
      BY <2>3
    <3>2. (y + 1) * n <= x * n /\ (y + 1) * n = y * n + n
      BY <2>3, <3>1, ProductMonotone
    <3> QED BY <2>3, <3>2
  <2>5. a = v /\ b = w
    BY <1>4, <2>2, <2>4, SameReserves DEF x, y
  <2> QED BY <1>3, <2>5 DEF a, b, v, w, Tokens
<1>6. CASE ByPrice /\ OneSidedPays
  <2> DEFINE p == curve.parameter
             h == HalfValue
             k == FirstValue \div 2
             c == Gained(FirstValue, Value)
  <2>1. p \in Nat \ {0}
    BY <1>1, <1>6, CurveKinds DEF ByPrice, SwapCurves, ValidCurve
  <2>2. Value = a + p * b /\ FirstValue = v + p * w
    BY DEF Value, FirstValue
  <2>3. Value \in Nat /\ h \in Nat /\ h = Value \div 2
    BY <1>1, <1>6, ValueNat
  <2>4. k * Stake + c <= h * Stake /\ c \in {0, 1}
    BY <1>2, <1>6 DEF FoundedInv, ValueBacked, Gained
  <2> HIDE DEF a, b, v, w, p
  <2>5. FirstValue \in Nat /\ Value <= FirstValue
    <3>1. p * b <= p * w /\ p * b \in Nat /\ p * w \in Nat
      BY <1>4, <2>1, ProductMonotone
    <3> QED BY <1>4, <2>2, <3>1
  <2>6. k \in Nat
    BY <2>5, DivBounds
  <2>7. k <= h /\ (c = 1 => k # h)
    <3> HIDE DEF h, k, c
    <3>1. k <= h
      <4>1. SUFFICES ASSUME h + 1 <= k PROVE FALSE
        BY <2>3, <2>6
      <4>2. (h + 1) * Stake <= k * Stake /\ (h + 1) * Stake = h * Stake + Stake
        BY <1>1, <2>3, <2>6, <4>1, ProductMonotone
      <4>3. h * Stake \in Nat /\ k * Stake \in Nat
        BY <1>1, <2>3, <2>6
      <4> QED BY <1>1, <2>4, <4>2, <4>3
    <3>2. c = 1 => k # h
      <4>1. h * Stake \in Nat
        BY <1>1, <2>3
      <4> QED BY <2>4, <4>1
    <3> QED BY <3>1, <3>2
  <2>8. Value = FirstValue
    <3>1. \A m, n \in Nat : m <= n /\ n \div 2 <= m \div 2 /\ m # n
                              => Gained(n, m) = 1 /\ n \div 2 = m \div 2
      BY DEF Gained
    <3> QED BY <2>3, <2>5, <2>7, <3>1
  <2>9. a = v /\ b = w
    <3>1. p * b <= p * w /\ p * b \in Nat /\ p * w \in Nat
      BY <1>4, <2>1, ProductMonotone
    <3>2. a = v /\ p * b = p * w
      BY <1>4, <2>2, <2>8, <3>1
    <3>3. ASSUME b + 1 <= w PROVE FALSE
      <4>1. p * (b + 1) <= p * w /\ p * (b + 1) = p * b + p
        BY <1>4, <2>1, <3>3, ProductMonotone
      <4> QED BY <2>1, <3>1, <3>2, <4>1
    <3> QED BY <1>4, <3>2, <3>3
  <2> QED BY <1>3, <2>9 DEF a, b, v, w, Tokens
<1> QED
  BY <1>5, <1>6

(***************************************************************************)
(* Nobody gets richer at the expense of a founder who stays: whatever      *)
(* traders do to a constant product or a constant price pool, once they    *)
(* have no pool tokens left they do not have, together, all they started   *)
(* with and more.  In the localhost build this is said of exact roots, and *)
(* of a constant price pool that charges a trading fee, as FEES of the     *)
(* source does: without one a deposit of both tokens, which the halved     *)
(* value makes cheap, and withdrawals of one would take from the founder.  *)
(***************************************************************************)
THEOREM FounderPaysForNobody ==
  ASSUME LocalhostBuild => PreciseError = 0
  PROVE  FoundedSpec => [](ByProduct \/ (ByPrice /\ OneSidedPays) => NoFreeLunch)
<1>1. FoundedInit => FoundedInv
  BY FoundedInitInv
<1>2. FoundedInv /\ [FounderStays]_singleVars => FoundedInv'
  BY FounderStepKeepsInv, StutterKeepsInv
<1>3. FoundedInv => (ByProduct \/ (ByPrice /\ OneSidedPays) => NoFreeLunch)
  BY BackedIsNoFreeLunch
<1> QED
  BY <1>1, <1>2, <1>3, PTL DEF FoundedSpec

=============================================================================
