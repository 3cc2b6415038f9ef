--------------------------- MODULE SwapClientProofs ---------------------------
(***************************************************************************)
(* What a quote from torn reads is worth, whatever the others do but leave *)
(* the pool, and that the program accepts a quote for the pool as it is:   *)
(* for every set of traders and clients, all valid fees and all amounts.   *)
(***************************************************************************)
EXTENDS SwapClientProperties, PoolSafetyProofs

USE SplMathAssumption, SwapPoolAssumption, SwapClientAssumption

-----------------------------------------------------------------------------
(* The quote of a swap.                                                    *)

\* The division rounded up, as the client computes it.
RoundUp(n, d) == n \div d + IF n % d = 0 THEN 0 ELSE 1

\* It is the least factor that makes up for n.
LEMMA RoundedUp ==
  ASSUME NEW n \in Nat, NEW d \in Nat \ {0}
  PROVE  /\ RoundUp(n, d) \in Nat /\ n <= d * RoundUp(n, d)
         /\ \A m \in Nat : n <= d * m => RoundUp(n, d) <= m
<1> DEFINE q == n \div d
           r == n % d
           k == RoundUp(n, d)
<1>1. q \in Nat /\ r \in 0 .. d - 1 /\ n = d * q + r
  OBVIOUS
<1>2. k = q + IF r = 0 THEN 0 ELSE 1
  BY DEF RoundUp
<1> HIDE DEF q, r, k
<1>3. k \in Nat /\ n <= d * k
  BY <1>1, <1>2
<1>4. ASSUME NEW m \in Nat, n <= d * m PROVE k <= m
  <2>1. SUFFICES ASSUME k >= m + 1 PROVE FALSE
    BY <1>3
  <2>2. CASE r = 0
    <3>1. d * (m + 1) <= d * q
      BY <1>1, <1>2, <2>1, <2>2, ProductMonotone
    <3> QED BY <1>1, <1>4, <3>1
  <2>3. CASE r > 0
    <3>1. d * m <= d * q
      BY <1>1, <1>2, <2>1, <2>3, ProductMonotone
    <3> QED BY <1>1, <1>4, <2>3, <3>1
  <2> QED BY <1>1, <2>2, <2>3
<1> QED
  BY <1>3, <1>4 DEF k

\* What the client takes to be left of amount after its combined fee.
Net(amount) ==
  ExcludeFee(amount, FEES.trade.num * FEES.owner.den + FEES.owner.num * FEES.trade.den,
             FEES.trade.den * FEES.owner.den)

(***************************************************************************)
(* Two fractions charged as one cost at most a token more than charged one *)
(* by one, so something is left when the program, too, has something left. *)
(***************************************************************************)
LEMMA CombinedFee ==
  ASSUME NEW x \in Nat, NEW a \in Nat, NEW b \in Nat \ {0}, NEW c \in Nat,
         NEW d \in Nat \ {0}
  PROVE  /\ (x * (a * d + c * b)) \div (b * d) \in Nat
         /\ (x * (a * d + c * b)) \div (b * d)
              <= (x * a) \div b + (x * c) \div d + 1
<1> DEFINE p == (x * a) \div b
           q == (x * c) \div d
           n == x * (a * d + c * b)
           e == b * d
           f == n \div e
<1>1. p \in Nat /\ x * a < b * p + b
  BY DivBounds
<1>2. q \in Nat /\ x * c < d * q + d
  BY DivBounds
<1>3. n \in Nat /\ e \in Nat \ {0}
  OBVIOUS
<1>4. f \in Nat /\ e * f <= n
  BY <1>3, DivBounds
<1>5. n = (x * a) * d + (x * c) * b
  OBVIOUS
<1>6. (x * a) * d < (b * p + b) * d
  BY <1>1
<1>7. (x * c) * b < (d * q + d) * b
  BY <1>2
<1>8. (b * p + b) * d + (d * q + d) * b = e * (p + q + 2)
  BY <1>1, <1>2
<1>9. n < e * (p + q + 2)
  BY <1>1, <1>2, <1>3, <1>5, <1>6, <1>7, <1>8
<1> HIDE DEF p, q, n, e, f
<1>10. f <= p + q + 1
  <2>1. SUFFICES ASSUME f >= p + q + 2 PROVE FALSE
    BY <1>1, <1>2, <1>4
  <2>2. e * (p + q + 2) <= e * f
    BY <1>1, <1>2, <1>3, <1>4, <2>1, ProductMonotone
  <2> QED BY <1>1, <1>2, <1>3, <1>4, <1>9, <2>2
<1> QED
  BY <1>4, <1>10 DEF p, q, n, e, f

\* A fee is no less than the fraction rounded down.
LEMMA FeeAtLeast ==
  ASSUME NEW x \in Nat, NEW f \in Fraction, f.den # 0
  PROVE  (x * f.num) \div f.den <= CalculateFee(x, f)
<1>1. f.num \in Nat /\ f.den \in Nat \ {0}
  BY DEF Fraction
<1>2. CASE f.num = 0 \/ x = 0
  <2>1. x * f.num = 0
    BY <1>1, <1>2
  <2>2. 0 \div f.den = 0
    BY <1>1
  <2> QED BY <1>2, <2>1, <2>2 DEF CalculateFee
<1>3. CASE f.num # 0 /\ x # 0
  <2> DEFINE q == (x * f.num) \div f.den
  <2>1. CalculateFee(x, f) = IF q = 0 THEN 1 ELSE q
    BY <1>3 DEF CalculateFee
  <2>2. q \in Nat
    <3>1. x * f.num \in Nat
      BY <1>1
    <3> QED BY <1>1, <3>1, DivBounds
  <2> HIDE DEF q
  <2>3. q <= CalculateFee(x, f)
    BY <2>1, <2>2
  <2> QED BY <2>3 DEF q
<1> QED
  BY <1>2, <1>3

LEMMA NetIsNat ==
  ASSUME NEW amount \in Nat,
         TradingFee(FEES, amount) + OwnerTradingFee(FEES, amount) < amount
  PROVE  Net(amount) \in Nat
<1> DEFINE F == TradingFee(FEES, amount)
           G == OwnerTradingFee(FEES, amount)
           a == FEES.trade.num
           b == FEES.trade.den
           c == FEES.owner.num
           d == FEES.owner.den
           num == a * d + c * b
           fee == (amount * num) \div (b * d)
<1>1. /\ a \in Nat /\ b \in Nat /\ c \in Nat /\ d \in Nat
      /\ FEES.trade \in Fraction /\ FEES.owner \in Fraction
      /\ b = 0 => a = 0
      /\ d = 0 => c = 0
  BY DEF ValidFees, ValidFraction, Fraction
<1>2. F \in Nat /\ G \in Nat
  BY FeeBounds DEF ValidFees, TradingFee, OwnerTradingFee
<1>3. Net(amount) = IF num = 0 THEN amount
                    ELSE IF fee = 0 THEN amount - 1 ELSE amount - fee
  BY DEF Net, ExcludeFee
<1>4. CASE b = 0 \/ d = 0
  <2>1. num = 0
    BY <1>1, <1>4
  <2> QED BY <1>3, <2>1
<1>5. CASE b # 0 /\ d # 0
  <2>1. fee \in Nat /\ fee <= (amount * a) \div b + (amount * c) \div d + 1
    BY <1>1, <1>5, CombinedFee
  <2>2. (amount * a) \div b <= F
    BY <1>1, <1>5, FeeAtLeast DEF TradingFee
  <2>3. (amount * c) \div d <= G
    BY <1>1, <1>5, FeeAtLeast DEF OwnerTradingFee
  <2>4. (amount * a) \div b \in Nat /\ (amount * c) \div d \in Nat
    <3>1. amount * a \in Nat /\ amount * c \in Nat
      BY <1>1
    <3> QED BY <1>1, <1>5, <3>1, DivBounds
  <2> HIDE DEF F, G, num, fee
  <2>5. fee <= F + G + 1
    BY <1>2, <2>1, <2>2, <2>3, <2>4
  <2>6. F + G < amount
    BY DEF F, G
  <2> QED BY <1>2, <1>3, <2>1, <2>5, <2>6
<1> QED
  BY <1>4, <1>5

(***************************************************************************)
(* The quote for a sale falls with the reserve that is sold into and grows *)
(* with the one that pays.                                                 *)
(***************************************************************************)
LEMMA QuoteMonotone ==
  ASSUME NEW amount \in Nat, Net(amount) \in Nat,
         NEW a1 \in Nat, NEW b1 \in Nat, NEW a2 \in Nat, NEW b2 \in Nat,
         a1 <= a2, b2 <= b1,
         NEW q1 \in SwapQuote(FEES, amount, a1, b1),
         NEW q2 \in SwapQuote(FEES, amount, a2, b2)
  PROVE  q1 \in Int /\ q2 \in Int /\ q2 <= q1
<1> DEFINE x  == Net(amount)
           k1 == RoundUp(a1 * b1, a1 + x)
           k2 == RoundUp(a2 * b2, a2 + x)
<1>1. a1 + x # 0 /\ q1 = b1 - k1
  BY DEF SwapQuote, Net, RoundUp
<1>2. a2 + x # 0 /\ q2 = b2 - k2
  BY DEF SwapQuote, Net, RoundUp
<1>3. /\ a1 * b1 \in Nat /\ a2 * b2 \in Nat
      /\ a1 + x \in Nat \ {0} /\ a2 + x \in Nat \ {0}
  BY <1>1, <1>2
<1>4. k1 \in Nat /\ \A m \in Nat : a1 * b1 <= (a1 + x) * m => k1 <= m
  BY <1>3, RoundedUp
<1>5. k2 \in Nat /\ a2 * b2 <= (a2 + x) * k2
  BY <1>3, RoundedUp
<1>6. x \in Nat
  OBVIOUS
<1> HIDE DEF x, k1, k2
<1> DEFINE m == k2 + (b1 - b2)
<1>7. m \in Nat
  BY <1>5
<1>8. a1 * b2 <= (a1 + x) * k2
  <2>1. CASE k2 >= b2
    <3>1. a1 * b2 <= (a1 + x) * k2
      BY <1>5, <1>6, <2>1, ProductMonotone
    <3> QED BY <3>1
  <2>2. CASE k2 < b2
    <3> DEFINE g == b2 - k2
    <3>1. g \in Nat /\ b2 = k2 + g
      BY <1>5, <2>2
    <3> HIDE DEF g
    <3>2. a2 * g <= x * k2
      BY <1>5, <1>6, <3>1
    <3>3. a1 * g <= a2 * g
      BY <3>1, ProductMonotone
    <3>4. a1 * b2 = a1 * k2 + a1 * g /\ (a1 + x) * k2 = a1 * k2 + x * k2
      BY <1>5, <1>6, <3>1
    <3>5. a1 * g \in Nat /\ a2 * g \in Nat /\ x * k2 \in Nat /\ a1 * k2 \in Nat
      BY <1>5, <1>6, <3>1
    <3> QED BY <3>2, <3>3, <3>4, <3>5
  <2> QED BY <1>5, <2>1, <2>2
<1>9. a1 * b1 <= (a1 + x) * m
  <2> DEFINE g == b1 - b2
  <2>1. g \in Nat /\ b1 = b2 + g /\ m = k2 + g
    BY <1>5
  <2> HIDE DEF g, m
  <2>2. a1 * b1 = a1 * b2 + a1 * g
    BY <2>1
  <2>3. (a1 + x) * m = (a1 + x) * k2 + (a1 * g + x * g)
    BY <1>5, <1>6, <2>1
  <2>4. a1 * b2 \in Nat /\ a1 * g \in Nat /\ x * g \in Nat /\ (a1 + x) * k2 \in Nat
    BY <1>5, <1>6, <2>1
  <2> QED BY <1>8, <2>2, <2>3, <2>4
<1>10. k1 <= m
  BY <1>4, <1>7, <1>9
<1> QED
  BY <1>1, <1>2, <1>4, <1>5, <1>10

\* The quote of a deposit is an amount.
LEMMA DepositQuoteNat ==
  ASSUME NEW seen, seen.A \in Nat, seen.B \in Nat, seen.supply \in Nat,
         NEW most, most["A"] \in Nat, most["B"] \in Nat,
         NEW quote \in DepositQuote(seen, most)
  PROVE  quote \in Nat
<1>1. seen.A # 0 /\ seen.B # 0
  BY DEF DepositQuote
<1> DEFINE a == (most.A * seen.supply) \div seen.A
           b == (most.B * seen.supply) \div seen.B
<1>2. most.A * seen.supply \in Nat /\ most.B * seen.supply \in Nat
  OBVIOUS
<1>3. a \in Nat /\ b \in Nat
  BY <1>1, <1>2, DivBounds
<1>4. quote = IF a <= b THEN a ELSE b
  BY <1>1 DEF DepositQuote
<1> HIDE DEF a, b
<1> QED
  BY <1>3, <1>4

-----------------------------------------------------------------------------
(* What a client's call has read.                                          *)

Calls == [stage : {"idle", "readA", "readB", "send"}, request : Requests \cup {NoRequest},
          seen : [supply : Nat, A : Nat, B : Nat], offers : SUBSET [Tokens -> Nat]]

\* A call is made to an open pool.
InCallOK(s) ==
  IF s.stage = "idle" THEN s = Idle ELSE s.request \in Requests /\ Initialized

CallsInv ==
  /\ TypeInv
  /\ session \in [Clients -> Calls]
  /\ \A u \in Clients : InCallOK(session[u])

LEMMA InitCallsInv == ClientInit => CallsInv
<1> SUFFICES ASSUME ClientInit PROVE CallsInv
  OBVIOUS
<1>1. TypeInv
  BY InitTypeInv DEF ClientInit
<1>2. Idle \in Calls
  BY DEF Idle, Calls
<1> QED
  BY <1>1, <1>2 DEF ClientInit, CallsInv, InCallOK, Idle

-----------------------------------------------------------------------------
(* What the pool does meanwhile.                                           *)

\* The kinds of requests.
LEMMA RequestKinds ==
  ASSUME NEW r \in Requests
  PROVE  /\ r.op = "swap" => r.token \in Tokens /\ r.amount \in Nat /\ r.host \in Hosts
         /\ r.op = "deposit" => r.most \in [Tokens -> Nat]
         /\ r.op = "withdraw" => r.poolTokens \in Nat
<1>1. r \in Askable
  OBVIOUS
<1> QED
  BY <1>1 DEF Askable

\* The landing of a call is an instruction of its client, with some limit.
Instruction(u) ==
  \E limit :
    \/ \E t \in Tokens, amount \in Nat, host \in Hosts :
         Swap(u, u, t, amount, limit, host)
    \/ \E poolTokens \in Nat :
         \/ DepositAllTokenTypes(u, u, poolTokens, limit)
         \/ WithdrawAllTokenTypes(u, u, poolTokens, limit)

LEMMA LandIsInstruction ==
  ASSUME CallsInv, NEW u \in Clients, Land(u)
  PROVE  Instruction(u)
<1> DEFINE r == session[u].request
<1>1. session[u] \in Calls /\ InCallOK(session[u])
  BY DEF CallsInv
<1>2. CASE LandSwap(u)
  <2>1. r.op = "swap" /\ r \in Requests
    BY <1>1, <1>2 DEF LandSwap, Ready, InCallOK
  <2>2. \E quote : Swap(u, u, r.token, r.amount, quote, r.host)
    BY <1>2 DEF LandSwap
  <2> HIDE DEF r
  <2> QED BY <2>1, <2>2, RequestKinds DEF Instruction
<1>3. CASE LandDeposit(u)
  <2>1. r.op = "deposit" /\ r \in Requests
    BY <1>1, <1>3 DEF LandDeposit, Ready, InCallOK
  <2>2. PICK quote \in DepositQuote(session[u].seen, r.most) :
          DepositAllTokenTypes(u, u, quote, r.most)
    BY <1>3 DEF LandDeposit, QuoteOfDeposit
  <2>3. /\ session[u].seen.A \in Nat /\ session[u].seen.B \in Nat
        /\ session[u].seen.supply \in Nat
    BY <1>1 DEF Calls
  <2>4. r.most["A"] \in Nat /\ r.most["B"] \in Nat
    <3> HIDE DEF r
    <3> QED BY <2>1, RequestKinds DEF Tokens
  <2>5. quote \in Nat
    BY <2>2, <2>3, <2>4, DepositQuoteNat
  <2> QED BY <2>2, <2>5 DEF Instruction
<1>4. CASE LandWithdrawal(u)
  <2>1. r.op = "withdraw" /\ r \in Requests
    BY <1>1, <1>4 DEF LandWithdrawal, Ready, InCallOK
  <2>2. \E quote : WithdrawAllTokenTypes(u, u, r.poolTokens, quote)
    BY <1>4 DEF LandWithdrawal
  <2> HIDE DEF r
  <2> QED BY <2>1, <2>2, RequestKinds DEF Instruction
<1> QED
  BY <1>2, <1>3, <1>4 DEF Land

LEMMA InstructionTypeInv ==
  ASSUME TypeInv, NEW u \in Clients, Instruction(u)
  PROVE  TypeInv'
<1>1. u \in Traders /\ u \in LpAccounts
  BY DEF LpAccounts
<1> QED
  BY <1>1, SwapTypeInv, DepositTypeInv, WithdrawTypeInv DEF Instruction

\* A step of a client that only concerns its own call.
Reads(u) ==
  \/ \E request \in Requests : Ask(u, request)
  \/ ReadA(u) \/ ReadB(u) \/ Fail(u)

\* The types stay, and so does the curve of an open pool.
LEMMA StepTypes ==
  ASSUME CallsInv, [ClientNext]_clientVars
  PROVE  TypeInv' /\ (Initialized => curve' = curve)
<1>1. TypeInv
  BY DEF CallsInv
<1>2. CASE UNCHANGED vars
  BY <1>1, <1>2, NextTypeInv DEF vars
<1>3. CASE \E u \in Clients : Land(u)
  <2>1. PICK u \in Clients : Instruction(u)
    BY <1>3, LandIsInstruction
  <2>2. curve' = curve
    BY <2>1 DEF Instruction, Swap, DepositAllTokenTypes, WithdrawAllTokenTypes
  <2> QED BY <1>1, <2>1, <2>2, InstructionTypeInv
<1>4. CASE ClosedNext
  <2>1. TypeInv'
    BY <1>1, <1>4, NextTypeInv DEF ClosedNext, Next
  <2>2. Initialized => Trade \/ Join \/ Exit
    BY <1>4 DEF ClosedNext, Create, Initialize
  <2>3. Initialized => curve' = curve
    BY <2>2 DEF Trade, Join, Exit, Swap, DepositAllTokenTypes, WithdrawAllTokenTypes
  <2> QED BY <2>1, <2>3
<1>5. CASE \E u \in Clients : Reads(u)
  BY <1>2, <1>5 DEF Reads, Ask, ReadA, ReadB, Fail
<1>6. CASE UNCHANGED clientVars
  BY <1>2, <1>6 DEF clientVars, vars
<1> QED
  BY <1>3, <1>4, <1>5, <1>6 DEF ClientNext, Call, Reads

-----------------------------------------------------------------------------
(* What happens to a call.                                                 *)

LEMMA AskEffect ==
  ASSUME CallsInv, NEW u \in Clients, NEW request \in Requests, Ask(u, request)
  PROVE  /\ session'[u] \in Calls
         /\ session'[u].stage = "readA" /\ session'[u].request = request
<1> DEFINE s == session[u]
<1>1. s \in Calls /\ supply \in Nat
  BY StateNat DEF CallsInv
<1>2. session'[u] = [[[s EXCEPT !.stage = "readA"] EXCEPT !.request = request]
                       EXCEPT !.seen = [@ EXCEPT !.supply = supply]]
  BY DEF Ask, CallsInv, Calls
<1> HIDE DEF s
<1>3. session'[u] = [stage |-> "readA", request |-> request,
                     seen |-> [supply |-> supply, A |-> s.seen.A, B |-> s.seen.B],
                     offers |-> s.offers]
  BY <1>1, <1>2 DEF Calls
<1> QED
  BY <1>1, <1>3 DEF Calls

LEMMA ReadAEffect ==
  ASSUME CallsInv, NEW u \in Clients, ReadA(u)
  PROVE  /\ session'[u] \in Calls
         /\ session'[u].stage = "readB" /\ session'[u].request = session[u].request
         /\ session'[u].seen.A = reserve["A"] /\ session'[u].offers = {reserve}
<1> DEFINE s == session[u]
<1>1. /\ s \in Calls /\ reserve["A"] \in Nat
      /\ {reserve} \in SUBSET [Tokens -> Nat]
  BY StateNat DEF CallsInv, TypeInv, TypeOK
<1>2. session'[u] = [[[s EXCEPT !.stage = "readB"]
                         EXCEPT !.seen = [@ EXCEPT !.A = reserve["A"]]]
                         EXCEPT !.offers = {reserve}]
  BY DEF ReadA, CallsInv, Calls
<1>3. session'[u] = [stage |-> "readB", request |-> s.request,
                     seen |-> [supply |-> s.seen.supply, A |-> reserve["A"], B |-> s.seen.B],
                     offers |-> {reserve}]
  <2> HIDE DEF s
  <2> QED BY <1>1, <1>2 DEF Calls
<1> QED
  BY <1>1, <1>3 DEF Calls

LEMMA ReadBEffect ==
  ASSUME CallsInv, NEW u \in Clients, ReadB(u)
  PROVE  /\ session'[u] \in Calls
         /\ session'[u].stage = "send" /\ session'[u].request = session[u].request
         /\ session'[u].seen.A = session[u].seen.A
         /\ session'[u].seen.B = reserve["B"]
         /\ session'[u].offers = session[u].offers \cup {reserve}
<1> DEFINE s == session[u]
<1>1. /\ s \in Calls /\ reserve["B"] \in Nat
      /\ s.offers \cup {reserve} \in SUBSET [Tokens -> Nat]
  BY StateNat DEF CallsInv, TypeInv, TypeOK, Calls
<1>2. session'[u] = [[[s EXCEPT !.stage = "send"]
                         EXCEPT !.seen = [@ EXCEPT !.B = reserve["B"]]]
                         EXCEPT !.offers = @ \cup {reserve}]
  BY DEF ReadB, CallsInv, Calls
<1>3. session'[u] = [stage |-> "send", request |-> s.request,
                     seen |-> [supply |-> s.seen.supply, A |-> s.seen.A, B |-> reserve["B"]],
                     offers |-> s.offers \cup {reserve}]
  <2> HIDE DEF s
  <2> QED BY <1>1, <1>2 DEF Calls
<1> QED
  BY <1>1, <1>3 DEF Calls

\* A step of one client leaves the calls of the others alone.
LEMMA OtherCalls ==
  ASSUME CallsInv, NEW u \in Clients, Call(u)
  PROVE  /\ session' \in [Clients -> {session'[w] : w \in Clients}]
         /\ \A w \in Clients \ {u} : session'[w] = session[w]
  BY DEF CallsInv, Call, Ask, ReadA, ReadB, Land, Fail

\* A call ends as one that was never made.
LEMMA CallEnds ==
  ASSUME CallsInv, NEW u \in Clients, Land(u) \/ Fail(u)
  PROVE  session'[u] = Idle
  BY DEF CallsInv, Land, Fail

LEMMA NextCallsInv == CallsInv /\ [ClientNext]_clientVars => CallsInv'
<1> SUFFICES ASSUME CallsInv, [ClientNext]_clientVars PROVE CallsInv'
  OBVIOUS
<1>1. TypeInv' /\ (Initialized => Initialized')
  BY StepTypes DEF Initialized
<1>2. \A u \in Clients : session[u] \in Calls /\ InCallOK(session[u])
  BY DEF CallsInv
<1>3. ASSUME NEW w \in Clients, session'[w] = session[w] PROVE InCallOK(session[w])'
  BY <1>1, <1>2, <1>3 DEF InCallOK
<1>4. CASE UNCHANGED session
  BY <1>1, <1>3, <1>4 DEF CallsInv
<1>5. CASE \E u \in Clients : Call(u)
  <2>1. PICK u \in Clients : Call(u)
    BY <1>5
  <2>2. session'[u] \in Calls /\ InCallOK(session[u])'
    <3>1. CASE \E request \in Requests : Ask(u, request)
      <4>1. PICK request \in Requests : Ask(u, request)
        BY <3>1
      <4>2. Initialized
        BY <4>1 DEF Ask
      <4> QED BY <1>1, <4>1, <4>2, AskEffect DEF InCallOK
    <3>2. CASE ReadA(u)
      <4>1. session[u].stage # "idle"
        BY <3>2 DEF ReadA
      <4> QED BY <1>1, <1>2, <3>2, <4>1, ReadAEffect DEF InCallOK
    <3>3. CASE ReadB(u)
      <4>1. session[u].stage # "idle"
        BY <3>3 DEF ReadB
      <4> QED BY <1>1, <1>2, <3>3, <4>1, ReadBEffect DEF InCallOK
    <3>4. CASE Land(u) \/ Fail(u)
      <4>1. session'[u] = Idle
        BY <3>4, CallEnds
      <4>2. Idle \in Calls
        BY DEF Idle, Calls
      <4> QED BY <4>1, <4>2 DEF InCallOK, Idle
    <3> QED BY <2>1, <3>1, <3>2, <3>3, <3>4 DEF Call
  <2>3. \A w \in Clients \ {u} : session'[w] \in Calls /\ InCallOK(session[w])'
    BY <1>2, <1>3, <2>1, OtherCalls
  <2>4. session' \in [Clients -> Calls]
    BY <2>1, <2>2, <2>3, OtherCalls
  <2> QED BY <1>1, <2>2, <2>3, <2>4 DEF CallsInv
<1> QED
  BY <1>4, <1>5 DEF ClientNext, clientVars

LEMMA CallsInvariant == ClientSpec => []CallsInv
  BY InitCallsInv, NextCallsInv, PTL DEF ClientSpec

-----------------------------------------------------------------------------
(* Torn reads of a pool that nobody leaves.                                *)

\* The product has not fallen since A was read.
HalfReadOK(s) ==
  s.stage = "readB" /\ ByProduct =>
    \E r \in s.offers : r["A"] = s.seen.A /\ r["A"] * r["B"] <= Product

\* What was read is no better for the client than one of the offers.
ReadOK(s) ==
  s.stage = "send" /\ ByProduct =>
    \E r \in s.offers : s.seen.A <= r["A"] /\ r["B"] <= s.seen.B

StayingInv == CallsInv /\ \A u \in Clients : HalfReadOK(session[u]) /\ ReadOK(session[u])

(***************************************************************************)
(* Only who leaves lowers the product: an instruction that burns no pool   *)
(* tokens never does.                                                      *)
(***************************************************************************)
LEMMA SwapNeverLowers ==
  ASSUME TypeInv, TypeInv', ByProduct, NEW u \in Traders, NEW v \in Traders,
         NEW t \in Tokens, NEW amount \in Nat, NEW minimum, NEW host \in Hosts,
         Swap(u, v, t, amount, minimum, host)
  PROVE  Product <= Product'
<1>1. PICK swapped, poolFee : SwapOutcome(t, amount, swapped, poolFee)
  BY SwapHasOutcome
<1> QED
  BY <1>1, OutcomeProduct

LEMMA DepositNeverLowers ==
  ASSUME TypeInv, TypeInv', ByProduct, NEW u \in Traders, NEW destination \in LpAccounts,
         NEW poolTokens \in Nat, NEW maximum,
         DepositAllTokenTypes(u, destination, poolTokens, maximum)
  PROVE  Product <= Product'
<1>1. PICK paid, minted, shares : DepositOutcome(paid, minted, shares)
  BY DepositHasOutcome
<1>2. \A t \in Tokens : reserve[t] <= reserve'[t] /\ reserve'[t] \in Nat
  BY <1>1, ProductDepositStep, StateNat
<1> QED
  BY <1>2, StateNat, ProductMonotone DEF Product, Tokens

LEMMA WithdrawalBurns ==
  ASSUME TypeInv, TypeInv', ByProduct, NEW source \in LpAccounts, NEW u \in Traders,
         NEW poolTokens \in Nat, NEW minimum, supply <= supply',
         WithdrawAllTokenTypes(source, u, poolTokens, minimum)
  PROVE  Product <= Product'
<1>1. PICK worth, burned : WithdrawOutcome(worth, burned)
  BY WithdrawHasOutcome
<1>2. burned \in Nat /\ supply' = supply - burned /\ supply \in Nat
  BY <1>1, StateNat DEF WithdrawOutcome
<1>3. burned = 0
  BY <1>2
<1>4. \A t \in Tokens : reserve[t] = 0 /\ reserve'[t] \in Nat
  BY <1>1, <1>3, ProductWithdrawStep, StateNat
<1> QED
  BY <1>4 DEF Product, Tokens

LEMMA ProductStays ==
  ASSUME StayingInv, [NobodyLeaves]_clientVars, ByProduct
  PROVE  Product <= Product'
<1>1. CallsInv /\ TypeInv /\ TypeInv' /\ Initialized
  BY StepTypes, CurveKinds DEF StayingInv, CallsInv, NobodyLeaves
<1>2. CASE UNCHANGED vars
  <2>1. Product' = Product /\ Product \in Nat
    BY <1>1, <1>2, StateNat DEF vars, Product
  <2> QED BY <2>1
<1>3. CASE supply <= supply' /\ \E u \in Clients : Land(u)
  <2>1. PICK u \in Clients : Instruction(u)
    BY <1>1, <1>3, LandIsInstruction
  <2>2. u \in Traders /\ u \in LpAccounts
    BY DEF LpAccounts
  <2> QED BY <1>1, <1>3, <2>1, <2>2, SwapNeverLowers, DepositNeverLowers, WithdrawalBurns
          DEF Instruction
<1>4. CASE supply <= supply' /\ ClosedNext
  <2>1. PoolAmounts \subseteq Nat
    OBVIOUS
  <2>2. Trade \/ Join \/ Exit
    BY <1>1, <1>4 DEF ClosedNext, Create, Initialize
  <2>3. CASE Trade
    BY <1>1, <2>3, SwapProduct
  <2>4. CASE Join
    BY <1>1, <2>1, <2>4, DepositNeverLowers DEF Join
  <2>5. CASE Exit
    BY <1>1, <1>4, <2>1, <2>5, WithdrawalBurns DEF Exit
  <2> QED BY <2>2, <2>3, <2>4, <2>5
<1>5. CASE \E u \in Clients : Reads(u)
  BY <1>2, <1>5 DEF Reads, Ask, ReadA, ReadB, Fail
<1>6. CASE UNCHANGED clientVars
  BY <1>2, <1>6 DEF clientVars, vars
<1> QED
  BY <1>3, <1>4, <1>5, <1>6 DEF NobodyLeaves, ClientNext, Call, Reads

\* A call that nobody touches stays as good as it was.
LEMMA CallStays ==
  ASSUME StayingInv, [NobodyLeaves]_clientVars, NEW u \in Clients,
         session'[u] = session[u]
  PROVE  HalfReadOK(session[u])' /\ ReadOK(session[u])'
<1> DEFINE s == session[u]
<1>1. /\ CallsInv /\ s \in Calls /\ InCallOK(s) /\ HalfReadOK(s) /\ ReadOK(s)
      /\ TypeInv /\ TypeInv' /\ (Initialized => curve' = curve)
  BY StepTypes DEF StayingInv, CallsInv, NobodyLeaves
<1>2. s.stage # "idle" => (ByProduct' => ByProduct)
  BY <1>1 DEF InCallOK, ByProduct
<1>3. HalfReadOK(session[u])'
  <2> SUFFICES ASSUME s.stage = "readB", ByProduct'
               PROVE  \E r \in s.offers : /\ r["A"] = s.seen.A
                                          /\ r["A"] * r["B"] <= Product'
    BY DEF HalfReadOK
  <2>1. PICK r \in s.offers : r["A"] = s.seen.A /\ r["A"] * r["B"] <= Product
    BY <1>1, <1>2 DEF HalfReadOK
  <2>2. r["A"] \in Nat /\ r["B"] \in Nat
    BY <1>1, <2>1 DEF Calls, Tokens
  <2>3. Product \in Nat /\ Product' \in Nat /\ Product <= Product'
    BY <1>1, <1>2, ProductStays DEF Product, TypeInv, TypeOK, Tokens
  <2>4. r["A"] * r["B"] \in Nat
    BY <2>2
  <2> HIDE DEF s
  <2> QED BY <2>1, <2>3, <2>4
<1>4. ReadOK(session[u])'
  BY <1>1, <1>2 DEF ReadOK
<1> QED
  BY <1>3, <1>4

\* A product that has not fallen tells which factor has grown.
LEMMA ProductTells ==
  ASSUME NEW a1 \in Nat, NEW b1 \in Nat, NEW a2 \in Nat, NEW b2 \in Nat,
         a1 * b1 <= a2 * b2, b2 < b1
  PROVE  a1 <= a2
<1>1. SUFFICES ASSUME a2 + 1 <= a1 PROVE FALSE
  OBVIOUS
<1>2. (a2 + 1) * (b2 + 1) <= a1 * b1
  BY <1>1, ProductMonotone
<1>3. (a2 + 1) * (b2 + 1) = a2 * b2 + a2 + b2 + 1
  OBVIOUS
<1>4. a2 * b2 \in Nat /\ a1 * b1 \in Nat
  OBVIOUS
<1> QED
  BY <1>2, <1>3, <1>4

(***************************************************************************)
(* The second read.  If B has grown since the first, that read was the     *)
(* worse offer; if it has fallen, A must have grown, because the product   *)
(* has not fallen, and this read is the worse one.                         *)
(***************************************************************************)
LEMMA ReadBIsOK ==
  ASSUME StayingInv, [NobodyLeaves]_clientVars, NEW u \in Clients, ReadB(u)
  PROVE  HalfReadOK(session[u])' /\ ReadOK(session[u])'
<1> DEFINE s == session[u]
<1>1. /\ CallsInv /\ TypeInv /\ s \in Calls /\ s.stage = "readB"
      /\ InCallOK(s) /\ HalfReadOK(s) /\ (Initialized => curve' = curve)
      /\ reserve["A"] \in Nat /\ reserve["B"] \in Nat
  BY StepTypes, StateNat DEF StayingInv, CallsInv, ReadB, NobodyLeaves
<1>2. /\ session'[u].stage = "send"
      /\ session'[u].seen.A = s.seen.A /\ session'[u].seen.B = reserve["B"]
      /\ session'[u].offers = s.offers \cup {reserve}
  BY <1>1, ReadBEffect
<1>3. ByProduct' => ByProduct
  BY <1>1 DEF InCallOK, ByProduct
<1>4. ASSUME ByProduct
      PROVE  \E r \in s.offers \cup {reserve} : s.seen.A <= r["A"] /\ r["B"] <= reserve["B"]
  <2>1. PICK r \in s.offers : r["A"] = s.seen.A /\ r["A"] * r["B"] <= Product
    BY <1>1, <1>4 DEF HalfReadOK
  <2>2. r["A"] \in Nat /\ r["B"] \in Nat
    BY <1>1, <2>1 DEF Calls, Tokens
  <2> HIDE DEF s
  <2>3. CASE r["B"] <= reserve["B"]
    BY <2>1, <2>2, <2>3
  <2>4. CASE reserve["B"] < r["B"]
    <3>1. r["A"] <= reserve["A"]
      BY <1>1, <2>1, <2>2, <2>4, ProductTells DEF Product
    <3> QED BY <1>1, <2>1, <3>1
  <2> QED BY <1>1, <2>2, <2>3, <2>4
<1> QED
  BY <1>2, <1>3, <1>4 DEF HalfReadOK, ReadOK

LEMMA NextStayingInv == StayingInv /\ [NobodyLeaves]_clientVars => StayingInv'
<1> SUFFICES ASSUME StayingInv, [NobodyLeaves]_clientVars PROVE StayingInv'
  OBVIOUS
<1>1. CallsInv /\ CallsInv'
  BY NextCallsInv DEF StayingInv, NobodyLeaves
<1>2. CASE UNCHANGED session
  <2>1. \A u \in Clients : session'[u] = session[u]
    BY <1>2
  <2> QED BY <1>1, <2>1, CallStays DEF StayingInv
<1>3. CASE \E u \in Clients : Call(u)
  <2>1. PICK u \in Clients : Call(u)
    BY <1>3
  <2>2. HalfReadOK(session[u])' /\ ReadOK(session[u])'
    <3>1. CASE \E request \in Requests : Ask(u, request)
      BY <1>1, <3>1, AskEffect DEF HalfReadOK, ReadOK
    <3>2. CASE ReadA(u)
      <4>1. Product' = Product /\ Product \in Nat
        BY <1>1, <3>2, StateNat DEF ReadA, vars, Product, CallsInv
      <4>2. reserve["A"] * reserve["B"] <= Product'
        BY <4>1 DEF Product
      <4> QED BY <1>1, <3>2, <4>2, ReadAEffect DEF HalfReadOK, ReadOK
    <3>3. CASE Land(u) \/ Fail(u)
      BY <1>1, <3>3, CallEnds DEF HalfReadOK, ReadOK, Idle
    <3> QED BY <2>1, <3>1, <3>2, <3>3, ReadBIsOK DEF Call
  <2>3. \A w \in Clients \ {u} : HalfReadOK(session[w])' /\ ReadOK(session[w])'
    BY <1>1, <2>1, OtherCalls, CallStays
  <2> QED BY <1>1, <2>2, <2>3 DEF StayingInv
<1> QED
  BY <1>2, <1>3 DEF NobodyLeaves, ClientNext, clientVars

LEMMA InitStayingInv == ClientInit => StayingInv
  BY InitCallsInv DEF ClientInit, StayingInv, HalfReadOK, ReadOK, Idle

-----------------------------------------------------------------------------
(* What a sale of A pays.                                                  *)

\* Nothing is sold for nothing.
LEMMA NothingForNothing ==
  ASSUME NEW S \in Nat, NEW D \in Nat, NEW r \in ConstantProductSwap(0, S, D)
  PROVE  FALSE
<1>1. /\ r.source = 0 /\ r.destination \in Nat \ {0}
      /\ S * D <= (S + r.source) * (D - r.destination)
      /\ r.destination <= D
  BY ConstantProductSwapBounds
<1>2. PICK c \in CheckedCeilDiv(S * D, S) : TRUE
  BY DEF ConstantProductSwap
<1>3. S > 0
  <2>1. S * D \in Nat
    OBVIOUS
  <2> QED BY <1>2, <2>1, CheckedCeilDivBounds
<1>4. S * (D - r.destination) < S * D
  BY <1>1, <1>3
<1>5. S * (D - r.destination) \in Int /\ S * D \in Int
  BY <1>1
<1> QED
  BY <1>1, <1>4, <1>5

\* A sale that goes through leaves something after the fees, and pays the quote.
LEMMA SaleFacts ==
  ASSUME TypeInv, ByProduct, NEW u \in Traders, NEW amount \in Nat, NEW minimum,
         NEW host \in Hosts, Swap(u, u, "A", amount, minimum, host)
  PROVE  /\ Net(amount) \in Nat
         /\ minimum <= wallet'[u]["B"] - wallet[u]["B"]
         /\ wallet'[u]["B"] - wallet[u]["B"] \in Nat
<1> DEFINE S == reserve["A"]
           D == reserve["B"]
           total == TradingFee(FEES, amount) + OwnerTradingFee(FEES, amount)
<1>1. /\ curve \in SwapCurves /\ ValidCurve(curve) /\ curve.type = "ConstantProduct"
      /\ S \in Nat /\ D \in Nat /\ ValidFees(FEES)
      /\ wallet \in [Traders -> [Tokens -> Nat]]
  BY CurveKinds, StateNat DEF ByProduct, TypeInv, TypeOK
<1>2. PICK swapped \in SwapWithFees(curve, FEES, amount, S, D, "AtoB") :
        /\ minimum <= swapped.destination
        /\ wallet' = [[wallet EXCEPT ![u]["A"] = @ - swapped.source]
                         EXCEPT ![u]["B"] = @ + swapped.destination]
  BY DEF Swap, Exchanges, When, None, Other, Direction
<1>3. /\ swapped.source \in Nat /\ swapped.source <= amount
      /\ swapped.destination \in Nat \ {0} /\ swapped.destination <= D
  BY <1>1, <1>2, SwapBounds
<1>4. wallet'[u]["B"] = wallet[u]["B"] + swapped.destination
  BY <1>1, <1>2 DEF Tokens
<1>5. total < amount
  <2>1. total \in Nat
    BY <1>1, FeeBounds DEF ValidFees, TradingFee, OwnerTradingFee
  <2>2. total <= amount
    BY <1>2 DEF SwapWithFees, When, None
  <2>3. SUFFICES ASSUME amount - total = 0 PROVE FALSE
    BY <2>1, <2>2
  <2>4. PICK s \in ConstantProductSwap(0, S, D) : TRUE
    BY <1>1, <1>2, <2>2, <2>3 DEF SwapWithFees, SwapWithoutFees, When
  <2> QED BY <1>1, <2>4, NothingForNothing
<1>6. Net(amount) \in Nat
  BY <1>5, NetIsNat
<1>7. wallet'[u]["B"] - wallet[u]["B"] = swapped.destination
  <2>1. wallet[u]["B"] \in Nat
    BY <1>1 DEF Tokens
  <2> QED BY <1>3, <1>4, <2>1
<1> QED
  BY <1>2, <1>3, <1>6, <1>7

\* The call of a client ends with a payment only when its transaction lands.
LEMMA OnlyLandingPays ==
  ASSUME StayingInv, NobodyLeaves, NEW u \in Clients,
         session[u].request.op = "swap", session'[u] = Idle,
         wallet'[u]["B"] > wallet[u]["B"]
  PROVE  Land(u)
<1>1. session \in [Clients -> Calls] /\ wallet[u]["B"] \in Nat
  BY StateNat DEF StayingInv, CallsInv, Tokens
<1>2. session'[u] # session[u]
  BY DEF Idle, NoRequest
<1>3. wallet' # wallet
  BY <1>1
<1>4. PICK w \in Clients : Call(w)
  BY <1>2 DEF NobodyLeaves, ClientNext
<1>5. Land(w)
  BY <1>3, <1>4 DEF Call, Ask, ReadA, ReadB, Fail, vars
<1>6. w = u
  BY <1>1, <1>2, <1>5 DEF Land
<1> QED
  BY <1>5, <1>6

(***************************************************************************)
(* The reserves are read one after the other, and the pool goes on in      *)
(* between, but as long as nobody leaves it, a sale of A that goes through *)
(* pays at least what the client would have been quoted at one of the two  *)
(* moments.                                                                *)
(***************************************************************************)
THEOREM SalesPayAnOffer == StayingSpec => SaleOfAPaysAnOffer
<1>1. StayingSpec => []StayingInv
  BY InitStayingInv, NextStayingInv, PTL DEF StayingSpec
<1>2. StayingInv /\ [NobodyLeaves]_clientVars =>
        [\A u \in Clients :
           LET r == session[u].request
           IN  r.op = "swap" /\ r.token = "A" /\ ByProduct /\ session'[u] = Idle
               /\ wallet'[u]["B"] > wallet[u]["B"] =>
                 \E offer \in session[u].offers :
                   \A quote \in SwapQuote(FEES, r.amount, offer["A"], offer["B"]) :
                     quote <= wallet'[u]["B"] - wallet[u]["B"]]_clientVars
  <2> SUFFICES ASSUME StayingInv, NobodyLeaves, NEW u \in Clients,
                      session[u].request.op = "swap", session[u].request.token = "A",
                      ByProduct, session'[u] = Idle,
                      wallet'[u]["B"] > wallet[u]["B"]
               PROVE  \E offer \in session[u].offers :
                        \A quote \in SwapQuote(FEES, session[u].request.amount,
                                               offer["A"], offer["B"]) :
                          quote <= wallet'[u]["B"] - wallet[u]["B"]
    OBVIOUS
  <2> DEFINE r == session[u].request
             s == session[u].seen
             paid == wallet'[u]["B"] - wallet[u]["B"]
  <2>1. /\ TypeInv /\ session \in [Clients -> Calls] /\ InCallOK(session[u]) /\ ReadOK(session[u])
        /\ wallet[u]["B"] \in Nat /\ u \in Traders
    BY StateNat DEF StayingInv, CallsInv, Tokens
  <2>2. Land(u)
    BY OnlyLandingPays
  <2>3. session[u].stage = "send" /\ r \in Requests
    BY <2>1, <2>2 DEF Land, LandSwap, LandDeposit, LandWithdrawal, Ready, InCallOK
  <2>4. PICK minimum \in SwapQuote(FEES, r.amount, s.A, s.B) :
          Swap(u, u, "A", r.amount, minimum, r.host)
    BY <2>2 DEF Land, LandSwap, LandDeposit, LandWithdrawal, Ready, QuoteOfSwap, Other
  <2>5. r.amount \in Nat /\ r.host \in Hosts
    BY <2>3, RequestKinds
  <2>6. Net(r.amount) \in Nat /\ paid \in Nat /\ minimum <= paid
    <3> HIDE DEF r, s
    <3> QED BY <2>1, <2>4, <2>5, SaleFacts
  <2>7. PICK offer \in session[u].offers : s.A <= offer["A"] /\ offer["B"] <= s.B
    BY <2>1, <2>3 DEF ReadOK
  <2>8. s.A \in Nat /\ s.B \in Nat /\ offer["A"] \in Nat /\ offer["B"] \in Nat
    BY <2>1, <2>7 DEF Calls, Tokens
  <2>9. ASSUME NEW quote \in SwapQuote(FEES, r.amount, offer["A"], offer["B"])
        PROVE  quote <= paid
    <3> HIDE DEF r, s, paid
    <3>1. quote \in Int /\ minimum \in Int /\ quote <= minimum
      BY <2>4, <2>5, <2>6, <2>7, <2>8, <2>9, QuoteMonotone
    <3> QED BY <2>6, <3>1
  <2> QED BY <2>7, <2>9
<1> QED
  BY <1>1, <1>2, PTL DEF StayingSpec, SaleOfAPaysAnOffer

-----------------------------------------------------------------------------
(* A quote of the pool as it is.                                           *)

ClientInv == CallsInv /\ SupplyIsHeld

LEMMA ClientHeld ==
  ASSUME ClientInv, [ClientNext]_clientVars
  PROVE  SupplyIsHeld'
<1>1. SupplyInv /\ TypeInv'
  BY StepTypes DEF ClientInv, CallsInv, SupplyInv
<1>2. CASE UNCHANGED vars
  BY <1>1, <1>2, UnchangedHeld DEF vars
<1>3. CASE \E u \in Clients : Land(u)
  <2>1. PICK u \in Clients : Instruction(u)
    BY <1>3, LandIsInstruction DEF ClientInv
  <2>2. u \in Traders /\ u \in LpAccounts
    BY DEF LpAccounts
  <2> QED BY <1>1, <2>1, <2>2, SwapHeld, DepositHeld, WithdrawHeld DEF Instruction
<1>4. CASE ClosedNext
  BY <1>1, <1>4, NextSupplyInv DEF ClosedNext, Next, SupplyInv
<1>5. CASE \E u \in Clients : Reads(u)
  BY <1>2, <1>5 DEF Reads, Ask, ReadA, ReadB, Fail
<1>6. CASE UNCHANGED clientVars
  BY <1>2, <1>6 DEF clientVars, vars
<1> QED
  BY <1>3, <1>4, <1>5, <1>6 DEF ClientNext, Call, Reads

LEMMA ClientInvariant == ClientSpec => []ClientInv
<1>1. ClientInit => ClientInv
  BY InitCallsInv, InitSupplyInv DEF ClientInit, ClientInv, SupplyInv
<1>2. ClientInv /\ [ClientNext]_clientVars => ClientInv'
  BY NextCallsInv, ClientHeld DEF ClientInv
<1> QED
  BY <1>1, <1>2, PTL DEF ClientSpec

\* What a call that is fresh has in hand.
LEMMA FreshFacts ==
  ASSUME ClientInv, ByProduct, NEW u \in Clients, NEW op, Fresh(u, op)
  PROVE  /\ TypeInv /\ Initialized /\ curve \in SwapCurves /\ curve.type = "ConstantProduct"
         /\ u \in Traders /\ u \in LpAccounts /\ u # FeeAccount
         /\ session[u].request \in Requests /\ session[u].request.op = op
         /\ session[u].seen = [supply |-> supply, A |-> reserve["A"], B |-> reserve["B"]]
         /\ supply \in Nat \ {0} /\ 2 * supply <= U64Max
         /\ lp \in [LpAccounts -> 0 .. supply]
         /\ \A t \in Tokens :
              /\ reserve[t] \in 0 .. U64Max /\ wallet[u][t] \in Nat
              /\ \A n \in 0 .. reserve[t] : CanReceive(u, t, n)
              /\ \A n \in 0 .. wallet[u][t] : CanTakeIn(t, n)
<1>1. /\ TypeInv /\ Initialized /\ curve \in SwapCurves /\ curve.type = "ConstantProduct"
      /\ session[u] \in Calls /\ InCallOK(session[u])
      /\ supply = SumFunction(lp)
  BY CurveKinds DEF ClientInv, CallsInv, SupplyIsHeld, ByProduct
<1>2. u \in Traders /\ u \in LpAccounts /\ u # FeeAccount
  BY DEF LpAccounts
<1>3. session[u].request \in Requests /\ session[u].request.op = op
  BY <1>1 DEF Fresh, Ready, InCallOK
<1>4. lp \in [LpAccounts -> Nat] /\ supply \in Nat
  BY <1>1 DEF TypeInv, TypeOK
<1>5. \A l \in LpAccounts : lp[l] <= supply
  BY <1>1, <1>4, SumAtLeast, LpAccountsFinite
<1>6. ASSUME NEW t \in Tokens
      PROVE  /\ reserve[t] \in 0 .. U64Max /\ wallet[u][t] \in Nat
             /\ \A n \in 0 .. reserve[t] : CanReceive(u, t, n)
             /\ \A n \in 0 .. wallet[u][t] : CanTakeIn(t, n)
  BY <1>1, <1>2, StateNat, RoomForPayments DEF Fresh
<1> QED
  BY <1>1, <1>2, <1>3, <1>4, <1>5, <1>6 DEF Fresh

\* As many pool tokens as there are can still be minted, or paid as a fee.
LEMMA RoomForPoolTokens ==
  ASSUME supply \in Nat, 2 * supply <= U64Max, lp \in [LpAccounts -> 0 .. supply],
         NEW n \in 0 .. supply
  PROVE  /\ Mintable(n)
         /\ \A l \in LpAccounts : PoolTokensFit([lp EXCEPT ![l] = @ + n])
         /\ \A l \in LpAccounts, m \in 0 .. n, k \in LpAccounts :
              PoolTokensFit([[lp EXCEPT ![l] = @ + m] EXCEPT ![k] = @ + (n - m)])
<1>1. \A x \in LpAccounts : lp[x] \in 0 .. supply
  OBVIOUS
<1>2. ASSUME NEW l \in LpAccounts, NEW m \in 0 .. n, NEW k \in LpAccounts, NEW x \in LpAccounts
      PROVE  [[lp EXCEPT ![l] = @ + m] EXCEPT ![k] = @ + (n - m)][x]
               \in {lp[x], lp[x] + m, lp[x] + (n - m), lp[x] + m + (n - m)}
  OBVIOUS
<1>3. ASSUME NEW x \in LpAccounts, NEW m \in 0 .. n
      PROVE  {lp[x], lp[x] + m, lp[x] + (n - m), lp[x] + m + (n - m)} \subseteq 0 .. U64Max
  BY <1>1
<1>4. ASSUME NEW l \in LpAccounts, NEW x \in LpAccounts
      PROVE  [lp EXCEPT ![l] = @ + n][x] \in 0 .. U64Max
  BY <1>1
<1> QED
  BY <1>2, <1>3, <1>4 DEF Mintable, IsU64, PoolTokensFit

\* A fee that is whole is the fraction rounded down.
LEMMA WholeFee ==
  ASSUME NEW n \in Nat, NEW f \in Fraction, ValidFraction(f), f.den # 0, FeeIsWhole(f, n)
  PROVE  /\ CalculateFee(n, f) = (n * f.num) \div f.den
         /\ CalculateFee(n, f) \in 1 .. n
<1>1. f.num \in Nat /\ f.den \in Nat \ {0}
  BY DEF Fraction
<1> DEFINE x == n * f.num
           d == f.den
           q == x \div d
<1>2. x \in Nat /\ d \in Nat \ {0} /\ d <= x
  BY <1>1 DEF FeeIsWhole
<1>3. q \in Nat /\ x < d * q + d
  <2> HIDE DEF x, d
  <2> QED BY <1>2, DivBounds
<1>4. q # 0
  <2> HIDE DEF x, d, q
  <2> QED BY <1>2, <1>3
<1>5. f.num # 0 /\ n # 0
  BY <1>1, <1>2
<1>6. CalculateFee(n, f) = q
  BY <1>4, <1>5 DEF CalculateFee
<1> HIDE DEF q
<1>7. CalculateFee(n, f) <= n
  BY FeeBounds
<1> QED
  BY <1>3, <1>4, <1>6, <1>7 DEF q

(***************************************************************************)
(* A fresh withdrawal: the service computes the very fee and the very      *)
(* shares of the reserves that the program does.                           *)
(***************************************************************************)
LEMMA WithdrawalLands ==
  ASSUME ClientInv, ByProduct, NEW u \in Clients, Fresh(u, "withdraw"), WithdrawalIsSound(u)
  PROVE  Accepted(u)
<1> DEFINE n == session[u].request.poolTokens
           fee == WithdrawFee(u, n)
           burned == n - fee
           worth == [A |-> (burned * reserve["A"]) \div supply,
                     B |-> (burned * reserve["B"]) \div supply]
<1>1. /\ TypeInv /\ Initialized /\ curve.type = "ConstantProduct"
      /\ u # FeeAccount /\ u \in LpAccounts
      /\ session[u].request \in Requests /\ session[u].request.op = "withdraw"
      /\ session[u].seen = [supply |-> supply, A |-> reserve["A"], B |-> reserve["B"]]
      /\ supply \in Nat \ {0} /\ 2 * supply <= U64Max
      /\ lp \in [LpAccounts -> 0 .. supply]
      /\ \A t \in Tokens : /\ reserve[t] \in 0 .. U64Max
                           /\ \A m \in 0 .. reserve[t] : CanReceive(u, t, m)
  BY FreshFacts
<1>2. n \in Nat /\ n <= lp[u] /\ lp[u] \in 0 .. supply
  BY <1>1, RequestKinds DEF WithdrawalIsSound
<1>3. fee \in 0 .. n /\ fee = ServiceWithdrawFee(n)
  <2>1. /\ FEES.withdraw \in Fraction /\ ValidFraction(FEES.withdraw)
        /\ FEES.withdraw.den = 0 => FEES.withdraw.num = 0
    BY DEF ValidFees, ValidFraction, Fraction
  <2>2. fee = CalculateFee(n, FEES.withdraw)
    BY <1>1 DEF WithdrawFee, OwnerWithdrawFee
  <2>3. CASE FEES.withdraw.num = 0
    BY <1>2, <2>2, <2>3 DEF CalculateFee, ServiceWithdrawFee
  <2>4. CASE FEES.withdraw.num # 0
    <3>1. FeeIsWhole(FEES.withdraw, n)
      BY <2>4 DEF WithdrawalIsSound
    <3> QED BY <1>2, <2>1, <2>2, <2>4, <3>1, WholeFee DEF ServiceWithdrawFee
  <2> QED BY <2>3, <2>4
<1> HIDE DEF n, fee
<1>4. burned \in 0 .. supply
  BY <1>1, <1>2, <1>3
<1> HIDE DEF burned
<1>5. worth \in QuoteOfWithdrawal(u) /\ \A t \in Tokens : worth[t] > 0
  <2>1. QuoteOfWithdrawal(u) = {worth}
    BY <1>1, <1>3 DEF QuoteOfWithdrawal, WithdrawQuote, n, burned
  <2> QED BY <2>1 DEF WithdrawalIsSound
<1>6. worth \in PoolTokensToTradingTokens(curve, burned, supply, reserve["A"], reserve["B"],
                                          "Floor")
  <2>1. ProRata(burned, supply, reserve["A"], "Floor") = worth.A
    BY DEF ProRata
  <2>2. ProRata(burned, supply, reserve["B"], "Floor") = worth.B
    BY DEF ProRata
  <2>3. ConstantProductTradingTokens(burned, supply, reserve["A"], reserve["B"], "Floor")
          = {worth}
    BY <1>1, <2>1, <2>2 DEF ConstantProductTradingTokens, When, Some
  <2> QED BY <1>1, <2>3 DEF PoolTokensToTradingTokens
<1>7. ASSUME NEW t \in Tokens PROVE worth[t] \in 0 .. reserve[t]
  <2> DEFINE r == reserve[t]
             w == (burned * r) \div supply
  <2>1. r \in Nat /\ worth[t] = w
    BY <1>1 DEF Tokens
  <2>2. burned * r \in Nat /\ burned * r <= supply * r
    BY <1>1, <1>4, <2>1, ProductMonotone
  <2>3. w \in Nat /\ supply * w <= burned * r
    BY <1>1, <2>2, DivBounds
  <2> HIDE DEF r, w
  <2>4. supply * w <= supply * r
    <3>1. supply * w \in Nat /\ supply * r \in Nat /\ burned * r \in Nat
      BY <1>1, <2>1, <2>2, <2>3
    <3> QED BY <2>2, <2>3, <3>1
  <2>5. w <= r
    <3>1. SUFFICES ASSUME r + 1 <= w PROVE FALSE
      BY <2>1, <2>3
    <3>2. supply * (r + 1) <= supply * w
      BY <1>1, <2>1, <2>3, <3>1, ProductMonotone
    <3> QED BY <1>1, <2>1, <2>3, <2>4, <3>2
  <2> QED BY <2>1, <2>3, <2>5 DEF r
<1>8. PoolTokensFit(PoolTokensAfter(u, n, fee))
  <2>1. \A l \in LpAccounts : lp[l] \in 0 .. supply
    BY <1>1
  <2>2. ASSUME NEW l \in LpAccounts PROVE PoolTokensAfter(u, n, fee)[l] \in 0 .. U64Max
    <3>1. PoolTokensAfter(u, n, fee)[l]
            = IF l = u THEN lp[u] - n ELSE IF l = FeeAccount THEN lp[l] + fee ELSE lp[l]
      BY <1>1 DEF PoolTokensAfter
    <3> QED BY <1>1, <1>2, <1>3, <2>1, <3>1
  <2> QED BY <2>2 DEF PoolTokensFit, IsU64
<1> DEFINE received == [t \in Tokens |-> Lesser(reserve[t], worth[t])]
<1>9. \A t \in Tokens : /\ received[t] = worth[t] /\ worth[t] > 0 /\ worth[t] \in Nat
                        /\ worth[t] <= U64Max /\ worth[t] <= reserve[t]
                        /\ CanReceive(u, t, worth[t])
  BY <1>1, <1>5, <1>7 DEF Lesser
<1>10. received \in Redeemed(u, u, n, worth)
  <2> HIDE DEF worth
  <2>1. fee <= n /\ n <= lp[u] /\ burned <= supply
    BY <1>1, <1>2, <1>3, <1>4
  <2>2. worth \in { w \in PoolTokensToTradingTokens(curve, burned, supply, reserve["A"],
                                                    reserve["B"], "Floor") :
                      \A t \in Tokens : w[t] <= U64Max }
    BY <1>6, <1>9
  <2> HIDE DEF received
  <2>3. \A t \in Tokens : /\ worth[t] <= received[t]
                          /\ received[t] = 0 => reserve[t] = 0
                          /\ CanPayOut(t, received[t])
                          /\ CanReceive(u, t, received[t])
    BY <1>9 DEF CanPayOut
  <2>4. received \in { [t \in Tokens |-> Lesser(reserve[t], w[t])] :
                         w \in { w \in PoolTokensToTradingTokens(curve, burned, supply,
                                                 reserve["A"], reserve["B"], "Floor") :
                                   \A t \in Tokens : w[t] <= U64Max } }
    BY <2>2 DEF received
  <2> QED BY <1>1, <1>8, <2>1, <2>3, <2>4 DEF Redeemed, When, fee, burned
<1> QED
  BY <1>5, <1>10 DEF Accepted, Fresh, n

(***************************************************************************)
(* However many others use the pool: a withdrawal quoted by the service for *)
(* the pool as it still is gets the program's approval.                    *)
(***************************************************************************)
THEOREM FreshWithdrawalsLand == ClientSpec => []FreshWithdrawalLands
<1>1. ClientInv => FreshWithdrawalLands
  BY WithdrawalLands DEF FreshWithdrawalLands
<1> QED
  BY <1>1, ClientInvariant, PTL

\* What n pool tokens of s cost of a reserve r, when they are worth a token at
\* least and m tokens are worth as much.
LEMMA CeilingFits ==
  ASSUME NEW n \in Nat, NEW s \in Nat \ {0}, NEW r \in Nat, NEW m \in Nat,
         s <= n * r, n * r <= s * m
  PROVE  ProRata(n, s, r, "Ceiling") \in 1 .. m
<1> DEFINE x == n * r
           q == x \div s
<1>1. x \in Nat /\ s <= x /\ x <= s * m
  OBVIOUS
<1>2. /\ ProRata(n, s, r, "Ceiling") = IF x % s > 0 /\ q > 0 THEN q + 1 ELSE q
  BY DEF ProRata
<1> HIDE DEF x
<1>3. q \in Nat /\ s * q <= x /\ x < s * q + s
  BY <1>1, DivBounds
<1>4. x % s > 0 => s * q < x
  BY <1>1
<1> HIDE DEF q
<1>5. q # 0
  BY <1>1, <1>3
<1>6. q <= m
  <2>1. SUFFICES ASSUME m + 1 <= q PROVE FALSE
    BY <1>3
  <2>2. s * (m + 1) <= s * q
    BY <1>3, <2>1, ProductMonotone
  <2> QED BY <1>1, <1>3, <2>2
<1>7. x % s > 0 => q < m
  <2>1. SUFFICES ASSUME s * q < x, m <= q PROVE FALSE
    BY <1>3, <1>4
  <2>2. s * m <= s * q
    BY <1>3, <2>1, ProductMonotone
  <2> QED BY <1>1, <1>3, <2>1, <2>2
<1> QED
  BY <1>2, <1>3, <1>5, <1>6, <1>7

(***************************************************************************)
(* A fresh deposit: the pool tokens asked for, the lesser of the two       *)
(* shares rounded down, cost no more than is offered of either token.      *)
(***************************************************************************)
LEMMA DepositLands ==
  ASSUME ClientInv, ByProduct, NEW u \in Clients, Fresh(u, "deposit"), DepositIsSound(u)
  PROVE  Accepted(u)
<1> DEFINE most == session[u].request.most
<1>1. /\ TypeInv /\ Initialized /\ curve.type = "ConstantProduct"
      /\ u \in Traders /\ u \in LpAccounts
      /\ session[u].request \in Requests /\ session[u].request.op = "deposit"
      /\ session[u].seen = [supply |-> supply, A |-> reserve["A"], B |-> reserve["B"]]
      /\ supply \in Nat \ {0} /\ 2 * supply <= U64Max
      /\ lp \in [LpAccounts -> 0 .. supply]
      /\ \A t \in Tokens : /\ reserve[t] \in Nat /\ wallet[u][t] \in Nat
                           /\ \A m \in 0 .. wallet[u][t] : CanTakeIn(t, m)
  BY FreshFacts
<1>2. most \in [Tokens -> Nat] /\ \A t \in Tokens : CanPay(u, t, most[t])
  BY <1>1, RequestKinds DEF DepositIsSound
<1>3. PICK quote \in DepositQuote(session[u].seen, most) :
        quote <= supply /\ \A t \in Tokens : quote * reserve[t] >= supply
  BY DEF DepositIsSound, QuoteOfDeposit
<1> HIDE DEF most
<1>4. /\ quote \in 0 .. supply
      /\ \A t \in Tokens : quote * reserve[t] <= supply * most[t]
  <2> DEFINE share(t) == (most[t] * supply) \div reserve[t]
  <2>1. reserve["A"] # 0 /\ reserve["B"] # 0
    BY <1>1, <1>3 DEF DepositQuote
  <2>2. quote = IF share("A") <= share("B") THEN share("A") ELSE share("B")
    <3>1. most.A = most["A"] /\ most.B = most["B"]
      OBVIOUS
    <3> QED BY <1>1, <1>3, <2>1, <3>1 DEF DepositQuote
  <2>3. ASSUME NEW t \in Tokens
        PROVE  share(t) \in Nat /\ reserve[t] * share(t) <= most[t] * supply
    <3>1. most[t] \in Nat /\ most[t] * supply \in Nat /\ reserve[t] \in Nat \ {0}
      BY <1>1, <1>2, <2>1 DEF Tokens
    <3> QED BY <3>1, DivBounds
  <2> HIDE DEF share
  <2>4. "A" \in Tokens /\ "B" \in Tokens
    BY DEF Tokens
  <2>5. quote \in Nat /\ quote <= share("A") /\ quote <= share("B")
    BY <2>2, <2>3, <2>4
  <2>6. ASSUME NEW t \in Tokens PROVE quote * reserve[t] <= supply * most[t]
    <3>1. quote <= share(t) /\ share(t) \in Nat /\ reserve[t] \in Nat /\ most[t] \in Nat
      BY <1>1, <1>2, <2>3, <2>5 DEF Tokens
    <3>2. quote * reserve[t] <= share(t) * reserve[t]
      BY <2>5, <3>1, ProductMonotone
    <3>3. /\ quote * reserve[t] \in Nat /\ share(t) * reserve[t] \in Nat
          /\ most[t] * supply = supply * most[t]
          /\ share(t) * reserve[t] = reserve[t] * share(t)
          /\ most[t] * supply \in Nat
      BY <1>1, <2>5, <3>1
    <3> QED BY <2>3, <3>2, <3>3
  <2> QED BY <1>3, <2>5, <2>6
<1> DEFINE paid == [A |-> ProRata(quote, supply, reserve["A"], "Ceiling"),
                    B |-> ProRata(quote, supply, reserve["B"], "Ceiling")]
<1>5. paid \in PoolTokensToTradingTokens(curve, quote, supply, reserve["A"], reserve["B"],
                                         "Ceiling")
  BY <1>1 DEF PoolTokensToTradingTokens, ConstantProductTradingTokens, When, Some
<1>6. ASSUME NEW t \in Tokens PROVE paid[t] \in 1 .. most[t]
  <2>1. paid[t] = ProRata(quote, supply, reserve[t], "Ceiling")
    BY DEF Tokens
  <2>2. supply <= quote * reserve[t]
    <3>1. quote * reserve[t] >= supply /\ quote * reserve[t] \in Nat
      BY <1>1, <1>3, <1>4
    <3> QED BY <1>1, <3>1
  <2> QED BY <1>1, <1>2, <1>4, <2>1, <2>2, CeilingFits
<1> HIDE DEF paid
<1>7. Acceptable(u, paid, most)
  <2>1. ASSUME NEW t \in Tokens
        PROVE  /\ 0 < paid[t] /\ paid[t] <= most[t]
               /\ CanPay(u, t, paid[t]) /\ CanTakeIn(t, paid[t])
    BY <1>1, <1>2, <1>6 DEF CanPay
  <2> QED BY <2>1 DEF Acceptable
<1>8. Mintable(quote) /\ PoolTokensFit([lp EXCEPT ![u] = @ + quote])
  BY <1>1, <1>4, RoomForPoolTokens
<1>9. Minted(quote) = quote /\ AllowsDeposits(curve)
  BY <1>1 DEF Minted, AllowsDeposits
<1>10. paid \in Charges(u, u, quote, most)
  BY <1>1, <1>5, <1>7, <1>8, <1>9 DEF Charges, When
<1> QED
  BY <1>3, <1>10 DEF Accepted, Fresh, QuoteOfDeposit, most

(***************************************************************************)
(* However many others use the pool: a deposit quoted by the service for the *)
(* pool as it still is costs no more than the client offered.              *)
(***************************************************************************)
THEOREM FreshDepositsLand == ClientSpec => []FreshDepositLands
<1>1. ClientInv => FreshDepositLands
  BY DepositLands DEF FreshDepositLands
<1> QED
  BY <1>1, ClientInvariant, PTL

(***************************************************************************)
(* Both trading fees are fractions that together take no more than the     *)
(* amount, as those of constraints.rs do.  Where one of them is 0/0, the   *)
(* client's combined fraction is 0/0 too, and its quote leaves out the     *)
(* other fee.                                                              *)
(***************************************************************************)
ChargedTogether ==
  /\ FEES.trade.den # 0 /\ FEES.owner.den # 0
  /\ FEES.trade.num * FEES.owner.den + FEES.owner.num * FEES.trade.den
       <= FEES.trade.den * FEES.owner.den

\* Two fractions charged one by one cost no more than charged as one.
LEMMA SeparateFees ==
  ASSUME NEW x \in Nat, NEW a \in Nat, NEW b \in Nat \ {0}, NEW c \in Nat,
         NEW d \in Nat \ {0}
  PROVE  LET fee == (x * (a * d + c * b)) \div (b * d)
         IN  /\ fee \in Nat
             /\ (x * a) \div b \in Nat /\ (x * c) \div d \in Nat
             /\ (x * a) \div b + (x * c) \div d <= fee
             /\ a * d + c * b <= b * d => fee <= x
<1> DEFINE p == (x * a) \div b
           q == (x * c) \div d
           n == x * (a * d + c * b)
           e == b * d
           f == n \div e
<1>1. p \in Nat /\ b * p <= x * a
  BY DivBounds
<1>2. q \in Nat /\ d * q <= x * c
  BY DivBounds
<1>3. n \in Nat /\ e \in Nat \ {0}
  OBVIOUS
<1>4. f \in Nat /\ e * f <= n /\ n < e * f + e
  BY <1>3, DivBounds
<1>5. n = (x * a) * d + (x * c) * b
  OBVIOUS
<1>6. (b * p) * d <= (x * a) * d /\ (d * q) * b <= (x * c) * b
  <2>1. b * p \in Nat /\ d * q \in Nat /\ x * a \in Nat /\ x * c \in Nat
    BY <1>1, <1>2
  <2> QED BY <1>1, <1>2, <2>1, ProductMonotone
<1>7. (b * p) * d + (d * q) * b = e * (p + q)
  BY <1>1, <1>2
<1>8. e * (p + q) <= n
  <2>1. /\ (b * p) * d \in Nat /\ (d * q) * b \in Nat
        /\ (x * a) * d \in Nat /\ (x * c) * b \in Nat
    BY <1>1, <1>2
  <2> HIDE DEF p, q, n, e
  <2> QED BY <1>5, <1>6, <1>7, <2>1
<1>9. a * d + c * b <= e => n <= e * x
  <2>1. a * d + c * b \in Nat
    OBVIOUS
  <2>2. a * d + c * b <= e => x * (a * d + c * b) <= x * e
    <3> HIDE DEF e
    <3> QED BY <1>3, <2>1, ProductMonotone
  <2>3. x * e = e * x
    BY <1>3
  <2> QED BY <2>2, <2>3
<1> HIDE DEF p, q, n, e, f
<1>10. p + q <= f
  <2>1. SUFFICES ASSUME f + 1 <= p + q PROVE FALSE
    BY <1>1, <1>2, <1>4
  <2>2. e * (f + 1) <= e * (p + q)
    BY <1>1, <1>2, <1>3, <1>4, <2>1, ProductMonotone
  <2> QED BY <1>1, <1>2, <1>3, <1>4, <1>8, <2>2
<1>11. n <= e * x => f <= x
  <2>1. SUFFICES ASSUME n <= e * x, x + 1 <= f PROVE FALSE
    BY <1>4
  <2>2. e * (x + 1) <= e * f
    BY <1>3, <1>4, <2>1, ProductMonotone
  <2> QED BY <1>3, <1>4, <2>1, <2>2
<1> QED
  BY <1>1, <1>2, <1>4, <1>9, <1>10, <1>11 DEF p, q, n, e, f

\* The client counts on no more of the amount than the program sells.
LEMMA NetIsSold ==
  ASSUME ChargedTogether, NEW amount \in Nat,
         FeeIsWhole(FEES.trade, amount), FeeIsWhole(FEES.owner, amount)
  PROVE  LET F == TradingFee(FEES, amount)
             G == OwnerTradingFee(FEES, amount)
         IN  /\ F \in Nat /\ G \in 1 .. amount
             /\ Net(amount) \in Nat /\ Net(amount) <= amount - (F + G)
<1> DEFINE F == TradingFee(FEES, amount)
           G == OwnerTradingFee(FEES, amount)
           a == FEES.trade.num
           b == FEES.trade.den
           c == FEES.owner.num
           d == FEES.owner.den
           num == a * d + c * b
           fee == (amount * num) \div (b * d)
<1>1. /\ a \in Nat /\ b \in Nat \ {0} /\ c \in Nat /\ d \in Nat \ {0}
      /\ FEES.trade \in Fraction /\ ValidFraction(FEES.trade)
      /\ FEES.owner \in Fraction /\ ValidFraction(FEES.owner)
      /\ num <= b * d
  BY DEF ChargedTogether, ValidFees, Fraction
<1>2. F = (amount * a) \div b /\ F \in 1 .. amount
  BY <1>1, WholeFee DEF TradingFee
<1>3. G = (amount * c) \div d /\ G \in 1 .. amount
  BY <1>1, WholeFee DEF OwnerTradingFee
<1>4. fee \in Nat /\ F + G <= fee /\ fee <= amount
  BY <1>1, <1>2, <1>3, SeparateFees
<1>5. num # 0
  <2>1. SUFFICES ASSUME num = 0 PROVE FALSE
    OBVIOUS
  <2>2. a * d \in Nat /\ c * b \in Nat
    BY <1>1
  <2>3. a * d = 0
    <3> HIDE DEF a, b, c, d
    <3> QED BY <2>1, <2>2
  <2>4. a = 0
    <3>1. a # 0 => a * d # 0
      <4> HIDE DEF a, d
      <4> QED BY <1>1
    <3> QED BY <2>3, <3>1
  <2>5. F = 0
    BY <2>4 DEF TradingFee, CalculateFee
  <2> QED BY <1>2, <2>5
<1>6. Net(amount) = IF fee = 0 THEN amount - 1 ELSE amount - fee
  BY <1>5 DEF Net, ExcludeFee
<1> HIDE DEF F, G, num, fee
<1> QED
  BY <1>2, <1>3, <1>4, <1>6 DEF F, G

(***************************************************************************)
(* A swap of y pays what is quoted for x, when x is no more than y and the *)
(* pool is left a token at least at the new price.                         *)
(***************************************************************************)
LEMMA SwapMeetsQuote ==
  ASSUME NEW S \in Nat, NEW D \in Nat, NEW x \in Nat, NEW y \in Nat, x <= y,
         S + x # 0, S + y <= S * D, RoundUp(S * D, S + x) < D
  PROVE  \E r \in ConstantProductSwap(y, S, D) :
           /\ r.source \in 0 .. y
           /\ r.destination \in 0 .. D
           /\ D - RoundUp(S * D, S + x) <= r.destination
<1> DEFINE n == S * D
           d == S + y
           k == RoundUp(S * D, S + x)
           q == CeilQuotient(n, d)
           e == CeilQuotient(n, q)
<1>1. n \in Nat /\ d \in Nat \ {0} /\ d <= n /\ S + x \in Nat \ {0} /\ S + x <= d
  OBVIOUS
<1>2. k \in Nat /\ n <= (S + x) * k /\ k < D
  BY <1>1, RoundedUp
<1>3. q \in Nat /\ n <= d * q /\ d * q < n + d
  <2> HIDE DEF n, d
  <2> QED BY <1>1, CeilQuotientBounds
<1>4. CheckedCeilDiv(n, d) = {[quotient |-> q, divisor |-> e]}
  BY <1>1 DEF CheckedCeilDiv, Some
<1>5. e \in Nat /\ q > 0 /\ n <= e * q /\ e <= d
  <2>1. [quotient |-> q, divisor |-> e] \in CheckedCeilDiv(n, d)
    BY <1>4
  <2> HIDE DEF n, d, q, e
  <2> QED BY <1>1, <2>1, CheckedCeilDivBounds
<1> HIDE DEF k, q, e
<1>6. q <= k
  <2>1. SUFFICES ASSUME k + 1 <= q PROVE FALSE
    BY <1>2, <1>3
  <2>2. (S + x) * k <= d * k
    BY <1>1, <1>2, ProductMonotone
  <2>3. d * (k + 1) <= d * q
    BY <1>1, <1>2, <1>3, <2>1, ProductMonotone
  <2>4. d * (k + 1) = d * k + d /\ d * k \in Nat /\ d * q \in Nat /\ (S + x) * k \in Nat
    BY <1>1, <1>2, <1>3
  <2> HIDE DEF n, d
  <2> QED BY <1>1, <1>2, <1>3, <2>2, <2>3, <2>4
<1>7. S <= e
  <2>1. SUFFICES ASSUME e + 1 <= S PROVE FALSE
    BY <1>5
  <2>2. e * q <= e * D
    BY <1>2, <1>3, <1>5, <1>6, ProductMonotone
  <2>3. (e + 1) * D <= S * D
    BY <1>5, <2>1, ProductMonotone
  <2>4. (e + 1) * D = e * D + D /\ e * D \in Nat /\ e * q \in Nat
    BY <1>3, <1>5
  <2> QED BY <1>1, <1>2, <1>5, <2>2, <2>3, <2>4
<1> DEFINE r == [source |-> e - S, destination |-> D - q]
<1>8. r \in ConstantProductSwap(y, S, D)
  <2>1. q < D
    BY <1>2, <1>3, <1>6
  <2>2. ConstantProductSwap(y, S, D)
          = { [source |-> c.divisor - S, destination |-> D - c.quotient] :
                c \in { w \in CheckedCeilDiv(n, d) : S <= w.divisor /\ w.quotient < D } }
    BY DEF ConstantProductSwap
  <2> HIDE DEF n, d
  <2>3. [quotient |-> q, divisor |-> e]
          \in { w \in CheckedCeilDiv(n, d) : S <= w.divisor /\ w.quotient < D }
    BY <1>4, <1>7, <2>1
  <2> QED BY <2>2, <2>3
<1>9. /\ r.source \in 0 .. y /\ r.destination \in 0 .. D /\ D - k <= r.destination
  BY <1>1, <1>2, <1>3, <1>5, <1>6, <1>7
<1> QED
  BY <1>8, <1>9 DEF k

\* The owner fee of a swap in a pool with something to spare can be minted.
LEMMA FeeCanBeMinted ==
  ASSUME curve.type = "ConstantProduct", supply \in Nat \ {0}, 2 * supply <= U64Max,
         lp \in [LpAccounts -> 0 .. supply], NEW host \in Hosts,
         NEW t \in Tokens, NEW swapped,
         NEW after, after = ReserveAfter(t, swapped), after[t] \in Nat \ {0},
         NEW G \in Nat \ {0}, swapped.ownerFee = G,
         LET half == IF G \div 2 > 1 THEN G \div 2 ELSE 1
         IN  TradingFee(FEES, half) \in Nat /\ G + TradingFee(FEES, half) <= after[t]
  PROVE  MintedFees(t, swapped, host) # {}
<1> DEFINE half  == IF G \div 2 > 1 THEN G \div 2 ELSE 1
           total == G + TradingFee(FEES, half)
<1>1. total \in Nat /\ total <= after[t]
  OBVIOUS
<1> HIDE DEF total
<1>2. PICK p \in 0 .. supply : p \in ConstantProductWithdrawSingle(total, after[t], supply)
  BY <1>1, ExactOutCharge
<1>3. p \in OwnerFeeInPoolTokens(t, swapped)
  <2>1. WithdrawSingleExactOut(curve, FEES, G, after["A"], after["B"], supply, Direction(t))
          = PoolTokensForExactOut(curve, total, after["A"], after["B"], supply, Direction(t))
    BY DEF WithdrawSingleExactOut, total
  <2>2. PoolTokensForExactOut(curve, total, after["A"], after["B"], supply, Direction(t))
          = ConstantProductWithdrawSingle(total, after[t], supply)
    BY DEF PoolTokensForExactOut, Direction, Tokens
  <2> QED BY <1>2, <2>1, <2>2 DEF OwnerFeeInPoolTokens
<1> DEFINE part   == SplitFee(p, host)
           hosted == IF host = NoHost THEN FeeAccount ELSE host
<1>4. part.host \in 0 .. p /\ part.owner = p - part.host
  <2>1. HostFee(FEES, p) \in 0 .. p
    BY FeeBounds DEF HostFee, ValidFees
  <2> QED BY <2>1 DEF SplitFee
<1>5. hosted \in LpAccounts /\ FeeAccount \in LpAccounts
  BY DEF Hosts, LpAccounts
<1>6. PoolTokensWithFee(p, host)
        = [[lp EXCEPT ![hosted] = @ + part.host] EXCEPT ![FeeAccount] = @ + part.owner]
  BY DEF PoolTokensWithFee
<1> HIDE DEF part, hosted
<1>7. Mintable(p) /\ PoolTokensFit(PoolTokensWithFee(p, host))
  <2> DEFINE m == part.host
  <2>1. m \in 0 .. p /\ part.owner = p - m
    BY <1>4
  <2>2. PoolTokensWithFee(p, host)
          = [[lp EXCEPT ![hosted] = @ + m] EXCEPT ![FeeAccount] = @ + (p - m)]
    BY <1>6, <2>1
  <2> HIDE DEF m
  <2>3. /\ Mintable(p)
        /\ PoolTokensFit([[lp EXCEPT ![hosted] = @ + m] EXCEPT ![FeeAccount] = @ + (p - m)])
    BY <1>2, <1>5, <2>1, RoomForPoolTokens
  <2> QED BY <2>2, <2>3
<1> QED
  BY <1>3, <1>7 DEF MintedFees

(***************************************************************************)
(* A fresh swap: what the client counts on being sold is no more than what *)
(* the program sells, so the program pays no less than the quote, and its  *)
(* owner fee can be minted.                                                *)
(***************************************************************************)
LEMMA SwapLands ==
  ASSUME ChargedTogether, ClientInv, ByProduct, NEW u \in Clients, Fresh(u, "swap"),
         SwapIsSound(u)
  PROVE  Accepted(u)
<1> DEFINE request == session[u].request
           t == request.token
           amount == request.amount
           host == request.host
           S == reserve[t]
           D == reserve[Other(t)]
           F == TradingFee(FEES, amount)
           G == OwnerTradingFee(FEES, amount)
           x == Net(amount)
           y == amount - (F + G)
           kept == RoundUp(S * D, S + x)
<1>1. /\ TypeInv /\ Initialized /\ curve \in SwapCurves /\ curve.type = "ConstantProduct"
      /\ u \in Traders /\ request \in Requests /\ request.op = "swap"
      /\ session[u].seen = [supply |-> supply, A |-> reserve["A"], B |-> reserve["B"]]
      /\ supply \in Nat \ {0} /\ 2 * supply <= U64Max
      /\ lp \in [LpAccounts -> 0 .. supply]
      /\ \A s \in Tokens : /\ reserve[s] \in Nat /\ wallet[u][s] \in Nat
                           /\ \A n \in 0 .. reserve[s] : CanReceive(u, s, n)
                           /\ \A n \in 0 .. wallet[u][s] : CanTakeIn(s, n)
  BY FreshFacts
<1>2. t \in Tokens /\ Other(t) \in Tokens /\ amount \in Nat /\ host \in Hosts
  BY <1>1, RequestKinds, OtherToken
<1>3. S \in Nat /\ D \in Nat
  BY <1>1, <1>2
<1>4. /\ amount <= wallet[u][t]
      /\ FeeIsWhole(FEES.trade, amount) /\ FeeIsWhole(FEES.owner, amount)
  BY DEF SwapIsSound, CanPay
<1>5. S + amount <= S * D
  <2>1. reserve["A"] * reserve["B"] >= S + amount
    BY DEF SwapIsSound
  <2>2. reserve["A"] * reserve["B"] = S * D
    BY <1>1, <1>2 DEF Tokens, Other
  <2>3. S * D \in Nat
    BY <1>3
  <2> QED BY <1>2, <1>3, <2>1, <2>2, <2>3
<1>6. /\ F \in Nat /\ G \in 1 .. amount /\ x \in Nat /\ x <= y
  BY <1>2, <1>4, NetIsSold
<1>7. QuoteOfSwap(u) = {D - kept} /\ S + x # 0 /\ kept < D
  <2>1. session[u].seen[t] = S /\ session[u].seen[Other(t)] = D
    BY <1>1, <1>2 DEF Tokens, Other
  <2>2. QuoteOfSwap(u) = IF S + x = 0 THEN {} ELSE {D - kept}
    BY <2>1 DEF QuoteOfSwap, SwapQuote, Net, RoundUp
  <2>3. PICK quote \in QuoteOfSwap(u) : quote > 0
    BY DEF SwapIsSound
  <2>4. S + x # 0 /\ D - kept > 0
    BY <2>2, <2>3
  <2>5. kept \in Nat
    <3>1. S * D \in Nat /\ S + x \in Nat \ {0}
      BY <1>3, <1>6, <2>4
    <3> QED BY <3>1, RoundedUp
  <2> QED BY <1>3, <2>2, <2>4, <2>5
<1> HIDE DEF request, t, amount, host, S, D, F, G, x
<1>8. y \in Nat /\ S + y <= S * D
  <2>1. S * D \in Nat
    BY <1>3
  <2> QED BY <1>2, <1>3, <1>5, <1>6, <2>1
<1> HIDE DEF y
<1>9. PICK r \in ConstantProductSwap(y, S, D) :
        r.source \in 0 .. y /\ r.destination \in 0 .. D /\ D - kept <= r.destination
  BY <1>3, <1>6, <1>7, <1>8, SwapMeetsQuote
<1> HIDE DEF kept
<1> DEFINE swapped == [source |-> r.source + (F + G), destination |-> r.destination,
                       ownerFee |-> G]
<1>10. /\ swapped.source \in 0 .. amount /\ swapped.source = r.source + (F + G)
       /\ swapped.destination = r.destination /\ swapped.ownerFee = G
  BY <1>2, <1>6, <1>9 DEF y
<1>11. swapped \in SwapWithFees(curve, FEES, amount, S, D, Direction(t))
  <2>1. OwnerTradingFee(FEES, amount) = G /\ TradingFee(FEES, amount) + G = F + G
    BY DEF F, G
  <2>2. F + G <= amount
    BY <1>2, <1>6, <1>8 DEF y
  <2>3. r \in SwapWithoutFees(curve, y, S, D, Direction(t))
    BY <1>1, <1>9 DEF SwapWithoutFees
  <2>4. r.destination <= D
    BY <1>3, <1>9
  <2> QED BY <2>1, <2>2, <2>3, <2>4 DEF SwapWithFees, When, y
<1> HIDE DEF swapped
<1>12. swapped \in Exchanges(u, u, t, amount, D - kept)
  <2>1. CanPay(u, t, swapped.source)
    BY <1>1, <1>2, <1>4, <1>10 DEF CanPay, t, amount
  <2>2. CanTakeIn(t, swapped.source)
    <3>1. swapped.source \in 0 .. wallet[u][t]
      BY <1>1, <1>2, <1>4, <1>10
    <3> QED BY <1>1, <1>2, <3>1
  <2>3. CanReceive(u, Other(t), swapped.destination)
    BY <1>1, <1>2, <1>9, <1>10 DEF D
  <2>4. D - kept <= swapped.destination
    BY <1>9, <1>10
  <2> QED BY <1>1, <1>11, <2>1, <2>2, <2>3, <2>4 DEF Exchanges, When, S, D
<1>13. MintedFees(t, swapped, host) # {}
  <2> DEFINE after == ReserveAfter(t, swapped)
             half == IF G \div 2 > 1 THEN G \div 2 ELSE 1
  <2>1. after[t] = S + swapped.source
    <3>1. t \in DOMAIN reserve /\ Other(t) # t
      BY <1>1, <1>2, OtherToken DEF TypeInv, TypeOK
    <3> QED BY <3>1 DEF ReserveAfter, S
  <2>2. half \in 1 .. amount /\ G \in Nat \ {0}
    BY <1>2, <1>6
  <2>3. TradingFee(FEES, half) \in Nat /\ TradingFee(FEES, half) <= F
    <3> HIDE DEF half
    <3> QED BY <1>2, <2>2, FeeBounds, FeeMonotone DEF F, TradingFee, ValidFees
  <2>4. after[t] \in Nat \ {0} /\ G + TradingFee(FEES, half) <= after[t]
    <3> HIDE DEF after, half
    <3> QED BY <1>3, <1>6, <1>9, <1>10, <2>1, <2>2, <2>3
  <2> QED BY <1>1, <1>2, <1>10, <2>2, <2>3, <2>4, FeeCanBeMinted
<1> QED
  BY <1>7, <1>12, <1>13 DEF Accepted, CanSwap, Fresh, request, t, amount, host

(***************************************************************************)
(* However many others use the pool: a swap quoted by the service for the  *)
(* pool as it still is goes through with the quote as its minimum.         *)
(***************************************************************************)
THEOREM FreshSwapsLand ==
  ASSUME ChargedTogether
  PROVE  ClientSpec => []FreshSwapLands
<1>1. ClientInv => FreshSwapLands
  BY SwapLands DEF FreshSwapLands
<1> QED
  BY <1>1, ClientInvariant, PTL

=============================================================================
