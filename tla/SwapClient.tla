----------------------------- MODULE SwapClient -----------------------------
(***************************************************************************)
(* services/saros_swap.service.ts: traders who use the pool through the    *)
(* TypeScript service.  A call reads the supply and the two reserves with  *)
(* one await each, computes a quote from what it read, and sends a         *)
(* transaction that may be executed much later, refused, or lost.          *)
(* Everybody else goes on meanwhile.                                       *)
(***************************************************************************)
EXTENDS SwapPoolProperties, ClientCalculator

CONSTANTS Clients,   \* the traders who use the service
          Requests   \* what they may ask of it

SwapRequest(t, n, host) == [op |-> "swap", token |-> t, amount |-> n, host |-> host]
DepositRequest(a, b)    == [op |-> "deposit", most |-> [A |-> a, B |-> b]]
WithdrawRequest(n)      == [op |-> "withdraw", poolTokens |-> n]
NoRequest               == [op |-> "none"]

\* The amounts of a request are serialized as u64 numbers.
Askable ==
  [op : {"swap"}, token : Tokens, amount : 0 .. U64Max, host : Hosts]
    \cup [op : {"deposit"}, most : [Tokens -> 0 .. U64Max]]
    \cup [op : {"withdraw"}, poolTokens : 0 .. U64Max]

ASSUME SwapClientAssumption ==
  /\ Clients \subseteq Traders
  /\ Requests \subseteq Askable

VARIABLE session     \* session[u] is the call that u has under way

clientVars == <<curve, reserve, supply, wallet, lp, session>>

\* offers is history: the reserves at the moments the two amounts were read.
Idle == [stage |-> "idle", request |-> NoRequest,
         seen |-> [supply |-> 0, A |-> 0, B |-> 0], offers |-> {}]

ClientInit == Init /\ session = [u \in Clients |-> Idle]

-----------------------------------------------------------------------------
(* getPoolInfo.  The pool's own account never changes once initialized, so *)
(* reading it and then the mint is one step.                               *)

Ask(u, request) ==
  /\ session[u].stage = "idle" /\ Initialized
  /\ session' = [session EXCEPT ![u].stage = "readA", ![u].request = request,
                                ![u].seen.supply = supply]
  /\ UNCHANGED vars

ReadA(u) ==
  /\ session[u].stage = "readA"
  /\ session' = [session EXCEPT ![u].stage = "readB", ![u].seen.A = reserve["A"],
                                ![u].offers = {reserve}]
  /\ UNCHANGED vars

\* Mutant of ReadB: the first token account is read twice.
ReadBFromA(u) ==
  /\ session[u].stage = "readB"
  /\ session' = [session EXCEPT ![u].stage = "send", ![u].seen.B = reserve["A"],
                                ![u].offers = @ \cup {reserve}]
  /\ UNCHANGED vars

ReadB(u) ==
  /\ session[u].stage = "readB"
  /\ session' = [session EXCEPT ![u].stage = "send", ![u].seen.B = reserve["B"],
                                ![u].offers = @ \cup {reserve}]
  /\ UNCHANGED vars

-----------------------------------------------------------------------------
(* The transactions of swap, depositAllTokenTypes, withdrawAllTokenTypes.  *)

Ready(u, op) == session[u].stage = "send" /\ session[u].request.op = op

QuoteOfSwap(u) ==
  LET r == session[u].request
  IN  SwapQuote(FEES, r.amount, session[u].seen[r.token], session[u].seen[Other(r.token)])

\* swap: sell amount for at least the quote.
LandSwap(u) ==
  LET r == session[u].request
  IN  /\ Ready(u, "swap")
      /\ \E quote \in QuoteOfSwap(u) : Swap(u, u, r.token, r.amount, quote, r.host)

QuoteOfDeposit(u) == DepositQuote(session[u].seen, session[u].request.most)

\* depositAllTokenTypes: as many pool tokens as the amounts are quoted for.
LandDeposit(u) ==
  /\ Ready(u, "deposit")
  /\ \E quote \in QuoteOfDeposit(u) :
       DepositAllTokenTypes(u, u, quote, session[u].request.most)

\* The withdraw fee as the service computes it, without a minimum.
ServiceWithdrawFee(n) ==
  IF FEES.withdraw.num = 0 THEN 0 ELSE (n * FEES.withdraw.num) \div FEES.withdraw.den

QuoteOfWithdrawal(u) ==
  LET n == session[u].request.poolTokens
  IN  WithdrawQuote(session[u].seen, n - ServiceWithdrawFee(n))

\* withdrawAllTokenTypes: give up poolTokens for at least the quote.
LandWithdrawal(u) ==
  /\ Ready(u, "withdraw")
  /\ \E quote \in QuoteOfWithdrawal(u) :
       WithdrawAllTokenTypes(u, u, session[u].request.poolTokens, quote)

Land(u) ==
  /\ LandSwap(u) \/ LandDeposit(u) \/ LandWithdrawal(u)
  /\ session' = [session EXCEPT ![u] = Idle]

\* The quote throws, the program refuses the transaction, or it is lost.
Fail(u) ==
  /\ session[u].stage = "send"
  /\ session' = [session EXCEPT ![u] = Idle]
  /\ UNCHANGED vars

Call(u) ==
  \/ \E request \in Requests : Ask(u, request)
  \/ ReadA(u) \/ ReadB(u)
  \/ Land(u) \/ Fail(u)

ClientNext ==
  \/ \E u \in Clients : Call(u)
  \/ ClosedNext /\ UNCHANGED session

ClientSpec == ClientInit /\ [][ClientNext]_clientVars

=============================================================================
