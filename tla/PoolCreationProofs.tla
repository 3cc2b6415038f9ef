-------------------------- MODULE PoolCreationProofs --------------------------
(***************************************************************************)
(* For any creators, any fee owner, any number of calls, losses and late   *)
(* transactions: the safety properties of PoolCreationProperties.          *)
(***************************************************************************)
EXTENDS PoolCreationProperties, TLAPS

USE DEF Stages

\* A call counts itself when it starts.
CallCounted == \A u \in Creators : client[u].stage # "idle" => client[u].call > 0

TypeInv == CreationTypeOK /\ CallCounted

\* The questions name every account that the second transaction reads.
LEMMA QuestionsCover ==
  ASSUME NEW u \in Creators
  PROVE  /\ Questions(u) \in Seq(Addresses)
         /\ Len(Questions(u)) \in {5, 6}
         /\ \A a \in Reads(u) : \E i \in 1..Len(Questions(u)) : Questions(u)[i] = a
<1>1. CASE u = FeeOwner
  <2>1. Questions(u) = <<Mint, Token("A"), Token("B"), Lp(u), Pool>>
    BY <1>1 DEF Questions
  <2>2. Reads(u) = {Mint, Token("A"), Token("B"), Lp(u), Pool}
    BY <1>1 DEF Reads
  <2> QED BY <2>1, <2>2 DEF Addresses
<1>2. CASE u # FeeOwner
  <2>1. Questions(u) = <<Mint, Token("A"), Token("B"), Lp(u), Lp(FeeOwner), Pool>>
    BY <1>2 DEF Questions
  <2> QED BY <2>1 DEF Reads, Addresses
<1> QED BY <1>1, <1>2

-----------------------------------------------------------------------------
(* Types.                                                                  *)

LEMMA TypeInit == Init => TypeInv
<1> SUFFICES ASSUME Init PROVE TypeInv
  OBVIOUS
<1>1. Idle(0) \in [stage : Stages, call : 0..MaxCalls, next : 1..7, free : SUBSET Addresses]
  BY PoolCreationAssumption DEF Idle
<1>2. /\ client \in [Creators -> [stage : Stages, call : 0..MaxCalls, next : 1..7,
                                 free : SUBSET Addresses]]
      /\ CallCounted
  BY <1>1 DEF Init, CallCounted, Idle
<1>3. faults \in 0..MaxFaults /\ paid \in [Creators -> Nat]
  BY PoolCreationAssumption DEF Init
<1> QED BY <1>2, <1>3 DEF Init, TypeInv, CreationTypeOK

LEMMA AnswerTypes ==
  ASSUME TypeInv, NEW tx \in inFlight, NEW stage \in {"confirmed", "returned", "idle"},
         \/ stage = "idle" /\ Answer(tx, Idle(tx.call))
         \/ stage # "idle" /\ Answer(tx, [client[tx.by] EXCEPT !.stage = stage])
  PROVE  /\ inFlight' \subseteq Transactions
         /\ client' \in [Creators -> [stage : Stages, call : 0..MaxCalls, next : 1..7,
                                      free : SUBSET Addresses]]
         /\ CallCounted'
<1>1. tx \in Transactions
  BY DEF TypeInv, CreationTypeOK
<1>2. tx.by \in Creators /\ tx.call \in 1..MaxCalls /\ tx.kind \in {"first", "second"}
  BY <1>1 DEF Transactions
<1>3. CASE stage = "idle"
  BY <1>2, <1>3 DEF TypeInv, CreationTypeOK, CallCounted, Answer, Idle, Waiting
<1>4. CASE stage # "idle"
  BY <1>2, <1>4 DEF TypeInv, CreationTypeOK, CallCounted, Answer, Idle, Waiting
<1> QED BY <1>3, <1>4

LEMMA TypeStep == ASSUME TypeInv, [Next]_vars PROVE TypeInv'
<1>1. ASSUME NEW u \in Creators, Call(u) PROVE TypeInv'
  BY <1>1, PoolCreationAssumption DEF TypeInv, CreationTypeOK, CallCounted, Call, Idle
<1>2. ASSUME NEW u \in Creators, AskIfFree(u) PROVE TypeInv'
  <2>3. Len(Questions(u)) \in {5, 6}
    BY QuestionsCover
  <2>4. client[u].next \in 1..7 /\ client[u].next <= Len(Questions(u))
    BY <1>2 DEF TypeInv, CreationTypeOK, AskIfFree
  <2>1. client[u].next \in 1..Len(Questions(u)) /\ client[u].next + 1 \in 1..7
    <3>1. \A len \in {5, 6}, n \in 1..7 : n <= len => n \in 1..len /\ n + 1 \in 1..7
      OBVIOUS
    <3> QED BY <2>3, <2>4, <3>1
  <2>2. Questions(u)[client[u].next] \in Addresses
    BY <2>1, QuestionsCover
  <2> QED BY <1>2, <2>1, <2>2 DEF TypeInv, CreationTypeOK, CallCounted, AskIfFree
<1>3. ASSUME NEW u \in Creators, SendFirst(u) PROVE TypeInv'
  <2>1. client[u].call \in 1..MaxCalls /\ FirstCreates(client[u].free) \subseteq Addresses
    BY <1>3, PoolCreationAssumption DEF TypeInv, CreationTypeOK, CallCounted, SendFirst, FirstCreates
  <2>2. Transaction(u, "first", FirstCreates(client[u].free)) \in Transactions
    BY <2>1 DEF Transaction, Transactions
  <2> QED BY <1>3, <2>2 DEF TypeInv, CreationTypeOK, CallCounted, SendFirst
<1>4. ASSUME NEW u \in Creators, SendSecond(u) PROVE TypeInv'
  <2>1. client[u].call \in 1..MaxCalls /\ SecondCreates(client[u].free) \subseteq Addresses
    BY <1>4, PoolCreationAssumption DEF TypeInv, CreationTypeOK, CallCounted, SendSecond, SecondCreates
  <2>2. Transaction(u, "second", SecondCreates(client[u].free)) \in Transactions
    BY <2>1 DEF Transaction, Transactions
  <2> QED BY <1>4, <2>2 DEF TypeInv, CreationTypeOK, CallCounted, SendSecond
<1>5. ASSUME NEW u \in Creators, SigningThrows(u) PROVE TypeInv'
  BY <1>5 DEF TypeInv, CreationTypeOK, CallCounted, SigningThrows, Idle
<1>6. ASSUME NEW u \in Creators, GiveUp(u) PROVE TypeInv'
  BY <1>6, PoolCreationAssumption DEF TypeInv, CreationTypeOK, CallCounted, GiveUp, Idle
<1>7. ASSUME NEW tx \in inFlight, ExecuteFirst(tx) PROVE TypeInv'
  <2>1. exists' \subseteq Addresses
    BY <1>7 DEF TypeInv, CreationTypeOK, ExecuteFirst, Transactions
  <2>2. Answer(tx, [client[tx.by] EXCEPT !.stage = "confirmed"])
    BY <1>7 DEF ExecuteFirst
  <2>3. /\ inFlight' \subseteq Transactions
        /\ client' \in [Creators -> [stage : Stages, call : 0..MaxCalls, next : 1..7,
                                     free : SUBSET Addresses]]
        /\ CallCounted'
    BY <2>2, AnswerTypes
  <2> QED BY <1>7, <2>1, <2>3 DEF TypeInv, CreationTypeOK, ExecuteFirst
<1>8. ASSUME NEW tx \in inFlight, ExecuteSecond(tx) PROVE TypeInv'
  <2>1. /\ exists' \subseteq Addresses
        /\ tx.by \in Creators
    BY <1>8 DEF TypeInv, CreationTypeOK, ExecuteSecond, Transactions
  <2>2. Answer(tx, [client[tx.by] EXCEPT !.stage = "returned"])
    BY <1>8 DEF ExecuteSecond
  <2>3. /\ inFlight' \subseteq Transactions
        /\ client' \in [Creators -> [stage : Stages, call : 0..MaxCalls, next : 1..7,
                                     free : SUBSET Addresses]]
        /\ CallCounted'
    BY <2>2, AnswerTypes
  <2>4. paid' \in [Creators -> Nat] /\ founder' \in Creators /\ funded' \in BOOLEAN
    BY <1>8, <2>1 DEF TypeInv, CreationTypeOK, ExecuteSecond, PayIn
  <2> QED BY <1>8, <2>1, <2>3, <2>4 DEF TypeInv, CreationTypeOK, ExecuteSecond
<1>9. ASSUME NEW tx \in inFlight, Refuse(tx) PROVE TypeInv'
  <2>1. Answer(tx, Idle(tx.call))
    BY <1>9 DEF Refuse
  <2>3. /\ inFlight' \subseteq Transactions
        /\ client' \in [Creators -> [stage : Stages, call : 0..MaxCalls, next : 1..7,
                                     free : SUBSET Addresses]]
        /\ CallCounted'
    BY <2>1, AnswerTypes
  <2> QED BY <1>9, <2>3 DEF TypeInv, CreationTypeOK, Refuse
<1>10. ASSUME NEW tx \in inFlight, Lose(tx) PROVE TypeInv'
  <2>1. Answer(tx, Idle(tx.call))
    BY <1>10 DEF Lose
  <2>2. faults' \in 0..MaxFaults
    BY <1>10, PoolCreationAssumption DEF TypeInv, CreationTypeOK, Lose
  <2>3. /\ inFlight' \subseteq Transactions
        /\ client' \in [Creators -> [stage : Stages, call : 0..MaxCalls, next : 1..7,
                                     free : SUBSET Addresses]]
        /\ CallCounted'
    BY <2>1, AnswerTypes
  <2> QED BY <1>10, <2>2, <2>3 DEF TypeInv, CreationTypeOK, Lose
<1>11. CASE Drain
  BY <1>11 DEF TypeInv, CreationTypeOK, CallCounted, Drain
<1>12. CASE UNCHANGED vars
  BY <1>12 DEF TypeInv, CreationTypeOK, CallCounted, vars
<1> QED BY <1>1, <1>2, <1>3, <1>4, <1>5, <1>6, <1>7, <1>8, <1>9, <1>10, <1>11, <1>12
        DEF Next, Continue, Settle

(***************************************************************************)
(* Every variable stays in its type: the questions of a call are never     *)
(* more than six and each names an account of the pool.                    *)
(***************************************************************************)
THEOREM CreationTypeCorrect == Spec => []CreationTypeOK
<1>1. TypeInv => CreationTypeOK
  BY DEF TypeInv
<1> QED BY <1>1, TypeInit, TypeStep, PTL DEF Spec

-----------------------------------------------------------------------------
(* The inductive invariant behind the safety properties.                   *)

\* An account that was asked about exists or is to be created.
AskedIsKnown ==
  \A u \in Creators : client[u].stage = "asking" =>
    \A i \in 1..(client[u].next - 1) : Questions(u)[i] \in exists \cup client[u].free

\* With the accounts it creates, a first transaction makes the pool ready.
FirstMakesReady ==
  \A tx \in inFlight : tx.kind = "first" =>
    /\ Reads(tx.by) \ {Pool} \subseteq exists \cup tx.creates
    /\ Pool \notin tx.creates

ConfirmedIsReady ==
  \A u \in Creators : client[u].stage = "confirmed" => Reads(u) \ {Pool} \subseteq exists

SafeInv ==
  /\ TypeInv /\ StakeBuysTheSupply /\ NeverHalfMade
  /\ AskedIsKnown /\ FirstMakesReady /\ ConfirmedIsReady /\ ReadyToInitialize

LEMMA SafeInit == Init => SafeInv
<1> SUFFICES ASSUME Init PROVE SafeInv
  OBVIOUS
<1>1. StakeBuysTheSupply /\ NeverHalfMade
  BY DEF Init, StakeBuysTheSupply, NeverHalfMade
<1>2. AskedIsKnown /\ FirstMakesReady /\ ConfirmedIsReady /\ ReadyToInitialize
  BY DEF Init, Idle, AskedIsKnown, FirstMakesReady, ConfirmedIsReady, ReadyToInitialize
<1> QED BY <1>1, <1>2, TypeInit DEF SafeInv

\* A step of the client alone: what the chain holds does not change.
LEMMA ClientStepSafe ==
  ASSUME SafeInv, UNCHANGED <<exists, founder, funded, paid>>
  PROVE  StakeBuysTheSupply' /\ NeverHalfMade'
BY DEF SafeInv, StakeBuysTheSupply, NeverHalfMade

\* What an answer to tx does to the facts about calls and transactions.
LEMMA AnswerSafe ==
  ASSUME SafeInv, NEW tx \in inFlight, exists \subseteq exists',
         \/ Answer(tx, Idle(tx.call))
         \/ Answer(tx, [client[tx.by] EXCEPT !.stage = "returned"])
         \/ /\ Answer(tx, [client[tx.by] EXCEPT !.stage = "confirmed"])
            /\ Reads(tx.by) \ {Pool} \subseteq exists'
  PROVE  AskedIsKnown' /\ FirstMakesReady' /\ ConfirmedIsReady' /\ ReadyToInitialize'
<1>1. inFlight' \subseteq inFlight
  BY DEF Answer
<1>2. tx.by \in Creators /\ client \in [Creators -> [stage : Stages, call : 0..MaxCalls,
                                                   next : 1..7, free : SUBSET Addresses]]
  BY DEF SafeInv, TypeInv, CreationTypeOK, Transactions
<1>3. ASSUME NEW u \in Creators
      PROVE  \/ client'[u] = client[u]
             \/ client'[u].stage \in {"idle", "returned"}
             \/ client'[u].stage = "confirmed" /\ Reads(u) \ {Pool} \subseteq exists'
  BY <1>2 DEF Answer, Idle
<1>4. FirstMakesReady' /\ ReadyToInitialize'
  <2>1. FirstMakesReady /\ ReadyToInitialize
    BY DEF SafeInv
  <2> QED BY <1>1, <2>1 DEF FirstMakesReady, ReadyToInitialize, Reads
<1>5. AskedIsKnown' /\ ConfirmedIsReady'
  <2>1. AskedIsKnown /\ ConfirmedIsReady
    BY DEF SafeInv
  <2> QED BY <1>3, <2>1 DEF AskedIsKnown, ConfirmedIsReady, Questions, Reads
<1> QED BY <1>4, <1>5

LEMMA SafeStep == ASSUME SafeInv, [Next]_vars PROVE SafeInv'
<1> USE DEF SafeInv
<1>0. TypeInv'
  BY TypeStep
<1> SUFFICES /\ StakeBuysTheSupply' /\ NeverHalfMade'
             /\ AskedIsKnown' /\ FirstMakesReady' /\ ConfirmedIsReady' /\ ReadyToInitialize'
  BY <1>0
<1>c. client \in [Creators -> [stage : Stages, call : 0..MaxCalls, next : 1..7,
                               free : SUBSET Addresses]]
  BY DEF TypeInv, CreationTypeOK
<1>1. ASSUME NEW u \in Creators, Call(u) PROVE SafeInv'
  <2>1. AskedIsKnown' /\ ConfirmedIsReady'
    BY <1>1, <1>c DEF Call, Idle, AskedIsKnown, ConfirmedIsReady, Questions, Reads
  <2>2. FirstMakesReady' /\ ReadyToInitialize'
    BY <1>1 DEF Call, FirstMakesReady, ReadyToInitialize, Reads
  <2> QED BY <1>0, <1>1, <2>1, <2>2, ClientStepSafe DEF Call
<1>2. ASSUME NEW u \in Creators, AskIfFree(u) PROVE SafeInv'
  <2>1. AskedIsKnown'
    <3> SUFFICES ASSUME NEW v \in Creators, client'[v].stage = "asking",
                        NEW i \in 1..(client'[v].next - 1)
                 PROVE  Questions(v)[i] \in exists \cup client'[v].free
      BY <1>2 DEF AskIfFree, AskedIsKnown, Questions
    <3>1. CASE v # u
      BY <1>2, <1>c, <3>1 DEF AskIfFree, AskedIsKnown
    <3>2. CASE v = u /\ i # client[u].next
      <4>1. i \in 1..(client[u].next - 1)
        BY <1>2, <1>c, <3>2 DEF AskIfFree
      <4> QED BY <1>2, <1>c, <3>2, <4>1 DEF AskIfFree, AskedIsKnown
    <3>3. CASE v = u /\ i = client[u].next
      BY <1>2, <1>c, <3>3 DEF AskIfFree
    <3> QED BY <3>1, <3>2, <3>3
  <2>2. ConfirmedIsReady' /\ FirstMakesReady' /\ ReadyToInitialize'
    BY <1>2, <1>c DEF AskIfFree, ConfirmedIsReady, FirstMakesReady, ReadyToInitialize, Reads
  <2> QED BY <1>0, <1>2, <2>1, <2>2, ClientStepSafe DEF AskIfFree
<1>3. ASSUME NEW u \in Creators, SendFirst(u) PROVE SafeInv'
  <2>1. Reads(u) \subseteq exists \cup client[u].free
    <3> SUFFICES ASSUME NEW a \in Reads(u) PROVE a \in exists \cup client[u].free
      OBVIOUS
    <3>1. PICK i \in 1..Len(Questions(u)) : Questions(u)[i] = a
      BY QuestionsCover
    <3>2. Len(Questions(u)) \in {5, 6}
      BY QuestionsCover
    <3>3. client[u].next \in 1..7 /\ client[u].next > Len(Questions(u))
      BY <1>3, <1>c DEF SendFirst
    <3>4. \A len \in {5, 6}, n \in 1..7 : n > len => \A j \in 1..len : j \in 1..(n - 1)
      OBVIOUS
    <3>5. i \in 1..(client[u].next - 1)
      BY <3>2, <3>3, <3>4
    <3> QED BY <1>3, <3>1, <3>5 DEF SendFirst, AskedIsKnown
  <2>2. FirstMakesReady'
    BY <1>3, <2>1 DEF SendFirst, FirstMakesReady, Transaction, FirstCreates, Reads
  <2>3. ReadyToInitialize'
    BY <1>3 DEF SendFirst, ReadyToInitialize, Transaction, Reads
  <2>4. AskedIsKnown' /\ ConfirmedIsReady'
    BY <1>3, <1>c DEF SendFirst, AskedIsKnown, ConfirmedIsReady, Questions, Reads
  <2> QED BY <1>0, <1>3, <2>2, <2>3, <2>4, ClientStepSafe DEF SendFirst
<1>4. ASSUME NEW u \in Creators, SendSecond(u) PROVE SafeInv'
  <2>1. ReadyToInitialize'
    BY <1>4 DEF SendSecond, ReadyToInitialize, ConfirmedIsReady, Transaction, Reads
  <2>2. FirstMakesReady'
    BY <1>4 DEF SendSecond, FirstMakesReady, Transaction, Reads
  <2>3. AskedIsKnown' /\ ConfirmedIsReady'
    BY <1>4, <1>c DEF SendSecond, AskedIsKnown, ConfirmedIsReady, Questions, Reads
  <2> QED BY <1>0, <1>4, <2>1, <2>2, <2>3, ClientStepSafe DEF SendSecond
<1>5. ASSUME NEW u \in Creators, SigningThrows(u) \/ GiveUp(u) PROVE SafeInv'
  <2>1. /\ client' = [client EXCEPT ![u] = Idle(client[u].call)]
        /\ UNCHANGED <<exists, founder, funded, paid, inFlight>>
    BY <1>5 DEF SigningThrows, GiveUp
  <2>2. AskedIsKnown' /\ ConfirmedIsReady'
    BY <2>1, <1>c DEF Idle, AskedIsKnown, ConfirmedIsReady, Questions, Reads
  <2>3. FirstMakesReady' /\ ReadyToInitialize'
    BY <2>1 DEF FirstMakesReady, ReadyToInitialize, Reads
  <2> QED BY <1>0, <2>1, <2>2, <2>3, ClientStepSafe
<1>6. ASSUME NEW tx \in inFlight, ExecuteFirst(tx) PROVE SafeInv'
  <2>1. exists \subseteq exists' /\ Reads(tx.by) \ {Pool} \subseteq exists'
    BY <1>6 DEF ExecuteFirst, FirstMakesReady
  <2>2. AskedIsKnown' /\ FirstMakesReady' /\ ConfirmedIsReady' /\ ReadyToInitialize'
    BY <1>6, <2>1, AnswerSafe DEF ExecuteFirst
  <2>3. StakeBuysTheSupply'
    BY <1>6 DEF ExecuteFirst, StakeBuysTheSupply
  <2>4. NeverHalfMade'
    BY <1>6 DEF ExecuteFirst, FirstMakesReady, NeverHalfMade
  <2> QED BY <1>0, <2>2, <2>3, <2>4
<1>7. ASSUME NEW tx \in inFlight, ExecuteSecond(tx) PROVE SafeInv'
  <2>1. tx.by \in Creators /\ paid \in [Creators -> Nat] /\ Nobody \notin Creators
    BY PoolCreationAssumption DEF TypeInv, CreationTypeOK, Transactions
  <2>2. exists \subseteq exists'
    BY <1>7 DEF ExecuteSecond
  <2>3. AskedIsKnown' /\ FirstMakesReady' /\ ConfirmedIsReady' /\ ReadyToInitialize'
    BY <1>7, <2>2, AnswerSafe DEF ExecuteSecond
  <2>4. StakeBuysTheSupply'
    BY <1>7, <2>1 DEF ExecuteSecond, PayIn, Executable, Initializable, StakeBuysTheSupply
  <2>5. NeverHalfMade'
    BY <1>7, <2>1 DEF ExecuteSecond, Executable, Reads, NeverHalfMade
  <2> QED BY <1>0, <2>3, <2>4, <2>5
<1>8. ASSUME NEW tx \in inFlight, Refuse(tx) \/ Lose(tx) PROVE SafeInv'
  <2>1. Answer(tx, Idle(tx.call)) /\ UNCHANGED <<exists, founder, funded, paid>>
    BY <1>8 DEF Refuse, Lose
  <2>2. AskedIsKnown' /\ FirstMakesReady' /\ ConfirmedIsReady' /\ ReadyToInitialize'
    BY <2>1, AnswerSafe
  <2> QED BY <1>0, <2>1, <2>2, ClientStepSafe
<1>9. CASE Drain
  BY <1>0, <1>9 DEF Drain, StakeBuysTheSupply, NeverHalfMade, AskedIsKnown, FirstMakesReady,
                    ConfirmedIsReady, ReadyToInitialize, Questions, Reads
<1>10. CASE UNCHANGED vars
  BY <1>0, <1>10 DEF vars, StakeBuysTheSupply, NeverHalfMade, AskedIsKnown, FirstMakesReady,
                     ConfirmedIsReady, ReadyToInitialize, Questions, Reads
<1> QED BY <1>1, <1>2, <1>3, <1>4, <1>5, <1>6, <1>7, <1>8, <1>9, <1>10 DEF Next, Continue, Settle

THEOREM SafeAlways == Spec => []SafeInv
BY SafeInit, SafeStep, PTL DEF Spec

(***************************************************************************)
(* createPool takes a creator's tokens only against the initial supply,    *)
(* once, however many calls race, are retried or are executed late.        *)
(***************************************************************************)
THEOREM StakeAlwaysBuys == Spec => []StakeBuysTheSupply
<1>1. SafeInv => StakeBuysTheSupply
  BY DEF SafeInv
<1> QED BY <1>1, SafeAlways, PTL

(***************************************************************************)
(* The second transaction of createPool is never sent before all the       *)
(* accounts it reads exist.                                                *)
(***************************************************************************)
THEOREM AlwaysReady == Spec => []ReadyToInitialize
<1>1. SafeInv => ReadyToInitialize
  BY DEF SafeInv
<1> QED BY <1>1, SafeAlways, PTL

(***************************************************************************)
(* A pool account exists only as an initialized pool.                      *)
(***************************************************************************)
THEOREM NeverLeftHalfMade == Spec => []NeverHalfMade
<1>1. SafeInv => NeverHalfMade
  BY DEF SafeInv
<1> QED BY <1>1, SafeAlways, PTL

(***************************************************************************)
(* The founder of a pool never changes, even when the pool is drained and  *)
(* a transaction that was sent long before is executed.                    *)
(***************************************************************************)
THEOREM FounderStays == Spec => FoundedForGood
<1>1. ASSUME [Next]_vars PROVE founder # Nobody => founder' = founder
  BY <1>1 DEF Next, Continue, Settle, Call, AskIfFree, SendFirst, SendSecond, SigningThrows, GiveUp,
              ExecuteFirst, ExecuteSecond, Executable, Initializable, Refuse, Lose, Drain, vars
<1> QED BY <1>1, PTL DEF Spec, FoundedForGood

=============================================================================
