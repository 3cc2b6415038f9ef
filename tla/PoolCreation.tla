---------------------------- MODULE PoolCreation ----------------------------
(***************************************************************************)
(* services/saros_swap.service.ts: createDeterministicPool.  The address   *)
(* of the pool follows from the two mints, so several creators may work on *)
(* one pool.  A creator asks of each account whether its address is still  *)
(* free, one await after the other, creates the missing ones in a first    *)
(* transaction and, once that is confirmed, pays in the two amounts,       *)
(* creates the pool account and initializes the pool in a second one.      *)
(*                                                                         *)
(* A transaction is all or nothing.  It may be executed long after its     *)
(* sender stopped waiting for it, or never.  The amounts paid in are       *)
(* counted in stakes: the pair of amounts of one call.                     *)
(***************************************************************************)
EXTENDS Integers, Sequences

CONSTANTS Creators,    \* the users who create the pool
          FeeOwner,    \* the protocol fee address
          Nobody,      \* no user
          Others,      \* creators who, in some calls, use another client than this one
          MaxCalls,    \* bounds the calls of each creator
          MaxFaults    \* bounds the calls given up and the transactions lost

ASSUME PoolCreationAssumption ==
  /\ Nobody \notin Creators
  /\ Others \subseteq Creators
  /\ MaxCalls \in Nat /\ MaxFaults \in Nat

VARIABLES
  exists,    \* the addresses that are in use
  founder,   \* who initialized the pool, or Nobody
  funded,    \* pool tokens are outstanding
  paid,      \* paid[u]: stakes of u in the pool's token accounts
  inFlight,  \* transactions sent and neither executed nor lost
  client,    \* client[u]: the call of u under way
  faults

vars == <<exists, founder, funded, paid, inFlight, client, faults>>

Mint     == <<"pool mint">>
Pool     == <<"pool">>
Token(t) == <<"pool token account", t>>
Lp(u)    == <<"pool token holder", u>>

-----------------------------------------------------------------------------
(* What a call asks, in order, and what it puts into its transactions.     *)

\* Mutant of Questions: nobody asks for the fee account.
QuestionsButFee(u) == <<Mint, Token("A"), Token("B"), Lp(u), Pool>>

\* The fee account is the creator's own when the creator is the fee owner.
Questions(u) ==
  IF u = FeeOwner THEN <<Mint, Token("A"), Token("B"), Lp(u), Pool>>
  ELSE <<Mint, Token("A"), Token("B"), Lp(u), Lp(FeeOwner), Pool>>

\* Mutant of FirstCreates: the pool account is created with the others.
FirstCreatesAll(free) == free

FirstCreates(free)  == free \ {Pool}
SecondCreates(free) == free \cap {Pool}

Transaction(u, kind, creates) ==
  [by |-> u, call |-> client[u].call, kind |-> kind, creates |-> creates]

\* The second transaction reads these accounts.
Reads(u) == {Mint, Token("A"), Token("B"), Lp(u), Lp(FeeOwner), Pool}

\* The repository's client always signs with the keys of the mint and of the
\* pool, and its web3.js refuses a signer that no instruction names.  Another
\* client signs with the keys it needs.
CanSign(u, key, creates) == u \in Others \/ key \in creates

-----------------------------------------------------------------------------
(* The client.                                                             *)

Idle(call) == [stage |-> "idle", call |-> call, next |-> 1, free |-> {}]

Init ==
  /\ exists = {} /\ founder = Nobody /\ funded = FALSE
  /\ paid = [u \in Creators |-> 0]
  /\ inFlight = {}
  /\ client = [u \in Creators |-> Idle(0)]
  /\ faults = 0

Call(u) ==
  /\ client[u].stage = "idle" /\ client[u].call < MaxCalls
  /\ client' = [client EXCEPT ![u] = [Idle(client[u].call + 1) EXCEPT !.stage = "asking"]]
  /\ UNCHANGED <<exists, founder, funded, paid, inFlight, faults>>

\* isAddressAvailable of the next account.
AskIfFree(u) ==
  /\ client[u].stage = "asking" /\ client[u].next <= Len(Questions(u))
  /\ client' = [client EXCEPT ![u].next = @ + 1,
                              ![u].free = @ \cup ({Questions(u)[client[u].next]} \ exists)]
  /\ UNCHANGED <<exists, founder, funded, paid, inFlight, faults>>

SendFirst(u) ==
  LET creates == FirstCreates(client[u].free)
  IN  /\ client[u].stage = "asking" /\ client[u].next > Len(Questions(u))
      /\ CanSign(u, Mint, creates)
      /\ inFlight' = inFlight \cup {Transaction(u, "first", creates)}
      /\ client' = [client EXCEPT ![u].stage = "first"]
      /\ UNCHANGED <<exists, founder, funded, paid, faults>>

SendSecond(u) ==
  LET creates == SecondCreates(client[u].free)
  IN  /\ client[u].stage = "confirmed"
      /\ CanSign(u, Pool, creates)
      /\ inFlight' = inFlight \cup {Transaction(u, "second", creates)}
      /\ client' = [client EXCEPT ![u].stage = "second"]
      /\ UNCHANGED <<exists, founder, funded, paid, faults>>

\* The key of the mint or of the pool is among the signers for nothing.
SignsForNothing(u) ==
  \/ /\ client[u].stage = "asking" /\ client[u].next > Len(Questions(u))
     /\ Mint \notin FirstCreates(client[u].free)
  \/ /\ client[u].stage = "confirmed"
     /\ Pool \notin SecondCreates(client[u].free)

SigningThrows(u) ==
  /\ SignsForNothing(u)
  /\ client' = [client EXCEPT ![u] = Idle(client[u].call)]
  /\ UNCHANGED <<exists, founder, funded, paid, inFlight, faults>>

\* The creator's process ends or its connection fails, at any moment.
GiveUp(u) ==
  /\ client[u].stage \notin {"idle", "returned"} /\ faults < MaxFaults
  /\ client' = [client EXCEPT ![u] = Idle(client[u].call)]
  /\ faults' = faults + 1
  /\ UNCHANGED <<exists, founder, funded, paid, inFlight>>

-----------------------------------------------------------------------------
(* The chain.                                                              *)

Waiting(tx) == client[tx.by].stage = tx.kind /\ client[tx.by].call = tx.call

\* The sender of tx, if it still waits, goes on at stage.
Answer(tx, next) ==
  /\ inFlight' = inFlight \ {tx}
  /\ client' = IF Waiting(tx) THEN [client EXCEPT ![tx.by] = next] ELSE client

\* Mutant of Initializable: neither check is made.
InitializableAlways == TRUE

\* Mutant of Initializable: only the supply is looked at.
InitializableWithoutSupply == ~funded

\* AlreadyInUse and InvalidSupply of process_initialize.
Initializable == founder = Nobody /\ ~funded

\* Every account created by tx is new, and a pool is initialized only once.
Executable(tx) ==
  /\ tx.creates \cap exists = {}
  /\ tx.kind = "second" => Reads(tx.by) \subseteq exists \cup tx.creates /\ Initializable

ExecuteFirst(tx) ==
  /\ tx.kind = "first" /\ Executable(tx)
  /\ exists' = exists \cup tx.creates
  /\ Answer(tx, [client[tx.by] EXCEPT !.stage = "confirmed"])
  /\ UNCHANGED <<founder, funded, paid, faults>>

\* Mutant of PayIn: the transfers go from the pool to the user.
PayOut(u) == [paid EXCEPT ![u] = @ - 1]

\* The two transfers before the pool is created.
PayIn(u) == [paid EXCEPT ![u] = @ + 1]

ExecuteSecond(tx) ==
  /\ tx.kind = "second" /\ Executable(tx)
  /\ exists' = exists \cup tx.creates
  /\ founder' = tx.by /\ funded' = TRUE
  /\ paid' = PayIn(tx.by)
  /\ Answer(tx, [client[tx.by] EXCEPT !.stage = "returned"])
  /\ UNCHANGED faults

Refuse(tx) ==
  /\ ~Executable(tx)
  /\ Answer(tx, Idle(tx.call))
  /\ UNCHANGED <<exists, founder, funded, paid, faults>>

Lose(tx) ==
  /\ faults < MaxFaults
  /\ faults' = faults + 1
  /\ Answer(tx, Idle(tx.call))
  /\ UNCHANGED <<exists, founder, funded, paid>>

\* The holders withdraw everything: the pool stays, its mint has no supply.
Drain ==
  /\ funded
  /\ funded' = FALSE /\ paid' = [u \in Creators |-> 0]
  /\ UNCHANGED <<exists, founder, inFlight, client, faults>>

-----------------------------------------------------------------------------

Continue(u) == AskIfFree(u) \/ SendFirst(u) \/ SendSecond(u) \/ SigningThrows(u)

Settle(tx) == ExecuteFirst(tx) \/ ExecuteSecond(tx) \/ Refuse(tx)

Next ==
  \/ \E u \in Creators : Call(u) \/ Continue(u) \/ GiveUp(u)
  \/ \E tx \in inFlight : Settle(tx) \/ Lose(tx)
  \/ Drain

Spec == Init /\ [][Next]_vars

(***************************************************************************)
(* A call that was begun goes on, unless it is given up, and the chain     *)
(* deals with every transaction it was sent.  Nobody has to call, or to    *)
(* call again.                                                             *)
(***************************************************************************)
FairSpec ==
  /\ Spec
  /\ \A u \in Creators : WF_vars(Continue(u))
  /\ WF_vars(\E tx \in inFlight : Settle(tx))

=============================================================================
