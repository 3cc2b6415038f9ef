------------------------ MODULE PoolCreationProperties ------------------------
(***************************************************************************)
(* What the creators of a pool may rely on, whatever is retried, given up, *)
(* lost, or executed late.                                                 *)
(***************************************************************************)
EXTENDS PoolCreation, FiniteSets

Addresses == {Mint, Pool, Token("A"), Token("B"), Lp(FeeOwner)} \cup {Lp(u) : u \in Creators}

Stages == {"idle", "asking", "first", "confirmed", "second", "returned"}

Transactions ==
  [by : Creators, call : 1..MaxCalls, kind : {"first", "second"}, creates : SUBSET Addresses]

CreationTypeOK ==
  /\ exists \subseteq Addresses
  /\ founder \in Creators \cup {Nobody}
  /\ funded \in BOOLEAN
  /\ paid \in [Creators -> Nat]
  /\ inFlight \subseteq Transactions
  /\ client \in [Creators -> [stage : Stages, call : 0..MaxCalls, next : 1..7,
                              free : SUBSET Addresses]]
  /\ faults \in 0..MaxFaults

(***************************************************************************)
(* A creator's tokens are in the pool exactly when they bought it the      *)
(* initial supply: createPool transfers before it initializes, and neither *)
(* a creator who loses the race nor one who retries a call whose           *)
(* transaction was executed after all pays for nothing, or twice.          *)
(***************************************************************************)
StakeBuysTheSupply ==
  \A u \in Creators : paid[u] = IF funded /\ founder = u THEN 1 ELSE 0

(***************************************************************************)
(* When the second transaction has been sent, every account it reads but   *)
(* the pool exists, whoever created it: initializing never fails for want  *)
(* of an account, although each creator has asked for each only once and   *)
(* others were at work meanwhile.                                          *)
(***************************************************************************)
ReadyToInitialize ==
  \A tx \in inFlight : tx.kind = "second" => Reads(tx.by) \ {Pool} \subseteq exists

(***************************************************************************)
(* The pool account never exists without being an initialized pool: no     *)
(* crash between the two transactions leaves one to be initialized by      *)
(* somebody else.                                                          *)
(***************************************************************************)
NeverHalfMade == Pool \in exists <=> founder # Nobody

(***************************************************************************)
(* A pool is initialized once and for all: a second transaction that is    *)
(* executed after the pool was drained, when the supply of its mint is     *)
(* zero again, must not give the pool a new founder and a new curve.       *)
(***************************************************************************)
FoundedForGood == [][founder # Nobody => founder' = founder]_vars

(***************************************************************************)
(* Some call may still make the pool: the accounts are made and a creator  *)
(* who saw them confirmed goes on, or the mint is free, a call is after it *)
(* and no transaction of a call that was given up can take it.             *)
(***************************************************************************)
CanFinish ==
  \/ \E u \in Creators : client[u].stage = "confirmed"
  \/ /\ Mint \notin exists
     /\ \E u \in Creators : client[u].stage \in {"asking", "first"}
     /\ \A tx \in inFlight : Waiting(tx)

(***************************************************************************)
(* Of creators who race for one pool, whether or not they all use this     *)
(* client, one succeeds: from a moment when a call can finish, and until   *)
(* the next fault, it never happens that each finds an account taken by    *)
(* another and none goes on.  It is not said of the time after a fault     *)
(* which leaves the accounts made and nobody to go on: then every later    *)
(* call of this client throws when it signs for the mint, and if nobody    *)
(* has another, no pool is ever made.                                      *)
(***************************************************************************)
PoolGetsCreated ==
  \A n \in 0..MaxFaults :
    faults = n /\ CanFinish ~> founder # Nobody \/ faults > n

=============================================================================
