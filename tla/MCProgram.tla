------------------------------ MODULE MCProgram ------------------------------
(***************************************************************************)
(* One swap account, two token accounts to be reserves, two accounts for   *)
(* pool tokens, a creator and the owner of the program.  A byte has the    *)
(* values 0 to 7 and a number two bytes.                                   *)
(***************************************************************************)
EXTENDS ProgramProperties, TLC

CONSTANTS creator, owner,
          x, y, f, d,                 \* reserves, fee account, destination
          mintX, mintY,
          userA, userB, userPool, user

ScaledFees ==
  [trade |-> [num |-> 2, den |-> 40], owner |-> [num |-> 1, den |-> 40],
   withdraw |-> [num |-> 0, den |-> 0], host |-> [num |-> 1, den |-> 5]]

HigherFees == [ScaledFees EXCEPT !.trade.num = 4, !.owner.num = 3]

Mints  == (x :> mintX) @@ (y :> mintY) @@ (f :> PoolMint) @@ (d :> PoolMint) @@
          (userA :> mintX) @@ (userB :> mintY) @@ (userPool :> PoolMint)
Owners == (x :> creator) @@ (y :> creator) @@ (f :> owner) @@ (d :> creator)
User   == [userA |-> userA, userB |-> userB, userPool |-> userPool, user |-> user]

Product == [type |-> "ConstantProduct", parameter |-> 0]
Price   == [type |-> "ConstantPrice", parameter |-> 10]
Offset  == [type |-> "Offset", parameter |-> 10]

\* The Rust builder with any curve, the client with the curve it offers.
Asked ==
  [builder : {"Rust"}, fees : {ScaledFees, HigherFees}, curve : {Product, Price, Offset}]
  \cup [builder : {"TypeScript"}, fees : {ScaledFees}, curve : {Product}]

\* The client asks for a constant price.
AskedForPrice == [builder : {"TypeScript"}, fees : {ScaledFees}, curve : {Price}]

==============================================================================
