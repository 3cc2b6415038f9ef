---------------------------- MODULE ProgramProofs ----------------------------
(***************************************************************************)
(* Proofs about Program for any accounts, people, bytes and requests.      *)
(***************************************************************************)
EXTENDS ProgramProperties, CurveProofs, SequenceTheorems

\* The base and the word length, which all of the next two sections are about.
USE WireAssumption

-----------------------------------------------------------------------------
(* Numbers and their bytes.                                                *)

\* There is such a function as Weight.
LEMMA WeightExists ==
  \E w : w = [i \in 0 .. WordLen |-> IF i = 0 THEN 1 ELSE Base * w[i - 1]]
  <1> DEFINE Upto(n) == \E w : w = [i \in 0 .. n |-> IF i = 0 THEN 1 ELSE Base * w[i - 1]]
             bad == {n \in Nat : ~Upto(n)}
  <1>1. SUFFICES ASSUME bad # {} PROVE FALSE
    OBVIOUS
  <1>2. PICK n \in bad : \A k \in bad : n <= k
    BY <1>1, SmallestNat
  <1>3. n # 0
    <2>1. [i \in 0 .. 0 |-> 1]
            = [i \in 0 .. 0 |-> IF i = 0 THEN 1 ELSE Base * [j \in 0 .. 0 |-> 1][i - 1]]
      OBVIOUS
    <2>2. Upto(0)
      BY <2>1
    <2> QED  BY <1>2, <2>2
  <1>4. PICK w : w = [i \in 0 .. n - 1 |-> IF i = 0 THEN 1 ELSE Base * w[i - 1]]
    <2>1. n - 1 \in Nat /\ n - 1 < n /\ n \in Nat
      BY <1>2, <1>3
    <2>2. Upto(n - 1)
      <3> HIDE DEF Upto
      <3> QED  BY <1>2, <2>1
    <2> QED  BY <2>2
  <1> DEFINE v == [i \in 0 .. n |-> IF i = 0 THEN 1 ELSE Base * w[i - 1]]
  <1>5. \A i \in 0 .. n : i # 0 => v[i - 1] = w[i - 1]
    <2> SUFFICES ASSUME NEW i \in 0 .. n, i # 0
                 PROVE  v[i - 1] = w[i - 1]
      OBVIOUS
    <2>1. i - 1 \in 0 .. n - 1 /\ i - 1 \in 0 .. n
      BY <1>2
    <2> QED  BY <1>4, <2>1
  <1>6. v = [i \in 0 .. n |-> IF i = 0 THEN 1 ELSE Base * v[i - 1]]
    <2>1. \A i \in 0 .. n : v[i] = IF i = 0 THEN 1 ELSE Base * v[i - 1]
      BY <1>5
    <2> HIDE DEF v
    <2>2. v = [i \in 0 .. n |-> v[i]]
      BY DEF v
    <2> QED  BY <2>1, <2>2
  <1> QED  BY <1>2, <1>6

\* The weights, one after the other.
LEMMA Weights ==
  /\ Weight[0] = 1
  /\ \A i \in 1 .. WordLen : Weight[i] = Base * Weight[i - 1]
  <1>1. Weight = [i \in 0 .. WordLen |-> IF i = 0 THEN 1 ELSE Base * Weight[i - 1]]
    BY WeightExists DEF Weight
  <1> QED  BY <1>1

\* The weights are positive, and but for the first one at least as large as Base.
LEMMA WeightsGrow ==
  /\ \A i \in 0 .. WordLen : Weight[i] \in Nat \ {0}
  /\ \A i \in 1 .. WordLen : Weight[i] >= Base
  <1> DEFINE bad == {i \in 0 .. WordLen : Weight[i] \notin Nat \ {0}}
  <1>1. bad = {}
    <2> SUFFICES ASSUME bad # {} PROVE FALSE
      OBVIOUS
    <2>1. PICK n \in bad : \A k \in bad : n <= k
      <3>1. bad \in SUBSET Nat
        OBVIOUS
      <3> HIDE DEF bad
      <3> QED  BY <3>1, SmallestNat
    <2>2. n # 0
      BY Weights
    <2>3. n \in 1 .. WordLen /\ n - 1 \in 0 .. WordLen /\ n - 1 \notin bad
      BY <2>1, <2>2
    <2>4. Weight[n - 1] \in Nat \ {0}
      BY <2>3
    <2>5. Weight[n] = Base * Weight[n - 1]
      BY <2>3, Weights
    <2>6. Weight[n] >= Weight[n - 1] /\ Weight[n] \in Nat
      <3>1. 1 * Weight[n - 1] <= Base * Weight[n - 1] /\ Base * Weight[n - 1] \in Nat
        BY <2>4, ProductMonotone
      <3> QED  BY <2>4, <2>5, <3>1
    <2> QED  BY <2>1, <2>4, <2>6
  <1>2. ASSUME NEW i \in 1 .. WordLen
        PROVE  Weight[i] >= Base
    <2>1. i - 1 \in 0 .. WordLen /\ Weight[i - 1] \in Nat \ {0}
      <3>1. i - 1 \in 0 .. WordLen
        OBVIOUS
      <3> QED  BY <1>1, <3>1
    <2>2. Base * 1 <= Base * Weight[i - 1]
      BY <2>1, ProductMonotone
    <2> QED  BY <2>1, <2>2, Weights
  <1> QED  BY <1>1, <1>2

\* There is one way to divide.
LEMMA ModUnique ==
  ASSUME NEW d \in Nat \ {0}, NEW q \in Nat, NEW r \in 0 .. d - 1
  PROVE  (d * q + r) % d = r /\ (d * q + r) \div d = q
  <1> DEFINE n == d * q + r
             k == n \div d
  <1>1. n \in Nat /\ d * q \in Nat
    BY ProductMonotone
  <1>2. k \in Nat /\ d * k <= n /\ n < d * k + d /\ n % d = n - d * k
    <2> HIDE DEF n
    <2> QED  BY <1>1
  <1>3. k <= q
    <2> SUFFICES ASSUME k >= q + 1 PROVE FALSE
      BY <1>2
    <2>1. d * (q + 1) <= d * k
      BY <1>2, ProductMonotone
    <2> QED  BY <1>1, <1>2, <2>1
  <1>4. q <= k
    <2> SUFFICES ASSUME q >= k + 1 PROVE FALSE
      BY <1>2
    <2>1. d * (k + 1) <= d * q
      BY <1>2, ProductMonotone
    <2> QED  BY <1>1, <1>2, <2>1
  <1> QED  BY <1>1, <1>2, <1>3, <1>4

\* What a byte adds to the ones below it.
LEMMA NextByte ==
  ASSUME NEW n \in Nat, NEW w \in Nat \ {0}
  PROVE  n % (Base * w) = (n % w) + ((n \div w) % Base) * w
  <1> DEFINE m == n \div w
             q == m \div Base
             b == m % Base
             r == n % w
  <1>1. m \in Nat /\ r \in 0 .. w - 1 /\ n = w * m + r
    OBVIOUS
  <1>2. q \in Nat /\ b \in 0 .. Base - 1 /\ m = Base * q + b
    <2> HIDE DEF m
    <2> QED  BY <1>1
  <1> HIDE DEF m, q, b, r
  <1>3. w * b + r \in Nat /\ w * b \in Nat /\ Base * w \in Nat \ {0} /\ w * b + r < Base * w
    <2>1. w * b <= w * (Base - 1) /\ w * b \in Nat /\ 1 * w <= Base * w /\ Base * w \in Nat
      BY <1>2, ProductMonotone
    <2>2. w * (Base - 1) = Base * w - w
      OBVIOUS
    <2> QED  BY <1>1, <2>1, <2>2
  <1>4. n = (Base * w) * q + (w * b + r)
    BY <1>1, <1>2
  <1>5. n % (Base * w) = w * b + r
    <2> DEFINE d == Base * w
               e == w * b + r
    <2>1. d \in Nat \ {0} /\ e \in 0 .. d - 1 /\ n = d * q + e
      BY <1>3, <1>4
    <2> HIDE DEF d, e
    <2>2. n % d = e
      BY <1>2, <2>1, ModUnique
    <2> QED  BY <2>2 DEF d, e
  <1> QED  BY <1>1, <1>2, <1>5 DEF r, b, m

(***************************************************************************)
(* A number that fits is read as it was written: the lowest k bytes are    *)
(* what is left of it by the weight of the next.                           *)
(***************************************************************************)
LEMMA ReadAsWritten ==
  ASSUME NEW n \in 0 .. U64Max
  PROVE  FromLeBytes(ToLeBytes(n)) = n
  <1> DEFINE places == 1 .. WordLen
             part(i) == ((n \div Weight[i - 1]) % Base) * Weight[i - 1]
             low(k) == [i \in places |-> IF i <= k THEN part(i) ELSE 0]
             bad == {k \in 0 .. WordLen : SumFunction(low(k)) # n % Weight[k]}
  <1>1. ASSUME NEW i \in places
        PROVE  i - 1 \in 0 .. WordLen /\ Weight[i - 1] \in Nat \ {0} /\ part(i) \in Nat
    <2>1. i - 1 \in 0 .. WordLen
      OBVIOUS
    <2>2. Weight[i - 1] \in Nat \ {0}
      BY <2>1, WeightsGrow
    <2>3. (n \div Weight[i - 1]) \in Nat
      BY <2>2
    <2>4. (n \div Weight[i - 1]) % Base \in Nat
      BY <2>3
    <2> QED  BY <2>1, <2>2, <2>4, ProductMonotone
  <1>2. IsFiniteSet(places)
    BY FS_Interval
  <1>3. \A k : low(k) \in [places -> Nat]
    <2> HIDE DEF part
    <2> QED  BY <1>1
  <1>4. bad = {}
    <2> SUFFICES ASSUME bad # {} PROVE FALSE
      OBVIOUS
    <2>1. PICK k \in bad : \A j \in bad : k <= j
      <3>1. bad \in SUBSET Nat
        OBVIOUS
      <3> HIDE DEF bad
      <3> QED  BY <3>1, SmallestNat
    <2>2. k # 0
      <3>1. SumFunction(low(0)) = 0
        <4>1. \A i \in places : low(0)[i] = 0
          OBVIOUS
        <4> HIDE DEF low, places
        <4> QED  BY <1>2, <1>3, <4>1, SumOfZeros
      <3>2. n % Weight[0] = 0
        BY Weights
      <3> QED  BY <2>1, <3>1, <3>2
    <2>3. k \in places /\ k - 1 \in 0 .. WordLen /\ k - 1 \notin bad
      BY <2>1, <2>2
    <2>4. SumFunction(low(k - 1)) = n % Weight[k - 1]
      BY <2>3
    <2>5. SumFunction(low(k)) = SumFunction(low(k - 1)) - low(k - 1)[k] + low(k)[k]
      <3>1. \A i \in places \ {k} : low(k)[i] = low(k - 1)[i]
        <4> HIDE DEF part
        <4> QED  BY <2>3
      <3>2. low(k) \in [places -> Nat] /\ low(k - 1) \in [places -> Nat] /\ k \in places
        BY <1>3, <2>3
      <3> HIDE DEF low, places, bad
      <3> QED  BY <1>2, <3>1, <3>2, SumOfChanged
    <2>6. low(k - 1)[k] = 0 /\ low(k)[k] = part(k)
      <3> HIDE DEF part
      <3> QED  BY <2>3
    <2>7. Weight[k] = Base * Weight[k - 1]
      BY <2>3, Weights
    <2>8. n % Weight[k] = (n % Weight[k - 1]) + part(k)
      <3>1. n \in Nat /\ Weight[k - 1] \in Nat \ {0}
        BY <1>1, <2>3
      <3>2. n % (Base * Weight[k - 1]) = (n % Weight[k - 1]) + part(k)
        BY <3>1, NextByte
      <3> HIDE DEF part
      <3> QED  BY <2>7, <3>2
    <2>9. n % Weight[k - 1] \in Nat /\ part(k) \in Nat
      <3>1. Weight[k - 1] \in Nat \ {0} /\ part(k) \in Nat
        BY <1>1, <2>3
      <3> HIDE DEF part
      <3> QED  BY <3>1
    <2>10. SumFunction(low(k)) = n % Weight[k]
      <3> HIDE DEF low, part
      <3> QED  BY <2>4, <2>5, <2>6, <2>8, <2>9
    <2> QED  BY <2>1, <2>10
  <1>5. SumFunction(low(WordLen)) = n % Weight[WordLen]
    <2>1. WordLen \in 0 .. WordLen
      OBVIOUS
    <2> HIDE DEF low
    <2> QED  BY <1>4, <2>1
  <1>6. n % Weight[WordLen] = n
    <2>1. Weight[WordLen] \in Nat \ {0} /\ n < Weight[WordLen] /\ n \in Nat
      BY WeightsGrow
    <2> QED  BY <2>1
  <1>7. low(WordLen) = [i \in places |-> part(i)]
    <2> HIDE DEF part
    <2> QED  OBVIOUS
  <1>8. [i \in 1 .. WordLen |-> ToLeBytes(n)[i] * Weight[i - 1]] = [i \in places |-> part(i)]
    BY DEF ToLeBytes
  <1> QED  BY <1>5, <1>6, <1>7, <1>8 DEF FromLeBytes

\* A packed list of numbers is a sequence over anything that has its bytes.
LEMMA WordsAreBytes ==
  ASSUME NEW words, NEW k \in Nat, NEW S,
         \A i \in 1 .. k * WordLen : Words(words, k)[i] \in S
  PROVE  /\ Words(words, k) \in Seq(S)
         /\ k * WordLen = Len(Words(words, k))
  <1>1. k * WordLen \in Nat
    BY WireAssumption
  <1>2. Words(words, k) \in [1 .. k * WordLen -> S]
    BY DEF Words
  <1> QED  BY <1>1, <1>2

\* The lengths, as numbers.
LEMMA Lengths ==
  /\ WordLen \in Nat \ {0}
  /\ 8 * WordLen = FEES_LEN /\ FEES_LEN \in Nat
  /\ 1 + 4 * WordLen = CURVE_LEN /\ CURVE_LEN \in Nat \ {0}
  /\ 9 + FEES_LEN + CURVE_LEN = SWAP_LEN
  BY WireAssumption DEF FEES_LEN, CURVE_LEN, SWAP_LEN

\* The i-th number is where WordAt looks for it, and fits.
LEMMA WordRead ==
  ASSUME NEW words, NEW k \in Nat, NEW i \in 1 .. k, words[i] \in 0 .. U64Max
  PROVE  WordAt(Words(words, k), i) = words[i]
  <1> DEFINE packed == Words(words, k)
             bytes  == SubSeq(packed, (i - 1) * WordLen + 1, i * WordLen)
             S == {packed[j] : j \in 1 .. k * WordLen}
  <1>1. /\ (i - 1) * WordLen \in Nat /\ i * WordLen = (i - 1) * WordLen + WordLen
        /\ i * WordLen <= k * WordLen /\ k * WordLen \in Nat
    <2>1. i - 1 \in Nat /\ i <= k
      OBVIOUS
    <2> QED  BY <2>1, ProductMonotone
  <1>2. ASSUME NEW j \in 1 .. WordLen
        PROVE  bytes[j] = ToLeBytes(words[i])[j]
    <2> DEFINE at == (i - 1) * WordLen + j
    <2>1. at \in 1 .. k * WordLen
      BY <1>1
    <2>2. bytes[j] = packed[at]
      <3>1. \A l \in (i - 1) * WordLen + 1 .. i * WordLen : packed[l] \in S
        BY <1>1
      <3>2. /\ (i - 1) * WordLen + 1 \in Int /\ i * WordLen \in Int
            /\ j \in 1 .. i * WordLen - ((i - 1) * WordLen + 1) + 1
            /\ (i - 1) * WordLen + 1 + j - 1 = at
        BY <1>1
      <3> HIDE DEF packed, S
      <3> QED  BY <3>1, <3>2, SubSeqProperties
    <2>3. (at - 1) \div WordLen = i - 1 /\ (at - 1) % WordLen = j - 1
      <3>1. WordLen * (i - 1) + (j - 1) = at - 1 /\ i - 1 \in Nat /\ j - 1 \in 0 .. WordLen - 1
        BY <1>1
      <3>2. (WordLen * (i - 1) + (j - 1)) \div WordLen = i - 1
              /\ (WordLen * (i - 1) + (j - 1)) % WordLen = j - 1
        BY <3>1, ModUnique
      <3> HIDE DEF at
      <3> QED  BY <3>1, <3>2
    <2>4. packed[at] = ToLeBytes(words[(at - 1) \div WordLen + 1])[((at - 1) % WordLen) + 1]
      <3> HIDE DEF at
      <3> QED  BY <2>1 DEF Words
    <2>5. i - 1 + 1 = i /\ j - 1 + 1 = j
      OBVIOUS
    <2> QED  BY <2>2, <2>3, <2>4, <2>5
  <1>3. FromLeBytes(bytes) = FromLeBytes(ToLeBytes(words[i]))
    <2> HIDE DEF bytes
    <2>1. [j \in 1 .. WordLen |-> bytes[j] * Weight[j - 1]]
            = [j \in 1 .. WordLen |-> ToLeBytes(words[i])[j] * Weight[j - 1]]
      BY <1>2
    <2> QED  BY <2>1 DEF FromLeBytes
  <1> QED  BY <1>3, ReadAsWritten DEF WordAt

\* Fees of u64 are read as they were packed.
LEMMA FeesRead == ReadFees(PackFees(FEES)) = FEES
  <1> DEFINE words == <<FEES.trade.num, FEES.trade.den, FEES.owner.num, FEES.owner.den,
                        FEES.withdraw.num, FEES.withdraw.den, FEES.host.num, FEES.host.den>>
  <1>1. /\ FEES = [trade |-> FEES.trade, owner |-> FEES.owner, withdraw |-> FEES.withdraw,
                   host |-> FEES.host]
        /\ \A k \in {"trade", "owner", "withdraw", "host"} :
             /\ FEES[k] = [num |-> FEES[k].num, den |-> FEES[k].den]
             /\ FEES[k].num \in 0 .. U64Max /\ FEES[k].den \in 0 .. U64Max
    <2>1. FEES \in [trade : Fraction, owner : Fraction, withdraw : Fraction, host : Fraction]
      BY DEF ValidFees
    <2>2. \A k \in {"trade", "owner", "withdraw", "host"} :
            FEES[k] \in Fraction /\ k \in DOMAIN FEES
      BY <2>1
    <2>3. U64Max \in Nat
      BY SplMathAssumption
    <2> QED  BY <2>1, <2>2, <2>3 DEF Fraction
  <1>2. \A i \in 1 .. 8 : words[i] \in 0 .. U64Max
    BY <1>1
  <1>3. \A i \in 1 .. 8 : WordAt(PackFees(FEES), i) = words[i]
    <2> HIDE DEF words
    <2> QED  BY <1>2, WordRead DEF words, PackFees
  <1> QED  BY <1>1, <1>3 DEF ReadFees

HIDE WireAssumption

-----------------------------------------------------------------------------
(* Sequences one after the other.                                          *)

\* Two sequences, one after the other in u, each at its place.
LEMMA Shifted ==
  ASSUME NEW S, NEW s \in Seq(S), NEW t \in Seq(S), NEW u,
         \A i \in 1 .. Len(s) + Len(t) : u[i] = IF i <= Len(s) THEN s[i] ELSE t[i - Len(s)]
  PROVE  /\ \A i \in 1 .. Len(s) : u[i] = s[i]
         /\ \A i \in 1 .. Len(t) : u[Len(s) + i] = t[i]
  <1>1. Len(s) \in Nat /\ Len(t) \in Nat
    BY LenProperties
  <1>2. \A i \in 1 .. Len(s) : u[i] = s[i]
    BY <1>1
  <1>3. ASSUME NEW i \in 1 .. Len(t)
        PROVE  u[Len(s) + i] = t[i]
    <2>1. /\ Len(s) + i \in 1 .. Len(s) + Len(t)
          /\ ~(Len(s) + i <= Len(s)) /\ Len(s) + i - Len(s) = i
      BY <1>1
    <2> QED  BY <2>1
  <1> QED  BY <1>2, <1>3

\* Where things are when one sequence is put before another.
LEMMA Placed ==
  ASSUME NEW S, NEW s \in Seq(S), NEW t \in Seq(S), NEW u, u = s \o t
  PROVE  /\ u \in Seq(S)
         /\ Len(u) = Len(s) + Len(t)
         /\ \A i \in 1 .. Len(s) : u[i] = s[i]
         /\ \A i \in 1 .. Len(t) : u[Len(s) + i] = t[i]
  <1>1. /\ u \in Seq(S) /\ Len(u) = Len(s) + Len(t)
        /\ \A i \in 1 .. Len(s) + Len(t) : u[i] = IF i <= Len(s) THEN s[i] ELSE t[i - Len(s)]
    BY ConcatProperties
  <1> QED  BY <1>1, Shifted

\* A sequence over S of n elements.
Cells(s, S, n) == s \in Seq(S) /\ Len(s) = n

\* s, and then t.
Joins(u, s, t) == u = s \o t

\* Where things are in a list that is made of two.
LEMMA Joined ==
  ASSUME NEW S, NEW s \in Seq(S), NEW t \in Seq(S), NEW u, Joins(u, s, t)
  PROVE  /\ u \in Seq(S)
         /\ Len(u) = Len(s) + Len(t)
         /\ \A i \in 1 .. Len(s) : u[i] = s[i]
         /\ \A i \in 1 .. Len(t) : u[Len(s) + i] = t[i]
  BY Placed DEF Joins

\* One cell and then the rest.
LEMMA Headed ==
  ASSUME NEW S, NEW one \in Seq(S), NEW rest \in Seq(S), NEW data, Joins(data, one, rest)
  PROVE  /\ data \in Seq(S)
         /\ Len(one) = 1 => Len(data) > 0 /\ data[1] = one[1] /\ Tail(data) = rest
  <1>1. /\ data \in Seq(S) /\ Len(data) = Len(one) + Len(rest)
        /\ \A i \in 1 .. Len(one) : data[i] = one[i]
        /\ \A i \in 1 .. Len(rest) : data[Len(one) + i] = rest[i]
    BY Joined
  <1>2. Len(rest) \in Nat
    BY LenProperties
  <1>3. ASSUME Len(one) = 1
        PROVE  Len(data) > 0 /\ data[1] = one[1] /\ Tail(data) = rest
    <2>1. Len(data) = 1 + Len(rest) /\ data[1] = one[1]
      BY <1>1, <1>2, <1>3
    <2>2. /\ Tail(data) \in Seq(S) /\ Len(Tail(data)) = Len(data) - 1
          /\ \A i \in 1 .. Len(Tail(data)) : Tail(data)[i] = data[i + 1]
      <3>1. data # <<>>
        BY <1>2, <2>1
      <3> QED  BY <1>1, <3>1, HeadTailProperties
    <2>3. Len(Tail(data)) = Len(rest)
      BY <1>2, <2>1, <2>2
    <2>4. \A i \in 1 .. Len(rest) : Tail(data)[i] = rest[i]
      BY <1>1, <1>2, <1>3, <2>2, <2>3
    <2>5. Tail(data) = rest
      BY <2>2, <2>3, <2>4, SeqEqual
    <2> QED  BY <1>2, <2>1, <2>5
  <1> QED  BY <1>1, <1>3

-----------------------------------------------------------------------------
(* The data of an instruction.                                             *)

\* The tags tell the instructions apart.
LEMMA OpTags ==
  ASSUME NEW op \in Ops
  PROVE  {o \in Ops : OpTag[o] = OpTag[op]} = {op}
  BY DEF Ops, OpTag

(***************************************************************************)
(* A request with numbers that fit arrives as it was sent.                 *)
(***************************************************************************)
LEMMA RequestRead ==
  ASSUME NEW builder \in Builders, NEW op \in Ops \ {"Initialize"},
         NEW args \in [1 .. ArgCount[op] -> 0 .. U64Max]
  PROVE  LET request == [op |-> op, args |-> args]
         IN  UnpackInstruction(Data(builder, request)) = Some(request)
  <1> DEFINE k == ArgCount[op]
             request == [op |-> op, args |-> args]
             data == Data(builder, request)
             packed == Words(args, k)
             S == {OpTag[op]} \cup {packed[i] : i \in 1 .. k * WordLen}
  <1>1. k \in Nat
    BY DEF ArgCount, Ops
  <1>2. data = <<OpTag[op]>> \o packed
    BY DEF Data, SerializeInstruction, PackInstruction
  <1>3. packed \in Seq(S) /\ Len(packed) = k * WordLen /\ k * WordLen \in Nat
    <2>1. \A i \in 1 .. k * WordLen : packed[i] \in S
      OBVIOUS
    <2> HIDE DEF S, k
    <2> QED  BY <1>1, <2>1, WordsAreBytes
  <1>4. OpTag[op] \in S
    OBVIOUS
  <1> HIDE DEF k, data, packed, S
  <1>5. Len(data) > 0 /\ data[1] = OpTag[op] /\ Tail(data) = packed
    <2> DEFINE one == <<OpTag[op]>>
    <2>1. one \in Seq(S) /\ Len(one) = 1 /\ one[1] = OpTag[op] /\ Joins(data, one, packed)
      BY <1>2, <1>4 DEF Joins
    <2> HIDE DEF one
    <2> QED  BY <1>3, <2>1, Headed
  <1>6. \A i \in 1 .. k : WordAt(packed, i) = args[i]
    BY <1>1, WordRead DEF packed, k
  <1>7. UnpackArgs(op, packed) = Some(request)
    <2>1. [i \in 1 .. k |-> WordAt(packed, i)] = args
      BY <1>6 DEF k
    <2>2. Len(packed) >= ArgCount[op] * WordLen
      BY <1>3 DEF k
    <2> QED  BY <2>1, <2>2 DEF UnpackArgs, When, k
  <1>8. UnpackInstruction(data) = UnpackArgs(op, packed)
    <2>1. {o \in Ops : OpTag[o] = data[1]} = {op}
      BY <1>5, OpTags
    <2>2. UnpackInstruction(data)
            = UNION {IF o = "Initialize" THEN UnpackInitialize(packed)
                     ELSE UnpackArgs(o, packed) : o \in {op}}
      BY <1>5, <2>1 DEF UnpackInstruction, When
    <2> QED  BY <2>2
  <1> QED  BY <1>7, <1>8 DEF data

\* The numbers that the property asks for.
LEMMA SomeArgsFit ==
  ASSUME NEW op \in Ops \ {"Initialize"}
  PROVE  SomeArgs(op) \in [1 .. ArgCount[op] -> 0 .. U64Max]
  <1>1. U64Max \in Nat /\ U64Max >= 5
    <2>1. Weight[WordLen] \in Nat /\ Weight[WordLen] >= Base
      <3>1. WordLen \in 1 .. WordLen /\ WordLen \in 0 .. WordLen
        BY WireAssumption
      <3> QED  BY <3>1, WeightsGrow
    <2> QED  BY <2>1, WireAssumption
  <1>2. ArgCount[op] \in {2, 3}
    BY DEF ArgCount, Ops
  <1> QED  BY <1>1, <1>2 DEF SomeArgs

\* What comes first stays first.
LEMMA First ==
  ASSUME NEW S, NEW s \in Seq(S), NEW t \in Seq(S), NEW u, Joins(u, s, t)
  PROVE  u \in Seq(S) /\ (Len(s) > 0 => Len(u) > 0 /\ u[1] = s[1])
  <1>1. /\ u \in Seq(S) /\ Len(u) = Len(s) + Len(t)
        /\ \A i \in 1 .. Len(s) : u[i] = s[i]
    BY Joined
  <1>2. Len(s) \in Nat /\ Len(t) \in Nat
    BY LenProperties
  <1> QED  BY <1>1, <1>2

\* A number that fits takes one byte at least, and WordLen at most.
LEMMA ArrayFits ==
  ASSUME NEW n \in 0 .. U64Max
  PROVE  ToArrayLike(n) \in Seq(Nat) /\ Len(ToArrayLike(n)) \in 1 .. WordLen
  <1> DEFINE enough == {d \in 1 .. WordLen : n < Weight[d]}
             fits(d) == n < Weight[d] /\ (d = 1 \/ n >= Weight[d - 1])
  <1> USE WireAssumption
  <1>1. PICK d \in enough : \A k \in enough : d <= k
    <2>1. WordLen \in enough
      <3>1. WordLen \in 0 .. WordLen /\ WordLen \in 1 .. WordLen
        OBVIOUS
      <3>2. Weight[WordLen] \in Nat
        BY <3>1, WeightsGrow
      <3> QED  BY <3>1, <3>2
    <2>2. enough \in SUBSET Nat
      OBVIOUS
    <2> HIDE DEF enough
    <2> QED  BY <2>1, <2>2, SmallestNat
  <1>2. fits(d)
    <2> SUFFICES ASSUME d # 1, ~(n >= Weight[d - 1]) PROVE FALSE
      BY <1>1
    <2>1. d - 1 \in 1 .. WordLen /\ d - 1 \in 0 .. WordLen
      BY <1>1
    <2>2. Weight[d - 1] \in Nat
      BY <2>1, WeightsGrow
    <2>3. d - 1 \in enough
      BY <2>1, <2>2
    <2> QED  BY <1>1, <2>1, <2>3
  <1> DEFINE count == CHOOSE e \in 1 .. WordLen : fits(e)
  <1>3. count \in 1 .. WordLen
    <2> HIDE DEF fits
    <2> QED  BY <1>1, <1>2
  <1>4. ToArrayLike(n) = [i \in 1 .. count |-> (n \div Weight[count - i]) % Base]
    BY DEF ToArrayLike
  <1> HIDE DEF count
  <1>5. ASSUME NEW i \in 1 .. count
        PROVE  (n \div Weight[count - i]) % Base \in Nat
    <2>1. count - i \in 0 .. WordLen
      BY <1>3
    <2>2. Weight[count - i] \in Nat \ {0}
      BY <2>1, WeightsGrow
    <2>3. n \div Weight[count - i] \in Nat
      BY <2>2
    <2> QED  BY <2>3
  <1>6. ToArrayLike(n) \in [1 .. count -> Nat] /\ count \in Nat
    BY <1>3, <1>4, <1>5
  <1> QED  BY <1>3, <1>6

\* Either library sends the tag of Initialize first.
LEMMA InitializeFirst ==
  ASSUME NEW builder \in Builders, NEW request, request.op = "Initialize",
         request.curve.parameter \in 0 .. U64Max
  PROVE  Len(Data(builder, request)) > 0 /\ Data(builder, request)[1] = 0
  <1> DEFINE one    == <<0>>
             tag    == <<CurveTag[request.curve.type]>>
             fees   == PackFees(request.fees)
             words  == Words(<<IF request.curve.type = "ConstantProduct" THEN 0
                               ELSE request.curve.parameter, 0, 0, 0>>, 4)
             digits == ToArrayLike(request.curve.parameter)
             zeros  == Zeros(4 * WordLen - Len(digits))
             S == {0} \cup {tag[1]} \cup {fees[i] : i \in 1 .. 8 * WordLen}
                    \cup {words[i] : i \in 1 .. 4 * WordLen} \cup Nat
  <1>1. one \in Seq(S) /\ Len(one) > 0 /\ one[1] = 0
    <2>1. 0 \in S
      OBVIOUS
    <2> HIDE DEF S
    <2> QED  BY <2>1
  <1>2. tag \in Seq(S)
    <2>1. CurveTag[request.curve.type] \in S
      OBVIOUS
    <2> HIDE DEF S
    <2> QED  BY <2>1
  <1>3. fees \in Seq(S)
    <2>1. \A i \in 1 .. 8 * WordLen : fees[i] \in S
      <3> HIDE DEF fees, tag, words
      <3> QED  OBVIOUS
    <2> HIDE DEF S
    <2> QED  BY <2>1, WordsAreBytes DEF PackFees
  <1>4. words \in Seq(S)
    <2>1. \A i \in 1 .. 4 * WordLen : words[i] \in S
      <3> HIDE DEF fees, tag, words
      <3> QED  OBVIOUS
    <2> HIDE DEF S
    <2> QED  BY <2>1, WordsAreBytes
  <1>5. digits \in Seq(S) /\ zeros \in Seq(S)
    <2>1. Nat \subseteq S /\ 0 \in S
      OBVIOUS
    <2>2. digits \in Seq(Nat) /\ Len(digits) \in 1 .. WordLen
      BY ArrayFits
    <2>3. 4 * WordLen - Len(digits) \in Nat
      BY <2>2, WireAssumption
    <2> HIDE DEF S, digits
    <2> QED  BY <2>1, <2>2, <2>3 DEF Zeros
  <1> HIDE DEF S, fees, tag, words, digits, zeros
  <1>6. CASE builder = "Rust"
    <2> DEFINE curve == tag \o words
               more  == fees \o curve
               data  == one \o more
    <2>1. Joins(curve, tag, words) /\ Joins(more, fees, curve) /\ Joins(data, one, more)
      BY DEF Joins
    <2>2. Data(builder, request) = data
      BY <1>6 DEF Data, PackInstruction, PackCurve, OpTag, fees, tag, words
    <2> HIDE DEF curve, more, data, one
    <2>3. curve \in Seq(S)
      BY <1>2, <1>4, <2>1, First
    <2>4. more \in Seq(S)
      BY <1>3, <2>1, <2>3, First
    <2> QED  BY <1>1, <2>1, <2>2, <2>4, First
  <1>7. CASE builder = "TypeScript"
    <2> DEFINE two   == one \o fees
               three == two \o tag
               four  == three \o digits
               data  == four \o zeros
    <2>1. /\ Joins(two, one, fees) /\ Joins(three, two, tag)
          /\ Joins(four, three, digits) /\ Joins(data, four, zeros)
      BY DEF Joins
    <2>2. Data(builder, request) = data
      BY <1>7 DEF Data, SerializeInstruction, fees, tag, digits, zeros
    <2> HIDE DEF two, three, four, data, one
    <2>3. two \in Seq(S) /\ Len(two) > 0 /\ two[1] = 0
      BY <1>1, <1>3, <2>1, First
    <2>4. three \in Seq(S) /\ Len(three) > 0 /\ three[1] = 0
      BY <1>2, <2>1, <2>3, First
    <2>5. four \in Seq(S) /\ Len(four) > 0 /\ four[1] = 0
      BY <1>5, <2>1, <2>4, First
    <2> QED  BY <1>5, <2>1, <2>2, <2>5, First
  <1> QED  BY <1>6, <1>7 DEF Builders

\* Whatever fees are asked for, the program takes its own.
LEMMA OwnFees ==
  ASSUME NEW builder \in Builders, NEW request, request.op = "Initialize",
         request.curve.parameter \in 0 .. U64Max,
         NEW decoded \in UnpackInstruction(Data(builder, request))
  PROVE  decoded.fees = FEES
  <1> DEFINE data == Data(builder, request)
  <1>1. Len(data) > 0 /\ data[1] = 0
    BY InitializeFirst
  <1>2. {o \in Ops : OpTag[o] = data[1]} = {"Initialize"}
    BY <1>1 DEF Ops, OpTag
  <1> HIDE DEF data
  <1>3. UnpackInstruction(data)
          = UNION {IF o = "Initialize" THEN UnpackInitialize(Tail(data))
                   ELSE UnpackArgs(o, Tail(data)) : o \in {"Initialize"}}
    BY <1>1, <1>2 DEF UnpackInstruction, When
  <1>4. decoded \in UnpackInitialize(Tail(data))
    BY <1>3 DEF data
  <1> QED  BY <1>4 DEF UnpackInitialize, When, None, RequestedFees, UnpackFees

-----------------------------------------------------------------------------
(* Accounts and what a handler takes them for.                             *)

\* The accounts that op's handler wants, when k has the keys of the roles.
Suited(op, metas, k) ==
  /\ Len(metas) >= Len(Roles[op])
  /\ \A i \in 1 .. Len(Roles[op]) :
       /\ metas[i].key = k[Roles[op][i]]
       /\ Roles[op][i] \in Written[op] => metas[i].writable
       /\ Roles[op][i] = "user" => metas[i].signer

\* No handler takes two accounts for the same thing.
LEMMA RolesDiffer ==
  ASSUME NEW op \in Ops, NEW i \in 1 .. Len(Roles[op]), NEW j \in 1 .. Len(Roles[op]),
         Roles[op][i] = Roles[op][j]
  PROVE  i = j
  <1>1. CASE op = "Initialize"
    BY <1>1 DEF Roles
  <1>2. CASE op = "Swap"
    BY <1>2 DEF Roles
  <1>3. CASE op = "DepositAll"
    BY <1>3 DEF Roles
  <1>4. CASE op = "WithdrawAll"
    BY <1>4 DEF Roles
  <1>5. CASE op = "DepositSingle"
    BY <1>5 DEF Roles
  <1>6. CASE op = "WithdrawSingle"
    BY <1>6 DEF Roles
  <1> QED  BY <1>1, <1>2, <1>3, <1>4, <1>5, <1>6 DEF Ops

\* Accounts in the handler's order are usable, and bound to the roles meant.
LEMMA Bound ==
  ASSUME NEW op \in Ops, NEW metas, NEW k, Suited(op, metas, k)
  PROVE  /\ Usable(op, metas)
         /\ DOMAIN Bind(op, metas) = {Roles[op][i] : i \in 1 .. Len(Roles[op])}
         /\ \A role \in DOMAIN Bind(op, metas) : Bind(op, metas)[role] = k[role]
  <1>1. ASSUME NEW i \in 1 .. Len(Roles[op])
        PROVE  (CHOOSE j \in 1 .. Len(Roles[op]) : Roles[op][j] = Roles[op][i]) = i
    BY RolesDiffer
  <1>2. ASSUME NEW i \in 1 .. Len(Roles[op])
        PROVE  Bind(op, metas)[Roles[op][i]] = k[Roles[op][i]]
    BY <1>1 DEF Bind, Suited
  <1> QED  BY <1>2 DEF Usable, Suited, Bind

\* A list that goes on has the same beginning.
LEMMA Longer ==
  ASSUME NEW op \in Ops, NEW metas, NEW more, NEW all, NEW k, NEW S,
         metas \in Seq(S), more \in Seq(S), Joins(all, metas, more),
         Suited(op, metas, k)
  PROVE  Suited(op, all, k)
  <1>1. /\ Len(all) = Len(metas) + Len(more) /\ Len(metas) \in Nat
        /\ Len(more) \in Nat
        /\ \A i \in 1 .. Len(metas) : all[i] = metas[i]
    BY Joined, LenProperties
  <1>2. Len(Roles[op]) \in Nat
    BY DEF Ops, Roles
  <1> QED  BY <1>1, <1>2 DEF Suited

\* The host comes after the others, if there is one.
LEMMA HostIsLast ==
  ASSUME NEW S, NEW ten, ten \in Seq(S), NEW more, more \in Seq(S), NEW all,
         Joins(all, ten, more), NEW k, more = Hosted(k)
  PROVE  Len(ten) = 10 => BoundHost(all) = k.host
  <1>0. Len(Roles.Swap) = 10
    BY DEF Roles
  <1>2. /\ Len(all) = Len(ten) + Len(more)
        /\ \A i \in 1 .. Len(more) : all[Len(ten) + i] = more[i]
    BY Joined
  <1>3. CASE k.host = NoKey
    <2>1. Len(more) = 0
      BY <1>3 DEF Hosted
    <2> QED  BY <1>0, <1>2, <1>3, <2>1 DEF BoundHost
  <1>4. CASE k.host # NoKey
    <2>1. Len(more) = 1 /\ more[1].key = k.host
      BY <1>4 DEF Hosted, W
    <2> QED  BY <1>0, <1>2, <2>1 DEF BoundHost
  <1> QED  BY <1>3, <1>4

\* The accounts of a swap.
LEMMA SwapAccounts ==
  ASSUME NEW builder \in Builders, NEW k
  PROVE  /\ Suited("Swap", Accounts(builder, "Swap", k), k)
         /\ BoundHost(Accounts(builder, "Swap", k)) = k.host
  <1> DEFINE ten == <<R(k.swap), R(k.authority), RS(k.user), W(k.source), W(k.swapSource),
                      W(k.swapDestination), W(k.destination), W(k.mint), W(k.feeAccount),
                      R(k.tokenProgram)>>
             S == {ten[i] : i \in 1 .. 10} \cup {W(k.host)}
             all == Accounts(builder, "Swap", k)
  <1>1. Joins(all, ten, Hosted(k))
    BY DEF Joins, Accounts, RustAccounts, TsAccounts, RustSwap, TsSwap, Builders
  <1>2. Suited("Swap", ten, k)
    BY DEF Suited, Roles, Written, W, R, RS
  <1>3. ten \in Seq(S) /\ W(k.host) \in S
    <2>1. ten \in [1 .. 10 -> S]
      OBVIOUS
    <2>2. ten \in Seq(S)
      BY <2>1
    <2>3. W(k.host) \in S
      OBVIOUS
    <2> QED  BY <2>2, <2>3
  <1>4. Len(ten) = 10 /\ "Swap" \in Ops
    BY DEF Ops
  <1>5. Hosted(k) \in Seq(S)
    <2> HIDE DEF S
    <2> QED  BY <1>3 DEF Hosted
  <1> HIDE DEF ten, S, all
  <1>6. Suited("Swap", all, k)
    BY <1>1, <1>2, <1>3, <1>4, <1>5, Longer
  <1>7. BoundHost(all) = k.host
    BY <1>1, <1>3, <1>4, <1>5, HostIsLast
  <1> QED  BY <1>6, <1>7 DEF all

\* Both libraries list the accounts as the handlers take them.
LEMMA AccountsSuit ==
  ASSUME NEW builder \in Builders, NEW op \in Ops, NEW k
  PROVE  Suited(op, Accounts(builder, op, k), k)
  <1> USE DEF W, R, RS, WS
  <1>1. CASE op = "Initialize"
    BY <1>1 DEF Suited, Accounts, RustAccounts, TsAccounts, RustInitialize, CreatePool,
                Roles, Written
  <1>2. CASE op = "DepositAll"
    BY <1>2 DEF Suited, Accounts, RustAccounts, TsAccounts, RustDepositAll, TsDepositAll,
                Roles, Written
  <1>3. CASE op = "WithdrawAll"
    BY <1>3 DEF Suited, Accounts, RustAccounts, TsAccounts, RustWithdrawAll, TsWithdrawAll,
                Roles, Written
  <1>4. CASE op = "DepositSingle"
    BY <1>4 DEF Suited, Accounts, RustAccounts, TsAccounts, RustDepositSingle, TsDepositSingle,
                Roles, Written
  <1>5. CASE op = "WithdrawSingle"
    BY <1>5 DEF Suited, Accounts, RustAccounts, TsAccounts, RustWithdrawSingle, TsWithdrawSingle,
                Roles, Written
  <1>6. CASE op = "Swap"
    BY <1>6, SwapAccounts DEF Roles
  <1> QED  BY <1>1, <1>2, <1>3, <1>4, <1>5, <1>6 DEF Ops

-----------------------------------------------------------------------------
(* The data of the swap account.                                           *)

\* Ten cells, the fees, the tag of the curve and its calculator.
LEMMA Layout ==
  ASSUME NEW S, NEW head, NEW fees, NEW tag, NEW rest, NEW front, NEW curve, NEW data,
         Cells(head, S, 10), Cells(fees, S, FEES_LEN),
         Cells(tag, S, 1), Cells(rest, S, 4 * WordLen),
         Joins(front, head, fees), Joins(curve, tag, rest), Joins(data, front, curve)
  PROVE  /\ Len(data) = 1 + SWAP_LEN
         /\ \A i \in 1 .. 10 : data[i] = head[i]
         /\ FeeBytes(data) = fees
         /\ Len(CurveBytes(data)) = CURVE_LEN
         /\ CurveBytes(data)[1] = tag[1]
  <1>0. head \in Seq(S) /\ fees \in Seq(S) /\ tag \in Seq(S) /\ rest \in Seq(S)
    BY DEF Cells
  <1>1. /\ curve \in Seq(S) /\ Len(curve) = Len(tag) + Len(rest)
        /\ \A i \in 1 .. Len(tag) : curve[i] = tag[i]
    BY <1>0, Joined
  <1>2. /\ front \in Seq(S) /\ Len(front) = Len(head) + Len(fees)
        /\ \A i \in 1 .. Len(head) : front[i] = head[i]
        /\ \A i \in 1 .. Len(fees) : front[Len(head) + i] = fees[i]
    BY <1>0, Joined
  <1>3. /\ data \in Seq(S) /\ Len(data) = Len(front) + Len(curve)
        /\ \A i \in 1 .. Len(front) : data[i] = front[i]
        /\ \A i \in 1 .. Len(curve) : data[Len(front) + i] = curve[i]
    <2>1. front \in Seq(S) /\ curve \in Seq(S)
      BY <1>1, <1>2
    <2> QED  BY <2>1, Joined
  <1>4. /\ Len(tag) = 1 /\ Len(head) = 10 /\ Len(fees) = FEES_LEN
        /\ Len(front) = 10 + FEES_LEN /\ Len(curve) = CURVE_LEN
    <2>1. Len(tag) = 1 /\ Len(rest) = 4 * WordLen /\ Len(head) = 10 /\ Len(fees) = FEES_LEN
      BY DEF Cells
    <2>2. 1 + 4 * WordLen = CURVE_LEN
      BY Lengths
    <2> QED  BY <1>1, <1>2, <2>1, <2>2
  <1>5. Cells(data, S, 1 + SWAP_LEN)
    <2>1. (10 + FEES_LEN) + CURVE_LEN = 1 + SWAP_LEN
      BY Lengths
    <2> QED  BY <1>3, <1>4, <2>1 DEF Cells
  <1>6. \A i \in 1 .. 10 : data[i] = head[i]
    <2>1. \A i \in 1 .. 10 : i \in 1 .. 10 + FEES_LEN
      BY Lengths
    <2>2. \A i \in 1 .. 10 : i \in 1 .. Len(front) /\ i \in 1 .. Len(head)
      BY <1>4, <2>1
    <2> QED  BY <1>2, <1>3, <2>2, Zenon
  <1>7. data[11 + FEES_LEN] = tag[1]
    <2>1. 1 \in 1 .. CURVE_LEN /\ (10 + FEES_LEN) + 1 = 11 + FEES_LEN
      BY Lengths
    <2>2. 1 \in 1 .. Len(curve) /\ 1 \in 1 .. Len(tag) /\ Len(front) + 1 = 11 + FEES_LEN
      BY <1>4, <2>1
    <2> QED  BY <1>1, <1>3, <2>2
  <1>8. /\ Len(CurveBytes(data)) = CURVE_LEN
        /\ CurveBytes(data)[1] = data[11 + FEES_LEN]
    BY <1>5, Lengths, SubSeqProperties DEF CurveBytes, Cells
  <1>9. Len(data) = 1 + SWAP_LEN
    BY <1>5 DEF Cells
  <1>10. FeeBytes(data) = fees
    <2>1. \A i \in 1 .. FEES_LEN :
            /\ 10 + i \in 1 .. 10 + FEES_LEN
            /\ data[10 + i] = fees[i]
      BY <1>2, <1>3, <1>4, Lengths
    <2>2. /\ 11 \in 1 .. Len(data) + 1 /\ 10 + FEES_LEN \in 0 .. Len(data)
          /\ 11 <= 10 + FEES_LEN + 1 /\ (10 + FEES_LEN) - 11 + 1 = FEES_LEN
          /\ \A i \in 1 .. FEES_LEN : 11 + i - 1 = 10 + i
      BY <1>9, Lengths
    <2>3. /\ FeeBytes(data) \in Seq(S) /\ Len(FeeBytes(data)) = FEES_LEN
          /\ \A i \in 1 .. FEES_LEN : FeeBytes(data)[i] = data[10 + i]
      BY <1>5, <2>1, <2>2, Lengths, SubSeqProperties DEF FeeBytes, Cells
    <2> QED  BY <1>0, <1>4, <2>1, <2>3, SeqEqual
  <1> QED  BY <1>6, <1>7, <1>8, <1>9, <1>10

\* Where the program looks for the flags and the reserves, there they are, and
\* what is packed can be unpacked.
LEMMA Packed ==
  ASSUME NEW s, s.curve.type \in CurveTypes
  PROVE  /\ PackSwap(s)[5] = s.tokenA /\ PackSwap(s)[6] = s.tokenB
         /\ FeeBytes(PackSwap(s)) = PackFees(s.fees)
         /\ CurveBytes(PackSwap(s))[1] = CurveTag[s.curve.type]
         /\ UnpackSwap(PackSwap(s)) # None
  <1> DEFINE head == <<1, 1, s.bump, s.tokenProgram, s.tokenA, s.tokenB, s.mint,
                       s.mintA, s.mintB, s.feeAccount>>
             fees == PackFees(s.fees)
             tag  == <<CurveTag[s.curve.type]>>
             rest == Words(<<IF s.curve.type = "ConstantProduct" THEN 0
                             ELSE s.curve.parameter, 0, 0, 0>>, 4)
             bytes == {head[i] : i \in 1 .. 10} \cup {fees[i] : i \in 1 .. 8 * WordLen}
                        \cup {tag[1]} \cup {rest[i] : i \in 1 .. 4 * WordLen}
             curve == tag \o rest
             front == head \o fees
             data  == front \o curve
  <1>1. Cells(head, bytes, 10)
    <2>1. head \in [1 .. 10 -> bytes]
      OBVIOUS
    <2>2. head \in Seq(bytes)
      BY <2>1
    <2>3. Len(head) = 10
      OBVIOUS
    <2> QED  BY <2>2, <2>3 DEF Cells
  <1>2. Cells(fees, bytes, FEES_LEN)
    <2>1. \A i \in 1 .. 8 * WordLen : fees[i] \in bytes
      <3> HIDE DEF fees, head, tag, rest
      <3> QED  OBVIOUS
    <2> HIDE DEF head, tag, rest, bytes
    <2> QED  BY <2>1, WordsAreBytes DEF PackFees, Cells, FEES_LEN
  <1>3. Cells(rest, bytes, 4 * WordLen)
    <2>1. \A i \in 1 .. 4 * WordLen : rest[i] \in bytes
      <3> HIDE DEF fees, head, tag, rest
      <3> QED  OBVIOUS
    <2> HIDE DEF head, tag, fees, bytes
    <2> QED  BY <2>1, WordsAreBytes DEF Cells
  <1>4. Cells(tag, bytes, 1)
    <2>1. tag[1] \in bytes
      OBVIOUS
    <2> HIDE DEF bytes
    <2> QED  BY <2>1 DEF Cells
  <1>5. PackSwap(s) = data
    BY DEF PackSwap, PackCurve
  <1>6. /\ Len(data) = 1 + SWAP_LEN
        /\ \A i \in 1 .. 10 : data[i] = head[i]
        /\ FeeBytes(data) = fees
        /\ Len(CurveBytes(data)) = CURVE_LEN
        /\ CurveBytes(data)[1] = tag[1]
    <2>1. /\ Joins(front, head, fees) /\ Joins(curve, tag, rest)
          /\ Joins(data, front, curve)
      BY DEF Joins
    <2> HIDE DEF head, fees, tag, rest, bytes, front, curve, data
    <2> QED  BY <1>1, <1>2, <1>3, <1>4, <2>1, Layout
  <1>7. s.curve.type \in CurveTypesOf(tag[1])
    BY DEF CurveTypesOf
  <1>8. PICK c \in UnpackCurve(CurveBytes(data)) : TRUE
    <2> DEFINE cells == CurveBytes(data)
               kind  == s.curve.type
               read  == [type |-> kind, parameter |-> IF kind = "ConstantProduct" THEN 0
                                                      ELSE WordAt(Tail(cells), 1)]
    <2>1. Len(cells) = CURVE_LEN /\ kind \in CurveTypesOf(cells[1])
      <3> HIDE DEF data, tag
      <3> QED  BY <1>6, <1>7
    <2> HIDE DEF cells, kind
    <2>2. read \in UnpackCurve(cells)
      BY <2>1 DEF UnpackCurve, When
    <2> HIDE DEF read
    <2> QED  BY <2>2 DEF cells
  <1>9. /\ data[1] = 1 /\ data[2] = 1
        /\ data[5] = s.tokenA /\ data[6] = s.tokenB
    <2> HIDE DEF data
    <2> QED  BY <1>6
  <1>10. UnpackSwap(data) # None
    <2> HIDE DEF data, head
    <2> QED  BY <1>6, <1>8, <1>9 DEF UnpackSwap, When, None
  <1>11. FeeBytes(data) = PackFees(s.fees) /\ CurveBytes(data)[1] = CurveTag[s.curve.type]
    <2>1. tag[1] = CurveTag[s.curve.type]
      OBVIOUS
    <2> HIDE DEF data, tag
    <2> QED  BY <1>6, <2>1
  <1> HIDE DEF data
  <1> QED  BY <1>5, <1>9, <1>10, <1>11

\* A pool's reserves are the ones at their place in the data.
LEMMA ReservesInData ==
  ASSUME NEW s \in UnpackSwap(swapData)
  PROVE  /\ swapData # NewSwapData
         /\ s.tokenA = swapData[5] /\ s.tokenB = swapData[6]
  <1>1. swapData[1] = 1 /\ s.tokenA = swapData[5] /\ s.tokenB = swapData[6]
    BY DEF UnpackSwap, When, None
  <1>2. NewSwapData[1] = 0
    BY WireAssumption DEF NewSwapData, Zeros, SWAP_LEN, FEES_LEN, CURVE_LEN
  <1> QED  BY <1>1, <1>2

-----------------------------------------------------------------------------
(* The invariant.                                                          *)

TokenAccount == [open : {TRUE}, owner : People \cup {Authority},
                 delegate : People \cup {NoKey}, closer : People \cup {NoKey},
                 amount : {0, 1}]

Mint == [authority : People \cup {Authority}, freezer : People \cup {NoKey},
         supply : {0, 1}]

ProgramTypeOK ==
  /\ account \in [TokenKeys -> TokenAccount \cup {Closed}]
  /\ mint \in Mint

\* What the swap account names is sealed, once there is something written in it.
Sealed ==
  /\ \A k \in {swapData[5], swapData[6]} : SealedAccount(k)
  /\ MintOf[swapData[5]] # MintOf[swapData[6]]
  /\ SealedMint

\* What Initialize has written: reserves that are not pool tokens, the program's
\* own fees and a curve that it offers.
WellPacked ==
  /\ swapData[5] \in Purses /\ swapData[6] \in Purses
  /\ FeeBytes(swapData) = PackFees(FEES)
  /\ \E t \in ValidCurveTypes : CurveBytes(swapData)[1] = CurveTag[t]

Inv ==
  /\ ProgramTypeOK
  /\ swapData # NewSwapData => Sealed /\ Opened /\ WellPacked

\* What stays sealed does so whatever becomes of the amounts.
OnlyAmounts ==
  /\ \A k \in TokenKeys :
       \/ account'[k] = account[k]
       \/ /\ account[k] # Closed
          /\ \E n \in {0, 1} : account'[k] = [account[k] EXCEPT !.amount = n]
  /\ \E n \in {0, 1} : mint' = [mint EXCEPT !.supply = n]

\* A closed account has no owner, so it differs from every open one.
LEMMA ClosedIsNot ==
  ASSUME NEW r \in TokenAccount
  PROVE  r # Closed
  BY DEF TokenAccount, Closed

\* What is added to an account changes its amount alone.
LEMMA AddedTo ==
  ASSUME NEW r \in TokenAccount, NEW new \in {r, [r EXCEPT !.amount = 1]}
  PROVE  /\ new \in TokenAccount
         /\ new.owner = r.owner /\ new.delegate = r.delegate /\ new.closer = r.closer
         /\ new.amount \in {r.amount, 1}
  <1>1. CASE new = r
    BY <1>1
  <1>2. CASE new = [r EXCEPT !.amount = 1]
    BY <1>2 DEF TokenAccount
  <1> QED  BY <1>1, <1>2

\* Amounts come and go, accounts stay sealed.
LEMMA SealsStay ==
  ASSUME ProgramTypeOK, OnlyAmounts,
         account' \in [TokenKeys -> TokenAccount \cup {Closed}]
  PROVE  /\ ProgramTypeOK'
         /\ \A k : SealedAccount(k) => SealedAccount(k)'
         /\ SealedMint => SealedMint'
  <1>1. /\ mint' \in Mint
        /\ SealedMint => SealedMint'
    BY DEF ProgramTypeOK, OnlyAmounts, Mint, SealedMint
  <1>2. ASSUME NEW k, SealedAccount(k)
        PROVE  SealedAccount(k)'
    <2>1. k \in TokenKeys /\ account[k] \in TokenAccount
      BY <1>2 DEF SealedAccount, Open, ProgramTypeOK
    <2>2. CASE account'[k] = account[k]
      BY <1>2, <2>2 DEF SealedAccount, Open
    <2>3. CASE \E n \in {0, 1} : account'[k] = [account[k] EXCEPT !.amount = n]
      <3>1. PICK n \in {0, 1} : account'[k] = [account[k] EXCEPT !.amount = n]
        BY <2>3
      <3>2. /\ account'[k] \in TokenAccount
            /\ account'[k].owner = account[k].owner
            /\ account'[k].delegate = account[k].delegate
            /\ account'[k].closer = account[k].closer
        BY <2>1, <3>1 DEF TokenAccount
      <3> QED  BY <1>2, <2>1, <3>2, ClosedIsNot DEF SealedAccount, Open
    <2> QED  BY <2>1, <2>2, <2>3 DEF OnlyAmounts
  <1> QED  BY <1>1, <1>2 DEF ProgramTypeOK


-----------------------------------------------------------------------------
(* The steps of people.                                                    *)

\* One account is given another content.
LEMMA Changed ==
  ASSUME ProgramTypeOK, NEW k \in TokenKeys, NEW new \in TokenAccount \cup {Closed},
         Change(k, new)
  PROVE  /\ UNCHANGED <<mint, swapData>> /\ ProgramTypeOK'
         /\ account'[k] = new /\ \A j \in TokenKeys \ {k} : account'[j] = account[j]
  BY DEF ProgramTypeOK, Change

\* Nobody but the program owns a sealed account, may spend from it or close it.
LEMMA NobodysAccount ==
  ASSUME NEW p \in People, NEW k, SealedAccount(k)
  PROVE  /\ k \in TokenKeys /\ account[k].owner # p /\ account[k].delegate # p
         /\ CloserOf(k) # p
  BY ProgramAssumption DEF SealedAccount, Open, CloserOf

\* People can only add to a sealed account, and only burn what a sealed mint
\* has minted.
LEMMA PeopleAddOrBurn ==
  ASSUME ProgramTypeOK, TokenProgramStep
  PROVE  /\ UNCHANGED swapData /\ ProgramTypeOK'
         /\ \A k : SealedAccount(k) =>
              account'[k] \in {account[k], [account[k] EXCEPT !.amount = 1]}
         /\ SealedMint => mint' \in {mint, [mint EXCEPT !.supply = 0]}
  <1> DEFINE Goal == /\ UNCHANGED swapData /\ ProgramTypeOK'
                     /\ \A k : SealedAccount(k) =>
                          account'[k] \in {account[k], [account[k] EXCEPT !.amount = 1]}
                     /\ SealedMint => mint' \in {mint, [mint EXCEPT !.supply = 0]}
  <1>1. ASSUME NEW k \in TokenKeys, Open(k)
        PROVE  account[k] \in TokenAccount
    BY <1>1 DEF Open, ProgramTypeOK
  <1>2. ASSUME NEW p \in People, NEW k \in TokenKeys, NEW new \in TokenAccount \cup {Closed},
               ~SealedAccount(k), Change(k, new)
        PROVE  Goal
    <2>1. \A j : SealedAccount(j) => j \in TokenKeys /\ j # k
      BY <1>2 DEF SealedAccount, Open
    <2> QED  BY <1>2, <2>1, Changed
  <1>3. ASSUME NEW k \in Purses, Fund(k)
        PROVE  Goal
    <2>1. k \in TokenKeys /\ account[k] \in TokenAccount
      BY <1>1, <1>3 DEF Fund, Open
    <2>2. [account[k] EXCEPT !.amount = 1] \in TokenAccount
      BY <2>1 DEF TokenAccount
    <2>3. \A j : SealedAccount(j) => j \in TokenKeys
      BY DEF SealedAccount, Open
    <2>4. Change(k, [account[k] EXCEPT !.amount = 1])
      BY <1>3 DEF Fund
    <2> QED  BY <2>1, <2>2, <2>3, <2>4, Changed
  <1>4. ASSUME NEW p \in People, NEW k \in TokenKeys,
               \/ Approve(p, k) \/ Revoke(p, k) \/ HandOver(p, k)
               \/ \E closer \in {p, NoKey} : SetCloser(p, k, closer)
               \/ Spend(p, k) \/ Close(p, k)
        PROVE  Goal
    <2>1. Open(k) /\ account[k] \in TokenAccount
      BY <1>1, <1>4 DEF Approve, Revoke, HandOver, SetCloser, Spend, Close
    <2>2. ~SealedAccount(k)
      BY <1>4, NobodysAccount DEF Approve, Revoke, HandOver, SetCloser, Spend, Close
    <2>3. \E new \in TokenAccount \cup {Closed} : Change(k, new)
      <3>1. CASE Approve(p, k)
        BY <2>1, <3>1 DEF Approve, TokenAccount
      <3>2. CASE Revoke(p, k)
        BY <2>1, <3>2 DEF Revoke, TokenAccount
      <3>3. CASE HandOver(p, k)
        BY <2>1, <3>3 DEF HandOver, TokenAccount
      <3>4. ASSUME NEW closer \in {p, NoKey}, SetCloser(p, k, closer)
            PROVE  \E new \in TokenAccount \cup {Closed} : Change(k, new)
        BY <2>1, <3>4 DEF SetCloser, TokenAccount
      <3>5. CASE Spend(p, k)
        BY <2>1, <3>5 DEF Spend, TokenAccount
      <3>6. CASE Close(p, k)
        BY <3>6 DEF Close
      <3> QED  BY <1>4, <3>1, <3>2, <3>3, <3>4, <3>5, <3>6
    <2> QED  BY <1>2, <2>2, <2>3
  <1>5. ASSUME NEW p \in People, NEW k \in TokenKeys, MintPoolTokens(p, k)
        PROVE  Goal
    <2>1. ~SealedMint
      BY <1>5, ProgramAssumption DEF MintPoolTokens, SealedMint
    <2>2. account[k] \in TokenAccount
      BY <1>1, <1>5 DEF MintPoolTokens
    <2>3. [account[k] EXCEPT !.amount = 1] \in TokenAccount
      BY <2>2 DEF TokenAccount
    <2>4. account' = [account EXCEPT ![k] = [account[k] EXCEPT !.amount = 1]]
      BY <1>5 DEF MintPoolTokens
    <2>5. mint' \in Mint /\ UNCHANGED swapData
      BY <1>5 DEF MintPoolTokens, ProgramTypeOK, Mint
    <2>6. \A j : SealedAccount(j) => j \in TokenKeys
      BY DEF SealedAccount, Open
    <2> QED  BY <2>1, <2>3, <2>4, <2>5, <2>6 DEF ProgramTypeOK
  <1>6. ASSUME NEW p \in People, HandOverMint(p) \/ RenounceFreezing(p) \/ BurnPoolTokens
        PROVE  Goal
    <2>1. UNCHANGED <<account, swapData>> /\ mint' \in Mint
      BY <1>6 DEF HandOverMint, RenounceFreezing, BurnPoolTokens, ProgramTypeOK, Mint
    <2>2. SealedMint => BurnPoolTokens
      BY <1>6, ProgramAssumption DEF HandOverMint, RenounceFreezing, SealedMint
    <2>3. SealedMint => mint' = [mint EXCEPT !.supply = 0]
      BY <2>2 DEF BurnPoolTokens
    <2> QED  BY <2>1, <2>3 DEF ProgramTypeOK
  <1> QED  BY <1>3, <1>4, <1>5, <1>6 DEF TokenProgramStep, Purses

-----------------------------------------------------------------------------
(* The steps of the program.                                               *)

\* A reserve is a token account, and everything an instruction may write to is.
LEMMA ServedAccounts ==
  ASSUME Inv, NEW s \in UnpackSwap(swapData), NEW op \in Ops \ {"Initialize"}, NEW metas,
         Served(op, s, metas)
  PROVE  LET b == Bind(op, metas)
         IN  \A k \in TakesIn(op, s, b) \cup PaysOut(op, s, b) : Open(k)
  <1> DEFINE b == Bind(op, metas)
  <1>1. Open(s.tokenA) /\ Open(s.tokenB)
    BY DEF Served, Touched
  <1>2. TakesIn(op, s, b) \cup PaysOut(op, s, b) \subseteq {s.tokenA, s.tokenB}
    <2>1. op = "Swap" => b.swapSource \in {s.tokenA, s.tokenB}
                         /\ b.swapDestination \in {s.tokenA, s.tokenB}
      BY DEF Served, Accepts, CheckSwap
    <2> HIDE DEF b
    <2>2. SingleReserve(s, b.source) \subseteq {s.tokenA, s.tokenB}
          /\ SingleReserve(s, b.destination) \subseteq {s.tokenA, s.tokenB}
      BY DEF SingleReserve
    <2> QED  BY <2>1, <2>2 DEF TakesIn, PaysOut, Ops
  <1> QED  BY <1>1, <1>2

\* An instruction on an initialized pool moves amounts only.
LEMMA ServeMovesAmounts ==
  ASSUME Inv, Serve
  PROVE  /\ OnlyAmounts /\ UNCHANGED swapData
         /\ account' \in [TokenKeys -> TokenAccount \cup {Closed}]
  <1>0. PICK s \in UnpackSwap(swapData), op \in Ops \ {"Initialize"} :
          \E metas : Served(op, s, metas) /\ Leaves(op, s, Bind(op, metas))
    <2>1. PICK s \in UnpackSwap(swapData), op \in Ops \ {"Initialize"}, sellA \in BOOLEAN,
               builder \in Builders :
            LET metas == Accounts(builder, op, KeysRead(DecodePoolData(swapData), sellA))
            IN  Served(op, s, metas) /\ Leaves(op, s, Bind(op, metas))
      BY DEF Serve
    <2> QED  BY <2>1
  <1>1. PICK metas : Served(op, s, metas) /\ Leaves(op, s, Bind(op, metas))
    BY <1>0
  <1> DEFINE b == Bind(op, metas)
  <1>2. PICK emptied \in SUBSET PaysOut(op, s, b), paid \in SUBSET {s.feeAccount} :
          /\ paid # {} => Open(s.feeAccount)
          /\ account' = [k \in TokenKeys |->
                           IF k \in emptied THEN [account[k] EXCEPT !.amount = 0]
                           ELSE IF k \in paid \cup TakesIn(op, s, b)
                                THEN [account[k] EXCEPT !.amount = 1] ELSE account[k]]
    BY <1>1 DEF Leaves
  <1>3. \A k \in emptied \cup paid \cup TakesIn(op, s, b) : Open(k)
    <2> HIDE DEF b
    <2>1. \A k \in TakesIn(op, s, b) \cup PaysOut(op, s, b) : Open(k)
      BY <1>1, ServedAccounts DEF b
    <2> QED  BY <1>2, <2>1
  <1>4. ASSUME NEW k \in TokenKeys
        PROVE  /\ account'[k] \in TokenAccount \cup {Closed}
               /\ \/ account'[k] = account[k]
                  \/ /\ account[k] # Closed
                     /\ \E n \in {0, 1} : account'[k] = [account[k] EXCEPT !.amount = n]
    <2> HIDE DEF b
    <2>1. account[k] \in TokenAccount \cup {Closed}
      BY DEF Inv, ProgramTypeOK
    <2>2. CASE account'[k] = account[k]
      BY <2>1, <2>2
    <2>3. CASE k \in emptied \cup paid \cup TakesIn(op, s, b)
      <3>1. account[k] # Closed /\ account[k] \in TokenAccount
        BY <1>3, <2>1, <2>3 DEF Open
      <3>2. \E n \in {0, 1} : account'[k] = [account[k] EXCEPT !.amount = n]
        BY <1>2, <2>3
      <3> QED  BY <3>1, <3>2 DEF TokenAccount
    <2> QED  BY <1>2, <2>2, <2>3
  <1>5. account' \in [TokenKeys -> TokenAccount \cup {Closed}]
    BY <1>2, <1>4
  <1>6. \E n \in {0, 1} : mint' = [mint EXCEPT !.supply = n]
    BY <1>1 DEF Leaves, Inv, ProgramTypeOK, Mint
  <1>7. UNCHANGED swapData
    BY DEF Serve
  <1> QED  BY <1>4, <1>5, <1>6, <1>7 DEF OnlyAmounts

\* What process_initialize has seen when it writes the swap account.
LEMMA CreateSeals ==
  ASSUME Inv, Create
  PROVE  /\ ~Opened /\ OnlyAmounts
         /\ account' \in [TokenKeys -> TokenAccount \cup {Closed}]
         /\ Opened'
         /\ SealedAccount(swapData'[5]) /\ SealedAccount(swapData'[6])
         /\ MintOf[swapData'[5]] # MintOf[swapData'[6]]
         /\ SealedMint /\ WellPacked'
  <1>1. PICK request \in CreationRequests, x \in Purses, y \in Purses,
             f \in TokenKeys, d \in TokenKeys :
          LET asked == [op |-> "Initialize", fees |-> request.fees, curve |-> request.curve]
              metas == Accounts(request.builder, "Initialize", CreatorKeys(x, y, f, d))
          IN  \E decoded \in UnpackInstruction(Data(request.builder, asked)) :
                ProcessInitialize(Bind("Initialize", metas), decoded.fees, decoded.curve)
    BY DEF Create
  <1> DEFINE asked == [op |-> "Initialize", fees |-> request.fees, curve |-> request.curve]
             keys  == CreatorKeys(x, y, f, d)
             metas == Accounts(request.builder, "Initialize", keys)
             b     == Bind("Initialize", metas)
  <1>2. PICK decoded \in UnpackInstruction(Data(request.builder, asked)) :
          ProcessInitialize(b, decoded.fees, decoded.curve)
    BY <1>1
  <1>3. decoded.fees = FEES
    BY OwnFees, CreationAssumption
  <1>4. b.tokenA = x /\ b.tokenB = y
    <2>1. request.builder \in Builders /\ "Initialize" \in Ops
      BY CreationAssumption DEF Ops
    <2> HIDE DEF keys
    <2>2. Suited("Initialize", metas, keys)
      BY <2>1, AccountsSuit
    <2> HIDE DEF metas
    <2> HIDE DEF b
    <2>3. /\ DOMAIN b = {Roles["Initialize"][i] : i \in 1 .. Len(Roles["Initialize"])}
          /\ \A role \in DOMAIN b : b[role] = keys[role]
      BY <2>1, <2>2, Bound, Zenon DEF b
    <2>4. {"tokenA", "tokenB"} \subseteq
            {Roles["Initialize"][i] : i \in 1 .. Len(Roles["Initialize"])}
      BY DEF Roles
    <2>5. b.tokenA = keys.tokenA /\ b.tokenB = keys.tokenB
      BY <2>3, <2>4
    <2> QED  BY <2>5 DEF keys, CreatorKeys
  <1> DEFINE fees == decoded.fees
             c == decoded.curve
  <1> HIDE DEF b, asked
  <1>5. ProcessInitialize(b, fees, c)
    BY <1>2
  <1> HIDE DEF fees, c
  <1> DEFINE s == [bump |-> 0, tokenProgram |-> b.tokenProgram,
                   tokenA |-> b.tokenA, tokenB |-> b.tokenB, mint |-> b.mint,
                   mintA |-> MintOf[b.tokenA], mintB |-> MintOf[b.tokenB],
                   feeAccount |-> b.feeAccount, fees |-> fees, curve |-> c]
  <1>6. /\ s.curve.type \in CurveTypes /\ c.type \in ValidCurveTypes
        /\ s.tokenA = b.tokenA /\ s.tokenB = b.tokenB /\ swapData' = PackSwap(s)
    BY <1>5, ProgramAssumption DEF ProcessInitialize, MeetsConstraints
  <1>7. /\ swapData'[5] = b.tokenA /\ swapData'[6] = b.tokenB
        /\ UnpackSwap(swapData') # None
        /\ FeeBytes(swapData') = PackFees(s.fees)
        /\ CurveBytes(swapData')[1] = CurveTag[s.curve.type]
    <2> HIDE DEF s
    <2> QED  BY <1>6, Packed
  <1>8. Opened'
    BY <1>7 DEF Opened, IsInitialized
  <1>9. /\ b.destination \in TokenKeys /\ account[b.destination] # Closed
        /\ account[b.destination] \in TokenAccount
        /\ account' = [account EXCEPT ![b.destination].amount = 1]
        /\ mint' = [mint EXCEPT !.supply = 1]
    BY <1>5 DEF ProcessInitialize, Outside, Open, Inv, ProgramTypeOK
  <1>10. OnlyAmounts /\ account' \in [TokenKeys -> TokenAccount \cup {Closed}]
    <2>1. account'[b.destination] = [account[b.destination] EXCEPT !.amount = 1]
      BY <1>9 DEF Inv, ProgramTypeOK
    <2>2. \A k \in TokenKeys \ {b.destination} : account'[k] = account[k]
      BY <1>9 DEF Inv, ProgramTypeOK
    <2>3. [account[b.destination] EXCEPT !.amount = 1] \in TokenAccount
      BY <1>9 DEF TokenAccount
    <2>4. OnlyAmounts
      BY <1>9, <2>1, <2>2 DEF OnlyAmounts
    <2> QED  BY <1>9, <2>3, <2>4 DEF Inv, ProgramTypeOK
  <1>11. WellPacked'
    <2>1. s.fees = FEES /\ s.curve.type \in ValidCurveTypes
      BY <1>6, <1>3 DEF fees
    <2> HIDE DEF s
    <2> QED  BY <1>7, <1>4, <2>1 DEF WellPacked, Purses
  <1> QED  BY <1>5, <1>7, <1>8, <1>10, <1>11 DEF ProcessInitialize

-----------------------------------------------------------------------------
(* The theorems.                                                           *)

\* A new swap account has nothing written in it.
LEMMA InvInit ==
  Init => Inv
  <1> SUFFICES ASSUME Init PROVE Inv
    OBVIOUS
  <1>1. account \in [TokenKeys -> TokenAccount]
    BY ProgramAssumption DEF Init, TokenAccount
  <1>2. mint \in Mint
    BY ProgramAssumption DEF Init, Mint, Purses
  <1> QED  BY <1>1, <1>2 DEF Init, Inv, ProgramTypeOK

\* People cannot undo the invariant, Create establishes it, Serve leaves it.
LEMMA InvStep ==
  ASSUME Inv, [Next]_vars
  PROVE  Inv'
  <1>1. CASE TokenProgramStep
    <2>1. /\ UNCHANGED swapData /\ ProgramTypeOK'
          /\ \A k : SealedAccount(k) =>
               account'[k] \in {account[k], [account[k] EXCEPT !.amount = 1]}
          /\ SealedMint => mint' \in {mint, [mint EXCEPT !.supply = 0]}
      BY <1>1, PeopleAddOrBurn DEF Inv
    <2>2. ASSUME NEW k, SealedAccount(k)
          PROVE  SealedAccount(k)'
      <3>1. account[k] \in TokenAccount
        BY <2>2 DEF Inv, ProgramTypeOK, SealedAccount, Open
      <3>2. account'[k] \in {account[k], [account[k] EXCEPT !.amount = 1]}
        BY <2>1, <2>2
      <3>3. /\ account'[k] \in TokenAccount
            /\ account'[k].owner = account[k].owner
            /\ account'[k].delegate = account[k].delegate
            /\ account'[k].closer = account[k].closer
        BY <3>1, <3>2, AddedTo
      <3> QED  BY <2>2, <3>3, ClosedIsNot DEF SealedAccount, Open
    <2>3. SealedMint => SealedMint'
      BY <2>1 DEF Inv, ProgramTypeOK, Mint, SealedMint
    <2> QED  BY <2>1, <2>2, <2>3 DEF Inv, Sealed, Opened, WellPacked
  <1>2. CASE Create
    BY <1>2, CreateSeals, SealsStay DEF Inv, Sealed
  <1>3. CASE Serve
    BY <1>3, ServeMovesAmounts, SealsStay DEF Inv, Sealed, Opened, WellPacked
  <1>4. CASE UNCHANGED vars
    BY <1>4 DEF vars, Inv, ProgramTypeOK, Sealed, Opened, WellPacked, SealedAccount,
                SealedMint, Open
  <1> QED  BY <1>1, <1>2, <1>3, <1>4 DEF Next, ProgramStep

\* Types, seals and what is written hold in every state that is reached: the
\* token program and all handlers, in any order.
THEOREM Invariance == Spec => []Inv
  BY InvInit, InvStep, PTL DEF Spec

\* An initialized pool is one whose data has been written, and is sealed.
LEMMA InvSealsPool ==
  Inv => PoolIsSealed
  <1> SUFFICES ASSUME Inv, NEW s \in UnpackSwap(swapData)
               PROVE  /\ \A k \in {s.tokenA, s.tokenB} : SealedAccount(k)
                      /\ MintOf[s.tokenA] # MintOf[s.tokenB]
                      /\ SealedMint
    BY DEF PoolIsSealed, Pools, Reserves
  <1> QED  BY ReservesInData DEF Inv, Sealed

(***************************************************************************)
(* Whatever accounts, people, requests and histories there are, the        *)
(* reserves and the mint of an initialized pool are the program's alone:   *)
(* process_initialize checks enough, and the token program undoes nothing. *)
(***************************************************************************)
THEOREM PoolAlwaysSealed == Spec => []PoolIsSealed
  BY Invariance, InvSealsPool, PTL

(***************************************************************************)
(* The swap account is written once. What Initialize packs, it finds       *)
(* unpackable, whatever the width of a number, so it refuses to write      *)
(* again.                                                                  *)
(***************************************************************************)
THEOREM WrittenOnce == Spec => IdentityForGood
  <1>1. ASSUME Inv, [Next]_vars
        PROVE  [swapData # NewSwapData => swapData' = swapData]_vars
    <2>1. CASE TokenProgramStep
      BY <1>1, <2>1, PeopleAddOrBurn DEF Inv
    <2>2. CASE Create
      BY <1>1, <2>2, CreateSeals DEF Inv
    <2>3. CASE Serve
      BY <2>3 DEF Serve
    <2>4. CASE UNCHANGED vars
      BY <2>4
    <2> QED  BY <1>1, <2>1, <2>2, <2>3, <2>4 DEF Next, ProgramStep
  <1> QED  BY <1>1, Invariance, PTL DEF Spec, IdentityForGood

(***************************************************************************)
(* No step of the token program, by whomever, takes from the reserves of   *)
(* an initialized pool, closes one, hands one on or mints pool tokens.     *)
(***************************************************************************)
THEOREM PeopleNeverTake == Spec => OnlyTheProgramMoves
  <1> DEFINE Takes == \E s \in Pools :
                        \/ \E k \in Reserves(s) :
                             \/ account'[k] = Closed
                             \/ account'[k].owner # account[k].owner
                             \/ account'[k].amount < account[k].amount
                        \/ mint'.supply > mint.supply
  <1>1. ASSUME Inv, TokenProgramStep
        PROVE  ~Takes
    <2>1. /\ \A k : SealedAccount(k) =>
               account'[k] \in {account[k], [account[k] EXCEPT !.amount = 1]}
          /\ SealedMint => mint' \in {mint, [mint EXCEPT !.supply = 0]}
      BY <1>1, PeopleAddOrBurn DEF Inv
    <2>2. ASSUME NEW k, SealedAccount(k)
          PROVE  /\ account'[k] # Closed
                 /\ account'[k].owner = account[k].owner
                 /\ ~(account'[k].amount < account[k].amount)
      <3>1. account[k] \in TokenAccount
        BY <1>1, <2>2 DEF Inv, ProgramTypeOK, SealedAccount, Open
      <3>2. /\ account'[k] \in TokenAccount
            /\ account'[k].owner = account[k].owner
            /\ account'[k].amount \in {account[k].amount, 1}
        <4>1. account'[k] \in {account[k], [account[k] EXCEPT !.amount = 1]}
          BY <2>1, <2>2
        <4> QED  BY <3>1, <4>1, AddedTo
      <3>3. account[k].amount \in {0, 1}
        BY <3>1 DEF TokenAccount
      <3> QED  BY <3>2, <3>3, ClosedIsNot
    <2>3. SealedMint => ~(mint'.supply > mint.supply)
      BY <1>1, <2>1 DEF Inv, ProgramTypeOK, Mint
    <2>4. PoolIsSealed
      BY <1>1, InvSealsPool
    <2> QED  BY <2>2, <2>3, <2>4 DEF PoolIsSealed, Reserves
  <1>2. ASSUME Inv, [Next]_vars
        PROVE  [Takes => ~TokenProgramStep]_vars
    BY <1>1, <1>2
  <1> QED  BY <1>2, Invariance, PTL DEF Spec, OnlyTheProgramMoves

-----------------------------------------------------------------------------
(* What clients see of a pool.                                             *)

\* A client reads what the program reads, and the fees it reads are the program's.
LEMMA ReadByClient ==
  ASSUME Inv, NEW s \in UnpackSwap(swapData)
  PROVE  LET read == DecodePoolData(swapData)
         IN  /\ read.tokenProgram = s.tokenProgram /\ read.mint = s.mint
             /\ read.feeAccount = s.feeAccount
             /\ read.tokenA = s.tokenA /\ read.tokenB = s.tokenB
             /\ read.fees = FEES /\ s.fees = FEES
  <1>1. FeeBytes(swapData) = PackFees(FEES)
    BY ReservesInData DEF Inv, WellPacked
  <1>2. ReadFees(FeeBytes(swapData)) = FEES
    BY <1>1, FeesRead
  <1>3. /\ s.tokenProgram = swapData[4] /\ s.tokenA = swapData[5] /\ s.tokenB = swapData[6]
        /\ s.mint = swapData[7] /\ s.feeAccount = swapData[10] /\ s.fees = FEES
    BY DEF UnpackSwap, UnpackFees, When, None
  <1> QED  BY <1>2, <1>3 DEF DecodePoolData

\* Of the tokens a user has accounts for, each is in one reserve.
LEMMA ReservesOfUser ==
  ASSUME Inv, NEW s \in UnpackSwap(swapData)
  PROVE  /\ {s.tokenA, s.tokenB} \subseteq TokenKeys /\ s.tokenA # s.tokenB
         /\ \A k \in {UserKeys.userA, UserKeys.userB} :
              k \notin TokenKeys /\ SingleReserve(s, k) # {}
  <1>1. /\ s.tokenA \in Purses /\ s.tokenB \in Purses
        /\ MintOf[s.tokenA] # MintOf[s.tokenB]
    BY ReservesInData DEF Inv, WellPacked, Sealed
  <1>2. {MintOf[s.tokenA], MintOf[s.tokenB]} = {MintOf[UserKeys.userA], MintOf[UserKeys.userB]}
    BY <1>1, UserAssumption DEF Purses
  <1>3. \A k \in {UserKeys.userA, UserKeys.userB} : SingleReserve(s, k) # {}
    BY <1>2 DEF SingleReserve
  <1> QED  BY <1>1, <1>3, UserAssumption DEF Purses

\* A pool has a curve that takes deposits.
LEMMA PoolTakesDeposits ==
  ASSUME Inv, NEW s \in UnpackSwap(swapData)
  PROVE  AllowsDeposits(s.curve)
  <1>1. PICK t \in ValidCurveTypes : CurveBytes(swapData)[1] = CurveTag[t]
    BY ReservesInData DEF Inv, WellPacked
  <1>2. s.curve \in UnpackCurve(CurveBytes(swapData))
    BY DEF UnpackSwap, When, None
  <1>3. s.curve.type \in CurveTypes /\ CurveTag[s.curve.type] = CurveTag[t]
    BY <1>1, <1>2 DEF UnpackCurve, When, None, CurveTypesOf
  <1>4. s.curve.type = t
    BY <1>3, ProgramAssumption DEF CurveTypes, CurveTag
  <1> QED  BY <1>4, ConstraintsAssumption DEF AllowsDeposits

\* The accounts that a client lists are those that the handler accepts.
LEMMA ClientIsAccepted ==
  ASSUME Inv, NEW s \in UnpackSwap(swapData), NEW op \in Ops \ {"Initialize"},
         NEW sellA \in BOOLEAN, NEW builder \in Builders
  PROVE  LET keys  == KeysRead(DecodePoolData(swapData), sellA)
             metas == Accounts(builder, op, keys)
             b     == Bind(op, metas)
         IN  /\ \A role \in DOMAIN b : b[role] = keys[role]
             /\ op = "Swap" => BoundHost(metas) = keys.host
             /\ Usable(op, metas) /\ Accepts(op, s, b)
  <1> DEFINE read  == DecodePoolData(swapData)
             keys  == KeysRead(read, sellA)
             metas == Accounts(builder, op, keys)
             b     == Bind(op, metas)
             named == {Roles[op][i] : i \in 1 .. Len(Roles[op])}
  <1>1. Usable(op, metas) /\ DOMAIN b = named /\ \A role \in DOMAIN b : b[role] = keys[role]
    <2> HIDE DEF keys
    <2>1. Suited(op, metas, keys)
      BY AccountsSuit
    <2> HIDE DEF metas
    <2> QED  BY <2>1, Bound
  <1>2. op = "Swap" => BoundHost(metas) = keys.host
    <2> HIDE DEF keys
    <2> QED  BY SwapAccounts
  <1>3. /\ keys.authority = Authority /\ keys.tokenProgram = s.tokenProgram
        /\ keys.mint = s.mint /\ keys.feeAccount = s.feeAccount
        /\ keys.tokenA = s.tokenA /\ keys.tokenB = s.tokenB
        /\ keys.userA = UserKeys.userA /\ keys.userB = UserKeys.userB
        /\ keys.source \in {UserKeys.userA, UserKeys.userB}
        /\ keys.destination \in {UserKeys.userA, UserKeys.userB}
        /\ keys.swapSource \in {s.tokenA, s.tokenB}
        /\ keys.swapDestination \in {s.tokenA, s.tokenB}
        /\ s.tokenA # s.tokenB => keys.swapSource # keys.swapDestination
    <2> HIDE DEF read
    <2>1. /\ read.tokenProgram = s.tokenProgram /\ read.mint = s.mint
          /\ read.feeAccount = s.feeAccount
          /\ read.tokenA = s.tokenA /\ read.tokenB = s.tokenB
      BY ReadByClient DEF read
    <2> QED  BY <2>1 DEF KeysRead
  <1>4. /\ {s.tokenA, s.tokenB} \subseteq TokenKeys /\ s.tokenA # s.tokenB
        /\ \A k \in {UserKeys.userA, UserKeys.userB} :
             k \notin TokenKeys /\ SingleReserve(s, k) # {}
    BY ReservesOfUser
  <1> HIDE DEF read, keys, metas, b
  <1>5. Accepts(op, s, b)
    <2>1. \A r, k : r \in SingleReserve(s, k) => r \in {s.tokenA, s.tokenB}
      BY DEF SingleReserve
    <2>2. ASSUME op = "Swap" PROVE CheckSwap(s, b)
      <3>1. {"authority", "swapSource", "swapDestination", "source", "destination", "mint",
             "feeAccount", "tokenProgram"} \subseteq named
        BY <2>2 DEF Roles
      <3> QED  BY <1>1, <1>3, <1>4, <3>1 DEF CheckSwap
    <2>3. ASSUME op \in {"DepositAll", "WithdrawAll"}
          PROVE  CheckAccounts(s, b, {<<b.tokenA, b.userA>>, <<b.tokenB, b.userB>>})
      <3>1. {"authority", "tokenA", "tokenB", "userA", "userB", "mint", "tokenProgram"}
              \subseteq named
        <4>1. CASE op = "DepositAll"
          BY <4>1 DEF Roles
        <4>2. CASE op = "WithdrawAll"
          BY <4>2 DEF Roles
        <4> QED  BY <2>3, <4>1, <4>2
      <3>2. /\ b.authority = Authority /\ b.tokenProgram = s.tokenProgram /\ b.mint = s.mint
            /\ b.tokenA = s.tokenA /\ b.tokenB = s.tokenB
            /\ b.userA = UserKeys.userA /\ b.userB = UserKeys.userB
        BY <1>1, <1>3, <3>1
      <3> QED  BY <1>4, <3>2 DEF CheckAccounts
    <2>4. ASSUME op = "DepositSingle"
          PROVE  /\ SingleReserve(s, b.source) # {}
                 /\ CheckAccounts(s, b, SingleReserve(s, b.source) \X {b.source})
      <3>1. {"authority", "tokenA", "tokenB", "source", "mint", "tokenProgram"} \subseteq named
        BY <2>4 DEF Roles
      <3> QED  BY <1>1, <1>3, <1>4, <2>1, <3>1 DEF CheckAccounts
    <2>5. ASSUME op = "WithdrawSingle"
          PROVE  /\ SingleReserve(s, b.destination) # {}
                 /\ CheckAccounts(s, b, SingleReserve(s, b.destination) \X {b.destination})
      <3>1. {"authority", "tokenA", "tokenB", "destination", "mint", "tokenProgram"}
              \subseteq named
        BY <2>5 DEF Roles
      <3> QED  BY <1>1, <1>3, <1>4, <2>1, <3>1 DEF CheckAccounts
    <2>6. ASSUME op \in {"WithdrawAll", "WithdrawSingle"} PROVE b.feeAccount = s.feeAccount
      <3>1. CASE op = "WithdrawAll"
        <4>1. Roles[op][10] = "feeAccount" /\ 10 \in 1 .. Len(Roles[op])
          BY <3>1 DEF Roles
        <4>2. "feeAccount" \in named
          BY <4>1
        <4> QED  BY <1>1, <1>3, <4>2
      <3>2. CASE op = "WithdrawSingle"
        <4>1. Roles[op][9] = "feeAccount" /\ 9 \in 1 .. Len(Roles[op])
          BY <3>2 DEF Roles
        <4>2. "feeAccount" \in named
          BY <4>1
        <4> QED  BY <1>1, <1>3, <4>2
      <3> QED  BY <2>6, <3>1, <3>2
    <2> QED  BY <2>2, <2>3, <2>4, <2>5, <2>6, PoolTakesDeposits DEF Accepts, Ops
  <1> QED  BY <1>1, <1>2, <1>5 DEF b, metas, keys, read

(***************************************************************************)
(* The fees a client reads in the swap account are those the program       *)
(* charges: they are written by the program, which writes its own, and a   *)
(* u64 is read as it was written.                                          *)
(***************************************************************************)
THEOREM FeesAlwaysShown == Spec => []FeesShownAreCharged
  <1>1. Inv => FeesShownAreCharged
    BY ReadByClient DEF FeesShownAreCharged, Pools
  <1> QED  BY <1>1, Invariance, PTL

(***************************************************************************)
(* Any instruction that either library builds from the swap account alone  *)
(* reaches its handler as it was meant: the numbers, the account of every  *)
(* role with its rights, and the checks of accounts passed.                *)
(***************************************************************************)
THEOREM AlwaysArrives == Spec => []ArrivesAsAsked
  <1>1. ASSUME Inv, NEW s \in Pools, NEW op \in Ops \ {"Initialize"},
               NEW sellA \in BOOLEAN, NEW builder \in Builders
        PROVE  Arrives(builder, op, sellA, s)
    <2>1. LET request == [op |-> op, args |-> SomeArgs(op)]
          IN  UnpackInstruction(Data(builder, request)) = Some(request)
      BY SomeArgsFit, RequestRead
    <2>2. LET keys  == KeysRead(DecodePoolData(swapData), sellA)
              metas == Accounts(builder, op, keys)
              b     == Bind(op, metas)
          IN  /\ \A role \in DOMAIN b : b[role] = keys[role]
              /\ op = "Swap" => BoundHost(metas) = keys.host
              /\ Usable(op, metas) /\ Accepts(op, s, b)
      BY <1>1, ClientIsAccepted DEF Pools
    <2> QED  BY <2>1, <2>2 DEF Arrives
  <1>2. Inv => ArrivesAsAsked
    BY <1>1 DEF ArrivesAsAsked
  <1> QED  BY <1>2, Invariance, PTL

(***************************************************************************)
(* No history of owners, delegates and closed accounts blocks a withdrawal *)
(* of both tokens: what it needs is sealed, and the fee account it does    *)
(* not need, as constraints.rs asks no fee of those who leave.             *)
(***************************************************************************)
THEOREM ExitAlwaysOpen == Spec => []ExitNeverBlocked
  <1>1. ASSUME Inv, NEW s \in Pools, NEW builder \in Builders
        PROVE  Served("WithdrawAll", s,
                      Accounts(builder, "WithdrawAll",
                               KeysRead(DecodePoolData(swapData), TRUE)))
    <2>1. s \in UnpackSwap(swapData)
      BY DEF Pools
    <2> DEFINE metas == Accounts(builder, "WithdrawAll",
                                 KeysRead(DecodePoolData(swapData), TRUE))
    <2>2. Usable("WithdrawAll", metas) /\ Accepts("WithdrawAll", s, Bind("WithdrawAll", metas))
      <3>1. "WithdrawAll" \in Ops \ {"Initialize"} /\ TRUE \in BOOLEAN
        BY DEF Ops
      <3> QED  BY <1>1, <2>1, <3>1, ClientIsAccepted
    <2>3. \A k \in {s.tokenA, s.tokenB} : SealedAccount(k)
      BY <1>1, InvSealsPool DEF PoolIsSealed, Reserves
    <2>4. mint.authority = Authority
      BY <1>1, InvSealsPool DEF PoolIsSealed, SealedMint
    <2>5. FeePayee(s) = {}
      <3>1. s.fees = FEES
        BY <1>1, <2>1, ReadByClient
      <3> QED  BY <3>1, ConstraintsAssumption DEF FeePayee, OwnerWithdrawFee, CalculateFee
    <2> HIDE DEF metas
    <2>6. Served("WithdrawAll", s, metas)
      BY <2>2, <2>3, <2>4, <2>5 DEF Served, Touched, SealedAccount
    <2> QED  BY <2>6 DEF metas
  <1>2. Inv => ExitNeverBlocked
    BY <1>1 DEF ExitNeverBlocked
  <1> QED  BY <1>2, Invariance, PTL

=============================================================================
