-------------------------------- MODULE Wire --------------------------------
(***************************************************************************)
(* What the client and the program write for each other: the data of an    *)
(* instruction (instruction.rs and saros_swap.instruction.ts) and of the   *)
(* swap account (state.rs, base.rs, fees.rs and TokenSwapLayout).          *)
(*                                                                         *)
(* A byte is a digit to the base Base and a u64 has WordLen of them.  A    *)
(* key takes one cell, whatever it is.  As elsewhere a Result is a set: {} *)
(* for an error, {x} for Ok(x).                                            *)
(***************************************************************************)
EXTENDS SwapCurve, Sequences, Functions

CONSTANTS Base,      \* 256 in the source
          WordLen,   \* 8 in the source
          FEES       \* constraints::FEES

\* What a one is worth in each byte of a number, and right after the last.
Weight[i \in 0 .. WordLen] == IF i = 0 THEN 1 ELSE Base * Weight[i - 1]

ASSUME WireAssumption ==
  /\ Base \in Nat /\ Base >= 6   \* a byte tells the six instructions apart
  /\ WordLen \in Nat \ {0}
  /\ U64Max = Weight[WordLen] - 1
  /\ ValidFees(FEES)
  /\ \A k \in DOMAIN FEES : FEES[k].num <= U64Max /\ FEES[k].den <= U64Max

Zeros(n) == [i \in 1 .. n |-> 0]

\* u64::to_le_bytes, and borsh.u64
ToLeBytes(n) == [i \in 1 .. WordLen |-> (n \div Weight[i - 1]) % Base]

\* u64::from_le_bytes
FromLeBytes(bytes) ==
  SumFunction([i \in 1 .. WordLen |-> bytes[i] * Weight[i - 1]])

\* toArrayLike(Buffer) of a BN: as many bytes as it takes, the highest first.
ToArrayLike(n) ==
  LET count == CHOOSE d \in 1 .. WordLen :
                 n < Weight[d] /\ (d = 1 \/ n >= Weight[d - 1])
  IN  [i \in 1 .. count |-> (n \div Weight[count - i]) % Base]

\* words[1] to words[k], one after the other
Words(words, k) ==
  [i \in 1 .. k * WordLen |->
     ToLeBytes(words[(i - 1) \div WordLen + 1])[((i - 1) % WordLen) + 1]]

WordAt(bytes, i) == FromLeBytes(SubSeq(bytes, (i - 1) * WordLen + 1, i * WordLen))

-----------------------------------------------------------------------------
(* Fees and curves.                                                        *)

FEES_LEN  == 8 * WordLen
CURVE_LEN == 1 + 4 * WordLen

PackFees(fees) ==
  Words(<<fees.trade.num, fees.trade.den, fees.owner.num, fees.owner.den,
          fees.withdraw.num, fees.withdraw.den, fees.host.num, fees.host.den>>, 8)

\* The fees as they were packed, which only the client reads.
ReadFees(bytes) ==
  [trade    |-> [num |-> WordAt(bytes, 1), den |-> WordAt(bytes, 2)],
   owner    |-> [num |-> WordAt(bytes, 3), den |-> WordAt(bytes, 4)],
   withdraw |-> [num |-> WordAt(bytes, 5), den |-> WordAt(bytes, 6)],
   host     |-> [num |-> WordAt(bytes, 7), den |-> WordAt(bytes, 8)]]

\* Fees::unpack_from_slice: "use default instead of unpack from pool".
UnpackFees(bytes) == FEES

\* CurveType as u8
CurveTag == [ConstantProduct |-> 0, ConstantPrice |-> 1, Stable |-> 2, Offset |-> 3]

\* CurveType::try_from
CurveTypesOf(tag) == { t \in CurveTypes : CurveTag[t] = tag }

\* The calculators pack what they have, at the start of zeroed memory.
PackCurve(c) ==
  <<CurveTag[c.type]>> \o Words(<<IF c.type = "ConstantProduct" THEN 0 ELSE c.parameter,
                                  0, 0, 0>>, 4)

\* SwapCurve::unpack_unchecked: exactly CURVE_LEN bytes.
UnpackCurve(bytes) ==
  When(Len(bytes) = CURVE_LEN,
       { [type |-> t, parameter |-> IF t = "ConstantProduct" THEN 0
                                    ELSE WordAt(Tail(bytes), 1)] :
           t \in CurveTypesOf(bytes[1]) })

-----------------------------------------------------------------------------
(* The data of an instruction.  A request is a record with its op and, for *)
(* Initialize, the fees and the curve, otherwise the numbers args.         *)

Ops == {"Initialize", "Swap", "DepositAll", "WithdrawAll", "DepositSingle",
        "WithdrawSingle"}

OpTag == [Initialize |-> 0, Swap |-> 1, DepositAll |-> 2, WithdrawAll |-> 3,
          DepositSingle |-> 4, WithdrawSingle |-> 5]

\* How many numbers the instruction has.
ArgCount == [Swap |-> 2, DepositAll |-> 3, WithdrawAll |-> 3, DepositSingle |-> 2,
             WithdrawSingle |-> 2]

\* SwapInstruction::pack
PackInstruction(request) ==
  <<OpTag[request.op]>> \o
    (IF request.op = "Initialize" THEN PackFees(request.fees) \o PackCurve(request.curve)
     ELSE Words(request.args, ArgCount[request.op]))

\* The data that the TypeScript client serializes.  Only the curve's parameter
\* is not a borsh field of its own: it is copied to the start of 32 zero bytes.
SerializeInstruction(request) ==
  IF request.op # "Initialize" THEN PackInstruction(request)
  ELSE LET parameter == ToArrayLike(request.curve.parameter)
       IN  <<0>> \o PackFees(request.fees) \o <<CurveTag[request.curve.type]>>
             \o parameter \o Zeros(4 * WordLen - Len(parameter))

\* Mutant of RequestedFees: what is asked for is what is stored.
RequestedFeesRead(bytes) == ReadFees(bytes)

\* Fees::unpack_unchecked in unpack
RequestedFees(bytes) == UnpackFees(bytes)

\* The Initialize branch of unpack.
UnpackInitialize(rest) ==
  When(Len(rest) >= FEES_LEN,
       { [op |-> "Initialize", fees |-> RequestedFees(rest), curve |-> c] :
           c \in UnpackCurve(SubSeq(rest, FEES_LEN + 1, Len(rest))) })

\* The other branches: bytes after the last number are ignored.
UnpackArgs(op, rest) ==
  When(Len(rest) >= ArgCount[op] * WordLen,
       Some([op |-> op, args |-> [i \in 1 .. ArgCount[op] |-> WordAt(rest, i)]]))

\* SwapInstruction::unpack
UnpackInstruction(bytes) ==
  When(Len(bytes) > 0,
       UNION { IF op = "Initialize" THEN UnpackInitialize(Tail(bytes))
               ELSE UnpackArgs(op, Tail(bytes)) :
                 op \in { o \in Ops : OpTag[o] = bytes[1] } })

-----------------------------------------------------------------------------
(* The data of the swap account.                                           *)

SWAP_LEN == 9 + FEES_LEN + CURVE_LEN   \* SwapV1::LEN

\* The account as the system program creates it.
NewSwapData == Zeros(1 + SWAP_LEN)

\* Mutant of PackSwap: is_initialized is left as it was.
PackSwapUnmarked(s) ==
  <<1, 0, s.bump, s.tokenProgram, s.tokenA, s.tokenB, s.mint, s.mintA, s.mintB,
    s.feeAccount>> \o PackFees(s.fees) \o PackCurve(s.curve)

\* SwapVersion::pack: the version, then the state with is_initialized set.
PackSwap(s) ==
  <<1, 1, s.bump, s.tokenProgram, s.tokenA, s.tokenB, s.mint, s.mintA, s.mintB,
    s.feeAccount>> \o PackFees(s.fees) \o PackCurve(s.curve)

FeeBytes(data)   == SubSeq(data, 11, 10 + FEES_LEN)
CurveBytes(data) == SubSeq(data, 11 + FEES_LEN, Len(data))

\* SwapVersion::unpack: SwapV1::unpack asks for the length and is_initialized.
UnpackSwap(data) ==
  When(Len(data) = 1 + SWAP_LEN /\ data[1] = 1 /\ data[2] = 1,
       { [bump |-> data[3], tokenProgram |-> data[4], tokenA |-> data[5],
          tokenB |-> data[6], mint |-> data[7], mintA |-> data[8], mintB |-> data[9],
          feeAccount |-> data[10], fees |-> UnpackFees(FeeBytes(data)), curve |-> c] :
            c \in UnpackCurve(CurveBytes(data)) })

\* SwapVersion::is_initialized: false for whatever cannot be unpacked.
IsInitialized(data) == UnpackSwap(data) # None

\* decodePoolData of the client, by TokenSwapLayout.
DecodePoolData(data) ==
  [tokenProgram |-> data[4], tokenA |-> data[5], tokenB |-> data[6], mint |-> data[7],
   mintA |-> data[8], mintB |-> data[9], feeAccount |-> data[10],
   fees |-> ReadFees(FeeBytes(data)), curveType |-> data[11 + FEES_LEN]]

=============================================================================
