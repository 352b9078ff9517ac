------------------------------- MODULE Guard -------------------------------
(***************************************************************************)
(* Arithmetic that tells of overflow (OcGuardLib, BitOverflow.c,           *)
(* NativeOverflow.c and TripleOverflow.c), which the parsers of images,    *)
(* partitions and caches lean on.  There are Size32 numbers of 32 bits and *)
(* as many as their pairs of 64, few enough for TLC to go through every    *)
(* operand; signed values wrap as the machine does.                        *)
(***************************************************************************)
EXTENDS Integers

CONSTANTS
  Size32,      \* numbers of 32 bits
  UintnIs64    \* the width of UINTN

VARIABLES
  guardCall,   \* the last call
  guardSaid    \* its answer: an overflow, and *Result

guardVars == <<guardCall, guardSaid>>

Size64 == Size32 * Size32

\* The value of a signed variable of so many values that is assigned x.
AsSigned(x, size) == ((x + size \div 2) % size) - size \div 2
S64(x) == AsSigned(x, Size64)
Values(size, signed) ==
  IF signed THEN -(size \div 2) .. (size \div 2 - 1) ELSE 0 .. size - 1
MAX_INT64 == Size64 \div 2 - 1
MIN_INT64 == -(Size64 \div 2)

Say(overflow, result) == [Overflow |-> overflow, Result |-> result]

\* OcOverflowAddU32, OcOverflowAddU64, OcOverflowSubU32 and OcOverflowSubU64.
AddUnsigned(A, B, size) == LET Temp == (A + B) % size IN Say(Temp < A, Temp)
SubUnsigned(A, B, size) == Say(B > A, (A - B) % size)

\* The 32 bit functions whose exact result a 64 bit Temp holds.
Narrowed(Temp, signed) ==
  Say(Temp \notin Values(Size32, signed),
      IF signed THEN AsSigned(Temp, Size32) ELSE Temp % Size32)

\* Mutant: the upper half of the second cross product is not looked at.
OcOverflowMulU64OneSide(A, B) ==
  LET AHi == A \div Size32   ALo == A % Size32
      BHi == B \div Size32   BLo == B % Size32
      LoBits == ALo * BLo    HiBits1 == ALo * BHi    HiBits2 == AHi * BLo
      Result == (LoBits + (HiBits1 + HiBits2) * Size32) % Size64
  IN  Say((AHi > 0 /\ BHi > 0) \/ Result < LoBits \/ HiBits1 \div Size32 # 0, Result)

OcOverflowMulU64(A, B) ==
  LET AHi == A \div Size32   ALo == A % Size32
      BHi == B \div Size32   BLo == B % Size32
      LoBits == ALo * BLo    HiBits1 == ALo * BHi    HiBits2 == AHi * BLo
      Result == (LoBits + (HiBits1 + HiBits2) * Size32) % Size64
  IN  IF AHi = 0 /\ BHi = 0 THEN Say(FALSE, LoBits)
      ELSE Say(\/ AHi > 0 /\ BHi > 0
               \/ Result < LoBits
               \/ HiBits1 \div Size32 # 0
               \/ HiBits2 \div Size32 # 0, Result)

\* The conditions are evaluated in turn, so that no difference in them wraps.
OcOverflowAddS64(A, B) ==
  IF (B <= 0 \/ A <= S64(MAX_INT64 - B)) /\ (B >= 0 \/ A >= S64(MIN_INT64 - B))
  THEN Say(FALSE, S64(A + B)) ELSE Say(TRUE, 0)
OcOverflowSubS64(A, B) ==
  IF (B >= 0 \/ A <= S64(MAX_INT64 + B)) /\ (B <= 0 \/ A >= S64(MIN_INT64 + B))
  THEN Say(FALSE, S64(A - B)) ELSE Say(TRUE, 0)

\* OC_ABS_64
Abs64(x) == IF x < 0 THEN S64(-(x + 1)) + 1 ELSE x

OcOverflowMulS64(A, B) ==
  LET unsigned == OcOverflowMulU64(Abs64(A), Abs64(B))
      ResultU == unsigned.Result
  IN  IF unsigned.Overflow THEN Say(TRUE, 0)
      ELSE IF (A < 0) = (B < 0)
      THEN IF ResultU <= MAX_INT64 THEN Say(FALSE, ResultU) ELSE Say(TRUE, 0)
      ELSE IF ResultU <= Abs64(MIN_INT64) THEN Say(FALSE, -ResultU) ELSE Say(TRUE, 0)

----------------------------------------------------------------------------
\* A variant is one of U32, S32, U64, S64, UN and SN.
Variants == [width : {"32", "64", "N"}, signed : BOOLEAN]
Wide(variant) == variant.width = "64" \/ (variant.width = "N" /\ UintnIs64)
Operands(variant) == Values(IF Wide(variant) THEN Size64 ELSE Size32, variant.signed)
Exactly(op, A, B) == CASE op = "Add" -> A + B [] op = "Sub" -> A - B [] op = "Mul" -> A * B

\* OcOverflowAddUN and the like choose the functions of the width of the machine.
OcOverflow(op, variant, A, B) ==
  CASE ~Wide(variant) /\ (variant.signed \/ op = "Mul") ->
         Narrowed(Exactly(op, A, B), variant.signed)
    [] ~Wide(variant) /\ ~variant.signed /\ op = "Add" -> AddUnsigned(A, B, Size32)
    [] ~Wide(variant) /\ ~variant.signed /\ op = "Sub" -> SubUnsigned(A, B, Size32)
    [] Wide(variant) /\ ~variant.signed /\ op = "Add" -> AddUnsigned(A, B, Size64)
    [] Wide(variant) /\ ~variant.signed /\ op = "Sub" -> SubUnsigned(A, B, Size64)
    [] Wide(variant) /\ ~variant.signed /\ op = "Mul" -> OcOverflowMulU64(A, B)
    [] Wide(variant) /\ variant.signed /\ op = "Add" -> OcOverflowAddS64(A, B)
    [] Wide(variant) /\ variant.signed /\ op = "Sub" -> OcOverflowSubS64(A, B)
    [] Wide(variant) /\ variant.signed /\ op = "Mul" -> OcOverflowMulS64(A, B)

\* OcOverflowTriAdd, AddMul, MulAdd and TriMul: the first result goes into the second.
OcOverflowTri(first, second, variant, A, B, C) ==
  LET OcFirst == OcOverflow(first, variant, A, B)
      OcSecond == OcOverflow(second, variant, OcFirst.Result, C)
  IN  Say(OcFirst.Overflow \/ OcSecond.Overflow, OcSecond.Result)

GuardInit ==
  /\ guardCall = [first |-> "none"]
  /\ guardSaid = Say(FALSE, 0)

GuardTwo ==
  /\ guardCall.first = "none"
  /\ \E op \in {"Add", "Sub", "Mul"}, v \in Variants : \E A, B \in Operands(v) :
       /\ guardCall' = [first |-> op, second |-> "none", v |-> v, A |-> A, B |-> B]
       /\ guardSaid' = OcOverflow(op, v, A, B)

GuardThree ==
  /\ guardCall.first = "none"
  /\ \E first, second \in {"Add", "Mul"}, v \in Variants : \E A, B, C \in Operands(v) :
       /\ guardCall' = [first |-> first, second |-> second, v |-> v, A |-> A, B |-> B, C |-> C]
       /\ guardSaid' = OcOverflowTri(first, second, v, A, B, C)

\* Nothing is kept from one call to the next.
GuardReturns == guardCall.first # "none" /\ guardCall' = [first |-> "none"] /\ guardSaid' = Say(FALSE, 0)

GuardNext == GuardTwo \/ GuardThree \/ GuardReturns
GuardSpec == GuardInit /\ [][GuardNext]_guardVars

----------------------------------------------------------------------------
\* A caller that is told of no overflow has the exact result; it is told of one just when
\* a result on the way does not fit the type (BitOverflow.c:26-295, TripleOverflow.c).
OverflowToldExactly ==
  guardCall.first # "none" =>
    LET partial == Exactly(guardCall.first, guardCall.A, guardCall.B)
        exact == IF guardCall.second = "none" THEN partial
                 ELSE Exactly(guardCall.second, partial, guardCall.C)
        fits == {partial, exact} \subseteq Operands(guardCall.v)
    IN  /\ guardSaid.Overflow = ~fits
        /\ fits => guardSaid.Result = exact
=============================================================================
