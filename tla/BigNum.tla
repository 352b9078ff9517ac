------------------------------- MODULE BigNum -------------------------------
(***************************************************************************)
(* Modular powers for RSA signatures (OcCryptoLib, BigNumPrimitives.c and  *)
(* BigNumMontgomery.c), word by word.                                      *)
(*                                                                         *)
(* A number is a sequence of words, the least significant one first.  A    *)
(* word has BnBits bits, few enough for every number to be tried; what     *)
(* depends on the width is carries and shifts, which keep their form.      *)
(*                                                                         *)
(* A key is prepared once: the inverse of its lowest word, and R^2 modulo  *)
(* the key by a division of shifts and subtractions (one action for every  *)
(* turn of its loop).  Then it raises numbers to a power.                  *)
(***************************************************************************)
EXTENDS Integers, Sequences, SequencesExt, FiniteSetsExt

CONSTANTS
  BnBits,      \* OC_BN_WORD_NUM_BITS
  BnWords,     \* words of a key
  BnExponents  \* exponents that are tried

VARIABLES
  bnStage,     \* "idle", "mod" (inside BigNumMod), "refused", "ready", "done"
  bnKey,       \* N
  N0Inv,
  bnMod,       \* the local variables of BigNumMod
  RSqrMod,
  bnPower      \* the last call of BigNumPowMod: A, B, Result

bnVars == <<bnStage, bnKey, N0Inv, bnMod, RSqrMod, bnPower>>

Base == 2^BnBits
Word == 0 .. Base - 1
BnNumber == [1 .. BnWords -> Word]
BnZero == [i \in 1 .. BnWords |-> 0]
BnIndices == [i \in 1 .. BnWords |-> i]
Value(a) == FoldRight(LAMBDA w, n : w + Base * n, a, 0)

----------------------------------------------------------------------------
BigNumSub(a, b) ==
  FoldLeft(LAMBDA r, i :
    LET sub == (b[i] + r.borrow) % Base
        res == (a[i] - sub) % Base
    IN  [out |-> Append(r.out, res), borrow |-> IF sub < r.borrow \/ a[i] < res THEN 1 ELSE 0],
    [out |-> << >>, borrow |-> 0], [i \in DOMAIN a |-> i]).out

\* BigNumMostSignificantWord, counted from 1, which an empty number has too.
SigWords(a) == Max({1} \cup {i \in DOMAIN a : a[i] # 0})

SigBitsWord(w) == Max({0} \cup {k \in 1 .. BnBits : w >= 2^(k - 1)})

BigNumSignificantBits(a) == (SigWords(a) - 1) * BnBits + SigBitsWord(a[SigWords(a)])

\* BigNumCmp over the first n words.
BigNumGreaterEq(a, b, n) ==
  LET differ == {i \in 1 .. n : a[i] # b[i]}
  IN  differ = {} \/ a[Max(differ)] > b[Max(differ)]

\* BigNumLeftShiftWords and BigNumLeftShiftWordsAndBits into n words.
BigNumLeftShift(a, n, exp) ==
  LET words == exp \div BnBits  bits == exp % BnBits
      at(i) == IF i \in DOMAIN a THEN a[i] ELSE 0
  IN  [i \in 1 .. n |-> ((at(i - words) * 2^bits) % Base)
                        + (at(i - words - 1) \div 2^(BnBits - bits))]

\* BigNumRightShiftWords and BigNumRightShiftWordsAndBits within the first n words.
BigNumRightShift(a, n, exp) ==
  LET words == exp \div BnBits  bits == exp % BnBits
      at(i) == IF i \in 1 .. n THEN a[i] ELSE 0
  IN  [i \in DOMAIN a |-> IF i > n THEN a[i]
                          ELSE (at(i + words) \div 2^bits)
                               + ((at(i + words + 1) * 2^(BnBits - bits)) % Base)]

----------------------------------------------------------------------------
\* BigNumMontInverse of the lowest word: -1/w modulo Base, 0 if there is none.
BigNumMontInverse(w) ==
  LET euclid[d \in Word, s \in Word, x \in Word, y \in Word] ==
        IF s = 0 THEN IF d = 1 THEN (0 - y) % Base ELSE 0
        ELSE euclid[s, d % s, (y - ((d \div s) * x)) % Base, x]
  IN  IF w = 0 THEN 0 ELSE euclid[w, Base % w, (0 - (Base \div w)) % Base, 1]

BigNumWordAddMul(c, a, b) ==
  LET lo == (((a * b) % Base) + c) % Base
  IN  [lo |-> lo, hi |-> ((a * b) \div Base) + IF lo < c THEN 1 ELSE 0]

BigNumWordAddMulCarry(c, a, b, carry) ==
  LET p == BigNumWordAddMul(c, a, b)
      lo == (p.lo + carry) % Base
  IN  [lo |-> lo, hi |-> p.hi + IF lo < carry THEN 1 ELSE 0]

\* Mutant: a result that wrapped around is not reduced.
BigNumMontMulRowUnreduced(c, aw, b, n, inv) ==
  LET first == BigNumWordAddMul(c[1], aw, b[1])
      t == (first.lo * inv) % Base
      step(r, i) ==
        LET p == BigNumWordAddMulCarry(c[i], aw, b[i], r.mul)
            q == BigNumWordAddMulCarry(p.lo, t, n[i], r.mont)
        IN  [mul |-> p.hi, mont |-> q.hi, out |-> Append(r.out, q.lo)]
      row == FoldLeft(step, [mul |-> first.hi, out |-> << >>,
                             mont |-> BigNumWordAddMul(first.lo, t, n[1]).hi], Tail(BnIndices))
  IN  Append(row.out, (row.mul + row.mont) % Base)

\* One row of the product of a and b: the word aw of a times b is added, the multiple
\* of n that clears the lowest word too, and the words move down by one.
BigNumMontMulRow(c, aw, b, n, inv) ==
  LET first == BigNumWordAddMul(c[1], aw, b[1])
      t == (first.lo * inv) % Base
      step(r, i) ==
        LET p == BigNumWordAddMulCarry(c[i], aw, b[i], r.mul)
            q == BigNumWordAddMulCarry(p.lo, t, n[i], r.mont)
        IN  [mul |-> p.hi, mont |-> q.hi, out |-> Append(r.out, q.lo)]
      row == FoldLeft(step, [mul |-> first.hi, out |-> << >>,
                             mont |-> BigNumWordAddMul(first.lo, t, n[1]).hi], Tail(BnIndices))
      top == (row.mul + row.mont) % Base
  IN  IF top < row.mul THEN BigNumSub(Append(row.out, top), n) ELSE Append(row.out, top)

BigNumMontMul(a, b, n, inv) ==
  FoldLeft(LAMBDA c, aw : BigNumMontMulRow(c, aw, b, n, inv), BnZero, a)

\* A row for a word 0.
BigNumMontMulRow0(c, n, inv) ==
  LET t == (c[1] * inv) % Base
      step(r, i) == LET q == BigNumWordAddMulCarry(c[i], t, n[i], r.mont)
                    IN  [mont |-> q.hi, out |-> Append(r.out, q.lo)]
      row == FoldLeft(step, [mont |-> BigNumWordAddMul(c[1], t, n[1]).hi, out |-> << >>],
                      Tail(BnIndices))
  IN  Append(row.out, row.mont)

\* The product with 1.
BigNumMontMul1(a, n, inv) ==
  FoldLeft(LAMBDA c, i : BigNumMontMulRow0(c, n, inv),
           BigNumMontMulRow(BnZero, 1, a, n, inv), Tail(BnIndices))

\* BigNumMontMul with the multiplier in the buffer of the result, which is zeroed first.
BigNumMontMulInPlace(a, n, inv) ==
  FoldLeft(LAMBDA c, aw : BigNumMontMulRow(c, aw, c, n, inv), BnZero, a)

\* BigNumPowMod, for the two exponents it supports.  For 3 the second product is written
\* over its own multiplier.  (The calls that are refused change nothing.)
Power(a, b, n, inv, rsqr) ==
  LET mul(x, y) == BigNumMontMul(x, y, n, inv)
      in == mul(a, rsqr)
      out == IF b = 65537
             THEN mul(FoldLeft(LAMBDA x, i : mul(x, x), in, [i \in 1 .. 16 |-> i]), a)
             ELSE BigNumMontMul1(BigNumMontMulInPlace(mul(in, in), n, inv), n, inv)
  IN  IF BigNumGreaterEq(out, n, BnWords) THEN BigNumSub(out, n) ELSE out

----------------------------------------------------------------------------
NoMod == [ModTmp |-> << >>, SigWordsModTmp |-> 0, SigBitsModTmp |-> 0, BigDiv |-> << >>,
          SigWordsBigDiv |-> 0, SigBitsBigDiv |-> 0, BigDivExp |-> 0]
NoPower == [A |-> BnZero, B |-> 0, Result |-> BnZero]

BnInit ==
  /\ bnStage = "idle" /\ bnKey = BnZero /\ N0Inv = 0 /\ bnMod = NoMod
  /\ RSqrMod = [known |-> FALSE, words |-> BnZero] /\ bnPower = NoPower

\* 2 to the power of exp, in its own number of words.
PowerOfTwo(exp) == BigNumLeftShift(<<1>>, (exp \div BnBits) + 1, exp)

\* BigNumCalculateMontParams up to the loop of BigNumMod.  A key without an inverse is
\* refused, and any key when R^2 gets no memory.
BigNumCalculateMontParams(n) ==
  LET bits == BigNumSignificantBits(n)
      a == PowerOfTwo(2 * bits)
      exp == BigNumSignificantBits(a) - bits
  IN
  /\ bnStage = "idle"
  /\ bnKey' = n /\ N0Inv' = BigNumMontInverse(n[1])
  /\ \/ bnStage' = "refused" /\ UNCHANGED bnMod
     \/ /\ N0Inv' # 0
        /\ bnStage' = "mod"
        /\ bnMod' = [ModTmp |-> a, SigWordsModTmp |-> Len(a),
                     SigBitsModTmp |-> BigNumSignificantBits(a),
                     BigDiv |-> BigNumLeftShift(n, Len(a), exp), SigWordsBigDiv |-> Len(a),
                     SigBitsBigDiv |-> BigNumSignificantBits(a), BigDivExp |-> exp]
  /\ UNCHANGED <<RSqrMod, bnPower>>

\* BigNumMod without memory: the caller does not look at the answer, and R^2 is
\* what its memory held.
ModNoMemory(words) ==
  /\ bnStage = "mod" /\ bnMod.SigBitsModTmp = bnMod.SigBitsBigDiv
  /\ bnMod.ModTmp = PowerOfTwo(2 * BigNumSignificantBits(bnKey))
  /\ bnStage' = "ready" /\ RSqrMod' = [known |-> FALSE, words |-> words] /\ bnMod' = NoMod
  /\ UNCHANGED <<bnKey, N0Inv, bnPower>>

ModGreaterEq ==
  bnMod.SigWordsModTmp > bnMod.SigWordsBigDiv
    \/ BigNumGreaterEq(bnMod.ModTmp, bnMod.BigDiv, bnMod.SigWordsBigDiv)

ModEnds(rest) ==
  /\ bnStage' = "ready"
  /\ RSqrMod' = [known |-> TRUE, words |-> SubSeq(rest, 1, BnWords)]
  /\ bnMod' = NoMod

\* The divisor fits: it is taken away, and shifted down to the size of the rest.
ModSubtract ==
  LET n == bnMod.SigWordsModTmp
      rest == BigNumSub(SubSeq(bnMod.ModTmp, 1, n), SubSeq(bnMod.BigDiv, 1, n))
              \o SubSeq(bnMod.ModTmp, n + 1, Len(bnMod.ModTmp))
      bits == BigNumSignificantBits(SubSeq(rest, 1, n))
      delta == bnMod.SigBitsBigDiv - bits
  IN
  /\ bnStage = "mod" /\ ModGreaterEq
  /\ IF bnMod.BigDivExp = 0 \/ delta > bnMod.BigDivExp THEN ModEnds(rest)
     ELSE /\ bnMod' = [ModTmp |-> rest, SigWordsModTmp |-> SigWords(SubSeq(rest, 1, n)),
                       SigBitsModTmp |-> bits,
                       BigDiv |-> BigNumRightShift(bnMod.BigDiv, bnMod.SigWordsBigDiv, delta),
                       SigWordsBigDiv |-> (bits + BnBits - 1) \div BnBits,
                       SigBitsBigDiv |-> bits, BigDivExp |-> bnMod.BigDivExp - delta]
          /\ UNCHANGED <<bnStage, RSqrMod>>
  /\ UNCHANGED <<bnKey, N0Inv, bnPower>>

\* The divisor is larger: it is halved.
ModHalve ==
  LET bits == bnMod.SigBitsBigDiv - 1 IN
  /\ bnStage = "mod" /\ ~ModGreaterEq
  /\ IF bnMod.BigDivExp = 0 THEN ModEnds(bnMod.ModTmp)
     ELSE /\ bnMod' = [bnMod EXCEPT
                         !.BigDiv = BigNumRightShift(@, bnMod.SigWordsBigDiv, 1),
                         !.SigBitsBigDiv = bits, !.BigDivExp = @ - 1,
                         !.SigWordsBigDiv = IF bits % BnBits = 0 THEN @ - 1 ELSE @]
          /\ UNCHANGED <<bnStage, RSqrMod>>
  /\ UNCHANGED <<bnKey, N0Inv, bnPower>>

BigNumPowMod(a, b) ==
  /\ bnStage = "ready"
  /\ bnStage' = "done"
  /\ bnPower' = [A |-> a, B |-> b, Result |-> Power(a, b, bnKey, N0Inv, RSqrMod.words)]
  /\ UNCHANGED <<bnKey, N0Inv, bnMod, RSqrMod>>

\* The caller is done with the key.
NextKey ==
  /\ bnStage \in {"refused", "done"}
  /\ bnStage' = "idle" /\ bnKey' = BnZero /\ N0Inv' = 0 /\ bnMod' = NoMod
  /\ RSqrMod' = [known |-> FALSE, words |-> BnZero] /\ bnPower' = NoPower

\* Keys use all bits of their words.
BnKeys == {n \in BnNumber : n[BnWords] >= Base \div 2}

BnNext ==
  \/ \E n \in BnKeys : BigNumCalculateMontParams(n)
  \/ \E w \in {0, Base - 1} : ModNoMemory([i \in 1 .. BnWords |-> w])
  \/ ModSubtract
  \/ ModHalve
  \/ \E a \in BnNumber, b \in BnExponents : BigNumPowMod(a, b)
  \/ NextKey

BnSpec == BnInit /\ [][BnNext]_bnVars

----------------------------------------------------------------------------
PowerMod[a \in Nat, b \in Nat, n \in Nat] ==
  IF b = 0 THEN 1 % n
  ELSE LET half == PowerMod[a, b \div 2, n]
       IN  (half * half * (IF b % 2 = 1 THEN a % n ELSE 1)) % n

\* The power for 65537 is exact for every key and every number that fits its words,
\* reduced or not, whenever R^2 was calculated, although no product but the last is
\* reduced below the key (BigNumMontgomery.c:569-660); an even key never comes that far.
PowModExact ==
  /\ bnStage = "done" /\ RSqrMod.known /\ bnPower.B = 65537 =>
       Value(bnPower.Result) = PowerMod[Value(bnPower.A), bnPower.B, Value(bnKey)]
  /\ bnStage \in {"mod", "ready", "done"} => bnKey[1] % 2 = 1

\* "Caulculates the exponentiation of A with B mod N": so it does for the other exponent
\* that is supported (BigNumLib.h:97, BigNumMontgomery.c:592-597).
CubesExact ==
  bnStage = "done" /\ RSqrMod.known /\ bnPower.B = 3 =>
    Value(bnPower.Result) = PowerMod[Value(bnPower.A), 3, Value(bnKey)]

\* Through every turn of the division the rest stays congruent to R^2 and below twice
\* the divisor, which is the key shifted; the counted bits and words are the real ones,
\* and no word above them is left behind (BigNumPrimitives.c:608-757).
DivisionKeepsRest ==
  bnStage = "mod" =>
    LET n == Value(bnKey)  rest == Value(bnMod.ModTmp)  div == Value(bnMod.BigDiv) IN
    /\ div = n * 2^bnMod.BigDivExp /\ rest < 2 * div
    /\ rest % n = PowerMod[2, 2 * BnBits * BnWords, n]
    /\ bnMod.SigBitsBigDiv = BigNumSignificantBits(bnMod.BigDiv)
    /\ bnMod.SigWordsModTmp \in bnMod.SigWordsBigDiv .. bnMod.SigWordsBigDiv + 1
    /\ \A i \in DOMAIN bnMod.ModTmp : i > bnMod.SigWordsModTmp => bnMod.ModTmp[i] = 0
=============================================================================
