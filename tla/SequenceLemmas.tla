--------------------------- MODULE SequenceLemmas ---------------------------
(***************************************************************************)
(* Facts about lists that the proofs about several components need: what   *)
(* is left when an element is taken out of one, what an element that is    *)
(* written over or added does, that a list of numbers has a greatest, and  *)
(* what the loops over a list come to: the list without some of its        *)
(* elements, and the total of its numbers.                                 *)
(***************************************************************************)
EXTENDS Integers, Sequences, SequencesExt, ListLoops, SequenceTheorems, FiniteSetTheorems,
        WellFoundedInduction, TLAPS

\* The elements behind a removed one move up by one place.
LEMMA RemoveAtFacts ==
  ASSUME NEW S, NEW s \in Seq(S), NEW i \in 1 .. Len(s)
  PROVE  /\ RemoveAt(s, i) \in Seq(S)
         /\ Len(RemoveAt(s, i)) = Len(s) - 1
         /\ \A j \in 1 .. (Len(s) - 1) :
              RemoveAt(s, i)[j] = IF j < i THEN s[j] ELSE s[j + 1]
<1> DEFINE before == SubSeq(s, 1, i - 1)
           behind == SubSeq(s, i + 1, Len(s))
<1>1. before \in Seq(S) /\ Len(before) = i - 1 /\ \A j \in 1 .. (i - 1) : before[j] = s[j]
  OBVIOUS
<1>2. /\ behind \in Seq(S) /\ Len(behind) = Len(s) - i
      /\ \A j \in 1 .. (Len(s) - i) : behind[j] = s[i + j]
  OBVIOUS
<1>3. RemoveAt(s, i) = before \o behind
  BY DEF RemoveAt
<1> HIDE DEF before, behind
<1>4. /\ before \o behind \in Seq(S)
      /\ Len(before \o behind) = Len(before) + Len(behind)
      /\ \A j \in 1 .. (Len(before) + Len(behind)) :
           (before \o behind)[j] = IF j <= Len(before) THEN before[j]
                                   ELSE behind[j - Len(before)]
  BY <1>1, <1>2, ConcatProperties
<1>5. ASSUME NEW j \in 1 .. (Len(s) - 1)
      PROVE  RemoveAt(s, i)[j] = IF j < i THEN s[j] ELSE s[j + 1]
  <2>1. CASE j < i
    BY <2>1, <1>1, <1>2, <1>3, <1>4
  <2>2. CASE j >= i
    <3>1. behind[j - (i - 1)] = s[i + (j - (i - 1))]
      BY <2>2, <1>2
    <3>2. i + (j - (i - 1)) = j + 1
      OBVIOUS
    <3>3. (before \o behind)[j] = behind[j - Len(before)]
      <4>1. j \in 1 .. (Len(before) + Len(behind)) /\ ~(j <= Len(before))
        BY <2>2, <1>1, <1>2
      <4> QED
        BY <4>1, <1>4
    <3> QED
      BY <2>2, <1>1, <1>3, <3>1, <3>2, <3>3
  <2> QED
    BY <2>1, <2>2
<1> QED
  BY <1>1, <1>2, <1>3, <1>4, <1>5

\* A list that holds each element once still does without one of them.
LEMMA RemoveAtInjective ==
  ASSUME NEW S, NEW s \in Seq(S), NEW i \in 1 .. Len(s), IsInjective(s)
  PROVE  IsInjective(RemoveAt(s, i))
<1> DEFINE t == RemoveAt(s, i)
<1>1. /\ t \in Seq(S) /\ Len(t) = Len(s) - 1
      /\ \A j \in 1 .. (Len(s) - 1) : t[j] = IF j < i THEN s[j] ELSE s[j + 1]
  BY RemoveAtFacts
<1>2. DOMAIN t = 1 .. (Len(s) - 1) /\ DOMAIN s = 1 .. Len(s)
  BY <1>1
<1> HIDE DEF t
<1>3. ASSUME NEW j \in 1 .. (Len(s) - 1), NEW k \in 1 .. (Len(s) - 1), t[j] = t[k]
      PROVE  j = k
  <2> DEFINE Old(n) == IF n < i THEN n ELSE n + 1
  <2>1. t[j] = s[Old(j)] /\ t[k] = s[Old(k)]
    BY <1>1
  <2>2. Old(j) \in DOMAIN s /\ Old(k) \in DOMAIN s
    BY <1>2
  <2>3. Old(j) = Old(k)
    <3> HIDE DEF Old
    <3> QED
      BY <1>3, <2>1, <2>2 DEF IsInjective
  <2> QED
    BY <2>3
<1>4. IsInjective(t)
  BY <1>2, <1>3 DEF IsInjective
<1> QED
  BY <1>4 DEF t

\* Nothing is in a list without one of its elements that was not in it before.
LEMMA RemoveAtRange ==
  ASSUME NEW S, NEW s \in Seq(S), NEW i \in 1 .. Len(s)
  PROVE  Range(RemoveAt(s, i)) \subseteq Range(s)
<1>1. /\ RemoveAt(s, i) \in Seq(S) /\ Len(RemoveAt(s, i)) = Len(s) - 1
      /\ \A j \in 1 .. (Len(s) - 1) :
           RemoveAt(s, i)[j] = IF j < i THEN s[j] ELSE s[j + 1]
  BY RemoveAtFacts
<1> QED
  BY <1>1 DEF Range

\* A new element at the end leaves the others where they are.
LEMMA AppendFacts ==
  ASSUME NEW S, NEW s \in Seq(S), NEW e \in S
  PROVE  /\ Append(s, e) \in Seq(S) /\ Len(Append(s, e)) = Len(s) + 1
         /\ DOMAIN Append(s, e) = 1 .. (Len(s) + 1)
         /\ \A i \in 1 .. Len(s) : Append(s, e)[i] = s[i]
         /\ Append(s, e)[Len(s) + 1] = e
OBVIOUS

\* A list that holds each element once still does with a new one at its end.
LEMMA AppendNewInjective ==
  ASSUME NEW S, NEW s \in Seq(S), NEW e \in S, IsInjective(s),
         \A i \in 1 .. Len(s) : s[i] # e
  PROVE  IsInjective(Append(s, e))
BY DEF IsInjective

\* So does one in which a new element is written over an old one.
LEMMA ExceptNewInjective ==
  ASSUME NEW S, NEW s \in Seq(S), NEW e \in S, NEW n \in 1 .. Len(s), IsInjective(s),
         \A i \in 1 .. Len(s) : s[i] # e
  PROVE  IsInjective([s EXCEPT ![n] = e])
BY DEF IsInjective

\* Every set of natural numbers has a least one: among the intervals from 0 up to each of
\* them, one has no other below it.
LEMMA NatSetHasMinimum ==
  ASSUME NEW S \in SUBSET Nat, S # {}
  PROVE  \E n \in S : \A m \in S : n <= m
<1> DEFINE Upto(n) == 0 .. n
           T == {Upto(n) : n \in S}
<1>1. T \subseteq FiniteSubsetsOf(Nat) /\ T # {}
  <2>1. ASSUME NEW n \in S PROVE Upto(n) \in FiniteSubsetsOf(Nat)
    <3>1. n \in Int /\ 0 \in Int /\ Upto(n) \subseteq Nat
      OBVIOUS
    <3>2. IsFiniteSet(Upto(n))
      BY <3>1, FS_Interval
    <3> QED
      BY <3>1, <3>2 DEF FiniteSubsetsOf
  <2> HIDE DEF Upto
  <2> QED
    BY <2>1
<1>2. PICK x \in T : \A y \in T : <<y, x>> \notin StrictSubsetOrdering(Nat)
  <2> HIDE DEF T
  <2> QED
    BY <1>1, WFMin, FS_StrictSubsetOrderingWellFounded
<1>3. PICK n \in S : x = Upto(n)
  OBVIOUS
<1>4. ASSUME NEW m \in S, m < n PROVE FALSE
  <2>1. /\ Upto(m) \subseteq Upto(n) /\ Upto(m) # Upto(n)
        /\ Upto(n) \in SUBSET Nat /\ Upto(m) \in SUBSET Nat
    <3>1. n \in Upto(n) /\ n \notin Upto(m)
      BY <1>4
    <3> QED
      BY <1>4, <3>1
  <2>2. <<Upto(m), Upto(n)>> \in StrictSubsetOrdering(Nat)
    BY <2>1 DEF StrictSubsetOrdering
  <2> QED
    BY <1>2, <1>3, <2>2
<1> QED
  BY <1>4

\* A list of numbers has a place whose number is the greatest, and is the first of those.
LEMMA FirstGreatest ==
  ASSUME NEW s \in Seq(Nat), s # << >>, NEW bound \in Nat, \A i \in DOMAIN s : s[i] <= bound
  PROVE  \E i \in DOMAIN s : \A j \in DOMAIN s : /\ s[j] <= s[i]
                                                 /\ j < i => s[j] < s[i]
<1>1. DOMAIN s = 1 .. Len(s) /\ DOMAIN s # {} /\ \A i \in DOMAIN s : s[i] \in Nat
  BY EmptySeq
<1> DEFINE short == {bound - s[i] : i \in DOMAIN s}
<1>2. short \in SUBSET Nat /\ short # {}
  BY <1>1
<1>3. PICK least \in short : \A m \in short : least <= m
  <2> HIDE DEF short
  <2> QED
    BY <1>2, NatSetHasMinimum
<1>4. PICK g \in DOMAIN s : least = bound - s[g]
  OBVIOUS
<1>5. ASSUME NEW j \in DOMAIN s PROVE s[j] <= s[g]
  <2>1. bound - s[g] <= bound - s[j]
    BY <1>3, <1>4
  <2> QED
    BY <1>1, <2>1
<1> DEFINE greatest == {i \in DOMAIN s : s[i] = s[g]}
<1>6. greatest \in SUBSET Nat /\ greatest # {}
  BY <1>1
<1>7. PICK i \in greatest : \A j \in greatest : i <= j
  <2> HIDE DEF greatest
  <2> QED
    BY <1>6, NatSetHasMinimum
<1>8. ASSUME NEW j \in DOMAIN s PROVE s[j] <= s[i] /\ (j < i => s[j] < s[i])
  BY <1>1, <1>5, <1>7
<1> QED
  BY <1>8

\* A function on the places 1 to n is a list.
LEMMA FunctionIsSeq ==
  ASSUME NEW S, NEW n \in Nat, NEW f \in [1 .. n -> S]
  PROVE  f \in Seq(S) /\ Len(f) = n
OBVIOUS

\* A list that is not empty begins with its first element.
LEMMA HeadIsFirst ==
  ASSUME NEW S, NEW s \in Seq(S), s # << >>
  PROVE  Head(s) = s[1] /\ 1 \in DOMAIN s /\ Head(s) \in S
<1>1. Len(s) \in Nat /\ Len(s) > 0 /\ DOMAIN s = 1 .. Len(s)
  BY EmptySeq, LenProperties
<1> QED
  BY <1>1, HeadTailProperties

----------------------------------------------------------------------------
(* The list without some of its elements. *)

\* One step of Only, given what has been kept so far.
OnlyStep(list, T, kept, n) ==
  IF n = 0 THEN << >>
  ELSE IF list[n] \in T THEN Append(kept[n - 1], list[n]) ELSE kept[n - 1]

\* There is a function that keeps the elements in T up to every place: if there were none
\* up to some place, there would be a first such place, and the function up to the place
\* before it could be extended.
LEMMA OnlyIsDefined ==
  ASSUME NEW list, NEW T, NEW m \in Nat
  PROVE  \E kept : kept = [n \in 0 .. m |-> OnlyStep(list, T, kept, n)]
<1> DEFINE Defined(k) == \E kept : kept = [n \in 0 .. k |-> OnlyStep(list, T, kept, n)]
           without == {k \in Nat : ~Defined(k)}
<1> SUFFICES ASSUME without # {} PROVE FALSE
  OBVIOUS
<1>1. PICK first \in without : \A k \in without : first <= k
  <2>1. without \in SUBSET Nat
    OBVIOUS
  <2> HIDE DEF without
  <2> QED
    BY <2>1, NatSetHasMinimum
<1>2. CASE first = 0
  <2>1. [n \in 0 .. 0 |-> << >>] = [n \in 0 .. 0 |-> OnlyStep(list, T, [k \in 0 .. 0 |-> << >>], n)]
    BY DEF OnlyStep
  <2> QED
    BY <1>1, <1>2, <2>1
<1>3. CASE first # 0
  <2>1. first \in Nat /\ first - 1 \in Nat /\ ~(first <= first - 1)
    BY <1>1, <1>3
  <2>2. first - 1 \notin without
    BY <1>1, <2>1
  <2>3. PICK kept : kept = [n \in 0 .. (first - 1) |-> OnlyStep(list, T, kept, n)]
    BY <2>1, <2>2
  <2> DEFINE more == [n \in 0 .. first |-> IF n = first THEN OnlyStep(list, T, kept, n) ELSE kept[n]]
  <2>4. ASSUME NEW n \in 0 .. first PROVE more[n] = OnlyStep(list, T, more, n)
    <3>1. OnlyStep(list, T, more, n) = OnlyStep(list, T, kept, n)
      BY <2>1 DEF OnlyStep
    <3>2. n # first => kept[n] = OnlyStep(list, T, kept, n)
      BY <2>1, <2>3
    <3> QED
      BY <3>1, <3>2
  <2>5. more = [n \in 0 .. first |-> OnlyStep(list, T, more, n)]
    BY <2>4
  <2> QED
    BY <1>1, <2>5
<1> QED
  BY <1>2, <1>3

\* What stands before, and behind, a place of a list.
Before(list, p) == {list[i] : i \in 1 .. (p - 1)}
After(list, p) == {list[i] : i \in (p + 1) .. Len(list)}

\* The elements in T are kept, each once if the list has each once, and what stands before
\* and behind one of them still does.
OnlyRight(S, list, T, r, m) ==
  /\ r \in Seq(S) /\ IsInjective(r)
  /\ Range(r) = {list[i] : i \in 1 .. m} \cap T
  /\ \A p \in 1 .. m : list[p] \in T =>
       \E q \in DOMAIN r : /\ r[q] = list[p]
                           /\ Before(r, q) = Before(list, p) \cap T
                           /\ After(r, q) = {list[i] : i \in (p + 1) .. m} \cap T

LEMMA OnlyStepRight ==
  ASSUME NEW S, NEW list \in Seq(S), IsInjective(list), NEW T, NEW m \in 1 .. Len(list),
         NEW r, OnlyRight(S, list, T, r, m - 1), list[m] \in T
  PROVE  OnlyRight(S, list, T, Append(r, list[m]), m)
<1> DEFINE e == list[m]
           t == Append(r, e)
<1>1. m \in Nat /\ m >= 1 /\ Len(list) \in Nat /\ m <= Len(list) /\ DOMAIN list = 1 .. Len(list)
  OBVIOUS
<1>2. e \in S /\ r \in Seq(S) /\ Len(r) \in Nat /\ DOMAIN r = 1 .. Len(r) /\ IsInjective(r)
  BY <1>1 DEF OnlyRight
<1>3. /\ t \in Seq(S) /\ Len(t) = Len(r) + 1 /\ DOMAIN t = 1 .. (Len(r) + 1)
      /\ \A i \in 1 .. Len(r) : t[i] = r[i]
      /\ t[Len(r) + 1] = e
  <2> HIDE DEF e
  <2> QED
    BY <1>2, AppendFacts
<1>4. Range(r) = {list[i] : i \in 1 .. (m - 1)} \cap T
  BY DEF OnlyRight
<1>5. \A i \in DOMAIN r : r[i] # e
  <2> SUFFICES ASSUME NEW i \in DOMAIN r, r[i] = e PROVE FALSE
    OBVIOUS
  <2>1. PICK j \in 1 .. (m - 1) : list[j] = e
    BY <1>4 DEF Range
  <2>2. j \in DOMAIN list /\ m \in DOMAIN list /\ j # m
    BY <1>1
  <2> QED
    BY <2>1, <2>2 DEF IsInjective
<1>6. IsInjective(t)
  <2> HIDE DEF e
  <2> QED
    BY <1>2, <1>5, AppendNewInjective
<1>7. 1 .. m = (1 .. (m - 1)) \cup {m} /\ m \notin 1 .. (m - 1)
  BY <1>1
<1>8. Range(t) = {list[i] : i \in 1 .. m} \cap T
  <2>1. Range(t) = Range(r) \cup {e}
    <3> HIDE DEF t
    <3>1. DOMAIN t = DOMAIN r \cup {Len(r) + 1}
      BY <1>2, <1>3
    <3> QED
      BY <1>2, <1>3, <3>1 DEF Range
  <2>2. {list[i] : i \in 1 .. m} = {list[i] : i \in 1 .. (m - 1)} \cup {e}
    BY <1>7
  <2> QED
    BY <1>4, <2>1, <2>2
<1> HIDE DEF t
<1>9. ASSUME NEW p \in 1 .. m, list[p] \in T
      PROVE  \E q \in DOMAIN t : /\ t[q] = list[p]
                                 /\ Before(t, q) = Before(list, p) \cap T
                                 /\ After(t, q) = {list[i] : i \in (p + 1) .. m} \cap T
  <2>1. CASE p = m
    <3> DEFINE q == Len(r) + 1
    <3>1. q \in DOMAIN t /\ t[q] = list[p]
      BY <1>2, <1>3, <2>1
    <3>2. Before(t, q) = Range(r)
      <4>1. q - 1 = Len(r)
        BY <1>2
      <4> QED
        BY <1>2, <1>3, <4>1 DEF Before, Range
    <3>3. Before(list, p) \cap T = Range(r)
      BY <1>4, <2>1 DEF Before
    <3>4. After(t, q) = {}
      <4>1. (q + 1) .. Len(t) = {}
        BY <1>2, <1>3
      <4> QED
        BY <4>1 DEF After
    <3>5. {list[i] : i \in (p + 1) .. m} = {}
      BY <1>1, <2>1
    <3> QED
      BY <3>1, <3>2, <3>3, <3>4, <3>5
  <2>2. CASE p # m
    <3>1. p \in 1 .. (m - 1)
      BY <1>7, <2>2
    <3>2. PICK q \in DOMAIN r : /\ r[q] = list[p]
                                /\ Before(r, q) = Before(list, p) \cap T
                                /\ After(r, q) = {list[i] : i \in (p + 1) .. (m - 1)} \cap T
      BY <1>9, <3>1 DEF OnlyRight
    <3>3. q \in DOMAIN t /\ t[q] = list[p]
      BY <1>2, <1>3, <3>2
    <3>4. Before(t, q) = Before(r, q)
      <4>1. \A i \in 1 .. (q - 1) : t[i] = r[i]
        BY <1>2, <1>3
      <4> QED
        BY <4>1 DEF Before
    <3>5. After(t, q) = After(r, q) \cup {e}
      <4>1. (q + 1) .. Len(t) = ((q + 1) .. Len(r)) \cup {Len(t)} /\ t[Len(t)] = e
        BY <1>2, <1>3
      <4>2. \A i \in (q + 1) .. Len(r) : t[i] = r[i]
        BY <1>2, <1>3
      <4> QED
        BY <4>1, <4>2 DEF After
    <3>6. {list[i] : i \in (p + 1) .. m} = {list[i] : i \in (p + 1) .. (m - 1)} \cup {e}
      <4>1. (p + 1) .. m = ((p + 1) .. (m - 1)) \cup {m}
        BY <1>1, <3>1
      <4> QED
        BY <4>1
    <3> QED
      BY <3>2, <3>3, <3>4, <3>5, <3>6
  <2> QED
    BY <2>1, <2>2
<1> HIDE DEF e
<1> QED
  BY <1>3, <1>6, <1>8, <1>9 DEF OnlyRight, t, e

\* What Only keeps of a list that has each element once.
LEMMA OnlyFacts ==
  ASSUME NEW S, NEW list \in Seq(S), IsInjective(list), NEW T
  PROVE  OnlyRight(S, list, T, Only(list, T), Len(list))
<1> DEFINE kept == CHOOSE f : f = [n \in 0 .. Len(list) |-> OnlyStep(list, T, f, n)]
<1>1. Only(list, T) = kept[Len(list)]
  BY DEF Only, OnlyStep
<1>2. Len(list) \in Nat
  OBVIOUS
<1>3. kept = [n \in 0 .. Len(list) |-> OnlyStep(list, T, kept, n)]
  BY <1>2, OnlyIsDefined
<1> HIDE DEF kept
<1>4. \A n \in 0 .. Len(list) : kept[n] = OnlyStep(list, T, kept, n)
  BY <1>3
<1> DEFINE wrong == {n \in 0 .. Len(list) : ~OnlyRight(S, list, T, kept[n], n)}
<1> SUFFICES ASSUME wrong # {} PROVE FALSE
  BY <1>1, <1>2
<1>5. PICK m \in wrong : \A n \in wrong : m <= n
  <2>1. wrong \in SUBSET Nat
    OBVIOUS
  <2> HIDE DEF wrong
  <2> QED
    BY <2>1, NatSetHasMinimum
<1>6. CASE m = 0
  <2>1. kept[m] = << >>
    BY <1>4, <1>6 DEF OnlyStep
  <2>2. OnlyRight(S, list, T, << >>, 0)
    BY DEF OnlyRight, IsInjective, Range
  <2> QED
    BY <1>6, <2>1, <2>2
<1>7. CASE m # 0
  <2>1. m \in 1 .. Len(list) /\ m - 1 \in 0 .. Len(list) /\ ~(m <= m - 1)
    BY <1>2, <1>7
  <2>2. OnlyRight(S, list, T, kept[m - 1], m - 1)
    BY <1>5, <2>1
  <2>3. CASE list[m] \in T
    <3>1. kept[m] = Append(kept[m - 1], list[m])
      BY <1>4, <1>7, <2>3 DEF OnlyStep
    <3> QED
      BY <2>1, <2>2, <2>3, <3>1, OnlyStepRight
  <2>4. CASE list[m] \notin T
    <3>1. kept[m] = kept[m - 1]
      BY <1>4, <1>7, <2>4 DEF OnlyStep
    <3>2. 1 .. m = (1 .. (m - 1)) \cup {m}
      BY <2>1
    <3>3. {list[i] : i \in 1 .. m} \cap T = {list[i] : i \in 1 .. (m - 1)} \cap T
      BY <2>4, <3>2
    <3>4. ASSUME NEW p \in 1 .. (m - 1)
          PROVE  {list[i] : i \in (p + 1) .. m} \cap T = {list[i] : i \in (p + 1) .. (m - 1)} \cap T
      <4>1. (p + 1) .. m = ((p + 1) .. (m - 1)) \cup {m}
        BY <2>1
      <4> QED
        BY <2>4, <4>1
    <3>5. OnlyRight(S, list, T, kept[m], m)
      BY <2>2, <2>4, <3>1, <3>2, <3>3, <3>4 DEF OnlyRight
    <3> QED
      BY <3>5
  <2> QED
    BY <2>3, <2>4
<1> QED
  BY <1>6, <1>7

----------------------------------------------------------------------------
(* Going up step by step, and totals. *)

\* What is there at 0 and stays with every step up to n is there everywhere: otherwise there
\* would be a first place without it.
LEMMA StepsReach ==
  ASSUME NEW n \in Nat, NEW S, 0 \in S, \A k \in 0 .. (n - 1) : k \in S => k + 1 \in S
  PROVE  0 .. n \subseteq S
<1> DEFINE out == {k \in 0 .. n : k \notin S}
<1> SUFFICES ASSUME out # {} PROVE FALSE
  OBVIOUS
<1>1. PICK m \in out : \A k \in out : m <= k
  <2>1. out \in SUBSET Nat
    OBVIOUS
  <2> HIDE DEF out
  <2> QED
    BY <2>1, NatSetHasMinimum
<1>2. m - 1 \in 0 .. (n - 1) /\ m - 1 \in S
  <2>1. m # 0
    OBVIOUS
  <2>2. m - 1 \in 0 .. (n - 1) /\ ~(m <= m - 1)
    BY <2>1
  <2> QED
    BY <1>1, <2>2
<1>3. (m - 1) + 1 \in S
  BY <1>2
<1> QED
  BY <1>3

\* One step of Total, given the sums so far.
TotalStep(list, sum, n) == IF n = 0 THEN 0 ELSE sum[n - 1] + list[n]

LEMMA TotalIsDefined ==
  ASSUME NEW list, NEW m \in Nat
  PROVE  \E sum : sum = [n \in 0 .. m |-> TotalStep(list, sum, n)]
<1> DEFINE Defined(k) == \E sum : sum = [n \in 0 .. k |-> TotalStep(list, sum, n)]
           S == {k \in 0 .. m : Defined(k)}
<1>1. 0 \in S
  <2>1. [n \in 0 .. 0 |-> 0] = [n \in 0 .. 0 |-> TotalStep(list, [k \in 0 .. 0 |-> 0], n)]
    BY DEF TotalStep
  <2> QED
    BY <2>1
<1>2. ASSUME NEW k \in 0 .. (m - 1), k \in S PROVE k + 1 \in S
  <2>1. PICK sum : sum = [n \in 0 .. k |-> TotalStep(list, sum, n)]
    BY <1>2
  <2> DEFINE more == [n \in 0 .. (k + 1) |->
                        IF n = k + 1 THEN TotalStep(list, sum, n) ELSE sum[n]]
  <2>2. ASSUME NEW n \in 0 .. (k + 1) PROVE more[n] = TotalStep(list, more, n)
    <3>1. TotalStep(list, more, n) = TotalStep(list, sum, n)
      BY DEF TotalStep
    <3>2. n # k + 1 => sum[n] = TotalStep(list, sum, n)
      <4>1. n # k + 1 => n \in 0 .. k
        OBVIOUS
      <4> QED
        BY <2>1, <4>1
    <3> QED
      BY <3>1, <3>2
  <2>3. more = [n \in 0 .. (k + 1) |-> TotalStep(list, more, n)]
    BY <2>2
  <2> HIDE DEF more
  <2>4. Defined(k + 1) /\ k + 1 \in 0 .. m
    BY <2>3
  <2> QED
    BY <2>4
<1>3. 0 .. m \subseteq S
  <2> HIDE DEF S
  <2> QED
    BY <1>1, <1>2, StepsReach
<1> QED
  BY <1>3

\* A total is made of the one before it and one more number.
LEMMA TotalFacts ==
  ASSUME NEW list \in Seq(Int)
  PROVE  /\ Total(list, 0) = 0
         /\ \A n \in 1 .. Len(list) : Total(list, n) = Total(list, n - 1) + list[n]
         /\ \A n \in 0 .. Len(list) : Total(list, n) \in Int
<1> DEFINE sum == CHOOSE f : f = [n \in 0 .. Len(list) |-> TotalStep(list, f, n)]
           S == {n \in 0 .. Len(list) : sum[n] \in Int}
<1>1. \A n : Total(list, n) = sum[n]
  BY DEF Total, TotalStep
<1>2. Len(list) \in Nat
  OBVIOUS
<1>3. sum = [n \in 0 .. Len(list) |-> TotalStep(list, sum, n)]
  BY <1>2, TotalIsDefined
<1> HIDE DEF sum
<1>4. \A n \in 0 .. Len(list) : sum[n] = TotalStep(list, sum, n)
  BY <1>3
<1>5. sum[0] = 0 /\ \A n \in 1 .. Len(list) : sum[n] = sum[n - 1] + list[n]
  BY <1>2, <1>4 DEF TotalStep
<1>6. 0 .. Len(list) \subseteq S
  <2>1. 0 \in S
    BY <1>2, <1>5
  <2>2. ASSUME NEW k \in 0 .. (Len(list) - 1), k \in S PROVE k + 1 \in S
    <3>1. k + 1 \in 1 .. Len(list) /\ (k + 1) - 1 = k
      BY <1>2
    <3>2. sum[k + 1] = sum[k] + list[k + 1] /\ list[k + 1] \in Int /\ sum[k] \in Int
      BY <1>5, <2>2, <3>1
    <3> QED
      BY <3>1, <3>2
  <2> HIDE DEF S
  <2> QED
    BY <1>2, <2>1, <2>2, StepsReach
<1> QED
  BY <1>1, <1>5, <1>6

\* Lists of numbers that begin alike have the same totals there.
LEMMA TotalsAgree ==
  ASSUME NEW a \in Seq(Int), NEW b \in Seq(Int), NEW m \in Nat, m <= Len(a), m <= Len(b),
         \A i \in 1 .. m : a[i] = b[i]
  PROVE  Total(a, m) = Total(b, m)
<1> DEFINE S == {k \in 0 .. m : Total(a, k) = Total(b, k)}
<1>1. 0 \in S
  BY TotalFacts
<1>2. ASSUME NEW k \in 0 .. (m - 1), k \in S PROVE k + 1 \in S
  <2>1. /\ k + 1 \in 1 .. m /\ k + 1 \in 1 .. Len(a) /\ k + 1 \in 1 .. Len(b)
        /\ (k + 1) - 1 = k /\ k + 1 \in 0 .. m
    OBVIOUS
  <2>2. Total(a, k + 1) = Total(a, k) + a[k + 1] /\ Total(b, k + 1) = Total(b, k) + b[k + 1]
    BY <2>1, TotalFacts
  <2>3. Total(a, k) = Total(b, k) /\ a[k + 1] = b[k + 1]
    BY <1>2, <2>1
  <2> QED
    BY <2>1, <2>2, <2>3
<1>3. 0 .. m \subseteq S
  <2> HIDE DEF S
  <2> QED
    BY <1>1, <1>2, StepsReach
<1> QED
  BY <1>3

----------------------------------------------------------------------------
(* Lists put together. *)

\* The entries before one of a list and behind it.
LEMMA BothSides ==
  ASSUME NEW S, NEW s \in Seq(S), NEW k \in 1 .. Len(s)
  PROVE  /\ SubSeq(s, 1, k - 1) \in Seq(S) /\ Len(SubSeq(s, 1, k - 1)) = k - 1
         /\ \A i \in 1 .. k - 1 : SubSeq(s, 1, k - 1)[i] = s[i]
         /\ SubSeq(s, k + 1, Len(s)) \in Seq(S) /\ Len(SubSeq(s, k + 1, Len(s))) = Len(s) - k
         /\ \A i \in 1 .. Len(s) - k : SubSeq(s, k + 1, Len(s))[i] = s[k + i]
<1>1. /\ SubSeq(s, 1, k - 1) \in Seq(S) /\ Len(SubSeq(s, 1, k - 1)) = k - 1
      /\ \A i \in 1 .. k - 1 : SubSeq(s, 1, k - 1)[i] = s[i]
  OBVIOUS
<1>2. /\ SubSeq(s, k + 1, Len(s)) \in Seq(S) /\ Len(SubSeq(s, k + 1, Len(s))) = Len(s) - k
      /\ \A i \in 1 .. Len(s) - k : SubSeq(s, k + 1, Len(s))[i] = s[k + i]
  OBVIOUS
<1> QED
  BY <1>1, <1>2

\* Lists of an element, or of none, one behind the other.
LEMMA ShortLists ==
  ASSUME NEW S
  PROVE  /\ \A u, v \in S : << >> \o <<u>> \o <<v>> = <<u, v>> /\ <<u>> \o <<v>> \o << >> = <<u, v>>
         /\ \A u, v, w \in S : <<u>> \o <<v>> \o <<w>> = <<u, v, w>>
<1>1. ASSUME NEW u \in S, NEW v \in S PROVE <<u>> \o <<v>> = <<u, v>>
  <2>1. /\ <<u>> \in Seq(S) /\ Len(<<u>>) = 1 /\ <<u>>[1] = u
        /\ <<v>> \in Seq(S) /\ Len(<<v>>) = 1 /\ <<v>>[1] = v
        /\ <<u, v>> \in Seq(S) /\ Len(<<u, v>>) = 2 /\ <<u, v>>[1] = u /\ <<u, v>>[2] = v
    OBVIOUS
  <2> DEFINE l == <<u>>
             r == <<v>>
             both == <<u, v>>
             all == l \o r
  <2>2. /\ all \in Seq(S) /\ Len(all) = Len(l) + Len(r)
        /\ \A i \in 1 .. Len(l) + Len(r) : all[i] = IF i <= Len(l) THEN l[i] ELSE r[i - Len(l)]
    BY <2>1, ConcatProperties, Zenon
  <2> HIDE DEF l, r, both, all
  <2>3. all = both
    <3>1. Len(all) = 2 /\ all[1] = u /\ all[2] = v
      BY <2>1, <2>2 DEF l, r
    <3>2. \A i \in 1 .. Len(all) : i = 1 \/ i = 2
      BY <3>1
    <3> QED
      BY <2>1, <2>2, <3>1, <3>2, SeqEqual DEF both
  <2> QED
    BY <2>3 DEF l, r, both, all
<1>2. ASSUME NEW u \in S, NEW v \in S
      PROVE  << >> \o <<u>> = <<u>> /\ <<u, v>> \o << >> = <<u, v>>
  <2>1. <<u>> \in Seq(S) /\ <<u, v>> \in Seq(S)
    OBVIOUS
  <2> QED
    BY <2>1, ConcatEmptySeq, Zenon
<1>3. ASSUME NEW u \in S, NEW v \in S, NEW w \in S PROVE <<u, v>> \o <<w>> = <<u, v, w>>
  <2>1. /\ <<u, v>> \in Seq(S) /\ Len(<<u, v>>) = 2 /\ <<u, v>>[1] = u /\ <<u, v>>[2] = v
        /\ <<w>> \in Seq(S) /\ Len(<<w>>) = 1 /\ <<w>>[1] = w
    OBVIOUS
  <2>2. /\ <<u, v, w>> \in Seq(S) /\ Len(<<u, v, w>>) = 3
        /\ <<u, v, w>>[1] = u /\ <<u, v, w>>[2] = v /\ <<u, v, w>>[3] = w
    OBVIOUS
  <2> DEFINE l == <<u, v>>
             r == <<w>>
             three == <<u, v, w>>
             all == l \o r
  <2>3. /\ all \in Seq(S) /\ Len(all) = Len(l) + Len(r)
        /\ \A i \in 1 .. Len(l) + Len(r) : all[i] = IF i <= Len(l) THEN l[i] ELSE r[i - Len(l)]
    BY <2>1, ConcatProperties, Zenon
  <2> HIDE DEF l, r, three, all
  <2>4. all = three
    <3>1. Len(all) = 3 /\ all[1] = u /\ all[2] = v /\ all[3] = w
      BY <2>1, <2>3 DEF l, r
    <3>2. \A i \in 1 .. Len(all) : i = 1 \/ i = 2 \/ i = 3
      BY <3>1
    <3> QED
      BY <2>2, <2>3, <3>1, <3>2, SeqEqual DEF three
  <2> QED
    BY <2>4 DEF l, r, three, all
<1>4. ASSUME NEW u \in S, NEW v \in S
      PROVE  << >> \o <<u>> \o <<v>> = <<u, v>> /\ <<u>> \o <<v>> \o << >> = <<u, v>>
  <2>1. << >> \o <<u>> = <<u>> /\ <<u>> \o <<v>> = <<u, v>> /\ <<u, v>> \o << >> = <<u, v>>
    BY <1>1, <1>2
  <2> QED
    BY <2>1, Zenon
<1>5. ASSUME NEW u \in S, NEW v \in S, NEW w \in S PROVE <<u>> \o <<v>> \o <<w>> = <<u, v, w>>
  <2>1. <<u>> \o <<v>> = <<u, v>> /\ <<u, v>> \o <<w>> = <<u, v, w>>
    BY <1>1, <1>3
  <2> QED
    BY <2>1, Zenon
<1> QED
  BY <1>4, <1>5, Zenon
=============================================================================
