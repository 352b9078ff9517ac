------------------------ MODULE BootVariablesProofs ------------------------
(***************************************************************************)
(* Proofs about the boot options that are copied back to the firmware, for *)
(* every set of options, every size of the map and of the buffers: no      *)
(* option is named twice, the firmware's own options survive, and an       *)
(* option that an operating system adds is offered by the firmware.        *)
(***************************************************************************)
EXTENDS BootVariables, SequenceLemmas

\* The inductive invariant.  That nothing is named twice is not inductive alone: a copy
\* is appended without a look at the firmware's BootOrder, so it must be known that a
\* number that waits in the map is not listed yet.
WaitingUnlisted ==
  \A i \in Index : mOcBootOrderMap[i] # -1 => OC_GL_BOOT_OPTION_START + i \notin Range(efi.order)

IInv == NamedOnce /\ WaitingUnlisted

\* What the loop over the map finds is inside the map.
LEMMA FirstInSet == \A S : First(S) \subseteq S
  BY DEF First

\* A place is either free and not listed, or the one of the option itself.
LEMMA CandidateFacts ==
  ASSUME IInv, NEW n \in Num, NEW i \in First(Candidates(n))
  PROVE  /\ i \in Index
         /\ OC_GL_BOOT_OPTION_START + i \notin Range(efi.order)
         /\ \A j \in Index : mOcBootOrderMap[j] = n => j = i
<1>1. i \in Candidates(n)
  BY FirstInSet
<1>2. n # -1
  BY BootVariablesAssumption
<1>3. CASE IndicesOf(n) # {}
  BY <1>1, <1>2, <1>3 DEF Candidates, IndicesOf, IInv, NamedOnce, WaitingUnlisted
<1>4. CASE IndicesOf(n) = {}
  BY <1>1, <1>4 DEF Candidates, IndicesOf, FreeIndices
<1> QED
  BY <1>3, <1>4

\* Numbers are natural, so none looks like a free place of the map.
LEMMA NumberFacts == Number \subseteq Nat /\ -1 \notin Number /\ Slot \subseteq Number
<1>1. Slot \subseteq Nat
  BY BootVariablesAssumption DEF Slot, Index
<1> QED
  BY <1>1, BootVariablesAssumption DEF Number

\* What waits for a number is in the map, and its copy is not listed.
LEMMA PendingFacts ==
  ASSUME IInv, NEW new \in Seq(Number), NEW old, NEW i \in Pending(new, old)
  PROVE  /\ i \in Index
         /\ OC_GL_BOOT_OPTION_START + i \in Slot
         /\ OC_GL_BOOT_OPTION_START + i \notin Range(efi.order)
<1>1. i \in Index /\ mOcBootOrderMap[i] \in Added(new, old)
  BY FirstInSet DEF Pending
<1>2. Added(new, old) \subseteq Number
  <2>1. \A j \in DOMAIN new : new[j] \in Number
    OBVIOUS
  <2>2. First({k \in DOMAIN new : new[k] \notin Range(old)}) \subseteq DOMAIN new
    BY FirstInSet
  <2> QED
    BY <2>1, <2>2 DEF Added
<1> QED
  BY <1>1, <1>2, NumberFacts DEF IInv, WaitingUnlisted, Slot

\* What an operating system, or the setup, may make of a BootOrder.
LEMMA ArrangementFacts ==
  ASSUME NEW S \in SUBSET Number, NEW length \in Nat, NEW s \in Arrangements(S, length)
  PROVE  s \in Seq(Number) /\ IsInjective(s) /\ Range(s) \subseteq S
<1>1. PICK k \in 0 .. length : s \in [1 .. k -> S]
  BY DEF Arrangements
<1>2. IsInjective(s)
  BY DEF Arrangements
<1>3. Range(s) \subseteq S
  BY <1>1 DEF Range
<1>4. s \in Seq(Number)
  BY <1>1
<1> QED
  BY <1>2, <1>3, <1>4

\* A number that is not listed may be appended.
LEMMA UnlistedAppend ==
  ASSUME NEW s \in Seq(Number), NEW x \in Number, x \notin Range(s), IsInjective(s)
  PROVE  /\ Append(s, x) \in Seq(Number) /\ IsInjective(Append(s, x))
         /\ Range(Append(s, x)) = Range(s) \cup {x}
<1>1. /\ Append(s, x) \in Seq(Number) /\ DOMAIN Append(s, x) = 1 .. (Len(s) + 1)
      /\ DOMAIN s = 1 .. Len(s) /\ Len(s) \in Nat
      /\ Append(s, x)[Len(s) + 1] = x
      /\ \A j \in 1 .. Len(s) : Append(s, x)[j] = s[j]
  OBVIOUS
<1>2. \A j \in 1 .. Len(s) : s[j] # x
  BY <1>1 DEF Range
<1>3. IsInjective(Append(s, x))
  BY <1>1, <1>2 DEF IsInjective
<1>4. Range(Append(s, x)) = Range(s) \cup {x}
  BY <1>1 DEF Range
<1> QED
  BY <1>1, <1>3, <1>4

----------------------------------------------------------------------------
(***************************************************************************)
(* The inductive invariant in parts, so that a step says which it touches. *)
(***************************************************************************)
Scalars == {redirect, fallback, protect} \subseteq BOOLEAN /\ copied \subseteq Num /\ calls \in 0 .. MaxCalls

Stored(v) == v.order \in Seq(Number) /\ v.option \in [Number -> Path \cup {NoOption}]

Mapped(m) ==
  /\ m \in [Index -> Num \cup {-1}]
  /\ \A i, j \in Index : m[i] = m[j] /\ m[i] # -1 => i = j

Unlisted(m, v) ==
  IsInjective(v.order) /\ \A i \in Index : m[i] # -1 => OC_GL_BOOT_OPTION_START + i \notin Range(v.order)

Parts == Scalars /\ Stored(efi) /\ Stored(oc) /\ Mapped(mOcBootOrderMap) /\ Unlisted(mOcBootOrderMap, efi)

LEMMA PartsAreIInv == Parts <=> IInv
  BY DEF Parts, Scalars, Stored, Mapped, Unlisted, IInv, NamedOnce, TypeOK, WaitingUnlisted

LEMMA InitParts == Init => Parts
<1> SUFFICES ASSUME Init PROVE Parts
  OBVIOUS
<1>1. Stored(NoBoot)
  BY DEF NoBoot, Stored
<1>2. Scalars
  <2>1. {redirect, fallback, protect} \subseteq BOOLEAN
    BY DEF Init
  <2>2. calls \in 0 .. MaxCalls /\ copied \subseteq Num
    BY BootVariablesAssumption DEF Init
  <2> QED
    BY <2>1, <2>2 DEF Scalars
<1>3. Mapped(NotMapped)
  BY DEF NotMapped, Mapped
<1>4. Unlisted(NotMapped, NoBoot)
  BY DEF Unlisted, NotMapped, NoBoot, IsInjective
<1> QED
  BY <1>1, <1>2, <1>3, <1>4 DEF Init, Parts

LEMMA RestartKeepsParts == Parts /\ Restart => Parts'
<1> SUFFICES ASSUME Parts, Restart PROVE Parts'
  OBVIOUS
<1>1. PICK order \in Arrangements(Range(efi.order), Len(efi.order)) :
        efi' = [efi EXCEPT !.order = order]
  BY DEF Restart
<1>2. efi.order \in Seq(Number)
  BY DEF Parts, Stored
<1>3. Range(efi.order) \in SUBSET Number /\ Len(efi.order) \in Nat
  BY <1>2 DEF Range
<1>4. order \in Seq(Number) /\ IsInjective(order)
  BY <1>3, ArrangementFacts
<1>5. Stored(efi') /\ IsInjective(efi'.order)
  BY <1>1, <1>4 DEF Parts, Stored
<1>6. Mapped(NotMapped) /\ Unlisted(NotMapped, efi')
  BY <1>5 DEF Mapped, Unlisted, NotMapped
<1> QED
  BY <1>5, <1>6 DEF Parts, Scalars, Restart, Stored

LEMMA DeleteKeepsParts == Parts /\ OcDeleteVariables => Parts'
<1> SUFFICES ASSUME Parts, OcDeleteVariables PROVE Parts'
  OBVIOUS
<1>1. Stored(NoBoot) /\ Unlisted(mOcBootOrderMap, NoBoot)
  BY DEF Stored, Unlisted, NoBoot, IsInjective, Range
<1> QED
  BY <1>1 DEF Parts, Scalars, OcDeleteVariables, config

LEMMA SetMainKeepsParts ==
  ASSUME NEW r \in BOOLEAN, NEW f \in BOOLEAN, NEW p \in BOOLEAN, Parts, SetMain(r, f, p)
  PROVE  Parts'
<1>1. {redirect', fallback', protect'} \subseteq BOOLEAN
  BY DEF SetMain
<1>2. copied' \subseteq Num /\ calls' \in 0 .. MaxCalls
  BY DEF SetMain, Parts, Scalars
<1> QED
  BY <1>1, <1>2 DEF Parts, Scalars, SetMain

\* A copy goes to a place whose number is not listed: nothing the firmware's BootOrder
\* names is overwritten.
LEMMA CopyKeepsParts ==
  ASSUME Parts, NEW n \in Num, NEW path \in Path, NEW stored \in BOOLEAN,
         HandleBootEntryFallback(n, path, stored)
  PROVE  /\ Stored(efi') /\ Mapped(mOcBootOrderMap') /\ Unlisted(mOcBootOrderMap', efi')
         /\ copied' \subseteq Num
         /\ efi'.order = efi.order
         /\ \A m \in Num \cup Range(efi.order) : efi'.option[m] = efi.option[m]
<1>1. copied' \subseteq Num
  BY DEF HandleBootEntryFallback, Parts, Scalars
<1>2. CASE UNCHANGED <<efi, mOcBootOrderMap>>
  BY <1>1, <1>2 DEF Parts
<1>3. CASE \E i \in First(Candidates(n)) :
             /\ mOcBootOrderMap' = [mOcBootOrderMap EXCEPT ![i] = n]
             /\ efi' = IF stored THEN [efi EXCEPT !.option[OC_GL_BOOT_OPTION_START + i] = path]
                       ELSE efi
  <2>1. PICK i \in First(Candidates(n)) :
             /\ mOcBootOrderMap' = [mOcBootOrderMap EXCEPT ![i] = n]
             /\ efi' = IF stored THEN [efi EXCEPT !.option[OC_GL_BOOT_OPTION_START + i] = path]
                       ELSE efi
    BY <1>3
  <2> DEFINE s == OC_GL_BOOT_OPTION_START + i
  <2>2. /\ i \in Index /\ s \notin Range(efi.order)
        /\ \A j \in Index : mOcBootOrderMap[j] = n => j = i
    BY CandidateFacts, PartsAreIInv
  <2>3. s \in Slot /\ s \in Number /\ s \notin Num
    BY <2>2, NumberFacts, BootVariablesAssumption DEF Slot
  <2>4. Mapped(mOcBootOrderMap')
    BY <2>1, <2>2, BootVariablesAssumption DEF Parts, Mapped
  <2>5. /\ efi'.order = efi.order
        /\ efi'.option \in [Number -> Path \cup {NoOption}]
        /\ \A m \in Number : m # s => efi'.option[m] = efi.option[m]
    BY <2>1, <2>3 DEF Parts, Stored
  <2>6. Unlisted(mOcBootOrderMap', efi')
    BY <2>1, <2>2, <2>5 DEF Parts, Mapped, Unlisted
  <2>7. Num \cup Range(efi.order) \subseteq Number
    BY DEF Parts, Stored, Number, Range
  <2>8. Stored(efi')
    BY <2>5 DEF Parts, Stored
  <2> QED
    BY <1>1, <2>2, <2>3, <2>4, <2>5, <2>6, <2>7, <2>8
<1> QED
  BY <1>2, <1>3 DEF HandleBootEntryFallback

\* The number that is appended was not listed, and it does not wait any more.
LEMMA AppendKeepsParts ==
  ASSUME Parts, NEW new \in Seq(Number), NEW old, NEW stored \in BOOLEAN,
         HandleBootOrderFallback(new, old, stored)
  PROVE  /\ Stored(efi') /\ Mapped(mOcBootOrderMap') /\ Unlisted(mOcBootOrderMap', efi')
         /\ copied' \subseteq Num
         /\ efi'.order = efi.order \/ \E s \in Slot : efi'.order = Append(efi.order, s)
         /\ efi'.option = efi.option
<1>1. copied' \subseteq Num
  BY DEF HandleBootOrderFallback, Parts, Scalars
<1>2. /\ mOcBootOrderMap' \in [Index -> Num \cup {-1}]
      /\ \A j \in Index : \/ mOcBootOrderMap'[j] = -1
                          \/ j \notin Pending(new, old) /\ mOcBootOrderMap'[j] = mOcBootOrderMap[j]
  BY DEF HandleBootOrderFallback, Parts, Mapped
<1>3. Mapped(mOcBootOrderMap')
  BY <1>2 DEF Parts, Mapped
<1>4. CASE UNCHANGED efi
  BY <1>1, <1>2, <1>3, <1>4 DEF Parts, Unlisted
<1>5. CASE \E i \in Pending(new, old) :
             efi' = [efi EXCEPT !.order = Append(@, OC_GL_BOOT_OPTION_START + i)]
  <2>1. PICK i \in Pending(new, old) :
             efi' = [efi EXCEPT !.order = Append(@, OC_GL_BOOT_OPTION_START + i)]
    BY <1>5
  <2> DEFINE s == OC_GL_BOOT_OPTION_START + i
  <2>2. i \in Index /\ s \in Slot /\ s \in Number /\ s \notin Range(efi.order)
    BY PendingFacts, PartsAreIInv, NumberFacts
  <2>3. /\ efi.order \in Seq(Number) /\ IsInjective(efi.order)
        /\ efi'.order = Append(efi.order, s) /\ efi'.option = efi.option
        /\ efi'.option \in [Number -> Path \cup {NoOption}]
    BY <2>1 DEF Parts, Stored, Unlisted
  <2>4. /\ Append(efi.order, s) \in Seq(Number) /\ IsInjective(Append(efi.order, s))
        /\ Range(Append(efi.order, s)) = Range(efi.order) \cup {s}
    BY <2>2, <2>3, UnlistedAppend
  <2>5. \A j \in Index : mOcBootOrderMap'[j] # -1 => OC_GL_BOOT_OPTION_START + j # s
    BY <1>2, <2>1, <2>2, BootVariablesAssumption DEF Index
  <2>6. Unlisted(mOcBootOrderMap', efi')
    BY <1>2, <2>3, <2>4, <2>5 DEF Parts, Unlisted
  <2> QED
    BY <1>1, <1>3, <2>2, <2>3, <2>4, <2>6 DEF Stored
<1> QED
  BY <1>4, <1>5 DEF HandleBootOrderFallback

\* Writing an option never changes the firmware's BootOrder, listed or waiting.
LEMMA SetBootOptionFacts ==
  ASSUME Parts, NEW n \in Num, NEW path \in Path \cup {NoOption},
         NEW nonVolatile \in BOOLEAN, NEW stored \in BOOLEAN,
         SetBootOption(n, path, nonVolatile, stored)
  PROVE  /\ Stored(efi') /\ Stored(oc')
         /\ Mapped(mOcBootOrderMap') /\ Unlisted(mOcBootOrderMap', efi')
         /\ copied' \subseteq Num /\ UNCHANGED config
         /\ redirect => /\ efi'.order = efi.order
                        /\ \A m \in Num \cup Range(efi.order) : efi'.option[m] = efi.option[m]
<1>1. UNCHANGED config
  BY DEF SetBootOption
<1>2. n \in Number
  BY DEF Number
<1>3. CASE redirect
  <2>1. Stored(oc')
    <3>1. oc' = [oc EXCEPT !.option[n] = path]
      BY <1>3 DEF SetBootOption
    <3> QED
      BY <1>2, <3>1 DEF Parts, Stored
  <2>2. CASE path # NoOption /\ HandleBootEntryFallback(n, path, stored)
    BY <1>1, <2>1, <2>2, CopyKeepsParts
  <2>3. CASE copied' = copied \ {n} /\ UNCHANGED <<efi, mOcBootOrderMap>>
    BY <1>1, <2>1, <2>3 DEF Parts, Scalars
  <2> QED
    BY <1>3, <2>2, <2>3 DEF SetBootOption
<1>4. CASE ~redirect
  <2>1. efi' = [efi EXCEPT !.option[n] = path] /\ UNCHANGED <<oc, mOcBootOrderMap, copied>>
    BY <1>4 DEF SetBootOption
  <2>2. Stored(efi') /\ efi'.order = efi.order
    BY <1>2, <2>1 DEF Parts, Stored
  <2> QED
    BY <1>1, <1>4, <2>1, <2>2 DEF Parts, Scalars, Unlisted
<1> QED
  BY <1>3, <1>4

\* Writing a BootOrder changes no option, and appends at most one number.
LEMMA SetBootOrderFacts ==
  ASSUME Parts, NEW new \in Orders(Seen),
         NEW nonVolatile \in BOOLEAN, NEW stored \in BOOLEAN,
         SetBootOrder(new, nonVolatile, stored)
  PROVE  /\ Stored(efi') /\ Stored(oc')
         /\ Mapped(mOcBootOrderMap') /\ Unlisted(mOcBootOrderMap', efi')
         /\ copied' \subseteq Num /\ UNCHANGED config
         /\ redirect => /\ \/ efi'.order = efi.order
                           \/ \E s \in Slot : efi'.order = Append(efi.order, s)
                        /\ efi'.option = efi.option
<1>1. UNCHANGED config
  BY DEF SetBootOrder
<1>2. Seen \in Seq(Number)
  BY DEF Seen, Parts, Stored
<1>3. Num \cup Range(Seen) \in SUBSET Number
  BY <1>2 DEF Range, Number
<1>4. new \in Seq(Number) /\ IsInjective(new) /\ Range(new) \subseteq Num \cup Range(Seen)
  BY <1>3, ArrangementFacts, BootVariablesAssumption DEF Orders
<1>5. CASE redirect
  <2>1. Stored(oc')
    <3>1. oc' = [oc EXCEPT !.order = new]
      BY <1>5 DEF SetBootOrder
    <3> QED
      BY <1>4, <3>1 DEF Parts, Stored
  <2>2. CASE HandleBootOrderFallback(new, oc.order, stored)
    BY <1>1, <1>4, <2>1, <2>2, AppendKeepsParts
  <2>3. CASE UNCHANGED <<efi, mOcBootOrderMap, copied>>
    BY <1>1, <2>1, <2>3 DEF Parts, Scalars
  <2> QED
    BY <1>5, <2>2, <2>3 DEF SetBootOrder
<1>6. CASE ~redirect
  <2>1. efi' = [efi EXCEPT !.order = new] /\ UNCHANGED <<oc, mOcBootOrderMap, copied>>
    BY <1>6 DEF SetBootOrder
  <2>2. Stored(efi') /\ efi'.order = new
    BY <1>4, <2>1 DEF Parts, Stored
  <2>3. Range(new) \subseteq Num \cup Range(efi.order)
    BY <1>4, <1>6 DEF Seen
  <2>4. \A i \in Index : mOcBootOrderMap[i] # -1 => OC_GL_BOOT_OPTION_START + i \notin Range(new)
    BY <2>3, BootVariablesAssumption DEF Parts, Unlisted, Slot
  <2> QED
    BY <1>1, <1>4, <1>6, <2>1, <2>2, <2>4 DEF Parts, Scalars, Unlisted
<1> QED
  BY <1>5, <1>6

LEMMA SetVariableKeepsParts == Parts /\ SetVariable => Parts'
<1> SUFFICES ASSUME Parts, SetVariable PROVE Parts'
  OBVIOUS
<1>1. calls' \in 0 .. MaxCalls
  BY BootVariablesAssumption DEF SetVariable, Parts, Scalars
<1>2. SUFFICES /\ Stored(efi') /\ Stored(oc')
               /\ Mapped(mOcBootOrderMap') /\ Unlisted(mOcBootOrderMap', efi')
               /\ copied' \subseteq Num /\ UNCHANGED config
  BY <1>1 DEF Parts, Scalars, config
<1> QED
  BY SetBootOptionFacts, SetBootOrderFacts DEF SetVariable

LEMMA NextKeepsParts == Parts /\ [Next]_vars => Parts'
<1> SUFFICES ASSUME Parts, [Next]_vars PROVE Parts'
  OBVIOUS
<1>1. CASE Restart
  BY <1>1, RestartKeepsParts
<1>2. CASE OcDeleteVariables
  BY <1>2, DeleteKeepsParts
<1>3. CASE SetVariable
  BY <1>3, SetVariableKeepsParts
<1>4. CASE \E r, f, p \in BOOLEAN : SetMain(r, f, p)
  BY <1>4, SetMainKeepsParts
<1>5. CASE UNCHANGED vars
  BY <1>5 DEF vars, Parts, Scalars
<1> QED
  BY <1>1, <1>2, <1>3, <1>4, <1>5 DEF Next

LEMMA PartsAlways == Spec => []Parts
  BY InitParts, NextKeepsParts, PTL DEF Spec

\* Whatever is written, restarted, moved in the setup or deleted, in whatever order: the
\* firmware's BootOrder names no option twice and no option waits in two places of
\* mOcBootOrderMap (UefiRuntimeServices.c:588-646, 850-879).
THEOREM NothingNamedTwice == Spec => []NamedOnce
<1>1. Parts => NamedOnce
  BY PartsAreIInv DEF IInv
<1> QED
  BY <1>1, PartsAlways, PTL

\* While options are redirected no call of SetVariable overwrites an option of the
\* firmware, and its BootOrder only grows, by one copy (UefiRuntimeServices.c:846-891).
THEOREM FirmwareOptionsSurvive == Spec => FirmwareOptionsKept
<1>1. Parts /\ SetVariable /\ redirect =>
        /\ efi'.order = efi.order \/ \E s \in Slot : efi'.order = Append(efi.order, s)
        /\ \A n \in Num \cup Range(efi.order) : efi'.option[n] = efi.option[n]
  BY SetBootOptionFacts, SetBootOrderFacts DEF SetVariable
<1> QED
  BY <1>1, PartsAlways, PTL DEF Spec, FirmwareOptionsKept
----------------------------------------------------------------------------
(***************************************************************************)
(* An option whose copy the firmware has is listed by it, or the copy waits*)
(* in the map for the option's number to be added.                         *)
(***************************************************************************)
Listed(v, path) == \E m \in Range(v.order) : v.option[m] = path
Waits(v, map, n, path) ==
  \E i \in Index : map[i] = n /\ v.option[OC_GL_BOOT_OPTION_START + i] = path

CopiesOffered(S, v, map, option) ==
  \A n \in S : Listed(v, option[n]) \/ Waits(v, map, n, option[n])

CopiesAreThere ==
  /\ copied # {} => redirect
  /\ CopiesOffered(copied, efi, mOcBootOrderMap, oc.option)

\* What is listed stays listed while its options and those of the rest stay.
LEMMA CopyOfOption ==
  ASSUME Parts, CopiesAreThere, NEW n \in Num, NEW path \in Path, NEW stored \in BOOLEAN,
         HandleBootEntryFallback(n, path, stored), oc' = [oc EXCEPT !.option[n] = path]
  PROVE  CopiesOffered(copied', efi', mOcBootOrderMap', oc'.option)
<1> SUFFICES ASSUME NEW k \in copied'
             PROVE  \/ Listed(efi', oc'.option[k])
                    \/ Waits(efi', mOcBootOrderMap', k, oc'.option[k])
  BY DEF CopiesOffered
<1>1. /\ \A m \in Number : oc'.option[m] = IF m = n THEN path ELSE oc.option[m]
      /\ n \in Number /\ k \in Num /\ k \in Number
  <2>1. copied' \subseteq Num
    BY CopyKeepsParts
  <2> QED
    BY <2>1, NumberFacts DEF Parts, Stored, Number
<1>2. /\ efi'.order = efi.order
      /\ \A m \in Range(efi.order) : efi'.option[m] = efi.option[m]
  BY CopyKeepsParts
<1>3. \A p : Listed(efi, p) => Listed(efi', p)
  BY <1>2 DEF Listed
<1>4. CASE /\ NeedsCopy(path)
           /\ \E i \in First(Candidates(n)) :
                /\ mOcBootOrderMap' = [mOcBootOrderMap EXCEPT ![i] = n]
                /\ efi' = IF stored THEN [efi EXCEPT !.option[OC_GL_BOOT_OPTION_START + i] = path]
                          ELSE efi
           /\ copied' = IF stored THEN copied \cup {n} ELSE copied \ {n}
  <2>1. PICK i \in First(Candidates(n)) :
             /\ mOcBootOrderMap' = [mOcBootOrderMap EXCEPT ![i] = n]
             /\ efi' = IF stored THEN [efi EXCEPT !.option[OC_GL_BOOT_OPTION_START + i] = path]
                       ELSE efi
    BY <1>4
  <2>2. /\ i \in Index
        /\ mOcBootOrderMap[i] \in {-1, n}
    <3>1. i \in Candidates(n)
      BY FirstInSet
    <3> QED
      BY <3>1 DEF Candidates, IndicesOf, FreeIndices
  <2> DEFINE Copy(j) == OC_GL_BOOT_OPTION_START + j
  <2>3. \A j \in Index : Copy(j) \in Number /\ (Copy(j) = Copy(i) => j = i)
    BY <2>2, NumberFacts, BootVariablesAssumption DEF Slot, Index
  <2>4. /\ mOcBootOrderMap'[i] = n
        /\ \A j \in Index : j # i => mOcBootOrderMap'[j] = mOcBootOrderMap[j]
    BY <2>1, <2>2 DEF Parts, Mapped
  <2>5. /\ stored => efi'.option[Copy(i)] = path
        /\ \A j \in Index : j # i => efi'.option[Copy(j)] = efi.option[Copy(j)]
    BY <2>1, <2>2, <2>3 DEF Parts, Stored
  <2> HIDE DEF Copy
  <2>6. CASE k = n
    <3>1. stored
      BY <1>4, <2>6
    <3> QED
      BY <1>1, <2>2, <2>4, <2>5, <2>6, <3>1 DEF Waits, Copy
  <2>7. CASE k # n
    <3>1. k \in copied /\ k # -1 /\ oc'.option[k] = oc.option[k]
      BY <1>1, <1>4, <2>7, NumberFacts
    <3>2. Waits(efi, mOcBootOrderMap, k, oc.option[k]) =>
            Waits(efi', mOcBootOrderMap', k, oc.option[k])
      BY <2>2, <2>4, <2>5, <2>7, <3>1 DEF Waits, Copy
    <3> QED
      BY <1>3, <3>1, <3>2 DEF CopiesAreThere, CopiesOffered
  <2> QED
    BY <2>6, <2>7
<1>5. CASE /\ ~NeedsCopy(path) \/ Candidates(n) = {}
           /\ copied' = IF path \in Eligible /\ Len(efi.order) <= ORDER_SIZE /\ Present(path)
                         THEN copied \cup {n} ELSE copied \ {n}
           /\ UNCHANGED <<efi, mOcBootOrderMap>>
  <2>1. CASE k = n
    <3>1. Present(path)
      BY <1>5, <2>1
    <3> QED
      BY <1>1, <1>5, <2>1, <3>1 DEF Present, Listed
  <2>2. CASE k # n
    <3>1. k \in copied /\ oc'.option[k] = oc.option[k]
      BY <1>1, <1>5, <2>2
    <3> QED
      BY <1>5, <3>1 DEF CopiesAreThere, CopiesOffered
  <2> QED
    BY <2>1, <2>2
<1> QED
  BY <1>4, <1>5 DEF HandleBootEntryFallback

\* What is added to an order is one number, and the copy that waits for it is listed.
LEMMA AddedFacts ==
  ASSUME NEW new \in Seq(Number), NEW old
  PROVE  /\ Added(new, old) \subseteq Range(new) \ Range(old)
         /\ Range(new) \ Range(old) # {} => Added(new, old) # {}
<1> DEFINE K == {k \in DOMAIN new : new[k] \notin Range(old)}
<1>1. First(K) \subseteq K
  BY FirstInSet
<1>2. Added(new, old) = {new[j] : j \in First(K)}
  BY DEF Added
<1>3. Range(new) \ Range(old) # {} => First(K) # {}
  <2> SUFFICES ASSUME Range(new) \ Range(old) # {} PROVE First(K) # {}
    OBVIOUS
  <2>1. K \subseteq Nat /\ K # {}
    BY DEF Range
  <2>2. PICK k \in K : \A j \in K : k <= j
    BY <2>1, NatSetHasMinimum
  <2> QED
    BY <2>2 DEF First
<1> QED
  BY <1>1, <1>2, <1>3 DEF Range

LEMMA OrderTakesCopies ==
  ASSUME Parts, CopiesAreThere, NEW new \in Seq(Number), NEW stored \in BOOLEAN,
         HandleBootOrderFallback(new, oc.order, stored), oc'.option = oc.option
  PROVE  /\ CopiesOffered(copied', efi', mOcBootOrderMap', oc'.option)
         /\ \A n : n \in copied' /\ Added(new, oc.order) = {n} => Listed(efi', oc.option[n])
<1> DEFINE A == Added(new, oc.order)
           P == Pending(new, oc.order)
           Copy(j) == OC_GL_BOOT_OPTION_START + j
<1>1. /\ efi'.option = efi.option /\ Range(efi.order) \subseteq Range(efi'.order)
      /\ \A i \in P : Taken(stored) =>
           \E j \in P : efi'.order = Append(efi.order, Copy(j))
  <2>1. efi'.option = efi.option
    BY AppendKeepsParts
  <2>2. efi'.order = efi.order \/ \E s \in Slot : efi'.order = Append(efi.order, s)
    BY AppendKeepsParts
  <2>3. \A s \in Number : Range(efi.order) \subseteq Range(Append(efi.order, s))
    <3>1. \A s \in Number : \A j \in DOMAIN efi.order :
             j \in DOMAIN Append(efi.order, s) /\ Append(efi.order, s)[j] = efi.order[j]
      BY DEF Parts, Stored
    <3> QED
      BY <3>1 DEF Range
  <2>4. Range(efi.order) \subseteq Range(efi'.order)
    BY <2>2, <2>3, NumberFacts
  <2>5. ASSUME NEW i \in P, Taken(stored)
        PROVE  \E j \in P : efi'.order = Append(efi.order, Copy(j))
    <3>1. PICK j \in P : efi' = [efi EXCEPT !.order = Append(@, Copy(j))]
      BY <2>5 DEF HandleBootOrderFallback
    <3>2. efi'.order = Append(efi.order, Copy(j))
      BY <3>1 DEF Parts, Stored
    <3> QED
      BY <3>2
  <2> QED
    BY <2>1, <2>4, <2>5
<1>2. /\ copied' = IF Taken(stored) THEN copied ELSE copied \ A
      /\ \A j \in Index : mOcBootOrderMap'[j] = IF j \in P THEN -1 ELSE mOcBootOrderMap[j]
  BY DEF HandleBootOrderFallback
<1>3. \A p : Listed(efi, p) => Listed(efi', p)
  BY <1>1 DEF Listed
<1>4. P \subseteq {i \in Index : mOcBootOrderMap[i] \in A}
  BY FirstInSet DEF Pending
<1>5. \A j \in P : Copy(j) \in Number
  BY <1>4, NumberFacts DEF Slot
<1>6. \A j \in P : efi'.order = Append(efi.order, Copy(j)) => Copy(j) \in Range(efi'.order)
  <2> SUFFICES ASSUME NEW j \in P, efi'.order = Append(efi.order, Copy(j))
               PROVE  Copy(j) \in Range(efi'.order)
    OBVIOUS
  <2>1. /\ Len(efi.order) + 1 \in DOMAIN Append(efi.order, Copy(j))
        /\ Append(efi.order, Copy(j))[Len(efi.order) + 1] = Copy(j)
    BY <1>5 DEF Parts, Stored
  <2> QED
    BY <2>1 DEF Range
\* All that wait and leave the map are one copy, as a place is added for one number.
<1>7. \A i, j \in P : i = j
  BY <1>4, BootVariablesAssumption DEF Pending, First, Index
<1> HIDE DEF A, P, Copy
<1>8. ASSUME NEW n \in copied', Waits(efi, mOcBootOrderMap, n, oc.option[n])
      PROVE  /\ Listed(efi', oc.option[n]) \/ Waits(efi', mOcBootOrderMap', n, oc.option[n])
             /\ A = {n} => Listed(efi', oc.option[n])
  <2>1. PICK i \in Index : mOcBootOrderMap[i] = n /\ efi.option[Copy(i)] = oc.option[n]
    BY <1>8 DEF Waits, Copy
  <2>2. CASE i \in P
    <3>1. n \in A
      BY <1>4, <2>1, <2>2
    <3>2. Taken(stored)
      BY <1>2, <3>1
    <3>3. efi'.order = Append(efi.order, Copy(i))
      BY <1>1, <1>7, <2>2, <3>2
    <3>4. Copy(i) \in Range(efi'.order) /\ efi'.option[Copy(i)] = oc.option[n]
      BY <1>1, <1>6, <2>1, <2>2, <3>3
    <3> QED
      BY <3>4 DEF Listed
  <2>3. CASE i \notin P
    <3>1. Waits(efi', mOcBootOrderMap', n, oc.option[n])
      BY <1>1, <1>2, <2>1, <2>3 DEF Waits, Copy
    <3>2. A # {n}
      <4> SUFFICES ASSUME A = {n} PROVE FALSE
        OBVIOUS
      <4>1. n \in Num /\ n # -1
        BY <1>2, NumberFacts DEF Parts, Scalars, Number
      <4>2. \A j \in Index : mOcBootOrderMap[j] \in A => j = i
        BY <2>1, <4>1 DEF Parts, Mapped
      <4>3. i \in P
        BY <2>1, <4>2, BootVariablesAssumption DEF A, P, Pending, First, Index
      <4> QED
        BY <2>3, <4>3
    <3> QED
      BY <3>1, <3>2
  <2> QED
    BY <2>2, <2>3
<1>9. ASSUME NEW n \in copied'
      PROVE  Listed(efi, oc.option[n]) \/ Waits(efi, mOcBootOrderMap, n, oc.option[n])
  BY <1>2 DEF CopiesAreThere, CopiesOffered
<1>10. CopiesOffered(copied', efi', mOcBootOrderMap', oc'.option)
  BY <1>3, <1>8, <1>9 DEF CopiesOffered
<1> QED
  BY <1>3, <1>8, <1>9, <1>10 DEF A

LEMMA SetBootOptionKeepsCopies ==
  ASSUME Parts, CopiesAreThere, NEW n \in Num, NEW path \in Path \cup {NoOption},
         NEW nonVolatile \in BOOLEAN, NEW stored \in BOOLEAN,
         SetBootOption(n, path, nonVolatile, stored)
  PROVE  CopiesAreThere' /\ oc'.order = oc.order
<1>1. UNCHANGED config
  BY DEF SetBootOption
<1>2. CASE redirect
  <2>1. oc' = [oc EXCEPT !.option[n] = path]
    BY <1>2 DEF SetBootOption
  <2>2. oc'.order = oc.order /\ \A m \in Num : m # n => oc'.option[m] = oc.option[m]
    BY <2>1 DEF Parts, Stored, Number
  <2>3. CASE path # NoOption /\ HandleBootEntryFallback(n, path, stored)
    BY <1>1, <1>2, <2>1, <2>2, <2>3, CopyOfOption DEF CopiesAreThere, config
  <2>4. CASE copied' = copied \ {n} /\ UNCHANGED <<efi, mOcBootOrderMap>>
    <3>1. CopiesOffered(copied', efi', mOcBootOrderMap', oc'.option)
      BY <2>2, <2>4 DEF CopiesAreThere, CopiesOffered, Parts, Scalars
    <3> QED
      BY <1>1, <1>2, <2>2, <3>1 DEF CopiesAreThere, config
  <2> QED
    BY <1>2, <2>3, <2>4 DEF SetBootOption
<1>3. CASE ~redirect
  <2>1. copied = {} /\ copied' = {} /\ oc' = oc
    BY <1>3 DEF CopiesAreThere, SetBootOption
  <2> QED
    BY <2>1 DEF CopiesAreThere, CopiesOffered
<1> QED
  BY <1>2, <1>3

LEMMA SetBootOrderKeepsCopies ==
  ASSUME Parts, CopiesAreThere, NEW new \in Orders(Seen),
         NEW nonVolatile \in BOOLEAN, NEW stored \in BOOLEAN,
         SetBootOrder(new, nonVolatile, stored)
  PROVE  /\ CopiesAreThere'
         /\ redirect /\ fallback => \A n :
              n \in copied' /\ Len(oc.order) <= ORDER_SIZE
                /\ Range(oc'.order) \ Range(oc.order) = {n} => Listed(efi', oc.option[n])
<1>1. UNCHANGED config
  BY DEF SetBootOrder
<1>2. new \in Seq(Number)
  <2>1. Num \cup Range(Seen) \in SUBSET Number
    BY DEF Seen, Parts, Stored, Range, Number
  <2> QED
    BY <2>1, ArrangementFacts, BootVariablesAssumption DEF Orders
<1>3. CASE redirect
  <2>1. oc' = [oc EXCEPT !.order = new]
    BY <1>3 DEF SetBootOrder
  <2>2. oc'.option = oc.option /\ oc'.order = new
    BY <2>1 DEF Parts, Stored
  <2>3. CASE HandleBootOrderFallback(new, oc.order, stored)
    <3>1. /\ CopiesOffered(copied', efi', mOcBootOrderMap', oc'.option)
          /\ \A n : n \in copied' /\ Added(new, oc.order) = {n} => Listed(efi', oc.option[n])
      BY <1>2, <2>2, <2>3, OrderTakesCopies
    <3>2. \A n : Range(new) \ Range(oc.order) = {n} => Added(new, oc.order) = {n}
      BY <1>2, AddedFacts
    <3> QED
      BY <1>1, <1>3, <2>2, <3>1, <3>2 DEF CopiesAreThere, config
  <2>4. CASE /\ ~fallback \/ Len(oc.order) > ORDER_SIZE \/ new = << >>
             /\ UNCHANGED <<efi, mOcBootOrderMap, copied>>
    <3>1. CopiesAreThere'
      BY <1>1, <2>2, <2>4 DEF CopiesAreThere, CopiesOffered, config
    <3>2. Len(oc.order) \in Nat /\ ORDER_SIZE \in Nat
      BY BootVariablesAssumption DEF Parts, Stored
    <3>3. Len(oc.order) <= ORDER_SIZE => ~(Len(oc.order) > ORDER_SIZE)
      BY <3>2
    <3>4. new = << >> => Range(new) = {}
      BY DEF Range
    <3> QED
      BY <2>2, <2>4, <3>1, <3>3, <3>4
  <2> QED
    BY <1>3, <2>3, <2>4 DEF SetBootOrder
<1>4. CASE ~redirect
  <2>1. copied = {} /\ copied' = {}
    BY <1>4 DEF CopiesAreThere, SetBootOrder
  <2> QED
    BY <1>4, <2>1 DEF CopiesAreThere, CopiesOffered
<1> QED
  BY <1>3, <1>4

LEMMA NextKeepsCopies == Parts /\ CopiesAreThere /\ [Next]_vars => CopiesAreThere'
<1> SUFFICES ASSUME Parts, CopiesAreThere, [Next]_vars PROVE CopiesAreThere'
  OBVIOUS
<1>1. CASE copied' = {}
  BY <1>1 DEF CopiesAreThere, CopiesOffered
<1>2. CASE SetVariable
  BY <1>2, SetBootOptionKeepsCopies, SetBootOrderKeepsCopies DEF SetVariable
<1>3. ASSUME NEW r \in BOOLEAN, NEW f \in BOOLEAN, NEW p \in BOOLEAN, SetMain(r, f, p)
      PROVE  CopiesAreThere'
  BY <1>3 DEF SetMain, CopiesAreThere, CopiesOffered
<1>4. CASE UNCHANGED vars
  BY <1>4 DEF vars, CopiesAreThere, CopiesOffered
<1> QED
  BY <1>1, <1>2, <1>3, <1>4 DEF Next, Restart, OcDeleteVariables

\* When an operating system adds an option it wrote to its BootOrder, the firmware's
\* BootOrder names an equal option, for every size of the map and any number of calls, if
\* the storage takes it and has room (UefiRuntimeServices.c:561-646, 979-1017).
THEOREM NewOptionsOffered == Spec => FallbackOffered
<1>1. Init => CopiesAreThere
  BY DEF Init, CopiesAreThere, CopiesOffered
<1>2. Spec => []CopiesAreThere
  BY <1>1, NextKeepsCopies, PartsAlways, PTL DEF Spec
<1>3. ASSUME Parts, CopiesAreThere, SetVariable, redirect, fallback, Len(efi.order) < ORDER_SIZE
      PROVE  \A n \in Range(oc'.order) \ Range(oc.order) :
               (n \in copied' /\ Len(oc.order) <= ORDER_SIZE
                  /\ Range(oc'.order) \ Range(oc.order) = {n})
               => \E m \in Range(efi'.order) : efi'.option[m] = oc.option[n]
  BY <1>3, SetBootOptionKeepsCopies, SetBootOrderKeepsCopies DEF SetVariable, Listed
<1> QED
  BY <1>2, <1>3, PartsAlways, PTL DEF Spec, FallbackOffered
=============================================================================
