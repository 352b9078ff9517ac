--------------------------- MODULE BootVariables ---------------------------
(***************************************************************************)
(* Boot options of an operating system that OpenCore keeps to itself       *)
(* (FwRuntimeServices/UefiRuntimeServices.c).  With BootVariableRedirect,  *)
(* Boot#### and BootOrder live under OpenCore's vendor GUID; with          *)
(* BootVariableFallback, options that are not Apple's are copied back to   *)
(* the firmware: WrapSetVariable copies a written option to a number of    *)
(* its own, from OC_GL_BOOT_OPTION_START on, remembers that number in      *)
(* mOcBootOrderMap, and appends it to the firmware's BootOrder when the    *)
(* original's number is added to the redirected one.                       *)
(*                                                                         *)
(* Runtime services are not reentrant: a call is one action.               *)
(***************************************************************************)
EXTENDS Integers, Sequences, SequencesExt

CONSTANTS
  Num,                        \* numbers of the options an operating system writes
  OC_GL_BOOT_OPTION_START,
  MAP_SIZE,                   \* ARRAY_SIZE (mOcBootOrderMap)
  ORDER_SIZE,                 \* ARRAY_SIZE (mTmpBootOrder)
  Path,                       \* device paths of boot options
  Eligible,                   \* those that are not Apple's
  NoOption,                   \* no variable of that number
  MaxOrder,                   \* bound: entries of a BootOrder an operating system writes
  MaxCalls                    \* bound: calls of SetVariable

Index == 0 .. (MAP_SIZE - 1)
Slot == {OC_GL_BOOT_OPTION_START + i : i \in Index}
Number == Num \cup Slot

ASSUME BootVariablesAssumption ==
  /\ Num \subseteq Nat /\ MAP_SIZE \in Nat /\ OC_GL_BOOT_OPTION_START \in Nat
  /\ Num \cap Slot = {} /\ ORDER_SIZE \in Nat \ {0}
  /\ MaxOrder \in Nat /\ MaxCalls \in Nat
  /\ Eligible \subseteq Path /\ NoOption \notin Path

VARIABLES
  redirect, fallback, protect,    \* gCurrentConfig: BootVariableRedirect,
                                  \* BootVariableFallback, WriteProtection
  efi, oc,                        \* the boot variables under the two GUIDs
  mOcBootOrderMap,
  copied,                         \* history: options whose copy, or an equal option,
                                  \* is with the firmware since they were written
  calls                           \* calls of SetVariable, for the bound

vars == <<redirect, fallback, protect, efi, oc, mOcBootOrderMap, copied, calls>>
config == <<redirect, fallback, protect>>

NoBoot == [order |-> << >>, option |-> [n \in Number |-> NoOption]]

NotMapped == [i \in Index |-> -1]

\* The first one of a set, in a set; nothing if it is empty.
First(S) == {i \in S : \A j \in S : i <= j}

\* The orders of entries of a set, none of them twice.
Arrangements(S, length) ==
  {s \in UNION {[1 .. k -> S] : k \in 0 .. length} : IsInjective(s)}

\* A BootOrder an operating system writes: entries it found there and options of its own.
Orders(old) == Arrangements(Num \cup Range(old), MaxOrder)

----------------------------------------------------------------------------
Init ==
  /\ redirect = FALSE /\ fallback = FALSE /\ protect = FALSE
  /\ efi = NoBoot /\ oc = NoBoot
  /\ mOcBootOrderMap = NotMapped
  /\ copied = {} /\ calls = 0

\* A restart; in the setup a user may drop and move entries of the firmware's BootOrder.
Restart ==
  /\ redirect' = FALSE /\ fallback' = FALSE /\ protect' = FALSE
  /\ mOcBootOrderMap' = NotMapped
  /\ \E order \in Arrangements(Range(efi.order), Len(efi.order)) :
       efi' = [efi EXCEPT !.order = order]
  /\ copied' = {} /\ UNCHANGED <<oc, calls>>

\* OcStartImage takes the settings from variables and from the image that starts; the
\* fallback is looked at only with redirection.
SetMain(r, f, p) ==
  /\ redirect' = r /\ fallback' = (r /\ f) /\ protect' = p
  /\ copied' = IF redirect /\ r THEN copied ELSE {}
  /\ UNCHANGED <<efi, oc, mOcBootOrderMap, calls>>

\* OcDeleteVariables, under an override that neither redirects nor protects.
OcDeleteVariables ==
  /\ efi' = NoBoot /\ oc' = NoBoot
  /\ copied' = {}
  /\ UNCHANGED <<config, mOcBootOrderMap, calls>>

\* Mutant: numbers of the firmware's BootOrder are not spared.
FreeIndicesListed == {i \in Index : mOcBootOrderMap[i] = -1}

FreeIndices ==
  {i \in Index : mOcBootOrderMap[i] = -1 /\ OC_GL_BOOT_OPTION_START + i \notin Range(efi.order)}

IndicesOf(n) == {i \in Index : mOcBootOrderMap[i] = n}

\* Mutant: a free place is preferred to the one the option has.
CandidatesFree(n) == IF FreeIndices # {} THEN FreeIndices ELSE IndicesOf(n)

\* Where a copy of option n may go; the first one is taken.
Candidates(n) == IF IndicesOf(n) # {} THEN IndicesOf(n) ELSE FreeIndices

Present(path) == \E n \in Range(efi.order) : efi.option[n] = path

\* The comparisons before a copy is made; a BootOrder too long for the buffer stops them.
NeedsCopy(path) == path \in Eligible /\ Len(efi.order) <= ORDER_SIZE /\ ~Present(path)

\* HandleBootEntryFallback, with a storage that takes the copy or does not.  The map
\* keeps the number either way.
HandleBootEntryFallback(n, path, stored) ==
  \/ /\ NeedsCopy(path)
     /\ \E i \in First(Candidates(n)) :
          /\ mOcBootOrderMap' = [mOcBootOrderMap EXCEPT ![i] = n]
          /\ efi' = IF stored THEN [efi EXCEPT !.option[OC_GL_BOOT_OPTION_START + i] = path]
                    ELSE efi
     /\ copied' = IF stored THEN copied \cup {n} ELSE copied \ {n}
  \/ /\ ~NeedsCopy(path) \/ Candidates(n) = {}
     /\ copied' = IF path \in Eligible /\ Len(efi.order) <= ORDER_SIZE /\ Present(path)
                  THEN copied \cup {n} ELSE copied \ {n}
     /\ UNCHANGED <<efi, mOcBootOrderMap>>

\* WrapSetVariable refuses only what is to be non-volatile; a deletion may be anything.
Permitted(nonVolatile) == ~(protect /\ nonVolatile)

\* WrapSetVariable for Boot####; NoOption deletes it.
SetBootOption(n, path, nonVolatile, stored) ==
  /\ Permitted(nonVolatile)
  /\ path # NoOption => nonVolatile
  /\ \/ /\ redirect
        /\ oc' = [oc EXCEPT !.option[n] = path]
        /\ \/ /\ fallback /\ path # NoOption
              /\ HandleBootEntryFallback(n, path, stored)
           \/ /\ ~fallback \/ path = NoOption
              /\ copied' = copied \ {n}
              /\ UNCHANGED <<efi, mOcBootOrderMap>>
     \/ /\ ~redirect
        /\ efi' = [efi EXCEPT !.option[n] = path]
        /\ UNCHANGED <<oc, mOcBootOrderMap, copied>>
  /\ UNCHANGED config

\* The first number of a new BootOrder that the old one does not have.
Added(new, old) ==
  {new[j] : j \in First({k \in DOMAIN new : new[k] \notin Range(old)})}

\* Where it waits, and whether the firmware's BootOrder takes it.
Pending(new, old) == First({i \in Index : mOcBootOrderMap[i] \in Added(new, old)})
Taken(stored) == stored /\ Len(efi.order) < ORDER_SIZE

\* Mutant: the number is only appended to a BootOrder that is there.
HandleBootOrderFallbackNew(new, old, stored) ==
  /\ mOcBootOrderMap' = [i \in Index |-> IF i \in Pending(new, old) THEN -1
                                         ELSE mOcBootOrderMap[i]]
  /\ \/ /\ Taken(stored) /\ efi.order # << >>
        /\ \E i \in Pending(new, old) :
             efi' = [efi EXCEPT !.order = Append(@, OC_GL_BOOT_OPTION_START + i)]
     \/ /\ ~Taken(stored) \/ efi.order = << >> \/ Pending(new, old) = {}
        /\ UNCHANGED efi
  /\ copied' = IF Taken(stored) THEN copied ELSE copied \ Added(new, old)

\* HandleBootOrderFallback.  The map forgets the number even if the firmware's
\* BootOrder has no room for it.
HandleBootOrderFallback(new, old, stored) ==
  /\ mOcBootOrderMap' = [i \in Index |-> IF i \in Pending(new, old) THEN -1
                                         ELSE mOcBootOrderMap[i]]
  /\ \/ /\ Taken(stored)
        /\ \E i \in Pending(new, old) :
             efi' = [efi EXCEPT !.order = Append(@, OC_GL_BOOT_OPTION_START + i)]
     \/ /\ ~Taken(stored) \/ Pending(new, old) = {}
        /\ UNCHANGED efi
  /\ copied' = IF Taken(stored) THEN copied ELSE copied \ Added(new, old)

\* WrapSetVariable for BootOrder, an empty one deletes it; the fallback needs an old
\* BootOrder that fits its buffer.
SetBootOrder(new, nonVolatile, stored) ==
  /\ Permitted(nonVolatile)
  /\ new # << >> => nonVolatile
  /\ \/ /\ redirect
        /\ oc' = [oc EXCEPT !.order = new]
        /\ \/ /\ fallback /\ Len(oc.order) <= ORDER_SIZE /\ new # << >>
              /\ HandleBootOrderFallback(new, oc.order, stored)
           \/ /\ ~fallback \/ Len(oc.order) > ORDER_SIZE \/ new = << >>
              /\ UNCHANGED <<efi, mOcBootOrderMap, copied>>
     \/ /\ ~redirect
        /\ efi' = [efi EXCEPT !.order = new]
        /\ UNCHANGED <<oc, mOcBootOrderMap, copied>>
  /\ UNCHANGED config

\* The BootOrder a caller reads: WrapGetVariable redirects it too.
Seen == IF redirect THEN oc.order ELSE efi.order

SetVariable ==
  /\ calls < MaxCalls /\ calls' = calls + 1
  /\ \/ \E n \in Num, path \in Path \cup {NoOption}, nonVolatile, stored \in BOOLEAN :
            SetBootOption(n, path, nonVolatile, stored)
     \/ \E new \in Orders(Seen), nonVolatile, stored \in BOOLEAN :
            SetBootOrder(new, nonVolatile, stored)

Next ==
  \/ Restart \/ OcDeleteVariables \/ SetVariable
  \/ \E r, f, p \in BOOLEAN : SetMain(r, f, p)

Spec == Init /\ [][Next]_vars

PathSymmetry == Permutations(Eligible)

----------------------------------------------------------------------------
TypeOK ==
  /\ {redirect, fallback, protect} \subseteq BOOLEAN
  /\ \A v \in {efi, oc} : /\ v.order \in Seq(Number)
                          /\ v.option \in [Number -> Path \cup {NoOption}]
  /\ mOcBootOrderMap \in [Index -> Num \cup {-1}] /\ copied \subseteq Num /\ calls \in 0 .. MaxCalls

\* The firmware's BootOrder never names an option twice, and no option waits in
\* two places for its number to be added (UefiRuntimeServices.c:588-646, 850-879).
NamedOnce ==
  /\ TypeOK
  /\ IsInjective(efi.order)
  /\ \A i, j \in Index : mOcBootOrderMap[i] = mOcBootOrderMap[j] /\ mOcBootOrderMap[i] # -1 => i = j

\* While options are redirected, the firmware keeps what it has: its BootOrder only
\* grows, at its end and by one copy, and an option it names is never overwritten
\* (UefiRuntimeServices.c:846-891).
FirmwareOptionsKept ==
  [][SetVariable /\ redirect =>
       /\ efi'.order = efi.order \/ \E s \in Slot : efi'.order = Append(efi.order, s)
       /\ \A n \in Num \cup Range(efi.order) : efi'.option[n] = efi.option[n]]_vars

\* When an operating system adds an option it wrote to its BootOrder, the firmware's
\* BootOrder names an equal option, if the storage takes it and has room
\* (UefiRuntimeServices.c:561-646, 979-1017).
FallbackOffered ==
  [][SetVariable /\ redirect /\ fallback /\ Len(efi.order) < ORDER_SIZE =>
       \A n \in Range(oc'.order) \ Range(oc.order) :
         (n \in copied' /\ Len(oc.order) <= ORDER_SIZE
            /\ Range(oc'.order) \ Range(oc.order) = {n})
         => \E m \in Range(efi'.order) : efi'.option[m] = oc.option[n]]_vars
=============================================================================
