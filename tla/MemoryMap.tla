----------------------------- MODULE MemoryMap -----------------------------
(***************************************************************************)
(* Memory maps (OcMemoryLib, MemoryMap.c): joining their entries before    *)
(* they are handed to boot.efi, taking memory from the top, counting.      *)
(*                                                                         *)
(* Addresses are numbers of pages.  A map is a sequence of descriptors in  *)
(* ascending order, as firmware reports it; the pool has room for a copy   *)
(* of it without an entry more.                                            *)
(***************************************************************************)
EXTENDS Integers, Sequences, FiniteSets, ListLoops

CONSTANTS
  MemBlocks,   \* most entries of a map of the firmware
  MemSizes,    \* pages of an entry
  MemLimits,   \* addresses to stay below
  Base4Gb

\* The firmware knows no empty entries.
ASSUME MapsAssumption ==
  /\ MemBlocks \in Nat /\ MemSizes \subseteq Nat \ {0} /\ MemLimits \subseteq Nat
  /\ Base4Gb \in Nat

VARIABLES
  memMap,   \* what the firmware reports
  memCall,  \* the last call, with the map it worked on
  memGot    \* its answer

memVars == <<memMap, memCall, memGot>>

\* Type and Attribute of a descriptor: ordinary free memory, free memory that is not
\* cached, memory of the loader, of the runtime, and reserved but marked as runtime.
Descriptors == {
  [Type |-> "Conventional", Attribute |-> "wb"], [Type |-> "Conventional", Attribute |-> "uc"],
  [Type |-> "LoaderData", Attribute |-> "wb"], [Type |-> "RuntimeData", Attribute |-> "runtime"],
  [Type |-> "Reserved", Attribute |-> "runtime"]}
Desc(d, start, pages) ==
  [Type |-> d.Type, Attribute |-> d.Attribute, Start |-> start, Pages |-> pages]

End(d) == d.Start + d.Pages
PagesOf(d) == d.Start .. End(d) - 1
EntryOf(map, page) == {k \in DOMAIN map : page \in PagesOf(map[k])}
FreeMemory(map) == UNION {PagesOf(map[k]) : k \in {j \in DOMAIN map : map[j].Type = "Conventional"}}

MemInit == memMap = <<>> /\ memCall = [op |-> "none"] /\ memGot = [ok |-> FALSE]

\* The firmware starts with a map, here entry by entry: right behind the one before, or
\* after a hole.
FirmwareAdds ==
  /\ memCall.op = "none" /\ Len(memMap) < MemBlocks
  /\ \E d \in Descriptors, pages \in MemSizes, hole \in {0, 1} :
       LET end == IF memMap = <<>> THEN 0 ELSE End(memMap[Len(memMap)])
       IN  memMap' = Append(memMap, Desc(d, end + hole, pages))
  /\ UNCHANGED <<memCall, memGot>>

----------------------------------------------------------------------------
Boot == {"BootServicesCode", "BootServicesData", "Conventional", "LoaderCode", "LoaderData"}

CanBeJoined(prev, desc) ==
  /\ desc.Attribute = prev.Attribute /\ End(prev) = desc.Start
  /\ desc.Type \in Boot /\ prev.Type \in Boot

Joined(prev, desc) == [prev EXCEPT !.Type = "Conventional", !.Pages = @ + desc.Pages]

\* Mutant: the entries behind joined ones are not moved up.
ShrinkStepLeaves(s) ==
  LET prev == s.map[s.prev]
      desc == s.map[s.desc]
  IN  IF CanBeJoined(prev, desc)
      THEN [s EXCEPT !.map[s.prev] = Joined(prev, desc), !.desc = @ + 1]
      ELSE [s EXCEPT !.prev = @ + 1, !.desc = @ + 1]

\* One descriptor of ShrinkMemoryMap, in place: it is joined to the last one kept, or kept
\* itself, right behind that, with all that follow.
ShrinkStep(s) ==
  LET prev == s.map[s.prev]
      desc == s.map[s.desc]
      next == s.prev + 1
      moved == [k \in DOMAIN s.map |->
                  IF k >= next /\ k - next <= Len(s.map) - s.desc THEN s.map[k - next + s.desc]
                  ELSE s.map[k]]
  IN  IF CanBeJoined(prev, desc)
      THEN [map |-> [s.map EXCEPT ![s.prev] = Joined(prev, desc)],
            prev |-> s.prev, desc |-> s.desc + 1, remove |-> TRUE]
      ELSE IF s.remove THEN [map |-> moved, prev |-> next, desc |-> next + 1, remove |-> FALSE]
      ELSE [s EXCEPT !.prev = next, !.desc = @ + 1]

Shrunk(map) ==
  LET after[k \in 0 .. Len(map) - 1] ==
        IF k = 0 THEN [map |-> map, prev |-> 1, desc |-> 2, remove |-> FALSE]
        ELSE ShrinkStep(after[k - 1])
      last == after[Len(map) - 1]
  IN  SubSeq(last.map, 1, last.prev)

\* boot.efi asks for the map while ShrinkMemoryMap is on: its own copy is joined.
ShrinkMemoryMap ==
  /\ memMap # <<>>
  /\ memCall' = [op |-> "Shrink", map |-> memMap]
  /\ memGot' = [ok |-> TRUE, map |-> Shrunk(memMap)]
  /\ UNCHANGED memMap

----------------------------------------------------------------------------
\* Whether a descriptor has the pages below an address.
RoomIn(d, pages, Memory) ==
  d.Type = "Conventional" /\ pages <= d.Pages /\ d.Start + pages <= Memory

\* Where they are taken: at the top of the descriptor, or right below the address.
Taken(d, pages, Memory) == IF End(d) <= Memory THEN End(d) - pages ELSE Memory - pages

\* The walk of AllocatePagesFromTop down the map: a place that CheckRange refuses lowers the
\* address for the entries that follow.
TopStep(s, d, pages, area) ==
  LET place == Taken(d, pages, s.Memory)
  IN  IF s.found \/ ~RoomIn(d, pages, s.Memory) THEN s
      ELSE [Memory |-> place, found |-> (place .. place + pages - 1) \cap area = {}]

FromTop(map, pages, limit, area) ==
  LET after[k \in 0 .. Len(map)] ==
        IF k = 0 THEN [Memory |-> limit, found |-> FALSE]
        ELSE TopStep(after[k - 1], map[Len(map) + 1 - k], pages, area)
  IN  after[Len(map)]

\* AllocatePages of the firmware at an address: the entry is split.
Allocated(map, at, pages) ==
  LET k == CHOOSE j \in DOMAIN map : at \in PagesOf(map[j])
      d == map[k]
      given == Desc([Type |-> "RuntimeData", Attribute |-> "runtime"], at, pages)
      below == IF at = d.Start THEN << >> ELSE <<Desc(d, d.Start, at - d.Start)>>
      above == IF at + pages = End(d) THEN << >>
               ELSE <<Desc(d, at + pages, End(d) - (at + pages))>>
  IN  SubSeq(map, 1, k - 1) \o (below \o <<given>> \o above) \o SubSeq(map, k + 1, Len(map))

\* area: pages that CheckRange does not let take, or none.
AllocatePagesFromTop ==
  /\ memMap # <<>> /\ memCall.op # "Allocate"
  /\ \E pages \in MemSizes, limit \in MemLimits, area \in {{}, {1, 2}, {2, 3}} :
       LET got == FromTop(memMap, pages, limit, area)
       IN  /\ memCall' = [op |-> "Allocate", map |-> memMap, pages |-> pages, limit |-> limit,
                          area |-> area]
           /\ memGot' = [ok |-> got.found, at |-> got.Memory]
           /\ memMap' = IF got.found THEN Allocated(memMap, got.Memory, pages) ELSE memMap

----------------------------------------------------------------------------
RuntimePages(d) == IF d.Type # "Reserved" /\ d.Attribute = "runtime" THEN d.Pages ELSE 0
FreePages(d) == IF d.Type = "Conventional" THEN d.Pages ELSE 0
LowerPages(d) ==
  IF d.Type # "Conventional" \/ d.Start >= Base4Gb THEN 0
  ELSE IF End(d) > Base4Gb THEN Base4Gb - d.Start ELSE d.Pages

CountRuntimePages(map) == Total([k \in DOMAIN map |-> RuntimePages(map[k])], Len(map))

\* CountFreePages also tells how many are in LowerMemory.
CountFreePages ==
  /\ memMap # <<>>
  /\ memCall' = [op |-> "Count", map |-> memMap]
  /\ memGot' = [ok |-> TRUE,
                free |-> Total([k \in DOMAIN memMap |-> FreePages(memMap[k])], Len(memMap)),
                lower |-> Total([k \in DOMAIN memMap |-> LowerPages(memMap[k])], Len(memMap))]
  /\ UNCHANGED memMap

MemReboot == memCall.op # "none" /\ memMap' = <<>> /\ memCall' = [op |-> "none"] /\ memGot' = [ok |-> FALSE]

MemNext ==
  FirmwareAdds \/ ShrinkMemoryMap \/ AllocatePagesFromTop \/ CountFreePages \/ MemReboot
MemSpec == MemInit /\ [][MemNext]_memVars

----------------------------------------------------------------------------
\* A joined map has every page of the original once and no other, keeps type and attribute
\* of those that are not free or of boot, has as many runtime pages, and nothing is left in
\* it that could be joined (MemoryMap.c:197-263, 346-376).
ShrinkKeepsMemory ==
  memCall.op = "Shrink" =>
    LET old == memCall.map
        new == memGot.map
    IN  /\ \A page \in 0 .. End(old[Len(old)]) + 1 :
             /\ Cardinality(EntryOf(new, page)) = Cardinality(EntryOf(old, page))
             /\ \A k \in EntryOf(new, page), j \in EntryOf(old, page) :
                  /\ new[k].Attribute = old[j].Attribute
                  /\ new[k].Type = old[j].Type \/ (new[k].Type = "Conventional" /\ old[j].Type \in Boot)
        /\ CountRuntimePages(new) = CountRuntimePages(old)
        /\ \A k \in 1 .. Len(new) - 1 : ~CanBeJoined(new[k], new[k + 1])

\* Pages taken from the top were free, are below the address, and away from the restricted
\* area; without such an area they are the highest there are, and are found when there
\* are some (MemoryMap.c:265-344).
TakenFromTop ==
  memCall.op = "Allocate" =>
    LET old == memCall.map
        range(at) == at .. at + memCall.pages - 1
        fits(at) == /\ \E k \in DOMAIN old : old[k].Type = "Conventional" /\ range(at) \subseteq PagesOf(old[k])
                    /\ at + memCall.pages <= memCall.limit
    IN  /\ memGot.ok => fits(memGot.at) /\ range(memGot.at) \cap memCall.area = {}
        /\ memCall.area = {} =>
             \A at \in 0 .. memCall.limit : fits(at) => memGot.ok /\ at <= memGot.at

\* The free pages told are those free, and those below 4 GB (MemoryMap.c:378-436).
FreePagesCounted ==
  memCall.op = "Count" =>
    /\ memGot.free = Cardinality(FreeMemory(memCall.map))
    /\ memGot.lower = Cardinality({p \in FreeMemory(memCall.map) : p < Base4Gb})

\* Joined maps keep the memory, memory from the top is free and as high as it can be, and
\* the free pages are counted right (MemoryMap.c:197-436).
MapsRight == ShrinkKeepsMemory /\ TakenFromTop /\ FreePagesCounted
=============================================================================
