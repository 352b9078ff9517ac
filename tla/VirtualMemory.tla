--------------------------- MODULE VirtualMemory ---------------------------
(***************************************************************************)
(* Page tables (OcMemoryLib, VirtualMemory.c): before the firmware is      *)
(* moved to virtual addresses its runtime pages are entered into the page  *)
(* table of the machine, page by page, with new tables from a small pool.  *)
(*                                                                         *)
(* A table has PageFan entries here, so that one of level 2 covers what    *)
(* "1 GB" and one of level 3 what "2 MB" stand for in the code.  Addresses *)
(* are numbers of pages, and of the bits of an entry only what it points   *)
(* to is kept.                                                             *)
(***************************************************************************)
EXTENDS Naturals, Sequences

CONSTANTS
  PageFan,      \* entries of a table, 512 in the code
  VmPoolPages,  \* pages of the pool
  VmTargets,    \* physical pages to map to
  VmLengths,    \* numbers of pages to map
  VmCalls,      \* bound on the calls
  NoMapping

ASSUME PagesAssumption ==
  /\ PageFan \in Nat /\ PageFan >= 2 /\ VmPoolPages \in Nat /\ VmCalls \in Nat
  /\ VmTargets \subseteq Nat /\ VmLengths \subseteq Nat

VARIABLES
  vmTables,  \* the tables, by the page they are in
  vmFree,    \* pages of the pool that are left
  vmCall,    \* what is left of the call in progress
  vmFailed,  \* Status of the last page
  vmLeft     \* calls left

vmVars == <<vmTables, vmFree, vmCall, vmFailed, vmLeft>>

\* Pages that an entry of a level covers, and the entry of an address there.
Covers(level) == <<PageFan * PageFan * PageFan, PageFan * PageFan, PageFan, 1>>[level]
Index(va, level) == (va \div Covers(level)) % PageFan
Virtual == 0 .. PageFan * Covers(1) - 1

Absent == [kind |-> "absent", to |-> 0]
Leaf(page) == [kind |-> "page", to |-> page]   \* at level 2 or 3 a large page
Table(t) == [kind |-> "table", to |-> t]
Entries == 0 .. PageFan - 1
AllAbsent == [i \in Entries |-> Absent]

\* The pages of the table of the machine and of tables below it that the firmware has.
CR3 == 1
PDP == 2
PD == 3
PT == 4
NoPages == [va |-> 0, pa |-> 0, n |-> 0]

VmInit ==
  /\ vmTables = [t \in 1 .. 4 |-> AllAbsent]
  /\ vmFree = [i \in 1 .. VmPoolPages |-> 4 + i]
  /\ vmCall = NoPages /\ vmFailed = FALSE /\ vmLeft = VmCalls

\* What the firmware may have in its tables.  The first entry of the machine's table is
\* there; others are absent or, on some machines, copies of the first.
FirmwareTables ==
  /\ vmTables[CR3] = AllAbsent
  /\ \E later \in {Absent, Table(PDP)},
        pdp0 \in {Leaf(0), Table(PD)}, pdp1 \in {Absent, Leaf(Covers(2))},
        pd0 \in {Absent, Leaf(Covers(3)), Table(PT)}, pt1 \in {Absent, Leaf(5)} :
       vmTables' =
         <<[AllAbsent EXCEPT ![0] = Table(PDP), ![1] = later],
           [AllAbsent EXCEPT ![0] = pdp0, ![1] = pdp1],
           [AllAbsent EXCEPT ![0] = pd0, ![1] = Leaf(0)],
           [AllAbsent EXCEPT ![0] = Leaf(3), ![1] = pt1]>>
  /\ UNCHANGED <<vmFree, vmCall, vmFailed, vmLeft>>

----------------------------------------------------------------------------
\* GetPhysicalAddress: what the first leaf on the way down maps va to.
GetPhysicalAddress(va) ==
  LET PML4 == vmTables[CR3][Index(va, 1)]
      PDPE == vmTables[PML4.to][Index(va, 2)]
      PDE == vmTables[PDPE.to][Index(va, 3)]
      PTE4K == vmTables[PDE.to][Index(va, 4)]
      Mapped(e, level) == IF e = Absent THEN NoMapping ELSE e.to + (va % Covers(level))
  IN  IF PML4 = Absent THEN NoMapping
      ELSE IF PDPE.kind # "table" THEN Mapped(PDPE, 2)
      ELSE IF PDE.kind # "table" THEN Mapped(PDE, 3)
      ELSE Mapped(PTE4K, 4)

\* Mutant: the pieces of a large page all get its first part.
NewTableStuck(e, level) ==
  CASE level = 1 -> [i \in Entries |-> Leaf(i * Covers(2))]
    [] level # 1 /\ e.kind = "page" -> [i \in Entries |-> Leaf(e.to)]
    [] level # 1 /\ e.kind = "absent" -> AllAbsent

\* The new table under an absent entry or a large page.  At level 1 it maps the first
\* physical pages with large pages; a large page is split into equal smaller ones.
NewTable(e, level) ==
  CASE level = 1 -> [i \in Entries |-> Leaf(i * Covers(2))]
    [] level # 1 /\ e.kind = "page" -> [i \in Entries |-> Leaf(e.to + i * Covers(level + 1))]
    [] level # 1 /\ e.kind = "absent" -> AllAbsent

\* A new table in a page of the pool, and entry i of the one above points to it.
Linked(tables, at, i, new, table) ==
  [t \in DOMAIN tables \cup {new} |->
     IF t = new THEN table
     ELSE IF t = at THEN [tables[t] EXCEPT ![i] = Table(new)] ELSE tables[t]]

\* One level of VmMapVirtualPage: VmAllocatePages is asked for a table where there is none.
DescendStep(s, level) ==
  LET i == Index(s.va, level)
      e == s.tables[s.at][i]
      new == Head(s.free)
  IN  IF ~s.ok THEN s
      ELSE IF e.kind = "table" THEN [s EXCEPT !.at = e.to]
      ELSE IF s.free = <<>> THEN [s EXCEPT !.ok = FALSE]
      ELSE [s EXCEPT !.tables = Linked(@, s.at, i, new, NewTable(e, level)),
                     !.free = Tail(@), !.at = new]

\* Whether the entry of an address is a copy of the first one.
Copied(va) ==
  LET root == vmTables[CR3]
  IN  Index(va, 1) # 0 /\ root[Index(va, 1)] # Absent /\ root[Index(va, 1)] = root[0]

\* A copy of the first entry is cleared first, or the first region would change too.
VmMapVirtualPage(va, pa) ==
  LET cleared == IF Copied(va) THEN [vmTables EXCEPT ![CR3][Index(va, 1)] = Absent]
                 ELSE vmTables
      top == [va |-> va, at |-> CR3, ok |-> TRUE, tables |-> cleared, free |-> vmFree]
      s == DescendStep(DescendStep(DescendStep(top, 1), 2), 3)
  IN  /\ vmTables' = IF s.ok THEN [s.tables EXCEPT ![s.at][Index(va, 4)] = Leaf(pa)] ELSE s.tables
      /\ vmFree' = s.free
      /\ vmFailed' = ~s.ok

\* VmMapVirtualPages begins; its loop ends at a failure.
VmMapVirtualPages ==
  /\ vmTables[CR3] # AllAbsent /\ vmCall.n = 0 /\ vmLeft > 0
  /\ \E va \in Virtual, pa \in VmTargets, n \in VmLengths :
       va + n - 1 \in Virtual /\ vmCall' = [va |-> va, pa |-> pa, n |-> n]
  /\ vmLeft' = vmLeft - 1 /\ vmFailed' = FALSE
  /\ UNCHANGED <<vmTables, vmFree>>

VmMapNext ==
  /\ vmCall.n > 0
  /\ VmMapVirtualPage(vmCall.va, vmCall.pa)
  /\ vmCall' = IF vmFailed' THEN NoPages
               ELSE [va |-> vmCall.va + 1, pa |-> vmCall.pa + 1, n |-> vmCall.n - 1]
  /\ UNCHANGED vmLeft

\* The machine is started anew.
NextBoot ==
  /\ vmLeft = 0 /\ vmCall.n = 0
  /\ vmTables' = [t \in 1 .. 4 |-> AllAbsent] /\ vmFree' = [i \in 1 .. VmPoolPages |-> 4 + i]
  /\ vmCall' = NoPages /\ vmFailed' = FALSE /\ vmLeft' = VmCalls

VmNext == FirmwareTables \/ VmMapVirtualPages \/ VmMapNext \/ NextBoot
VmSpec == VmInit /\ [][VmNext]_vmVars

----------------------------------------------------------------------------
\* Mapping a page changes the translation of that page to the one asked for, and of no
\* other, whatever large pages are split or tables added for it; only a part of the address
\* space that had no table, or a copy of the first, is filled with the first physical
\* pages, and a copy of the first that is not written to follows it.  When the pool runs
\* out the page, and such a part, may be left without a mapping (VirtualMemory.c:184-368).
OnlyThePageRemapped ==
  [][vmCall.n > 0 =>
       LET fresh(w) == /\ Index(w, 1) = Index(vmCall.va, 1)
                       /\ vmTables[CR3][Index(w, 1)] = Absent \/ Copied(w)
           isIt(w) == w = vmCall.va \/ (Copied(w) /\ w % Covers(1) = vmCall.va)
           then(w) == GetPhysicalAddress(w)'
       IN  \A w \in Virtual :
             CASE isIt(w) /\ ~vmFailed' -> then(w) = vmCall.pa
               [] ~isIt(w) /\ fresh(w) /\ ~vmFailed' -> then(w) = w % Covers(1)
               [] fresh(w) /\ vmFailed' -> then(w) \in {w % Covers(1), NoMapping}
               [] ~fresh(w) /\ (~isIt(w) \/ vmFailed') -> then(w) = GetPhysicalAddress(w)]_vmVars
=============================================================================
