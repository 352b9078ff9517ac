----------------------------- MODULE BootCompat -----------------------------
(***************************************************************************)
(* The boot services that OcAppleBootCompatLib replaces, and what it does  *)
(* to a kernel (ServiceOverrides.c, KernelSupport.c).                      *)
(*                                                                         *)
(* One context serves every image.  Images start images: the picker starts *)
(* boot.efi, which may start another one or return because it failed.      *)
(* While a boot.efi is counted the context notes where it allocates, hides *)
(* the runtime memory from it, and patches the entry of the kernel so that *)
(* it gets control once more to undo what the kernel must not see.         *)
(***************************************************************************)
EXTENDS Naturals, Sequences, SequencesExt, FiniteSetsExt

CONSTANTS
  AbcAddress,     \* addresses of pages an image is given, positive numbers
  AbcDescs,       \* runtime descriptors of the memory map, a number; the first one
                  \* holds the copy of the system table
  RT_RELOC_PROTECT_MAX_NUM,
  AbcDepth,       \* bound: images running at once
  AbcStarts       \* bound: images started before the machine restarts

ASSUME BootCompatAssumption ==
  /\ AbcAddress \subseteq Nat \ {0} /\ AbcDescs \in Nat
  /\ RT_RELOC_PROTECT_MAX_NUM \in Nat /\ AbcDepth \in Nat /\ AbcStarts \in Nat

VARIABLES
  abcSettings,    \* OC_ABC_SETTINGS; Off before OcAbcInitialize
  abcImages,      \* the images that run, the last one on top.  own and first (the
                  \* addresses it got itself) and alone (nothing another image did is
                  \* in the context's notes) are history
  abcState,       \* SERVICES_OVERRIDE_STATE
  abcKernel,      \* KERNEL_SUPPORT_STATE and RT_RELOC_PROTECT_DATA
  abcConfig,      \* FwRuntimeServices: there, and its WriteProtection
  abcPhase,       \* "boot", "exited", "mapped" (addresses are virtual), "kernel"
  abcTypes,       \* of the runtime descriptors in the map boot.efi hands over
  abcHandlers,    \* ExitBootServicesHandlers
  abcCalled,      \* history: calls of the exit handlers
  abcStarted      \* images started

abcVars == <<abcSettings, abcImages, abcState, abcKernel, abcConfig, abcPhase, abcTypes,
             abcHandlers, abcCalled, abcStarted>>

Off == [on |-> FALSE]
AbcSettings == [on : {TRUE}, AvoidRuntimeDefrag : BOOLEAN, SetupVirtualMap : BOOLEAN,
                DiscardHibernateMap : BOOLEAN, ForceExitBootServices : BOOLEAN,
                DisableVariableWrite : BOOLEAN]
OriginalTypes == [d \in 1 .. AbcDescs |-> "runtime"]

Top == Last(abcImages)
Booting == abcSettings.on /\ abcPhase = "boot"

----------------------------------------------------------------------------
NoNotes == [Nested |-> 0, MinAllocatedAddr |-> 0, HibernateImageAddress |-> 0, Wake |-> FALSE]
NoKernel == [SysTableRtArea |-> FALSE, VmMapDescSize |-> 0, RelocInfo |-> {}, Entry |-> 0]
NoRuntime == [there |-> FALSE, WriteProtection |-> FALSE]

AbcInit ==
  /\ abcSettings = Off /\ abcImages = << >> /\ abcState = NoNotes /\ abcKernel = NoKernel
  /\ abcConfig = NoRuntime /\ abcPhase = "boot" /\ abcTypes = OriginalTypes
  /\ abcHandlers = TRUE /\ abcCalled = 0 /\ abcStarted = 0

\* The settings are copied once.  FwRuntimeServices may be there already or install
\* itself later, when SetGetVariableHookHandler is told.
OcAbcInitialize(settings, there) ==
  /\ ~abcSettings.on
  /\ abcSettings' = settings /\ abcConfig' = [abcConfig EXCEPT !.there = there]
  /\ UNCHANGED <<abcImages, abcState, abcKernel, abcPhase, abcTypes, abcHandlers, abcCalled, abcStarted>>

SetGetVariableHookHandler ==
  /\ Booting /\ ~abcConfig.there
  /\ abcConfig' = [abcConfig EXCEPT !.there = TRUE]
  /\ UNCHANGED <<abcSettings, abcImages, abcState, abcKernel, abcPhase, abcTypes, abcHandlers,
                 abcCalled, abcStarted>>

\* A copy of the system table is made for the first boot.efi that finds room for it.
AppleMapPrepareBooterState(room) ==
  IF abcSettings.AvoidRuntimeDefrag
  THEN [abcKernel EXCEPT !.SysTableRtArea = @ \/ room] ELSE abcKernel

\* Mutant: a nested start keeps the lowest address.
OcStartImageKeeps(apple, wake, room) ==
  /\ Booting /\ Len(abcImages) < AbcDepth /\ abcStarted < AbcStarts
  /\ abcState' = IF apple THEN [abcState EXCEPT !.Nested = @ + 1, !.Wake = wake] ELSE abcState
  /\ abcKernel' = IF apple THEN AppleMapPrepareBooterState(room) ELSE abcKernel
  /\ abcConfig' = [abcConfig EXCEPT !.WriteProtection =
                     IF abcConfig.there
                     THEN abcState'.Nested > 0 /\ abcSettings.DisableVariableWrite ELSE @]
  /\ abcImages' =
       Append([i \in DOMAIN abcImages |-> [abcImages[i] EXCEPT !.alone = FALSE]],
              [apple |-> apple, own |-> {}, first |-> 0,
               alone |-> apple /\ wake => abcState.HibernateImageAddress = 0])
  /\ abcStarted' = abcStarted + 1
  /\ UNCHANGED <<abcSettings, abcPhase, abcTypes, abcHandlers, abcCalled>>

\* An image starts: the notes about allocations are cleared, boot.efi is counted, and
\* the runtime services are told what to protect.
OcStartImage(apple, wake, room) ==
  /\ Booting /\ Len(abcImages) < AbcDepth /\ abcStarted < AbcStarts
  /\ abcState' = [abcState EXCEPT !.MinAllocatedAddr = 0,
                    !.Nested = IF apple THEN @ + 1 ELSE @, !.Wake = IF apple THEN wake ELSE @]
  /\ abcKernel' = IF apple THEN AppleMapPrepareBooterState(room) ELSE abcKernel
  /\ abcConfig' = [abcConfig EXCEPT !.WriteProtection =
                     IF abcConfig.there
                     THEN abcState'.Nested > 0 /\ abcSettings.DisableVariableWrite ELSE @]
  /\ abcImages' =
       Append([i \in DOMAIN abcImages |-> [abcImages[i] EXCEPT !.alone = FALSE]],
              [apple |-> apple, own |-> {}, first |-> 0,
               alone |-> apple /\ wake => abcState.HibernateImageAddress = 0])
  /\ abcStarted' = abcStarted + 1
  /\ UNCHANGED <<abcSettings, abcPhase, abcTypes, abcHandlers, abcCalled>>

\* StartImage comes back: "We failed but other operating systems should be loadable."
\* Nothing but the count is restored.
ImageReturns ==
  /\ Booting /\ abcImages # << >>
  /\ abcImages' = Front(abcImages)
  /\ abcState' = [abcState EXCEPT !.Nested = IF Top.apple THEN @ - 1 ELSE @]
  /\ UNCHANGED <<abcSettings, abcKernel, abcConfig, abcPhase, abcTypes, abcHandlers, abcCalled,
                 abcStarted>>

\* What an image knows of its own pages.
Got(image, any, addr) ==
  IF ~any THEN [image EXCEPT !.own = @ \cup {addr}]
  ELSE IF image.first = 0 THEN [image EXCEPT !.first = addr] ELSE image

\* EfiLoaderData pages at an address of the image's choice, or anywhere.
OcAllocatePages(any, addr) ==
  /\ Booting /\ abcImages # << >>
  /\ abcState' =
       IF abcState.Nested = 0 THEN abcState
       ELSE IF ~any
       THEN [abcState EXCEPT !.MinAllocatedAddr = IF @ = 0 \/ addr < @ THEN addr ELSE @]
       ELSE IF abcState.Wake /\ abcState.HibernateImageAddress = 0
       THEN [abcState EXCEPT !.HibernateImageAddress = addr]
       ELSE abcState
  /\ abcImages' = [abcImages EXCEPT ![Len(abcImages)] = Got(@, any, addr)]
  /\ UNCHANGED <<abcSettings, abcKernel, abcConfig, abcPhase, abcTypes, abcHandlers, abcCalled,
                 abcStarted>>

\* Where the entry of the kernel is patched, if it is.
AppleMapPrepareKernelJump(address) ==
  IF abcSettings.AvoidRuntimeDefrag \/ abcSettings.DiscardHibernateMap
  THEN [abcKernel EXCEPT !.Entry = address] ELSE abcKernel

\* The caller's map key may be out of date; ForceExitBootServices then tries once more
\* with a new one, if it can get a map.
ForcedExit(current, map) ==
  \/ current
  \/ abcState.Nested > 0 /\ abcSettings.ForceExitBootServices /\ map

\* Mutant: the handlers are forgotten only once boot services are gone.
OcExitBootServicesRepeats(current, map) ==
  LET left == ForcedExit(current, map) IN
  /\ Booting /\ abcImages # << >>
  /\ abcCalled' = IF abcHandlers THEN abcCalled + 1 ELSE abcCalled
  /\ abcHandlers' = ~left
  /\ abcPhase' = IF left THEN "exited" ELSE "boot"
  /\ UNCHANGED <<abcSettings, abcImages, abcState, abcKernel, abcConfig, abcTypes, abcStarted>>

\* The exit handlers are called and forgotten, whatever comes of it.
OcExitBootServices(current, map) ==
  LET left == ForcedExit(current, map) IN
  /\ Booting /\ abcImages # << >>
  /\ abcHandlers' = FALSE /\ abcCalled' = IF abcHandlers THEN abcCalled + 1 ELSE abcCalled
  /\ abcPhase' = IF left THEN "exited" ELSE "boot"
  /\ abcKernel' =
       IF ~left \/ abcState.Nested = 0 THEN abcKernel
       ELSE AppleMapPrepareKernelJump(IF abcState.Wake THEN abcState.HibernateImageAddress
                                      ELSE abcState.MinAllocatedAddr)
  /\ UNCHANGED <<abcSettings, abcImages, abcState, abcConfig, abcTypes, abcStarted>>

\* The runtime descriptors that boot.efi must not move are shown as memory mapped
\* I/O, all but the one with the copy of the system table and those too many to save.
ProtectRtMemoryFromRelocation ==
  LET others == {d \in 1 .. AbcDescs : ~(d = 1 /\ abcKernel.SysTableRtArea)}
  IN  {d \in others : Cardinality({e \in others : e < d}) < RT_RELOC_PROTECT_MAX_NUM}

AppleMapPrepareMemState ==
  LET saved == IF abcSettings.AvoidRuntimeDefrag THEN ProtectRtMemoryFromRelocation
               ELSE abcKernel.RelocInfo IN
  /\ abcTypes' = IF abcSettings.AvoidRuntimeDefrag
                 THEN [d \in 1 .. AbcDescs |-> IF d \in saved THEN "mmio" ELSE abcTypes[d]]
                 ELSE abcTypes
  /\ abcKernel' = [abcKernel EXCEPT !.RelocInfo = saved,
                     !.VmMapDescSize = IF abcSettings.SetupVirtualMap THEN 1 ELSE @]

\* The override removes itself, so this happens once.
OcSetVirtualAddressMap ==
  /\ abcPhase = "exited"
  /\ IF abcState.Nested = 0 THEN UNCHANGED <<abcTypes, abcKernel>> ELSE AppleMapPrepareMemState
  /\ abcPhase' = "mapped"
  /\ UNCHANGED <<abcSettings, abcImages, abcState, abcConfig, abcHandlers, abcCalled, abcStarted>>

RestoreProtectedRtMemoryTypes ==
  [d \in 1 .. AbcDescs |-> IF d \in abcKernel.RelocInfo THEN "runtime" ELSE abcTypes[d]]

AppleMapPrepareForBooting ==
  IF abcSettings.AvoidRuntimeDefrag THEN RestoreProtectedRtMemoryTypes ELSE abcTypes

\* A hibernated kernel is handed its map in the image; it is discarded, or restored if
\* the size of a descriptor was saved by the virtual mapping.
AppleMapPrepareForHibernateWake ==
  IF abcSettings.DiscardHibernateMap THEN OriginalTypes
  ELSE IF abcKernel.VmMapDescSize = 0 THEN abcTypes
  ELSE AppleMapPrepareForBooting

\* The map after the patched entry was reached.
AppleMapPrepareKernelState ==
  IF abcState.Wake THEN AppleMapPrepareForHibernateWake ELSE AppleMapPrepareForBooting

\* Where the image on top has put the kernel or the hibernate image.
KernelAddress == IF abcState.Wake THEN Top.first ELSE IF Top.own = {} THEN 0 ELSE Min(Top.own)

\* boot.efi jumps.  Unless the jump hits the patch the kernel runs at once.
KernelStarts ==
  /\ abcPhase = "mapped" /\ Top.apple /\ KernelAddress # 0
  /\ abcPhase' = "kernel"
  /\ abcTypes' = IF abcKernel.Entry = KernelAddress THEN AppleMapPrepareKernelState ELSE abcTypes
  /\ UNCHANGED <<abcSettings, abcImages, abcState, abcKernel, abcConfig, abcHandlers, abcCalled,
                 abcStarted>>

\* The machine is started again.
MachineRestarts ==
  /\ abcSettings.on
  /\ abcSettings' = Off /\ abcImages' = << >> /\ abcState' = NoNotes /\ abcKernel' = NoKernel
  /\ abcConfig' = NoRuntime /\ abcPhase' = "boot" /\ abcTypes' = OriginalTypes
  /\ abcHandlers' = TRUE /\ abcCalled' = 0 /\ abcStarted' = 0

AbcNext ==
  \/ \E settings \in AbcSettings, there \in BOOLEAN : OcAbcInitialize(settings, there)
  \/ SetGetVariableHookHandler
  \/ \E apple, wake, room \in BOOLEAN : OcStartImage(apple, wake, room)
  \/ ImageReturns
  \/ \E any \in BOOLEAN, addr \in AbcAddress : OcAllocatePages(any, addr)
  \/ \E current, map \in BOOLEAN : OcExitBootServices(current, map)
  \/ OcSetVirtualAddressMap
  \/ KernelStarts
  \/ MachineRestarts

AbcSpec == AbcInit /\ [][AbcNext]_abcVars

----------------------------------------------------------------------------
\* A kernel never sees the types that were changed to keep boot.efi away from the
\* runtime memory, whatever images ran and failed before: the patch is where its own
\* boot.efi put it.  Left out are a boot.efi that started another image itself, or
\* that wakes after another one tried to (its notes are then not its own), and a wake
\* without the virtual mapping (KernelSupport.c:338-385, 428-464, 571-634).
KernelPrepared ==
  /\ abcPhase = "kernel" /\ abcSettings.AvoidRuntimeDefrag /\ Top.alone
  /\ abcState.Wake => abcSettings.DiscardHibernateMap \/ abcSettings.SetupVirtualMap
  => abcTypes = OriginalTypes

\* An operating system that is not Apple's gets what the firmware has, even after any
\* number of boot.efi failed: nothing is patched, no type is changed, and its
\* variables can be written, unless it began before the boot.efi it started itself
\* (ServiceOverrides.c:360-367, 384-387, 553-558).
OthersUntouched ==
  abcPhase \in {"exited", "mapped"} /\ abcImages # << >> /\ (\A i \in DOMAIN abcImages : ~abcImages[i].apple) =>
    /\ abcKernel.Entry = 0 /\ abcTypes = OriginalTypes
    /\ Top.alone => ~abcConfig.WriteProtection

\* Neither a kernel nor another operating system sees what was changed for boot.efi
\* (KernelSupport.c:338-385, 428-464, 571-634, ServiceOverrides.c:360-387, 553-558).
KernelsPrepared == KernelPrepared /\ OthersUntouched

\* "Even if ExitBootServices fails, do not subsequently call the events we handled.":
\* over any number of attempts, by any images, they are called once, and boot
\* services do not end without them (ServiceOverrides.c:536-549).
ExitHandlersOnce ==
  /\ abcCalled <= 1
  /\ abcPhase # "boot" => abcCalled = 1
=============================================================================
