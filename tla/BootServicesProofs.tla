------------------------- MODULE BootServicesProofs -------------------------
(***************************************************************************)
(* Proofs about what changes the firmware's services for a boot.           *)
(*                                                                         *)
(* What boot.efi and its kernel are made to see, for every number of       *)
(* images, addresses and memory descriptors: the exit handlers are called  *)
(* once, a kernel gets the memory map of the firmware, and another         *)
(* operating system gets the firmware as it is.                            *)
(*                                                                         *)
(* The cleanup of variables, for every store, every set of variables that  *)
(* are kept, refused or not found, and any number of failures: a cleanup   *)
(* that comes to the end of the list has left nothing that it may delete.  *)
(*                                                                         *)
(* The walk over the names of variables, for every store and any number    *)
(* of deletions on the way: it returns each once, what can be read, and    *)
(* everything that is there all the time.                                  *)
(*                                                                         *)
(* The slide of the kernel, for every memory map and every number of       *)
(* slides: the sums that are compared are those of the free memory, so a   *)
(* slide that is chosen fits, and boot.efi sees only that one.             *)
(***************************************************************************)
EXTENDS MCBootServices, SequenceLemmas, FiniteSetTheorems

AbcImage == [apple : BOOLEAN, own : SUBSET AbcAddress, first : AbcAddress \cup {0},
             alone : BOOLEAN]

AbcTypeOK ==
  /\ \/ abcSettings \in AbcSettings
     \/ /\ abcSettings = Off /\ abcPhase = "boot" /\ abcImages = << >>
        /\ abcConfig = NoRuntime
  /\ abcImages \in Seq(AbcImage)
  /\ abcState \in [Nested : Nat, MinAllocatedAddr : AbcAddress \cup {0},
                   HibernateImageAddress : AbcAddress \cup {0}, Wake : BOOLEAN]
  /\ abcKernel \in [SysTableRtArea : BOOLEAN, VmMapDescSize : {0, 1},
                    RelocInfo : SUBSET (1 .. AbcDescs), Entry : AbcAddress \cup {0}]
  /\ abcConfig \in [there : BOOLEAN, WriteProtection : BOOLEAN]
  /\ abcPhase \in {"boot", "exited", "mapped", "kernel"}
  /\ abcPhase # "boot" => abcImages # << >>

----------------------------------------------------------------------------
\* The count is the number of boot.efi that run, and what runs below another image has
\* seen that start.
Booters(images) == {i \in DOMAIN images : images[i].apple}

ImagesCounted ==
  /\ abcState.Nested = Cardinality(Booters(abcImages))
  /\ \A i \in 1 .. (Len(abcImages) - 1) : ~abcImages[i].alone

\* What the context has noted is what the boot.efi on top did itself.
NotesAreOwn ==
  abcImages # << >> /\ Top.apple /\ Top.alone =>
    /\ abcState.MinAllocatedAddr \in Top.own \cup {0}
    /\ abcState.MinAllocatedAddr = 0 => Top.own = {}
    /\ \A a \in Top.own : abcState.MinAllocatedAddr <= a
    /\ abcState.Wake => abcState.HibernateImageAddress = Top.first

\* The entry of a kernel is patched when boot services end under a boot.efi, where the
\* notes say.
EntryFollowsNotes ==
  abcKernel.Entry =
    IF abcPhase = "boot" \/ abcState.Nested = 0
       \/ ~(abcSettings.AvoidRuntimeDefrag \/ abcSettings.DiscardHibernateMap)
    THEN 0
    ELSE IF abcState.Wake THEN abcState.HibernateImageAddress ELSE abcState.MinAllocatedAddr

\* What is saved of the runtime descriptors is what was changed in the map.
TypesSaved ==
  /\ abcPhase \in {"boot", "exited"} => abcTypes = OriginalTypes /\ abcKernel.RelocInfo = {}
  /\ abcPhase = "mapped" =>
       /\ abcTypes = [d \in 1 .. AbcDescs |-> IF d \in abcKernel.RelocInfo THEN "mmio" ELSE "runtime"]
       /\ abcState.Nested = 0 => abcKernel.RelocInfo = {}
       /\ ~abcSettings.AvoidRuntimeDefrag => abcKernel.RelocInfo = {}
       /\ abcState.Nested # 0 /\ abcSettings.SetupVirtualMap => abcKernel.VmMapDescSize = 1

\* Variables are protected only while a boot.efi runs or after one started an image.
ProtectedForBooter ==
  /\ abcConfig.WriteProtection => abcConfig.there
  /\ abcImages # << >> /\ Top.alone /\ abcConfig.WriteProtection => abcState.Nested # 0

AbcInv ==
  /\ AbcTypeOK /\ ImagesCounted /\ NotesAreOwn /\ EntryFollowsNotes /\ TypesSaved
  /\ ProtectedForBooter
  /\ abcPhase = "kernel" => KernelPrepared

HandlersInv ==
  /\ abcCalled = IF abcHandlers THEN 0 ELSE 1
  /\ abcPhase # "boot" => ~abcHandlers

\* However often boot services are asked to end, by whatever images, the handlers are
\* called once, and never left out (ServiceOverrides.c:536-549).
THEOREM HandlersCalledOnce == AbcSpec => []ExitHandlersOnce
<1>1. AbcInit => HandlersInv
  BY DEF AbcInit, HandlersInv
<1>2. HandlersInv /\ [AbcNext]_abcVars => HandlersInv'
  <2> SUFFICES ASSUME HandlersInv, [AbcNext]_abcVars PROVE HandlersInv'
    OBVIOUS
  <2>1. ASSUME NEW current \in BOOLEAN, NEW map \in BOOLEAN, OcExitBootServices(current, map)
        PROVE  HandlersInv'
    BY <2>1 DEF HandlersInv, OcExitBootServices, Booting
  <2>2. CASE OcSetVirtualAddressMap \/ KernelStarts
    BY <2>2 DEF HandlersInv, OcSetVirtualAddressMap, KernelStarts
  <2>3. CASE MachineRestarts
    BY <2>3 DEF HandlersInv, MachineRestarts
  <2>4. CASE UNCHANGED <<abcPhase, abcHandlers, abcCalled>>
    BY <2>4 DEF HandlersInv
  <2> QED
    BY <2>1, <2>2, <2>3, <2>4
    DEF AbcNext, abcVars, OcAbcInitialize, SetGetVariableHookHandler, OcStartImage,
        ImageReturns, OcAllocatePages
<1>3. HandlersInv => ExitHandlersOnce
  BY DEF HandlersInv, ExitHandlersOnce
<1> QED
  BY <1>1, <1>2, <1>3, PTL DEF AbcSpec

----------------------------------------------------------------------------
\* A list of images that another one joins, or that the one on top leaves.
LEMMA CountBegins == Booters(<< >>) = {} /\ Cardinality(Booters(<< >>)) = 0
  BY FS_EmptySet DEF Booters

LEMMA BootersFinite ==
  ASSUME NEW images \in Seq(AbcImage)
  PROVE  IsFiniteSet(Booters(images)) /\ Cardinality(Booters(images)) \in Nat
<1>1. IsFiniteSet(1 .. Len(images)) /\ DOMAIN images = 1 .. Len(images)
  BY FS_Interval
<1> QED
  BY <1>1, FS_Subset, FS_CardinalityType DEF Booters

LEMMA ImageJoins ==
  ASSUME NEW images \in Seq(AbcImage), NEW image \in AbcImage,
         NEW below \in Seq(AbcImage), Len(below) = Len(images),
         \A i \in 1 .. Len(images) : below[i].apple = images[i].apple
  PROVE  Cardinality(Booters(Append(below, image))) =
           IF image.apple THEN Cardinality(Booters(images)) + 1 ELSE Cardinality(Booters(images))
<1> DEFINE joined == Append(below, image)  top == Len(images) + 1
<1>1. /\ DOMAIN images = 1 .. Len(images) /\ DOMAIN joined = 1 .. top
      /\ \A i \in 1 .. Len(images) : joined[i] = below[i]
      /\ joined[top] = image
  OBVIOUS
<1>2. Booters(joined) = IF image.apple THEN Booters(images) \cup {top} ELSE Booters(images)
  <2> HIDE DEF joined
  <2> QED
    BY <1>1 DEF Booters
<1>3. top \notin Booters(images)
  BY <1>1 DEF Booters
<1> QED
  BY <1>2, <1>3, BootersFinite, FS_AddElement

LEMMA ImageLeaves ==
  ASSUME NEW images \in Seq(AbcImage), images # << >>
  PROVE  /\ Front(images) \in Seq(AbcImage) /\ Len(Front(images)) = Len(images) - 1
         /\ \A i \in 1 .. (Len(images) - 1) : Front(images)[i] = images[i]
         /\ Cardinality(Booters(Front(images))) =
              IF Last(images).apple THEN Cardinality(Booters(images)) - 1
              ELSE Cardinality(Booters(images))
<1>0. Len(images) \in Nat \ {0} /\ DOMAIN images = 1 .. Len(images)
  BY EmptySeq
<1>1. /\ Front(images) \in Seq(AbcImage) /\ Len(Front(images)) = Len(images) - 1
      /\ \A i \in 1 .. (Len(images) - 1) : Front(images)[i] = images[i]
  BY <1>0 DEF Front
<1>2. DOMAIN Front(images) = 1 .. (Len(images) - 1)
  BY <1>1
<1>3. Booters(Front(images)) = Booters(images) \ {Len(images)}
  BY <1>0, <1>1, <1>2 DEF Booters
<1>4. Len(images) \in Booters(images) <=> Last(images).apple
  BY <1>0 DEF Booters, Last
<1> QED
  BY <1>1, <1>3, <1>4, BootersFinite, FS_RemoveElement

\* A boot.efi on top is counted, and without any the count is 0.
LEMMA TopCounted ==
  ASSUME NEW images \in Seq(AbcImage)
  PROVE  /\ images # << >> /\ Last(images).apple => Cardinality(Booters(images)) # 0
         /\ (\A i \in DOMAIN images : ~images[i].apple) => Cardinality(Booters(images)) = 0
<1>1. images # << >> /\ Last(images).apple => Len(images) \in Booters(images)
  BY DEF Booters, Last
<1>2. (\A i \in DOMAIN images : ~images[i].apple) => Booters(images) = {}
  BY DEF Booters
<1> QED
  BY <1>1, <1>2, BootersFinite, FS_EmptySet

----------------------------------------------------------------------------
LEMMA AbcInitInv == AbcInit => AbcInv
<1> SUFFICES ASSUME AbcInit PROVE AbcInv
  OBVIOUS
<1>1. AbcTypeOK
  BY DEF AbcInit, AbcTypeOK, NoNotes, NoKernel, NoRuntime
<1>2. ImagesCounted
  BY CountBegins DEF AbcInit, ImagesCounted, NoNotes
<1>3. NotesAreOwn /\ EntryFollowsNotes /\ TypesSaved /\ ProtectedForBooter /\ abcPhase = "boot"
  BY DEF AbcInit, NotesAreOwn, EntryFollowsNotes, TypesSaved, ProtectedForBooter, NoNotes,
     NoKernel, NoRuntime
<1> QED
  BY <1>1, <1>2, <1>3 DEF AbcInv

\* The settings arrive before any image.
LEMMA InitializeInv ==
  ASSUME AbcInv, NEW settings \in AbcSettings, NEW there \in BOOLEAN,
         OcAbcInitialize(settings, there)
  PROVE  AbcInv'
<1>1. abcPhase = "boot" /\ abcImages = << >> /\ abcConfig = NoRuntime
  BY DEF AbcInv, AbcTypeOK, OcAbcInitialize, AbcSettings
<1>2. abcConfig' = [there |-> there, WriteProtection |-> FALSE]
  BY <1>1 DEF OcAbcInitialize, NoRuntime
<1>3. AbcTypeOK'
  BY <1>1, <1>2 DEF AbcInv, AbcTypeOK, OcAbcInitialize
<1>4. ImagesCounted' /\ NotesAreOwn'
  BY <1>1 DEF AbcInv, ImagesCounted, NotesAreOwn, OcAbcInitialize, Top
<1>5. EntryFollowsNotes' /\ TypesSaved'
  BY <1>1 DEF AbcInv, EntryFollowsNotes, TypesSaved, OcAbcInitialize, OriginalTypes
<1>6. ProtectedForBooter' /\ abcPhase' # "kernel"
  BY <1>1, <1>2 DEF ProtectedForBooter, OcAbcInitialize
<1> QED
  BY <1>3, <1>4, <1>5, <1>6 DEF AbcInv

LEMMA HookFoundInv == AbcInv /\ SetGetVariableHookHandler => AbcInv'
<1> SUFFICES ASSUME AbcInv, SetGetVariableHookHandler PROVE AbcInv'
  OBVIOUS
<1>1. abcPhase = "boot" /\ abcSettings \in AbcSettings /\ ~abcConfig.there
      /\ abcConfig \in [there : BOOLEAN, WriteProtection : BOOLEAN]
      /\ abcConfig' = [abcConfig EXCEPT !.there = TRUE]
  BY DEF AbcInv, AbcTypeOK, SetGetVariableHookHandler, Booting, Off
<1>2. AbcTypeOK'
  BY <1>1 DEF AbcInv, AbcTypeOK, SetGetVariableHookHandler
<1>3. ImagesCounted' /\ NotesAreOwn' /\ EntryFollowsNotes' /\ TypesSaved'
  BY DEF AbcInv, ImagesCounted, NotesAreOwn, EntryFollowsNotes, TypesSaved, OriginalTypes, Top,
     Booters, SetGetVariableHookHandler
<1>4. ProtectedForBooter' /\ abcPhase' # "kernel"
  BY <1>1 DEF AbcInv, ProtectedForBooter, SetGetVariableHookHandler
<1> QED
  BY <1>2, <1>3, <1>4 DEF AbcInv

\* An image that starts is alone, and no other one is any longer.
LEMMA StartImageInv ==
  ASSUME AbcInv, NEW apple \in BOOLEAN, NEW wake \in BOOLEAN, NEW room \in BOOLEAN,
         OcStartImage(apple, wake, room)
  PROVE  AbcInv'
<1> DEFINE below == [i \in DOMAIN abcImages |-> [abcImages[i] EXCEPT !.alone = FALSE]]
           image == [apple |-> apple, own |-> {}, first |-> 0,
                     alone |-> apple /\ wake => abcState.HibernateImageAddress = 0]
<1>1. /\ abcPhase = "boot" /\ abcPhase' = "boot" /\ abcSettings \in AbcSettings
      /\ abcImages \in Seq(AbcImage) /\ abcState.Nested \in Nat
  BY DEF AbcInv, AbcTypeOK, OcStartImage, Booting, Off
<1>2. /\ below \in Seq(AbcImage) /\ Len(below) = Len(abcImages)
      /\ \A i \in 1 .. Len(abcImages) : below[i].apple = abcImages[i].apple /\ ~below[i].alone
  <2>1. DOMAIN abcImages = 1 .. Len(abcImages) /\ Len(abcImages) \in Nat
        /\ \A i \in 1 .. Len(abcImages) : abcImages[i] \in AbcImage
    BY <1>1
  <2>2. ASSUME NEW i \in 1 .. Len(abcImages)
        PROVE  /\ below[i] \in AbcImage
               /\ below[i].apple = abcImages[i].apple /\ ~below[i].alone
    BY <2>1 DEF AbcImage
  <2>3. below \in [1 .. Len(abcImages) -> AbcImage]
    BY <2>1, <2>2
  <2> HIDE DEF below
  <2> QED
    BY <2>1, <2>2, <2>3
<1>3. image \in AbcImage /\ image.apple = apple /\ image.own = {} /\ image.first = 0
      /\ image.alone = (apple /\ wake => abcState.HibernateImageAddress = 0)
  BY DEF AbcImage
<1>4. abcImages' = Append(below, image)
  BY DEF OcStartImage
<1> HIDE DEF below, image
<1>5. /\ abcImages' \in Seq(AbcImage) /\ Len(abcImages') = Len(abcImages) + 1 /\ Top' = image
      /\ \A i \in 1 .. Len(abcImages) : ~abcImages'[i].alone
      /\ abcImages' # << >>
  BY <1>1, <1>2, <1>3, <1>4 DEF Top, Last
<1>6. abcState'.Nested = IF apple THEN abcState.Nested + 1 ELSE abcState.Nested
  BY DEF OcStartImage, AbcInv, AbcTypeOK
<1>7. ImagesCounted'
  <2>1. Cardinality(Booters(abcImages')) =
          IF apple THEN Cardinality(Booters(abcImages)) + 1 ELSE Cardinality(Booters(abcImages))
    BY <1>1, <1>2, <1>3, <1>4, ImageJoins
  <2> QED
    BY <2>1, <1>1, <1>5, <1>6 DEF AbcInv, ImagesCounted
<1>8. AbcTypeOK'
  <2>1. abcState' \in [Nested : Nat, MinAllocatedAddr : AbcAddress \cup {0},
                       HibernateImageAddress : AbcAddress \cup {0}, Wake : BOOLEAN]
    <3>1. /\ abcState \in [Nested : Nat, MinAllocatedAddr : AbcAddress \cup {0},
                            HibernateImageAddress : AbcAddress \cup {0}, Wake : BOOLEAN]
          /\ abcState' = [abcState EXCEPT !.MinAllocatedAddr = 0,
                            !.Nested = IF apple THEN @ + 1 ELSE @,
                            !.Wake = IF apple THEN wake ELSE @]
      BY DEF AbcInv, AbcTypeOK, OcStartImage
    <3>2. PICK n \in Nat : n = IF apple THEN abcState.Nested + 1 ELSE abcState.Nested
      BY <1>1
    <3>3. abcState' = [abcState EXCEPT !.MinAllocatedAddr = 0, !.Nested = n,
                                       !.Wake = IF apple THEN wake ELSE @]
      BY <3>1, <3>2
    <3> QED
      BY <3>1, <3>3
  <2>2. abcKernel' \in [SysTableRtArea : BOOLEAN, VmMapDescSize : {0, 1},
                        RelocInfo : SUBSET (1 .. AbcDescs), Entry : AbcAddress \cup {0}]
    BY DEF AbcInv, AbcTypeOK, OcStartImage, AppleMapPrepareBooterState
  <2>3. abcConfig' \in [there : BOOLEAN, WriteProtection : BOOLEAN]
    BY <1>1 DEF AbcInv, AbcTypeOK, OcStartImage, AbcSettings
  <2> QED
    BY <1>1, <1>5, <2>1, <2>2, <2>3 DEF AbcTypeOK, OcStartImage
<1>9. NotesAreOwn'
  <2>1. /\ abcState'.MinAllocatedAddr = 0
        /\ abcState'.HibernateImageAddress = abcState.HibernateImageAddress
        /\ apple => abcState'.Wake = wake
    BY DEF OcStartImage, AbcInv, AbcTypeOK
  <2> QED
    BY <1>3, <1>5, <2>1 DEF NotesAreOwn
<1>10. EntryFollowsNotes' /\ TypesSaved'
  <2>1. abcKernel'.Entry = abcKernel.Entry /\ abcKernel'.RelocInfo = abcKernel.RelocInfo
    BY DEF AbcInv, AbcTypeOK, OcStartImage, AppleMapPrepareBooterState
  <2> QED
    BY <1>1, <2>1 DEF AbcInv, EntryFollowsNotes, TypesSaved, OcStartImage, OriginalTypes
<1>11. ProtectedForBooter'
  <2>1. abcConfig'.there = abcConfig.there
    BY DEF AbcInv, AbcTypeOK, OcStartImage
  <2>2. abcConfig'.WriteProtection =
          IF abcConfig.there THEN abcState'.Nested > 0 /\ abcSettings.DisableVariableWrite
          ELSE abcConfig.WriteProtection
    BY DEF AbcInv, AbcTypeOK, OcStartImage
  <2> QED
    BY <2>1, <2>2, <1>1, <1>6 DEF AbcInv, ProtectedForBooter
<1> QED
  BY <1>1, <1>7, <1>8, <1>9, <1>10, <1>11 DEF AbcInv

\* What is left on top when an image returns has started another one, and is not alone.
LEMMA ImageReturnsInv == AbcInv /\ ImageReturns => AbcInv'
<1> SUFFICES ASSUME AbcInv, ImageReturns PROVE AbcInv'
  OBVIOUS
<1>1. /\ abcPhase = "boot" /\ abcPhase' = "boot" /\ abcSettings \in AbcSettings
      /\ abcImages \in Seq(AbcImage) /\ abcImages # << >> /\ abcState.Nested \in Nat
  BY DEF AbcInv, AbcTypeOK, ImageReturns, Booting, Off
<1>2. /\ abcImages' \in Seq(AbcImage) /\ Len(abcImages') = Len(abcImages) - 1
      /\ \A i \in 1 .. (Len(abcImages) - 1) : abcImages'[i] = abcImages[i]
      /\ Cardinality(Booters(abcImages')) =
           IF Top.apple THEN Cardinality(Booters(abcImages)) - 1
           ELSE Cardinality(Booters(abcImages))
  BY <1>1, ImageLeaves DEF ImageReturns, Top
<1>3. abcState'.Nested = IF Top.apple THEN abcState.Nested - 1 ELSE abcState.Nested
  BY DEF ImageReturns, AbcInv, AbcTypeOK
<1>4. abcState'.Nested = Cardinality(Booters(abcImages'))
  BY <1>2, <1>3 DEF AbcInv, ImagesCounted
<1>5. \A i \in 1 .. Len(abcImages') : ~abcImages'[i].alone
  BY <1>1, <1>2 DEF AbcInv, ImagesCounted
<1>6. abcImages' # << >> => ~Top'.alone
  <2>1. abcImages' # << >> => Len(abcImages') \in 1 .. Len(abcImages')
    BY <1>2, EmptySeq
  <2> QED
    BY <1>5, <2>1 DEF Top, Last
<1>7. AbcTypeOK'
  <2>1. abcState'.Nested \in Nat
    BY <1>2, <1>4, BootersFinite
  <2>2. /\ abcState \in [Nested : Nat, MinAllocatedAddr : AbcAddress \cup {0},
                          HibernateImageAddress : AbcAddress \cup {0}, Wake : BOOLEAN]
        /\ abcState' = [abcState EXCEPT !.Nested = abcState'.Nested]
    BY <1>3 DEF AbcInv, AbcTypeOK, ImageReturns
  <2>3. abcState' \in [Nested : Nat, MinAllocatedAddr : AbcAddress \cup {0},
                       HibernateImageAddress : AbcAddress \cup {0}, Wake : BOOLEAN]
    BY <2>1, <2>2
  <2> QED
    BY <1>1, <1>2, <2>3 DEF AbcInv, AbcTypeOK, ImageReturns
<1>8. ImagesCounted' /\ NotesAreOwn' /\ ProtectedForBooter'
  BY <1>2, <1>4, <1>5, <1>6
  DEF AbcInv, ImagesCounted, NotesAreOwn, ProtectedForBooter, ImageReturns
<1>9. EntryFollowsNotes' /\ TypesSaved'
  BY <1>1 DEF AbcInv, EntryFollowsNotes, TypesSaved, ImageReturns, OriginalTypes
<1> QED
  BY <1>1, <1>7, <1>8, <1>9 DEF AbcInv

\* The image on top notes what it gets, and so does the context while a boot.efi runs.
LEMMA AllocateInv ==
  ASSUME AbcInv, NEW any \in BOOLEAN, NEW addr \in AbcAddress, OcAllocatePages(any, addr)
  PROVE  AbcInv'
<1> DEFINE top == Len(abcImages)
           image == Got(Top, any, addr)
<1>1. /\ abcPhase = "boot" /\ abcPhase' = "boot" /\ abcSettings \in AbcSettings
      /\ abcImages \in Seq(AbcImage) /\ abcImages # << >>
      /\ abcState \in [Nested : Nat, MinAllocatedAddr : AbcAddress \cup {0},
                        HibernateImageAddress : AbcAddress \cup {0}, Wake : BOOLEAN]
      /\ addr \in Nat \ {0} /\ AbcAddress \subseteq Nat
  BY BootCompatAssumption DEF AbcInv, AbcTypeOK, OcAllocatePages, Booting, Off
<1>2. top \in Nat \ {0} /\ DOMAIN abcImages = 1 .. top /\ Top \in AbcImage
  <2>1. top \in Nat \ {0} /\ DOMAIN abcImages = 1 .. top
    BY <1>1, EmptySeq
  <2> QED
    BY <1>1, <2>1 DEF Top, Last
<1>3. /\ image \in AbcImage /\ image.apple = Top.apple /\ image.alone = Top.alone
      /\ image.own = IF any THEN Top.own ELSE Top.own \cup {addr}
      /\ image.first = IF any /\ Top.first = 0 THEN addr ELSE Top.first
  BY <1>2 DEF AbcImage, Got
<1>4. abcImages' = [abcImages EXCEPT ![top] = image]
  BY DEF OcAllocatePages, Top, Last
<1> HIDE DEF image
<1>5. /\ abcImages' \in Seq(AbcImage) /\ Len(abcImages') = top /\ Top' = image
      /\ DOMAIN abcImages' = 1 .. top
      /\ \A i \in 1 .. (top - 1) : abcImages'[i] = abcImages[i]
      /\ abcImages' # << >>
  <2>1. abcImages' \in Seq(AbcImage) /\ Len(abcImages') = top
    BY <1>1, <1>2, <1>3, <1>4, ExceptSeq
  <2>2. /\ DOMAIN abcImages' = 1 .. top /\ abcImages'[top] = image
        /\ \A i \in 1 .. (top - 1) : abcImages'[i] = abcImages[i]
    <3>1. \A i \in 1 .. top : abcImages'[i] = IF i = top THEN image ELSE abcImages[i]
      BY <1>2, <1>4
    <3>2. DOMAIN abcImages' = 1 .. top
      BY <2>1, LenProperties
    <3>3. top \in 1 .. top /\ \A i \in 1 .. (top - 1) : i \in 1 .. top /\ i # top
      <4> HIDE DEF top
      <4>1. top \in Nat /\ top # 0
        BY <1>2
      <4> QED
        BY <4>1
    <3> QED
      BY <3>1, <3>2, <3>3
  <2> QED
    BY <1>2, <2>1, <2>2 DEF Top, Last
<1>6. Booters(abcImages') = Booters(abcImages)
  BY <1>2, <1>3, <1>4, <1>5 DEF Booters, Top, Last
<1>7. /\ abcState'.Nested = abcState.Nested /\ abcState'.Wake = abcState.Wake
      /\ abcState' \in [Nested : Nat, MinAllocatedAddr : AbcAddress \cup {0},
                         HibernateImageAddress : AbcAddress \cup {0}, Wake : BOOLEAN]
  BY <1>1 DEF OcAllocatePages
<1>8. AbcTypeOK'
  BY <1>1, <1>5, <1>7 DEF AbcInv, AbcTypeOK, OcAllocatePages
<1>9. ImagesCounted'
  BY <1>2, <1>5, <1>6, <1>7 DEF AbcInv, ImagesCounted
<1>10. NotesAreOwn'
  <2> SUFFICES ASSUME Top'.apple, Top'.alone
               PROVE  /\ abcState'.MinAllocatedAddr \in Top'.own \cup {0}
                      /\ abcState'.MinAllocatedAddr = 0 => Top'.own = {}
                      /\ \A a \in Top'.own : abcState'.MinAllocatedAddr <= a
                      /\ abcState'.Wake => abcState'.HibernateImageAddress = Top'.first
    BY DEF NotesAreOwn
  <2>1. /\ abcState.MinAllocatedAddr \in Top.own \cup {0}
        /\ abcState.MinAllocatedAddr = 0 => Top.own = {}
        /\ \A a \in Top.own : abcState.MinAllocatedAddr <= a
        /\ abcState.Wake => abcState.HibernateImageAddress = Top.first
    BY <1>1, <1>3, <1>5 DEF AbcInv, NotesAreOwn
  <2>2. abcState.Nested # 0
    BY <1>1, <1>3, <1>5, TopCounted DEF AbcInv, ImagesCounted, Top
  <2>3. CASE any
    <3>1. abcState'.MinAllocatedAddr = abcState.MinAllocatedAddr
      BY <2>3, <1>1 DEF OcAllocatePages
    <3>2. abcState.Wake => abcState'.HibernateImageAddress =
            IF abcState.HibernateImageAddress = 0 THEN addr ELSE abcState.HibernateImageAddress
      BY <2>2, <2>3, <1>1 DEF OcAllocatePages
    <3> QED
      BY <2>1, <2>3, <3>1, <3>2, <1>3, <1>5, <1>7
  <2>4. CASE ~any
    <3>1. /\ abcState'.HibernateImageAddress = abcState.HibernateImageAddress
          /\ abcState'.MinAllocatedAddr =
               IF abcState.MinAllocatedAddr = 0 \/ addr < abcState.MinAllocatedAddr
               THEN addr ELSE abcState.MinAllocatedAddr
      BY <2>2, <2>4, <1>1 DEF OcAllocatePages
    <3>2. Top'.own = Top.own \cup {addr} /\ Top'.first = Top.first /\ Top.own \subseteq Nat
      BY <2>4, <1>1, <1>2, <1>3, <1>5 DEF AbcImage
    <3>3. abcState.MinAllocatedAddr \in Nat
      <4>1. abcState.MinAllocatedAddr \in AbcAddress \cup {0}
        BY <1>1
      <4>2. \A a \in AbcAddress \cup {0} : a \in Nat
        BY BootCompatAssumption
      <4> QED
        BY <4>1, <4>2
    <3> QED
      BY <2>1, <3>1, <3>2, <3>3, <1>1, <1>7
  <2> QED
    BY <2>3, <2>4
<1>11. EntryFollowsNotes' /\ TypesSaved' /\ ProtectedForBooter'
  BY <1>1, <1>3, <1>5, <1>7
  DEF AbcInv, EntryFollowsNotes, TypesSaved, ProtectedForBooter, OcAllocatePages, OriginalTypes
<1> QED
  BY <1>1, <1>8, <1>9, <1>10, <1>11 DEF AbcInv

\* Boot services end, or do not.
LEMMA ExitInv ==
  ASSUME AbcInv, NEW current \in BOOLEAN, NEW map \in BOOLEAN, OcExitBootServices(current, map)
  PROVE  AbcInv'
<1>1. /\ abcPhase = "boot" /\ abcSettings \in AbcSettings /\ abcImages # << >>
      /\ UNCHANGED <<abcSettings, abcImages, abcState, abcConfig, abcTypes>>
      /\ abcKernel \in [SysTableRtArea : BOOLEAN, VmMapDescSize : {0, 1},
                         RelocInfo : SUBSET (1 .. AbcDescs), Entry : AbcAddress \cup {0}]
      /\ abcKernel.Entry = 0
      /\ abcState.HibernateImageAddress \in AbcAddress \cup {0}
      /\ abcState.MinAllocatedAddr \in AbcAddress \cup {0}
  BY DEF AbcInv, AbcTypeOK, EntryFollowsNotes, OcExitBootServices, Booting, Off
<1>2. abcPhase' \in {"boot", "exited"}
  BY DEF OcExitBootServices
<1>3. /\ abcKernel' \in [SysTableRtArea : BOOLEAN, VmMapDescSize : {0, 1},
                          RelocInfo : SUBSET (1 .. AbcDescs), Entry : AbcAddress \cup {0}]
      /\ abcKernel'.RelocInfo = abcKernel.RelocInfo
      /\ abcKernel'.Entry =
           IF abcPhase' = "boot" \/ abcState.Nested = 0
              \/ ~(abcSettings.AvoidRuntimeDefrag \/ abcSettings.DiscardHibernateMap)
           THEN 0
           ELSE IF abcState.Wake THEN abcState.HibernateImageAddress ELSE abcState.MinAllocatedAddr
  BY <1>1 DEF OcExitBootServices, AppleMapPrepareKernelJump
<1>4. AbcTypeOK'
  BY <1>1, <1>2, <1>3 DEF AbcInv, AbcTypeOK
<1>5. ImagesCounted' /\ NotesAreOwn' /\ ProtectedForBooter'
  BY <1>1 DEF AbcInv, ImagesCounted, NotesAreOwn, ProtectedForBooter, Top, Booters
<1>6. EntryFollowsNotes' /\ TypesSaved'
  BY <1>1, <1>2, <1>3 DEF AbcInv, EntryFollowsNotes, TypesSaved, OriginalTypes
<1> QED
  BY <1>2, <1>4, <1>5, <1>6 DEF AbcInv

\* The types are changed for a boot.efi only, and what is changed is saved.
LEMMA SetVirtualAddressMapInv == AbcInv /\ OcSetVirtualAddressMap => AbcInv'
<1> SUFFICES ASSUME AbcInv, OcSetVirtualAddressMap PROVE AbcInv'
  OBVIOUS
<1>1. /\ abcPhase = "exited" /\ abcPhase' = "mapped" /\ abcSettings \in AbcSettings
      /\ abcImages # << >>
      /\ UNCHANGED <<abcSettings, abcImages, abcState, abcConfig>>
      /\ abcKernel \in [SysTableRtArea : BOOLEAN, VmMapDescSize : {0, 1},
                         RelocInfo : SUBSET (1 .. AbcDescs), Entry : AbcAddress \cup {0}]
      /\ abcTypes = OriginalTypes /\ abcKernel.RelocInfo = {}
  BY DEF AbcInv, AbcTypeOK, TypesSaved, OcSetVirtualAddressMap
<1>2. abcKernel' \in [SysTableRtArea : BOOLEAN, VmMapDescSize : {0, 1},
                      RelocInfo : SUBSET (1 .. AbcDescs), Entry : AbcAddress \cup {0}]
      /\ abcKernel'.Entry = abcKernel.Entry /\ TypesSaved'
  <2>1. CASE abcState.Nested = 0
    BY <1>1, <2>1 DEF OcSetVirtualAddressMap, TypesSaved, OriginalTypes
  <2>2. CASE abcState.Nested # 0
    <3> DEFINE saved == IF abcSettings.AvoidRuntimeDefrag THEN ProtectRtMemoryFromRelocation
                        ELSE abcKernel.RelocInfo
    <3>1. saved \subseteq 1 .. AbcDescs
      BY <1>1 DEF ProtectRtMemoryFromRelocation
    <3>2. ~abcSettings.AvoidRuntimeDefrag => saved = {}
      BY <1>1
    <3>3. /\ abcTypes' = IF abcSettings.AvoidRuntimeDefrag
                         THEN [d \in 1 .. AbcDescs |-> IF d \in saved THEN "mmio" ELSE abcTypes[d]]
                         ELSE abcTypes
          /\ abcKernel' = [abcKernel EXCEPT !.RelocInfo = saved,
                             !.VmMapDescSize = IF abcSettings.SetupVirtualMap THEN 1 ELSE @]
      BY <2>2 DEF OcSetVirtualAddressMap, AppleMapPrepareMemState
    <3> HIDE DEF saved
    <3>4. /\ abcKernel' \in [SysTableRtArea : BOOLEAN, VmMapDescSize : {0, 1},
                              RelocInfo : SUBSET (1 .. AbcDescs), Entry : AbcAddress \cup {0}]
          /\ abcKernel'.Entry = abcKernel.Entry /\ abcKernel'.RelocInfo = saved
          /\ abcSettings.SetupVirtualMap => abcKernel'.VmMapDescSize = 1
      BY <1>1, <3>1, <3>3
    <3>5. abcTypes' = [d \in 1 .. AbcDescs |-> IF d \in saved THEN "mmio" ELSE "runtime"]
      BY <1>1, <3>2, <3>3 DEF OriginalTypes
    <3> QED
      BY <1>1, <2>2, <3>2, <3>4, <3>5 DEF TypesSaved
  <2> QED
    BY <2>1, <2>2
<1>3. AbcTypeOK'
  BY <1>1, <1>2 DEF AbcInv, AbcTypeOK
<1>4. ImagesCounted' /\ NotesAreOwn' /\ ProtectedForBooter'
  BY <1>1 DEF AbcInv, ImagesCounted, NotesAreOwn, ProtectedForBooter, Top, Booters
<1>5. EntryFollowsNotes'
  BY <1>1, <1>2 DEF AbcInv, EntryFollowsNotes
<1> QED
  BY <1>1, <1>2, <1>3, <1>4, <1>5 DEF AbcInv

\* The entry that was patched is the one boot.efi jumps to, so the types are restored.
LEMMA KernelStartsInv == AbcInv /\ KernelStarts => AbcInv'
<1> SUFFICES ASSUME AbcInv, KernelStarts PROVE AbcInv'
  OBVIOUS
<1>1. /\ abcPhase = "mapped" /\ abcPhase' = "kernel" /\ abcSettings \in AbcSettings
      /\ abcImages # << >> /\ Top.apple /\ abcImages \in Seq(AbcImage)
      /\ UNCHANGED <<abcSettings, abcImages, abcState, abcKernel, abcConfig>>
  BY DEF AbcInv, AbcTypeOK, KernelStarts, Off
<1>2. AbcTypeOK'
  BY <1>1 DEF AbcInv, AbcTypeOK
<1>3. ImagesCounted' /\ NotesAreOwn' /\ ProtectedForBooter'
  BY <1>1 DEF AbcInv, ImagesCounted, NotesAreOwn, ProtectedForBooter, Top, Booters
<1>4. EntryFollowsNotes' /\ TypesSaved'
  BY <1>1 DEF AbcInv, EntryFollowsNotes, TypesSaved
<1>5. ASSUME abcSettings.AvoidRuntimeDefrag, Top.alone,
             abcState.Wake => abcSettings.DiscardHibernateMap \/ abcSettings.SetupVirtualMap
      PROVE  abcTypes' = OriginalTypes
  <2>1. abcState.Nested # 0
    BY <1>1, TopCounted DEF AbcInv, ImagesCounted, Top
  <2>2. abcKernel.Entry = IF abcState.Wake THEN abcState.HibernateImageAddress
                          ELSE abcState.MinAllocatedAddr
    BY <1>1, <1>5, <2>1 DEF AbcInv, EntryFollowsNotes
  <2>3. abcKernel.Entry = KernelAddress
    <3>1. /\ abcState.MinAllocatedAddr \in Top.own \cup {0}
          /\ abcState.MinAllocatedAddr = 0 => Top.own = {}
          /\ \A a \in Top.own : abcState.MinAllocatedAddr <= a
          /\ abcState.Wake => abcState.HibernateImageAddress = Top.first
      BY <1>1, <1>5 DEF AbcInv, NotesAreOwn
    <3>2. CASE abcState.Wake
      BY <2>2, <3>1, <3>2 DEF KernelAddress
    <3>3. CASE ~abcState.Wake /\ Top.own = {}
      BY <2>2, <3>1, <3>3 DEF KernelAddress
    <3>4. CASE ~abcState.Wake /\ Top.own # {}
      <4>1. Top \in AbcImage
        <5>1. Len(abcImages) \in 1 .. Len(abcImages)
          BY <1>1, EmptySeq
        <5> QED
          BY <1>1, <5>1 DEF Top, Last
      <4>2. Top.own \subseteq Nat /\ abcState.MinAllocatedAddr \in Top.own
        <5>1. Top.own \subseteq AbcAddress
          BY <4>1 DEF AbcImage
        <5> QED
          BY <3>1, <3>4, <5>1, BootCompatAssumption
      <4>3. \A a \in Top.own : (\A b \in Top.own : a <= b) => a = abcState.MinAllocatedAddr
        BY <3>1, <4>2
      <4>4. Min(Top.own) = abcState.MinAllocatedAddr
        BY <3>1, <4>2, <4>3 DEF Min
      <4> QED
        BY <2>2, <3>4, <4>4 DEF KernelAddress
    <3> QED
      BY <3>2, <3>3, <3>4
  <2>4. abcTypes' = AppleMapPrepareKernelState
    BY <2>3 DEF KernelStarts
  <2>5. RestoreProtectedRtMemoryTypes = OriginalTypes
    BY <1>1 DEF AbcInv, TypesSaved, RestoreProtectedRtMemoryTypes, OriginalTypes
  <2>6. abcSettings.SetupVirtualMap => abcKernel.VmMapDescSize # 0
    BY <1>1, <2>1 DEF AbcInv, TypesSaved
  <2> QED
    BY <1>5, <2>4, <2>5, <2>6
    DEF AppleMapPrepareKernelState, AppleMapPrepareForHibernateWake, AppleMapPrepareForBooting
<1>6. KernelPrepared'
  BY <1>1, <1>5 DEF KernelPrepared, OriginalTypes, Top
<1> QED
  BY <1>2, <1>3, <1>4, <1>6 DEF AbcInv

----------------------------------------------------------------------------
LEMMA AbcNextInv == AbcInv /\ [AbcNext]_abcVars => AbcInv'
<1> SUFFICES ASSUME AbcInv, [AbcNext]_abcVars PROVE AbcInv'
  OBVIOUS
<1>1. CASE MachineRestarts
  <2>1. AbcInit'
    BY <1>1 DEF MachineRestarts, AbcInit, OriginalTypes
  <2>2. AbcTypeOK'
    BY <2>1 DEF AbcInit, AbcTypeOK, NoNotes, NoKernel, NoRuntime
  <2>3. ImagesCounted'
    BY <2>1, CountBegins DEF AbcInit, ImagesCounted, NoNotes
  <2>4. NotesAreOwn' /\ EntryFollowsNotes' /\ TypesSaved' /\ ProtectedForBooter'
        /\ abcPhase' = "boot"
    BY <2>1 DEF AbcInit, NotesAreOwn, EntryFollowsNotes, TypesSaved, ProtectedForBooter,
       NoNotes, NoKernel, NoRuntime
  <2> QED
    BY <2>2, <2>3, <2>4 DEF AbcInv
<1>2. CASE UNCHANGED abcVars
  BY <1>2 DEF abcVars, AbcInv, AbcTypeOK, ImagesCounted, NotesAreOwn, EntryFollowsNotes,
     TypesSaved, ProtectedForBooter, KernelPrepared, OriginalTypes, Top, Booters
<1> QED
  BY <1>1, <1>2, InitializeInv, HookFoundInv, StartImageInv, ImageReturnsInv, AllocateInv,
     ExitInv, SetVirtualAddressMapInv, KernelStartsInv
  DEF AbcNext

\* A kernel never sees the types that were changed for its boot.efi, and an operating
\* system that is not Apple's sees nothing changed at all, whatever images ran and failed
\* before (KernelSupport.c:338-385, 428-464, 571-634, ServiceOverrides.c:360-387, 553-558).
THEOREM KernelsGetTheirMap == AbcSpec => []KernelsPrepared
<1>1. AbcInv => KernelsPrepared
  <2> SUFFICES ASSUME AbcInv PROVE KernelPrepared /\ OthersUntouched
    BY DEF KernelsPrepared
  <2>1. KernelPrepared
    BY DEF AbcInv, KernelPrepared
  <2>2. ASSUME abcPhase \in {"exited", "mapped"}, abcImages # << >>,
               \A i \in DOMAIN abcImages : ~abcImages[i].apple
        PROVE  /\ abcKernel.Entry = 0 /\ abcTypes = OriginalTypes
               /\ Top.alone => ~abcConfig.WriteProtection
    <3>1. abcState.Nested = 0
      BY <2>2, TopCounted DEF AbcInv, AbcTypeOK, ImagesCounted
    <3>2. abcKernel.Entry = 0
      BY <3>1 DEF AbcInv, EntryFollowsNotes
    <3>3. abcTypes = OriginalTypes
      BY <2>2, <3>1 DEF AbcInv, TypesSaved, OriginalTypes
    <3>4. Top.alone => ~abcConfig.WriteProtection
      BY <2>2, <3>1 DEF AbcInv, ProtectedForBooter
    <3> QED
      BY <3>2, <3>3, <3>4
  <2> QED
    BY <2>1, <2>2 DEF OthersUntouched
<1> QED
  BY <1>1, AbcInitInv, AbcNextInv, PTL DEF AbcSpec

----------------------------------------------------------------------------
(* The cleanup of variables. *)

\* What the enumeration has passed is not deletable, and it goes on from a variable that
\* is still there, so nothing is passed over unseen.
PassedIsKept ==
  outcome = "none" /\ ~Restart =>
    /\ Buffer = Start \/ Buffer \in Range(store)
    /\ \A i \in 1 .. Place(Buffer) : store[i] \notin Deletable

CleanupInv ==
  /\ TypeOK
  /\ IsInjective(store)
  /\ PassedIsKept
  /\ outcome = "end" => Range(store) \cap Deletable = {}

----------------------------------------------------------------------------
\* The place of a variable in the list is where it stands.
LEMMA PlaceFacts ==
  ASSUME store \in Seq(Variable), IsInjective(store)
  PROVE  /\ \A i \in 1 .. Len(store) : Place(store[i]) = i
         /\ Place(Start) = 0
         /\ \A v : Place(v) \in 0 .. Len(store)
<1>1. DOMAIN store = 1 .. Len(store) /\ Len(store) \in Nat
  OBVIOUS
<1>2. ASSUME NEW i \in 1 .. Len(store) PROVE Place(store[i]) = i
  <2>1. store[i] \in Range(store) /\ store[i] # Start
    BY <1>1, NvramCleanupAssumption DEF Range
  <2>2. PICK j \in DOMAIN store : j = (CHOOSE k \in DOMAIN store : store[k] = store[i])
    BY <1>1
  <2>3. store[j] = store[i]
    BY <1>1, <2>2
  <2>4. j = i
    BY <1>1, <2>3 DEF IsInjective
  <2> QED
    BY <2>1, <2>2, <2>4 DEF Place
<1>3. ASSUME NEW v PROVE Place(v) \in 0 .. Len(store)
  <2>1. CASE v = Start
    BY <2>1, <1>1 DEF Place
  <2>2. CASE v # Start /\ v \in Range(store)
    <3>1. PICK i \in 1 .. Len(store) : store[i] = v
      BY <2>2, <1>1 DEF Range
    <3> QED
      BY <3>1, <1>2
  <2>3. CASE v # Start /\ v \notin Range(store)
    BY <2>3, <1>1 DEF Place
  <2> QED
    BY <2>1, <2>2, <2>3
<1> QED
  BY <1>2, <1>3 DEF Place

LEMMA CleanupInitInv == Init => CleanupInv
<1> SUFFICES ASSUME Init PROVE CleanupInv
  OBVIOUS
<1>1. PICK present \in SUBSET Variable : store \in SetToSeqs(present)
  BY DEF Init
<1>2. Cardinality(present) \in Nat
  BY NvramCleanupAssumption, FS_Subset, FS_CardinalityType
<1>3. store \in Seq(Variable) /\ IsInjective(store)
  BY <1>1, <1>2 DEF SetToSeqs, IsInjective
<1>4. faults \in 0 .. MaxFaults
  BY NvramCleanupAssumption DEF Init
<1>5. TypeOK
  BY <1>3, <1>4 DEF Init, TypeOK
<1> QED
  BY <1>3, <1>5 DEF Init, CleanupInv, PassedIsKept

----------------------------------------------------------------------------
\* One enumeration, whatever the buffer is.
LEMMA EnumerateInv ==
  ASSUME CleanupInv, outcome = "none", NEW buffer \in BOOLEAN, Enumerate(buffer),
         large' \in BOOLEAN
  PROVE  CleanupInv'
<1> DEFINE place == Place(From)
<1>1. /\ store \in Seq(Variable) /\ IsInjective(store) /\ DOMAIN store = 1 .. Len(store)
      /\ Len(store) \in Nat
  BY DEF CleanupInv, TypeOK
<1>2. /\ place \in 0 .. Len(store)
      /\ \A i \in 1 .. place : store[i] \notin Deletable
      /\ From = Start \/ From \in Range(store)
  BY <1>1, PlaceFacts DEF CleanupInv, PassedIsKept, From, TypeOK
<1>3. From \in Variable \cup {Start}
  BY DEF From, CleanupInv, TypeOK
<1> HIDE DEF place
<1>4. ASSUME place < Len(store), TooSmall PROVE CleanupInv'
  <2>1. PassedIsKept'
    BY <1>2, <1>4 DEF TooSmall, PassedIsKept, place, Place
  <2> QED
    BY <2>1, <1>1, <1>3, <1>4 DEF TooSmall, CleanupInv, TypeOK
<1>5. ASSUME NEW found \in Variable, place < Len(store), found = store[place + 1], Handle(found)
      PROVE  CleanupInv'
  <2>1. Place(found) = place + 1
    BY <1>1, <1>2, <1>5, PlaceFacts
  <2>2. CASE Deleted(found)
    <3>1. store' \in Seq(Variable) /\ IsInjective(store')
      BY <1>1, <1>2, <1>5, <2>1, <2>2, RemoveAtFacts, RemoveAtInjective DEF Deleted
    <3> QED
      BY <2>2, <3>1, <1>5 DEF Deleted, CleanupInv, TypeOK, PassedIsKept
  <2>3. CASE Restart' = FALSE /\ (Leave("skipped") \/ Leave("refused"))
    BY <2>3 DEF Leave, CleanupInv, TypeOK, PassedIsKept
  <2>4. CASE /\ found \in Kept /\ Buffer' = found /\ Restart' = FALSE
             /\ UNCHANGED <<store, RequestedSize, CriticalFailure, outcome, faults>>
    <3>1. found \in Range(store) /\ found \notin Deletable
      BY <1>1, <1>2, <1>5, <2>4, NvramCleanupAssumption DEF Range
    <3>2. Place(found)' = place + 1
      BY <2>1, <2>4 DEF Place
    <3>3. \A i \in 1 .. (place + 1) : store[i] \notin Deletable
      BY <1>2, <1>5, <3>1
    <3>4. PassedIsKept'
      BY <2>4, <3>1, <3>2, <3>3 DEF PassedIsKept, Place
    <3> QED
      BY <3>4, <1>5, <2>4 DEF CleanupInv, TypeOK
  <2> QED
    BY <1>5, <2>2, <2>3, <2>4 DEF Handle
<1>6. CASE place = Len(store) /\ Restart' = FALSE /\ Leave("end")
  <2>1. Range(store) \cap Deletable = {}
    BY <1>1, <1>2, <1>6 DEF Range
  <2> QED
    BY <1>6, <2>1 DEF Leave, CleanupInv, TypeOK, PassedIsKept
<1>7. CASE Fault
  <2>1. PassedIsKept'
    BY <1>2, <1>7 DEF Fault, PassedIsKept, place, Place
  <2>2. faults' \in 0 .. MaxFaults
    BY <1>7, NvramCleanupAssumption DEF Fault, CleanupInv, TypeOK
  <2>3. outcome' \in {"none", "aborted"}
    BY <1>7 DEF Fault
  <2>4. TypeOK'
    BY <1>3, <1>7, <2>2, <2>3 DEF Fault, CleanupInv, TypeOK
  <2> QED
    BY <2>1, <2>3, <2>4, <1>7 DEF Fault, CleanupInv
<1>8. ASSUME place < Len(store) PROVE store[place + 1] \in Variable
  BY <1>1, <1>2, <1>8
<1> QED
  BY <1>4, <1>5, <1>6, <1>7, <1>8 DEF Enumerate, place

LEMMA CleanupNextInv == CleanupInv /\ [Next]_vars => CleanupInv'
<1> SUFFICES ASSUME CleanupInv, [Next]_vars PROVE CleanupInv'
  OBVIOUS
<1>1. large \in BOOLEAN
  BY DEF CleanupInv, TypeOK
<1>2. CASE Turn
  <2>1. CASE Leave("exhausted") /\ UNCHANGED <<large, Restart>>
    BY <2>1 DEF Leave, CleanupInv, TypeOK, PassedIsKept
  <2> QED
    BY <1>1, <1>2, <2>1, EnumerateInv DEF Turn
<1>3. CASE UNCHANGED vars
  BY <1>3 DEF vars, CleanupInv, TypeOK, PassedIsKept, Place
<1> QED
  BY <1>2, <1>3 DEF Next, Done

\* A cleanup that came to the end of the list has deleted everything it may, although it
\* starts again after every deletion and goes on after failures, for every store
\* (VariableManagement.c:154-236).
THEOREM CleanupDeletesAll == Spec => []CleanupComplete
<1>1. CleanupInv => CleanupComplete
  BY DEF CleanupInv, CleanupComplete
<1> QED
  BY <1>1, CleanupInitInv, CleanupNextInv, PTL DEF Spec

----------------------------------------------------------------------------
(* The walk over the names. *)

Efi(v) == Names!IsEfiBootVar(v)
Oc(v) == Names!IsOcBootVar(v)

\* How far a walk has come in the list s when it has reached n and returned R.  In the first
\* part it has returned what is not a boot variable of the firmware, up to n.  In the second
\* part all of that, unless it lost its place, and the boot variables up to n.
WalkedTo(s, n, R, gone) ==
  /\ ~Efi(n) =>
       /\ \A v \in R : ~Efi(v)
       /\ n = Names!Start => R = {}
       /\ \A j, k \in DOMAIN s : s[k] = n /\ ~Efi(s[j]) => (s[j] \in R <=> j <= k)
  /\ Efi(n) =>
       /\ ~gone => \A j \in DOMAIN s : ~Efi(s[j]) => s[j] \in R
       /\ \A j, k \in DOMAIN s :
            s[k] = Names!Redirected(n) /\ Oc(s[j]) => (Names!Shown(s[j]) \in R <=> j <= k)
  /\ ~gone => n = Names!Start \/ \E k \in DOMAIN s : s[k] = Names!Redirected(n)

\* All that a read finds in s has been returned.
AllOf(s, R) ==
  \A j \in DOMAIN s : /\ ~Efi(s[j]) => s[j] \in R
                      /\ Oc(s[j]) => Names!Shown(s[j]) \in R

NamesInv ==
  /\ Names!TypeOK /\ IsInjective(nameStore) /\ IsInjective(returned)
  /\ WalkedTo(nameStore, name, Range(returned), lost)
  /\ \A v \in Range(returned) : v.name \notin HugeName
  /\ Names!ReturnedReadable
  /\ status = "NOT_FOUND" /\ ~lost => AllOf(nameStore, Range(returned))

\* What OpenCore's boot variables are shown as is what a read redirects to them.
LEMMA ShownFacts ==
  /\ ~Efi(Names!Start) /\ Names!Redirected(Names!Start) = Names!Start
  /\ Names!Start \notin Names!Variable
  /\ \A v \in Names!Variable :
       /\ Names!Redirected(v) \in Names!Variable
       /\ ~Efi(v) => Names!Redirected(v) = v
       /\ Efi(v) => Oc(Names!Redirected(v)) /\ Names!Shown(Names!Redirected(v)) = v
       /\ Oc(v) => /\ Names!Shown(v) \in Names!Variable /\ Efi(Names!Shown(v)) /\ ~Efi(v)
                   /\ Names!Redirected(Names!Shown(v)) = v /\ Names!Shown(v).name = v.name
<1>1. ~Efi(Names!Start) /\ Names!Redirected(Names!Start) = Names!Start
  BY DEF Efi, Names!IsEfiBootVar, Names!Start, Names!Redirected
<1>2. Names!Start \notin Names!Variable
  BY DEF Names!Start, Names!Variable, Names!Guid
<1>3. ASSUME NEW v \in Names!Variable
      PROVE  /\ Names!Redirected(v) \in Names!Variable
             /\ ~Efi(v) => Names!Redirected(v) = v
             /\ Efi(v) => Oc(Names!Redirected(v)) /\ Names!Shown(Names!Redirected(v)) = v
             /\ Oc(v) => /\ Names!Shown(v) \in Names!Variable /\ Efi(Names!Shown(v)) /\ ~Efi(v)
                         /\ Names!Redirected(Names!Shown(v)) = v /\ Names!Shown(v).name = v.name
  BY DEF Efi, Oc, Names!IsEfiBootVar, Names!IsOcBootVar, Names!Redirected, Names!Shown,
         Names!Variable, Names!Guid
<1> QED
  BY <1>1, <1>2, <1>3

\* When all of the list has been returned, the walk is complete.
LEMMA AllOfIsComplete ==
  ASSUME Names!TypeOK, AllOf(nameStore, Range(returned)),
         NEW v \in Names!Variable, Names!Redirected(v) \in Range(nameStore)
  PROVE  v \in Range(returned)
<1>1. PICK j \in DOMAIN nameStore : nameStore[j] = Names!Redirected(v)
  BY DEF Range
<1>2. CASE Efi(v)
  BY <1>1, <1>2, ShownFacts DEF AllOf
<1>3. CASE ~Efi(v)
  BY <1>1, <1>3, ShownFacts DEF AllOf
<1> QED
  BY <1>2, <1>3

LEMMA NamesInvSuffices == NamesInv => WalkComplete
<1> SUFFICES ASSUME NamesInv PROVE WalkComplete
  OBVIOUS
<1>1. Names!NoneTwice
  BY DEF NamesInv, Names!NoneTwice, Names!IsInjective, IsInjective
<1>2. Names!WalkComplete
  <2> SUFFICES ASSUME status = "NOT_FOUND", ~lost, NEW v \in Names!Variable,
                      Names!Redirected(v) \in Names!Range(nameStore)
               PROVE  v \in Names!Range(returned)
    BY DEF Names!WalkComplete
  <2> QED
    BY AllOfIsComplete DEF NamesInv, Names!Range, Range
<1> QED
  BY <1>1, <1>2 DEF WalkComplete, NamesInv

LEMMA NamesInitInv == Names!Init => NamesInv
<1> SUFFICES ASSUME Names!Init PROVE NamesInv
  OBVIOUS
<1>1. nameStore \in Seq(Names!Variable) /\ IsInjective(nameStore)
  <2>1. PICK k \in 0 .. MaxStore : nameStore \in [1 .. k -> Names!Variable]
    BY DEF Names!Init
  <2>2. k \in Nat
    BY NamesAssumption DEF Names!VariableNamesAssumption
  <2> QED
    BY <2>1, <2>2, FunctionIsSeq DEF Names!Init, Names!IsInjective, IsInjective
<1>2. name = Names!Start /\ returned = << >> /\ ~lost /\ status = "SUCCESS" /\ deleted = 0
  BY DEF Names!Init
<1>3. Range(returned) = {} /\ IsInjective(returned) /\ returned \in Seq(Names!Variable)
  BY <1>2, EmptySeq DEF Range, IsInjective
<1>4. Names!TypeOK
  <2>1. nameLarge = FALSE /\ lost = FALSE
    BY DEF Names!Init
  <2>2. deleted \in 0 .. MaxDeleted
    BY <1>2, NamesAssumption DEF Names!VariableNamesAssumption
  <2> QED
    BY <1>1, <1>2, <1>3, <2>1, <2>2 DEF Names!TypeOK
<1>5. WalkedTo(nameStore, name, Range(returned), lost)
  <2>1. \A k \in DOMAIN nameStore : nameStore[k] # Names!Start
    BY <1>1, ShownFacts
  <2> QED
    BY <1>2, <1>3, <2>1, ShownFacts DEF WalkedTo
<1>6. Names!ReturnedReadable
  BY <1>3 DEF Names!ReturnedReadable, Names!Range, Range
<1> QED
  BY <1>1, <1>2, <1>3, <1>4, <1>5, <1>6 DEF NamesInv

\* The first place of a nonempty set of them.
LEMMA NamesLeast ==
  ASSUME NEW S \in SUBSET Nat, S # {}
  PROVE  Names!Min(S) \in S /\ \A i \in S : Names!Min(S) <= i
<1>1. \E n \in S : \A m \in S : n <= m
  BY NatSetHasMinimum
<1> QED
  BY <1>1 DEF Names!Min

\* A variable is where it is in the list, and a walk starts in front of it.
LEMMA NamesPosition ==
  ASSUME NamesInv
  PROVE  /\ Names!Position(Names!Start) = 0
         /\ \A k \in DOMAIN nameStore : /\ nameStore[k] \in Names!Variable
                                        /\ Names!Position(nameStore[k]) = k
<1>1. ASSUME NEW k \in DOMAIN nameStore
      PROVE  nameStore[k] \in Names!Variable /\ Names!Position(nameStore[k]) = k
  <2>1. nameStore[k] \in Names!Variable
    BY DEF NamesInv, Names!TypeOK
  <2>2. nameStore[k] # Names!Start
    BY <2>1, ShownFacts
  <2>3. \A i \in DOMAIN nameStore : nameStore[i] = nameStore[k] => i = k
    BY DEF NamesInv, IsInjective
  <2> QED
    BY <2>1, <2>2, <2>3 DEF Names!Position
<1> QED
  BY <1>1 DEF Names!Position

\* What the first loop has come past, and what it will find.
LEMMA FirstPartPlace ==
  ASSUME NamesInv, ~Efi(name), Names!Known(name)
  PROVE  \E p \in Nat :
           /\ \A j \in DOMAIN nameStore :
                ~Efi(nameStore[j]) => (nameStore[j] \in Range(returned) <=> j <= p)
           /\ Names!OrdinaryAfter(name) = {i \in DOMAIN nameStore : i > p /\ ~Efi(nameStore[i])}
<1>1. DOMAIN nameStore = 1 .. Len(nameStore) /\ Len(nameStore) \in Nat
  BY DEF NamesInv, Names!TypeOK
<1>2. Names!OrdinaryAfter(name) =
        {i \in DOMAIN nameStore : i > Names!Position(name) /\ ~Efi(nameStore[i])}
  BY DEF Names!OrdinaryAfter, Efi
<1>3. CASE name = Names!Start
  <2>1. Range(returned) = {}
    BY <1>3 DEF NamesInv, WalkedTo
  <2>2. \A j \in DOMAIN nameStore : nameStore[j] \notin Range(returned) /\ ~(j <= 0)
    BY <1>1, <2>1
  <2>3. Names!Position(name) = 0
    BY <1>3, NamesPosition
  <2> QED
    BY <1>2, <2>2, <2>3
<1>4. CASE name \in Range(nameStore)
  <2>1. PICK k \in DOMAIN nameStore : nameStore[k] = name
    BY <1>4 DEF Range
  <2>2. Names!Position(name) = k /\ k \in Nat
    BY <1>1, <2>1, NamesPosition
  <2>3. \A j \in DOMAIN nameStore :
          ~Efi(nameStore[j]) => (nameStore[j] \in Range(returned) <=> j <= k)
    BY <2>1 DEF NamesInv, WalkedTo
  <2> QED
    BY <1>2, <2>2, <2>3
<1> QED
  BY <1>3, <1>4 DEF Names!Known, Names!Range, Range

\* Where the second loop goes on.
SecondFrom(v) ==
  \/ ~Efi(name) /\ v = Names!Start
  \/ Efi(name) /\ v = Names!Redirected(name)

\* What the second loop has come past, and what it will find.
LEMMA SecondPartPlace ==
  ASSUME NamesInv, NEW v, SecondFrom(v), Names!Known(v)
  PROVE  \E p \in Nat :
           /\ \A j \in DOMAIN nameStore :
                Oc(nameStore[j]) => (Names!Shown(nameStore[j]) \in Range(returned) <=> j <= p)
           /\ Names!BootAfter(v) =
                {i \in DOMAIN nameStore :
                   i > p /\ (Oc(nameStore[i]) \/ nameStore[i].name \in HugeName)}
<1>1. DOMAIN nameStore = 1 .. Len(nameStore) /\ Len(nameStore) \in Nat
  BY DEF NamesInv, Names!TypeOK
<1>2. Names!BootAfter(v) =
        {i \in DOMAIN nameStore :
           i > Names!Position(v) /\ (Oc(nameStore[i]) \/ nameStore[i].name \in HugeName)}
  BY DEF Names!BootAfter, Oc
<1>3. CASE ~Efi(name) /\ v = Names!Start
  <2>1. \A w \in Range(returned) : ~Efi(w)
    BY <1>3 DEF NamesInv, WalkedTo
  <2>2. \A j \in DOMAIN nameStore : Oc(nameStore[j]) => Efi(Names!Shown(nameStore[j]))
    BY NamesPosition, ShownFacts
  <2>3. \A j \in DOMAIN nameStore :
          ~(j <= 0) /\ (Oc(nameStore[j]) => Names!Shown(nameStore[j]) \notin Range(returned))
    BY <1>1, <2>1, <2>2
  <2>4. Names!Position(v) = 0
    BY <1>3, NamesPosition
  <2> QED
    BY <1>2, <2>3, <2>4
<1>4. CASE Efi(name) /\ v = Names!Redirected(name)
  <2>1. name \in Names!Variable
    BY <1>4, ShownFacts DEF NamesInv, Names!TypeOK
  <2>2. v # Names!Start
    BY <1>4, <2>1, ShownFacts
  <2>3. PICK k \in DOMAIN nameStore : nameStore[k] = v
    BY <2>2 DEF Names!Known, Names!Range
  <2>4. Names!Position(v) = k /\ k \in Nat
    BY <1>1, <2>3, NamesPosition
  <2>5. \A j \in DOMAIN nameStore :
          Oc(nameStore[j]) => (Names!Shown(nameStore[j]) \in Range(returned) <=> j <= k)
    BY <1>4, <2>3 DEF NamesInv, WalkedTo
  <2> QED
    BY <1>2, <2>4, <2>5
<1> QED
  BY <1>3, <1>4 DEF SecondFrom

\* An answer other than a variable or the end of the list.
LEMMA ReportInv ==
  ASSUME NamesInv, NEW error \in Names!Final, Names!Report(error),
         error = "NOT_FOUND" /\ ~lost => AllOf(nameStore, Range(returned)),
         UNCHANGED <<nameStore, lost, deleted>>
  PROVE  NamesInv'
<1>1. status' = error /\ UNCHANGED <<name, nameLarge, returned>>
  BY DEF Names!Report
<1>2. Names!TypeOK'
  BY <1>1 DEF NamesInv, Names!TypeOK
<1>3. Names!ReturnedReadable'
  BY <1>1 DEF NamesInv, Names!ReturnedReadable
<1> QED
  BY <1>1, <1>2, <1>3 DEF NamesInv

\* Handing out a variable that is new, from a place to which the walk has then come.
LEMMA ReturnInv ==
  ASSUME NamesInv, NEW v \in Names!Variable, Names!Return(v),
         v.name \notin HugeName, v \notin Range(returned),
         Names!Redirected(v) \in Range(nameStore),
         WalkedTo(nameStore, v, Range(returned) \cup {v}, lost),
         UNCHANGED <<nameStore, lost, deleted>>
  PROVE  NamesInv'
<1>1. CASE status' = "BUFFER_TOO_SMALL" /\ nameLarge' = TRUE /\ UNCHANGED <<name, returned>>
  <2>1. Names!TypeOK'
    BY <1>1 DEF NamesInv, Names!TypeOK
  <2>2. Names!ReturnedReadable'
    BY <1>1 DEF NamesInv, Names!ReturnedReadable
  <2> QED
    BY <1>1, <2>1, <2>2 DEF NamesInv
<1>2. CASE /\ name' = v /\ returned' = Append(returned, v)
           /\ status' = "SUCCESS" /\ UNCHANGED nameLarge
  <2>1. returned \in Seq(Names!Variable)
    BY DEF NamesInv, Names!TypeOK
  <2>2. /\ returned' \in Seq(Names!Variable)
        /\ Range(returned') = Range(returned) \cup {v}
    BY <1>2, <2>1, AppendFacts DEF Range
  <2>3. IsInjective(returned')
    <3>1. \A i \in 1 .. Len(returned) : returned[i] # v
      BY <2>1 DEF Range
    <3> QED
      BY <1>2, <2>1, <3>1, AppendNewInjective DEF NamesInv
  <2>4. Names!TypeOK'
    BY <1>2, <2>2 DEF NamesInv, Names!TypeOK
  <2>5. Names!ReturnedReadable'
    BY <1>2, <2>2 DEF NamesInv, Names!ReturnedReadable, Names!Range, Range
  <2>6. WalkedTo(nameStore, name, Range(returned), lost)'
    BY <1>2, <2>2
  <2> QED
    BY <1>2, <2>2, <2>3, <2>4, <2>5, <2>6 DEF NamesInv
<1> QED
  BY <1>1, <1>2 DEF Names!Return

\* The next variable of the first part.
LEMMA OrdinaryReturnInv ==
  ASSUME NamesInv, ~Efi(name), Names!Known(name), Names!OrdinaryAfter(name) # {},
         nameStore[Names!Min(Names!OrdinaryAfter(name))].name \notin HugeName,
         Names!Return(nameStore[Names!Min(Names!OrdinaryAfter(name))]),
         UNCHANGED <<nameStore, lost, deleted>>
  PROVE  NamesInv'
<1> DEFINE after == Names!OrdinaryAfter(name)
           m == Names!Min(after)
           v == nameStore[m]
<1>1. DOMAIN nameStore = 1 .. Len(nameStore) /\ Len(nameStore) \in Nat
  BY DEF NamesInv, Names!TypeOK
<1>2. PICK p \in Nat :
        /\ \A j \in DOMAIN nameStore :
             ~Efi(nameStore[j]) => (nameStore[j] \in Range(returned) <=> j <= p)
        /\ after = {i \in DOMAIN nameStore : i > p /\ ~Efi(nameStore[i])}
  BY FirstPartPlace
<1>3. m \in after /\ \A i \in after : m <= i
  <2>1. after \in SUBSET Nat
    BY <1>1, <1>2
  <2> HIDE DEF after
  <2> QED
    BY <2>1, NamesLeast DEF after
<1> HIDE DEF after, m
<1>4. /\ m \in DOMAIN nameStore /\ m > p /\ ~Efi(v)
      /\ \A j \in DOMAIN nameStore : ~Efi(nameStore[j]) /\ j > p => m <= j
  BY <1>2, <1>3
<1>5. v \in Names!Variable /\ Names!Redirected(v) = v /\ v # Names!Start
  BY <1>4, NamesPosition, ShownFacts
<1>6. \A k \in DOMAIN nameStore : nameStore[k] = v => k = m
  BY <1>4 DEF NamesInv, IsInjective
<1>7. v \notin Range(returned)
  BY <1>1, <1>2, <1>4
<1>8. WalkedTo(nameStore, v, Range(returned) \cup {v}, lost)
  <2>1. \A w \in Range(returned) \cup {v} : ~Efi(w)
    BY <1>4 DEF NamesInv, WalkedTo
  <2>2. ASSUME NEW j \in DOMAIN nameStore, ~Efi(nameStore[j])
        PROVE  nameStore[j] \in Range(returned) \cup {v} <=> j <= m
    BY <1>1, <1>2, <1>4, <1>6, <2>2
  <2> QED
    BY <1>4, <1>5, <1>6, <2>1, <2>2 DEF WalkedTo
<1>9. Names!Redirected(v) \in Range(nameStore)
  BY <1>4, <1>5 DEF Range
<1>10. Names!Return(v) /\ v.name \notin HugeName
  BY DEF m, after
<1> HIDE DEF v
<1> QED
  BY <1>5, <1>7, <1>8, <1>9, <1>10, ReturnInv

\* The next variable of the second part, and its end.
LEMMA BootVariableInv ==
  ASSUME NamesInv, NEW v, SecondFrom(v), Names!NextBootVariable(v),
         ~lost => /\ Names!Known(v)
                  /\ \A j \in DOMAIN nameStore :
                       ~Efi(nameStore[j]) => nameStore[j] \in Range(returned),
         UNCHANGED <<nameStore, lost, deleted>>
  PROVE  NamesInv'
<1> DEFINE after == Names!BootAfter(v)
           m == Names!Min(after)
<1>1. DOMAIN nameStore = 1 .. Len(nameStore) /\ Len(nameStore) \in Nat
  BY DEF NamesInv, Names!TypeOK
<1>2. ASSUME NEW j \in DOMAIN nameStore, nameStore[j].name \in HugeName
      PROVE  ~Efi(nameStore[j])
  BY <1>2, NamesAssumption
     DEF Names!VariableNamesAssumption, Efi, Names!IsEfiBootVar
<1>3. CASE ~Names!Known(v)
  <2>1. Names!Report("NOT_FOUND")
    BY <1>3 DEF Names!NextBootVariable
  <2> QED
    BY <1>3, <2>1, ReportInv DEF Names!Final
<1>4. ASSUME Names!Known(v) PROVE NamesInv'
  <2>1. PICK p \in Nat :
          /\ \A j \in DOMAIN nameStore :
               Oc(nameStore[j]) => (Names!Shown(nameStore[j]) \in Range(returned) <=> j <= p)
          /\ after = {i \in DOMAIN nameStore :
                        i > p /\ (Oc(nameStore[i]) \/ nameStore[i].name \in HugeName)}
    BY <1>4, SecondPartPlace
  <2>2. CASE after = {}
    <3>1. \A j \in DOMAIN nameStore :
            Oc(nameStore[j]) => Names!Shown(nameStore[j]) \in Range(returned)
      BY <1>1, <2>1, <2>2
    <3>2. ~lost => AllOf(nameStore, Range(returned))
      BY <3>1 DEF AllOf
    <3>3. Names!Report("NOT_FOUND")
      BY <2>2 DEF Names!NextBootVariable
    <3> QED
      BY <3>2, <3>3, ReportInv DEF Names!Final
  <2>3. ASSUME after # {} PROVE NamesInv'
    <3>1. m \in after /\ \A i \in after : m <= i
      <4>1. after \in SUBSET Nat
        BY <1>1, <2>1
      <4> HIDE DEF after
      <4> QED
        BY <4>1, <2>3, NamesLeast DEF after
    <3>2. CASE nameStore[m].name \in HugeName
      <4>1. Names!Report("NOT_FOUND")
        BY <3>2 DEF Names!NextBootVariable
      <4>2. m \in DOMAIN nameStore
        BY <2>1, <3>1
      <4>3. lost
        BY <1>2, <3>2, <4>2 DEF NamesInv
      <4> QED
        BY <4>1, <4>3, ReportInv DEF Names!Final
    <3>3. ASSUME nameStore[m].name \notin HugeName PROVE NamesInv'
      <4> DEFINE w == Names!Shown(nameStore[m])
      <4>1. Names!Return(w)
        BY <1>4, <2>3, <3>3 DEF Names!NextBootVariable
      <4> HIDE DEF after, m
      <4>2. /\ m \in DOMAIN nameStore /\ m > p /\ Oc(nameStore[m])
            /\ \A j \in DOMAIN nameStore : Oc(nameStore[j]) /\ j > p => m <= j
        BY <2>1, <3>1, <3>3
      <4>3. /\ nameStore[m] \in Names!Variable
            /\ w \in Names!Variable /\ Efi(w) /\ Names!Redirected(w) = nameStore[m]
            /\ w.name \notin HugeName
        BY <3>3, <4>2, NamesPosition, ShownFacts
      <4>4. \A k \in DOMAIN nameStore : nameStore[k] = nameStore[m] => k = m
        BY <4>2 DEF NamesInv, IsInjective
      <4>5. w \notin Range(returned)
        BY <1>1, <2>1, <4>2
      <4>6. \A j \in DOMAIN nameStore : Oc(nameStore[j]) /\ Names!Shown(nameStore[j]) = w => j = m
        BY <4>3, <4>4, NamesPosition, ShownFacts
      <4>7. ASSUME NEW j \in DOMAIN nameStore, Oc(nameStore[j])
            PROVE  Names!Shown(nameStore[j]) \in Range(returned) \cup {w} <=> j <= m
        BY <1>1, <2>1, <4>2, <4>6, <4>7
      <4>8. WalkedTo(nameStore, w, Range(returned) \cup {w}, lost)
        <5> HIDE DEF w
        <5> QED
          BY <4>2, <4>3, <4>4, <4>7 DEF WalkedTo
      <4>9. Names!Redirected(w) \in Range(nameStore)
        BY <4>2, <4>3 DEF Range
      <4> HIDE DEF w
      <4> QED
        BY <4>1, <4>3, <4>5, <4>8, <4>9, ReturnInv
    <3> QED
      BY <3>2, <3>3
  <2> QED
    BY <2>2, <2>3
<1> QED
  BY <1>3, <1>4

LEMMA GetNextNameInv ==
  ASSUME NamesInv, Names!WrapGetNextVariableName
  PROVE  NamesInv'
<1>1. UNCHANGED <<nameStore, lost, deleted>>
  BY DEF Names!WrapGetNextVariableName
<1>2. name \in Names!Variable \cup {Names!Start}
  BY DEF NamesInv, Names!TypeOK
<1>3. CASE Efi(name) /\ Names!NextBootVariable(Names!Redirected(name))
  <2> DEFINE v == Names!Redirected(name)
  <2>1. name \in Names!Variable
    BY <1>2, <1>3, ShownFacts
  <2>2. ~lost => /\ Names!Known(v)
                 /\ \A j \in DOMAIN nameStore :
                      ~Efi(nameStore[j]) => nameStore[j] \in Range(returned)
    BY <1>3, <2>1, ShownFacts DEF NamesInv, WalkedTo, Names!Known, Names!Range
  <2>3. SecondFrom(v) /\ Names!NextBootVariable(v)
    BY <1>3 DEF SecondFrom
  <2> HIDE DEF v
  <2> QED
    BY <1>1, <2>2, <2>3, BootVariableInv
<1>4. CASE ~Efi(name) /\ Names!NextOrdinaryVariable(name)
  <2>1. ~lost => Names!Known(name)
    BY <1>2, <1>4, ShownFacts DEF NamesInv, WalkedTo, Names!Known, Names!Range
  <2>2. SecondFrom(Names!Start) /\ Names!Known(Names!Start)
    BY <1>4 DEF SecondFrom, Names!Known
  <2>3. CASE ~Names!Known(name) /\ Names!Report("INVALID_PARAMETER")
    BY <1>1, <2>3, ReportInv DEF Names!Final
  <2>4. CASE ~Names!Known(name) /\ Names!NextBootVariable(Names!Start)
    BY <1>1, <2>1, <2>2, <2>4, BootVariableInv
  <2>5. CASE /\ Names!Known(name) /\ Names!OrdinaryAfter(name) # {}
             /\ nameStore[Names!Min(Names!OrdinaryAfter(name))].name \in HugeName
             /\ Names!Report("DEVICE_ERROR")
    BY <1>1, <2>5, ReportInv DEF Names!Final
  <2>6. CASE /\ Names!Known(name) /\ Names!OrdinaryAfter(name) # {}
             /\ nameStore[Names!Min(Names!OrdinaryAfter(name))].name \notin HugeName
             /\ Names!Return(nameStore[Names!Min(Names!OrdinaryAfter(name))])
    BY <1>1, <1>4, <2>6, OrdinaryReturnInv
  <2>7. CASE /\ Names!Known(name) /\ Names!OrdinaryAfter(name) = {}
             /\ Names!NextBootVariable(Names!Start)
    <3>1. PICK p \in Nat :
            /\ \A j \in DOMAIN nameStore :
                 ~Efi(nameStore[j]) => (nameStore[j] \in Range(returned) <=> j <= p)
            /\ {} = {i \in DOMAIN nameStore : i > p /\ ~Efi(nameStore[i])}
      BY <1>4, <2>7, FirstPartPlace
    <3>2. DOMAIN nameStore \subseteq Nat
      BY DEF NamesInv, Names!TypeOK
    <3>3. \A j \in DOMAIN nameStore : ~Efi(nameStore[j]) => nameStore[j] \in Range(returned)
      BY <3>1, <3>2
    <3> QED
      BY <1>1, <2>2, <2>7, <3>3, BootVariableInv
  <2> QED
    BY <1>4, <2>3, <2>4, <2>5, <2>6, <2>7 DEF Names!NextOrdinaryVariable
<1> QED
  BY <1>3, <1>4 DEF Names!WrapGetNextVariableName, Names!ContinueBootVariables, Efi

\* A variable taken out of the list leaves the walk where it is, unless it is the one the
\* walk has reached.
LEMMA DeleteInv ==
  ASSUME NamesInv, Names!Delete
  PROVE  NamesInv'
<1>1. PICK i \in DOMAIN nameStore :
        /\ nameStore' = Names!RemoveAt(nameStore, i)
        /\ lost' = (lost \/ nameStore[i] = Names!Redirected(name))
  BY DEF Names!Delete
<1>2. /\ deleted < MaxDeleted /\ deleted' = deleted + 1
      /\ UNCHANGED <<name, nameLarge, status, returned>>
  BY DEF Names!Delete
<1> DEFINE s == nameStore
           t == RemoveAt(nameStore, i)
           Old(j) == IF j < i THEN j ELSE j + 1
<1>3. s \in Seq(Names!Variable) /\ DOMAIN s = 1 .. Len(s) /\ Len(s) \in Nat /\ IsInjective(s)
  BY DEF NamesInv, Names!TypeOK
<1>4. nameStore' = t
  BY <1>1 DEF Names!RemoveAt, RemoveAt
<1>5. /\ t \in Seq(Names!Variable) /\ Len(t) = Len(s) - 1 /\ IsInjective(t)
      /\ \A j \in 1 .. (Len(s) - 1) : t[j] = IF j < i THEN s[j] ELSE s[j + 1]
  BY <1>1, <1>3, RemoveAtFacts, RemoveAtInjective
<1>6. DOMAIN t = 1 .. (Len(s) - 1)
  BY <1>3, <1>5
<1> HIDE DEF t, s
<1>7. /\ \A j \in DOMAIN t : Old(j) \in DOMAIN s /\ t[j] = s[Old(j)]
      /\ \A j, k \in DOMAIN t : j <= k <=> Old(j) <= Old(k)
      /\ \A n \in DOMAIN s : n # i => \E j \in DOMAIN t : Old(j) = n
  <2>1. i \in 1 .. Len(s)
    BY <1>3 DEF s
  <2>2. ASSUME NEW n \in DOMAIN s, n # i PROVE \E j \in DOMAIN t : Old(j) = n
    <3>1. CASE n < i
      <4>1. n \in DOMAIN t /\ Old(n) = n
        BY <1>3, <1>6, <2>1, <3>1
      <4> QED
        BY <4>1
    <3>2. CASE n > i
      <4>1. n - 1 \in DOMAIN t /\ Old(n - 1) = n
        BY <1>3, <1>6, <2>1, <3>2
      <4> QED
        BY <4>1
    <3> QED
      BY <1>3, <2>1, <2>2, <3>1, <3>2
  <2> QED
    BY <1>3, <1>5, <1>6, <2>1, <2>2
<1> HIDE DEF Old
<1>8. WalkedTo(s, name, Range(returned), lost)
  BY DEF NamesInv, s
<1>9. WalkedTo(t, name, Range(returned), lost')
  <2>1. ~lost' => ~lost /\ s[i] # Names!Redirected(name)
    BY <1>1 DEF s
  <2>2. ~lost' => name = Names!Start \/ \E k \in DOMAIN t : t[k] = Names!Redirected(name)
    BY <1>7, <1>8, <2>1 DEF WalkedTo
  <2> QED
    BY <1>7, <1>8, <2>1, <2>2 DEF WalkedTo
<1>10. status = "NOT_FOUND" /\ ~lost' => AllOf(t, Range(returned))
  <2>1. status = "NOT_FOUND" /\ ~lost' => AllOf(s, Range(returned))
    BY <1>1 DEF NamesInv, s
  <2> QED
    BY <1>7, <2>1 DEF AllOf
<1>11. Names!TypeOK'
  <2>1. deleted' \in 0 .. MaxDeleted
    BY <1>2, NamesAssumption DEF NamesInv, Names!TypeOK, Names!VariableNamesAssumption
  <2>2. lost' \in BOOLEAN
    BY <1>1 DEF NamesInv, Names!TypeOK
  <2> QED
    BY <1>2, <1>4, <1>5, <2>1, <2>2 DEF NamesInv, Names!TypeOK
<1>12. Names!ReturnedReadable'
  <2>1. deleted' # 0
    BY <1>2, NamesAssumption DEF NamesInv, Names!TypeOK, Names!VariableNamesAssumption
  <2> QED
    BY <2>1 DEF Names!ReturnedReadable
<1> QED
  BY <1>2, <1>4, <1>5, <1>9, <1>10, <1>11, <1>12 DEF NamesInv

LEMMA NamesNextInv == NamesInv /\ [Names!Next]_NameVars => NamesInv'
<1> SUFFICES ASSUME NamesInv, [Names!Next]_NameVars PROVE NamesInv'
  OBVIOUS
<1>1. CASE UNCHANGED NameVars
  BY <1>1 DEF NamesInv, NameVars, Names!TypeOK, Names!ReturnedReadable
<1>2. CASE Names!Done
  BY <1>2 DEF Names!Done, Names!vars, NamesInv, Names!TypeOK, Names!ReturnedReadable
<1> QED
  BY <1>1, <1>2, GetNextNameInv, DeleteInv DEF Names!Next

\* The part of a step of the composite that the walk sees.
LEMMA NamesStep == [MCNext]_MCVars => [Names!Next]_NameVars
BY DEF MCNext, MCVars, NameVars

\* A walk over the names of the variables returns each of them once and only what can be
\* read, and a walk that came to its end has returned all that can be read, for every list of
\* variables and any number of deletions during the walk
\* (UefiRuntimeServices.c:327, 410-531).
THEOREM WalksAreComplete == MCSpec => []WalkComplete
<1>1. MCInit => NamesInv
  BY NamesInitInv DEF MCInit
<1>2. NamesInv /\ [MCNext]_MCVars => NamesInv'
  BY NamesStep, NamesNextInv
<1> QED
  BY <1>1, <1>2, NamesInvSuffices, PTL DEF MCSpec

----------------------------------------------------------------------------
(* The slide of the kernel. *)

SlideMap == Slide!Descriptor
Starts(map, k) == Slide!Total([e \in DOMAIN map |-> map[e].pages], k)
ShareOf(map, type) == [e \in DOMAIN map |-> IF map[e].type = type THEN map[e].pages ELSE 0]

\* The descriptors of a map follow one another.
LEMMA StartsFacts ==
  ASSUME NEW map \in Seq(SlideMap)
  PROVE  /\ Starts(map, 0) = 0
         /\ \A k \in 0 .. Len(map) : Starts(map, k) \in Nat
         /\ \A d \in 1 .. Len(map) :
              /\ map[d].pages \in Nat \ {0}
              /\ Starts(map, d) = Starts(map, d - 1) + map[d].pages
              /\ Slide!PhysicalStart(map, d) = Starts(map, d - 1)
              /\ Slide!PhysicalEnd(map, d) = Starts(map, d)
<1> DEFINE f == [e \in DOMAIN map |-> map[e].pages]
           n == Len(map)
           S == {k \in 0 .. n : Starts(map, k) \in Nat}
<1>1. n \in Nat /\ DOMAIN map = 1 .. n
  OBVIOUS
<1>2. \A d \in 1 .. n : map[d].pages \in Nat \ {0}
  <2> SUFFICES ASSUME NEW d \in 1 .. n PROVE map[d].pages \in Nat \ {0}
    OBVIOUS
  <2>1. map[d] \in SlideMap
    BY <1>1
  <2>2. map[d].pages \in 1 .. SlideMemory /\ SlideMemory \in Nat
    BY <2>1, SlidesAssumption DEF SlideMap, Slide!Descriptor, Slide!SlideAssumption
  <2> QED
    BY <2>2
<1>3. f \in Seq(Int) /\ Len(f) = n
  <2>1. f \in [1 .. n -> Int]
    BY <1>1, <1>2
  <2> QED
    BY <1>1, <2>1, FunctionIsSeq
<1>4. \A k : Starts(map, k) = Total(f, k)
  BY DEF Starts, Slide!Total, Total
<1>5. \A d \in 1 .. n : f[d] = map[d].pages
  BY <1>1
<1> HIDE DEF f, n
<1>6. /\ Starts(map, 0) = 0
      /\ \A d \in 1 .. n : Starts(map, d) = Starts(map, d - 1) + map[d].pages
      /\ \A k \in 0 .. n : Starts(map, k) \in Int
  BY <1>3, <1>4, <1>5, TotalFacts
<1>7. 0 .. n \subseteq S
  <2>1. 0 \in S
    BY <1>1, <1>6
  <2>2. ASSUME NEW k \in 0 .. (n - 1), k \in S PROVE k + 1 \in S
    <3>1. k + 1 \in 1 .. n /\ (k + 1) - 1 = k
      BY <1>1
    <3>2. Starts(map, k + 1) = Starts(map, k) + map[k + 1].pages
      BY <1>6, <3>1
    <3> QED
      BY <1>1, <1>2, <2>2, <3>1, <3>2
  <2> HIDE DEF S
  <2> QED
    BY <1>1, <2>1, <2>2, StepsReach
<1>8. ASSUME NEW d \in 1 .. n
      PROVE  /\ Slide!PhysicalStart(map, d) = Starts(map, d - 1)
             /\ Slide!PhysicalEnd(map, d) = Starts(map, d)
  BY <1>6 DEF Slide!PhysicalStart, Slide!PhysicalEnd, Starts
<1> QED
  BY <1>2, <1>6, <1>7, <1>8 DEF n

\* A descriptor that comes later begins later.
LEMMA StartsGrow ==
  ASSUME NEW map \in Seq(SlideMap), NEW a \in 0 .. Len(map), NEW b \in 0 .. Len(map), a < b
  PROVE  Starts(map, a) < Starts(map, b)
<1> DEFINE n == Len(map)
           S == {k \in 0 .. n : a < k => Starts(map, a) < Starts(map, k)}
<1>1. n \in Nat
  OBVIOUS
<1>2. /\ \A k \in 0 .. n : Starts(map, k) \in Nat
      /\ \A d \in 1 .. n : map[d].pages \in Nat \ {0} /\ Starts(map, d) = Starts(map, d - 1) + map[d].pages
  BY StartsFacts
<1> HIDE DEF n
<1>3. 0 .. n \subseteq S
  <2>1. 0 \in S
    BY <1>1 DEF n
  <2>2. ASSUME NEW k \in 0 .. (n - 1), k \in S PROVE k + 1 \in S
    <3>1. k + 1 \in 1 .. n /\ (k + 1) - 1 = k /\ k \in 0 .. n
      BY <1>1
    <3>2. Starts(map, k + 1) = Starts(map, k) + map[k + 1].pages /\ map[k + 1].pages > 0
      BY <1>2, <3>1
    <3>3. Starts(map, k) \in Nat /\ Starts(map, a) \in Nat /\ map[k + 1].pages \in Nat
      BY <1>2, <3>1 DEF n
    <3>4. a < k + 1 => a = k \/ a < k
      BY <1>1 DEF n
    <3> QED
      BY <2>2, <3>1, <3>2, <3>3, <3>4
  <2> HIDE DEF S
  <2> QED
    BY <1>1, <2>1, <2>2, StepsReach
<1> QED
  BY <1>3 DEF n

\* Every address that the map reaches is in one of its descriptors.
LEMMA StartsCover ==
  ASSUME NEW map \in Seq(SlideMap), NEW x \in Nat, x < Starts(map, Len(map))
  PROVE  \E d \in 1 .. Len(map) : Starts(map, d - 1) <= x /\ x < Starts(map, d)
<1> DEFINE n == Len(map)
           S == {k \in 0 .. n : x < Starts(map, k) =>
                   \E d \in 1 .. n : Starts(map, d - 1) <= x /\ x < Starts(map, d)}
<1>1. n \in Nat
  OBVIOUS
<1>2. /\ Starts(map, 0) = 0
      /\ \A k \in 0 .. n : Starts(map, k) \in Nat
  BY StartsFacts
<1> HIDE DEF n
<1>3. 0 .. n \subseteq S
  <2>1. 0 \in S
    BY <1>1, <1>2
  <2>2. ASSUME NEW k \in 0 .. (n - 1), k \in S PROVE k + 1 \in S
    <3>1. k + 1 \in 1 .. n /\ (k + 1) - 1 = k /\ k \in 0 .. n /\ k + 1 \in 0 .. n
      BY <1>1
    <3>2. CASE x < Starts(map, k)
      BY <2>2, <3>1, <3>2
    <3>3. CASE Starts(map, k) <= x
      <4>1. x < Starts(map, k + 1) => \E d \in 1 .. n : Starts(map, d - 1) <= x /\ x < Starts(map, d)
        BY <3>1, <3>3
      <4> QED
        BY <3>1, <4>1
    <3>4. Starts(map, k) \in Nat
      BY <1>2, <3>1
    <3> QED
      BY <3>2, <3>3, <3>4
  <2> HIDE DEF S
  <2> QED
    BY <1>1, <2>1, <2>2, StepsReach
<1> QED
  BY <1>1, <1>3 DEF n

\* No address is in two descriptors.
LEMMA StartsOnce ==
  ASSUME NEW map \in Seq(SlideMap), NEW d \in 1 .. Len(map), NEW e \in 1 .. Len(map), NEW x \in Int,
         Starts(map, d - 1) <= x, x < Starts(map, d), Starts(map, e - 1) <= x, x < Starts(map, e)
  PROVE  d = e
<1>1. Len(map) \in Nat
  OBVIOUS
<1>2. \A k \in 0 .. Len(map) : Starts(map, k) \in Nat
  BY StartsFacts
<1>3. ASSUME NEW a \in 1 .. Len(map), NEW b \in 1 .. Len(map), a < b
      PROVE  Starts(map, a) <= Starts(map, b - 1)
  <2>1. a \in 0 .. Len(map) /\ b - 1 \in 0 .. Len(map) /\ (a = b - 1 \/ a < b - 1)
    BY <1>1, <1>3
  <2>2. a < b - 1 => Starts(map, a) < Starts(map, b - 1)
    BY <2>1, StartsGrow
  <2>3. Starts(map, a) \in Nat /\ Starts(map, b - 1) \in Nat
    BY <1>2, <2>1
  <2> QED
    BY <2>1, <2>2, <2>3
<1>4. /\ Starts(map, d - 1) \in Nat /\ Starts(map, d) \in Nat
      /\ Starts(map, e - 1) \in Nat /\ Starts(map, e) \in Nat
  <2>1. {d - 1, d, e - 1, e} \subseteq 0 .. Len(map)
    BY <1>1
  <2> QED
    BY <1>2, <2>1
<1>5. ~(d < e) /\ ~(e < d)
  BY <1>3, <1>4
<1> QED
  BY <1>1, <1>5

\* The addresses of a type are those in its descriptors.
LEMMA PagesFacts ==
  ASSUME NEW map \in Seq(SlideMap), NEW type
  PROVE  \A x : x \in Slide!PagesOf(map, type) <=>
                  \E d \in 1 .. Len(map) : /\ map[d].type = type /\ x \in Int
                                           /\ Starts(map, d - 1) <= x /\ x < Starts(map, d)
<1>1. \A d \in 1 .. Len(map) : /\ Starts(map, d - 1) \in Nat /\ Starts(map, d) \in Nat
                               /\ Slide!PhysicalStart(map, d) = Starts(map, d - 1)
                               /\ Slide!PhysicalEnd(map, d) = Starts(map, d)
  <2>1. \A d \in 1 .. Len(map) : d - 1 \in 0 .. Len(map) /\ d \in 0 .. Len(map)
    OBVIOUS
  <2> QED
    BY <2>1, StartsFacts
<1>2. DOMAIN map = 1 .. Len(map)
  OBVIOUS
<1>3. Slide!PagesOf(map, type) =
        UNION {Starts(map, d - 1) .. (Starts(map, d) - 1) :
                 d \in {e \in 1 .. Len(map) : map[e].type = type}}
  BY <1>1, <1>2 DEF Slide!PagesOf
<1>4. ASSUME NEW d \in 1 .. Len(map), NEW x
      PROVE  x \in Starts(map, d - 1) .. (Starts(map, d) - 1) <=>
               x \in Int /\ Starts(map, d - 1) <= x /\ x < Starts(map, d)
  <2>1. Starts(map, d - 1) \in Nat /\ Starts(map, d) \in Nat
    BY <1>1
  <2> QED
    BY <2>1
<1> QED
  BY <1>3, <1>4

\* The memory that is added to the size of the kernel is that of the runtime descriptors.
LEMMA RuntimeCounted ==
  ASSUME NEW map \in Seq(SlideMap)
  PROVE  /\ IsFiniteSet(Slide!PagesOf(map, "runtime"))
         /\ Cardinality(Slide!PagesOf(map, "runtime")) = Slide!RuntimePages(map)
         /\ Slide!RuntimePages(map) \in Nat
<1> DEFINE n == Len(map)
           f == ShareOf(map, "runtime")
           R(k) == Total(f, k)
           P == Slide!PagesOf(map, "runtime")
           Upto(k) == {x \in P : x < Starts(map, k)}
           S == {k \in 0 .. n : IsFiniteSet(Upto(k)) /\ Cardinality(Upto(k)) = R(k)}
<1>1. n \in Nat /\ DOMAIN map = 1 .. n
  OBVIOUS
<1>2. /\ Starts(map, 0) = 0
      /\ \A k \in 0 .. n : Starts(map, k) \in Nat
      /\ \A d \in 1 .. n : map[d].pages \in Nat \ {0} /\ Starts(map, d) = Starts(map, d - 1) + map[d].pages
  BY StartsFacts
<1>3. f \in Seq(Int) /\ Len(f) = n
  <2>1. f \in [1 .. n -> Int]
    BY <1>1, <1>2 DEF ShareOf
  <2> HIDE DEF f, n
  <2> QED
    BY <1>1, <2>1, FunctionIsSeq
<1>4. \A d \in 1 .. n : f[d] = IF map[d].type = "runtime" THEN map[d].pages ELSE 0
  BY <1>1 DEF ShareOf
<1>5. \A x : x \in P <=> \E d \in 1 .. n : /\ map[d].type = "runtime" /\ x \in Int
                                           /\ Starts(map, d - 1) <= x /\ x < Starts(map, d)
  BY PagesFacts
<1>6. Slide!RuntimePages(map) = R(n)
  BY DEF Slide!RuntimePages, Slide!Total, Total, ShareOf
<1> HIDE DEF P, f
<1>7. /\ R(0) = 0 /\ \A d \in 1 .. n : R(d) = R(d - 1) + f[d]
      /\ \A k \in 0 .. n : R(k) \in Int
  BY <1>3, TotalFacts
<1>8. \A d, e \in 1 .. n, x \in Int :
        /\ Starts(map, d - 1) <= x /\ x < Starts(map, d)
        /\ Starts(map, e - 1) <= x /\ x < Starts(map, e)
        => d = e
  BY StartsOnce
<1>9. \A d \in 1 .. n : Starts(map, d - 1) < Starts(map, n) /\ Starts(map, d) <= Starts(map, n)
  <2> SUFFICES ASSUME NEW d \in 1 .. n
               PROVE  Starts(map, d - 1) < Starts(map, n) /\ Starts(map, d) <= Starts(map, n)
    OBVIOUS
  <2>1. d - 1 \in 0 .. n /\ d \in 0 .. n /\ n \in 0 .. n /\ d - 1 < n /\ (d = n \/ d < n)
    <3> HIDE DEF n
    <3> QED
      BY <1>1
  <2>2. Starts(map, d - 1) < Starts(map, n)
    BY <2>1, StartsGrow
  <2>3. d < n => Starts(map, d) < Starts(map, n)
    BY <2>1, StartsGrow
  <2> QED
    BY <1>2, <2>1, <2>2, <2>3
<1> HIDE DEF n, R
<1>10. 0 \in S
  <2>1. \A x \in P : ~(x < Starts(map, 0))
    <3> SUFFICES ASSUME NEW x \in P PROVE ~(x < 0)
      BY <1>2
    <3>1. PICK d \in 1 .. n : x \in Int /\ Starts(map, d - 1) <= x
      BY <1>5
    <3>2. d - 1 \in 0 .. n
      BY <1>1
    <3>3. Starts(map, d - 1) \in Nat
      BY <1>2, <3>2
    <3> QED
      BY <3>1, <3>3
  <2>2. Upto(0) = {}
    BY <2>1
  <2> HIDE DEF Upto
  <2>3. IsFiniteSet(Upto(0)) /\ Cardinality(Upto(0)) = 0
    BY <2>2, FS_EmptySet
  <2>4. 0 \in 0 .. n /\ R(0) = 0
    BY <1>1, <1>7
  <2> QED
    BY <2>3, <2>4
<1>11. ASSUME NEW k \in 0 .. (n - 1), k \in S PROVE k + 1 \in S
  <2>1. k + 1 \in 1 .. n /\ (k + 1) - 1 = k /\ k \in 0 .. n /\ k + 1 \in 0 .. n
    BY <1>1
  <2>2. /\ Starts(map, k) \in Nat /\ Starts(map, k + 1) \in Nat
        /\ map[k + 1].pages \in Nat \ {0}
        /\ Starts(map, k + 1) = Starts(map, k) + map[k + 1].pages
    BY <1>2, <2>1
  <2>3. R(k + 1) = R(k) + f[k + 1] /\ R(k) \in Int
    BY <1>7, <2>1
  <2>4. ASSUME NEW x \in P, ~(x < Starts(map, k)), x < Starts(map, k + 1)
        PROVE  map[k + 1].type = "runtime" /\ x \in Int /\ Starts(map, k) <= x
    <3>1. PICK d \in 1 .. n : /\ map[d].type = "runtime" /\ x \in Int
                              /\ Starts(map, d - 1) <= x /\ x < Starts(map, d)
      BY <1>5
    <3>2. Starts(map, k) <= x
      BY <2>2, <2>4, <3>1
    <3>3. d = k + 1
      BY <1>8, <2>1, <2>4, <3>1, <3>2
    <3> QED
      BY <3>1, <3>2, <3>3
  <2>5. \A x \in P : x \in Int
    BY <1>5
  <2>6. CASE map[k + 1].type = "runtime"
    <3> DEFINE new == Starts(map, k) .. (Starts(map, k + 1) - 1)
    <3>1. \A x \in new : x \in P
      <4> SUFFICES ASSUME NEW x \in new PROVE x \in P
        OBVIOUS
      <4>1. x \in Int /\ Starts(map, k) <= x /\ x < Starts(map, k + 1)
        BY <2>2
      <4> QED
        BY <1>5, <2>1, <2>6, <4>1
    <3>2. Upto(k + 1) = Upto(k) \cup new
      BY <2>2, <2>4, <2>5, <3>1
    <3>3. Upto(k) \cap new = {}
      BY <2>2
    <3>4. IsFiniteSet(new) /\ Cardinality(new) = map[k + 1].pages
      <4>1. Starts(map, k) \in Int /\ Starts(map, k + 1) - 1 \in Int
        BY <2>2
      <4>2. /\ IsFiniteSet(new)
            /\ Cardinality(new) = IF Starts(map, k) > Starts(map, k + 1) - 1 THEN 0
                                  ELSE (Starts(map, k + 1) - 1) - Starts(map, k) + 1
        BY <4>1, FS_Interval
      <4> QED
        BY <2>2, <4>2
    <3> HIDE DEF new, Upto
    <3>5. /\ IsFiniteSet(Upto(k) \cup new)
          /\ Cardinality(Upto(k) \cup new) =
               Cardinality(Upto(k)) + Cardinality(new) - Cardinality(Upto(k) \cap new)
      BY <1>11, <3>4, FS_Union
    <3>6. Cardinality(Upto(k + 1)) = R(k) + map[k + 1].pages
      <4>1. Cardinality(Upto(k) \cap new) = 0
        BY <3>3, FS_EmptySet
      <4>2. Cardinality(Upto(k)) = R(k)
        BY <1>11
      <4>3. Cardinality(Upto(k + 1)) = R(k) + map[k + 1].pages - 0
        BY <3>2, <3>4, <3>5, <4>1, <4>2
      <4>4. R(k) \in Int /\ map[k + 1].pages \in Int
        BY <2>2, <2>3
      <4> HIDE DEF S
      <4> QED
        BY <4>3, <4>4
    <3>7. f[k + 1] = map[k + 1].pages
      BY <1>4, <2>1, <2>6
    <3> QED
      BY <2>1, <2>3, <3>2, <3>5, <3>6, <3>7
  <2>7. CASE map[k + 1].type # "runtime"
    <3>1. Upto(k + 1) = Upto(k)
      BY <2>2, <2>4, <2>5, <2>7
    <3>2. f[k + 1] = 0
      BY <1>4, <2>1, <2>7
    <3> HIDE DEF Upto
    <3> QED
      BY <1>11, <2>1, <2>3, <3>1, <3>2
  <2> QED
    BY <2>6, <2>7
<1>12. n \in S
  <2>1. 0 .. n \subseteq S
    <3> HIDE DEF S
    <3> QED
      BY <1>1, <1>10, <1>11, StepsReach
  <2> QED
    BY <1>1, <2>1
<1>13. Upto(n) = P
  <2> SUFFICES ASSUME NEW x \in P PROVE x < Starts(map, n)
    OBVIOUS
  <2>1. PICK d \in 1 .. n : x \in Int /\ x < Starts(map, d)
    BY <1>5
  <2>2. Starts(map, d) <= Starts(map, n) /\ d \in 0 .. n /\ n \in 0 .. n
    BY <1>1, <1>9
  <2>3. Starts(map, d) \in Nat /\ Starts(map, n) \in Nat
    BY <1>2, <2>2
  <2> QED
    BY <2>1, <2>2, <2>3
<1>14. IsFiniteSet(P) /\ Cardinality(P) = R(n)
  BY <1>12, <1>13
<1> QED
  BY <1>6, <1>14, FS_CardinalityType DEF P

LEMMA SlideMax ==
  ASSUME NEW x \in Int
  PROVE  Slide!Max({0, x}) = IF x > 0 THEN x ELSE 0
<1> DEFINE m == IF x > 0 THEN x ELSE 0
<1>1. m \in {0, x} /\ \A y \in {0, x} : m >= y
  OBVIOUS
<1>2. \A k \in {0, x} : (\A y \in {0, x} : k >= y) => k = m
  OBVIOUS
<1> HIDE DEF m
<1>3. Slide!Max({0, x}) = m
  BY <1>1, <1>2 DEF Slide!Max
<1> QED
  BY <1>3 DEF m

\* With nothing in the way, what the descriptors leave between two addresses is what the
\* map has of it.
LEMMA AvailableFacts ==
  ASSUME NEW map \in Seq(SlideMap), NEW a \in Nat, NEW b \in Nat, a < b,
         Slide!InTheWay(map, a, b) = {}
  PROVE  Slide!Available(map, a, b) =
           IF Starts(map, Len(map)) <= a THEN 0
           ELSE (IF Starts(map, Len(map)) < b THEN Starts(map, Len(map)) ELSE b) - a
<1> DEFINE n == Len(map)
           taken == {d \in DOMAIN map : Slide!Overlaps(map, d, a, b)}
           f == [d \in DOMAIN map |-> IF d \in taken THEN Slide!Left(map, d, a, b) ELSE 0]
           Upto(k) == IF Starts(map, k) <= a THEN 0
                      ELSE (IF Starts(map, k) < b THEN Starts(map, k) ELSE b) - a
           S == {k \in 0 .. n : Total(f, k) = Upto(k)}
<1>1. n \in Nat /\ DOMAIN map = 1 .. n
  OBVIOUS
<1>2. Slide!Available(map, a, b) = Total(f, n)
  <2>1. taken = {d \in DOMAIN map : /\ Slide!Overlaps(map, d, a, b)
                                    /\ \A w \in Slide!InTheWay(map, a, b) : d < w}
    OBVIOUS
  <2> HIDE DEF taken
  <2> QED
    BY <2>1 DEF Slide!Available, Slide!Total, Total
<1>3. /\ Starts(map, 0) = 0
      /\ \A k \in 0 .. n : Starts(map, k) \in Nat
      /\ \A d \in 1 .. n :
           /\ map[d].pages \in Nat \ {0}
           /\ Starts(map, d) = Starts(map, d - 1) + map[d].pages
           /\ Slide!PhysicalStart(map, d) = Starts(map, d - 1)
           /\ Slide!PhysicalEnd(map, d) = Starts(map, d)
  BY StartsFacts
<1>4. ASSUME NEW d \in 1 .. n
      PROVE  /\ f[d] \in Int
             /\ Starts(map, d - 1) \in Nat /\ Starts(map, d) \in Nat
             /\ f[d] = IF Starts(map, d - 1) < b /\ Starts(map, d) > a
                       THEN map[d].pages
                              - (IF a > Starts(map, d - 1) THEN a - Starts(map, d - 1) ELSE 0)
                              - (IF Starts(map, d) > b THEN Starts(map, d) - b ELSE 0)
                       ELSE 0
  <2> HIDE DEF n
  <2>1. d \in DOMAIN map /\ d - 1 \in 0 .. n /\ d \in 0 .. n
    BY <1>1
  <2>2. Starts(map, d - 1) \in Nat /\ Starts(map, d) \in Nat /\ map[d].pages \in Nat
    BY <1>3, <2>1
  <2>3. d \in taken <=> Starts(map, d - 1) < b /\ Starts(map, d) > a
    BY <1>3, <2>1 DEF Slide!Overlaps
  <2>4. /\ Slide!Max({0, a - Starts(map, d - 1)}) =
             IF a - Starts(map, d - 1) > 0 THEN a - Starts(map, d - 1) ELSE 0
        /\ Slide!Max({0, Starts(map, d) - b}) =
             IF Starts(map, d) - b > 0 THEN Starts(map, d) - b ELSE 0
    <3>1. a - Starts(map, d - 1) \in Int /\ Starts(map, d) - b \in Int
      BY <2>2
    <3> QED
      BY <3>1, SlideMax
  <2>5. Slide!Left(map, d, a, b) =
          map[d].pages - (IF a > Starts(map, d - 1) THEN a - Starts(map, d - 1) ELSE 0)
                       - (IF Starts(map, d) > b THEN Starts(map, d) - b ELSE 0)
    <3>1. Slide!Left(map, d, a, b) = map[d].pages - Slide!Max({0, a - Starts(map, d - 1)})
                                                  - Slide!Max({0, Starts(map, d) - b})
      BY <1>3 DEF Slide!Left
    <3>2. /\ (a - Starts(map, d - 1) > 0) = (a > Starts(map, d - 1))
          /\ (Starts(map, d) - b > 0) = (Starts(map, d) > b)
      BY <2>2
    <3> QED
      BY <2>4, <3>1, <3>2
  <2>6. f[d] = IF d \in taken THEN Slide!Left(map, d, a, b) ELSE 0
    BY <2>1
  <2> HIDE DEF f, taken
  <2> QED
    BY <2>2, <2>3, <2>5, <2>6
<1>5. f \in Seq(Int) /\ Len(f) = n
  <2>1. f \in [1 .. n -> Int]
    <3>1. DOMAIN f = 1 .. n
      BY <1>1
    <3>2. f = [d \in 1 .. n |-> f[d]]
      BY <1>1
    <3> HIDE DEF f, n
    <3> QED
      BY <1>4, <3>1, <3>2
  <2> HIDE DEF f, n
  <2> QED
    BY <1>1, <2>1, FunctionIsSeq
<1> HIDE DEF f, n, taken
<1>6. /\ Total(f, 0) = 0
      /\ \A d \in 1 .. n : Total(f, d) = Total(f, d - 1) + f[d]
  BY <1>5, TotalFacts
<1>7. 0 .. n \subseteq S
  <2>1. 0 \in S
    BY <1>1, <1>3, <1>6
  <2>2. ASSUME NEW k \in 0 .. (n - 1), k \in S PROVE k + 1 \in S
    <3>1. k + 1 \in 1 .. n /\ (k + 1) - 1 = k /\ k \in 0 .. n /\ k + 1 \in 0 .. n
      BY <1>1
    <3>2. Total(f, k + 1) = Upto(k) + f[k + 1]
      BY <1>6, <2>2, <3>1
    <3> DEFINE p == Starts(map, k)
               q == Starts(map, k + 1)
               g == map[k + 1].pages
    <3>3. /\ p \in Nat /\ q \in Nat /\ g \in Nat /\ q = p + g
          /\ f[k + 1] = IF p < b /\ q > a
                        THEN g - (IF a > p THEN a - p ELSE 0) - (IF q > b THEN q - b ELSE 0)
                        ELSE 0
      BY <1>3, <1>4, <3>1
    <3>4. Upto(k) = (IF p <= a THEN 0 ELSE (IF p < b THEN p ELSE b) - a)
      OBVIOUS
    <3>5. Upto(k + 1) = (IF q <= a THEN 0 ELSE (IF q < b THEN q ELSE b) - a)
      OBVIOUS
    <3> HIDE DEF p, q, g, Upto
    <3>6. Upto(k) + f[k + 1] = Upto(k + 1)
      BY <3>3, <3>4, <3>5
    <3> QED
      BY <3>1, <3>2, <3>6
  <2> HIDE DEF S
  <2> QED
    BY <1>1, <2>1, <2>2, StepsReach
<1>8. Total(f, n) = Upto(n)
  BY <1>1, <1>7
<1> QED
  BY <1>2, <1>8 DEF n

\* All memory from the first address of a slide to its end is free.
FitsIn(map, slide, sandy) ==
  Slide!StartAddr(slide, sandy) .. (Slide!EndAddr(map, slide, sandy) - 1)
    \subseteq Slide!PagesOf(map, "conventional")

LEMMA AddressFacts ==
  ASSUME NEW map \in Seq(SlideMap), NEW slide \in Nat, NEW sandy \in BOOLEAN
  PROVE  /\ Slide!StartAddr(slide, sandy) \in Nat /\ Slide!EndAddr(map, slide, sandy) \in Nat
         /\ Slide!StartAddr(slide, sandy) < Slide!EndAddr(map, slide, sandy)
<1>1. Slide!RuntimePages(map) \in Nat
  BY RuntimeCounted
<1>2. /\ KERNEL_BASE_PADDR \in Nat /\ SLIDE_ERRATA_SKIP_RANGE \in Nat /\ SLIDE_ERRATA_NUM \in Nat
      /\ ESTIMATED_KERNEL_SIZE \in Nat \ {0}
  BY SlidesAssumption DEF Slide!SlideAssumption
<1>3. Slide!StartAddr(slide, sandy) \in Nat
  BY <1>2 DEF Slide!StartAddr
<1> QED
  BY <1>1, <1>2, <1>3 DEF Slide!EndAddr

\* The sum that the code compares is right: a slide is supported when its memory is free.
LEMMA SupportsIsFits ==
  ASSUME NEW map \in Seq(SlideMap), NEW slide \in Nat, NEW sandy \in BOOLEAN
  PROVE  Slide!Supports(map, slide, sandy) <=> FitsIn(map, slide, sandy)
<1> DEFINE a == Slide!StartAddr(slide, sandy)
           b == Slide!EndAddr(map, slide, sandy)
           n == Len(map)
           P == Slide!PagesOf(map, "conventional")
<1>1. a \in Nat /\ b \in Nat /\ a < b
  BY AddressFacts
<1>2. Slide!Supports(map, slide, sandy) <=>
        Slide!InTheWay(map, a, b) = {} /\ a + Slide!Available(map, a, b) = b
  BY DEF Slide!Supports
<1>3. FitsIn(map, slide, sandy) <=> a .. (b - 1) \subseteq P
  BY DEF FitsIn
<1> HIDE DEF a, b
<1>4. n \in Nat /\ DOMAIN map = 1 .. n
  OBVIOUS
<1>5. /\ Starts(map, 0) = 0
      /\ \A k \in 0 .. n : Starts(map, k) \in Nat
      /\ \A d \in 1 .. n : /\ map[d].pages \in Nat \ {0}
                           /\ Starts(map, d) = Starts(map, d - 1) + map[d].pages
                           /\ Slide!PhysicalStart(map, d) = Starts(map, d - 1)
                           /\ Slide!PhysicalEnd(map, d) = Starts(map, d)
  BY StartsFacts
<1>6. \A x : x \in P <=> \E d \in 1 .. n : /\ map[d].type = "conventional" /\ x \in Int
                                           /\ Starts(map, d - 1) <= x /\ x < Starts(map, d)
  BY PagesFacts
<1> HIDE DEF P
<1>7. \A d \in 1 .. n : Starts(map, d - 1) \in Nat /\ Starts(map, d) \in Nat
  <2>1. \A d \in 1 .. n : d - 1 \in 0 .. n /\ d \in 0 .. n
    BY <1>4
  <2> HIDE DEF n
  <2> QED
    BY <1>5, <2>1
<1>8. ASSUME NEW d \in Slide!InTheWay(map, a, b)
      PROVE  /\ d \in 1 .. n /\ map[d].type # "conventional"
             /\ Starts(map, d - 1) < b /\ Starts(map, d) > a
  BY <1>4, <1>5 DEF Slide!InTheWay, Slide!Overlaps
<1>9. ASSUME NEW d \in 1 .. n, map[d].type # "conventional",
             Starts(map, d - 1) < b, Starts(map, d) > a
      PROVE  d \in Slide!InTheWay(map, a, b)
  BY <1>4, <1>5, <1>9 DEF Slide!InTheWay, Slide!Overlaps
<1>10. Starts(map, n) \in Nat
  BY <1>4, <1>5
<1>11. ASSUME Slide!InTheWay(map, a, b) = {}, a + Slide!Available(map, a, b) = b
       PROVE  a .. (b - 1) \subseteq P
  <2>1. b <= Starts(map, n)
    <3>1. Slide!Available(map, a, b) =
            IF Starts(map, n) <= a THEN 0
            ELSE (IF Starts(map, n) < b THEN Starts(map, n) ELSE b) - a
      BY <1>1, <1>11, AvailableFacts
    <3> HIDE DEF n
    <3> QED
      BY <1>1, <1>10, <1>11, <3>1
  <2> SUFFICES ASSUME NEW x \in a .. (b - 1) PROVE x \in P
    OBVIOUS
  <2>2. x \in Nat /\ a <= x /\ x < b /\ x < Starts(map, n)
    <3> HIDE DEF n
    <3> QED
      BY <1>1, <1>10, <2>1
  <2>3. PICK d \in 1 .. n : Starts(map, d - 1) <= x /\ x < Starts(map, d)
    BY <2>2, StartsCover
  <2>4. Starts(map, d - 1) < b /\ Starts(map, d) > a
    BY <1>1, <1>7, <2>2, <2>3
  <2>5. map[d].type = "conventional"
    BY <1>9, <1>11, <2>4
  <2> QED
    BY <1>6, <2>2, <2>3, <2>5
<1>12. ASSUME a .. (b - 1) \subseteq P
       PROVE  Slide!InTheWay(map, a, b) = {} /\ a + Slide!Available(map, a, b) = b
  <2>1. Slide!InTheWay(map, a, b) = {}
    <3> SUFFICES ASSUME NEW d \in Slide!InTheWay(map, a, b) PROVE FALSE
      OBVIOUS
    <3>1. /\ d \in 1 .. n /\ map[d].type # "conventional"
          /\ Starts(map, d - 1) < b /\ Starts(map, d) > a
          /\ Starts(map, d - 1) \in Nat /\ Starts(map, d) \in Nat
          /\ Starts(map, d - 1) < Starts(map, d)
      <4>1. /\ d \in 1 .. n /\ map[d].type # "conventional"
            /\ Starts(map, d - 1) < b /\ Starts(map, d) > a
        BY <1>8
      <4>2. Starts(map, d - 1) \in Nat /\ Starts(map, d) \in Nat
        BY <1>7, <4>1
      <4>3. map[d].pages \in Nat \ {0} /\ Starts(map, d) = Starts(map, d - 1) + map[d].pages
        BY <1>5, <4>1
      <4> QED
        BY <4>1, <4>2, <4>3
    <3> DEFINE x == IF Starts(map, d - 1) < a THEN a ELSE Starts(map, d - 1)
    <3>2. x \in a .. (b - 1) /\ x \in Int /\ Starts(map, d - 1) <= x /\ x < Starts(map, d)
      BY <1>1, <3>1
    <3> HIDE DEF x, n
    <3>3. PICK e \in 1 .. n : /\ map[e].type = "conventional"
                              /\ Starts(map, e - 1) <= x /\ x < Starts(map, e)
      BY <1>6, <1>12, <3>2
    <3>4. d = e
      BY <3>1, <3>2, <3>3, StartsOnce DEF n
    <3> QED
      BY <3>1, <3>3, <3>4
  <2>2. b <= Starts(map, n)
    <3>1. b - 1 \in a .. (b - 1)
      BY <1>1
    <3>2. PICK e \in 1 .. n : b - 1 < Starts(map, e)
      BY <1>6, <1>12, <3>1
    <3>3. e = n \/ (e \in 0 .. n /\ n \in 0 .. n /\ e < n)
      <4> HIDE DEF n
      <4> QED
        BY <1>4
    <3>4. Starts(map, e) <= Starts(map, n)
      <4>1. e # n => Starts(map, e) < Starts(map, n)
        BY <3>3, StartsGrow
      <4> HIDE DEF n
      <4> QED
        BY <1>7, <1>10, <3>3, <4>1
    <3>5. Starts(map, e) \in Nat
      BY <1>7
    <3> HIDE DEF n
    <3> QED
      BY <1>1, <1>10, <3>2, <3>4, <3>5
  <2>3. Slide!Available(map, a, b) = b - a
    <3>1. Slide!Available(map, a, b) =
            IF Starts(map, n) <= a THEN 0
            ELSE (IF Starts(map, n) < b THEN Starts(map, n) ELSE b) - a
      BY <1>1, <2>1, AvailableFacts
    <3> HIDE DEF n
    <3> QED
      BY <1>1, <1>10, <2>2, <3>1
  <2> QED
    BY <1>1, <2>1, <2>3
<1> QED
  BY <1>2, <1>3, <1>11, <1>12

\* Whatever is in the way, the memory that is left is a number.
LEMMA AvailableInt ==
  ASSUME NEW map \in Seq(SlideMap), NEW a \in Nat, NEW b \in Nat
  PROVE  Slide!Available(map, a, b) \in Int
<1> DEFINE n == Len(map)
           taken == {d \in DOMAIN map : /\ Slide!Overlaps(map, d, a, b)
                                        /\ \A w \in Slide!InTheWay(map, a, b) : d < w}
           f == [d \in DOMAIN map |-> IF d \in taken THEN Slide!Left(map, d, a, b) ELSE 0]
<1>1. n \in Nat /\ DOMAIN map = 1 .. n
  OBVIOUS
<1>2. Slide!Available(map, a, b) = Total(f, n)
  BY DEF Slide!Available, Slide!Total, Total
<1>3. /\ \A k \in 0 .. n : Starts(map, k) \in Nat
      /\ \A d \in 1 .. n :
           /\ map[d].pages \in Nat \ {0}
           /\ Slide!PhysicalStart(map, d) = Starts(map, d - 1)
           /\ Slide!PhysicalEnd(map, d) = Starts(map, d)
  BY StartsFacts
<1> HIDE DEF taken
<1>4. ASSUME NEW d \in 1 .. n PROVE f[d] \in Int
  <2> HIDE DEF n
  <2>1. d \in DOMAIN map /\ d - 1 \in 0 .. n /\ d \in 0 .. n
    BY <1>1
  <2>2. /\ a - Slide!PhysicalStart(map, d) \in Int /\ Slide!PhysicalEnd(map, d) - b \in Int
        /\ map[d].pages \in Int
    BY <1>3, <2>1
  <2>3. /\ Slide!Max({0, a - Slide!PhysicalStart(map, d)}) \in Int
        /\ Slide!Max({0, Slide!PhysicalEnd(map, d) - b}) \in Int
    BY <2>2, SlideMax
  <2>4. Slide!Left(map, d, a, b) \in Int
    BY <2>2, <2>3 DEF Slide!Left
  <2> QED
    BY <2>1, <2>4
<1>5. f \in Seq(Int) /\ Len(f) = n
  <2>1. DOMAIN f = 1 .. n /\ f = [d \in 1 .. n |-> f[d]]
    BY <1>1
  <2> HIDE DEF f, n
  <2>2. f \in [1 .. n -> Int]
    BY <1>4, <2>1
  <2> QED
    BY <1>1, <2>2, FunctionIsSeq
<1> HIDE DEF f
<1>6. Total(f, n) \in Int
  BY <1>1, <1>5, TotalFacts
<1> QED
  BY <1>2, <1>6

SlideNumbers == 0 .. (TOTAL_SLIDE_NUM - 1)

\* Among numbers for the slides there is a greatest one.
LEMMA SlideGreatest ==
  ASSUME NEW f, \A s \in SlideNumbers : f[s] \in Int
  PROVE  \E s \in SlideNumbers : \A t \in SlideNumbers : f[s] >= f[t]
<1> DEFINE n == TOTAL_SLIDE_NUM - 1
           S == {k \in 0 .. n : \E s \in 0 .. k : \A t \in 0 .. k : f[s] >= f[t]}
<1>1. n \in Nat /\ SlideNumbers = 0 .. n
  BY SlidesAssumption DEF Slide!SlideAssumption, SlideNumbers
<1> HIDE DEF n
<1>2. 0 \in S
  <2>1. 0 .. 0 = {0} /\ 0 \in 0 .. n /\ f[0] >= f[0]
    BY <1>1
  <2> QED
    BY <2>1
<1>3. ASSUME NEW k \in 0 .. (n - 1), k \in S PROVE k + 1 \in S
  <2>1. PICK s \in 0 .. k : \A t \in 0 .. k : f[s] >= f[t]
    BY <1>3
  <2>2. /\ k + 1 \in 0 .. n /\ 0 .. (k + 1) = (0 .. k) \cup {k + 1}
        /\ s \in SlideNumbers /\ k + 1 \in SlideNumbers
        /\ \A t \in 0 .. k : t \in SlideNumbers
    BY <1>1
  <2>3. CASE f[s] >= f[k + 1]
    BY <2>1, <2>2, <2>3
  <2>4. CASE ~(f[s] >= f[k + 1])
    <3>1. \A t \in 0 .. (k + 1) : f[k + 1] >= f[t]
      BY <2>1, <2>2, <2>4
    <3> QED
      BY <2>2, <3>1
  <2> QED
    BY <2>3, <2>4
<1> HIDE DEF S
<1>4. 0 .. n \subseteq S
  BY <1>1, <1>2, <1>3, StepsReach
<1>5. n \in S
  BY <1>1, <1>4
<1> QED
  BY <1>1, <1>5 DEF S

LEMMA SlidesFacts ==
  /\ TOTAL_SLIDE_NUM \in Nat /\ TOTAL_SLIDE_NUM > 1
  /\ Slide!Slides \in Seq(Nat) /\ IsInjective(Slide!Slides) /\ Len(Slide!Slides) = TOTAL_SLIDE_NUM
  /\ Slide!Range(Slide!Slides) = SlideNumbers
  /\ {Slide!Slides[i] : i \in 1 .. Len(Slide!Slides)} = SlideNumbers
<1>1. TOTAL_SLIDE_NUM \in Nat /\ TOTAL_SLIDE_NUM > 1
  BY SlidesAssumption DEF Slide!SlideAssumption
<1>2. Slide!Slides = [i \in 1 .. TOTAL_SLIDE_NUM |-> i - 1]
  BY DEF Slide!Slides
<1>3. Slide!Slides \in [1 .. TOTAL_SLIDE_NUM -> Nat]
  BY <1>1, <1>2
<1>4. Slide!Slides \in Seq(Nat) /\ Len(Slide!Slides) = TOTAL_SLIDE_NUM
  BY <1>1, <1>3, FunctionIsSeq
<1>5. \A i \in 1 .. TOTAL_SLIDE_NUM : Slide!Slides[i] = i - 1
  BY <1>2
<1>6. DOMAIN Slide!Slides = 1 .. TOTAL_SLIDE_NUM
  BY <1>2
<1>7. IsInjective(Slide!Slides)
  <2>1. \A i, j \in 1 .. TOTAL_SLIDE_NUM : i - 1 = j - 1 => i = j
    BY <1>1
  <2> QED
    BY <1>5, <1>6, <2>1 DEF IsInjective
<1>8. {Slide!Slides[i] : i \in 1 .. TOTAL_SLIDE_NUM} = SlideNumbers
  <2>1. ASSUME NEW s \in SlideNumbers PROVE \E i \in 1 .. TOTAL_SLIDE_NUM : Slide!Slides[i] = s
    <3>1. s + 1 \in 1 .. TOTAL_SLIDE_NUM /\ (s + 1) - 1 = s
      BY <1>1 DEF SlideNumbers
    <3> QED
      BY <1>5, <3>1
  <2>2. \A i \in 1 .. TOTAL_SLIDE_NUM : Slide!Slides[i] \in SlideNumbers
    BY <1>1, <1>5 DEF SlideNumbers
  <2> QED
    BY <2>1, <2>2
<1> QED
  BY <1>1, <1>4, <1>6, <1>7, <1>8 DEF Slide!Range

\* The slide taken when none is supported is one of them.
LEMMA FallbackFacts ==
  ASSUME NEW map \in Seq(SlideMap), NEW sandy \in BOOLEAN
  PROVE  Slide!FallbackSlide(map, sandy) \in SlideNumbers
<1> DEFINE size == [s \in Slide!Range(Slide!Slides) |->
                      Slide!Available(map, Slide!StartAddr(s, sandy),
                                           Slide!EndAddr(map, s, sandy))]
           most == Slide!Max(Slide!Range(size))
           S == {s \in SlideNumbers : size[s] = most}
<1>1. Slide!Range(Slide!Slides) = SlideNumbers
  BY SlidesFacts
<1>2. DOMAIN size = SlideNumbers
  BY <1>1
<1>3. \A s \in SlideNumbers : size[s] \in Int
  <2> SUFFICES ASSUME NEW s \in SlideNumbers PROVE size[s] \in Int
    OBVIOUS
  <2>1. s \in Nat
    BY SlidesFacts DEF SlideNumbers
  <2>2. Slide!Available(map, Slide!StartAddr(s, sandy), Slide!EndAddr(map, s, sandy)) \in Int
    BY <2>1, AddressFacts, AvailableInt
  <2> QED
    BY <1>1, <2>2
<1>4. Slide!FallbackSlide(map, sandy) = IF most = 0 THEN 0 ELSE Slide!Min(S)
  BY <1>1 DEF Slide!FallbackSlide
<1>5. Slide!Range(size) = {size[s] : s \in SlideNumbers}
  BY <1>2 DEF Slide!Range
<1> HIDE DEF size
<1>6. S # {}
  <2>1. PICK s \in SlideNumbers : \A t \in SlideNumbers : size[s] >= size[t]
    BY <1>3, SlideGreatest
  <2>2. \E x \in Slide!Range(size) : \A y \in Slide!Range(size) : x >= y
    BY <1>5, <2>1
  <2>3. most \in Slide!Range(size)
    BY <2>2 DEF Slide!Max
  <2> HIDE DEF most
  <2> QED
    BY <1>5, <2>3
<1> HIDE DEF most
<1>7. S \in SUBSET Nat
  BY SlidesFacts DEF SlideNumbers
<1> HIDE DEF S
<1>8. PICK n \in S : \A m \in S : n <= m
  BY <1>6, <1>7, NatSetHasMinimum
<1>9. Slide!Min(S) \in S
  BY <1>8 DEF Slide!Min
<1>10. 0 \in SlideNumbers
  BY SlidesFacts DEF SlideNumbers
<1> QED
  BY <1>4, <1>9, <1>10 DEF S

\* The supported slides are those that fit, and all are supported exactly when all fit.
LEMMA SupportedFacts ==
  ASSUME NEW map \in Seq(SlideMap), NEW sandy \in BOOLEAN
  PROVE  /\ Slide!Supported(map, sandy) \in Seq(Nat)
         /\ Range(Slide!Supported(map, sandy)) = {s \in SlideNumbers : FitsIn(map, s, sandy)}
         /\ Len(Slide!Supported(map, sandy)) <= TOTAL_SLIDE_NUM - 1 <=>
              \E s \in SlideNumbers : ~FitsIn(map, s, sandy)
<1> DEFINE T == {s \in SlideNumbers : Slide!Supports(map, s, sandy)}
           r == Slide!Supported(map, sandy)
<1>1. \A s \in SlideNumbers : s \in Nat
  BY SlidesFacts DEF SlideNumbers
<1>2. T = {s \in SlideNumbers : FitsIn(map, s, sandy)}
  BY <1>1, SupportsIsFits
<1>3. r = Only(Slide!Slides, T)
  BY SlidesFacts DEF Slide!Supported, Slide!Only, Only
<1> HIDE DEF T
<1>4. OnlyRight(Nat, Slide!Slides, T, Only(Slide!Slides, T), Len(Slide!Slides))
  BY SlidesFacts, OnlyFacts
<1> HIDE DEF r
<1>5. r \in Seq(Nat) /\ IsInjective(r) /\ Range(r) = SlideNumbers \cap T
  BY <1>3, <1>4, SlidesFacts DEF OnlyRight
<1>6. Range(r) = {s \in SlideNumbers : FitsIn(map, s, sandy)}
  BY <1>2, <1>5
<1>7. Len(r) = Cardinality(Range(r)) /\ Len(r) \in Nat
  <2>1. r \in Bijection(1 .. Len(r), Range(r))
    <3>1. r \in [1 .. Len(r) -> Range(r)]
      BY <1>5 DEF Range
    <3>2. \A a, b \in 1 .. Len(r) : r[a] = r[b] => a = b
      BY <1>5 DEF IsInjective
    <3>3. \A s \in Range(r) : \E a \in 1 .. Len(r) : r[a] = s
      BY <1>5 DEF Range
    <3> QED
      BY <3>1, <3>2, <3>3 DEF Bijection, Injection, Surjection, IsInjective
  <2>2. Len(r) \in Nat
    BY <1>5
  <2>3. IsFiniteSet(1 .. Len(r)) /\ Cardinality(1 .. Len(r)) = Len(r)
    <3>1. 1 \in Int /\ Len(r) \in Int
      BY <2>2
    <3>2. /\ IsFiniteSet(1 .. Len(r))
          /\ Cardinality(1 .. Len(r)) = IF 1 > Len(r) THEN 0 ELSE Len(r) - 1 + 1
      BY <3>1, FS_Interval
    <3> QED
      BY <2>2, <3>2
  <2>4. ExistsBijection(1 .. Len(r), Range(r))
    BY <2>1 DEF ExistsBijection
  <2> QED
    BY <2>2, <2>3, <2>4, FS_Bijection
<1>8. IsFiniteSet(SlideNumbers) /\ Cardinality(SlideNumbers) = TOTAL_SLIDE_NUM
  <2>1. 0 \in Int /\ TOTAL_SLIDE_NUM - 1 \in Int /\ TOTAL_SLIDE_NUM \in Nat
    BY SlidesFacts
  <2>2. /\ IsFiniteSet(SlideNumbers)
        /\ Cardinality(SlideNumbers) =
             IF 0 > TOTAL_SLIDE_NUM - 1 THEN 0 ELSE (TOTAL_SLIDE_NUM - 1) - 0 + 1
    BY <2>1, FS_Interval DEF SlideNumbers
  <2> QED
    BY <2>1, <2>2
<1>9. Range(r) \in SUBSET SlideNumbers
  BY <1>6
<1>10. Cardinality(Range(r)) <= TOTAL_SLIDE_NUM
       /\ (Cardinality(Range(r)) = TOTAL_SLIDE_NUM => Range(r) = SlideNumbers)
  BY <1>8, <1>9, FS_Subset
<1>11. Len(r) <= TOTAL_SLIDE_NUM - 1 <=> Range(r) # SlideNumbers
  BY <1>7, <1>8, <1>10, SlidesFacts
<1>12. Range(r) # SlideNumbers <=> \E s \in SlideNumbers : ~FitsIn(map, s, sandy)
  BY <1>6
<1> QED
  BY <1>5, <1>6, <1>11, <1>12 DEF r

\* What the analysis of a map takes for supported.
ValidFor(map, sandy) ==
  IF Slide!Supported(map, sandy) = << >> THEN <<Slide!FallbackSlide(map, sandy)>>
  ELSE Slide!Supported(map, sandy)

\* A slide is chosen among those that fit, or it is the only one and none does; and not all
\* are valid exactly when one does not fit.
LEMMA ValidFacts ==
  ASSUME NEW map \in Seq(SlideMap), NEW sandy \in BOOLEAN
  PROVE  /\ Len(ValidFor(map, sandy)) \in Nat /\ Len(ValidFor(map, sandy)) >= 1
         /\ DOMAIN ValidFor(map, sandy) = 1 .. Len(ValidFor(map, sandy))
         /\ Range(ValidFor(map, sandy)) \subseteq SlideNumbers
         /\ \/ \A s \in Range(ValidFor(map, sandy)) : FitsIn(map, s, sandy)
            \/ /\ \A s \in SlideNumbers : ~FitsIn(map, s, sandy)
               /\ Len(ValidFor(map, sandy)) = 1
         /\ Len(ValidFor(map, sandy)) <= TOTAL_SLIDE_NUM - 1 <=>
              \E s \in SlideNumbers : ~FitsIn(map, s, sandy)
<1> DEFINE r == Slide!Supported(map, sandy)
           v == ValidFor(map, sandy)
           fallback == Slide!FallbackSlide(map, sandy)
<1>1. /\ r \in Seq(Nat) /\ Range(r) = {s \in SlideNumbers : FitsIn(map, s, sandy)}
      /\ Len(r) <= TOTAL_SLIDE_NUM - 1 <=> \E s \in SlideNumbers : ~FitsIn(map, s, sandy)
  BY SupportedFacts
<1>2. TOTAL_SLIDE_NUM \in Nat /\ TOTAL_SLIDE_NUM > 1
  BY SlidesFacts
<1>3. v = IF r = << >> THEN <<fallback>> ELSE r
  BY DEF ValidFor
<1>4. fallback \in SlideNumbers
  BY FallbackFacts
<1> HIDE DEF r, v, fallback
<1>5. CASE r = << >>
  <2>1. Range(r) = {} /\ Len(r) = 0
    BY <1>5 DEF Range
  <2>2. Len(v) = 1 /\ DOMAIN v = 1 .. 1 /\ v[1] = fallback
    BY <1>3, <1>5
  <2>3. \A s \in SlideNumbers : ~FitsIn(map, s, sandy)
    BY <1>1, <2>1
  <2>4. 0 \in SlideNumbers /\ 1 <= TOTAL_SLIDE_NUM - 1
    BY <1>2 DEF SlideNumbers
  <2>5. Range(v) \subseteq SlideNumbers
    BY <1>4, <2>2 DEF Range
  <2> QED
    BY <2>2, <2>3, <2>4, <2>5 DEF v
<1>6. CASE r # << >>
  <2>1. v = r /\ Len(v) \in Nat /\ Len(v) >= 1 /\ DOMAIN v = 1 .. Len(v)
    <3>1. Len(r) \in Nat /\ Len(r) > 0 /\ DOMAIN r = 1 .. Len(r)
      BY <1>1, <1>6, EmptySeq, LenProperties
    <3> QED
      BY <1>3, <1>6, <3>1
  <2>2. \A s \in Range(v) : s \in SlideNumbers /\ FitsIn(map, s, sandy)
    BY <1>1, <2>1
  <2> QED
    BY <1>1, <2>1, <2>2 DEF v
<1> QED
  BY <1>5, <1>6

\* Removing the arguments of a name leaves the others.
LEMMA OnlyOthers ==
  ASSUME NEW line \in Seq(Int)
  PROVE  Slide!Range(Slide!OcRemoveArgumentFromCmd(line)) \subseteq {Slide!OtherWord}
<1> DEFINE T == {Slide!OtherWord}
           n == Len(line)
           kept == CHOOSE f : f = [k \in 0 .. n |-> OnlyStep(line, T, f, k)]
           S == {k \in 0 .. n : kept[k] \in Seq(T)}
<1>1. n \in Nat
  OBVIOUS
<1>2. Slide!OcRemoveArgumentFromCmd(line) = kept[n]
  BY DEF Slide!OcRemoveArgumentFromCmd, Slide!Only, OnlyStep
<1>3. kept = [k \in 0 .. n |-> OnlyStep(line, T, kept, k)]
  BY <1>1, OnlyIsDefined
<1> HIDE DEF kept, T, n
<1>4. \A k \in 0 .. n : kept[k] = OnlyStep(line, T, kept, k)
  BY <1>3
<1>5. 0 \in S
  <2>1. 0 \in 0 .. n
    BY <1>1
  <2>2. kept[0] = << >>
    BY <1>4, <2>1 DEF OnlyStep
  <2>3. << >> \in Seq(T)
    OBVIOUS
  <2> QED
    BY <2>1, <2>2, <2>3
<1>6. ASSUME NEW k \in 0 .. (n - 1), k \in S PROVE k + 1 \in S
  <2>1. k + 1 \in 0 .. n /\ k + 1 # 0 /\ (k + 1) - 1 = k
    BY <1>1
  <2>2. kept[k + 1] = IF line[k + 1] \in T THEN Append(kept[k], line[k + 1]) ELSE kept[k]
    BY <1>4, <2>1 DEF OnlyStep
  <2>3. kept[k] \in Seq(T)
    BY <1>6
  <2>4. line[k + 1] \in T => Append(kept[k], line[k + 1]) \in Seq(T)
    BY <2>3
  <2>5. kept[k + 1] \in Seq(T)
    BY <2>2, <2>3, <2>4
  <2> QED
    BY <2>1, <2>5
<1> HIDE DEF S
<1>7. n \in S
  <2>1. 0 .. n \subseteq S
    BY <1>1, <1>5, <1>6, StepsReach
  <2> QED
    BY <1>1, <2>1
<1>8. kept[n] \in Seq(T)
  BY <1>7 DEF S
<1> QED
  BY <1>2, <1>8 DEF Slide!Range, T

SlideRecords ==
  /\ slideSupport = [HasMemoryMapAnalysis |-> slideSupport.HasMemoryMapAnalysis,
                     ValidSlides |-> slideSupport.ValidSlides,
                     HasBootArgs |-> slideSupport.HasBootArgs,
                     BootArgs |-> slideSupport.BootArgs,
                     HasCsrActiveConfig |-> slideSupport.HasCsrActiveConfig,
                     CsrActiveConfig |-> slideSupport.CsrActiveConfig]
  /\ booter = [started |-> booter.started, AppleCustomSlide |-> booter.AppleCustomSlide,
               read |-> booter.read, csr |-> booter.csr, stored |-> booter.stored]

ValidNow == ValidFor(slideMap.map, slideMap.sandy)

\* There is an analysis when there is a map of it, and its slides stay until the kernel is
\* entered.
AnalysisKept ==
  /\ slideSupport.HasMemoryMapAnalysis <=> slideMap # << >>
  /\ slideMap # << >> => /\ slideMap.map \in Seq(SlideMap) /\ slideMap.sandy \in BOOLEAN
                         /\ slideSupport.ValidSlides =
                              IF slideKernel.entered THEN << >> ELSE ValidNow
  /\ slideMap = << >> => slideSupport.ValidSlides = << >>

\* Arguments are made from the analysis, once, and boot.efi reads those or its own.
ArgumentsKept ==
  /\ slideSupport.HasBootArgs =>
       /\ slideMap # << >> /\ Len(ValidNow) <= TOTAL_SLIDE_NUM - 1
       /\ ~slideKernel.entered => slideSupport.BootArgs.slide \in Range(ValidNow)
  /\ booter.read.slide # Slide!NoSlide =>
       /\ slideSupport.HasBootArgs /\ booter.read.slide \in Range(ValidNow)
       /\ ~slideKernel.entered => slideSupport.BootArgs = booter.read

\* What was read of an analysed map names a slide unless all slides are valid.
Decided ==
  booter.read # Slide!Unread /\ ~booter.AppleCustomSlide /\ slideMap # << >> =>
    (booter.read.slide # Slide!NoSlide <=> Len(ValidNow) <= TOTAL_SLIDE_NUM - 1)

ConfigKept ==
  /\ booter.csr # Slide!NoCsr =>
       slideSupport.HasCsrActiveConfig /\ slideSupport.CsrActiveConfig = booter.stored
  /\ Slide!KernelSeesStored

SlideInv == SlideRecords /\ AnalysisKept /\ ArgumentsKept /\ Decided /\ ConfigKept

LEMMA SlideInvSuffices == SlideInv => SlideFits
<1> SUFFICES ASSUME SlideInv PROVE SlideFits
  OBVIOUS
<1>1. ASSUME slideMap # << >>
      PROVE  \A s \in SlideNumbers : Slide!Fits(s) <=> FitsIn(slideMap.map, s, slideMap.sandy)
  <2> SUFFICES ASSUME NEW s \in SlideNumbers
               PROVE  Slide!Fits(s) <=> FitsIn(slideMap.map, s, slideMap.sandy)
    OBVIOUS
  <2> DEFINE a == Slide!StartAddr(s, slideMap.sandy)
             size == ESTIMATED_KERNEL_SIZE + Slide!RuntimePages(slideMap.map)
  <2>1. slideMap.map \in Seq(SlideMap) /\ slideMap.sandy \in BOOLEAN /\ s \in Nat
    BY <1>1, SlidesFacts DEF SlideInv, AnalysisKept, SlideNumbers
  <2>2. /\ Slide!Cardinality(Slide!PagesOf(slideMap.map, "runtime")) = Slide!RuntimePages(slideMap.map)
        /\ Slide!RuntimePages(slideMap.map) \in Nat
    BY <2>1, RuntimeCounted DEF Slide!Cardinality, Cardinality
  <2>3. /\ KERNEL_BASE_PADDR \in Nat /\ ESTIMATED_KERNEL_SIZE \in Nat
        /\ SLIDE_ERRATA_SKIP_RANGE \in Nat
    BY SlidesAssumption DEF Slide!SlideAssumption
  <2>4. Slide!EndAddr(slideMap.map, s, slideMap.sandy) - 1 = a + size - 1
    <3>1. a \in Nat
      BY <2>1, AddressFacts
    <3>2. Slide!EndAddr(slideMap.map, s, slideMap.sandy) =
            a + Slide!RuntimePages(slideMap.map) + ESTIMATED_KERNEL_SIZE
      BY DEF Slide!EndAddr
    <3> HIDE DEF a
    <3> QED
      BY <2>2, <2>3, <3>1, <3>2
  <2>5. a = KERNEL_BASE_PADDR + s
              + IF s >= SLIDE_ERRATA_NUM /\ slideMap.sandy THEN SLIDE_ERRATA_SKIP_RANGE ELSE 0
    BY <2>1, <2>3 DEF Slide!StartAddr
  <2>6. Slide!Fits(s) <=> a .. (a + size - 1) \subseteq Slide!PagesOf(slideMap.map, "conventional")
    <3> HIDE DEF a
    <3> QED
      BY <2>2, <2>5 DEF Slide!Fits
  <2> HIDE DEF size
  <2> QED
    BY <2>4, <2>6 DEF FitsIn
<1>2. Slide!Range(Slide!Slides) = SlideNumbers
  BY SlidesFacts
<1>3. ASSUME slideMap # << >>
      PROVE  /\ Range(ValidNow) \subseteq SlideNumbers
             /\ \/ \A s \in Range(ValidNow) : FitsIn(slideMap.map, s, slideMap.sandy)
                \/ /\ \A s \in SlideNumbers : ~FitsIn(slideMap.map, s, slideMap.sandy)
                   /\ Len(ValidNow) = 1
             /\ Len(ValidNow) <= TOTAL_SLIDE_NUM - 1 <=>
                  \E s \in SlideNumbers : ~FitsIn(slideMap.map, s, slideMap.sandy)
  BY <1>3, ValidFacts DEF SlideInv, AnalysisKept, ValidNow
<1>4. Slide!SlideFits
  <2>1. ASSUME booter.read.slide # Slide!NoSlide
        PROVE  \/ Slide!Fits(booter.read.slide)
               \/ /\ \A s \in SlideNumbers : ~Slide!Fits(s)
                  /\ Len(slideSupport.ValidSlides) <= 1
    <3>1. slideMap # << >> /\ booter.read.slide \in Range(ValidNow)
      BY <2>1 DEF SlideInv, ArgumentsKept
    <3>2. slideSupport.ValidSlides = << >> \/ slideSupport.ValidSlides = ValidNow
      BY <3>1 DEF SlideInv, AnalysisKept
    <3>3. CASE \A s \in Range(ValidNow) : FitsIn(slideMap.map, s, slideMap.sandy)
      BY <1>1, <1>3, <3>1, <3>3
    <3>4. CASE /\ \A s \in SlideNumbers : ~FitsIn(slideMap.map, s, slideMap.sandy)
               /\ Len(ValidNow) = 1
      <4>1. \A s \in SlideNumbers : ~Slide!Fits(s)
        BY <1>1, <3>1, <3>4
      <4>2. Len(slideSupport.ValidSlides) <= 1
        <5>1. CASE slideSupport.ValidSlides = << >>
          <6>1. Len(slideSupport.ValidSlides) = 0
            BY <5>1
          <6> QED
            BY <6>1
        <5>2. CASE slideSupport.ValidSlides = ValidNow
          <6>1. Len(slideSupport.ValidSlides) = Len(ValidNow)
            BY <5>2
          <6>2. Len(slideSupport.ValidSlides) = 1
            BY <3>4, <6>1
          <6> QED
            BY <6>2
        <5> QED
          BY <3>2, <5>1, <5>2
      <4> QED
        BY <4>1, <4>2
    <3> QED
      BY <1>3, <3>1, <3>3, <3>4
  <2>2. ASSUME booter.read # Slide!Unread, ~booter.AppleCustomSlide, slideMap # << >>
        PROVE  booter.read.slide # Slide!NoSlide <=> \E s \in SlideNumbers : ~Slide!Fits(s)
    <3>1. booter.read.slide # Slide!NoSlide <=> Len(ValidNow) <= TOTAL_SLIDE_NUM - 1
      BY <2>2 DEF SlideInv, Decided
    <3> QED
      BY <1>1, <1>3, <2>2, <3>1
  <2>3. Slide!Range(Slide!Slides) = SlideNumbers
    BY <1>2
  <2> QED
    BY <2>1, <2>2, <2>3 DEF Slide!SlideFits
<1> QED
  BY <1>4 DEF SlideInv, ConfigKept, SlideFits

LEMMA SlideInitInv == Slide!SlideInit => SlideInv
<1> SUFFICES ASSUME Slide!SlideInit PROVE SlideInv
  OBVIOUS
<1>1. SlideRecords
  BY DEF Slide!SlideInit, Slide!NoSlideSupport, SlideRecords
<1>2. AnalysisKept
  BY DEF Slide!SlideInit, Slide!NoSlideSupport, AnalysisKept
<1>3. ArgumentsKept
  BY DEF Slide!SlideInit, Slide!NoSlideSupport, Slide!Unread, ArgumentsKept
<1>4. ConfigKept
  BY DEF Slide!SlideInit, Slide!NoSlideSupport, Slide!NotEntered, ConfigKept, Slide!KernelSeesStored
<1>5. Decided
  BY DEF Slide!SlideInit, Decided
<1> QED
  BY <1>1, <1>2, <1>3, <1>4, <1>5 DEF SlideInv

LEMMA SetVariablesInv ==
  ASSUME SlideInv, NEW args, NEW csr, Slide!SetVariables(args, csr)
  PROVE  SlideInv'
BY DEF SlideInv, Slide!SetVariables, SlideRecords, AnalysisKept, ArgumentsKept, Decided, ConfigKept,
       ValidNow, Slide!KernelSeesStored

LEMMA StartBooterInv ==
  ASSUME SlideInv, NEW given \in BOOLEAN, Slide!StartBooter(given)
  PROVE  SlideInv'
<1> DEFINE b == booter'
<1>1. /\ b = [started |-> booter.started + 1, AppleCustomSlide |-> given \/ nvram.args = "slide",
              read |-> Slide!Unread, csr |-> Slide!NoCsr, stored |-> Slide!NoCsr]
      /\ UNCHANGED <<slideMap, slideSupport, nvram, slideKernel>> /\ ~slideKernel.entered
  BY DEF Slide!StartBooter
<1>2. /\ b.read.slide = Slide!NoSlide /\ b.csr = Slide!NoCsr /\ b.read = Slide!Unread
      /\ b = [started |-> b.started, AppleCustomSlide |-> b.AppleCustomSlide,
              read |-> b.read, csr |-> b.csr, stored |-> b.stored]
  BY <1>1 DEF Slide!Unread
<1> HIDE DEF b
<1>3. SlideRecords'
  BY <1>1, <1>2 DEF b, SlideInv, SlideRecords
<1>4. AnalysisKept'
  BY <1>1 DEF SlideInv, AnalysisKept, ValidNow
<1>5. ArgumentsKept'
  BY <1>1, <1>2 DEF b, SlideInv, ArgumentsKept, ValidNow
<1>6. ConfigKept'
  BY <1>1, <1>2 DEF b, SlideInv, ConfigKept, Slide!KernelSeesStored
<1>7. Decided'
  BY <1>2 DEF b, Decided
<1> QED
  BY <1>3, <1>4, <1>5, <1>6, <1>7 DEF SlideInv

LEMMA GetCsrInv ==
  ASSUME SlideInv, Slide!GetVariableCsrActiveConfig
  PROVE  SlideInv'
<1> DEFINE b == booter'
           s == slideSupport'
           stored == IF nvram.csr = Slide!NoCsr THEN {} ELSE nvram.csr
<1>1. /\ s = [slideSupport EXCEPT !.HasCsrActiveConfig = TRUE, !.CsrActiveConfig = stored]
      /\ b = [booter EXCEPT !.csr = stored \cup {Unrestricted}, !.stored = stored]
      /\ UNCHANGED <<slideMap, nvram, slideKernel>> /\ ~slideKernel.entered
  BY DEF Slide!GetVariableCsrActiveConfig, Slide!Running
<1> HIDE DEF stored
<1>2. /\ b = [started |-> booter.started, AppleCustomSlide |-> booter.AppleCustomSlide,
              read |-> booter.read, csr |-> stored \cup {Unrestricted}, stored |-> stored]
      /\ s = [HasMemoryMapAnalysis |-> slideSupport.HasMemoryMapAnalysis,
              ValidSlides |-> slideSupport.ValidSlides, HasBootArgs |-> slideSupport.HasBootArgs,
              BootArgs |-> slideSupport.BootArgs, HasCsrActiveConfig |-> TRUE,
              CsrActiveConfig |-> stored]
  BY <1>1 DEF SlideInv, SlideRecords
<1> HIDE DEF b, s
<1>3. SlideRecords'
  BY <1>2 DEF b, s, SlideRecords
<1>4. AnalysisKept'
  BY <1>1, <1>2 DEF s, SlideInv, AnalysisKept, ValidNow
<1>5. ArgumentsKept'
  BY <1>1, <1>2 DEF b, s, SlideInv, ArgumentsKept, ValidNow
<1>6. ConfigKept'
  BY <1>1, <1>2 DEF b, s, ConfigKept, Slide!KernelSeesStored
<1>7. Decided'
  <2>1. b.read = booter.read /\ b.AppleCustomSlide = booter.AppleCustomSlide
    BY <1>2
  <2> QED
    BY <1>1, <2>1 DEF b, SlideInv, Decided, ValidNow
<1> QED
  BY <1>3, <1>4, <1>5, <1>6, <1>7 DEF SlideInv

\* The firmware's own boot-args.
LEMMA OwnArgumentsKept ==
  ASSUME SlideInv, ~slideKernel.entered, UNCHANGED <<slideMap, slideSupport, nvram, slideKernel>>,
         booter.AppleCustomSlide \/ slideMap = << >> \/ ~(Len(ValidNow) <= TOTAL_SLIDE_NUM - 1),
         Slide!ReadStoredBootArgs
  PROVE  SlideInv'
<1> DEFINE b == booter'
           read == [args |-> nvram.args, slide |-> Slide!NoSlide]
<1>1. read.slide = Slide!NoSlide
  OBVIOUS
<1>2. b = [booter EXCEPT !.read = read]
  BY DEF Slide!ReadStoredBootArgs
<1> HIDE DEF read
<1>3. b = [started |-> booter.started, AppleCustomSlide |-> booter.AppleCustomSlide,
           read |-> read, csr |-> booter.csr, stored |-> booter.stored]
  BY <1>2 DEF SlideInv, SlideRecords
<1> HIDE DEF b
<1>4. SlideRecords'
  BY <1>3 DEF b, SlideInv, SlideRecords
<1>5. AnalysisKept'
  BY DEF SlideInv, AnalysisKept, ValidNow
<1>6. ArgumentsKept'
  BY <1>1, <1>3 DEF b, SlideInv, ArgumentsKept, ValidNow
<1>7. ConfigKept'
  BY <1>3 DEF b, SlideInv, ConfigKept, Slide!KernelSeesStored
<1>8. Decided'
  <2>1. b.read.slide = Slide!NoSlide /\ b.AppleCustomSlide = booter.AppleCustomSlide
    BY <1>1, <1>3
  <2> QED
    BY <2>1 DEF b, Decided, ValidNow
<1> QED
  BY <1>4, <1>5, <1>6, <1>7, <1>8 DEF SlideInv

\* What a slide is chosen from.
LEMMA ChosenIsValid ==
  ASSUME NEW support, NEW slide \in Slide!GenerateSlideValue(support),
         DOMAIN support.ValidSlides = 1 .. Len(support.ValidSlides),
         Len(support.ValidSlides) \in Nat
  PROVE  slide \in Range(support.ValidSlides)
<1> DEFINE v == support.ValidSlides
<1> HIDE DEF v
<1>1. CASE Len(v) = 1 /\ slide = v[1]
  BY <1>1 DEF v, Range
<1>2. CASE slide \in {v[i] : i \in 2 .. Len(v)}
  <2>1. PICK i \in 2 .. Len(v) : slide = v[i]
    BY <1>2
  <2>2. i \in DOMAIN v
    BY <2>1 DEF v
  <2> QED
    BY <2>1, <2>2 DEF Range, v
<1> QED
  BY <1>1, <1>2 DEF v, Slide!GenerateSlideValue

\* What the analysis of a map answers, with the arguments of the earlier ones.
LEMMA AnalysedFacts ==
  ASSUME SlideInv, NEW map, NEW sandy,
         slideSupport.HasMemoryMapAnalysis = FALSE
  PROVE  Slide!Analysed(map, sandy) =
           [HasMemoryMapAnalysis |-> TRUE, ValidSlides |-> ValidFor(map, sandy),
            HasBootArgs |-> slideSupport.HasBootArgs, BootArgs |-> slideSupport.BootArgs,
            HasCsrActiveConfig |-> slideSupport.HasCsrActiveConfig,
            CsrActiveConfig |-> slideSupport.CsrActiveConfig]
<1> DEFINE v == ValidFor(map, sandy)
<1>1. Slide!Analysed(map, sandy) =
        [slideSupport EXCEPT !.HasMemoryMapAnalysis = TRUE, !.ValidSlides = v]
  BY DEF Slide!Analysed, ValidFor
<1> HIDE DEF v
<1>2. slideSupport = [HasMemoryMapAnalysis |-> slideSupport.HasMemoryMapAnalysis,
                     ValidSlides |-> slideSupport.ValidSlides,
                     HasBootArgs |-> slideSupport.HasBootArgs,
                     BootArgs |-> slideSupport.BootArgs,
                     HasCsrActiveConfig |-> slideSupport.HasCsrActiveConfig,
                     CsrActiveConfig |-> slideSupport.CsrActiveConfig]
  BY DEF SlideInv, SlideRecords
<1>3. Slide!Analysed(map, sandy) =
           [HasMemoryMapAnalysis |-> TRUE, ValidSlides |-> v,
            HasBootArgs |-> slideSupport.HasBootArgs, BootArgs |-> slideSupport.BootArgs,
            HasCsrActiveConfig |-> slideSupport.HasCsrActiveConfig,
            CsrActiveConfig |-> slideSupport.CsrActiveConfig]
  BY <1>1, <1>2
<1> QED
  BY <1>3 DEF v

\* The maps the firmware answers with can be analysed.
LEMMA MapsFacts ==
  ASSUME NEW map \in Slide!Maps
  PROVE  map \in Seq(SlideMap)
<1>1. PICK n \in 0 .. SlideMemory : map \in [1 .. n -> Slide!Descriptor]
  BY DEF Slide!Maps
<1>2. n \in Nat
  BY <1>1, SlidesAssumption DEF Slide!SlideAssumption
<1> QED
  BY <1>1, <1>2, FunctionIsSeq DEF SlideMap

\* An analysis of the map that is known, or of one that is new.
AnalysisOf(support, m) ==
  /\ m # << >> /\ m.map \in Seq(SlideMap) /\ m.sandy \in BOOLEAN
  /\ slideMap = m \/ slideMap = << >>
  /\ support = [HasMemoryMapAnalysis |-> TRUE, ValidSlides |-> ValidFor(m.map, m.sandy),
                HasBootArgs |-> slideSupport.HasBootArgs, BootArgs |-> slideSupport.BootArgs,
                HasCsrActiveConfig |-> slideSupport.HasCsrActiveConfig,
                CsrActiveConfig |-> slideSupport.CsrActiveConfig]

LEMMA MadeOnce ==
  ASSUME SlideInv, NEW support, AnalysisOf(support, slideMap'), ~slideKernel.entered,
         UNCHANGED <<nvram, slideKernel>>,
         Slide!UsesCustomSlide(support), Slide!GetVariableBootArgs(support)
  PROVE  /\ SlideInv'
         /\ slideSupport.HasBootArgs => booter'.read = slideSupport.BootArgs
<1> DEFINE v == ValidFor(slideMap'.map, slideMap'.sandy)
           b == booter'
           s == slideSupport'
           m == slideMap'
<1>1. /\ support = [HasMemoryMapAnalysis |-> TRUE, ValidSlides |-> v,
                    HasBootArgs |-> slideSupport.HasBootArgs, BootArgs |-> slideSupport.BootArgs,
                    HasCsrActiveConfig |-> slideSupport.HasCsrActiveConfig,
                    CsrActiveConfig |-> slideSupport.CsrActiveConfig]
      /\ m # << >> /\ m.map \in Seq(SlideMap) /\ m.sandy \in BOOLEAN
      /\ slideMap = m \/ slideMap = << >>
  BY DEF AnalysisOf
<1>2. Len(v) \in Nat /\ DOMAIN v = 1 .. Len(v) /\ Range(v) \subseteq SlideNumbers
  BY <1>1, ValidFacts
<1> HIDE DEF v, m
<1>3. support.ValidSlides = v /\ support.HasBootArgs = slideSupport.HasBootArgs
      /\ support.BootArgs = slideSupport.BootArgs
  BY <1>1
<1>4. Len(v) <= TOTAL_SLIDE_NUM - 1
  BY <1>2, <1>3, SlidesFacts DEF Slide!UsesCustomSlide
<1> DEFINE Made(slide) ==
             [args |-> IF nvram.args = "long" THEN "none" ELSE nvram.args, slide |-> slide]
           Told(slide) == IF support.HasBootArgs THEN support.BootArgs ELSE Made(slide)
<1>5. PICK slide \in Slide!GenerateSlideValue(support) :
        /\ slideSupport' = [support EXCEPT !.HasBootArgs = TRUE, !.BootArgs = Told(slide)]
        /\ booter' = [booter EXCEPT !.read = Told(slide)]
  BY DEF Slide!GetVariableBootArgs
<1>6. slide \in Range(v)
  BY <1>2, <1>3, ChosenIsValid
<1> DEFINE made == Made(slide)
           kept == Told(slide)
<1>7. made.slide = slide
  OBVIOUS
<1>8. /\ kept = IF slideSupport.HasBootArgs THEN slideSupport.BootArgs ELSE made
      /\ slideSupport' = [support EXCEPT !.HasBootArgs = TRUE, !.BootArgs = kept]
      /\ booter' = [booter EXCEPT !.read = kept]
  BY <1>3, <1>5
<1> HIDE DEF made, kept
<1>9. kept.slide \in Range(v)
  <2>1. CASE ~slideSupport.HasBootArgs
    BY <1>6, <1>7, <1>8, <2>1
  <2>2. CASE slideSupport.HasBootArgs
    <3>1. slideMap # << >> /\ slideSupport.BootArgs.slide \in Range(ValidNow)
      BY <2>2 DEF SlideInv, ArgumentsKept
    <3>2. ValidNow = v
      BY <1>1, <3>1 DEF ValidNow, v, m
    <3> QED
      BY <1>8, <2>2, <3>1, <3>2
  <2> QED
    BY <2>1, <2>2
<1>10. s = [HasMemoryMapAnalysis |-> TRUE, ValidSlides |-> v, HasBootArgs |-> TRUE,
            BootArgs |-> kept, HasCsrActiveConfig |-> slideSupport.HasCsrActiveConfig,
            CsrActiveConfig |-> slideSupport.CsrActiveConfig]
  BY <1>1, <1>8
<1>11. b = [started |-> booter.started, AppleCustomSlide |-> booter.AppleCustomSlide,
            read |-> kept, csr |-> booter.csr, stored |-> booter.stored]
  BY <1>8 DEF SlideInv, SlideRecords
<1> HIDE DEF s, b
<1>12. SlideRecords'
  BY <1>10, <1>11 DEF b, s, SlideRecords
<1>13. AnalysisKept'
  BY <1>1, <1>10 DEF s, m, v, AnalysisKept, ValidNow
<1>14. ArgumentsKept'
  <2>1. ValidNow' = v
    BY DEF ValidNow, v
  <2> QED
    BY <1>1, <1>4, <1>9, <1>10, <1>11, <2>1 DEF b, s, m, ArgumentsKept
<1>15. ConfigKept'
  BY <1>10, <1>11 DEF b, s, SlideInv, ConfigKept, Slide!KernelSeesStored
<1>16. slideSupport.HasBootArgs => booter'.read = slideSupport.BootArgs
  BY <1>8, <1>11 DEF b
<1>17. Decided'
  <2>1. ValidNow' = v
    BY DEF ValidNow, v
  <2>2. \A n \in SlideNumbers : n # Slide!NoSlide
    BY SlidesFacts DEF SlideNumbers, Slide!NoSlide
  <2>3. b.read.slide # Slide!NoSlide
    BY <1>2, <1>9, <1>11, <2>2
  <2> QED
    BY <1>4, <2>1, <2>3 DEF b, Decided
<1> QED
  BY <1>12, <1>13, <1>14, <1>15, <1>16, <1>17 DEF SlideInv

\* All or none of the slides are valid: boot.efi reads its own boot-args.
LEMMA NoneChosen ==
  ASSUME SlideInv, NEW support, AnalysisOf(support, slideMap'), ~slideKernel.entered,
         UNCHANGED <<nvram, slideKernel>>, slideMap = << >>, ~Slide!UsesCustomSlide(support),
         slideSupport' = support, Slide!ReadStoredBootArgs
  PROVE  SlideInv'
<1> DEFINE v == ValidFor(slideMap'.map, slideMap'.sandy)
           b == booter'
           s == slideSupport'
           m == slideMap'
           read == [args |-> nvram.args, slide |-> Slide!NoSlide]
<1>1. /\ s = [HasMemoryMapAnalysis |-> TRUE, ValidSlides |-> v,
              HasBootArgs |-> slideSupport.HasBootArgs, BootArgs |-> slideSupport.BootArgs,
              HasCsrActiveConfig |-> slideSupport.HasCsrActiveConfig,
              CsrActiveConfig |-> slideSupport.CsrActiveConfig]
      /\ m # << >> /\ m.map \in Seq(SlideMap) /\ m.sandy \in BOOLEAN
  BY DEF AnalysisOf
<1>2. read.slide = Slide!NoSlide
  OBVIOUS
<1>3. b = [booter EXCEPT !.read = read]
  BY DEF Slide!ReadStoredBootArgs
<1> HIDE DEF read
<1>4. b = [started |-> booter.started, AppleCustomSlide |-> booter.AppleCustomSlide,
           read |-> read, csr |-> booter.csr, stored |-> booter.stored]
  BY <1>3 DEF SlideInv, SlideRecords
<1>5. ~slideSupport.HasBootArgs
  BY DEF SlideInv, ArgumentsKept
<1>10. ~(Len(v) <= TOTAL_SLIDE_NUM - 1)
  <2>1. Len(v) \in Nat /\ Len(v) >= 1
    BY <1>1, ValidFacts
  <2>2. Len(v) \notin 1 .. TOTAL_SLIDE_NUM - 1
    BY <1>1 DEF Slide!UsesCustomSlide
  <2> HIDE DEF v
  <2> QED
    BY <2>1, <2>2, SlidesFacts
<1> HIDE DEF v, b, s, m
<1>6. SlideRecords'
  BY <1>1, <1>4 DEF b, s, SlideRecords
<1>7. AnalysisKept'
  BY <1>1 DEF s, m, v, AnalysisKept, ValidNow
<1>8. ArgumentsKept'
  BY <1>1, <1>2, <1>4, <1>5 DEF b, s, ArgumentsKept
<1>9. ConfigKept'
  BY <1>1, <1>4 DEF b, s, SlideInv, ConfigKept, Slide!KernelSeesStored
<1>11. Decided'
  <2>1. b.read.slide = Slide!NoSlide
    BY <1>2, <1>4
  <2>2. ValidNow' = v
    BY DEF ValidNow, v
  <2> QED
    BY <1>10, <2>1, <2>2 DEF b, Decided
<1> QED
  BY <1>6, <1>7, <1>8, <1>9, <1>11 DEF SlideInv

LEMMA ReadBootArgsInv ==
  ASSUME SlideInv, NEW map \in Slide!MapsNow, NEW sandy \in BOOLEAN, Slide!ReadBootArgs(map, sandy)
  PROVE  /\ SlideInv'
         /\ slideSupport.HasBootArgs /\ ~booter.AppleCustomSlide =>
              booter'.read = slideSupport.BootArgs
         /\ booter.AppleCustomSlide => booter'.read.slide = Slide!NoSlide
<1> DEFINE R == /\ SlideInv'
                /\ slideSupport.HasBootArgs /\ ~booter.AppleCustomSlide =>
                     booter'.read = slideSupport.BootArgs
                /\ booter.AppleCustomSlide => booter'.read.slide = Slide!NoSlide
<1>1. ~slideKernel.entered /\ UNCHANGED <<nvram, slideKernel>>
  BY DEF Slide!ReadBootArgs, Slide!Running
<1>2. Slide!ReadStoredBootArgs => booter'.read.slide = Slide!NoSlide
  <2> SUFFICES ASSUME Slide!ReadStoredBootArgs PROVE booter'.read.slide = Slide!NoSlide
    OBVIOUS
  <2>1. booter' = [booter EXCEPT !.read = [args |-> nvram.args, slide |-> Slide!NoSlide]]
    BY DEF Slide!ReadStoredBootArgs
  <2>2. booter = [started |-> booter.started, AppleCustomSlide |-> booter.AppleCustomSlide,
                  read |-> booter.read, csr |-> booter.csr, stored |-> booter.stored]
    BY DEF SlideInv, SlideRecords
  <2> QED
    BY <2>1, <2>2
<1>3. CASE booter.AppleCustomSlide
  <2>1. UNCHANGED <<slideMap, slideSupport>> /\ Slide!ReadStoredBootArgs
    BY <1>3 DEF Slide!ReadBootArgs
  <2>2. SlideInv'
    BY <1>1, <1>3, <2>1, OwnArgumentsKept
  <2> QED
    BY <1>2, <1>3, <2>1, <2>2
<1>4. CASE ~booter.AppleCustomSlide /\ slideSupport.HasMemoryMapAnalysis
  <2>1. slideMap' = slideMap
    BY <1>4 DEF Slide!ReadBootArgs
  <2>2. CASE Slide!UsesCustomSlide(slideSupport)
    <3>1. Slide!GetVariableBootArgs(slideSupport)
      BY <1>4, <2>2 DEF Slide!ReadBootArgs
    <3>2. /\ slideMap # << >> /\ slideMap.map \in Seq(SlideMap) /\ slideMap.sandy \in BOOLEAN
          /\ slideSupport.ValidSlides = ValidFor(slideMap.map, slideMap.sandy)
          /\ slideSupport.HasMemoryMapAnalysis = TRUE
      <4>1. slideMap # << >>
        BY <1>4 DEF SlideInv, AnalysisKept
      <4>2. slideSupport.HasMemoryMapAnalysis = TRUE
        BY <1>4, <4>1 DEF SlideInv, AnalysisKept
      <4> QED
        BY <1>1, <4>1, <4>2 DEF SlideInv, AnalysisKept, ValidNow
    <3>3. AnalysisOf(slideSupport, slideMap')
      BY <2>1, <3>2 DEF SlideInv, SlideRecords, AnalysisOf
    <3>4. SlideInv' /\ (slideSupport.HasBootArgs => booter'.read = slideSupport.BootArgs)
      BY <1>1, <2>2, <3>1, <3>3, MadeOnce
    <3> QED
      BY <1>4, <3>4
  <2>3. CASE ~Slide!UsesCustomSlide(slideSupport)
    <3>1. UNCHANGED slideSupport /\ Slide!ReadStoredBootArgs
      BY <1>4, <2>3 DEF Slide!ReadBootArgs
    <3>2. ~(Len(ValidNow) <= TOTAL_SLIDE_NUM - 1)
      <4> SUFFICES ASSUME Len(ValidNow) <= TOTAL_SLIDE_NUM - 1 PROVE FALSE
        OBVIOUS
      <4>1. slideMap # << >>
        BY <1>4 DEF SlideInv, AnalysisKept
      <4>2. slideSupport.ValidSlides = ValidNow /\ slideMap.map \in Seq(SlideMap)
            /\ slideMap.sandy \in BOOLEAN
        BY <1>1, <4>1 DEF SlideInv, AnalysisKept
      <4>3. Len(ValidNow) \in Nat /\ Len(ValidNow) >= 1
        BY <4>2, ValidFacts DEF ValidNow
      <4>4. Len(slideSupport.ValidSlides) \in 1 .. TOTAL_SLIDE_NUM - 1
        <5>1. Len(slideSupport.ValidSlides) = Len(ValidNow)
          BY <4>2
        <5> QED
          BY <4>3, <5>1, SlidesFacts
      <4> QED
        BY <2>3, <4>4 DEF Slide!UsesCustomSlide
    <3>3. SlideInv'
      BY <1>1, <2>1, <3>1, <3>2, OwnArgumentsKept
    <3>4. ~slideSupport.HasBootArgs
      BY <3>2 DEF SlideInv, ArgumentsKept
    <3> QED
      BY <1>4, <3>3, <3>4
  <2> QED
    BY <2>2, <2>3
<1>5. CASE ~booter.AppleCustomSlide /\ ~slideSupport.HasMemoryMapAnalysis
  <2>1. slideMap = << >> /\ slideSupport.HasMemoryMapAnalysis = FALSE /\ ~slideSupport.HasBootArgs
    BY <1>5 DEF SlideInv, AnalysisKept, ArgumentsKept
  <2>2. CASE map = << >>
    <3>1. UNCHANGED <<slideMap, slideSupport>> /\ Slide!ReadStoredBootArgs
      BY <1>5, <2>2 DEF Slide!ReadBootArgs
    <3>2. SlideInv'
      BY <1>1, <2>1, <3>1, OwnArgumentsKept
    <3> QED
      BY <1>5, <2>1, <3>2
  <2>3. CASE map # << >>
    <3>1. map \in Seq(SlideMap)
      BY <2>3, MapsFacts DEF Slide!MapsNow
    <3> DEFINE support == Slide!Analysed(map, sandy)
               m == [map |-> map, sandy |-> sandy]
    <3>2. /\ slideMap' = m
          /\ IF Slide!UsesCustomSlide(support) THEN Slide!GetVariableBootArgs(support)
             ELSE slideSupport' = support /\ Slide!ReadStoredBootArgs
      BY <1>5, <2>3 DEF Slide!ReadBootArgs
    <3>3. m # << >> /\ m.map = map /\ m.sandy = sandy
      <4>1. DOMAIN m = {"map", "sandy"}
        OBVIOUS
      <4>2. "map" \notin DOMAIN << >>
        OBVIOUS
      <4>3. m # << >>
        BY <4>1, <4>2
      <4> QED
        BY <4>3
    <3>4. support = [HasMemoryMapAnalysis |-> TRUE, ValidSlides |-> ValidFor(map, sandy),
                     HasBootArgs |-> slideSupport.HasBootArgs,
                     BootArgs |-> slideSupport.BootArgs,
                     HasCsrActiveConfig |-> slideSupport.HasCsrActiveConfig,
                     CsrActiveConfig |-> slideSupport.CsrActiveConfig]
      BY <2>1, AnalysedFacts
    <3> HIDE DEF m, support
    <3>5. AnalysisOf(support, slideMap')
      BY <2>1, <3>1, <3>2, <3>3, <3>4 DEF AnalysisOf
    <3>6. CASE Slide!UsesCustomSlide(support)
      <4>1. SlideInv'
        BY <1>1, <3>2, <3>5, <3>6, MadeOnce
      <4> QED
        BY <1>5, <2>1, <4>1
    <3>7. CASE ~Slide!UsesCustomSlide(support)
      <4>1. SlideInv'
        BY <1>1, <2>1, <3>2, <3>5, <3>7, NoneChosen
      <4> QED
        BY <1>5, <2>1, <4>1
    <3> QED
      BY <3>6, <3>7
  <2> QED
    BY <2>2, <2>3
<1> QED
  BY <1>3, <1>4, <1>5

\* What boot.efi read, as arguments, is a list of numbers.
LEMMA ArgumentsFacts ==
  ASSUME SlideInv
  PROVE  Slide!Arguments(booter.read) \in Seq(Int)
<1> DEFINE own == CASE booter.read.args = "slide" -> <<Slide!OtherWord, Slide!OwnSlide>>
                    [] booter.read.args = "none" -> << >>
                    [] OTHER -> <<Slide!OtherWord>>
           more == IF booter.read.slide = Slide!NoSlide THEN << >> ELSE <<booter.read.slide>>
<1>1. Slide!OtherWord \in Int /\ Slide!OwnSlide \in Int
  BY DEF Slide!OtherWord, Slide!OwnSlide
<1>2. own \in Seq(Int)
  BY <1>1
<1>3. more \in Seq(Int)
  <2>1. CASE booter.read.slide = Slide!NoSlide
    BY <2>1
  <2>2. CASE booter.read.slide # Slide!NoSlide
    <3>1. slideMap # << >> /\ booter.read.slide \in Range(ValidNow)
      BY <2>2 DEF SlideInv, ArgumentsKept
    <3>2. Range(ValidNow) \subseteq SlideNumbers
      BY <3>1, ValidFacts DEF SlideInv, AnalysisKept, ValidNow
    <3>3. booter.read.slide \in Int
      BY <3>1, <3>2, SlidesFacts DEF SlideNumbers
    <3> QED
      BY <3>3
  <2> QED
    BY <2>1, <2>2
<1>4. Slide!Arguments(booter.read) = own \o more
  BY DEF Slide!Arguments
<1> HIDE DEF own, more
<1> QED
  BY <1>2, <1>3, <1>4

LEMMA AppleSlideRestoreInv ==
  ASSUME SlideInv, NEW known \in BOOLEAN, NEW found \in BOOLEAN,
         Slide!AppleSlideRestore(known, found)
  PROVE  SlideInv'
<1> DEFINE s == slideSupport'
           k == slideKernel'
           line == Slide!Arguments(booter.read)
           left == Slide!OcRemoveArgumentFromCmd(line)
<1>1. /\ k = [entered |-> TRUE, CommandLine |-> left,
              chosen |-> IF found THEN left ELSE line, found |-> found,
              csr |-> IF known
                      THEN IF slideSupport.HasCsrActiveConfig THEN slideSupport.CsrActiveConfig
                           ELSE booter.csr
                      ELSE Slide!NoCsr]
      /\ s = [slideSupport EXCEPT !.ValidSlides = << >>, !.BootArgs = Slide!Unread]
      /\ UNCHANGED <<slideMap, nvram, booter>> /\ booter.csr # Slide!NoCsr
  BY DEF Slide!AppleSlideRestore
<1>2. s = [HasMemoryMapAnalysis |-> slideSupport.HasMemoryMapAnalysis, ValidSlides |-> << >>,
           HasBootArgs |-> slideSupport.HasBootArgs, BootArgs |-> Slide!Unread,
           HasCsrActiveConfig |-> slideSupport.HasCsrActiveConfig,
           CsrActiveConfig |-> slideSupport.CsrActiveConfig]
  BY <1>1 DEF SlideInv, SlideRecords
<1>3. Slide!Range(left) \subseteq {Slide!OtherWord}
  BY ArgumentsFacts, OnlyOthers
<1> HIDE DEF s, k, line, left
<1>4. k.entered
  BY <1>1
<1>5. k.csr \in {booter.stored, Slide!NoCsr}
  BY <1>1 DEF SlideInv, ConfigKept
<1>6. k.CommandLine = left /\ (k.found => k.chosen = left)
  BY <1>1
<1>7. SlideRecords'
  BY <1>1, <1>2 DEF s, SlideInv, SlideRecords
<1>8. AnalysisKept'
  BY <1>1, <1>2, <1>4 DEF s, k, SlideInv, AnalysisKept, ValidNow
<1>9. ArgumentsKept'
  BY <1>1, <1>2, <1>4 DEF s, k, SlideInv, ArgumentsKept, ValidNow
<1>10. Decided'
  BY <1>1 DEF SlideInv, Decided, ValidNow
<1>11. ConfigKept'
  <2>1. Slide!KernelSeesStored'
    BY <1>1, <1>2, <1>3, <1>5, <1>6 DEF s, k, Slide!KernelSeesStored
  <2>2. booter'.csr # Slide!NoCsr =>
          s.HasCsrActiveConfig /\ s.CsrActiveConfig = booter'.stored
    BY <1>1, <1>2 DEF SlideInv, ConfigKept
  <2> QED
    BY <2>1, <2>2 DEF s, ConfigKept
<1> QED
  BY <1>7, <1>8, <1>9, <1>10, <1>11 DEF SlideInv

LEMMA SlideRestartInv ==
  ASSUME Slide!SlideRestart
  PROVE  SlideInv' /\ booter'.started = 0
<1>1. SlideRecords'
  BY DEF Slide!SlideRestart, Slide!NoSlideSupport, SlideRecords
<1>2. AnalysisKept'
  BY DEF Slide!SlideRestart, Slide!NoSlideSupport, AnalysisKept
<1>3. ArgumentsKept'
  BY DEF Slide!SlideRestart, Slide!NoSlideSupport, Slide!Unread, ArgumentsKept
<1>4. ConfigKept'
  BY DEF Slide!SlideRestart, Slide!NoSlideSupport, Slide!NotEntered, ConfigKept,
         Slide!KernelSeesStored
<1>5. Decided'
  BY DEF Slide!SlideRestart, Decided
<1>6. booter'.started = 0
  BY DEF Slide!SlideRestart
<1> QED
  BY <1>1, <1>2, <1>3, <1>4, <1>5, <1>6 DEF SlideInv

LEMMA SlideStep == [MCNext]_MCVars => [Slide!SlideNext]_SlideVars
BY DEF MCNext, MCVars, SlideVars

\* One step of the system in the invariant: it stays, and boot.efi reads what it read.
LEMMA SlideNextInv ==
  ASSUME SlideInv, [Slide!SlideNext]_SlideVars
  PROVE  /\ SlideInv'
         /\ booter.read.slide # Slide!NoSlide /\ booter'.read.slide # Slide!NoSlide
              /\ booter'.started # 0 =>
              booter'.read.slide = booter.read.slide
<1> DEFINE Same == booter.read.slide # Slide!NoSlide /\ booter'.read.slide # Slide!NoSlide
                     /\ booter'.started # 0 =>
                     booter'.read.slide = booter.read.slide
<1>1. ASSUME NEW args, NEW csr, Slide!SetVariables(args, csr) PROVE SlideInv' /\ Same
  <2>1. booter' = booter
    BY <1>1 DEF Slide!SetVariables
  <2>2. SlideInv'
    BY <1>1, SetVariablesInv
  <2> QED
    BY <2>1, <2>2
<1>2. ASSUME NEW given \in BOOLEAN, Slide!StartBooter(given) PROVE SlideInv' /\ Same
  <2>1. booter'.read.slide = Slide!NoSlide
    BY <1>2 DEF Slide!StartBooter, Slide!Unread
  <2>2. SlideInv'
    BY <1>2, StartBooterInv
  <2> QED
    BY <2>1, <2>2
<1>3. CASE Slide!GetVariableCsrActiveConfig
  <2>1. booter'.read = booter.read
    <3>1. booter = [started |-> booter.started, AppleCustomSlide |-> booter.AppleCustomSlide,
                    read |-> booter.read, csr |-> booter.csr, stored |-> booter.stored]
      BY DEF SlideInv, SlideRecords
    <3>2. \E c, t : booter' = [booter EXCEPT !.csr = c, !.stored = t]
      BY <1>3 DEF Slide!GetVariableCsrActiveConfig
    <3> QED
      BY <3>1, <3>2
  <2>2. SlideInv'
    BY <1>3, GetCsrInv
  <2> QED
    BY <2>1, <2>2
<1>4. ASSUME NEW map \in Slide!MapsNow, NEW sandy \in BOOLEAN, Slide!ReadBootArgs(map, sandy)
      PROVE  SlideInv' /\ Same
  <2>1. /\ SlideInv'
        /\ slideSupport.HasBootArgs /\ ~booter.AppleCustomSlide =>
             booter'.read = slideSupport.BootArgs
        /\ booter.AppleCustomSlide => booter'.read.slide = Slide!NoSlide
    BY <1>4, ReadBootArgsInv
  <2>2. ~slideKernel.entered
    BY <1>4 DEF Slide!ReadBootArgs, Slide!Running
  <2>3. booter.read.slide # Slide!NoSlide =>
          slideSupport.HasBootArgs /\ slideSupport.BootArgs = booter.read
    BY <2>2 DEF SlideInv, ArgumentsKept
  <2> QED
    BY <2>1, <2>3
<1>5. ASSUME NEW known \in BOOLEAN, NEW found \in BOOLEAN, Slide!AppleSlideRestore(known, found)
      PROVE  SlideInv' /\ Same
  <2>1. booter' = booter
    BY <1>5 DEF Slide!AppleSlideRestore
  <2>2. SlideInv'
    BY <1>5, AppleSlideRestoreInv
  <2> QED
    BY <2>1, <2>2
<1>6. CASE Slide!SlideRestart
  BY <1>6, SlideRestartInv
<1>7. CASE UNCHANGED SlideVars
  <2>1. SlideInv'
    BY <1>7 DEF SlideVars, SlideInv, SlideRecords, AnalysisKept, ArgumentsKept, Decided, ConfigKept,
                ValidNow, Slide!KernelSeesStored
  <2>2. booter' = booter
    BY <1>7 DEF SlideVars
  <2> QED
    BY <2>1, <2>2
<1>8. CASE Slide!SlideNext
  <2>1. CASE \E args \in {"plain", "long", "slide"}, csr \in SlideCsr \cup {Slide!NoCsr} :
               Slide!SetVariables(args, csr)
    BY <1>1, <2>1
  <2>2. CASE \E given \in BOOLEAN : Slide!StartBooter(given)
    BY <1>2, <2>2
  <2>3. CASE \E map \in Slide!MapsNow, sandy \in BOOLEAN : Slide!ReadBootArgs(map, sandy)
    BY <1>4, <2>3
  <2>4. CASE \E known, found \in BOOLEAN : Slide!AppleSlideRestore(known, found)
    BY <1>5, <2>4
  <2> QED
    BY <1>3, <1>6, <1>8, <2>1, <2>2, <2>3, <2>4 DEF Slide!SlideNext
<1>9. SlideInv' /\ Same
  BY <1>7, <1>8
<1> QED
  BY <1>9

LEMMA SlideInvHolds == MCSpec => []SlideInv
<1>1. MCInit => SlideInv
  BY SlideInitInv DEF MCInit
<1>2. SlideInv /\ [MCNext]_MCVars => SlideInv'
  BY SlideStep, SlideNextInv
<1> QED
  BY <1>1, <1>2, PTL DEF MCSpec

\* The slide that boot.efi is made to use is one whose whole memory is free in the map that
\* was analysed, however it is cut into descriptors, unless no slide fits; it is made to use
\* one exactly when some do not fit; and the kernel sees neither it, nor a slide that was
\* there before, nor the configuration that was made up for boot.efi
\* (CustomSlide.c:88-96, 302-375, 454-456, 565-601, 755-782, 798-810).
THEOREM SlidesFit == MCSpec => []SlideFits
<1> QED
  BY SlideInvHolds, SlideInvSuffices, PTL

\* boot.efi is told one slide only, however often it reads its boot-args
\* (CustomSlide.c:496-533).
THEOREM OneSlideOnly == MCSpec => OneSlide
<1> DEFINE Same == booter.read.slide # Slide!NoSlide /\ booter'.read.slide # Slide!NoSlide
                     /\ booter'.started # 0 =>
                     booter'.read.slide = booter.read.slide
<1>1. SlideInv /\ [MCNext]_MCVars => [Same]_SlideVars
  BY SlideStep, SlideNextInv
<1> HIDE DEF Same
<1>2. MCSpec => [][Same]_SlideVars
  BY <1>1, SlideInvHolds, PTL DEF MCSpec
<1>3. [][Same]_SlideVars => OneSlide
  BY DEF Same, OneSlide, Slide!OneSlide, Slide!slideVars, SlideVars
<1> QED
  BY <1>2, <1>3
=============================================================================
