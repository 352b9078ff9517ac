---------------------------- MODULE CustomSlide ----------------------------
(***************************************************************************)
(* The slide of the kernel that OcAppleBootCompatLib chooses for boot.efi  *)
(* (CustomSlide.c).                                                        *)
(*                                                                         *)
(* boot.efi reads boot-args and csr-active-config, as often as it likes,   *)
(* and puts the kernel where the slide argument says, or where it likes    *)
(* itself when there is none.  The library looks once at the memory map    *)
(* and, unless every slide fits, adds one that does to what is read.  When *)
(* the kernel is entered, other than to wake from hibernation, nothing of  *)
(* this may be left for it to see.                                         *)
(*                                                                         *)
(* Memory is counted in units of SLIDE_GRANULARITY.                        *)
(***************************************************************************)
EXTENDS Integers, Sequences, SequencesExt, FiniteSetsExt, ListLoops

CONSTANTS
  TOTAL_SLIDE_NUM, SLIDE_ERRATA_NUM, SLIDE_ERRATA_SKIP_RANGE,
  KERNEL_BASE_PADDR, ESTIMATED_KERNEL_SIZE,
  SlideMemory,    \* size of the memory
  SlideCsr,       \* values of csr-active-config, sets of its flags
  Unrestricted,   \* the flag CSR_ALLOW_UNRESTRICTED_NVRAM
  SlideBoots      \* bound: boot.efi started

SlideAssumption ==
  /\ {TOTAL_SLIDE_NUM, SLIDE_ERRATA_NUM, SLIDE_ERRATA_SKIP_RANGE, KERNEL_BASE_PADDR} \subseteq Nat
  /\ TOTAL_SLIDE_NUM > 1
  /\ ESTIMATED_KERNEL_SIZE \in Nat \ {0} /\ {SlideMemory, SlideBoots} \subseteq Nat

VARIABLES
  slideMap,       \* the map that was analysed: a sequence of descriptors
  slideSupport,   \* SLIDE_SUPPORT_STATE
  nvram,          \* the stored variables; NoCsr when csr-active-config is missing.
                  \* args: "plain", "long" (no room for one more), or "slide"
                  \* (it names a slide itself)
  booter,         \* boot.efi: started, AppleCustomSlide, what it last read (args, slide,
                  \* csr), and csr as it was stored then (history)
  slideKernel     \* what the kernel was given: CommandLine, and chosen, the boot-args of
                  \* /chosen in its device tree, as they name slides

slideVars == <<slideMap, slideSupport, nvram, booter, slideKernel>>

NoCsr == {"missing"}
NoSlide == -1
OwnSlide == -2    \* the argument of somebody who chose a slide himself
OtherWord == -3   \* any other argument
Unread == [args |-> "none", slide |-> NoSlide]
NoSlideSupport == [HasMemoryMapAnalysis |-> FALSE, ValidSlides |-> << >>, HasBootArgs |-> FALSE,
                   BootArgs |-> Unread, HasCsrActiveConfig |-> FALSE, CsrActiveConfig |-> {}]
NotEntered == [entered |-> FALSE, CommandLine |-> << >>, chosen |-> << >>, found |-> FALSE,
               csr |-> NoCsr]

\* Descriptors follow one another from address 0, with pages of them.
Descriptor == [pages : 1 .. SlideMemory, type : {"conventional", "runtime", "other"}]
PhysicalStart(map, d) == Total([e \in DOMAIN map |-> map[e].pages], d - 1)
PhysicalEnd(map, d) == PhysicalStart(map, d) + map[d].pages

Maps ==
  {m \in UNION {[1 .. n -> Descriptor] : n \in 0 .. SlideMemory} :
     PhysicalStart(m, Len(m) + 1) = SlideMemory}

RuntimePages(map) ==
  Total([e \in DOMAIN map |-> IF map[e].type = "runtime" THEN map[e].pages ELSE 0], Len(map))

----------------------------------------------------------------------------
\* GetSlideRangeForValue: the first address and the end of the kernel.
StartAddr(slide, sandy) ==
  slide + KERNEL_BASE_PADDR
        + IF slide >= SLIDE_ERRATA_NUM /\ sandy THEN SLIDE_ERRATA_SKIP_RANGE ELSE 0

EndAddr(map, slide, sandy) ==
  StartAddr(slide, sandy) + RuntimePages(map) + ESTIMATED_KERNEL_SIZE

\* The memory of a descriptor overlaps with that of the kernel.
Overlaps(map, d, start, end) == PhysicalStart(map, d) < end /\ PhysicalEnd(map, d) > start

InTheWay(map, start, end) ==
  {d \in DOMAIN map : map[d].type # "conventional" /\ Overlaps(map, d, start, end)}

\* Mutant: what lies before the slide is counted.
LeftBeforeToo(map, d, start, end) == map[d].pages - Max({0, PhysicalEnd(map, d) - end})

\* What a descriptor that overlaps leaves to the kernel.
Left(map, d, start, end) ==
  map[d].pages - Max({0, start - PhysicalStart(map, d)}) - Max({0, PhysicalEnd(map, d) - end})

\* The memory that the descriptors leave to the kernel, up to the first one in its way.
Available(map, start, end) ==
  LET way == InTheWay(map, start, end)
      taken == {d \in DOMAIN map : Overlaps(map, d, start, end) /\ \A b \in way : d < b}
  IN  Total([d \in DOMAIN map |-> IF d \in taken THEN Left(map, d, start, end) ELSE 0], Len(map))

Slides == [i \in 1 .. TOTAL_SLIDE_NUM |-> i - 1]

\* The memory of a slide is all there and all free.
Supports(map, slide, sandy) ==
  LET start == StartAddr(slide, sandy)  end == EndAddr(map, slide, sandy)
  IN  InTheWay(map, start, end) = {} /\ start + Available(map, start, end) = end

Supported(map, sandy) == Only(Slides, {s \in Range(Slides) : Supports(map, s, sandy)})

\* The first slide with the most memory, 0 if none has any.
FallbackSlide(map, sandy) ==
  LET size == [s \in Range(Slides) |->
                 Available(map, StartAddr(s, sandy), EndAddr(map, s, sandy))]
      most == Max(Range(size))
  IN  IF most = 0 THEN 0 ELSE Min({s \in Range(Slides) : size[s] = most})

\* ShouldUseCustomSlideOffsetDecision: without any supported slide the fallback is
\* taken for one.
Analysed(map, sandy) ==
  LET valid == Supported(map, sandy) IN
  [slideSupport EXCEPT !.HasMemoryMapAnalysis = TRUE,
     !.ValidSlides = IF valid = << >> THEN <<FallbackSlide(map, sandy)>> ELSE valid]

\* Mutant: a fallback is not passed on.
UsesCustomSlideSeveral(support) == Len(support.ValidSlides) \in 2 .. TOTAL_SLIDE_NUM - 1

UsesCustomSlide(support) == Len(support.ValidSlides) \in 1 .. TOTAL_SLIDE_NUM - 1

\* The slides that may be generated: never the first one, unless it is the only one.
GenerateSlideValue(support) ==
  IF Len(support.ValidSlides) = 1 THEN {support.ValidSlides[1]}
  ELSE {support.ValidSlides[i] : i \in 2 .. Len(support.ValidSlides)}

----------------------------------------------------------------------------
SlideInit ==
  /\ slideMap = << >> /\ slideSupport = NoSlideSupport
  /\ nvram = [args |-> "plain", csr |-> {}]
  /\ booter = [started |-> 0, AppleCustomSlide |-> FALSE, read |-> Unread, csr |-> NoCsr,
               stored |-> NoCsr]
  /\ slideKernel = NotEntered

\* Somebody writes the variables, boot.efi itself or what runs before it.
SetVariables(args, csr) ==
  /\ ~slideKernel.entered
  /\ nvram' = [args |-> args, csr |-> csr]
  /\ UNCHANGED <<slideMap, slideSupport, booter, slideKernel>>

\* OcStartImage: a slide in the boot-args of the user (or in the load options, given)
\* switches the choice off.  The state of an earlier boot.efi, which failed, is kept.
StartBooter(given) ==
  /\ booter.started < SlideBoots /\ ~slideKernel.entered
  /\ booter' = [started |-> booter.started + 1,
                AppleCustomSlide |-> given \/ nvram.args = "slide",
                read |-> Unread, csr |-> NoCsr, stored |-> NoCsr]
  /\ UNCHANGED <<slideMap, slideSupport, nvram, slideKernel>>

Running == booter.started > 0 /\ ~slideKernel.entered

\* csr-active-config with room for it.
GetVariableCsrActiveConfig ==
  LET csr == IF nvram.csr = NoCsr THEN {} ELSE nvram.csr IN
  /\ Running
  /\ slideSupport' = [slideSupport EXCEPT !.HasCsrActiveConfig = TRUE, !.CsrActiveConfig = csr]
  /\ booter' = [booter EXCEPT !.csr = csr \cup {Unrestricted}, !.stored = csr]
  /\ UNCHANGED <<slideMap, nvram, slideKernel>>

\* The firmware's own boot-args.
ReadStoredBootArgs ==
  booter' = [booter EXCEPT !.read = [args |-> nvram.args, slide |-> NoSlide]]

\* Mutant: the arguments are made at every read.
GetVariableBootArgsAnew(support) ==
  \E slide \in GenerateSlideValue(support) :
    LET made == [args |-> IF nvram.args = "long" THEN "none" ELSE nvram.args, slide |-> slide]
    IN  /\ slideSupport' = [support EXCEPT !.HasBootArgs = TRUE, !.BootArgs = made]
        /\ booter' = [booter EXCEPT !.read = made]

\* GetVariableBootArgs with the given analysis: the arguments are made once and kept;
\* boot-args without room for one more are given up.
GetVariableBootArgs(support) ==
  \E slide \in GenerateSlideValue(support) :
    LET made == [args |-> IF nvram.args = "long" THEN "none" ELSE nvram.args, slide |-> slide]
        kept == IF support.HasBootArgs THEN support.BootArgs ELSE made
    IN  /\ slideSupport' = [support EXCEPT !.HasBootArgs = TRUE, !.BootArgs = kept]
        /\ booter' = [booter EXCEPT !.read = kept]

\* boot-args.  The map is analysed when they are first read, if there is memory for
\* it (map is << >> otherwise).
ReadBootArgs(map, sandy) ==
  /\ Running
  /\ IF booter.AppleCustomSlide
     THEN UNCHANGED <<slideMap, slideSupport>> /\ ReadStoredBootArgs
     ELSE IF slideSupport.HasMemoryMapAnalysis
     THEN /\ UNCHANGED slideMap
          /\ IF UsesCustomSlide(slideSupport) THEN GetVariableBootArgs(slideSupport)
             ELSE UNCHANGED slideSupport /\ ReadStoredBootArgs
     ELSE IF map = << >>
     THEN UNCHANGED <<slideMap, slideSupport>> /\ ReadStoredBootArgs
     ELSE LET support == Analysed(map, sandy) IN
          /\ slideMap' = [map |-> map, sandy |-> sandy]
          /\ IF UsesCustomSlide(support) THEN GetVariableBootArgs(support)
             ELSE slideSupport' = support /\ ReadStoredBootArgs
  /\ UNCHANGED <<nvram, slideKernel>>

\* What boot.efi read, as arguments.
Arguments(read) ==
  (CASE read.args = "slide" -> <<OtherWord, OwnSlide>>
     [] read.args = "none" -> << >>
     [] OTHER -> <<OtherWord>>)
  \o IF read.slide = NoSlide THEN << >> ELSE <<read.slide>>

\* Mutant: only the first argument of the name is removed.
OcRemoveArgumentFromCmdFirst(line) ==
  LET named == {i \in DOMAIN line : line[i] # OtherWord}
  IN  IF named = {} THEN line ELSE RemoveAt(line, Min(named))

\* With the name "slide=": every argument of that name is removed.
OcRemoveArgumentFromCmd(line) == Only(line, {OtherWord})

\* AppleSlideRestore with HideSlideFromOs, when the kernel is entered: boot.efi has put
\* what it read into the kernel's arguments, the csr-active-config only if it knows of
\* the field.  /chosen and its property may not be found in the device tree.
AppleSlideRestore(known, found) ==
  LET line == Arguments(booter.read)
      csr == IF slideSupport.HasCsrActiveConfig THEN slideSupport.CsrActiveConfig
             ELSE booter.csr
  IN
  /\ Running /\ booter.csr # NoCsr /\ booter.read # Unread
  /\ slideKernel' = [entered |-> TRUE, CommandLine |-> OcRemoveArgumentFromCmd(line),
                     chosen |-> IF found THEN OcRemoveArgumentFromCmd(line) ELSE line,
                     found |-> found, csr |-> IF known THEN csr ELSE NoCsr]
  /\ slideSupport' = [slideSupport EXCEPT !.ValidSlides = << >>, !.BootArgs = Unread]
  /\ UNCHANGED <<slideMap, nvram, booter>>

\* The machine is started again.
SlideRestart ==
  /\ booter.started > 0
  /\ slideMap' = << >> /\ slideSupport' = NoSlideSupport
  /\ nvram' = [args |-> "plain", csr |-> {}]
  /\ booter' = [started |-> 0, AppleCustomSlide |-> FALSE, read |-> Unread, csr |-> NoCsr,
                stored |-> NoCsr]
  /\ slideKernel' = NotEntered

\* The maps the firmware may answer with, if it is asked.
MapsNow ==
  IF booter.AppleCustomSlide \/ slideSupport.HasMemoryMapAnalysis THEN {<< >>}
  ELSE Maps \cup {<< >>}

SlideNext ==
  \/ \E args \in {"plain", "long", "slide"}, csr \in SlideCsr \cup {NoCsr} : SetVariables(args, csr)
  \/ \E given \in BOOLEAN : StartBooter(given)
  \/ GetVariableCsrActiveConfig
  \/ \E map \in MapsNow, sandy \in BOOLEAN : ReadBootArgs(map, sandy)
  \/ \E known, found \in BOOLEAN : AppleSlideRestore(known, found)
  \/ SlideRestart

SlideSpec == SlideInit /\ [][SlideNext]_slideVars

----------------------------------------------------------------------------
\* The memory of a slide, by address.
PagesOf(map, type) ==
  UNION {PhysicalStart(map, d) .. PhysicalEnd(map, d) - 1 :
           d \in {e \in DOMAIN map : map[e].type = type}}

Fits(slide) ==
  LET errata == slide >= SLIDE_ERRATA_NUM /\ slideMap.sandy
      first == KERNEL_BASE_PADDR + slide + IF errata THEN SLIDE_ERRATA_SKIP_RANGE ELSE 0
      size == ESTIMATED_KERNEL_SIZE + Cardinality(PagesOf(slideMap.map, "runtime"))
      free == PagesOf(slideMap.map, "conventional")
  IN  first .. first + size - 1 \subseteq free

\* The slide that boot.efi is made to use is one whose whole memory was free in the
\* map, however the map is cut into descriptors; if there is none it is the only one
\* ever offered.  It is made to use one exactly when some do not fit: whatever it read
\* last, as often as it read it and after other starts that failed, when the map could
\* be analysed and nobody chose a slide himself (CustomSlide.c:88-145, 258-375, 755-782).
SlideFits ==
  /\ booter.read.slide # NoSlide =>
       \/ Fits(booter.read.slide)
       \/ (\A s \in Range(Slides) : ~Fits(s)) /\ Len(slideSupport.ValidSlides) <= 1
  /\ booter.read # Unread /\ ~booter.AppleCustomSlide /\ slideMap # << >> =>
       (booter.read.slide # NoSlide <=> \E s \in Range(Slides) : ~Fits(s))

\* boot.efi is told one slide only, however often it reads its boot-args (CustomSlide.c:496-533).
OneSlide ==
  [][booter.read.slide # NoSlide /\ booter'.read.slide # NoSlide /\ booter'.started # 0 =>
       booter'.read.slide = booter.read.slide]_slideVars

\* The kernel gets the csr-active-config that was stored when boot.efi read it, which
\* was shown another one.  It finds no slide on its command line, neither the chosen one
\* nor one that was there before, and one in its device tree only if the library did not
\* find the place (CustomSlide.c:454-456, 565-601, 798-810, BootArguments.c:93-131).
KernelSeesStored ==
  slideKernel.entered =>
    /\ slideKernel.csr \in {booter.stored, NoCsr}
    /\ Range(slideKernel.CommandLine) \subseteq {OtherWord}
    /\ slideKernel.found => Range(slideKernel.chosen) \subseteq {OtherWord}
    /\ slideSupport.BootArgs = Unread
=============================================================================
