--------------------------- MODULE MCBootServices ---------------------------
(***************************************************************************)
(* The models of what changes the firmware's services for a boot side by   *)
(* side for TLC: the walk over variable names, the cleanup of variables,   *)
(* the preparation of boot.efi and its kernel, and the slide chosen for    *)
(* it.  A behaviour runs one of them, chosen at its start, and leaves the  *)
(* others alone.                                                           *)
(***************************************************************************)
EXTENDS BootCompat, NvramCleanup

CONSTANTS
  BootName, OtherName, NameTooLong, HugeName, MaxStore, MaxDeleted,
  TOTAL_SLIDE_NUM, SLIDE_ERRATA_NUM, SLIDE_ERRATA_SKIP_RANGE, KERNEL_BASE_PADDR,
  ESTIMATED_KERNEL_SIZE, SlideMemory, SlideCsr, Unrestricted, SlideBoots

VARIABLES
  focus,
  nameStore, name, nameLarge, status, returned, lost, deleted,
  slideMap, slideSupport, nvram, booter, slideKernel

Names == INSTANCE VariableNames WITH
  store <- nameStore, large <- nameLarge, LongName <- NameTooLong
Slide == INSTANCE CustomSlide

ASSUME NamesAssumption == Names!VariableNamesAssumption
ASSUME SlidesAssumption == Slide!SlideAssumption

NameVars == <<nameStore, name, nameLarge, status, returned, lost, deleted>>
SlideVars == <<slideMap, slideSupport, nvram, booter, slideKernel>>
MCVars == <<focus, abcVars, NameVars, vars, SlideVars>>

\* The lists of variables the firmware starts with are only read by the walk and by the
\* cleanup, so a behaviour of another part starts with an empty one.
MCInit ==
  /\ focus \in {"names", "cleanup", "compat", "slide"}
  /\ focus = "cleanup" \/ (focus # "cleanup" /\ store = << >>)
  /\ focus = "names" \/ (focus # "names" /\ nameStore = << >>)
  /\ Init /\ Names!Init /\ AbcInit /\ Slide!SlideInit

MCNext ==
  \/ /\ focus = "names" /\ Names!Next
     /\ UNCHANGED <<focus, abcVars, vars, SlideVars>>
  \/ /\ focus = "cleanup" /\ Next
     /\ UNCHANGED <<focus, abcVars, NameVars, SlideVars>>
  \/ /\ focus = "compat" /\ AbcNext
     /\ UNCHANGED <<focus, NameVars, vars, SlideVars>>
  \/ /\ focus = "slide" /\ Slide!SlideNext
     /\ UNCHANGED <<focus, abcVars, NameVars, vars>>

\* A caller goes on with its walk, and the cleanup with its loop.
MCSpec ==
  /\ MCInit /\ [][MCNext]_MCVars
  /\ WF_MCVars(focus = "names" /\ Names!WrapGetNextVariableName
                 /\ UNCHANGED <<focus, abcVars, vars, SlideVars>>)
  /\ WF_MCVars(focus = "cleanup" /\ Turn
                 /\ UNCHANGED <<focus, abcVars, NameVars, SlideVars>>)

----------------------------------------------------------------------------
\* A walk over the variable names returns what can be read, each variable once, and at its
\* end has returned every one (UefiRuntimeServices.c:327, 410-531).
WalkComplete ==
  Names!TypeOK /\ Names!NoneTwice /\ Names!ReturnedReadable /\ Names!WalkComplete

\* Neither that walk nor the cleanup, which starts again after every deletion, goes on
\* for ever (UefiRuntimeServices.c:440-446, 525-531, VariableManagement.c:202-205, 236).
WalksEnd == (focus = "names" => Names!WalkEnds) /\ (focus = "cleanup" => CleanupEnds)

\* The slide that boot.efi is made to use is one whose memory was free, and what is shown
\* to boot.efi is hidden from the kernel (CustomSlide.c:88-145, 258-375, 454-456, 565-601).
SlideFits == Slide!SlideFits /\ Slide!KernelSeesStored

\* boot.efi is told one slide only (CustomSlide.c:496-533).
OneSlide == Slide!OneSlide
=============================================================================
