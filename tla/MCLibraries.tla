---------------------------- MODULE MCLibraries ----------------------------
(***************************************************************************)
(* The models of libraries that know nothing of one another side by side   *)
(* for TLC: the pool in static memory, memory maps, page tables, overflow  *)
(* arithmetic, modular powers and sounds.  A behaviour runs one of them,   *)
(* chosen at its start, and leaves the others alone.                       *)
(***************************************************************************)
EXTENDS UmmMalloc, Audio, MemoryMap, VirtualMemory

CONSTANTS
  Size32, UintnIs64, BnBits, BnWords, BnExponents

\* Words of a machine have a bit at least, and a sign.
ASSUME WidthAssumption ==
  Size32 \in Nat /\ Size32 > 0 /\ Size32 % 2 = 0 /\ UintnIs64 \in BOOLEAN

VARIABLES
  focus,
  guardCall, guardSaid,
  bnStage, bnKey, N0Inv, bnMod, RSqrMod, bnPower

Overflows == INSTANCE Guard
Powers == INSTANCE BigNum

GuardVars == <<guardCall, guardSaid>>
PowerVars == <<bnStage, bnKey, N0Inv, bnMod, RSqrMod, bnPower>>
MCVars == <<focus, vars, memVars, vmVars, GuardVars, PowerVars, soundVars>>

MCInit ==
  /\ focus \in {"pool", "maps", "pages", "overflows", "powers", "sounds"}
  /\ Init /\ MemInit /\ VmInit /\ Overflows!GuardInit /\ Powers!BnInit
  /\ SoundInit

MCNext ==
  \/ /\ focus = "pool" /\ Next
     /\ UNCHANGED <<focus, memVars, vmVars, GuardVars, PowerVars, soundVars>>
  \/ /\ focus = "maps" /\ MemNext
     /\ UNCHANGED <<focus, vars, vmVars, GuardVars, PowerVars, soundVars>>
  \/ /\ focus = "pages" /\ VmNext
     /\ UNCHANGED <<focus, vars, memVars, GuardVars, PowerVars, soundVars>>
  \/ /\ focus = "overflows" /\ Overflows!GuardNext
     /\ UNCHANGED <<focus, vars, memVars, vmVars, PowerVars, soundVars>>
  \/ /\ focus = "powers" /\ Powers!BnNext
     /\ UNCHANGED <<focus, vars, memVars, vmVars, GuardVars, soundVars>>
  \/ /\ focus = "sounds" /\ SoundNext
     /\ UNCHANGED <<focus, vars, memVars, vmVars, GuardVars, PowerVars>>

\* A device comes to the end of what it plays, and a call goes on when it can.
MCSpec ==
  /\ MCInit /\ [][MCNext]_MCVars
  /\ WF_MCVars(focus = "sounds" /\ PlayFileDone
                 /\ UNCHANGED <<focus, vars, memVars, vmVars, GuardVars, PowerVars>>)
  /\ WF_MCVars(focus = "sounds" /\ SoundContinues
                 /\ UNCHANGED <<focus, vars, memVars, vmVars, GuardVars, PowerVars>>)

----------------------------------------------------------------------------
\* Overflow is told exactly when there is one (BitOverflow.c:26-295, TripleOverflow.c).
OverflowToldExactly == Overflows!OverflowToldExactly

\* Powers of 65537 modulo a key are exact, with divisions that keep the rest
\* (BigNumMontgomery.c:569-660, BigNumPrimitives.c:608-757).
PowModExact == Powers!PowModExact /\ Powers!DivisionKeepsRest
=============================================================================
