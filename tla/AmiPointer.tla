----------------------------- MODULE AmiPointer -----------------------------
(***************************************************************************)
(* The pointer shim (OcInputLib, Pointer/AIM.c).  It hooks GetState of the *)
(* firmware's pointers, collects their movement from a timer before the    *)
(* firmware's 8 bit counters overflow, and hands the sum to whoever asks.  *)
(*                                                                         *)
(* The event library asks at TPL_NOTIFY, at which nothing interrupts it.   *)
(* Any other program may ask at TPL_APPLICATION: then the timer can come   *)
(* between the statements that read the sum and those that clear it.       *)
(*                                                                         *)
(* Nobody tells the shim that a device has left.  Its slot stays, and what *)
(* the shim does with the slot afterwards is done to freed memory.         *)
(***************************************************************************)
EXTENDS Integers, Sequences, SequencesExt, FiniteSets

CONSTANTS
  AimHandle,        \* handles that may have an AMI pointer
  NoHandle,
  AIM_MAX_POINTERS,
  AimSamples,       \* samples the filter remembers (5)
  AimMotion,        \* movements of one poll, as pairs, clamped
  AimUnread,        \* bound: movements of a device between two questions
  AimInstalls       \* bound: initialisations and arrivals

AimAssumption ==
  /\ NoHandle \notin AimHandle /\ IsFiniteSet(AimHandle)
  /\ AIM_MAX_POINTERS \in Nat /\ AimMotion \subseteq Int \X Int

VARIABLES
  mAmiShimPointer,  \* [TimersInitialised, UsageStarted, arriveEvent]
  PointerMap,       \* the slots
  GetState,         \* handle -> whose function its protocol has
  aimFilter,        \* [gIndex, gXCounts, gYCounts]
  aimCall,          \* the question at TPL_APPLICATION in progress
  aimOwed,          \* history: movement collected and not told, per slot
  aimBetween,       \* history: the timer came into the question in progress
  aimLeft,          \* history: devices that left although they have a slot
  aimStray,         \* the protocol of a device that left was called or written
  aimPolls, aimInstalls  \* counters of the bounds

aimVars == <<mAmiShimPointer, PointerMap, GetState, aimFilter, aimCall, aimOwed, aimBetween,
             aimLeft, aimStray, aimPolls, aimInstalls>>

Slot == 1 .. AIM_MAX_POINTERS
Still == <<0, 0>>
FreeSlot == [DeviceHandle |-> NoHandle, SimplePointer |-> NoHandle, OriginalGetState |-> "null",
             PositionChanged |-> FALSE, Position |-> Still]
NoQuestion == [pc |-> "none", slot |-> 0]
Plus(v, w) == <<v[1] + w[1], v[2] + w[2]>>

AimInit ==
  /\ mAmiShimPointer = [TimersInitialised |-> FALSE, UsageStarted |-> FALSE, arriveEvent |-> FALSE]
  /\ PointerMap = [s \in Slot |-> FreeSlot] /\ GetState = [h \in AimHandle |-> "absent"]
  /\ aimFilter = [gIndex |-> 1, gXCounts |-> [i \in 1 .. AimSamples |-> 0],
                  gYCounts |-> [i \in 1 .. AimSamples |-> 0]]
  /\ aimCall = NoQuestion /\ aimOwed = [s \in Slot |-> Still] /\ aimBetween = FALSE
  /\ aimLeft = {} /\ aimStray = FALSE
  /\ aimPolls = [s \in Slot |-> 0] /\ aimInstalls = 0

----------------------------------------------------------------------------
\* One axis of AmiShimPointerFilterOut: a short step is dropped when the remembered
\* samples all stood still.
Filtered(v, counts, i) ==
  LET abs == IF v < 0 THEN -v ELSE v IN
  [v |-> IF abs \in 1 .. 2 /\ \A k \in DOMAIN counts : counts[k] = 1 THEN 0 ELSE v,
   counts |-> IF abs = 0 THEN [counts EXCEPT ![i] = 1]
              ELSE IF abs <= 2 THEN [counts EXCEPT ![i] = 0] ELSE counts]

\* AmiShimPointerBoostValue, which multiplies all but the fast movements by four.
Boosted(v) == IF v \in -79 .. 79 THEN 4 * v ELSE v

\* AmiShimPointerSmooth: what is left of a movement, and of the filter.
Smoothed(m, f) ==
  IF m = Still THEN [m |-> m, f |-> f]
  ELSE LET x == Filtered(m[1], f.gXCounts, f.gIndex)
           y == Filtered(m[2], f.gYCounts, f.gIndex)
       IN  [m |-> <<Boosted(x.v), Boosted(y.v)>>,
            f |-> [gIndex |-> (f.gIndex % AimSamples) + 1,
                   gXCounts |-> x.counts, gYCounts |-> y.counts]]

\* A device in use adds its movement, if it moved.
CollectedFrom(r, s, m) ==
  LET smooth == Smoothed(m, r.f) IN
  IF r.map[s].DeviceHandle = NoHandle THEN r
  ELSE IF smooth.m = Still THEN [r EXCEPT !.f = smooth.f]
  ELSE [map |-> [r.map EXCEPT ![s].Position = Plus(@, smooth.m), ![s].PositionChanged = TRUE],
        f |-> smooth.f, owed |-> [r.owed EXCEPT ![s] = Plus(@, smooth.m)]]

\* AmiShimPointerPositionHandler: every slot in its turn.
Collected(map, f, moved) ==
  LET after[s \in 0 .. AIM_MAX_POINTERS] ==
        IF s = 0 THEN [map |-> map, f |-> f, owed |-> aimOwed]
        ELSE CollectedFrom(after[s - 1], s, moved[s])
  IN  after[AIM_MAX_POINTERS]

Adds(moved) ==
  LET c == Collected(PointerMap, aimFilter, moved) IN
  /\ PointerMap' = c.map /\ aimFilter' = c.f /\ aimOwed' = c.owed

AmiShimPointerPositionHandler(moved) ==
  /\ mAmiShimPointer.TimersInitialised /\ mAmiShimPointer.UsageStarted
  /\ \A s \in Slot : moved[s] # Still => aimPolls[s] < AimUnread
  /\ aimPolls' = [s \in Slot |-> IF moved[s] # Still THEN aimPolls[s] + 1 ELSE aimPolls[s]]
  /\ Adds(moved)
  /\ aimBetween' = (aimCall.pc # "none")
  /\ aimStray' = (aimLeft # {})
  /\ UNCHANGED <<mAmiShimPointer, GetState, aimCall, aimLeft, aimInstalls>>

\* AmiShimPointerGetState finds the slot of the protocol it was called with.
Found(h) == SelectInSeq(PointerMap, LAMBDA p : p.SimplePointer = h)

\* Mutant: the first question does not poll, and clears what it found.
UpdateStateWipes(h, buttons, moved) ==
  LET s == Found(h)
      c == Collected(PointerMap, aimFilter, moved)
  IN
  /\ GetState[h] = "shim" /\ s # 0
  /\ mAmiShimPointer' = [mAmiShimPointer EXCEPT !.UsageStarted = TRUE]
  /\ aimFilter' = c.f /\ aimOwed' = c.owed
  /\ PointerMap' = [c.map EXCEPT ![s].Position = Still, ![s].PositionChanged = FALSE]
  /\ aimPolls' = [aimPolls EXCEPT ![s] = 0]
  /\ aimBetween' = (aimCall.pc # "none")
  /\ aimStray' = (aimLeft # {} /\ ~mAmiShimPointer.UsageStarted)
  /\ UNCHANGED <<GetState, aimCall, aimLeft, aimInstalls>>

\* The question of the event library (AmiShimPointerUpdateState).  Asked for the first
\* time, the shim polls itself.
AmiShimPointerUpdateState(h, buttons, moved) ==
  LET s == Found(h)
      c == IF mAmiShimPointer.UsageStarted
           THEN [map |-> PointerMap, f |-> aimFilter, owed |-> aimOwed]
           ELSE Collected(PointerMap, aimFilter, moved)
      told == c.map[s].Position
  IN
  /\ GetState[h] = "shim" /\ s # 0
  /\ mAmiShimPointer' = [mAmiShimPointer EXCEPT !.UsageStarted = TRUE]
  /\ aimFilter' = c.f
  /\ IF buttons \/ c.map[s].PositionChanged
     THEN /\ PointerMap' = [c.map EXCEPT ![s].Position = Still, ![s].PositionChanged = FALSE]
          /\ aimOwed' = [c.owed EXCEPT ![s] = <<@[1] - told[1], @[2] - told[2]>>]
          /\ aimBetween' = (aimCall.pc # "none")
     ELSE PointerMap' = c.map /\ aimOwed' = c.owed /\ UNCHANGED aimBetween
  /\ aimPolls' = [aimPolls EXCEPT ![s] = 0]
  /\ aimStray' = (aimLeft # {} /\ ~mAmiShimPointer.UsageStarted)
  /\ UNCHANGED <<GetState, aimCall, aimLeft, aimInstalls>>

\* The question of another program reads the sum ...
AskRead(h, buttons) ==
  LET s == Found(h) IN
  /\ GetState[h] = "shim" /\ s # 0 /\ aimCall.pc = "none" /\ mAmiShimPointer.UsageStarted
  /\ buttons \/ PointerMap[s].PositionChanged
  /\ aimCall' = [pc |-> "clear", slot |-> s]
  /\ aimOwed' = [aimOwed EXCEPT ![s] = <<@[1] - PointerMap[s].Position[1],
                                         @[2] - PointerMap[s].Position[2]>>]
  /\ UNCHANGED <<mAmiShimPointer, PointerMap, GetState, aimFilter, aimBetween, aimLeft, aimStray,
                 aimPolls, aimInstalls>>

\* ... and clears it.
AskClear ==
  /\ aimCall.pc = "clear"
  /\ PointerMap' = [PointerMap EXCEPT ![aimCall.slot].Position = Still,
                                      ![aimCall.slot].PositionChanged = FALSE]
  /\ aimCall' = NoQuestion /\ aimPolls' = [aimPolls EXCEPT ![aimCall.slot] = 0]
  /\ UNCHANGED <<mAmiShimPointer, GetState, aimFilter, aimOwed, aimBetween, aimLeft, aimStray,
                 aimInstalls>>

----------------------------------------------------------------------------
\* AmiShimPointerInstallOnHandle: the first free slot, unless the handle has one.
InstallOnHandle(r, h) ==
  LET s == SelectInSeq(r.map, LAMBDA p : p.DeviceHandle = NoHandle)
      hooked == r.get[h] = "shim"
  IN  IF s = 0 \/ \E q \in Slot : r.map[q].DeviceHandle = h THEN r
      ELSE [map |-> [r.map EXCEPT ![s].DeviceHandle = h, ![s].SimplePointer = h,
                                  ![s].OriginalGetState = IF hooked THEN "null" ELSE r.get[h]],
            get |-> [r.get EXCEPT ![h] = "shim"], installed |-> TRUE]

\* What the handles of a list leave of the slots and the protocols, one after the other.
InstalledOn(order, get) ==
  LET after[n \in 0 .. Len(order)] ==
        IF n = 0 THEN [map |-> PointerMap, get |-> get, installed |-> FALSE]
        ELSE InstallOnHandle(after[n - 1], order[n])
  IN  after[Len(order)]

\* AmiShimPointerInstall over the handles in some order; the timer is set up unless
\* it runs or cannot be had.
AmiShimPointerInstall(get, order, timer) ==
  LET r == InstalledOn(order, get)
  IN  /\ PointerMap' = r.map /\ GetState' = r.get
      /\ mAmiShimPointer' = [mAmiShimPointer EXCEPT
                               !.TimersInitialised = @ \/ (r.installed /\ timer),
                               !.arriveEvent = TRUE]

Orders(get) ==
  LET S == {h \in AimHandle : get[h] # "absent"}
  IN  {q \in [1 .. Cardinality(S) -> S] : IsInjective(q)}

\* OcAppleGenericInputPointerInit, which does nothing without its event.
OcAppleGenericInputPointerInit(order, timer) ==
  /\ aimInstalls < AimInstalls /\ aimInstalls' = aimInstalls + 1 /\ aimCall.pc = "none"
  /\ AmiShimPointerInstall(GetState, order, timer)
  /\ UNCHANGED <<aimFilter, aimCall, aimOwed, aimBetween, aimLeft, aimStray, aimPolls>>

\* The firmware installs a pointer; AmiShimPointerArriveHandler is told.
Arrive(h, order, timer) ==
  LET get == [GetState EXCEPT ![h] = "firmware"] IN
  /\ GetState[h] = "absent" /\ aimCall.pc = "none"
  /\ aimInstalls < AimInstalls /\ aimInstalls' = aimInstalls + 1
  /\ IF mAmiShimPointer.arriveEvent THEN AmiShimPointerInstall(get, order, timer)
     ELSE GetState' = get /\ UNCHANGED <<mAmiShimPointer, PointerMap>>
  /\ UNCHANGED <<aimFilter, aimCall, aimOwed, aimBetween, aimLeft, aimStray, aimPolls>>

\* The firmware removes a pointer by itself, and nobody tells the shim; a pointer that
\* comes back on the same handle is refused the hook.
Depart(h) ==
  /\ GetState[h] # "absent" /\ GetState' = [GetState EXCEPT ![h] = "absent"]
  /\ aimLeft' = IF \E s \in Slot : PointerMap[s].DeviceHandle = h THEN aimLeft \cup {h}
                                                                    ELSE aimLeft
  /\ UNCHANGED <<mAmiShimPointer, PointerMap, aimFilter, aimCall, aimOwed, aimBetween, aimStray,
                 aimPolls, aimInstalls>>

\* Mutant: a protocol keeps the hook when its slot is given up.
AmiShimPointerUninstallHooked(gone) ==
  /\ aimCall.pc = "none"
  /\ mAmiShimPointer' = [mAmiShimPointer EXCEPT !.TimersInitialised = FALSE]
  /\ PointerMap' = [s \in Slot |-> [PointerMap[s] EXCEPT !.DeviceHandle = NoHandle]]
  /\ aimStray' = (aimLeft # {})
  /\ UNCHANGED <<GetState, aimFilter, aimCall, aimOwed, aimBetween, aimLeft, aimPolls, aimInstalls>>

\* AmiShimPointerUninstall: every slot in use gives the function back and its
\* controller is disconnected, which may remove the protocol.
AmiShimPointerUninstall(gone) ==
  /\ aimCall.pc = "none"
  /\ mAmiShimPointer' = [mAmiShimPointer EXCEPT !.TimersInitialised = FALSE]
  /\ PointerMap' = [s \in Slot |-> [PointerMap[s] EXCEPT !.DeviceHandle = NoHandle]]
  /\ GetState' = [h \in AimHandle |->
       LET s == SelectInSeq(PointerMap, LAMBDA p : p.DeviceHandle = h)
       IN  IF s = 0 THEN GetState[h]
           ELSE IF h \in gone THEN "absent" ELSE PointerMap[s].OriginalGetState]
  /\ aimStray' = (aimLeft # {})
  /\ UNCHANGED <<aimFilter, aimCall, aimOwed, aimBetween, aimLeft, aimPolls, aimInstalls>>

Movements == [Slot -> AimMotion]

\* Once a question was interrupted, or freed memory was used, nothing more is claimed.
AimNext ==
  \/ /\ ~aimBetween /\ ~aimStray
     /\ \/ \E m \in Movements : AmiShimPointerPositionHandler(m)
        \/ \E h \in AimHandle, b \in BOOLEAN, m \in Movements : AmiShimPointerUpdateState(h, b, m)
        \/ \E h \in AimHandle, b \in BOOLEAN : AskRead(h, b)
        \/ AskClear
        \/ \E q \in Orders(GetState), t \in BOOLEAN : OcAppleGenericInputPointerInit(q, t)
        \/ \E h \in AimHandle : \E q \in Orders([GetState EXCEPT ![h] = "firmware"]), t \in BOOLEAN :
             Arrive(h, q, t)
        \/ \E h \in AimHandle : Depart(h)
        \/ \E gone \in SUBSET AimHandle : AmiShimPointerUninstall(gone)
  \/ (aimBetween \/ aimStray) /\ UNCHANGED aimVars

AimSpec == AimInit /\ [][AimNext]_aimVars

----------------------------------------------------------------------------
\* Movement is told once: what a slot holds is what was collected and not yet told,
\* and nothing is held without saying so, also through installations, exits and slots
\* that change hands, until a question at TPL_APPLICATION is interrupted between its
\* reading and its clearing, or the protocol of a device that left is used (AIM.c:198-206, 244-298).
MovementKept ==
  ~aimBetween /\ ~aimStray =>
    \A s \in Slot :
      /\ aimCall.slot # s => PointerMap[s].Position = aimOwed[s]
      /\ aimCall.slot = s => aimOwed[s] = Still
      /\ PointerMap[s].Position # Still => PointerMap[s].PositionChanged

\* A hooked protocol has one slot, which the hook finds although slots keep the
\* protocols of devices that left them, and which holds the firmware's function: no
\* protocol is ever hooked twice, or left without a function.  And the device of a slot
\* is hooked, unless it left: then it may be back, and is not hooked again
\* (AIM.c:412-441, 507-524).
HooksFound ==
  ~aimStray =>
    \A h \in AimHandle :
      /\ GetState[h] # "null"
      /\ GetState[h] = "shim" =>
           LET p == PointerMap[Found(h)]
           IN  Found(h) # 0 /\ p.DeviceHandle = h /\ p.OriginalGetState = "firmware"
      /\ (\E s \in Slot : PointerMap[s].DeviceHandle = h) => GetState[h] = "shim" \/ h \in aimLeft
=============================================================================
