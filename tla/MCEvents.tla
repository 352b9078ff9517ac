------------------------------ MODULE MCEvents ------------------------------
(***************************************************************************)
(* The models behind input events side by side for TLC: event dispatch,    *)
(* the pointer devices and their buttons of the event library, and the     *)
(* pointer shim below them.  A behaviour runs one of them, chosen at its   *)
(* start, and leaves the others alone.                                     *)
(***************************************************************************)
EXTENDS AppleEvent

CONSTANTS Device, POINTER_POLL_FREQUENCY, MAX_POINTER_POLL_FREQUENCY, Elapsed, MaxGeneration,
  Resolution, MAXIMUM_CLICK_DURATION, MAXIMUM_DOUBLE_CLICK_SPEED, MINIMAL_MOVEMENT,
  AimHandle, NoHandle, AIM_MAX_POINTERS, AimSamples, AimUnread, AimInstalls

VARIABLES
  focus,
  generation, connected, arrived, mPointerProtocols, pollEvent, pollTime, lastPoll, scan,
  unserved, replaced, astray,
  buttonInfo, cursor, polling, zeroing, emitted, toldLeft, missedLeft, lastClick, crowded,
  mAmiShimPointer, PointerMap, GetState, aimFilter, aimCall, aimOwed, aimBetween, aimLeft,
  aimStray, aimPolls, aimInstalls

\* One step of the cursor either way; at a border of the screen it is no movement.  A
\* device stands still, creeps, or makes a fast movement.
Devices == INSTANCE PointerInstances WITH Handle <- Device
Buttons == INSTANCE PointerButtons WITH info <- buttonInfo, Movement <- {-1, 1}
Ami == INSTANCE AmiPointer WITH AimMotion <- {<<0, 0>>, <<1, 0>>, <<0, 80>>}

ASSUME EventsAssumption ==
  Devices!InstancesAssumption /\ Buttons!PointerAssumption /\ Ami!AimAssumption

DeviceVars == <<generation, connected, arrived, mPointerProtocols, pollEvent, pollTime, scan,
                lastPoll, unserved, replaced, astray>>
ButtonVars == <<buttonInfo, cursor, polling, zeroing, emitted, toldLeft, missedLeft, lastClick,
                crowded>>
AmiVars == <<mAmiShimPointer, PointerMap, GetState, aimFilter, aimCall, aimOwed, aimBetween,
             aimLeft, aimStray, aimPolls, aimInstalls>>
MCVars == <<focus, vars, DeviceVars, ButtonVars, AmiVars>>

MCInit ==
  /\ focus \in {"dispatch", "devices", "buttons", "shim"}
  /\ Init /\ Devices!Init /\ Buttons!Init /\ Ami!AimInit
  /\ focus # "dispatch" => mQueueEventCreated

MCNext ==
  \/ /\ focus = "dispatch" /\ Next
     /\ UNCHANGED <<focus, DeviceVars, ButtonVars, AmiVars>>
  \/ /\ focus = "devices" /\ Devices!Next
     /\ UNCHANGED <<focus, vars, ButtonVars, AmiVars>>
  \/ /\ focus = "buttons" /\ Buttons!Next
     /\ UNCHANGED <<focus, vars, DeviceVars, AmiVars>>
  \/ /\ focus = "shim" /\ Ami!AimNext
     /\ UNCHANGED <<focus, vars, DeviceVars, ButtonVars>>

\* A pending notification of the queue is dispatched, runs, and the handlers it calls
\* return; a signalled arrival of a device is dispatched.
MCSpec ==
  /\ MCInit /\ [][MCNext]_MCVars
  /\ WF_MCVars(focus = "dispatch" /\ ~wild /\ Drain /\ UNCHANGED <<focus, DeviceVars, ButtonVars, AmiVars>>)
  /\ WF_MCVars(focus = "devices" /\ Devices!Arrival /\ UNCHANGED <<focus, vars, ButtonVars, AmiVars>>)

----------------------------------------------------------------------------
\* A poll only asks pointer devices that are there, and each once
\* (PointerHandler.c:206-340, 672-680).
OnlyLiveDevicesAsked ==
  Devices!TypeOK /\ Devices!OnlyLiveDevicesAsked /\ Devices!NoDeviceTwice

\* A device that stays is known in the end, if memory suffices, and polling the devices
\* leaves the rest of the program its time (PointerHandler.c:290-340, 783-797).
DevicesServed == Devices!DeviceBecomesKnown /\ Devices!PollLeavesTime

\* What the listeners were told of the left button is what the handler knows
\* (PointerHandler.c:537-556, 743-746).
LeftButtonTold == Buttons!TypeOK /\ Buttons!LeftButtonTold

\* Clicks are sent with the release of a press, and double clicks follow a single one a
\* short time ago and near (PointerHandler.c:548-595, 849-856).
ClicksEarned == Buttons!DoubleClickEarned /\ Buttons!ClickEndsPress

\* The movement of a pointer is told once (AIM.c:198-206, 244-298).
MovementKept == Ami!MovementKept

\* A hooked pointer has one slot, which the hook finds and which holds the function of the
\* firmware (AIM.c:412-441, 507-524).
HooksFound == Ami!HooksFound
=============================================================================
