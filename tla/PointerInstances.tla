-------------------------- MODULE PointerInstances --------------------------
(***************************************************************************)
(* The pointer devices the poll reads, and the timer it runs on            *)
(* (OcAppleEventLib/PointerHandler.c): devices come and go, an arrival     *)
(* notification copies new ones into an array, and every poll first drops  *)
(* those that are gone.  The poll cancels its own timer when no device is  *)
(* left, and stretches its period when it takes too long.                  *)
(*                                                                         *)
(* Notifications run at TPL_NOTIFY one after the other and are one action  *)
(* each.  The creation of the poll timer, at TPL_APPLICATION, cleans the   *)
(* array too, and notifications come between its statements (the variable  *)
(* scan).                                                                  *)
(***************************************************************************)
EXTENDS Naturals, Sequences, SequencesExt, FiniteSetsExt, ListLoops

CONSTANTS
  Handle,                     \* EFI handles of pointer devices
  POINTER_POLL_FREQUENCY,     \* period of a new timer, in 100 ns
  MAX_POINTER_POLL_FREQUENCY,
  Elapsed,                    \* how long a poll may take, in ns
  MaxGeneration               \* bound: times a device is connected

InstancesAssumption ==
  /\ POINTER_POLL_FREQUENCY \in Nat /\ MAX_POINTER_POLL_FREQUENCY \in Nat
  /\ POINTER_POLL_FREQUENCY <= MAX_POINTER_POLL_FREQUENCY
  /\ Elapsed \subseteq Nat /\ MaxGeneration \in Nat

VARIABLES
  generation,         \* times the handle's protocol was installed
  connected,          \* handles with a protocol now
  arrived,            \* handles the arrival notification has not seen yet
  mPointerProtocols,  \* the instances; Interface is the generation it was taken from
  pollEvent,          \* mSimplePointerPollEvent is a running timer
  pollTime,           \* mSimplePointerPollTime
  lastPoll,           \* history: the instances the last poll asked, its time, and
                      \* whether the array could not be shrunk before
  scan,               \* where the creation of the timer is
  unserved,           \* history: devices not registered, or forgotten, for lack of memory
  replaced,           \* history: handles that left and came back between two polls
  astray              \* the scan goes on with an array that a notification has freed

vars == <<generation, connected, arrived, mPointerProtocols, pollEvent, pollTime, scan,
          lastPoll, unserved, replaced, astray>>
devices == <<generation, connected, arrived>>
timer == <<pollEvent, pollTime>>

Known == {p.Handle : p \in {q \in Range(mPointerProtocols) : q.Installed}}
None == [asked |-> {}, time |-> 0, stuck |-> FALSE]

----------------------------------------------------------------------------
Init ==
  /\ generation = [h \in Handle |-> 0] /\ connected = {} /\ arrived = {}
  /\ mPointerProtocols = << >>
  /\ pollEvent = FALSE /\ pollTime = POINTER_POLL_FREQUENCY
  /\ lastPoll = None /\ unserved = {} /\ replaced = {}
  /\ scan = [pc |-> "idle"] /\ astray = FALSE

\* The firmware installs and uninstalls the protocol on a handle.
Connect(h) ==
  /\ h \notin connected /\ generation[h] < MaxGeneration /\ lastPoll' = None
  /\ generation' = [generation EXCEPT ![h] = @ + 1]
  /\ connected' = connected \cup {h} /\ arrived' = arrived \cup {h}
  /\ replaced' = IF h \in Known THEN replaced \cup {h} ELSE replaced
  /\ unserved' = unserved \ {h}
  /\ UNCHANGED <<mPointerProtocols, timer, scan, astray>>

Disconnect(h) ==
  /\ h \in connected /\ lastPoll' = None
  /\ connected' = connected \ {h} /\ arrived' = arrived \ {h}
  /\ UNCHANGED <<generation, mPointerProtocols, timer, scan, unserved, replaced, astray>>

Instance(h) == [Handle |-> h, Interface |-> generation[h], Installed |-> TRUE]

Registered(order, ok) ==
  LET new == Only(order, ok) IN [i \in DOMAIN new |-> Instance(new[i])]

\* A notification that registers a device replaces the array and frees the old one, which
\* the scan reads, or frees itself, later.  A scan whose lookup failed frees it only
\* if there was one; and the loop at its end may be between reading the address of the
\* array and an element.
Misled(ok) ==
  CASE ok = {} -> {FALSE}
    [] scan.pc = "located" -> {~scan.error \/ scan.array}
    [] scan.pc = "swap" -> {TRUE}
    [] scan.pc = "reset" -> {FALSE, mPointerProtocols # << >>}
    [] OTHER -> {FALSE}

\* Mutant: only the first device of a notification is registered.
InstallNotifyFirst(order, ok) ==
  /\ arrived # {}
  /\ mPointerProtocols' = mPointerProtocols \o Registered(<<order[1]>>, ok)
  /\ unserved' = unserved \cup ({order[1]} \ ok)
  /\ arrived' = {} /\ lastPoll' = None
  /\ astray' \in Misled(ok)
  /\ UNCHANGED <<generation, connected, timer, scan, replaced>>

\* InternalSimplePointerInstallNotifyFunction, for the devices that have arrived;
\* those of them that get memory are appended.
InstallNotify(order, ok) ==
  /\ arrived # {}
  /\ mPointerProtocols' = mPointerProtocols \o Registered(order, ok)
  /\ unserved' = unserved \cup (arrived \ ok)
  /\ arrived' = {} /\ lastPoll' = None
  /\ astray' \in Misled(ok)
  /\ UNCHANGED <<generation, connected, timer, scan, replaced>>

\* Mutant: only the first instance is looked up.
CheckedFirstOnly(protocols, found) ==
  [i \in DOMAIN protocols |->
     [protocols[i] EXCEPT !.Installed = @ /\ (i = 1 => protocols[i].Handle \in found)]]

\* Instances of handles that LocateHandleBuffer did not find are marked.
Checked(protocols, found) ==
  [i \in DOMAIN protocols |->
     [protocols[i] EXCEPT !.Installed = @ /\ protocols[i].Handle \in found]]

\* The instances that are installed, in their order.
Installed(protocols) == Only(protocols, {p \in Range(protocols) : p.Installed})

\* LocateHandleBuffer fails when there is no handle, and when there is no memory.
LocateFails(pool) == connected = {} \/ ~pool

\* InternalRemoveUninstalledInstances run whole: a failed lookup empties the array, whatever
\* the devices; otherwise it shrinks to the instances not marked, unless there is
\* none or memory is short.
Remaining(pool, ok) ==
  LET checked == Checked(mPointerProtocols, connected)
      matches == Installed(checked)
  IN  IF LocateFails(pool) THEN << >>
      ELSE IF matches # << >> /\ ok THEN matches ELSE checked

\* The removal was refused memory, or had nothing to keep although devices exist.
Stuck(pool, ok) ==
  LET matches == Installed(Checked(mPointerProtocols, connected))
  IN  /\ ~LocateFails(pool) /\ Len(matches) # Len(mPointerProtocols)
      /\ matches = << >> \/ ~ok

\* The devices that are there, and are forgotten when a lookup fails.
Forgotten(fails) == IF fails THEN Known \cap connected ELSE {}

RemoveUninstalled(pool, ok) ==
  /\ mPointerProtocols' = Remaining(pool, ok)
  /\ replaced' = replaced \cap Known'
  /\ unserved' = unserved \cup Forgotten(LocateFails(pool))

(* EventCreateSimplePointerPollEvent.  The timer of a registration that lost its handle  *)
(* may still run then (AppleEvent); it is left out here.                                 *)

\* The address of the array is read, and the handles are located.
ScanBegin(pool) ==
  /\ ~pollEvent /\ scan.pc = "idle" /\ lastPoll' = None
  /\ scan' = [pc |-> "located", error |-> LocateFails(pool), found |-> connected,
              array |-> mPointerProtocols # << >>]
  /\ UNCHANGED <<devices, mPointerProtocols, timer, unserved, replaced, astray>>

\* The instances are marked, or the array is freed; what is kept is copied.
ScanMark(ok) ==
  /\ scan.pc = "located" /\ lastPoll' = None
  /\ LET checked == Checked(mPointerProtocols, scan.found)
         matches == Installed(checked)
     IN  /\ mPointerProtocols' = IF scan.error THEN << >> ELSE checked
         /\ scan' = [pc |-> IF ~scan.error /\ ok /\ Len(matches) # Len(checked)
                                /\ matches # << >>
                             THEN "swap" ELSE "reset"]
  /\ replaced' = replaced \cap Known'
  /\ unserved' = unserved \cup Forgotten(scan.error)
  /\ UNCHANGED <<devices, timer, astray>>

\* The old array is freed and the copy takes its place.
ScanSwap ==
  /\ scan.pc = "swap" /\ lastPoll' = None
  /\ mPointerProtocols' = Installed(mPointerProtocols)
  /\ scan' = [pc |-> "reset"]
  /\ UNCHANGED <<devices, timer, unserved, replaced, astray>>

\* The devices have been reset; there may be no timer.
ScanEnd(timerOk) ==
  /\ scan.pc = "reset" /\ lastPoll' = None
  /\ pollEvent' = timerOk /\ pollTime' = POINTER_POLL_FREQUENCY
  /\ scan' = [pc |-> "idle"]
  /\ UNCHANGED <<devices, mPointerProtocols, unserved, replaced, astray>>

EventCreateSimplePointerPollEvent ==
  \/ \E ok \in BOOLEAN : ScanBegin(ok) \/ ScanMark(ok) \/ ScanEnd(ok)
  \/ ScanSwap

EventCancelSimplePointerPollEvent ==
  /\ pollEvent
  /\ pollEvent' = FALSE /\ lastPoll' = None
  /\ UNCHANGED <<devices, mPointerProtocols, pollTime, scan, unserved, replaced, astray>>

\* The period after a poll that took t.
Stretched(t) ==
  IF pollTime < MAX_POINTER_POLL_FREQUENCY /\ t > pollTime * 55
  THEN Min({t \div 50, MAX_POINTER_POLL_FREQUENCY}) ELSE pollTime

\* InternalSimplePointerPollNotifyFunction.
PointerPoll(pool, ok, t) ==
  /\ pollEvent
  /\ RemoveUninstalled(pool, ok)
  /\ lastPoll' = [asked |-> Range(mPointerProtocols'), time |-> t, stuck |-> Stuck(pool, ok)]
  /\ pollEvent' = (mPointerProtocols' # << >>)
  /\ pollTime' = IF pollEvent' THEN Stretched(t) ELSE pollTime
  /\ UNCHANGED <<devices, scan, astray>>

Arrival ==
  ~astray /\ \E order \in SetToSeqs(arrived), ok \in SUBSET arrived : InstallNotify(order, ok)

Next ==
  \/ /\ ~astray
     /\ \/ \E h \in Handle : Connect(h) \/ Disconnect(h)
        \/ EventCreateSimplePointerPollEvent \/ EventCancelSimplePointerPollEvent
        \/ \E pool, ok \in BOOLEAN, t \in Elapsed : PointerPoll(pool, ok, t)
  \/ Arrival
  \/ astray /\ UNCHANGED vars    \* nothing is claimed once a freed array is in use

Spec == Init /\ [][Next]_vars

\* A signalled arrival is dispatched.
FairSpec == Spec /\ WF_vars(Arrival)

----------------------------------------------------------------------------
TypeOK ==
  /\ connected \subseteq Handle /\ arrived \subseteq connected
  /\ mPointerProtocols \in Seq([Handle : Handle, Interface : 1 .. MaxGeneration, Installed : BOOLEAN])
  /\ pollEvent \in BOOLEAN
  /\ pollTime \in POINTER_POLL_FREQUENCY .. MAX_POINTER_POLL_FREQUENCY
  /\ scan.pc \in {"idle", "located", "swap", "reset"}

\* A poll only asks devices that are still there, through the interface they have
\* now.  There are three exceptions: a device that came back before any poll had
\* noticed its absence; and, when the array could not be shrunk because memory was
\* short or because all known devices are gone and others are not, what should
\* have been dropped from it (PointerHandler.c:206-284, 672-680).
OnlyLiveDevicesAsked ==
  \A p \in lastPoll.asked :
    \/ p.Handle \in replaced
    \/ lastPoll.stuck /\ ~p.Installed
    \/ p.Handle \in connected /\ p.Interface = generation[p.Handle]

\* The array never holds a device twice, except one that came back like that
\* (PointerHandler.c:307-340).
NoDeviceTwice ==
  \A h \in Known \ replaced :
    Cardinality({i \in DOMAIN mPointerProtocols :
      mPointerProtocols[i].Handle = h /\ mPointerProtocols[i].Installed}) = 1

\* The period never shrinks while the timer runs, and a poll that was too slow for
\* it gets one that leaves half of the time to others, up to the limit
\* (PointerHandler.c:783-797).
PollLeavesTime ==
  [][pollEvent /\ pollEvent' =>
       /\ pollTime' >= pollTime
       /\ \/ lastPoll'.time <= pollTime' * 55
          \/ pollTime' = MAX_POINTER_POLL_FREQUENCY]_vars

\* A device that stays is known in the end, whether or not the poll timer runs at the
\* time, unless memory ran out when it was registered or when some later lookup, which
\* then forgets all devices, or an arrival freed the array under a scan
\* (PointerHandler.c:170-173, 215-286, 290-340).
DeviceBecomesKnown ==
  \A h \in Handle : []<>(h \notin connected \/ h \in Known \/ h \in unserved \/ astray)
=============================================================================
