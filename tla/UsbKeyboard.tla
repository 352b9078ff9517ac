---------------------------- MODULE UsbKeyboard ----------------------------
(***************************************************************************)
(* The driver of a USB keyboard (Platform/AppleUsbKbDxe).                  *)
(*                                                                         *)
(* The host controller hands reports to KeyboardHandler, which compares    *)
(* them with the last one, passes them to the key map and queues what      *)
(* changed.  A periodic timer takes the changes out again, one key press   *)
(* per tick, keeps the state of the modifiers and makes a keystroke of it. *)
(* A second timer repeats the key that is held, a third one submits the    *)
(* transfer again after an error.  The queue in which keystrokes wait for  *)
(* the readers of the console is not modelled.                             *)
(*                                                                         *)
(* KeyboardHandler, the periodic timer and the recovery run at TPL_NOTIFY. *)
(* The repetition runs at TPL_CALLBACK and an exhaustive reset at          *)
(* TPL_APPLICATION, neither raises its level, and so both are taken        *)
(* statement by statement: the others come in between.  InitQueue, which   *)
(* frees the buffer of a queue and allocates another, is one step.         *)
(***************************************************************************)
EXTENDS Naturals, Sequences, SequencesExt, FiniteSetsExt, ListLoops

CONSTANTS
  UsbLetter,          \* keys of a printable character with a shifted form
  UsbLock,            \* the caps lock key
  UsbShift, UsbCtrl,  \* the shift and control keys of both sides
  UsbModifiers,       \* all of them, in the order of their bits in a report
  NoUsbKey,           \* a RepeatKey of 0
  MAX_KEY_ALLOWED,    \* size of a USB_SIMPLE_QUEUE
  UsbHeldMax,         \* bound: keys held at once
  UsbMaxStarts,       \* bound: times the driver is bound to the device
  UsbMaxReports,      \* bound: reports of the device
  UsbStale            \* bound: what an old slot of the queue holds

ASSUME UsbAssumption ==
  /\ MAX_KEY_ALLOWED \in Nat \ {0} /\ UsbHeldMax \in Nat /\ UsbMaxStarts \in Nat
  /\ UsbMaxReports \in Nat
  /\ UsbModifiers \in Seq(UsbShift \cup UsbCtrl) /\ IsInjective(UsbModifiers)
  /\ Range(UsbModifiers) = UsbShift \cup UsbCtrl /\ UsbShift \cap UsbCtrl = {}
  /\ IsFiniteSet(UsbLetter) /\ UsbLetter \cap (UsbShift \cup UsbCtrl \cup {UsbLock}) = {}
  /\ UsbLock \notin UsbShift \cup UsbCtrl
  /\ UsbStale \subseteq [KeyCode : UsbLetter \cup UsbShift \cup UsbCtrl \cup {UsbLock},
                          Down : BOOLEAN, with : {{}}]

VARIABLES
  kb,             \* USB_KB_DEV
  bound,          \* starts of the driver, whether it is bound now, key map buffers that
                  \* failed starts left, and reports
  keyMap,         \* the buffer of this device in the key map, if it has one
  submitted,      \* the interrupt transfer
  RepeatTimer, DelayedRecoveryEvent,    \* armed
  repeating,      \* USBKeyboardRepeatHandler: the key it queues, and how far it is
  resetting,      \* an exhaustive reset: what it did last, "no" outside of one
  modifierLost,   \* history: the change of a modifier was dropped before it was parsed,
                  \* or what the queue held before was queued once more
  mislabelled,    \* history: a character was queued with other modifiers than were
                  \* held when its key was pressed
  keyMapOld,      \* history: keys the key map had when the last report was forgotten
  recoveryLost,   \* history: a pending recovery was forgotten ("reset"), or the host
                  \* controller refused the transfer ("refused")
  overshoot       \* history: repetitions queued since the last report of keys not held

usbTimers == <<RepeatTimer, DelayedRecoveryEvent>>
usbHistory == <<modifierLost, mislabelled, keyMapOld, recoveryLost, overshoot>>
usbVars == <<kb, bound, keyMap, submitted, usbTimers, repeating, resetting, usbHistory>>

UsbModifier == Range(UsbModifiers)
UsbReports == UNION {kSubset(n, UsbLetter \cup UsbModifier \cup {UsbLock}) : n \in 0 .. UsbHeldMax}
Idle == [key |-> NoUsbKey, at |-> "idle"]
NoKeyMap == [there |-> FALSE, keys |-> {}]
Clean == [LastKeyCodeArray |-> {}, UsbKeyQueue |-> << >>, On |-> {}, CtrlOn |-> FALSE,
          ShiftOn |-> FALSE, RepeatKey |-> NoUsbKey]

\* Enqueue, once for every item: a full queue gives up its first ones.
Enqueue(q, items) ==
  LET all == q \o items IN SubSeq(all, Len(all) - Min({Len(all), MAX_KEY_ALLOWED}) + 1, Len(all))
GivenUp(q, items) ==
  SubSeq(q \o items, 1, Len(q) + Len(items) - Min({Len(q) + Len(items), MAX_KEY_ALLOWED}))
NamesModifier(items) == \E i \in DOMAIN items : items[i].KeyCode \in UsbModifier

----------------------------------------------------------------------------
UsbInit ==
  /\ kb = Clean /\ bound = [times |-> 0, now |-> FALSE, left |-> 0, reports |-> 0]
  /\ keyMap = NoKeyMap /\ submitted = FALSE
  /\ RepeatTimer = FALSE /\ DelayedRecoveryEvent = FALSE
  /\ repeating = Idle /\ resetting = "no"
  /\ modifierLost = FALSE /\ mislabelled = FALSE
  /\ keyMapOld = {} /\ recoveryLost = {} /\ overshoot = 0

\* Binds the driver.  It creates a buffer in the key map, when there is one yet,
\* before the steps that can fail, and does not remove it when one of them does.
USBKeyboardDriverBindingStart(database, ok) ==
  /\ ~bound.now /\ bound.times < UsbMaxStarts
  /\ bound' = [bound EXCEPT !.times = @ + 1, !.now = ok,
                           !.left = @ + IF database /\ ~ok THEN 1 ELSE 0]
  /\ keyMap' = [there |-> database /\ ok, keys |-> {}]
  /\ submitted' = ok
  /\ UNCHANGED <<kb, usbTimers, repeating, resetting, usbHistory>>

\* The key map is installed after the driver was started.
UsbKbAppleKeyMapDbInstallNotify ==
  /\ bound.now /\ ~keyMap.there
  /\ keyMap' = [there |-> TRUE, keys |-> {}] /\ keyMapOld' = {}
  /\ UNCHANGED <<kb, bound, submitted, usbTimers, repeating, resetting, modifierLost,
                 mislabelled, recoveryLost, overshoot>>

\* The code of applications runs: nothing of a higher level does.
Applies == bound.now /\ repeating = Idle /\ resetting = "no"

USBKeyboardDriverBindingStop ==
  /\ Applies
  /\ bound' = [bound EXCEPT !.now = FALSE] /\ submitted' = FALSE
  /\ kb' = Clean /\ keyMap' = NoKeyMap
  /\ RepeatTimer' = FALSE /\ DelayedRecoveryEvent' = FALSE
  /\ modifierLost' = FALSE /\ mislabelled' = FALSE
  /\ keyMapOld' = {} /\ recoveryLost' = {} /\ overshoot' = 0
  /\ UNCHANGED <<repeating, resetting>>

\* Boot services end: nothing is freed, and nothing runs any more.
USBKeyboardExitBootServices ==
  /\ Applies
  /\ bound' = [bound EXCEPT !.now = FALSE, !.times = UsbMaxStarts] /\ submitted' = FALSE
  /\ UNCHANGED <<kb, keyMap, usbTimers, repeating, resetting, usbHistory>>

\* What a report changes: modifiers in their order, releases and presses in theirs.
\* The modifiers of the report go with a letter as history.
Change(report, key) ==
  [KeyCode |-> key, Down |-> key \in report,
   with |-> IF key \in UsbLetter THEN report \cap UsbModifier ELSE {}]
Changes(report, releases, presses) ==
  LET differ == {m \in UsbModifier : (m \in report) # (m \in kb.LastKeyCodeArray)}
      keys   == Only(UsbModifiers, differ) \o releases \o presses
  IN  [i \in DOMAIN keys |-> Change(report, keys[i])]

Repeatable(presses) == {i \in DOMAIN presses : presses[i] # UsbLock}
Released(report) == kb.LastKeyCodeArray \ (report \cup UsbModifier)
Pressed(report) == report \ (kb.LastKeyCodeArray \cup UsbModifier)

\* Mutant: a released key stays the one that repeats.
RepeatKeyKeptStays(report) == kb.RepeatKey

\* The key that repeats after the releases of a report.
RepeatKeyKept(report) == IF kb.RepeatKey \in Released(report) THEN NoUsbKey ELSE kb.RepeatKey

\* A new key repeats from then on, the last one of the report.  The lock never does,
\* and ends the repetition of another key.
NewRepeatKey(report, presses) ==
  IF Repeatable(presses) # {} THEN presses[Max(Repeatable(presses))]
  ELSE IF presses # << >> THEN NoUsbKey ELSE RepeatKeyKept(report)

\* The timer is cancelled when no key repeats after the releases, and set anew for
\* a new key.
RepeatTimerAfter(report, presses) ==
  \/ Repeatable(presses) # {}
  \/ RepeatTimer /\ RepeatKeyKept(report) # NoUsbKey

\* SetKeyStrokeBufferKeys, with the modifiers and the keys of the report.
ToldKeys(report) == report

\* A repetition whose slot is written, but not counted by Tail yet, finds it
\* overwritten, and Tail moved on, when a report was queued.
Overtaken == IF repeating.at = "tail" THEN [repeating EXCEPT !.at = "stale"] ELSE repeating

\* A report that repeats the last one is ignored before the key map sees it.
KeyboardHandler(report, releases, presses) ==
  LET items == Changes(report, releases, presses)
  IN  /\ submitted /\ report # kb.LastKeyCodeArray /\ bound.reports < UsbMaxReports
      /\ bound' = [bound EXCEPT !.reports = @ + 1]
      /\ kb' = [kb EXCEPT !.LastKeyCodeArray = report, !.UsbKeyQueue = Enqueue(@, items),
                          !.RepeatKey = NewRepeatKey(report, presses)]
      /\ RepeatTimer' = RepeatTimerAfter(report, presses)
      /\ keyMap' = IF keyMap.there THEN [keyMap EXCEPT !.keys = ToldKeys(report)] ELSE keyMap
      /\ modifierLost' = (modifierLost \/ NamesModifier(GivenUp(kb.UsbKeyQueue, items)))
      /\ keyMapOld' = {} /\ overshoot' = 0
      /\ repeating' = Overtaken
      /\ UNCHANGED <<submitted, DelayedRecoveryEvent, resetting, mislabelled, recoveryLost>>

\* Mutant: nothing submits the transfer again.
DelayNever == FALSE
\* EFI_USB_INTERRUPT_DELAY from now the transfer is submitted again.
Delay == TRUE

\* The transfer failed: it is deleted, and the repetition ends.  The keys of the
\* last report stay in LastKeyCodeArray and in the key map.
KeyboardHandlerError ==
  /\ submitted /\ submitted' = FALSE
  /\ kb' = [kb EXCEPT !.RepeatKey = NoUsbKey] /\ RepeatTimer' = FALSE
  /\ DelayedRecoveryEvent' = Delay
  /\ UNCHANGED <<bound, keyMap, repeating, resetting, usbHistory>>

\* The host controller may refuse the transfer, and nobody looks.
USBKeyboardRecoveryHandler(ok) ==
  /\ bound.now /\ DelayedRecoveryEvent
  /\ DelayedRecoveryEvent' = FALSE /\ submitted' = ok
  /\ recoveryLost' = recoveryLost \cup IF ok THEN {} ELSE {"refused"}
  /\ UNCHANGED <<kb, bound, keyMap, RepeatTimer, repeating, resetting, modifierLost,
                 mislabelled, keyMapOld, overshoot>>

\* The repetition reads the key.
USBKeyboardRepeatHandler ==
  /\ bound.now /\ RepeatTimer /\ repeating = Idle
  /\ RepeatTimer' = FALSE
  /\ repeating' = IF kb.RepeatKey = NoUsbKey THEN Idle
                  ELSE [key |-> kb.RepeatKey, at |-> "check"]
  /\ UNCHANGED <<kb, bound, keyMap, submitted, DelayedRecoveryEvent, resetting, usbHistory>>

\* It goes on from one statement of Enqueue to the next.
RepetitionGoesOn(from, to) ==
  /\ repeating.at \in from /\ repeating' = [repeating EXCEPT !.at = to]
  /\ UNCHANGED <<bound, keyMap, submitted, DelayedRecoveryEvent, resetting, mislabelled,
                 keyMapOld, recoveryLost>>

\* Enqueue asks for room.
RepetitionChecks ==
  /\ RepetitionGoesOn({"check"}, IF Len(kb.UsbKeyQueue) = MAX_KEY_ALLOWED THEN "room" ELSE "copy")
  /\ UNCHANGED <<kb, RepeatTimer, modifierLost, overshoot>>

\* Head moves on, past Tail when the queue was emptied since: every slot is queued
\* again, with what it held before.
RepetitionMakesRoom ==
  LET q == kb.UsbKeyQueue IN
  /\ RepetitionGoesOn({"room"}, "copy")
  /\ IF q # << >>
     THEN /\ kb' = [kb EXCEPT !.UsbKeyQueue = Tail(@)]
          /\ modifierLost' = (modifierLost \/ Head(q).KeyCode \in UsbModifier)
     ELSE /\ \E stale \in [1 .. MAX_KEY_ALLOWED -> UsbStale] :
               kb' = [kb EXCEPT !.UsbKeyQueue = stale]
          /\ modifierLost' = TRUE
  /\ UNCHANGED <<RepeatTimer, overshoot>>

\* The key is copied to the slot at Tail.
RepetitionCopied ==
  /\ RepetitionGoesOn({"copy"}, "tail")
  /\ UNCHANGED <<kb, RepeatTimer, modifierLost, overshoot>>

\* Tail moves on: to Head, and the queue is empty, when reports filled it since the
\* question; and over another slot than the one that was written, when a report came
\* since then.
RepetitionQueued ==
  LET q == kb.UsbKeyQueue
      item == Change(kb.LastKeyCodeArray \cup {repeating.key}, repeating.key)
  IN
  /\ RepetitionGoesOn({"tail", "stale"}, "timer")
  /\ \/ /\ Len(q) < MAX_KEY_ALLOWED /\ repeating.at = "tail"
        /\ kb' = [kb EXCEPT !.UsbKeyQueue = Append(@, item)]
        /\ overshoot' = overshoot + IF repeating.key \in kb.LastKeyCodeArray
                                         \/ resetting = "array" THEN 0 ELSE 1
        /\ UNCHANGED modifierLost
     \/ /\ Len(q) < MAX_KEY_ALLOWED /\ repeating.at = "stale"
        /\ \E stale \in UsbStale : kb' = [kb EXCEPT !.UsbKeyQueue = Append(@, stale)]
        /\ modifierLost' = TRUE /\ UNCHANGED overshoot
     \/ /\ Len(q) = MAX_KEY_ALLOWED
        /\ kb' = [kb EXCEPT !.UsbKeyQueue = << >>]
        /\ modifierLost' = TRUE /\ UNCHANGED overshoot
  /\ UNCHANGED RepeatTimer

RepetitionTimerSet ==
  /\ repeating.at = "timer" /\ repeating' = Idle
  /\ RepeatTimer' = TRUE
  /\ UNCHANGED <<kb, bound, keyMap, submitted, DelayedRecoveryEvent, resetting, usbHistory>>

QueueRepetition ==
  \/ RepetitionChecks
  \/ RepetitionMakesRoom
  \/ RepetitionCopied
  \/ RepetitionQueued
  \/ RepetitionTimerSet

----------------------------------------------------------------------------
\* USBParseKey takes the releases off the queue, up to the first press.
LeadingUps(q) == Min({i \in 1 .. (Len(q) + 1) : i = Len(q) + 1 \/ q[i].Down}) - 1

\* The release of either key of a pair ends the state of the pair.
AfterUps(q) ==
  LET up == {q[i].KeyCode : i \in 1 .. LeadingUps(q)}
  IN  [kb EXCEPT !.UsbKeyQueue = SubSeq(q, LeadingUps(q) + 1, Len(q)), !.On = @ \ up,
                 !.CtrlOn = @ /\ up \cap UsbCtrl = {}, !.ShiftOn = @ /\ up \cap UsbShift = {}]

\* Mutant: a press leaves the flag of its own side alone.
PressParsedPairOnly(d, key) ==
  [d EXCEPT !.UsbKeyQueue = Tail(@),
            !.CtrlOn = @ \/ key \in UsbCtrl, !.ShiftOn = @ \/ key \in UsbShift]

PressParsed(d, key) ==
  [d EXCEPT !.UsbKeyQueue = Tail(@), !.On = @ \cup ({key} \cap UsbModifier),
            !.CtrlOn = @ \/ key \in UsbCtrl, !.ShiftOn = @ \/ key \in UsbShift]

\* The letters come in their shifted form when ShiftOn is set.  The shift keys are
\* then hidden from the keystroke, and from those that follow it.
Hidden(d, key) == IF key \in UsbLetter /\ d.ShiftOn THEN d.On \ UsbShift ELSE d.On
UsbKeyCodeToEfiInputKey(d, key) == [d EXCEPT !.On = Hidden(d, key)]

\* As long as no change of a modifier was dropped, a character shows the control keys
\* that were held when its key was pressed, shows no other modifier, and is shifted
\* only if a shift key was held.
Labelled(d, item) ==
  /\ UsbCtrl \cap item.with \subseteq Hidden(d, item.KeyCode)
  /\ Hidden(d, item.KeyCode) \subseteq item.with
  /\ d.ShiftOn => item.with \cap UsbShift # {}

USBKeyboardTimerHandler ==
  LET d == AfterUps(kb.UsbKeyQueue)
      item == Head(d.UsbKeyQueue)
      pressed == PressParsed(d, item.KeyCode)
  IN  /\ bound.now /\ kb.UsbKeyQueue # << >>
      /\ IF d.UsbKeyQueue = << >> THEN kb' = d /\ UNCHANGED mislabelled
         ELSE /\ kb' = UsbKeyCodeToEfiInputKey(pressed, item.KeyCode)
              /\ mislabelled' =
                   \/ mislabelled
                   \/ ~modifierLost /\ item.KeyCode \in UsbLetter /\ ~Labelled(pressed, item)
      /\ UNCHANGED <<bound, keyMap, submitted, usbTimers, repeating, resetting, modifierLost,
                     keyMapOld, recoveryLost, overshoot>>

\* InitQueue: all of a reset that is not exhaustive, and all that one
\* does whose device refuses to be configured.
USBKeyboardReset(stage) ==
  /\ Applies /\ stage \in {"no", "queues"}
  /\ kb' = [kb EXCEPT !.UsbKeyQueue = << >>]
  /\ modifierLost' = (modifierLost \/ NamesModifier(kb.UsbKeyQueue))
  /\ resetting' = stage
  /\ UNCHANGED <<bound, keyMap, submitted, usbTimers, repeating, mislabelled, keyMapOld,
                 recoveryLost, overshoot>>

\* The exhaustive reset goes on from one step to the next.
ResetGoesOn(from, to) ==
  /\ resetting = from /\ repeating = Idle /\ resetting' = to
  /\ UNCHANGED <<bound, keyMap, submitted, repeating, mislabelled, overshoot>>

\* The state of the modifiers is forgotten.
ResetFlags ==
  /\ ResetGoesOn("queues", "flags")
  /\ kb' = [kb EXCEPT !.On = {}, !.CtrlOn = FALSE, !.ShiftOn = FALSE]
  /\ modifierLost' = TRUE
  /\ UNCHANGED <<usbTimers, keyMapOld, recoveryLost>>

\* No modifier is on, and nothing that waits is one or was pressed together with one.
Plain ==
  /\ kb.On = {} /\ ~kb.CtrlOn /\ ~kb.ShiftOn
  /\ \A i \in DOMAIN kb.UsbKeyQueue :
       kb.UsbKeyQueue[i].KeyCode \notin UsbModifier /\ kb.UsbKeyQueue[i].with = {}

\* The last report is forgotten.  From here on what waits fits it again, unless a
\* report came in between.
ResetArray ==
  /\ ResetGoesOn("flags", "array")
  /\ kb' = [kb EXCEPT !.LastKeyCodeArray = {}]
  /\ modifierLost' = ~Plain /\ keyMapOld' = keyMap.keys
  /\ UNCHANGED <<usbTimers, recoveryLost>>

\* The timers are replaced by timers that are not set.  RepeatKey stays.
ResetRepeatTimer ==
  /\ ResetGoesOn("array", "timer")
  /\ RepeatTimer' = FALSE
  /\ UNCHANGED <<kb, DelayedRecoveryEvent, modifierLost, keyMapOld, recoveryLost>>

ResetRecoveryEvent ==
  /\ ResetGoesOn("timer", "no")
  /\ DelayedRecoveryEvent' = FALSE
  /\ recoveryLost' = recoveryLost \cup IF DelayedRecoveryEvent THEN {"reset"} ELSE {}
  /\ UNCHANGED <<kb, RepeatTimer, modifierLost, keyMapOld>>

InitUSBKeyboard ==
  \/ ResetFlags
  \/ ResetArray
  \/ ResetRepeatTimer
  \/ ResetRecoveryEvent

\* The recovery's timer goes off.
UsbRecovers == \E ok \in BOOLEAN : USBKeyboardRecoveryHandler(ok)

UsbNext ==
  \/ \E database, ok \in BOOLEAN : USBKeyboardDriverBindingStart(database, ok)
  \/ UsbKbAppleKeyMapDbInstallNotify
  \/ USBKeyboardDriverBindingStop
  \/ USBKeyboardExitBootServices
  \/ \E report \in UsbReports : \E releases \in SetToSeqs(Released(report)) :
       \E presses \in SetToSeqs(Pressed(report)) : KeyboardHandler(report, releases, presses)
  \/ KeyboardHandlerError
  \/ UsbRecovers
  \/ USBKeyboardRepeatHandler
  \/ QueueRepetition
  \/ USBKeyboardTimerHandler
  \/ \E stage \in {"no", "queues"} : USBKeyboardReset(stage)
  \/ InitUSBKeyboard

UsbSpec == UsbInit /\ [][UsbNext]_usbVars /\ WF_usbVars(UsbRecovers)

----------------------------------------------------------------------------
\* A key that was released is not repeated: what the repetition queues is held down
\* by the last report, save for one key it had read when the report came, and until
\* the reset that has forgotten the report comes to the timer (KeyBoard.c:903-919,
\* 1946-1967).
RepeatsHeldKeys ==
  /\ RepeatTimer /\ kb.RepeatKey # NoUsbKey =>
       kb.RepeatKey \in UsbLetter /\ (kb.RepeatKey \in kb.LastKeyCodeArray \/ resetting = "array")
  /\ overshoot <= 1

\* As long as no change of a modifier was dropped, no repetition was overtaken by a
\* report and no report came inside a reset, characters come with the modifiers that
\* were held when their keys were pressed (Labelled), and what waits to be parsed
\* completes the state of the control keys to that of the last report.
FlagOf(m) ==
  LET named == {i \in DOMAIN kb.UsbKeyQueue : kb.UsbKeyQueue[i].KeyCode = m}
  IN  IF named = {} THEN m \in kb.On ELSE kb.UsbKeyQueue[Max(named)].Down
KeysCarryTheirModifiers ==
  /\ ~mislabelled
  /\ ~modifierLost => \A m \in UsbCtrl : FlagOf(m) = (m \in kb.LastKeyCodeArray)

\* The key map shows the keys of the last report.  Only when the driver has
\* forgotten that report (an exhaustive reset), or the key map came after it, it
\* shows what it showed then, until a report that differs.
KeyMapFollowsReports ==
  keyMap.there => keyMap.keys \in {kb.LastKeyCodeArray, keyMapOld}

\* Queued characters and the key map agree with the reports (KeyBoard.c:1087-1112,
\* 1301-1713).
ReportsFollowed == KeysCarryTheirModifiers /\ KeyMapFollowsReports

\* After an error the keyboard reports again, unless it is unplugged or reset first, or
\* the host controller refuses the transfer (KeyBoard.c:1041-1048, 1984-2016).
ErrorsRecovered ==
  (bound.now /\ ~submitted /\ recoveryLost = {})
    ~> (submitted \/ recoveryLost # {} \/ ~bound.now)

\* "Handler of DelayedRecoveryEvent triggered by timer will re-submit the
\* interrupt": while the transfer is deleted and nothing was refused, that timer is set.
RecoveryIsPending ==
  bound.now /\ ~submitted /\ "refused" \notin recoveryLost => DelayedRecoveryEvent
=============================================================================
