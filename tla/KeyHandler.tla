----------------------------- MODULE KeyHandler -----------------------------
(***************************************************************************)
(* From the keys that are held down to key events                          *)
(* (OcAppleEventLib/KeyHandler.c).                                         *)
(*                                                                         *)
(* Every 10 ms the poll timer's notification asks the key map which keys   *)
(* are pressed, compares them with a table of ten keys it already knows,   *)
(* and queues KEY_UP, KEY_DOWN (also for the repetition of a held key) and *)
(* modifier events.  A notification at TPL_NOTIFY is not interrupted by    *)
(* anything that touches this state, so a poll is one action.  Every event *)
(* is allocated, and lost when the pool is exhausted.                      *)
(***************************************************************************)
EXTENDS Naturals, Sequences, SequencesExt, FiniteSetsExt

CONSTANTS
  KeyCode,                \* APPLE_KEY_CODE values
  CLock,                  \* AppleHidUsbKbUsageKeyCLock
  NoCode,                 \* the code of an empty slot
  Modifier,               \* bits of APPLE_MODIFIER_MAP
  SLOTS,                  \* ARRAY_SIZE (mKeyStrokeInfo)
  KEY_STROKE_DELAY,
  REPEAT_START,           \* KEY_STROKE_DELAY * 10
  MaxKeys                 \* bound: keys pressed at once

ASSUME KeyHandlerAssumption ==
  /\ SLOTS \in Nat \ {0} /\ KEY_STROKE_DELAY \in Nat \ {0} /\ MaxKeys \in Nat
  /\ REPEAT_START \in Nat /\ REPEAT_START % KEY_STROKE_DELAY = 0
  /\ CLock \in KeyCode /\ NoCode \notin KeyCode /\ KeyCode \cap Modifier = {}

VARIABLES
  mKeyStrokeInfo,
  mModifiers,
  mPreviousModifiers,
  mCLockOn,
  mCLockChanged,
  pressed,        \* history: the keys of the last poll
  steady,         \* history: how many polls in a row found these keys, no further
                  \* than MaxKeys
  emitted,        \* history: the events the last poll queued
  down,           \* history: what a listener believes is down
  unheard         \* history: keys and modifiers whose last event was lost

vars == <<mKeyStrokeInfo, mModifiers, mPreviousModifiers, mCLockOn, mCLockChanged,
          pressed, steady, emitted, down, unheard>>

Slot == 1 .. SLOTS
Empty == [AppleKeyCode |-> NoCode, NumberOfStrokes |-> 0, CurrentStroke |-> FALSE]

\* What table t knows, and where it knows key k.
Codes(t) == {t[i].AppleKeyCode : i \in Slot} \ {NoCode}
SlotsOf(t, k) == {i \in Slot : t[i].AppleKeyCode = k}
Current(t) == {i \in Slot : t[i].CurrentStroke}
Tracked == Codes(mKeyStrokeInfo)

\* The keys a poll may find: each of them once, in any order.
KeyReports == {s \in UNION {[1 .. n -> KeyCode] : n \in 0 .. MaxKeys} : IsInjective(s)}

----------------------------------------------------------------------------
Init ==
  /\ mKeyStrokeInfo = [i \in Slot |-> Empty]
  /\ mModifiers = {} /\ mPreviousModifiers = {}
  /\ mCLockOn = FALSE /\ mCLockChanged = FALSE
  /\ pressed = {} /\ steady = 0 /\ emitted = {} /\ down = {} /\ unheard = {}

Cancel(t) == [i \in Slot |-> [t[i] EXCEPT !.CurrentStroke = FALSE]]

\* Mutant: a change of the modifiers does not end the repetition.
ModifiersCheckedNever(t, mods) == t

\* Other modifiers end the repetition of the key that is held.
ModifiersChecked(t, mods) == IF mModifiers # mods THEN Cancel(t) ELSE t

\* Mutant: a key is looked for at the front of the report only.
RemoveReleasedKeysFirst(t, keys) ==
  [i \in Slot |-> IF keys # << >> /\ t[i].AppleKeyCode = Head(keys) THEN t[i] ELSE Empty]

\* The table part of InternalGetAndRemoveReleasedKeys.
RemoveReleasedKeys(t, keys) ==
  [i \in Slot |-> IF t[i].AppleKeyCode \in Range(keys) THEN t[i] ELSE Empty]

\* The keys it returns, those of the table and then the caps lock key.
ReleasedKeys(t, keys) ==
  (Codes(t) \cup IF mCLockChanged THEN {CLock} ELSE {}) \ Range(keys)

\* InternalIsCLockOn differs from mCLockOn.
CLockToggled(t, keys, changed) ==
  CLock \in Range(keys) /\ CLock \notin Codes(t) /\ ~changed

\* NumberOfStrokes is counted exactly up to the start of the repetition, and
\* modulo the repetition's period from there.
Stroke(n) ==
  IF n + 1 = REPEAT_START + KEY_STROKE_DELAY THEN REPEAT_START ELSE n + 1

Accepted(n) == IF n < REPEAT_START THEN n = 0 ELSE n % KEY_STROKE_DELAY = 0

\* Mutant: a new key is only taken when it is the first of the report.
CountStrokesOnlyFirst(t, keys) ==
  LET new     == {j \in DOMAIN keys : keys[j] \notin Codes(t)}
      before  == IF new = {} THEN Range(keys) ELSE {keys[j] : j \in 1 .. (Min(new) - 1)}
      counted == [i \in Slot |-> IF t[i].AppleKeyCode \in before
                                 THEN [t[i] EXCEPT !.NumberOfStrokes = Stroke(@)] ELSE t[i]]
      free    == SlotsOf(t, NoCode)
  IN  IF new = {} THEN counted
      ELSE IF free = {} \/ 1 \notin new THEN Cancel(counted)
      ELSE [Cancel(counted) EXCEPT ![Min(free)] =
             [AppleKeyCode |-> keys[1], NumberOfStrokes |-> 0, CurrentStroke |-> TRUE]]

\* The loop over the report: one more stroke for every known key in front of the
\* first new one.  That one cancels all other strokes, becomes the current stroke
\* if a slot is free, and ends the loop.
CountStrokes(t, keys) ==
  LET new     == {j \in DOMAIN keys : keys[j] \notin Codes(t)}
      before  == IF new = {} THEN Range(keys) ELSE {keys[j] : j \in 1 .. (Min(new) - 1)}
      counted == [i \in Slot |-> IF t[i].AppleKeyCode \in before
                                 THEN [t[i] EXCEPT !.NumberOfStrokes = Stroke(@)] ELSE t[i]]
      free    == SlotsOf(t, NoCode)
  IN  IF new = {} THEN counted
      ELSE IF free = {} THEN Cancel(counted)
      ELSE [Cancel(counted) EXCEPT ![Min(free)] =
             [AppleKeyCode |-> keys[Min(new)], NumberOfStrokes |-> 0, CurrentStroke |-> TRUE]]

Event(type, keys) == {e \in {[type |-> type, keys |-> keys]} : keys # {}}

\* The keys of the KEY_DOWN event: none, or the one of the current stroke.
DownKeys(t) == {t[i].AppleKeyCode : i \in {j \in Current(t) : Accepted(t[j].NumberOfStrokes)}}

\* InternalGetCurrentKeyStroke succeeds.
Reports(t, mods) == DownKeys(t) # {} \/ (Current(t) = {} /\ mModifiers # mods)

\* The events of InternalKeyStrokePollNotifyFunction itself.
PollEvents(t, mods) ==
  IF ~Reports(t, mods) THEN {}
  ELSE Event("KEY_DOWN", DownKeys(t))
         \cup Event("MODIFIER_UP", mPreviousModifiers \ mods)
         \cup Event("MODIFIER_DOWN", mods \ mPreviousModifiers)

Of(events, types) == UNION {e.keys : e \in {f \in events : f.type \in types}}
Ups == {"KEY_UP", "MODIFIER_UP"}
Downs == {"KEY_DOWN", "MODIFIER_DOWN"}

\* Bounds: one event is lost, or all of the poll, or all of its releases (they are
\* collected in one buffer); and nothing on top of an earlier loss.
Losses(due) ==
  IF unheard # {} THEN {{}}
  ELSE {{}, due, {e \in due : e.type = "KEY_UP"}} \cup {{e} : e \in due}

\* One poll; the key map reported these keys and modifiers, or nothing when it
\* or the allocation of the answer failed.
KeyStrokePoll(mods, keys) ==
  LET start    == ModifiersChecked(mKeyStrokeInfo, mods)
      released == ReleasedKeys(start, keys)
      kept     == RemoveReleasedKeys(start, keys)
      changed  == mCLockChanged /\ CLock \in Range(keys)
      toggled  == CLockToggled(kept, keys, changed)
      table    == CountStrokes(kept, keys)
      due      == (UNION {Event("KEY_UP", {k}) : k \in released}) \cup PollEvents(table, mods)
  IN  /\ mKeyStrokeInfo' = table
      /\ mCLockOn' = (mCLockOn # toggled)
      /\ mCLockChanged' = (changed \/ toggled)
      /\ mModifiers' = IF Current(table) # {} \/ mModifiers # mods THEN mods ELSE mModifiers
      /\ mPreviousModifiers' = IF Reports(table, mods) THEN mods ELSE mPreviousModifiers
      /\ \E lost \in Losses(due) :
           /\ emitted' = due \ lost
           /\ unheard' = (unheard \ Of(due \ lost, Ups \cup Downs))
                           \cup Of(lost, Ups \cup Downs)
      /\ down' = (down \ Of(emitted', Ups)) \cup Of(emitted', Downs)
      /\ pressed' = Range(keys)
      /\ steady' = IF pressed' # pressed THEN 1
                   ELSE IF steady < MaxKeys THEN steady + 1 ELSE steady

Next == \E mods \in SUBSET Modifier, keys \in KeyReports : KeyStrokePoll(mods, keys)

Spec == Init /\ [][Next]_vars

\* Keys other than caps lock are alike.
KeySymmetry == Permutations(KeyCode \ {CLock})

----------------------------------------------------------------------------
TypeOK ==
  /\ mKeyStrokeInfo \in [Slot -> [AppleKeyCode : KeyCode \cup {NoCode},
                                  NumberOfStrokes : 0 .. (REPEAT_START + KEY_STROKE_DELAY - 1),
                                  CurrentStroke : BOOLEAN]]
  /\ mModifiers \subseteq Modifier /\ mPreviousModifiers \subseteq Modifier
  /\ mCLockOn \in BOOLEAN /\ mCLockChanged \in BOOLEAN

\* The table holds no key twice and none that is not pressed, and at most one
\* stroke is current, so the write through KeyCodes of an accepted stroke never
\* meets the NULL of an empty report (KeyHandler.c:485-487).
TableMatchesKeys ==
  /\ TypeOK
  /\ \A k \in KeyCode : Cardinality(SlotsOf(mKeyStrokeInfo, k)) <= 1
  /\ Tracked \subseteq pressed
  /\ Cardinality(Current(mKeyStrokeInfo)) <= 1
  /\ \A i \in Current(mKeyStrokeInfo) : mKeyStrokeInfo[i].AppleKeyCode \in pressed

\* A listener never believes a key down that is not, unless the event that would
\* have told it was lost (KeyHandler.c:384-425).
NoStuckKey == (down \cap KeyCode) \ unheard \subseteq pressed

\* Only one new key is taken per poll; still, when the same keys are held for as
\* many polls as there are keys, as many of them as the table has room for are
\* known, and everything known was announced (KeyHandler.c:432-471).
EveryKeyAnnounced ==
  /\ Tracked \subseteq down \cup unheard
  /\ steady >= Cardinality(pressed) => Cardinality(Tracked) = Min({SLOTS, Cardinality(pressed)})

\* The modifier events add up to the modifiers of the last poll, although they
\* are only sent by polls that report a stroke or a change (KeyHandler.c:473-523, 637-664).
ModifiersHeard ==
  /\ mPreviousModifiers = mModifiers
  /\ \A m \in Modifier \ unheard : m \in down <=> m \in mModifiers

\* A KEY_UP is only sent for a key that was announced; the caps lock key is
\* released twice, once out of the table and once more (KeyHandler.c:235-262).
KeyUpAfterKeyDown ==
  [][Of(emitted', {"KEY_UP"}) \ {CLock} \subseteq down \cup unheard]_vars

\* Only a key pressed in this poll is announced, or the one repeated that was
\* announced last, and that only while the modifiers stay the same
\* (KeyHandler.c:378-382, 450-455).
OnlyNewestRepeats ==
  [][\A k \in Of(emitted', {"KEY_DOWN"}) \cap Tracked :
       /\ mModifiers' = mModifiers
       /\ \E i \in Current(mKeyStrokeInfo) : mKeyStrokeInfo[i].AppleKeyCode = k]_vars

\* Caps lock changes exactly when its key goes down, however long it is held and
\* even when the table has no room for it (KeyHandler.c:317-321, 427-430).
CLockTogglesOncePerPress ==
  [][(mCLockOn' # mCLockOn) <=> (CLock \in pressed' \ pressed)]_vars

\* What the listeners were told adds up: no key is stuck, the modifiers are those of
\* the last poll, and the table is theirs (KeyHandler.c:384-523).
ToldAsPressed == TableMatchesKeys /\ NoStuckKey /\ ModifiersHeard

\* What a single poll tells: releases of what was announced, repetitions of the newest
\* key, and caps lock once per press (KeyHandler.c:235-262, 317-321, 378-455).
PollsTellChanges == KeyUpAfterKeyDown /\ OnlyNewestRepeats /\ CLockTogglesOncePerPress
=============================================================================
