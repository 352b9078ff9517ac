----------------------------- MODULE AIKTarget -----------------------------
(***************************************************************************)
(* The keyboard shim's table of held keys (OcInputLib/Keycode/AIKTarget.c) *)
(* and the timer notification that drives it (AIKPollKeyboardHandler of    *)
(* AIK.c).  Firmware key protocols report only presses and repeats, so     *)
(* the table guesses releases: a key that was not seen for                 *)
(* KeyForgotThreshold polls is taken to be released.                       *)
(*                                                                         *)
(* The notification runs at TPL_NOTIFY and nothing of this module can      *)
(* preempt it; its loops are modelled one iteration per action, with pc    *)
(* and Index as in the code.                                               *)
(*                                                                         *)
(* The code stamps every key with the value of a 64-bit poll counter and   *)
(* only ever compares stamps with the counter and with each other.  The    *)
(* model keeps the distance to the counter instead (the age), which is the *)
(* same comparison and needs no bound on the number of polls.              *)
(***************************************************************************)
EXTENDS Naturals, Sequences, SequencesExt

CONSTANTS
  KeyCode,                \* APPLE_KEY_CODE values the translation knows
  UsbHidUndefined,        \* translation of a bare modifier or unknown key
  Modifier,               \* bits of APPLE_MODIFIER_MAP
  AIK_TARGET_BUFFER_SIZE,
  AIK_KEY_POLL_LIMIT,
  KeyForgotThreshold

ASSUME TargetAssumption ==
  /\ AIK_TARGET_BUFFER_SIZE \in Nat \ {0}
  /\ AIK_KEY_POLL_LIMIT \in Nat \ {0}
  /\ KeyForgotThreshold \in Nat
  /\ UsbHidUndefined \notin KeyCode

VARIABLES
  pc,                     \* where the poll notification is
  Index,                  \* loop variable of the loop pc is in
  Keys,                   \* Keys[0 .. NumberOfKeys - 1]
  KeyAges,                \* Counter - KeyCounters[i]
  Modifiers,
  ModifierAge,            \* Counter - ModifierCounter, no further than the threshold
  submitted,              \* what the key map database was last told
  sinceSeen               \* history: polls since each key was last reported by
                          \* the firmware, no further than the threshold

targetVars == <<pc, Index, Keys, KeyAges, Modifiers, ModifierAge, submitted, sinceSeen>>
table == <<Keys, KeyAges>>

\* An AMI_EFI_KEY_DATA as AIKTranslate sees it.
EfiKeyData == [Modifiers : SUBSET Modifier, Key : KeyCode \cup {UsbHidUndefined}]

NumberOfKeys == Len(Keys)

Older(age) == IF age < KeyForgotThreshold THEN age + 1 ELSE age

----------------------------------------------------------------------------
TargetInit ==
  /\ pc = "idle" /\ Index = 1
  /\ Keys = << >> /\ KeyAges = << >>
  /\ Modifiers = {} /\ ModifierAge = 0
  /\ submitted = [Modifiers |-> {}, Keys |-> << >>]
  /\ sinceSeen = [k \in KeyCode |-> KeyForgotThreshold]

\* Mutant: the counter saturates below the threshold.
AIKTargetRefreshSaturating ==
  /\ pc = "idle"
  /\ pc' = "refresh" /\ Index' = 1
  /\ KeyAges' = [i \in DOMAIN KeyAges |->
       IF KeyAges[i] + 1 < KeyForgotThreshold THEN KeyAges[i] + 1 ELSE KeyAges[i]]
  /\ ModifierAge' = Older(ModifierAge)
  /\ sinceSeen' = [k \in KeyCode |-> Older(sinceSeen[k])]
  /\ UNCHANGED <<Keys, Modifiers, submitted>>

\* The timer fires; AIKTargetRefresh increments the counter and enters its loop.
AIKTargetRefresh ==
  /\ pc = "idle"
  /\ pc' = "refresh" /\ Index' = 1
  /\ KeyAges' = [i \in DOMAIN KeyAges |-> KeyAges[i] + 1]
  /\ ModifierAge' = Older(ModifierAge)
  /\ sinceSeen' = [k \in KeyCode |-> Older(sinceSeen[k])]
  /\ UNCHANGED <<Keys, Modifiers, submitted>>

\* Mutant: the first key of the table is never examined.
RefreshKeyNotFirst ==
  /\ pc = "refresh" /\ Index <= NumberOfKeys
  /\ IF KeyAges[Index] >= KeyForgotThreshold /\ Index > 1
     THEN /\ Keys' = RemoveAt(Keys, Index)
          /\ KeyAges' = RemoveAt(KeyAges, Index)
     ELSE UNCHANGED table
  /\ Index' = Index + 1
  /\ UNCHANGED <<pc, Modifiers, ModifierAge, submitted, sinceSeen>>

\* One iteration of the loop of AIKTargetRefresh.  Removing an entry moves the
\* next one to the same index, and the loop variable is incremented all the same.
RefreshKey ==
  /\ pc = "refresh" /\ Index <= NumberOfKeys
  /\ IF KeyAges[Index] >= KeyForgotThreshold
     THEN /\ Keys' = RemoveAt(Keys, Index)
          /\ KeyAges' = RemoveAt(KeyAges, Index)
     ELSE UNCHANGED table
  /\ Index' = Index + 1
  /\ UNCHANGED <<pc, Modifiers, ModifierAge, submitted, sinceSeen>>

\* The rest of AIKTargetRefresh, and the head of the poll's own loop.
RefreshModifiers ==
  /\ pc = "refresh" /\ Index > NumberOfKeys
  /\ Modifiers' = IF ModifierAge >= KeyForgotThreshold THEN {} ELSE Modifiers
  /\ pc' = "grab" /\ Index' = 1
  /\ UNCHANGED <<Keys, KeyAges, ModifierAge, submitted, sinceSeen>>

\* The index of the oldest entry, the first one when several are equally old.
Oldest ==
  CHOOSE i \in DOMAIN KeyAges :
    \A j \in DOMAIN KeyAges : /\ KeyAges[j] <= KeyAges[i]
                              /\ j < i => KeyAges[j] < KeyAges[i]

\* A key that is not in the table goes to its end or over the oldest entry.
InsertKey(k) ==
  IF NumberOfKeys = AIK_TARGET_BUFFER_SIZE
  THEN /\ Keys' = [Keys EXCEPT ![Oldest] = k]
       /\ KeyAges' = [KeyAges EXCEPT ![Oldest] = 0]
  ELSE /\ Keys' = Append(Keys, k)
       /\ KeyAges' = Append(KeyAges, 0)

AIKTargetWriteEntry(d) ==
  /\ Modifiers' = d.Modifiers
  /\ ModifierAge' = 0
  /\ \/ d.Key = UsbHidUndefined /\ UNCHANGED table
     \/ /\ d.Key \in KeyCode
        /\ \E i \in DOMAIN Keys :
             /\ Keys[i] = d.Key
             /\ KeyAges' = [KeyAges EXCEPT ![i] = 0]
        /\ UNCHANGED Keys
     \/ /\ d.Key \in KeyCode
        /\ \A i \in DOMAIN Keys : Keys[i] # d.Key
        /\ InsertKey(d.Key)

\* One iteration of the poll's loop that found a key: AIKSourceGrabEfiKey gave d.
GrabEfiKey(d) ==
  /\ pc = "grab" /\ Index <= AIK_KEY_POLL_LIMIT
  /\ AIKTargetWriteEntry(d)
  /\ sinceSeen' = IF d.Key \in KeyCode THEN [sinceSeen EXCEPT ![d.Key] = 0]
                                       ELSE sinceSeen
  /\ Index' = Index + 1
  /\ UNCHANGED <<pc, submitted>>

\* The poll's loop ends, because the firmware has no further key or because
\* the limit is reached, and the table is submitted.
AIKTargetSubmit ==
  /\ pc = "grab"
  /\ submitted' = [Modifiers |-> Modifiers, Keys |-> Keys]
  /\ pc' = "idle" /\ Index' = 1
  /\ UNCHANGED <<Keys, KeyAges, Modifiers, ModifierAge, sinceSeen>>

TargetNext ==
  \/ AIKTargetRefresh \/ RefreshKey \/ RefreshModifiers
  \/ \E d \in EfiKeyData : GrabEfiKey(d)
  \/ AIKTargetSubmit

TargetSpec == TargetInit /\ [][TargetNext]_targetVars

\* The poll timer is periodic and its notification always runs to its end.
FairTargetSpec == TargetSpec /\ WF_targetVars(AIKTargetRefresh \/ RefreshKey \/ RefreshModifiers \/ AIKTargetSubmit)

----------------------------------------------------------------------------
\* The age at which the refresh loop removes an entry that it examines.
ForgotAge == Max({KeyForgotThreshold, 1})

TargetTypeOK ==
  /\ pc \in {"idle", "refresh", "grab"}
  /\ Index \in 1 .. Max({AIK_TARGET_BUFFER_SIZE, AIK_KEY_POLL_LIMIT}) + 1
  /\ Keys \in Seq(KeyCode) /\ Len(Keys) <= AIK_TARGET_BUFFER_SIZE
  /\ KeyAges \in Seq(Nat) /\ Len(KeyAges) = Len(Keys)
  /\ Modifiers \subseteq Modifier /\ ModifierAge \in 0 .. KeyForgotThreshold
  /\ submitted.Modifiers \subseteq Modifier /\ submitted.Keys \in Seq(KeyCode)
  /\ sinceSeen \in [KeyCode -> 0 .. KeyForgotThreshold]

\* The key map database is never told the same key twice: however keys are
\* repeated, evicted and forgotten, the table holds each key once
\* (AIKTarget.c:139-147).
NoDuplicateKeys == IsInjective(Keys) /\ IsInjective(submitted.Keys)

\* A key that the firmware reported within the threshold is in the table, unless
\* the table is full of keys reported at least as recently (AIKTarget.c:88, 154-164).
HeldKeyIsReported ==
  \A k \in KeyCode :
    sinceSeen[k] < KeyForgotThreshold =>
      \/ \E i \in DOMAIN Keys : Keys[i] = k /\ KeyAges[i] = sinceSeen[k]
      \/ /\ NumberOfKeys = AIK_TARGET_BUFFER_SIZE
         /\ \A i \in DOMAIN Keys : KeyAges[i] <= sinceSeen[k]

\* The refresh loop skips the entry behind a removed one, which may be stale, and
\* may be skipped again at the next poll.  Each time it is skipped it moves
\* towards the front, so a released key leaves the table a bounded number of
\* polls late, earlier the nearer it is to the front (AIKTarget.c:84-102).
OverstayBounded ==
  pc \in {"grab", "idle"} =>
    \A i \in DOMAIN KeyAges :
      KeyAges[i] + i < ForgotAge + AIK_TARGET_BUFFER_SIZE

\* The table of held keys names no key twice, has every key that was reported within
\* the threshold unless it is full of later ones, and keeps a released one only for
\* a bounded number of polls too long (AIKTarget.c:84-172).
HeldKeysRight == TargetTypeOK /\ NoDuplicateKeys /\ HeldKeyIsReported /\ OverstayBounded

\* A key the firmware stops reporting is eventually no longer submitted, and so
\* are the modifiers once nothing at all is reported (AIKTarget.c:84-110).
ReleasedKeyForgotten ==
  /\ \A k \in KeyCode :
       <>[](sinceSeen[k] = KeyForgotThreshold) =>
         <>[](\A i \in DOMAIN submitted.Keys : submitted.Keys[i] # k)
  /\ <>[](ModifierAge = KeyForgotThreshold) => <>[](submitted.Modifiers = {})

\* "Remove key if it was not submitted after this value." (AIKTarget.h:78):
\* what is submitted was reported by the firmware within the threshold.
StaleKeysRemoved ==
  pc = "grab" => \A i \in DOMAIN KeyAges : KeyAges[i] < KeyForgotThreshold
=============================================================================
