------------------------- MODULE KeyboardShimProofs -------------------------
(***************************************************************************)
(* Proofs about the keyboard shim, for every number of databases, every    *)
(* set of keys and every size of the table: it is there as a whole or not  *)
(* at all, its table of held keys names each key once and misses none that *)
(* was reported lately, and the key map they go to is never written behind *)
(* its buffer and tells of no key that nobody submitted.                   *)
(***************************************************************************)
EXTENDS MCKeyboardShim, SequenceLemmas

----------------------------------------------------------------------------
(* The lifecycle of the shim. *)

On == Hooked(Source) # {}

\* A protocol is the firmware's and nothing is kept of it, or the shim's, with what the
\* firmware had kept.  An event that could not be replaced is not kept.
ProtocolOwned(p) ==
  \/ Source[p] = NotHooked /\ Console[p] \in {Absent, Firmware}
  \/ Source[p] = Firmware /\ Console[p] = [read |-> "shim", wait |-> "shim"]
  \/ /\ Source[p] = [read |-> "firmware", wait |-> "null"]
     /\ Console[p] = [read |-> "shim", wait |-> "firmware"]

Records == [read : {"none", "firmware", "null", "shim"}, wait : {"none", "firmware", "null", "shim"}]

AikInv ==
  /\ Source \in [Protocols -> Records] /\ Console \in [Protocols -> Records]
  /\ \A p \in Protocols : ProtocolOwned(p)
  /\ gAikSelf \in [started : BOOLEAN, Mode : Protocols \cup {"Auto"}, OurJobIsDone : BOOLEAN,
                   InPollKeyboardEvent : BOOLEAN, KeyMapDbArriveEvent : BOOLEAN]
  /\ aikDatabase \in [installed : Nat, sets : {0, 1}] /\ KeyMapDb \in BOOLEAN
  /\ (KeyMapDb <=> On)
  /\ aikTimers = IF On THEN 1 ELSE 0
  /\ aikDatabase.sets = IF On THEN 1 ELSE 0
  /\ gAikSelf.KeyMapDbArriveEvent => ~On /\ gAikSelf.started
  /\ gAikSelf.InPollKeyboardEvent => On
  /\ gAikSelf.OurJobIsDone => gAikSelf.started
  /\ (~gAikSelf.started \/ gAikSelf.OurJobIsDone) => ~On

LEMMA AikInitInv == AikInit => AikInv
<1> SUFFICES ASSUME AikInit PROVE AikInv
  OBVIOUS
<1>1. \A p \in Protocols : Source[p] = NotHooked /\ Console[p] = Absent
  BY DEF AikInit
<1>2. ~On
  BY <1>1 DEF On, Hooked
<1>3. Source \in [Protocols -> Records] /\ Console \in [Protocols -> Records]
  BY DEF AikInit, Records, NotHooked, Absent
<1> QED
  BY <1>1, <1>2, <1>3 DEF AikInit, AikInv, ProtocolOwned

\* A shim that is not installed is installed as a whole, or everything is as before.
LEMMA InstallFacts ==
  ASSUME AikInv, ~On, NEW db \in [installed : Nat, sets : {0, 1}], db.sets = 0,
         NEW mode \in Protocols \cup {"Auto"}, NEW room \in BOOLEAN,
         NEW waits \in SUBSET Protocols, NEW timer \in BOOLEAN,
         AIKInstall(db, mode, room, waits, timer)
  PROVE  /\ Source' \in [Protocols -> Records] /\ Console' \in [Protocols -> Records]
         /\ \A p \in Protocols : ProtocolOwned(p)'
         /\ KeyMapDb' \in BOOLEAN /\ (KeyMapDb' <=> On')
         /\ aikDatabase' \in [installed : Nat, sets : {0, 1}]
         /\ aikDatabase'.sets = IF On' THEN 1 ELSE 0
         /\ aikTimers' = IF On' THEN 1 ELSE 0
<1> DEFINE source == Kept(mode, waits)
           console == Shimmed(mode, waits)
           ok == TargetInstalled(db, room) /\ Hooked(source) # {} /\ timer
<1>1. /\ Hooked(Source) = {} /\ ~KeyMapDb
      /\ \A p \in Protocols : Source[p] = NotHooked /\ Console[p] \in {Absent, Firmware}
      /\ aikTimers = 0 /\ Source \in [Protocols -> Records] /\ Console \in [Protocols -> Records]
  <2>1. \A p \in Protocols : Source[p] = NotHooked
    BY DEF On, Hooked
  <2>2. NotHooked # Firmware /\ NotHooked # [read |-> "firmware", wait |-> "null"]
    <3>1. NotHooked.read = "null" /\ Firmware.read = "firmware"
      BY DEF NotHooked, Firmware
    <3>2. [read |-> "firmware", wait |-> "null"].read = "firmware"
      OBVIOUS
    <3> QED
      BY <3>1, <3>2
  <2>3. \A p \in Protocols : Console[p] \in {Absent, Firmware}
    BY <2>1, <2>2 DEF AikInv, ProtocolOwned
  <2> QED
    BY <2>1, <2>3 DEF AikInv, On
<1>2. ASSUME NEW p \in Protocols
      PROVE  \/ source[p] = NotHooked /\ console[p] = Console[p]
             \/ /\ Console[p] = Firmware
                /\ source[p] = Firmware /\ console[p] = [read |-> "shim", wait |-> "shim"]
             \/ /\ Console[p] = Firmware
                /\ source[p] = [read |-> "firmware", wait |-> "null"]
                /\ console[p] = [read |-> "shim", wait |-> "firmware"]
  BY <1>1 DEF Kept, Shimmed, Wanted, Firmware, Absent, NotHooked
<1>3. source \in [Protocols -> Records] /\ console \in [Protocols -> Records]
  <2>1. \A p \in Protocols : source[p] \in Records /\ console[p] \in Records
    BY <1>1, <1>2 DEF Records, Firmware, NotHooked
  <2> QED
    BY <2>1 DEF Kept, Shimmed
<1>4. /\ KeyMapDb' = ok
      /\ aikDatabase' = [db EXCEPT !.sets = IF ok THEN @ + 1 ELSE @]
      /\ Source' = IF ok THEN source
                   ELSE IF TargetInstalled(db, room) THEN [p \in Protocols |-> NotHooked] ELSE Source
      /\ Console' = IF ok THEN console
                    ELSE IF TargetInstalled(db, room) THEN Restored(source, console) ELSE Console
      /\ aikTimers' = IF ok THEN aikTimers + 1 ELSE aikTimers
  BY <1>1 DEF AIKInstall
<1> HIDE DEF source, console
<1>5. Restored(source, console) = Console
  <2>1. ASSUME NEW p \in Protocols PROVE Restored(source, console)[p] = Console[p]
    BY <1>2 DEF Restored, Hooked, Firmware, NotHooked
  <2> QED
    BY <1>1, <2>1 DEF Restored
<1>6. /\ Source' \in [Protocols -> Records] /\ Console' \in [Protocols -> Records]
      /\ \A p \in Protocols : ProtocolOwned(p)'
  <2>1. [p \in Protocols |-> NotHooked] \in [Protocols -> Records]
    BY DEF NotHooked, Records
  <2>2. CASE ok
    BY <1>1, <1>2, <1>3, <1>4, <2>2 DEF ProtocolOwned
  <2>3. CASE ~ok
    BY <1>1, <1>4, <1>5, <2>1, <2>3 DEF ProtocolOwned
  <2> QED
    BY <2>2, <2>3
<1>7. On' <=> ok
  <2>1. CASE ok
    BY <1>4, <2>1 DEF On
  <2>2. CASE ~ok
    BY <1>1, <1>4, <2>2 DEF On, Hooked
  <2> QED
    BY <2>1, <2>2
<1>8. aikDatabase' \in [installed : Nat, sets : {0, 1}] /\ aikDatabase'.sets = IF ok THEN 1 ELSE 0
  BY <1>4
<1> QED
  BY <1>1, <1>4, <1>6, <1>7, <1>8

LEMMA AikNextInv == AikInv /\ [AikNext]_aikVars => AikInv'
<1> SUFFICES ASSUME AikInv, [AikNext]_aikVars PROVE AikInv'
  OBVIOUS
<1>1. ASSUME NEW mode \in Protocols \cup {"Auto"}, NEW room \in BOOLEAN, NEW timer \in BOOLEAN,
             NEW event \in BOOLEAN, NEW waits \in SUBSET Protocols, ~gAikSelf.InPollKeyboardEvent,
             OcAppleGenericInputKeycodeInit(mode, room, waits, timer, event)
      PROVE  AikInv'
  <2>1. ~On /\ aikDatabase.sets = 0 /\ ~gAikSelf.started
    BY <1>1 DEF AikInv, OcAppleGenericInputKeycodeInit
  <2>2. /\ gAikSelf' \in [started : BOOLEAN, Mode : Protocols \cup {"Auto"}, OurJobIsDone : BOOLEAN,
                          InPollKeyboardEvent : BOOLEAN, KeyMapDbArriveEvent : BOOLEAN]
        /\ gAikSelf'.started /\ ~gAikSelf'.InPollKeyboardEvent
        /\ gAikSelf'.KeyMapDbArriveEvent => ~KeyMapDb'
        /\ gAikSelf'.OurJobIsDone = gAikSelf.OurJobIsDone
    BY <1>1 DEF AikInv, OcAppleGenericInputKeycodeInit, Installed
  <2>3. AIKInstall(aikDatabase, mode, room, waits, timer)
    BY <1>1 DEF OcAppleGenericInputKeycodeInit
  <2>4. aikDatabase \in [installed : Nat, sets : {0, 1}]
    BY DEF AikInv
  <2>5. ~gAikSelf.OurJobIsDone
    BY <2>1 DEF AikInv
  <2>6. /\ Source' \in [Protocols -> Records] /\ Console' \in [Protocols -> Records]
        /\ \A p \in Protocols : ProtocolOwned(p)'
        /\ KeyMapDb' \in BOOLEAN /\ (KeyMapDb' <=> On')
        /\ aikDatabase' \in [installed : Nat, sets : {0, 1}]
        /\ aikDatabase'.sets = IF On' THEN 1 ELSE 0
        /\ aikTimers' = IF On' THEN 1 ELSE 0
    BY <2>1, <2>3, <2>4, InstallFacts
  <2> QED
    BY <2>2, <2>5, <2>6 DEF AikInv
<1>2. ASSUME NEW room \in BOOLEAN, NEW timer \in BOOLEAN, NEW waits \in SUBSET Protocols,
             ~gAikSelf.InPollKeyboardEvent, AIKProtocolArriveHandler(room, waits, timer)
      PROVE  AikInv'
  <2> DEFINE db == [aikDatabase EXCEPT !.installed = @ + 1]
  <2>1. db \in [installed : Nat, sets : {0, 1}] /\ db.sets = aikDatabase.sets
    <3>1. aikDatabase \in [installed : Nat, sets : {0, 1}]
      BY DEF AikInv
    <3>2. aikDatabase.installed + 1 \in Nat
      BY <3>1
    <3> QED
      BY <3>1, <3>2
  <2>2. CASE gAikSelf.KeyMapDbArriveEvent /\ ~gAikSelf.OurJobIsDone
    <3>1. /\ AIKInstall(db, gAikSelf.Mode, room, waits, timer)
          /\ gAikSelf' = [gAikSelf EXCEPT !.KeyMapDbArriveEvent = ~Installed]
      BY <1>2, <2>2 DEF AIKProtocolArriveHandler
    <3>2. ~On /\ db.sets = 0 /\ gAikSelf.started /\ gAikSelf.Mode \in Protocols \cup {"Auto"}
      BY <2>1, <2>2 DEF AikInv
    <3> HIDE DEF db
    <3>3. /\ gAikSelf' \in [started : BOOLEAN, Mode : Protocols \cup {"Auto"},
                            OurJobIsDone : BOOLEAN, InPollKeyboardEvent : BOOLEAN,
                            KeyMapDbArriveEvent : BOOLEAN]
          /\ gAikSelf'.started /\ ~gAikSelf'.InPollKeyboardEvent
          /\ gAikSelf'.KeyMapDbArriveEvent => ~KeyMapDb'
          /\ ~gAikSelf'.OurJobIsDone
      BY <1>2, <2>2, <3>1, <3>2 DEF AikInv, Installed
    <3>4. /\ Source' \in [Protocols -> Records] /\ Console' \in [Protocols -> Records]
          /\ \A p \in Protocols : ProtocolOwned(p)'
          /\ KeyMapDb' \in BOOLEAN /\ (KeyMapDb' <=> On')
          /\ aikDatabase' \in [installed : Nat, sets : {0, 1}]
          /\ aikDatabase'.sets = IF On' THEN 1 ELSE 0
          /\ aikTimers' = IF On' THEN 1 ELSE 0
      BY <2>1, <3>1, <3>2, InstallFacts
    <3> QED
      BY <3>3, <3>4 DEF AikInv
  <2>3. CASE ~(gAikSelf.KeyMapDbArriveEvent /\ ~gAikSelf.OurJobIsDone)
    <3>1. aikDatabase' = db /\ UNCHANGED <<gAikSelf, Source, KeyMapDb, Console, aikTimers>>
      BY <1>2, <2>3 DEF AIKProtocolArriveHandler
    <3> HIDE DEF db
    <3> QED
      BY <2>1, <3>1 DEF AikInv, On, Hooked, ProtocolOwned
  <2> QED
    BY <2>2, <2>3
<1>3. ASSUME NEW p \in Protocols, ConsoleArrives(p) PROVE AikInv'
  <2>1. Console' \in [Protocols -> Records]
    BY <1>3 DEF AikInv, ConsoleArrives, Firmware, Records
  <2>2. ASSUME NEW q \in Protocols PROVE ProtocolOwned(q)'
    <3>1. Console'[q] = IF q = p THEN Firmware ELSE Console[q]
      BY <1>3 DEF AikInv, ConsoleArrives
    <3>2. Console[p] = Absent
      BY <1>3 DEF ConsoleArrives
    <3>3. Absent.read = "none"
      BY DEF Absent
    <3>4. Source[p] = NotHooked
      BY <3>2, <3>3 DEF AikInv, ProtocolOwned
    <3> QED
      BY <1>3, <3>1, <3>4 DEF AikInv, ProtocolOwned, ConsoleArrives
  <2> QED
    BY <1>3, <2>1, <2>2 DEF AikInv, ConsoleArrives, On, Hooked
<1>4. CASE PollBegins
  <2>1. On
    BY <1>4 DEF AikInv, PollBegins
  <2> QED
    BY <1>4, <2>1 DEF AikInv, PollBegins, On, Hooked, ProtocolOwned
<1>5. CASE PollEnds
  BY <1>5 DEF AikInv, PollEnds, On, Hooked, ProtocolOwned
<1>6. ASSUME NEW gone \in SUBSET Protocols, ~gAikSelf.InPollKeyboardEvent,
             OcAppleGenericInputKeycodeExit(gone)
      PROVE  AikInv'
  <2>1. Source' = [p \in Protocols |-> NotHooked] /\ ~KeyMapDb' /\ KeyMapDb' \in BOOLEAN
    BY <1>6 DEF OcAppleGenericInputKeycodeExit
  <2>2. Source' \in [Protocols -> Records] /\ ~On'
    BY <2>1 DEF Records, NotHooked, On, Hooked
  <2>3. ASSUME NEW p \in Protocols PROVE Console'[p] \in {Absent, Firmware}
    <3>1. Console'[p] = IF p \in gone /\ Hooked(Source) # {} THEN Absent
                        ELSE Restored(Source, Console)[p]
      BY <1>6 DEF OcAppleGenericInputKeycodeExit
    <3>2. Restored(Source, Console)[p] \in {Absent, Firmware}
      BY DEF AikInv, ProtocolOwned, Restored, Hooked, Firmware, NotHooked
    <3> QED
      BY <3>1, <3>2
  <2>4. Console' \in [Protocols -> Records]
    BY <1>6, <2>3 DEF OcAppleGenericInputKeycodeExit, Records, Absent, Firmware
  <2>5. aikTimers' = 0
    BY <1>6 DEF AikInv, OcAppleGenericInputKeycodeExit
  <2>6. aikDatabase' \in [installed : Nat, sets : {0, 1}] /\ aikDatabase'.sets = 0
    BY <1>6 DEF AikInv, OcAppleGenericInputKeycodeExit
  <2>7. /\ gAikSelf' \in [started : BOOLEAN, Mode : Protocols \cup {"Auto"}, OurJobIsDone : BOOLEAN,
                          InPollKeyboardEvent : BOOLEAN, KeyMapDbArriveEvent : BOOLEAN]
        /\ gAikSelf'.started /\ ~gAikSelf'.InPollKeyboardEvent /\ ~gAikSelf'.KeyMapDbArriveEvent
    BY <1>6 DEF AikInv, OcAppleGenericInputKeycodeExit
  <2>8. \A p \in Protocols : ProtocolOwned(p)'
    BY <2>1, <2>3 DEF ProtocolOwned
  <2> QED
    BY <2>1, <2>2, <2>4, <2>5, <2>6, <2>7, <2>8 DEF AikInv
<1>7. CASE UNCHANGED aikVars
  BY <1>7 DEF aikVars, AikInv, On, Hooked, ProtocolOwned
<1> QED
  BY <1>1, <1>2, <1>3, <1>4, <1>5, <1>6, <1>7 DEF AikNext

\* Whatever is missing, late or installed again, the shim is there as a whole or not at
\* all, and keys come from its ring exactly when something fills it
\* (AIK.c:154-268, AIKSource.c:57-212, AIKShim.c:22-198).
THEOREM ShimInstalledWhole == AikSpec => []ShimWholeOrGone
<1>1. AikInv => ShimWholeOrGone
  <2> SUFFICES ASSUME AikInv PROVE ShimWholeOrGone
    OBVIOUS
  <2>1. KeyMapDb = On
    <3>1. (KeyMapDb <=> On) /\ KeyMapDb \in BOOLEAN
      BY DEF AikInv
    <3>2. On \in BOOLEAN
      BY DEF On
    <3> HIDE DEF On
    <3> QED
      BY <3>1, <3>2
  <2>2. ASSUME NEW p \in Protocols, Console[p] # Absent
        PROVE  ReadFrom(p) = IF p \in Hooked(Source) /\ ~gAikSelf.InPollKeyboardEvent
                             THEN "ring" ELSE "firmware"
    <3>1. CASE p \in Hooked(Source)
      <4>1. ~gAikSelf.OurJobIsDone /\ Console[p].read = "shim" /\ Source[p].read = "firmware"
        BY <3>1 DEF AikInv, On, ProtocolOwned, Hooked, Firmware
      <4> QED
        BY <3>1, <4>1 DEF ReadFrom
    <3>2. CASE p \notin Hooked(Source)
      <4>1. Console[p].read = "firmware"
        BY <2>2, <3>2 DEF AikInv, ProtocolOwned, Hooked, Firmware, NotHooked
      <4> QED
        BY <3>2, <4>1 DEF ReadFrom
    <3> QED
      BY <3>1, <3>2
  <2>3. ASSUME NEW p \in Protocols, Console[p].wait = "shim"
        PROVE  p \in Hooked(Source) /\ Source[p].wait = "firmware"
    BY <2>3 DEF AikInv, ProtocolOwned, Hooked, Firmware, NotHooked, Absent
  <2> QED
    BY <2>1, <2>2, <2>3 DEF ShimWholeOrGone, AikInv, On
<1> QED
  BY <1>1, AikInitInv, AikNextInv, PTL DEF AikSpec

----------------------------------------------------------------------------
(* The table of held keys. *)

\* A key may stay too long by one poll for every entry that can still be removed before it.
\* While the refresh loop runs, the entries that it has not examined are a poll older.
Overstay(i) == IF pc = "refresh" /\ i >= Index THEN 1 ELSE 0

OverstayFollowsLoop ==
  \A i \in DOMAIN KeyAges : KeyAges[i] + i < ForgotAge + AIK_TARGET_BUFFER_SIZE + Overstay(i)

TableTypeOK ==
  /\ Keys \in Seq(KeyCode) /\ Len(Keys) <= AIK_TARGET_BUFFER_SIZE
  /\ KeyAges \in Seq(Nat) /\ Len(KeyAges) = Len(Keys)
  /\ Modifiers \subseteq Modifier /\ ModifierAge \in 0 .. KeyForgotThreshold
  /\ submitted.Modifiers \subseteq Modifier /\ submitted.Keys \in Seq(KeyCode)
  /\ sinceSeen \in [KeyCode -> 0 .. KeyForgotThreshold]

LoopTypeOK ==
  /\ pc \in {"idle", "refresh", "grab"}
  /\ Index \in Nat \ {0}
  /\ pc = "refresh" => Index <= AIK_TARGET_BUFFER_SIZE + 1
  /\ pc = "grab" => Index <= AIK_KEY_POLL_LIMIT + 1
  /\ pc = "idle" => Index = 1

TargetInv ==
  /\ LoopTypeOK /\ TableTypeOK
  /\ NoDuplicateKeys /\ HeldKeyIsReported /\ OverstayFollowsLoop

LEMMA MaxOfTwo ==
  ASSUME NEW a \in Nat, NEW b \in Nat
  PROVE  Max({a, b}) \in {a, b} /\ Max({a, b}) >= a /\ Max({a, b}) >= b
<1>1. \E x \in {a, b} : \A y \in {a, b} : x >= y
  OBVIOUS
<1> QED
  BY <1>1 DEF Max

LEMMA ForgotAgeFacts ==
  ForgotAge \in Nat /\ ForgotAge >= KeyForgotThreshold /\ ForgotAge >= 1
BY MaxOfTwo, TargetAssumption DEF ForgotAge

LEMMA TargetInvImplies == TargetInv => HeldKeysRight
<1> SUFFICES ASSUME TargetInv PROVE HeldKeysRight
  OBVIOUS
<1>1. TargetTypeOK
  <2> DEFINE top == Max({AIK_TARGET_BUFFER_SIZE, AIK_KEY_POLL_LIMIT})
  <2>1. top \in Nat /\ top >= AIK_TARGET_BUFFER_SIZE /\ top >= AIK_KEY_POLL_LIMIT
    BY MaxOfTwo, TargetAssumption
  <2>2. Index \in 1 .. top + 1
    <3> HIDE DEF top
    <3> QED
      BY <2>1, TargetAssumption DEF TargetInv, LoopTypeOK
  <2> QED
    BY <2>2 DEF TargetInv, LoopTypeOK, TableTypeOK, TargetTypeOK
<1>2. OverstayBounded
  BY ForgotAgeFacts, TargetAssumption DEF TargetInv, OverstayFollowsLoop, Overstay, OverstayBounded
<1> QED
  BY <1>1, <1>2 DEF TargetInv, HeldKeysRight

LEMMA TargetInitInv == TargetInit => TargetInv
<1> SUFFICES ASSUME TargetInit PROVE TargetInv
  OBVIOUS
<1>1. LoopTypeOK /\ TableTypeOK
  BY TargetAssumption DEF TargetInit, LoopTypeOK, TableTypeOK
<1>2. NoDuplicateKeys
  BY DEF TargetInit, NoDuplicateKeys, IsInjective
<1>3. HeldKeyIsReported
  BY TargetAssumption DEF TargetInit, HeldKeyIsReported
<1>4. OverstayFollowsLoop
  BY DEF TargetInit, OverstayFollowsLoop
<1> QED
  BY <1>1, <1>2, <1>3, <1>4 DEF TargetInv

\* Everything grows a poll older at once, so what the table holds of a key still agrees with
\* when the key was seen.
LEMMA RefreshStartsInv == TargetInv /\ AIKTargetRefresh => TargetInv'
<1> SUFFICES ASSUME TargetInv, AIKTargetRefresh PROVE TargetInv'
  OBVIOUS
<1> USE TargetAssumption
<1>1. /\ KeyAges' \in Seq(Nat) /\ Len(KeyAges') = Len(KeyAges) /\ DOMAIN KeyAges' = DOMAIN KeyAges
      /\ \A i \in DOMAIN KeyAges : KeyAges[i] \in Nat /\ KeyAges'[i] = KeyAges[i] + 1
      /\ DOMAIN KeyAges = DOMAIN Keys
  <2>1. /\ DOMAIN KeyAges = 1 .. Len(KeyAges) /\ DOMAIN Keys = 1 .. Len(Keys)
        /\ Len(KeyAges) = Len(Keys) /\ Len(KeyAges) \in Nat
        /\ \A i \in DOMAIN KeyAges : KeyAges[i] \in Nat
    BY DEF TargetInv, TableTypeOK
  <2>2. KeyAges' = [i \in 1 .. Len(KeyAges) |-> KeyAges[i] + 1]
    BY <2>1 DEF AIKTargetRefresh
  <2> QED
    BY <2>1, <2>2
<1>2. \A k \in KeyCode : /\ sinceSeen[k] \in 0 .. KeyForgotThreshold
                         /\ sinceSeen'[k] = Older(sinceSeen[k])
  BY DEF TargetInv, TableTypeOK, AIKTargetRefresh
<1>3. LoopTypeOK' /\ TableTypeOK'
  <2>1. sinceSeen' \in [KeyCode -> 0 .. KeyForgotThreshold]
    BY <1>2 DEF AIKTargetRefresh, Older
  <2>2. ModifierAge' \in 0 .. KeyForgotThreshold
    BY DEF TargetInv, TableTypeOK, AIKTargetRefresh, Older
  <2> QED
    BY <1>1, <2>1, <2>2 DEF TargetInv, LoopTypeOK, TableTypeOK, AIKTargetRefresh
<1>4. NoDuplicateKeys'
  BY DEF TargetInv, AIKTargetRefresh, NoDuplicateKeys
<1>5. HeldKeyIsReported'
  <2> SUFFICES ASSUME NEW k \in KeyCode, sinceSeen'[k] < KeyForgotThreshold
               PROVE  \/ \E i \in DOMAIN Keys : Keys[i] = k /\ KeyAges'[i] = sinceSeen'[k]
                      \/ /\ Len(Keys) = AIK_TARGET_BUFFER_SIZE
                         /\ \A i \in DOMAIN Keys : KeyAges'[i] <= sinceSeen'[k]
    BY DEF AIKTargetRefresh, HeldKeyIsReported, NumberOfKeys
  <2>1. sinceSeen[k] < KeyForgotThreshold /\ sinceSeen'[k] = sinceSeen[k] + 1
    BY <1>2 DEF Older
  <2>2. CASE \E i \in DOMAIN Keys : Keys[i] = k /\ KeyAges[i] = sinceSeen[k]
    BY <1>1, <2>1, <2>2
  <2>3. CASE /\ NumberOfKeys = AIK_TARGET_BUFFER_SIZE
             /\ \A i \in DOMAIN Keys : KeyAges[i] <= sinceSeen[k]
    BY <1>1, <1>2, <2>1, <2>3 DEF NumberOfKeys
  <2> QED
    BY <2>1, <2>2, <2>3 DEF TargetInv, HeldKeyIsReported
<1>6. OverstayFollowsLoop'
  <2> SUFFICES ASSUME NEW i \in DOMAIN KeyAges
               PROVE  KeyAges'[i] + i < ForgotAge + AIK_TARGET_BUFFER_SIZE + 1
    <3>1. \A i \in DOMAIN KeyAges : Overstay(i)' = 1
      BY <1>1 DEF AIKTargetRefresh, Overstay, TargetInv, TableTypeOK
    <3> QED
      BY <1>1, <3>1 DEF OverstayFollowsLoop, ForgotAge
  <2>1. KeyAges[i] + i < ForgotAge + AIK_TARGET_BUFFER_SIZE
    BY ForgotAgeFacts DEF TargetInv, OverstayFollowsLoop, Overstay, AIKTargetRefresh
  <2>2. i \in Nat
    BY DEF TargetInv, TableTypeOK
  <2> QED
    BY <1>1, <2>1, <2>2, ForgotAgeFacts
<1> QED
  BY <1>3, <1>4, <1>5, <1>6 DEF TargetInv

LEMMA TableFacts ==
  ASSUME TableTypeOK
  PROVE  /\ DOMAIN KeyAges = 1 .. Len(KeyAges) /\ DOMAIN Keys = 1 .. Len(KeyAges)
         /\ Len(KeyAges) \in Nat /\ Len(Keys) = Len(KeyAges) /\ NumberOfKeys = Len(KeyAges)
         /\ Len(KeyAges) <= AIK_TARGET_BUFFER_SIZE
         /\ \A i \in DOMAIN KeyAges : KeyAges[i] \in Nat /\ Keys[i] \in KeyCode
BY DEF TableTypeOK, NumberOfKeys

\* The loop removes only what was not seen within the threshold, so no key is missed, and
\* every entry behind a removed one comes a place nearer to the front.
LEMMA RefreshKeyInv == TargetInv /\ RefreshKey => TargetInv'
<1> SUFFICES ASSUME TargetInv, RefreshKey PROVE TargetInv'
  OBVIOUS
<1> USE TargetAssumption
<1>1. /\ DOMAIN KeyAges = 1 .. Len(KeyAges) /\ DOMAIN Keys = 1 .. Len(KeyAges)
      /\ Len(KeyAges) \in Nat /\ Len(Keys) = Len(KeyAges) /\ NumberOfKeys = Len(KeyAges)
      /\ Len(KeyAges) <= AIK_TARGET_BUFFER_SIZE
      /\ \A i \in DOMAIN KeyAges : KeyAges[i] \in Nat /\ Keys[i] \in KeyCode
  BY TableFacts DEF TargetInv
<1>2. pc = "refresh" /\ pc' = "refresh" /\ Index \in 1 .. Len(KeyAges) /\ Index' = Index + 1
  BY <1>1 DEF TargetInv, LoopTypeOK, RefreshKey
<1>3. LoopTypeOK'
  BY <1>1, <1>2 DEF LoopTypeOK
<1>4. CASE KeyAges[Index] < KeyForgotThreshold
  <2>1. UNCHANGED <<Keys, KeyAges, Modifiers, ModifierAge, submitted, sinceSeen>>
    BY <1>1, <1>2, <1>4 DEF RefreshKey, table
  <2>2. TableTypeOK' /\ NoDuplicateKeys' /\ HeldKeyIsReported'
    BY <2>1 DEF TargetInv, TableTypeOK, NoDuplicateKeys, HeldKeyIsReported, NumberOfKeys
  <2>3. OverstayFollowsLoop'
    <3> SUFFICES ASSUME NEW i \in DOMAIN KeyAges
                 PROVE  KeyAges[i] + i < ForgotAge + AIK_TARGET_BUFFER_SIZE + Overstay(i)'
      BY <2>1 DEF OverstayFollowsLoop, ForgotAge
    <3>1. CASE i = Index
      BY <1>1, <1>2, <1>4, <3>1, ForgotAgeFacts DEF Overstay
    <3>2. CASE i # Index
      BY <1>1, <1>2, <3>2, ForgotAgeFacts DEF Overstay, TargetInv, OverstayFollowsLoop
    <3> QED
      BY <3>1, <3>2
  <2> QED
    BY <1>3, <2>2, <2>3 DEF TargetInv
<1>5. CASE KeyAges[Index] >= KeyForgotThreshold
  <2>1. /\ Keys' = RemoveAt(Keys, Index) /\ KeyAges' = RemoveAt(KeyAges, Index)
        /\ UNCHANGED <<Modifiers, ModifierAge, submitted, sinceSeen>>
    BY <1>5 DEF RefreshKey
  <2>2. /\ Keys' \in Seq(KeyCode) /\ KeyAges' \in Seq(Nat)
        /\ Len(Keys') = Len(KeyAges) - 1 /\ Len(KeyAges') = Len(KeyAges) - 1
        /\ \A j \in 1 .. (Len(KeyAges) - 1) :
             /\ Keys'[j] = IF j < Index THEN Keys[j] ELSE Keys[j + 1]
             /\ KeyAges'[j] = IF j < Index THEN KeyAges[j] ELSE KeyAges[j + 1]
    <3>1. Keys \in Seq(KeyCode) /\ KeyAges \in Seq(Nat) /\ Index \in 1 .. Len(Keys)
      BY <1>1, <1>2 DEF TargetInv, TableTypeOK
    <3>2. /\ RemoveAt(Keys, Index) \in Seq(KeyCode)
          /\ Len(RemoveAt(Keys, Index)) = Len(Keys) - 1
          /\ \A j \in 1 .. (Len(Keys) - 1) :
               RemoveAt(Keys, Index)[j] = IF j < Index THEN Keys[j] ELSE Keys[j + 1]
      BY <3>1, RemoveAtFacts
    <3>3. /\ RemoveAt(KeyAges, Index) \in Seq(Nat)
          /\ Len(RemoveAt(KeyAges, Index)) = Len(KeyAges) - 1
          /\ \A j \in 1 .. (Len(KeyAges) - 1) :
               RemoveAt(KeyAges, Index)[j] = IF j < Index THEN KeyAges[j] ELSE KeyAges[j + 1]
      BY <3>1, <1>2, RemoveAtFacts
    <3> QED
      BY <1>1, <2>1, <3>2, <3>3
  <2>3. DOMAIN Keys' = 1 .. (Len(KeyAges) - 1) /\ DOMAIN KeyAges' = 1 .. (Len(KeyAges) - 1)
    BY <2>2
  <2>4. TableTypeOK'
    BY <1>1, <2>1, <2>2 DEF TargetInv, TableTypeOK
  <2>5. NoDuplicateKeys'
    <3>1. IsInjective(Keys')
      BY <1>1, <1>2, <2>1, RemoveAtInjective DEF TargetInv, TableTypeOK, NoDuplicateKeys
    <3> QED
      BY <2>1, <3>1 DEF TargetInv, NoDuplicateKeys
  <2>6. HeldKeyIsReported'
    <3> SUFFICES ASSUME NEW k \in KeyCode, sinceSeen[k] < KeyForgotThreshold
                 PROVE  \E j \in DOMAIN Keys' : Keys'[j] = k /\ KeyAges'[j] = sinceSeen[k]
      BY <2>1 DEF HeldKeyIsReported
    <3>1. sinceSeen[k] \in Nat
      BY DEF TargetInv, TableTypeOK
    <3>2. ~(\A i \in DOMAIN Keys : KeyAges[i] <= sinceSeen[k])
      BY <1>1, <1>2, <1>5, <3>1
    <3>3. PICK i \in DOMAIN Keys : Keys[i] = k /\ KeyAges[i] = sinceSeen[k]
      BY <3>2 DEF TargetInv, HeldKeyIsReported
    <3>4. i # Index
      BY <1>5, <3>1, <3>3
    <3>5. CASE i < Index
      <4>1. i \in 1 .. (Len(KeyAges) - 1)
        BY <1>1, <1>2, <3>5
      <4>2. Keys'[i] = Keys[i] /\ KeyAges'[i] = KeyAges[i]
        BY <2>2, <3>5, <4>1
      <4> QED
        BY <2>3, <3>3, <4>1, <4>2
    <3>6. CASE i > Index
      <4>1. /\ i - 1 \in 1 .. (Len(KeyAges) - 1) /\ (i - 1) + 1 = i /\ ~(i - 1 < Index)
            /\ Keys'[i - 1] = Keys[(i - 1) + 1] /\ KeyAges'[i - 1] = KeyAges[(i - 1) + 1]
        BY <1>1, <1>2, <2>2, <3>6
      <4> QED
        BY <2>3, <3>3, <4>1
    <3> QED
      BY <1>1, <1>2, <3>4, <3>5, <3>6
  <2>7. OverstayFollowsLoop'
    <3> SUFFICES ASSUME NEW j \in 1 .. (Len(KeyAges) - 1)
                 PROVE  KeyAges'[j] + j < ForgotAge + AIK_TARGET_BUFFER_SIZE + Overstay(j)'
      BY <2>3 DEF OverstayFollowsLoop, ForgotAge
    <3>1. CASE j < Index
      <4>1. KeyAges'[j] = KeyAges[j] /\ Overstay(j) = 0 /\ Overstay(j)' = 0
        BY <1>2, <2>2, <3>1 DEF Overstay
      <4>2. KeyAges[j] + j < ForgotAge + AIK_TARGET_BUFFER_SIZE + Overstay(j)
        BY <1>1 DEF TargetInv, OverstayFollowsLoop
      <4> QED
        BY <4>1, <4>2
    <3>2. CASE j >= Index
      <4>1. /\ KeyAges'[j] = KeyAges[j + 1] /\ Overstay(j + 1) = 1
            /\ Overstay(j)' \in {0, 1} /\ KeyAges[j + 1] \in Nat
        BY <1>1, <1>2, <2>2, <3>2 DEF Overstay
      <4>2. KeyAges[j + 1] + (j + 1) < ForgotAge + AIK_TARGET_BUFFER_SIZE + Overstay(j + 1)
        BY <1>1 DEF TargetInv, OverstayFollowsLoop
      <4> QED
        BY <4>1, <4>2, ForgotAgeFacts
    <3> QED
      BY <1>2, <3>1, <3>2
  <2> QED
    BY <1>3, <2>4, <2>5, <2>6, <2>7 DEF TargetInv
<1> QED
  BY <1>1, <1>2, <1>4, <1>5

\* When the loop is over it has examined every entry.
LEMMA RefreshEndsInv == TargetInv /\ RefreshModifiers => TargetInv'
<1> SUFFICES ASSUME TargetInv, RefreshModifiers PROVE TargetInv'
  OBVIOUS
<1>1. LoopTypeOK'
  BY TargetAssumption DEF RefreshModifiers, LoopTypeOK
<1>2. TableTypeOK' /\ NoDuplicateKeys' /\ HeldKeyIsReported'
  BY DEF TargetInv, RefreshModifiers, TableTypeOK, NoDuplicateKeys, HeldKeyIsReported, NumberOfKeys
<1>3. OverstayFollowsLoop'
  <2> SUFFICES ASSUME NEW i \in DOMAIN KeyAges
               PROVE  KeyAges[i] + i < ForgotAge + AIK_TARGET_BUFFER_SIZE + Overstay(i)'
    BY DEF RefreshModifiers, OverstayFollowsLoop, ForgotAge
  <2>1. i < Index
    BY TableFacts DEF TargetInv, RefreshModifiers, LoopTypeOK
  <2>2. Overstay(i) = 0 /\ Overstay(i)' = 0
    BY <2>1, TableFacts DEF TargetInv, LoopTypeOK, RefreshModifiers, Overstay
  <2> QED
    BY <2>2 DEF TargetInv, OverstayFollowsLoop
<1> QED
  BY <1>1, <1>2, <1>3 DEF TargetInv

LEMMA SubmitInv == TargetInv /\ AIKTargetSubmit => TargetInv'
<1> SUFFICES ASSUME TargetInv, AIKTargetSubmit PROVE TargetInv'
  OBVIOUS
<1>1. LoopTypeOK' /\ TableTypeOK'
  BY DEF TargetInv, AIKTargetSubmit, LoopTypeOK, TableTypeOK
<1>2. NoDuplicateKeys' /\ HeldKeyIsReported'
  BY DEF TargetInv, AIKTargetSubmit, NoDuplicateKeys, HeldKeyIsReported, NumberOfKeys
<1>3. OverstayFollowsLoop'
  BY DEF TargetInv, AIKTargetSubmit, OverstayFollowsLoop, Overstay, ForgotAge
<1> QED
  BY <1>1, <1>2, <1>3 DEF TargetInv

\* The entry that a new key takes in a full table is as old as any.
LEMMA OldestFacts ==
  ASSUME TargetInv, KeyAges # << >>
  PROVE  /\ Oldest \in DOMAIN KeyAges
         /\ \A j \in DOMAIN KeyAges : KeyAges[j] <= KeyAges[Oldest]
<1> DEFINE bound == ForgotAge + AIK_TARGET_BUFFER_SIZE + 1
<1>1. bound \in Nat /\ KeyAges \in Seq(Nat)
  BY ForgotAgeFacts, TargetAssumption DEF TargetInv, TableTypeOK
<1>2. \A i \in DOMAIN KeyAges : KeyAges[i] <= bound
  <2> SUFFICES ASSUME NEW i \in DOMAIN KeyAges PROVE KeyAges[i] <= bound
    OBVIOUS
  <2>1. KeyAges[i] \in Nat /\ i \in Nat
    BY TableFacts DEF TargetInv
  <2>2. KeyAges[i] + i < ForgotAge + AIK_TARGET_BUFFER_SIZE + Overstay(i) /\ Overstay(i) \in {0, 1}
    BY DEF TargetInv, OverstayFollowsLoop, Overstay
  <2> QED
    BY <2>1, <2>2, ForgotAgeFacts, TargetAssumption
<1> HIDE DEF bound
<1>3. \E i \in DOMAIN KeyAges : \A j \in DOMAIN KeyAges : /\ KeyAges[j] <= KeyAges[i]
                                                          /\ j < i => KeyAges[j] < KeyAges[i]
  BY <1>1, <1>2, FirstGreatest
<1> QED
  BY <1>3 DEF Oldest

\* A key that is reported is in the table with nothing older left over it; the entry it
\* may have to take over is among the oldest of a full table, so every other key is still
\* there or has only later ones in its place.
LEMMA GrabInv ==
  ASSUME TargetInv, NEW d \in EfiKeyData, GrabEfiKey(d)
  PROVE  TargetInv'
<1> USE TargetAssumption
<1>1. /\ DOMAIN KeyAges = 1 .. Len(KeyAges) /\ DOMAIN Keys = 1 .. Len(KeyAges)
      /\ Len(KeyAges) \in Nat /\ Len(Keys) = Len(KeyAges) /\ NumberOfKeys = Len(KeyAges)
      /\ Len(KeyAges) <= AIK_TARGET_BUFFER_SIZE
      /\ \A i \in DOMAIN KeyAges : KeyAges[i] \in Nat /\ Keys[i] \in KeyCode
      /\ Keys \in Seq(KeyCode) /\ KeyAges \in Seq(Nat)
  BY TableFacts DEF TargetInv, TableTypeOK
<1>2. /\ pc = "grab" /\ pc' = "grab" /\ UNCHANGED submitted
      /\ \A i : Overstay(i) = 0 /\ Overstay(i)' = 0
  BY DEF GrabEfiKey, Overstay
<1>3. LoopTypeOK'
  BY <1>2 DEF TargetInv, LoopTypeOK, GrabEfiKey
<1>4. /\ Modifiers' \subseteq Modifier /\ ModifierAge' \in 0 .. KeyForgotThreshold
      /\ sinceSeen' \in [KeyCode -> 0 .. KeyForgotThreshold]
      /\ \A k \in KeyCode : /\ sinceSeen[k] \in Nat
                            /\ sinceSeen'[k] = IF k = d.Key THEN 0 ELSE sinceSeen[k]
  BY DEF TargetInv, TableTypeOK, GrabEfiKey, AIKTargetWriteEntry, EfiKeyData
\* What remains to be shown of the new table.
<1> DEFINE Right ==
      /\ Keys' \in Seq(KeyCode) /\ Len(Keys') <= AIK_TARGET_BUFFER_SIZE
      /\ KeyAges' \in Seq(Nat) /\ Len(KeyAges') = Len(Keys')
      /\ IsInjective(Keys') /\ HeldKeyIsReported'
      /\ \A i \in DOMAIN KeyAges' : KeyAges'[i] + i < ForgotAge + AIK_TARGET_BUFFER_SIZE
<1>5. ASSUME Right PROVE TargetInv'
  <2>1. TableTypeOK'
    BY <1>2, <1>4, <1>5 DEF TargetInv, TableTypeOK
  <2>2. NoDuplicateKeys'
    BY <1>2, <1>5 DEF TargetInv, NoDuplicateKeys
  <2>3. OverstayFollowsLoop'
    <3> SUFFICES ASSUME NEW i \in DOMAIN KeyAges'
                 PROVE  KeyAges'[i] + i < ForgotAge + AIK_TARGET_BUFFER_SIZE + 0
      BY <1>2 DEF OverstayFollowsLoop, ForgotAge
    <3>1. i \in Nat /\ KeyAges'[i] \in Nat
      BY <1>5
    <3> QED
      BY <1>5, <3>1, ForgotAgeFacts
  <2> QED
    BY <1>3, <1>5, <2>1, <2>2, <2>3 DEF TargetInv
<1>6. \A i \in DOMAIN KeyAges : KeyAges[i] + i < ForgotAge + AIK_TARGET_BUFFER_SIZE
  BY <1>1, <1>2, ForgotAgeFacts DEF TargetInv, OverstayFollowsLoop
\* A key seen within the threshold is in the table, or has been left out of a full one.
<1>7. ASSUME NEW k \in KeyCode, sinceSeen[k] < KeyForgotThreshold
      PROVE  \/ \E i \in DOMAIN Keys : Keys[i] = k /\ KeyAges[i] = sinceSeen[k]
             \/ /\ Len(Keys) = AIK_TARGET_BUFFER_SIZE
                /\ \A i \in DOMAIN Keys : KeyAges[i] <= sinceSeen[k]
  BY <1>7 DEF TargetInv, HeldKeyIsReported, NumberOfKeys
<1>8. CASE d.Key = UsbHidUndefined /\ UNCHANGED table
  <2>1. UNCHANGED <<Keys, KeyAges>> /\ d.Key \notin KeyCode
    BY <1>8 DEF table
  <2>2. UNCHANGED sinceSeen
    BY <2>1 DEF GrabEfiKey
  <2>3. HeldKeyIsReported'
    BY <2>1, <2>2 DEF TargetInv, HeldKeyIsReported, NumberOfKeys
  <2> QED
    BY <1>1, <1>5, <1>6, <2>1, <2>3 DEF TargetInv, NoDuplicateKeys
\* The new table seen from any key but the reported one: its own entry is kept, or nothing
\* in the full table is older than it.
<1> DEFINE Stays(k) ==
      \/ \E i \in DOMAIN Keys' : Keys'[i] = k /\ KeyAges'[i] = sinceSeen[k]
      \/ /\ Len(Keys') = AIK_TARGET_BUFFER_SIZE
         /\ \A i \in DOMAIN Keys' : KeyAges'[i] <= sinceSeen[k]
<1>9. ASSUME \E i \in DOMAIN Keys' : Keys'[i] = d.Key /\ KeyAges'[i] = 0,
             \A k \in KeyCode \ {d.Key} : sinceSeen[k] < KeyForgotThreshold => Stays(k)
      PROVE  HeldKeyIsReported'
  <2> SUFFICES ASSUME NEW k \in KeyCode, sinceSeen'[k] < KeyForgotThreshold
               PROVE  \/ \E i \in DOMAIN Keys' : Keys'[i] = k /\ KeyAges'[i] = sinceSeen'[k]
                      \/ /\ Len(Keys') = AIK_TARGET_BUFFER_SIZE
                         /\ \A i \in DOMAIN Keys' : KeyAges'[i] <= sinceSeen'[k]
    BY DEF HeldKeyIsReported, NumberOfKeys
  <2>1. CASE k = d.Key
    BY <1>4, <1>9, <2>1
  <2>2. CASE k # d.Key
    <3>1. sinceSeen'[k] = sinceSeen[k]
      BY <1>4, <2>2
    <3> QED
      BY <1>9, <2>2, <3>1
  <2> QED
    BY <2>1, <2>2
<1>10. CASE /\ d.Key \in KeyCode /\ UNCHANGED Keys
            /\ \E i \in DOMAIN Keys : Keys[i] = d.Key /\ KeyAges' = [KeyAges EXCEPT ![i] = 0]
  <2>1. PICK n \in DOMAIN Keys : Keys[n] = d.Key /\ KeyAges' = [KeyAges EXCEPT ![n] = 0]
    BY <1>10
  <2>2. /\ KeyAges' \in Seq(Nat) /\ Len(KeyAges') = Len(KeyAges) /\ DOMAIN KeyAges' = DOMAIN KeyAges
        /\ KeyAges'[n] = 0 /\ \A i \in DOMAIN KeyAges : i # n => KeyAges'[i] = KeyAges[i]
    BY <1>1, <2>1
  <2>3. \A i \in DOMAIN KeyAges' : KeyAges'[i] + i < ForgotAge + AIK_TARGET_BUFFER_SIZE
    <3> SUFFICES ASSUME NEW i \in DOMAIN KeyAges
                 PROVE  KeyAges'[i] + i < ForgotAge + AIK_TARGET_BUFFER_SIZE
      BY <2>2
    <3>1. i <= AIK_TARGET_BUFFER_SIZE /\ i \in Nat
      BY <1>1
    <3>2. CASE i = n
      BY <2>2, <3>1, <3>2, ForgotAgeFacts
    <3>3. CASE i # n
      BY <1>6, <2>2, <3>3
    <3> QED
      BY <3>2, <3>3
  <2>4. ASSUME NEW k \in KeyCode \ {d.Key}, sinceSeen[k] < KeyForgotThreshold PROVE Stays(k)
    <3>1. CASE \E i \in DOMAIN Keys : Keys[i] = k /\ KeyAges[i] = sinceSeen[k]
      BY <1>1, <1>10, <2>1, <2>2, <3>1
    <3>2. CASE /\ Len(Keys) = AIK_TARGET_BUFFER_SIZE
               /\ \A i \in DOMAIN Keys : KeyAges[i] <= sinceSeen[k]
      <4>1. Len(Keys') = AIK_TARGET_BUFFER_SIZE
        BY <1>10, <3>2
      <4>2. ASSUME NEW i \in DOMAIN Keys' PROVE KeyAges'[i] <= sinceSeen[k]
        <5>1. sinceSeen[k] \in Nat
          BY <1>4
        <5>2. i \in DOMAIN Keys /\ i \in DOMAIN KeyAges
          BY <1>1, <1>10
        <5>3. CASE i = n
          BY <2>2, <5>1, <5>3
        <5>4. CASE i # n
          BY <2>2, <3>2, <5>2, <5>4
        <5> QED
          BY <5>3, <5>4
      <4> QED
        BY <4>1, <4>2
    <3> QED
      BY <1>7, <2>4, <3>1, <3>2
  <2>5. HeldKeyIsReported'
    <3>1. \E i \in DOMAIN Keys' : Keys'[i] = d.Key /\ KeyAges'[i] = 0
      BY <1>10, <2>1, <2>2
    <3> HIDE DEF Stays
    <3> QED
      BY <1>9, <2>4, <3>1
  <2> QED
    BY <1>1, <1>5, <1>10, <2>2, <2>3, <2>5 DEF TargetInv, NoDuplicateKeys
<1>11. CASE /\ d.Key \in KeyCode /\ \A i \in DOMAIN Keys : Keys[i] # d.Key
            /\ NumberOfKeys = AIK_TARGET_BUFFER_SIZE /\ InsertKey(d.Key)
  <2>1. KeyAges # << >>
    BY <1>1, <1>11
  <2>2. /\ Oldest \in DOMAIN KeyAges
        /\ \A j \in DOMAIN KeyAges : KeyAges[j] <= KeyAges[Oldest]
    BY <2>1, OldestFacts
  <2>3. PICK n \in DOMAIN KeyAges : n = Oldest
    BY <2>2
  <2>4. Keys' = [Keys EXCEPT ![n] = d.Key] /\ KeyAges' = [KeyAges EXCEPT ![n] = 0]
    BY <1>11, <2>3 DEF InsertKey
  <2>5. /\ KeyAges' \in Seq(Nat) /\ Len(KeyAges') = Len(KeyAges) /\ DOMAIN KeyAges' = DOMAIN KeyAges
        /\ KeyAges'[n] = 0 /\ \A i \in DOMAIN KeyAges : i # n => KeyAges'[i] = KeyAges[i]
        /\ Keys' \in Seq(KeyCode) /\ Len(Keys') = Len(Keys) /\ DOMAIN Keys' = DOMAIN Keys
        /\ Keys'[n] = d.Key /\ \A i \in DOMAIN Keys : i # n => Keys'[i] = Keys[i]
    BY <1>1, <1>11, <2>4
  <2>6. IsInjective(Keys')
    BY <1>1, <1>11, <2>4, ExceptNewInjective DEF TargetInv, NoDuplicateKeys
  <2>7. \A i \in DOMAIN KeyAges' : KeyAges'[i] + i < ForgotAge + AIK_TARGET_BUFFER_SIZE
    <3> SUFFICES ASSUME NEW i \in DOMAIN KeyAges
                 PROVE  KeyAges'[i] + i < ForgotAge + AIK_TARGET_BUFFER_SIZE
      BY <2>5
    <3>1. i <= AIK_TARGET_BUFFER_SIZE /\ i \in Nat
      BY <1>1
    <3>2. CASE i = n
      BY <2>5, <3>1, <3>2, ForgotAgeFacts
    <3>3. CASE i # n
      BY <1>6, <2>5, <3>3
    <3> QED
      BY <3>2, <3>3
  <2>8. ASSUME NEW k \in KeyCode \ {d.Key}, sinceSeen[k] < KeyForgotThreshold PROVE Stays(k)
    <3>1. CASE \E i \in DOMAIN Keys : i # n /\ Keys[i] = k /\ KeyAges[i] = sinceSeen[k]
      <4>1. PICK i \in DOMAIN Keys : i # n /\ Keys[i] = k /\ KeyAges[i] = sinceSeen[k]
        BY <3>1
      <4>2. i \in DOMAIN Keys' /\ i \in DOMAIN KeyAges
        BY <1>1, <2>5
      <4>3. Keys'[i] = k /\ KeyAges'[i] = sinceSeen[k]
        BY <2>5, <4>1, <4>2
      <4> QED
        BY <4>2, <4>3
    <3>2. CASE \A i \in DOMAIN Keys : KeyAges[i] <= sinceSeen[k]
      <4>1. Len(Keys') = AIK_TARGET_BUFFER_SIZE
        BY <1>1, <1>11, <2>5
      <4>2. ASSUME NEW i \in DOMAIN Keys' PROVE KeyAges'[i] <= sinceSeen[k]
        <5>1. sinceSeen[k] \in Nat
          BY <1>4
        <5>2. i \in DOMAIN Keys /\ i \in DOMAIN KeyAges
          BY <1>1, <2>5
        <5>3. CASE i = n
          BY <2>5, <5>1, <5>3
        <5>4. CASE i # n
          BY <2>5, <3>2, <5>2, <5>4
        <5> QED
          BY <5>3, <5>4
      <4> QED
        BY <4>1, <4>2
    <3>3. CASE Keys[n] = k /\ KeyAges[n] = sinceSeen[k]
      BY <1>1, <2>2, <2>3, <3>2, <3>3
    <3> QED
      BY <1>7, <2>8, <3>1, <3>2, <3>3
  <2>9. HeldKeyIsReported'
    <3>1. \E i \in DOMAIN Keys' : Keys'[i] = d.Key /\ KeyAges'[i] = 0
      BY <1>1, <2>5
    <3> HIDE DEF Stays
    <3> QED
      BY <1>9, <2>8, <3>1
  <2> QED
    BY <1>1, <1>5, <2>5, <2>6, <2>7, <2>9
<1>12. CASE /\ d.Key \in KeyCode /\ \A i \in DOMAIN Keys : Keys[i] # d.Key
            /\ NumberOfKeys # AIK_TARGET_BUFFER_SIZE /\ InsertKey(d.Key)
  <2>1. Keys' = Append(Keys, d.Key) /\ KeyAges' = Append(KeyAges, 0)
    BY <1>12 DEF InsertKey
  <2>2. /\ Keys' \in Seq(KeyCode) /\ Len(Keys') = Len(KeyAges) + 1
        /\ KeyAges' \in Seq(Nat) /\ Len(KeyAges') = Len(KeyAges) + 1
        /\ DOMAIN Keys' = 1 .. (Len(KeyAges) + 1) /\ DOMAIN KeyAges' = 1 .. (Len(KeyAges) + 1)
        /\ Keys'[Len(KeyAges) + 1] = d.Key /\ KeyAges'[Len(KeyAges) + 1] = 0
        /\ \A i \in 1 .. Len(KeyAges) : Keys'[i] = Keys[i] /\ KeyAges'[i] = KeyAges[i]
    <3>1. /\ Append(Keys, d.Key) \in Seq(KeyCode) /\ Len(Append(Keys, d.Key)) = Len(Keys) + 1
          /\ DOMAIN Append(Keys, d.Key) = 1 .. (Len(Keys) + 1)
          /\ \A i \in 1 .. Len(Keys) : Append(Keys, d.Key)[i] = Keys[i]
          /\ Append(Keys, d.Key)[Len(Keys) + 1] = d.Key
      <4>1. Keys \in Seq(KeyCode) /\ d.Key \in KeyCode
        BY <1>1, <1>12
      <4> QED
        BY <4>1, AppendFacts, Zenon
    <3>2. /\ Append(KeyAges, 0) \in Seq(Nat) /\ Len(Append(KeyAges, 0)) = Len(KeyAges) + 1
          /\ DOMAIN Append(KeyAges, 0) = 1 .. (Len(KeyAges) + 1)
          /\ \A i \in 1 .. Len(KeyAges) : Append(KeyAges, 0)[i] = KeyAges[i]
          /\ Append(KeyAges, 0)[Len(KeyAges) + 1] = 0
      BY <1>1, AppendFacts
    <3> QED
      BY <1>1, <2>1, <3>1, <3>2
  <2>3. IsInjective(Keys')
    BY <1>1, <1>12, <2>1, AppendNewInjective DEF TargetInv, NoDuplicateKeys
  <2>4. Len(Keys') <= AIK_TARGET_BUFFER_SIZE
    <3>1. Len(KeyAges) < AIK_TARGET_BUFFER_SIZE
      BY <1>1, <1>12
    <3> QED
      BY <1>1, <2>2, <3>1
  <2>5. ASSUME NEW i \in DOMAIN KeyAges'
        PROVE  KeyAges'[i] + i < ForgotAge + AIK_TARGET_BUFFER_SIZE
    <3>1. CASE i = Len(KeyAges) + 1
      <4>1. KeyAges'[i] = 0 /\ i <= AIK_TARGET_BUFFER_SIZE /\ i \in Nat
        BY <1>1, <2>2, <2>4, <3>1
      <4> QED
        BY <4>1, ForgotAgeFacts
    <3>2. CASE i # Len(KeyAges) + 1
      <4>1. i \in DOMAIN KeyAges /\ KeyAges'[i] = KeyAges[i]
        BY <1>1, <2>2, <3>2
      <4> QED
        BY <1>6, <4>1
    <3> QED
      BY <3>1, <3>2
  <2>6. ASSUME NEW k \in KeyCode \ {d.Key}, sinceSeen[k] < KeyForgotThreshold PROVE Stays(k)
    <3>1. PICK i \in DOMAIN Keys : Keys[i] = k /\ KeyAges[i] = sinceSeen[k]
      BY <1>1, <1>7, <1>12, <2>6
    <3>2. i \in DOMAIN Keys' /\ Keys'[i] = k /\ KeyAges'[i] = sinceSeen[k]
      BY <1>1, <2>2, <3>1
    <3> QED
      BY <3>2
  <2>7. HeldKeyIsReported'
    <3>1. \E i \in DOMAIN Keys' : Keys'[i] = d.Key /\ KeyAges'[i] = 0
      BY <1>1, <2>2
    <3> HIDE DEF Stays
    <3> QED
      BY <1>9, <2>6, <3>1
  <2> QED
    BY <1>5, <2>2, <2>3, <2>4, <2>5, <2>7
<1> QED
  BY <1>8, <1>10, <1>11, <1>12 DEF GrabEfiKey, AIKTargetWriteEntry

LEMMA TargetNextInv == TargetInv /\ [TargetNext]_targetVars => TargetInv'
<1> SUFFICES ASSUME TargetInv, [TargetNext]_targetVars PROVE TargetInv'
  OBVIOUS
<1>1. CASE UNCHANGED targetVars
  BY <1>1 DEF targetVars, TargetInv, LoopTypeOK, TableTypeOK, NoDuplicateKeys, HeldKeyIsReported,
              NumberOfKeys, OverstayFollowsLoop, Overstay, ForgotAge
<1> QED
  BY <1>1, RefreshStartsInv, RefreshKeyInv, RefreshEndsInv, GrabInv, SubmitInv DEF TargetNext

\* However keys are repeated, evicted and forgotten, the table of held keys names no key
\* twice, has every key that was reported within the threshold unless it is full of later
\* ones, and keeps a released one only for a bounded number of polls too long
\* (AIKTarget.c:84-172).
THEOREM HeldKeysKept == TargetSpec => []HeldKeysRight
BY TargetInitInv, TargetNextInv, TargetInvImplies, PTL DEF TargetSpec

----------------------------------------------------------------------------
(* The key sets of the key map. *)

SetInfo == [Index : Nat, Length : Lengths, Modifiers : SUBSET MapModifier,
            KeyCodes : Seq(MapKeyCode)]

\* A set has an index of its own, and no more keys than it has room for.
SetsRight ==
  /\ KeyStrokesInfoList \in Seq(SetInfo) /\ NextKeyStrokeIndex \in 0 .. MaxCreates
  /\ \A p \in DOMAIN KeyStrokesInfoList :
       /\ KeyStrokesInfoList[p].Index < NextKeyStrokeIndex
       /\ Len(KeyStrokesInfoList[p].KeyCodes) <= KeyStrokesInfoList[p].Length
  /\ \A p, q \in DOMAIN KeyStrokesInfoList :
       KeyStrokesInfoList[p].Index = KeyStrokesInfoList[q].Index => p = q

Walks == [pc : {"walk"}, Entry : Nat \ {0}, Index : Nat \ {0}, Found : Nat,
          DbModifiers : SUBSET MapModifier]

\* What the recorded length and the scratch buffer have room for.
ScratchRight ==
  /\ KeyCodeBuffer \in Seq(MapKeyCode \cup {NoCode}) /\ alive \in BOOLEAN
  /\ ~alive => KeyCodeBuffer = << >>
  /\ KeyCodeBufferLength \in Nat /\ TotalLength <= KeyCodeBufferLength
  /\ call.pc = "create" => TotalLength + call.len <= KeyCodeBufferLength
  /\ alive => TotalLength <= Len(KeyCodeBuffer)

\* The room a walk has come past.
Walked ==
  {r \in Room : \E p \in DOMAIN KeyStrokesInfoList :
     /\ r[1] = KeyStrokesInfoList[p].Index
     /\ p < call.Entry \/ (p = call.Entry /\ r[2] < call.Index)}

\* A walk has found no more than it has come past, though sets change under it, and all of
\* that was pressed.
WalkRight ==
  /\ call.Found <= Cardinality(Walked)
  /\ Pressed \subseteq everPressed
  /\ ~alive => call.Found = 0
  /\ \A i \in 1 .. call.Found : i \in DOMAIN KeyCodeBuffer /\ KeyCodeBuffer[i] \in everPressed

MapInv ==
  /\ SetsRight /\ ScratchRight
  /\ call \in {Idle} \cup [pc : {"create"}, len : Lengths] \cup Walks
  /\ call.pc = "create" => NextKeyStrokeIndex < MaxCreates
  /\ wild \in {"no", "dead"}
  /\ wild = "no" /\ call.pc = "walk" => WalkRight
  /\ ReportedKeysWerePressed /\ NotFoundIsRight

\* What is known of each set in the list.
LEMMA SetFacts ==
  ASSUME SetsRight
  PROVE  /\ Len(KeyStrokesInfoList) \in Nat
         /\ DOMAIN KeyStrokesInfoList = 1 .. Len(KeyStrokesInfoList)
         /\ \A p \in DOMAIN KeyStrokesInfoList :
              /\ KeyStrokesInfoList[p] \in SetInfo
              /\ KeyStrokesInfoList[p].Index \in Nat
              /\ KeyStrokesInfoList[p].Length \in Lengths /\ KeyStrokesInfoList[p].Length \in Nat
              /\ KeyStrokesInfoList[p].Modifiers \subseteq MapModifier
              /\ KeyStrokesInfoList[p].KeyCodes \in Seq(MapKeyCode)
              /\ Len(KeyStrokesInfoList[p].KeyCodes) \in Nat
              /\ DOMAIN KeyStrokesInfoList[p].KeyCodes = 1 .. Len(KeyStrokesInfoList[p].KeyCodes)
<1> DEFINE list == KeyStrokesInfoList
<1>1. list \in Seq(SetInfo)
  BY DEF SetsRight
<1> HIDE DEF list
<1>2. Len(list) \in Nat /\ DOMAIN list = 1 .. Len(list)
  BY <1>1, LenProperties
<1>3. \A p \in DOMAIN list : list[p] \in SetInfo
  BY <1>1, <1>2, ElementOfSeq
<1>4. ASSUME NEW info \in SetInfo
      PROVE  /\ info.Index \in Nat /\ info.Length \in Lengths /\ info.Length \in Nat
             /\ info.Modifiers \subseteq MapModifier /\ info.KeyCodes \in Seq(MapKeyCode)
             /\ Len(info.KeyCodes) \in Nat /\ DOMAIN info.KeyCodes = 1 .. Len(info.KeyCodes)
  <2>1. /\ info.Index \in Nat /\ info.Length \in Lengths
        /\ info.Modifiers \subseteq MapModifier /\ info.KeyCodes \in Seq(MapKeyCode)
    BY DEF SetInfo
  <2> QED
    BY <2>1, LenProperties, KeyMapAssumption
<1> QED
  BY <1>2, <1>3, <1>4 DEF list

\* The room that a list of sets has.
RoomOf(list) == UNION {{info.Index} \X (1 .. info.Length) : info \in Range(list)}

LEMMA RoomMembers ==
  ASSUME NEW list
  PROVE  \A r : r \in RoomOf(list) <=>
           \E p \in DOMAIN list : \E j \in 1 .. list[p].Length : r = <<list[p].Index, j>>
<1>1. \A r : r \in RoomOf(list) <=>
        \E info \in Range(list) : r \in {info.Index} \X (1 .. info.Length)
  BY DEF RoomOf
<1>2. \A info : info \in Range(list) <=> \E p \in DOMAIN list : info = list[p]
  BY DEF Range
<1> QED
  BY <1>1, <1>2

\* One more set adds its length to the room.
LEMMA RoomForOneMore ==
  ASSUME NEW S, IsFiniteSet(S), NEW i, NEW n \in Nat, \A j \in 1 .. n : <<i, j>> \notin S
  PROVE  /\ IsFiniteSet(S \cup ({i} \X (1 .. n)))
         /\ Cardinality(S \cup ({i} \X (1 .. n))) = Cardinality(S) + n
<1> DEFINE T == {i} \X (1 .. n)
<1>1. IsFiniteSet(1 .. n) /\ Cardinality(1 .. n) = n
  <2>1. 1 \in Int /\ n \in Int
    OBVIOUS
  <2>2. IsFiniteSet(1 .. n) /\ Cardinality(1 .. n) = IF 1 > n THEN 0 ELSE n - 1 + 1
    BY <2>1, FS_Interval
  <2> QED
    BY <2>2
<1>2. IsFiniteSet({i}) /\ Cardinality({i}) = 1
  BY FS_Singleton
<1>3. IsFiniteSet(T) /\ Cardinality(T) = 1 * n
  <2> DEFINE A == {i}
             B == 1 .. n
  <2> HIDE DEF A, B
  <2>1. IsFiniteSet(A) /\ Cardinality(A) = 1 /\ IsFiniteSet(B) /\ Cardinality(B) = n
    BY <1>1, <1>2 DEF A, B
  <2>2. IsFiniteSet(A \X B) /\ Cardinality(A \X B) = Cardinality(A) * Cardinality(B)
    BY <2>1, FS_Product
  <2>3. T = A \X B
    BY DEF A, B
  <2> HIDE DEF T
  <2> QED
    BY <2>1, <2>2, <2>3
<1>4. S \cap T = {}
  OBVIOUS
<1>5. Cardinality(S) \in Nat /\ Cardinality({}) = 0
  BY FS_CardinalityType, FS_EmptySet
<1> HIDE DEF T
<1>6. /\ IsFiniteSet(S \cup T)
      /\ Cardinality(S \cup T) = Cardinality(S) + Cardinality(T) - Cardinality({})
  BY <1>3, <1>4, FS_Union
<1> QED
  BY <1>3, <1>5, <1>6 DEF T

LEMMA RoomFinite ==
  ASSUME SetsRight
  PROVE  /\ IsFiniteSet(Room) /\ TotalLength \in Nat
         /\ \A S \in SUBSET Room : /\ IsFiniteSet(S) /\ Cardinality(S) \in Nat
                                   /\ Cardinality(S) <= TotalLength
<1> DEFINE list == KeyStrokesInfoList
           places(info) == {info.Index} \X (1 .. info.Length)
           all == {places(info) : info \in Range(list)}
           f == [p \in DOMAIN list |-> places(list[p])]
<1>1. DOMAIN list = 1 .. Len(list) /\ Len(list) \in Nat
  BY SetFacts
<1>2. IsFiniteSet(DOMAIN list)
  BY <1>1, FS_Interval
<1>3. f \in Surjection(DOMAIN list, all)
  BY DEF Surjection, Range
<1>4. IsFiniteSet(all)
  BY <1>2, <1>3, FS_Surjection
<1>5. \A T \in all : IsFiniteSet(T)
  <2> SUFFICES ASSUME NEW p \in DOMAIN list PROVE IsFiniteSet(places(list[p]))
    BY DEF Range
  <2>1. PICK n \in Nat : n = list[p].Length
    BY SetFacts
  <2>2. IsFiniteSet(1 .. n)
    <3>1. 1 \in Int /\ n \in Int
      OBVIOUS
    <3> QED
      BY <3>1, FS_Interval
  <2>3. IsFiniteSet({list[p].Index})
    BY FS_Singleton
  <2>4. IsFiniteSet({list[p].Index} \X (1 .. n))
    BY <2>2, <2>3, FS_Product
  <2> QED
    BY <2>1, <2>4
<1>6. IsFiniteSet(Room)
  BY <1>4, <1>5, FS_UNION DEF Room
<1> HIDE DEF list, places, all, f
<1> QED
  BY <1>6, FS_Subset, FS_CardinalityType DEF TotalLength

LEMMA IndexFacts ==
  ASSUME SetsRight
  PROVE  /\ \A p \in DOMAIN KeyStrokesInfoList :
              GetKeyStrokesByIndex(KeyStrokesInfoList[p].Index) = p
         /\ \A i \in Indices : /\ GetKeyStrokesByIndex(i) \in DOMAIN KeyStrokesInfoList
                               /\ KeyStrokesInfoList[GetKeyStrokesByIndex(i)].Index = i
<1>1. ASSUME NEW p \in DOMAIN KeyStrokesInfoList
      PROVE  GetKeyStrokesByIndex(KeyStrokesInfoList[p].Index) = p
  BY DEF SetsRight, GetKeyStrokesByIndex
<1>2. \A i \in Indices : \E p \in DOMAIN KeyStrokesInfoList : KeyStrokesInfoList[p].Index = i
  BY DEF Indices, Range
<1> QED
  BY <1>1, <1>2

LEMMA PressedMembers ==
  \A k : k \in Pressed <=>
    \E p \in DOMAIN KeyStrokesInfoList :
      \E j \in DOMAIN KeyStrokesInfoList[p].KeyCodes : k = KeyStrokesInfoList[p].KeyCodes[j]
BY DEF Pressed, Range

\* The sets have room for every key that is pressed.
LEMMA RoomForPressed ==
  ASSUME SetsRight
  PROVE  /\ IsFiniteSet(Pressed) /\ Cardinality(Pressed) \in Nat
         /\ Cardinality(Pressed) <= TotalLength
         /\ Pressed \subseteq MapKeyCode
<1> DEFINE list == KeyStrokesInfoList
           used == {r \in Room : r[2] \in DOMAIN list[GetKeyStrokesByIndex(r[1])].KeyCodes}
           key == [r \in used |-> list[GetKeyStrokesByIndex(r[1])].KeyCodes[r[2]]]
<1>1. \A p \in DOMAIN list : /\ list[p].KeyCodes \in Seq(MapKeyCode)
                             /\ Len(list[p].KeyCodes) <= list[p].Length /\ list[p].Length \in Nat
                             /\ DOMAIN list[p].KeyCodes = 1 .. Len(list[p].KeyCodes)
  BY SetFacts DEF SetsRight
<1>2. ASSUME NEW p \in DOMAIN list, NEW j \in DOMAIN list[p].KeyCodes
      PROVE  <<list[p].Index, j>> \in used /\ key[<<list[p].Index, j>>] = list[p].KeyCodes[j]
  <2>1. j \in 1 .. list[p].Length
    BY <1>1
  <2>2. <<list[p].Index, j>> \in Room
    BY <2>1, RoomMembers DEF Room, RoomOf
  <2> QED
    BY <2>2, IndexFacts
<1>3. ASSUME NEW r \in used PROVE key[r] \in Pressed
  <2>1. PICK p \in DOMAIN list : \E j \in 1 .. list[p].Length : r = <<list[p].Index, j>>
    BY RoomMembers DEF Room, RoomOf
  <2>2. GetKeyStrokesByIndex(r[1]) = p
    BY <2>1, IndexFacts
  <2> QED
    BY <2>1, <2>2, PressedMembers
<1>4. key \in Surjection(used, Pressed)
  <2> HIDE DEF used
  <2>1. key \in [used -> Pressed]
    BY <1>3
  <2>2. ASSUME NEW k \in Pressed PROVE \E r \in used : key[r] = k
    <3>1. PICK p \in DOMAIN list : \E j \in DOMAIN list[p].KeyCodes : k = list[p].KeyCodes[j]
      BY PressedMembers
    <3>2. PICK j \in DOMAIN list[p].KeyCodes : k = list[p].KeyCodes[j]
      BY <3>1
    <3>3. <<list[p].Index, j>> \in used /\ key[<<list[p].Index, j>>] = k
      BY <1>2, <3>2
    <3> QED
      BY <3>3
  <2> HIDE DEF key
  <2> QED
    BY <2>1, <2>2 DEF Surjection
<1>5. /\ IsFiniteSet(used) /\ Cardinality(used) \in Nat /\ Cardinality(used) <= TotalLength
      /\ TotalLength \in Nat
  BY RoomFinite
<1> HIDE DEF used, key
<1>6. IsFiniteSet(Pressed) /\ Cardinality(Pressed) <= Cardinality(used)
  BY <1>4, <1>5, FS_Surjection
<1>7. Cardinality(Pressed) \in Nat
  BY <1>6, FS_CardinalityType
<1>8. Pressed \subseteq MapKeyCode
  BY <1>1, PressedMembers
<1> QED
  BY <1>5, <1>6, <1>7, <1>8

\* The elements that the start of a sequence consists of.
LEMMA RangeOfStart ==
  ASSUME NEW S, NEW s \in Seq(S), NEW n \in Nat, NEW T,
         \A i \in 1 .. n : i \in DOMAIN s /\ s[i] \in T
  PROVE  Range(SubSeq(s, 1, n)) \subseteq T
<1>1. n <= Len(s)
  BY LenProperties
<1>2. /\ SubSeq(s, 1, n) \in Seq(S) /\ Len(SubSeq(s, 1, n)) = n
      /\ \A i \in 1 .. n : SubSeq(s, 1, n)[i] = s[i]
  BY <1>1
<1>3. DOMAIN SubSeq(s, 1, n) = 1 .. n
  BY <1>2, LenProperties
<1> QED
  BY <1>2, <1>3 DEF Range

LEMMA MapInitInv == MapInit => MapInv
<1> SUFFICES ASSUME MapInit PROVE MapInv
  OBVIOUS
<1>1. KeyStrokesInfoList = << >> /\ DOMAIN KeyStrokesInfoList = {}
  BY DEF MapInit
<1>2. Room = {} /\ TotalLength = 0
  BY <1>1, RoomMembers, FS_EmptySet DEF Room, RoomOf, TotalLength
<1>3. SetsRight
  BY <1>1, KeyMapAssumption, EmptySeq DEF SetsRight, MapInit
<1>4. ScratchRight
  <2>1. << >> \in Seq(MapKeyCode \cup {NoCode})
    BY EmptySeq
  <2>2. /\ KeyCodeBuffer = << >> /\ ~alive /\ alive \in BOOLEAN /\ KeyCodeBufferLength = 0
        /\ call.pc # "create"
    BY DEF MapInit, Idle
  <2> QED
    BY <1>2, <2>1, <2>2 DEF ScratchRight
<1> QED
  BY <1>3, <1>4 DEF MapInv, MapInit, Idle, NoAnswer, ReportedKeysWerePressed, WalkDone,
     NotFoundIsRight

LEMMA CreateFreeMapInv ==
  ASSUME MapInv, wild = "no", NEW len \in Lengths, CreateFree(len)
  PROVE  MapInv'
<1>1. SetsRight' /\ TotalLength' = TotalLength
  BY DEF MapInv, CreateFree, SetsRight, TotalLength, Room
<1>2. ScratchRight'
  <2>1. /\ KeyCodeBuffer' = << >> /\ alive' = FALSE /\ call'.pc = "create" /\ call'.len = len
        /\ KeyCodeBufferLength' = KeyCodeBufferLength + len
    BY DEF CreateFree
  <2>2. KeyCodeBufferLength \in Nat /\ TotalLength <= KeyCodeBufferLength /\ TotalLength \in Nat
    BY RoomFinite DEF MapInv, ScratchRight
  <2>3. len \in Nat
    BY KeyMapAssumption
  <2>4. KeyCodeBuffer' \in Seq(MapKeyCode \cup {NoCode})
    BY <2>1, EmptySeq
  <2>5. KeyCodeBufferLength' \in Nat /\ TotalLength' + call'.len <= KeyCodeBufferLength'
        /\ TotalLength' <= KeyCodeBufferLength'
    BY <1>1, <2>1, <2>2, <2>3
  <2> QED
    BY <2>1, <2>4, <2>5 DEF ScratchRight
<1>3. /\ call' \in {Idle} \cup [pc : {"create"}, len : Lengths] \cup Walks
      /\ call'.pc = "create" /\ wild' = "no" /\ answer'.status = "none"
      /\ NextKeyStrokeIndex' < MaxCreates
  BY DEF CreateFree, NoAnswer
<1> QED
  BY <1>1, <1>2, <1>3 DEF MapInv, ReportedKeysWerePressed, WalkDone, NotFoundIsRight

LEMMA CreateAllocateMapInv ==
  ASSUME MapInv, wild = "no", NEW ok \in BOOLEAN, NEW infoOk \in BOOLEAN,
         CreateAllocate(ok, infoOk)
  PROVE  MapInv'
<1> DEFINE list == KeyStrokesInfoList
           new == [Index |-> NextKeyStrokeIndex, Length |-> call.len,
                   Modifiers |-> {}, KeyCodes |-> << >>]
<1>1. /\ call.pc = "create" /\ call.len \in Lengths /\ call.len \in Nat
      /\ TotalLength \in Nat /\ IsFiniteSet(Room)
      /\ KeyCodeBufferLength \in Nat /\ TotalLength + call.len <= KeyCodeBufferLength
  <2>1. call.pc = "create" /\ call \in [pc : {"create"}, len : Lengths]
    BY DEF MapInv, CreateAllocate, Idle, Walks
  <2>2. call.len \in Lengths /\ call.len \in Nat
    BY <2>1, KeyMapAssumption
  <2>3. TotalLength \in Nat /\ IsFiniteSet(Room)
    BY RoomFinite DEF MapInv
  <2> QED
    BY <2>1, <2>2, <2>3 DEF MapInv, ScratchRight
<1>2. SetsRight' /\ TotalLength' \in Nat /\ TotalLength' <= TotalLength + call.len
  <2>1. CASE ok /\ infoOk
    <3>1. list' = Append(list, new) /\ NextKeyStrokeIndex' = NextKeyStrokeIndex + 1
      BY <2>1 DEF CreateAllocate
    <3>2. /\ list \in Seq(SetInfo) /\ NextKeyStrokeIndex \in 0 .. MaxCreates
          /\ Len(list) \in Nat /\ DOMAIN list = 1 .. Len(list)
      BY SetFacts DEF MapInv, SetsRight
    <3>3. new \in SetInfo
      BY <1>1, <3>2, KeyMapAssumption, EmptySeq DEF SetInfo
    <3> HIDE DEF new, list
    <3>4. /\ list' \in Seq(SetInfo) /\ DOMAIN list' = 1 .. (Len(list) + 1)
          /\ \A p \in 1 .. Len(list) : list'[p] = list[p]
          /\ list'[Len(list) + 1] = new
      BY <3>1, <3>2, <3>3, AppendFacts
    <3>5. \A p \in DOMAIN list : list[p].Index < NextKeyStrokeIndex
      BY DEF MapInv, SetsRight, list
    <3>6. Room' = Room \cup ({new.Index} \X (1 .. new.Length))
      <4>1. /\ Room' = RoomOf(list') /\ Room = RoomOf(list)
        BY DEF Room, RoomOf, list
      <4>2. ASSUME NEW r \in RoomOf(list)
            PROVE  r \in RoomOf(list')
        <5>1. PICK p \in DOMAIN list : \E j \in 1 .. list[p].Length : r = <<list[p].Index, j>>
          BY RoomMembers
        <5>2. p \in DOMAIN list' /\ list'[p] = list[p]
          BY <3>2, <3>4
        <5> QED
          BY <5>1, <5>2, RoomMembers
      <4>3. ASSUME NEW j \in 1 .. new.Length
            PROVE  <<new.Index, j>> \in RoomOf(list')
        <5>1. Len(list) + 1 \in DOMAIN list'
          BY <3>2, <3>4
        <5> QED
          BY <3>4, <5>1, RoomMembers
      <4>4. ASSUME NEW r \in RoomOf(list')
            PROVE  r \in RoomOf(list) \/ \E j \in 1 .. new.Length : r = <<new.Index, j>>
        <5>1. PICK p \in DOMAIN list' : \E j \in 1 .. list'[p].Length : r = <<list'[p].Index, j>>
          BY RoomMembers
        <5>2. CASE p \in 1 .. Len(list)
          BY <3>2, <3>4, <5>1, <5>2, RoomMembers
        <5>3. CASE p = Len(list) + 1
          BY <3>4, <5>1, <5>3
        <5> QED
          BY <3>2, <3>4, <5>2, <5>3
      <4> QED
        BY <4>1, <4>2, <4>3, <4>4
    <3>7. new.Length = call.len /\ new.Index = NextKeyStrokeIndex /\ new.KeyCodes = << >>
      BY DEF new
    <3>8. \A j \in 1 .. call.len : <<new.Index, j>> \notin Room
      BY <3>2, <3>5, <3>7, RoomMembers, SetFacts DEF Room, RoomOf, list, MapInv
    <3>9. TotalLength' = TotalLength + call.len
      <4>1. Room' = Room \cup ({new.Index} \X (1 .. call.len))
        BY <3>6, <3>7
      <4>2. Cardinality(Room \cup ({new.Index} \X (1 .. call.len))) = Cardinality(Room) + call.len
        BY <1>1, <3>8, RoomForOneMore
      <4> QED
        BY <4>1, <4>2 DEF TotalLength
    <3>10. NextKeyStrokeIndex \in Nat /\ NextKeyStrokeIndex' \in 0 .. MaxCreates
      BY <1>1, <3>1, <3>2, KeyMapAssumption DEF MapInv
    <3>11. ASSUME NEW p \in DOMAIN list'
           PROVE  /\ list'[p].Index < NextKeyStrokeIndex'
                  /\ Len(list'[p].KeyCodes) <= list'[p].Length
      <4>1. CASE p \in 1 .. Len(list)
        <5>1. list'[p] = list[p] /\ p \in DOMAIN list
          BY <3>2, <3>4, <4>1
        <5>2. list[p].Index \in Nat /\ list[p].Index < NextKeyStrokeIndex
          BY <5>1, SetFacts DEF list, MapInv, SetsRight
        <5>3. Len(list[p].KeyCodes) <= list[p].Length
          BY <5>1 DEF list, MapInv, SetsRight
        <5> QED
          BY <3>1, <3>10, <5>1, <5>2, <5>3
      <4>2. CASE p = Len(list) + 1
        BY <1>1, <3>1, <3>4, <3>7, <3>10, <4>2
      <4> QED
        BY <3>2, <3>4, <4>1, <4>2
    <3>12. ASSUME NEW p \in DOMAIN list', NEW q \in DOMAIN list', list'[p].Index = list'[q].Index
           PROVE  p = q
      <4>1. \A i, j \in DOMAIN list : list[i].Index = list[j].Index => i = j
        BY DEF list, MapInv, SetsRight
      <4>2. \A i \in DOMAIN list : list[i].Index # NextKeyStrokeIndex
        BY <3>5, <3>10, SetFacts DEF list, MapInv
      <4> QED
        BY <3>2, <3>4, <3>7, <3>12, <4>1, <4>2
    <3>13. SetsRight'
      BY <3>4, <3>10, <3>11, <3>12 DEF SetsRight, list
    <3> QED
      BY <1>1, <3>9, <3>13
  <2>2. CASE ~(ok /\ infoOk)
    <3>1. KeyStrokesInfoList' = list /\ NextKeyStrokeIndex' = NextKeyStrokeIndex
      BY <2>2 DEF CreateAllocate
    <3>2. SetsRight' /\ TotalLength' = TotalLength
      BY <3>1 DEF MapInv, SetsRight, TotalLength, Room
    <3> QED
      BY <1>1, <3>2
  <2> QED
    BY <2>1, <2>2
<1>3. ScratchRight'
  <2>1. call'.pc = "idle" /\ KeyCodeBufferLength' = KeyCodeBufferLength /\ alive' = ok
    BY DEF CreateAllocate, Idle
  <2>2. /\ KeyCodeBuffer' \in Seq(MapKeyCode \cup {NoCode})
        /\ ~ok => KeyCodeBuffer' = << >>
        /\ ok => Len(KeyCodeBuffer') = KeyCodeBufferLength
    <3>1. CASE ok
      <4>1. KeyCodeBuffer' = [i \in 1 .. KeyCodeBufferLength |-> NoCode]
        BY <3>1 DEF CreateAllocate
      <4>2. KeyCodeBuffer' \in [1 .. KeyCodeBufferLength -> MapKeyCode \cup {NoCode}]
        BY <4>1
      <4> QED
        BY <1>1, <3>1, <4>2, FunctionIsSeq
    <3>2. CASE ~ok
      BY <3>2, EmptySeq DEF CreateAllocate
    <3> QED
      BY <3>1, <3>2
  <2>3. TotalLength' <= KeyCodeBufferLength
    BY <1>1, <1>2
  <2> QED
    BY <1>1, <2>1, <2>2, <2>3 DEF ScratchRight
<1>4. call' = Idle /\ call'.pc = "idle" /\ wild' = "no" /\ answer'.status = "none"
  BY DEF CreateAllocate, NoAnswer, Idle
<1> QED
  BY <1>2, <1>3, <1>4 DEF MapInv, ReportedKeysWerePressed, WalkDone, NotFoundIsRight

LEMMA RemoveKeyStrokesBufferMapInv ==
  ASSUME MapInv, wild = "no", NEW i \in Indices, RemoveKeyStrokesBuffer(i)
  PROVE  MapInv'
<1> DEFINE list == KeyStrokesInfoList
           at == GetKeyStrokesByIndex(i)
           size == list[at].Length
           old(q) == IF q < at THEN q ELSE q + 1
<1>1. /\ at \in DOMAIN list /\ list[at].Index = i /\ size \in Nat
      /\ list \in Seq(SetInfo) /\ Len(list) \in Nat /\ DOMAIN list = 1 .. Len(list)
  BY IndexFacts, SetFacts DEF MapInv, SetsRight
<1>2. /\ KeyCodeBufferLength' = KeyCodeBufferLength - size /\ list' = RemoveAt(list, at)
      /\ NextKeyStrokeIndex' = NextKeyStrokeIndex
      /\ UNCHANGED <<KeyCodeBuffer, alive, call>> /\ call = Idle /\ wild' = "no"
      /\ answer'.status = "none"
  BY DEF RemoveKeyStrokesBuffer, NoAnswer
<1>3. /\ \A p \in DOMAIN list : list[p].Index < NextKeyStrokeIndex
      /\ \A p \in DOMAIN list : Len(list[p].KeyCodes) <= list[p].Length
      /\ \A p, q \in DOMAIN list : list[p].Index = list[q].Index => p = q
      /\ NextKeyStrokeIndex \in 0 .. MaxCreates
  BY DEF MapInv, SetsRight
<1>4. /\ \A p \in DOMAIN list : list[p].Length \in Nat
      /\ IsFiniteSet(Room) /\ TotalLength \in Nat
  BY SetFacts, RoomFinite DEF MapInv
<1>5. /\ Room = RoomOf(list) /\ Room' = RoomOf(list')
  BY DEF Room, RoomOf
<1> HIDE DEF list, at
<1>6. /\ list' \in Seq(SetInfo) /\ DOMAIN list' = 1 .. (Len(list) - 1)
      /\ \A q \in DOMAIN list' : old(q) \in DOMAIN list \ {at} /\ list'[q] = list[old(q)]
      /\ \A q, r \in DOMAIN list' : old(q) = old(r) => q = r
  <2>1. /\ list' \in Seq(SetInfo) /\ Len(list') = Len(list) - 1
        /\ \A q \in 1 .. (Len(list) - 1) : list'[q] = IF q < at THEN list[q] ELSE list[q + 1]
    BY <1>1, <1>2, RemoveAtFacts
  <2>2. DOMAIN list' = 1 .. (Len(list) - 1)
    BY <2>1, LenProperties
  <2> QED
    BY <1>1, <2>1, <2>2
<1>7. \A p \in DOMAIN list \ {at} : \E q \in DOMAIN list' : old(q) = p
  <2> SUFFICES ASSUME NEW p \in DOMAIN list \ {at} PROVE \E q \in DOMAIN list' : old(q) = p
    OBVIOUS
  <2>1. CASE p < at
    BY <1>1, <1>6, <2>1
  <2>2. CASE p > at
    <3>1. p - 1 \in DOMAIN list' /\ old(p - 1) = p
      BY <1>1, <1>6, <2>2
    <3> QED
      BY <3>1
  <2> QED
    BY <1>1, <2>1, <2>2
<1> HIDE DEF old
<1>8. SetsRight'
  <2>1. \A q \in DOMAIN list' : /\ list'[q].Index < NextKeyStrokeIndex
                                /\ Len(list'[q].KeyCodes) <= list'[q].Length
    BY <1>3, <1>6
  <2>2. \A q, r \in DOMAIN list' : list'[q].Index = list'[r].Index => q = r
    BY <1>3, <1>6
  <2> QED
    BY <1>2, <1>3, <1>6, <2>1, <2>2 DEF SetsRight, list
<1>9. \A j \in 1 .. size : <<i, j>> \notin Room'
  <2> SUFFICES ASSUME NEW j \in 1 .. size, <<i, j>> \in RoomOf(list') PROVE FALSE
    BY <1>5
  <2>1. PICK q \in DOMAIN list' : list'[q].Index = i
    BY RoomMembers
  <2> QED
    BY <1>1, <1>3, <1>6, <2>1
<1>10. Room = Room' \cup ({i} \X (1 .. size))
  <2>1. ASSUME NEW r \in RoomOf(list') PROVE r \in RoomOf(list)
    <3>1. PICK q \in DOMAIN list' : \E j \in 1 .. list'[q].Length : r = <<list'[q].Index, j>>
      BY RoomMembers
    <3> QED
      BY <1>6, <3>1, RoomMembers
  <2>2. ASSUME NEW j \in 1 .. size PROVE <<i, j>> \in RoomOf(list)
    BY <1>1, RoomMembers
  <2>3. ASSUME NEW r \in RoomOf(list)
        PROVE  r \in RoomOf(list') \/ r \in {i} \X (1 .. size)
    <3>1. PICK p \in DOMAIN list : \E j \in 1 .. list[p].Length : r = <<list[p].Index, j>>
      BY RoomMembers
    <3>2. CASE p = at
      BY <1>1, <3>1, <3>2
    <3>3. CASE p # at
      <4>1. PICK q \in DOMAIN list' : list'[q] = list[p]
        BY <1>6, <1>7, <3>3
      <4>2. \E k \in DOMAIN list' : \E j \in 1 .. list'[k].Length : r = <<list'[k].Index, j>>
        BY <3>1, <4>1
      <4> QED
        BY <4>2, RoomMembers
    <3> QED
      BY <3>2, <3>3
  <2> QED
    BY <1>5, <2>1, <2>2, <2>3
<1> HIDE DEF size
<1>11. TotalLength' \in Nat /\ TotalLength = TotalLength' + size
  <2>1. IsFiniteSet(Room') /\ Cardinality(Room') \in Nat
    <3>1. Room' \in SUBSET Room
      BY <1>10
    <3> QED
      BY <1>4, <3>1, FS_Subset, FS_CardinalityType
  <2>2. Cardinality(Room' \cup ({i} \X (1 .. size))) = Cardinality(Room') + size
    BY <1>1, <1>9, <2>1, RoomForOneMore DEF size
  <2> QED
    BY <1>10, <2>1, <2>2 DEF TotalLength
<1>12. ScratchRight'
  BY <1>1, <1>2, <1>11 DEF MapInv, ScratchRight, Idle, size
<1>13. call' = Idle /\ call'.pc = "idle"
  BY <1>2 DEF Idle
<1> QED
  BY <1>2, <1>8, <1>12, <1>13 DEF MapInv, ReportedKeysWerePressed, WalkDone, NotFoundIsRight

LEMMA SetKeyStrokeBufferKeysMapInv ==
  ASSUME MapInv, wild = "no", NEW i \in Indices, NEW mods \in SUBSET MapModifier,
         NEW keys \in Seq(MapKeyCode), SetKeyStrokeBufferKeys(i, mods, keys)
  PROVE  MapInv'
<1> DEFINE list == KeyStrokesInfoList
           at == GetKeyStrokesByIndex(i)
<1>1. /\ at \in DOMAIN list
      /\ list \in Seq(SetInfo) /\ Len(list) \in Nat /\ DOMAIN list = 1 .. Len(list)
      /\ \A p \in DOMAIN list : list[p] \in SetInfo
  BY IndexFacts, SetFacts DEF MapInv, SetsRight
<1>2. /\ list[at].Length >= Len(keys)
      /\ list' = [list EXCEPT ![at].Modifiers = mods, ![at].KeyCodes = keys]
      /\ everPressed' = IF call.pc = "walk" THEN everPressed \cup Range(keys) ELSE everPressed
      /\ UNCHANGED <<NextKeyStrokeIndex, KeyCodeBufferLength, KeyCodeBuffer, alive, call, wild>>
      /\ answer'.status = "none"
  BY DEF SetKeyStrokeBufferKeys, NoAnswer
<1>3. /\ \A p \in DOMAIN list : list[p].Index < NextKeyStrokeIndex
      /\ \A p \in DOMAIN list : Len(list[p].KeyCodes) <= list[p].Length
      /\ \A p, q \in DOMAIN list : list[p].Index = list[q].Index => p = q
      /\ NextKeyStrokeIndex \in 0 .. MaxCreates
  BY DEF MapInv, SetsRight
<1>4. /\ Room = RoomOf(list) /\ Room' = RoomOf(list')
  BY DEF Room, RoomOf
<1>5. list[at].Length \in Nat /\ Len(keys) \in Nat
  BY <1>1, SetFacts DEF MapInv
<1> HIDE DEF list, at
<1>6. /\ list' \in Seq(SetInfo) /\ DOMAIN list' = DOMAIN list /\ Len(list') = Len(list)
      /\ \A p \in DOMAIN list : /\ list'[p].Index = list[p].Index
                                /\ list'[p].Length = list[p].Length
      /\ \A p \in DOMAIN list \ {at} : list'[p].KeyCodes = list[p].KeyCodes
      /\ list'[at].KeyCodes = keys
  <2> DEFINE new == [list[at] EXCEPT !.Modifiers = mods, !.KeyCodes = keys]
  <2>1. /\ new \in SetInfo /\ new.Index = list[at].Index /\ new.Length = list[at].Length
        /\ new.KeyCodes = keys
    BY <1>1 DEF SetInfo
  <2>2. list' = [list EXCEPT ![at] = new]
    BY <1>1, <1>2
  <2> HIDE DEF new
  <2>3. list' \in Seq(SetInfo) /\ Len(list') = Len(list)
    BY <1>1, <2>1, <2>2
  <2> QED
    BY <1>1, <2>1, <2>2, <2>3
<1>7. SetsRight'
  <2>1. \A p \in DOMAIN list' : Len(list'[p].KeyCodes) <= list'[p].Length
    BY <1>1, <1>2, <1>3, <1>5, <1>6
  <2>2. \A p \in DOMAIN list' : list'[p].Index < NextKeyStrokeIndex'
    BY <1>2, <1>3, <1>6
  <2>3. \A p, q \in DOMAIN list' : list'[p].Index = list'[q].Index => p = q
    BY <1>3, <1>6
  <2> QED
    BY <1>2, <1>3, <1>6, <2>1, <2>2, <2>3 DEF SetsRight, list
<1>8. Room' = Room /\ TotalLength' = TotalLength
  <2>1. \A r : r \in RoomOf(list') <=> r \in RoomOf(list)
    <3>1. /\ \A r : r \in RoomOf(list') <=>
                  \E p \in DOMAIN list' : \E j \in 1 .. list'[p].Length : r = <<list'[p].Index, j>>
          /\ \A r : r \in RoomOf(list) <=>
                  \E p \in DOMAIN list : \E j \in 1 .. list[p].Length : r = <<list[p].Index, j>>
      BY RoomMembers
    <3> QED
      BY <1>6, <3>1
  <2>2. Room' = Room
    BY <1>4, <2>1
  <2> QED
    BY <2>2 DEF TotalLength
<1>9. ScratchRight'
  BY <1>2, <1>8 DEF MapInv, ScratchRight
<1>10. Walked' = Walked
  BY <1>2, <1>6, <1>8 DEF Walked, list
<1>11. ASSUME call.pc = "walk" PROVE WalkRight'
  <2>1. Pressed' \subseteq Pressed \cup Range(keys)
    <3> SUFFICES ASSUME NEW k \in Pressed' PROVE k \in Pressed \cup Range(keys)
      OBVIOUS
    <3>1. PICK p \in DOMAIN list' : k \in Range(list'[p].KeyCodes)
      BY DEF Pressed, Range, list
    <3>2. CASE p = at
      BY <1>6, <3>1, <3>2
    <3>3. CASE p # at
      <4>1. p \in DOMAIN list /\ k \in Range(list[p].KeyCodes)
        BY <1>6, <3>1, <3>3
      <4> QED
        BY <4>1 DEF Pressed, Range, list
    <3> QED
      BY <3>2, <3>3
  <2>2. everPressed' = everPressed \cup Range(keys)
    BY <1>2, <1>11
  <2>3. WalkRight
    BY <1>11 DEF MapInv
  <2> QED
    BY <1>2, <1>10, <2>1, <2>2, <2>3 DEF WalkRight
<1>12. ReportedKeysWerePressed'
  BY <1>2, <1>6 DEF MapInv, ReportedKeysWerePressed, WalkDone, Result, list
<1> QED
  BY <1>2, <1>7, <1>9, <1>11, <1>12 DEF MapInv, NotFoundIsRight

\* What a query leaves in the scratch buffer fits in it, if there is one.
LEMMA PollGetKeyStrokesMapInv ==
  ASSUME MapInv, wild = "no", PollGetKeyStrokes
  PROVE  MapInv'
<1> DEFINE size == Cardinality(Pressed)
<1>1. PICK keys \in Merged : /\ KeyCodeBuffer' = Overwrite(KeyCodeBuffer, keys)
                             /\ wild' = Touches(Len(keys))
  BY DEF PollGetKeyStrokes
<1>2. /\ size \in Nat /\ size <= TotalLength /\ Pressed \subseteq MapKeyCode /\ TotalLength \in Nat
  BY RoomForPressed, RoomFinite DEF MapInv
<1>3. keys \in [1 .. size -> Pressed]
  BY DEF Merged, SetToSeqs
<1> HIDE DEF size
<1>4. Len(keys) = size /\ \A j \in 1 .. size : keys[j] \in Pressed
  BY <1>2, <1>3, FunctionIsSeq
<1>5. /\ UNCHANGED <<KeyStrokesInfoList, NextKeyStrokeIndex, KeyCodeBufferLength, alive, call,
                     everPressed>>
      /\ answer'.status = "none"
  BY DEF PollGetKeyStrokes, database, NoAnswer
<1>6. /\ KeyCodeBuffer \in Seq(MapKeyCode \cup {NoCode}) /\ Len(KeyCodeBuffer) \in Nat
      /\ DOMAIN KeyCodeBuffer = 1 .. Len(KeyCodeBuffer)
      /\ ~alive => KeyCodeBuffer = << >>
      /\ alive => TotalLength <= Len(KeyCodeBuffer)
      /\ \A j \in DOMAIN KeyCodeBuffer : KeyCodeBuffer[j] \in MapKeyCode \cup {NoCode}
  BY LenProperties, ElementOfSeq DEF MapInv, ScratchRight
<1>7. /\ KeyCodeBuffer' \in Seq(MapKeyCode \cup {NoCode}) /\ Len(KeyCodeBuffer') = Len(KeyCodeBuffer)
      /\ DOMAIN KeyCodeBuffer' = DOMAIN KeyCodeBuffer
      /\ \A j \in DOMAIN KeyCodeBuffer :
           KeyCodeBuffer'[j] \in Pressed \/ KeyCodeBuffer'[j] = KeyCodeBuffer[j]
  <2>1. KeyCodeBuffer' = [j \in 1 .. Len(KeyCodeBuffer) |->
                            IF j <= size THEN keys[j] ELSE KeyCodeBuffer[j]]
    BY <1>1, <1>4, <1>6 DEF Overwrite
  <2>2. \A j \in DOMAIN KeyCodeBuffer : j <= size => keys[j] \in Pressed
    BY <1>2, <1>4, <1>6
  <2>3. KeyCodeBuffer' \in [1 .. Len(KeyCodeBuffer) -> MapKeyCode \cup {NoCode}]
    BY <1>2, <1>6, <2>1, <2>2
  <2> QED
    BY <1>6, <2>1, <2>2, <2>3, FunctionIsSeq
<1>8. wild' \in {"no", "dead"}
  BY <1>1, <1>2, <1>4, <1>6 DEF Touches
<1>9. SetsRight' /\ Room' = Room /\ TotalLength' = TotalLength /\ Walked' = Walked
  BY <1>5 DEF MapInv, SetsRight, Room, TotalLength, Walked
<1>10. ScratchRight'
  <2>1. ~alive => KeyCodeBuffer' = << >>
    BY <1>6, <1>7, EmptySeq
  <2> QED
    BY <1>5, <1>6, <1>7, <1>9, <2>1 DEF MapInv, ScratchRight
<1>11. ASSUME call.pc = "walk" PROVE WalkRight'
  <2>1. WalkRight
    BY <1>11 DEF MapInv
  <2>2. Pressed' = Pressed
    BY <1>5 DEF Pressed
  <2> QED
    BY <1>5, <1>7, <1>9, <2>1, <2>2 DEF WalkRight
<1>12. ReportedKeysWerePressed'
  <2> SUFFICES ASSUME WalkDone' PROVE Range(Result') \subseteq everPressed'
    BY DEF ReportedKeysWerePressed
  <2>1. call.pc = "walk" /\ call \in Walks
    BY <1>5 DEF WalkDone, MapInv, Idle
  <2>2. call.Found \in Nat
    BY <2>1 DEF Walks
  <2>3. \A j \in 1 .. call.Found : j \in DOMAIN KeyCodeBuffer' /\ KeyCodeBuffer'[j] \in everPressed'
    BY <1>5, <1>11, <2>1 DEF WalkRight
  <2>4. Range(SubSeq(KeyCodeBuffer', 1, call.Found)) \subseteq everPressed'
    BY <1>7, <2>2, <2>3, RangeOfStart
  <2> QED
    BY <1>5, <2>4 DEF Result
<1> QED
  BY <1>5, <1>8, <1>9, <1>10, <1>11, <1>12 DEF MapInv, NotFoundIsRight

LEMMA GetKeyStrokesMapInv ==
  ASSUME MapInv, wild = "no", GetKeyStrokes
  PROVE  MapInv'
<1>1. /\ call' = [pc |-> "walk", Entry |-> 1, Index |-> 1, Found |-> 0, DbModifiers |-> {}]
      /\ everPressed' = Pressed /\ wild' = wild /\ answer'.status = "none"
      /\ UNCHANGED <<KeyStrokesInfoList, NextKeyStrokeIndex, KeyCodeBufferLength, KeyCodeBuffer,
                     alive>>
  BY DEF GetKeyStrokes, database, NoAnswer
<1>2. call' \in Walks /\ call'.pc = "walk" /\ call'.Found = 0
  BY <1>1 DEF Walks
<1>3. /\ SetsRight' /\ Room' = Room /\ TotalLength' = TotalLength /\ Pressed' = Pressed
  BY <1>1 DEF MapInv, SetsRight, Room, TotalLength, Pressed
<1>4. ScratchRight'
  BY <1>1, <1>2, <1>3 DEF MapInv, ScratchRight
<1>5. Walked' \in SUBSET Room
  BY <1>3 DEF Walked
<1>6. Cardinality(Walked') \in Nat
  BY <1>5, RoomFinite DEF MapInv
<1>7. WalkRight'
  BY <1>1, <1>2, <1>3, <1>6 DEF WalkRight
<1>8. ReportedKeysWerePressed'
  <2>1. 0 \in Nat /\ KeyCodeBuffer \in Seq(MapKeyCode \cup {NoCode})
    BY DEF MapInv, ScratchRight
  <2>2. Range(SubSeq(KeyCodeBuffer, 1, 0)) \subseteq everPressed'
    BY <2>1, RangeOfStart
  <2> QED
    BY <1>1, <1>2, <2>2 DEF ReportedKeysWerePressed, Result
<1> QED
  BY <1>1, <1>2, <1>3, <1>4, <1>7, <1>8 DEF MapInv, NotFoundIsRight

\* What a walk knows of itself.
LEMMA WalkFacts ==
  ASSUME MapInv, wild = "no", call.pc = "walk"
  PROVE  /\ call \in Walks /\ call.Entry \in Nat \ {0} /\ call.Index \in Nat \ {0}
         /\ call.Found \in Nat /\ call.DbModifiers \subseteq MapModifier
         /\ WalkRight /\ Walked \in SUBSET Room
         /\ IsFiniteSet(Walked) /\ Cardinality(Walked) \in Nat /\ TotalLength \in Nat
<1>1. call \in Walks
  BY DEF MapInv, Idle
<1>2. WalkRight /\ Walked \in SUBSET Room
  BY DEF MapInv, Walked
<1>3. IsFiniteSet(Walked) /\ Cardinality(Walked) \in Nat /\ TotalLength \in Nat
  BY <1>2, RoomFinite DEF MapInv
<1> QED
  BY <1>1, <1>2, <1>3 DEF Walks

\* Each key that a walk comes to has a place of its own in the room of the sets.
LEMMA WalkKeyMapInv ==
  ASSUME MapInv, wild = "no", WalkKey
  PROVE  MapInv'
<1> DEFINE list == KeyStrokesInfoList
           e == call.Entry
           x == call.Index
           f == call.Found
           known == \E i \in 1 .. f : KeyCodeBuffer[i] = list[e].KeyCodes[x]
           new == <<list[e].Index, x>>
<1>1. /\ call.pc = "walk" /\ e <= Len(list) /\ x <= Len(list[e].KeyCodes)
      /\ UNCHANGED <<KeyStrokesInfoList, NextKeyStrokeIndex, KeyCodeBufferLength, alive,
                     everPressed>>
      /\ answer'.status = "none"
  BY DEF WalkKey, database, NoAnswer
<1>2. /\ call \in Walks /\ e \in Nat \ {0} /\ x \in Nat \ {0} /\ f \in Nat
      /\ WalkRight /\ Walked \in SUBSET Room
      /\ IsFiniteSet(Walked) /\ Cardinality(Walked) \in Nat /\ TotalLength \in Nat
  BY <1>1, WalkFacts
<1>3. /\ e \in DOMAIN list /\ x \in DOMAIN list[e].KeyCodes /\ x \in 1 .. list[e].Length
      /\ list[e].KeyCodes[x] \in MapKeyCode
  <2>1. e \in DOMAIN list
    BY <1>1, <1>2, SetFacts DEF MapInv
  <2>2. /\ Len(list[e].KeyCodes) <= list[e].Length /\ list[e].Length \in Nat
        /\ list[e].KeyCodes \in Seq(MapKeyCode) /\ Len(list[e].KeyCodes) \in Nat
        /\ DOMAIN list[e].KeyCodes = 1 .. Len(list[e].KeyCodes)
    BY <2>1, SetFacts DEF MapInv, SetsRight
  <2> QED
    BY <1>1, <1>2, <2>1, <2>2, ElementOfSeq
<1>4. list[e].KeyCodes[x] \in Pressed /\ list[e].KeyCodes[x] \in everPressed
  BY <1>2, <1>3, PressedMembers DEF WalkRight
<1>5. new \in Room /\ new \notin Walked
  <2>1. new \in Room
    BY <1>3, RoomMembers DEF Room, RoomOf
  <2>2. \A p \in DOMAIN list : list[p].Index = list[e].Index => p = e
    BY <1>3 DEF MapInv, SetsRight
  <2> QED
    BY <1>2, <2>1, <2>2 DEF Walked
<1>6. /\ call' = [call EXCEPT !.Index = x + 1]
         \/ call' = [call EXCEPT !.Index = x + 1, !.Found = f + 1]
      /\ alive /\ known => /\ call' = [call EXCEPT !.Index = x + 1]
                           /\ UNCHANGED <<KeyCodeBuffer, wild>>
      /\ ~(alive /\ known) =>
           /\ call' = [call EXCEPT !.Index = x + 1, !.Found = f + 1]
           /\ KeyCodeBuffer' = [i \in DOMAIN KeyCodeBuffer |->
                IF i = f + 1 THEN list[e].KeyCodes[x] ELSE KeyCodeBuffer[i]]
           /\ wild' = Touches(f + 1)
  BY DEF WalkKey
<1> HIDE DEF known
<1>7. PICK n \in Nat : n = x + 1 /\ n # 0
  BY <1>2
<1>8. PICK m \in Nat : m = f + 1 /\ m > 0
  BY <1>2
<1>9. /\ call' \in Walks /\ call'.pc = "walk" /\ call'.Entry = e /\ call'.Index = n
      /\ alive /\ known => call'.Found = f
      /\ ~(alive /\ known) => call'.Found = m
  <2>1. CASE alive /\ known
    BY <1>2, <1>6, <1>7, <2>1 DEF Walks
  <2>2. CASE ~(alive /\ known)
    BY <1>2, <1>6, <1>7, <1>8, <2>2 DEF Walks
  <2> QED
    BY <2>1, <2>2
<1>10. SetsRight' /\ Room' = Room /\ TotalLength' = TotalLength /\ Pressed' = Pressed
  BY <1>1 DEF MapInv, SetsRight, Room, TotalLength, Pressed
<1>11. /\ Walked \cup {new} \in SUBSET Walked' /\ Walked' \in SUBSET Room
  <2>1. Walked' \in SUBSET Room
    BY <1>10 DEF Walked
  <2>2. Walked' = {r \in Room : \E p \in DOMAIN list :
                     r[1] = list[p].Index /\ (p < e \/ (p = e /\ r[2] < n))}
    BY <1>1, <1>9, <1>10 DEF Walked
  <2>3. new \in Walked'
    BY <1>2, <1>3, <1>5, <1>7, <2>2
  <2>4. ASSUME NEW r \in Walked PROVE r \in Walked'
    <3>1. r \in Room /\ r[2] \in Nat
      <4>1. r \in Room
        BY <1>2
      <4>2. PICK p \in DOMAIN list : \E j \in 1 .. list[p].Length : r = <<list[p].Index, j>>
        BY <4>1, RoomMembers DEF Room, RoomOf
      <4> QED
        BY <4>1, <4>2
    <3>2. PICK p \in DOMAIN list : r[1] = list[p].Index /\ (p < e \/ (p = e /\ r[2] < x))
      BY DEF Walked
    <3>3. p < e \/ (p = e /\ r[2] < n)
      BY <1>2, <1>7, <3>1, <3>2
    <3> QED
      BY <2>2, <3>1, <3>2, <3>3
  <2> QED
    BY <2>1, <2>3, <2>4
<1> HIDE DEF new
<1>12. /\ Cardinality(Walked) + 1 <= Cardinality(Walked')
       /\ Cardinality(Walked') \in Nat /\ Cardinality(Walked') <= TotalLength
  <2>1. /\ IsFiniteSet(Walked') /\ Cardinality(Walked') \in Nat
        /\ Cardinality(Walked') <= TotalLength
    BY <1>11, RoomFinite DEF MapInv
  <2>2. Cardinality(Walked \cup {new}) = Cardinality(Walked) + 1
    BY <1>2, <1>5, FS_AddElement
  <2>3. Cardinality(Walked \cup {new}) <= Cardinality(Walked')
    BY <1>11, <2>1, FS_Subset
  <2> QED
    BY <2>1, <2>2, <2>3
<1>13. f <= Cardinality(Walked) /\ m <= Cardinality(Walked') /\ m <= TotalLength
  BY <1>2, <1>8, <1>12 DEF WalkRight
<1>14. /\ KeyCodeBuffer \in Seq(MapKeyCode \cup {NoCode}) /\ Len(KeyCodeBuffer) \in Nat
       /\ DOMAIN KeyCodeBuffer = 1 .. Len(KeyCodeBuffer)
       /\ ~alive => KeyCodeBuffer = << >>
       /\ alive => TotalLength <= Len(KeyCodeBuffer)
       /\ \A i \in DOMAIN KeyCodeBuffer : KeyCodeBuffer[i] \in MapKeyCode \cup {NoCode}
  BY LenProperties, ElementOfSeq DEF MapInv, ScratchRight
<1>15. /\ KeyCodeBuffer' \in Seq(MapKeyCode \cup {NoCode})
       /\ Len(KeyCodeBuffer') = Len(KeyCodeBuffer)
       /\ DOMAIN KeyCodeBuffer' = DOMAIN KeyCodeBuffer
       /\ \A i \in DOMAIN KeyCodeBuffer :
            \/ KeyCodeBuffer'[i] = KeyCodeBuffer[i]
            \/ KeyCodeBuffer'[i] = list[e].KeyCodes[x]
       /\ ~(alive /\ known) /\ m \in DOMAIN KeyCodeBuffer =>
            KeyCodeBuffer'[m] = list[e].KeyCodes[x]
  <2>1. CASE alive /\ known
    BY <1>6, <1>14, <2>1
  <2>2. CASE ~(alive /\ known)
    <3>1. KeyCodeBuffer' = [i \in 1 .. Len(KeyCodeBuffer) |->
                              IF i = m THEN list[e].KeyCodes[x] ELSE KeyCodeBuffer[i]]
      BY <1>6, <1>8, <1>14, <2>2
    <3>2. KeyCodeBuffer' \in [1 .. Len(KeyCodeBuffer) -> MapKeyCode \cup {NoCode}]
      BY <1>3, <1>14, <3>1
    <3> QED
      BY <1>14, <3>1, <3>2, FunctionIsSeq
  <2> QED
    BY <2>1, <2>2
<1>16. ScratchRight'
  <2>1. ~alive => KeyCodeBuffer' = << >>
    BY <1>14, <1>15, EmptySeq
  <2> QED
    BY <1>1, <1>9, <1>10, <1>14, <1>15, <2>1 DEF MapInv, ScratchRight
<1>17. wild' \in {"no", "dead"} /\ (wild' = "no" => alive)
  <2>1. CASE alive /\ known
    BY <1>6, <2>1
  <2>2. CASE ~alive
    BY <1>6, <1>8, <2>2 DEF Touches
  <2>3. CASE alive /\ ~known
    <3>1. m <= Len(KeyCodeBuffer)
      BY <1>2, <1>13, <1>14, <2>3
    <3> QED
      BY <1>6, <1>8, <1>14, <2>3, <3>1 DEF Touches
  <2> QED
    BY <2>1, <2>2, <2>3
<1>18. ASSUME wild' = "no" PROVE WalkRight'
  <2>1. alive /\ m <= Len(KeyCodeBuffer) /\ Pressed \subseteq everPressed
    BY <1>2, <1>13, <1>14, <1>17, <1>18 DEF WalkRight
  <2>2. \A i \in 1 .. f : i \in DOMAIN KeyCodeBuffer /\ KeyCodeBuffer[i] \in everPressed
    BY <1>2 DEF WalkRight
  <2>3. \A i \in 1 .. f : i \in DOMAIN KeyCodeBuffer' /\ KeyCodeBuffer'[i] \in everPressed
    BY <1>4, <1>15, <2>2
  <2>4. CASE known
    <3>1. call'.Found = f /\ f <= Cardinality(Walked')
      BY <1>2, <1>9, <1>12, <1>13, <2>1, <2>4
    <3> QED
      BY <1>1, <1>10, <2>1, <2>3, <3>1 DEF WalkRight
  <2>5. CASE ~known
    <3>1. call'.Found = m
      BY <1>9, <2>5
    <3>2. m \in DOMAIN KeyCodeBuffer' /\ KeyCodeBuffer'[m] \in everPressed
      BY <1>4, <1>8, <1>14, <1>15, <2>1, <2>5
    <3>3. \A i \in 1 .. m : i \in DOMAIN KeyCodeBuffer' /\ KeyCodeBuffer'[i] \in everPressed
      BY <1>2, <1>8, <2>3, <3>2
    <3> QED
      BY <1>1, <1>10, <1>13, <2>1, <3>1, <3>3 DEF WalkRight
  <2> QED
    BY <2>4, <2>5
<1>19. ~WalkDone'
  BY <1>1, <1>2, <1>9, SetFacts DEF MapInv, WalkDone
<1> QED
  BY <1>1, <1>9, <1>10, <1>16, <1>17, <1>18, <1>19
     DEF MapInv, ReportedKeysWerePressed, NotFoundIsRight

LEMMA WalkEntryMapInv ==
  ASSUME MapInv, wild = "no", WalkEntry
  PROVE  MapInv'
<1> DEFINE list == KeyStrokesInfoList
           e == call.Entry
<1>1. /\ call.pc = "walk" /\ e <= Len(list)
      /\ UNCHANGED <<KeyStrokesInfoList, NextKeyStrokeIndex, KeyCodeBufferLength, KeyCodeBuffer,
                     alive, everPressed, wild>>
      /\ answer'.status = "none"
      /\ call' = [call EXCEPT !.Entry = e + 1, !.Index = 1,
                              !.DbModifiers = @ \cup list[e].Modifiers]
  BY DEF WalkEntry, database, NoAnswer
<1>2. /\ call \in Walks /\ e \in Nat \ {0} /\ call.Found \in Nat
      /\ call.DbModifiers \subseteq MapModifier
      /\ WalkRight /\ Walked \in SUBSET Room
      /\ IsFiniteSet(Walked) /\ Cardinality(Walked) \in Nat
  BY <1>1, WalkFacts
<1>3. list[e].Modifiers \subseteq MapModifier /\ \A p \in DOMAIN list : p \in Nat
  BY <1>1, <1>2, SetFacts DEF MapInv
<1>4. PICK n \in Nat : n = e + 1 /\ n # 0
  BY <1>2
<1>5. PICK mods \in SUBSET MapModifier : mods = call.DbModifiers \cup list[e].Modifiers
  BY <1>2, <1>3
<1>6. call' \in Walks /\ call'.pc = "walk" /\ call'.Entry = n /\ call'.Found = call.Found
  <2>1. call' = [call EXCEPT !.Entry = n, !.Index = 1, !.DbModifiers = mods]
    BY <1>1, <1>2, <1>4, <1>5 DEF Walks
  <2> HIDE DEF list, e
  <2>2. call' = [pc |-> "walk", Entry |-> n, Index |-> 1, Found |-> call.Found,
                 DbModifiers |-> mods]
    BY <1>2, <2>1 DEF Walks
  <2> QED
    BY <1>2, <1>4, <1>5, <2>2 DEF Walks
<1>7. SetsRight' /\ Room' = Room /\ TotalLength' = TotalLength /\ Pressed' = Pressed
  BY <1>1 DEF MapInv, SetsRight, Room, TotalLength, Pressed
<1>8. Walked \in SUBSET Walked' /\ Walked' \in SUBSET Room
  BY <1>1, <1>2, <1>3, <1>4, <1>6, <1>7 DEF Walked
<1>9. Cardinality(Walked) <= Cardinality(Walked') /\ Cardinality(Walked') \in Nat
  <2>1. IsFiniteSet(Walked') /\ Cardinality(Walked') \in Nat
    BY <1>8, RoomFinite DEF MapInv
  <2> QED
    BY <1>8, <2>1, FS_Subset
<1>10. call.Found <= Cardinality(Walked')
  BY <1>2, <1>9 DEF WalkRight
<1>11. WalkRight'
  BY <1>1, <1>2, <1>6, <1>7, <1>10 DEF WalkRight
<1>12. ScratchRight'
  BY <1>1, <1>6, <1>7 DEF MapInv, ScratchRight
<1>13. ReportedKeysWerePressed'
  <2>1. KeyCodeBuffer \in Seq(MapKeyCode \cup {NoCode})
    BY DEF MapInv, ScratchRight
  <2>2. \A i \in 1 .. call.Found : i \in DOMAIN KeyCodeBuffer /\ KeyCodeBuffer[i] \in everPressed
    BY <1>2 DEF WalkRight
  <2>3. Range(SubSeq(KeyCodeBuffer, 1, call.Found)) \subseteq everPressed
    BY <1>2, <2>1, <2>2, RangeOfStart
  <2> QED
    BY <1>1, <1>6, <2>3 DEF ReportedKeysWerePressed, Result
<1> QED
  BY <1>1, <1>6, <1>7, <1>11, <1>12, <1>13 DEF MapInv, NotFoundIsRight

\* An answer leaves everything but the call as it is.
LEMMA ReturnMapInv ==
  ASSUME MapInv, wild = "no", call' = Idle, NotFoundIsRight',
         UNCHANGED <<database, KeyCodeBuffer, alive, wild>>
  PROVE  MapInv'
<1>1. call'.pc = "idle"
  BY DEF Idle
<1>2. /\ UNCHANGED <<KeyStrokesInfoList, NextKeyStrokeIndex, KeyCodeBufferLength, KeyCodeBuffer,
                     alive, wild>>
  BY DEF database
<1>3. SetsRight' /\ TotalLength' = TotalLength
  BY <1>2 DEF MapInv, SetsRight, Room, TotalLength
<1>4. ScratchRight'
  BY <1>1, <1>2, <1>3 DEF MapInv, ScratchRight
<1> QED
  BY <1>1, <1>2, <1>3, <1>4 DEF MapInv, ReportedKeysWerePressed, WalkDone

LEMMA ReturnKeyStrokesMapInv ==
  ASSUME MapInv, wild = "no", ReturnKeyStrokes
  PROVE  MapInv'
<1>1. answer'.status # "EFI_NOT_FOUND"
  BY DEF ReturnKeyStrokes
<1> QED
  BY <1>1, ReturnMapInv DEF ReturnKeyStrokes, NotFoundIsRight

LEMMA ReturnContainsKeyStrokesMapInv ==
  ASSUME MapInv, wild = "no", NEW mods, NEW keys, NEW exact \in BOOLEAN,
         ReturnContainsKeyStrokes(mods, keys, exact)
  PROVE  MapInv'
<1>1. NotFoundIsRight'
  <2> SUFFICES ASSUME answer'.status = "EFI_NOT_FOUND" PROVE NotFoundIsRight'
    BY DEF NotFoundIsRight
  <2>1. /\ answer'.status = ContainsStatus(call.DbModifiers, Result, mods, keys, exact)
        /\ answer'.asked.keys = keys /\ answer'.asked.exact = exact
        /\ answer'.db.keys = Result
    BY DEF ReturnContainsKeyStrokes
  <2>2. ~HasKeys(Result, keys, exact)
    BY <2>1 DEF ContainsStatus
  <2> QED
    BY <2>1, <2>2 DEF NotFoundIsRight, HasKeys
<1> QED
  BY <1>1, ReturnMapInv DEF ReturnContainsKeyStrokes

LEMMA MapInvStep == MapInv /\ [MapNext]_mapVars => MapInv'
<1> SUFFICES ASSUME MapInv, [MapNext]_mapVars PROVE MapInv'
  OBVIOUS
<1>1. CASE UNCHANGED mapVars
  BY <1>1 DEF mapVars, MapInv, SetsRight, ScratchRight, WalkRight, Walked, Room, TotalLength,
     Pressed, ReportedKeysWerePressed, NotFoundIsRight, WalkDone, Result
<1>2. CASE wild = "no" /\ Application
  <2>1. CASE \E len \in Lengths : CreateFree(len)
    BY <1>2, <2>1, CreateFreeMapInv
  <2>2. CASE \E ok, infoOk \in BOOLEAN : CreateAllocate(ok, infoOk)
    BY <1>2, <2>2, CreateAllocateMapInv
  <2>3. CASE \E i \in Indices : RemoveKeyStrokesBuffer(i)
    BY <1>2, <2>3, RemoveKeyStrokesBufferMapInv
  <2>4. CASE GetKeyStrokes
    BY <1>2, <2>4, GetKeyStrokesMapInv
  <2>5. CASE WalkKey
    BY <1>2, <2>5, WalkKeyMapInv
  <2>6. CASE WalkEntry
    BY <1>2, <2>6, WalkEntryMapInv
  <2>7. CASE ReturnKeyStrokes
    BY <1>2, <2>7, ReturnKeyStrokesMapInv
  <2>8. CASE \E mods \in SUBSET MapModifier, k \in MapKeyCode, exact \in BOOLEAN :
               ReturnContainsKeyStrokes(mods, <<k>>, exact)
    BY <1>2, <2>8, ReturnContainsKeyStrokesMapInv
  <2> QED
    BY <1>2, <2>1, <2>2, <2>3, <2>4, <2>5, <2>6, <2>7, <2>8 DEF Application
<1>3. CASE wild = "no" /\ Notification
  <2>1. CASE \E i \in Indices, mods \in SUBSET MapModifier, keys \in KeySequences :
               SetKeyStrokeBufferKeys(i, mods, keys)
    <3>1. KeySequences \subseteq Seq(MapKeyCode)
      BY KeyMapAssumption, FunctionIsSeq DEF KeySequences
    <3> QED
      BY <1>3, <2>1, <3>1, SetKeyStrokeBufferKeysMapInv
  <2>2. CASE PollGetKeyStrokes
    BY <1>3, <2>2, PollGetKeyStrokesMapInv
  <2> QED
    BY <1>3, <2>1, <2>2 DEF Notification
<1> QED
  BY <1>1, <1>2, <1>3 DEF MapNext

LEMMA MapInvSuffices == MapInv => KeySetsRight
<1> SUFFICES ASSUME MapInv PROVE KeySetsRight
  OBVIOUS
<1>1. \A info \in Range(KeyStrokesInfoList) :
        /\ info.Index \in 0 .. NextKeyStrokeIndex /\ info.Length \in Lengths
        /\ info.Modifiers \subseteq MapModifier
        /\ info.KeyCodes \in Seq(MapKeyCode) /\ Len(info.KeyCodes) <= info.Length
  <2> SUFFICES ASSUME NEW p \in DOMAIN KeyStrokesInfoList
               PROVE  LET info == KeyStrokesInfoList[p]
                      IN  /\ info.Index \in 0 .. NextKeyStrokeIndex /\ info.Length \in Lengths
                          /\ info.Modifiers \subseteq MapModifier
                          /\ info.KeyCodes \in Seq(MapKeyCode) /\ Len(info.KeyCodes) <= info.Length
    BY DEF Range
  <2>1. /\ KeyStrokesInfoList[p].Index < NextKeyStrokeIndex /\ NextKeyStrokeIndex \in Nat
        /\ Len(KeyStrokesInfoList[p].KeyCodes) <= KeyStrokesInfoList[p].Length
    BY KeyMapAssumption DEF MapInv, SetsRight
  <2> QED
    BY <2>1, SetFacts DEF MapInv
<1>2. MapTypeOK
  BY <1>1 DEF MapInv, SetsRight, ScratchRight, MapTypeOK, Idle, Walks
<1> QED
  BY <1>2 DEF MapInv, ScratchRight, KeySetsRight, ScratchCoversSets, NeverBeyondScratch

\* The scratch buffer has room for all key sets at every time that it exists, however
\* creations, removals and failed allocations follow each other, so that no query writes
\* beyond it however the poll interrupts it; every key that a query of an application
\* reports was held at some time during the query; and keys said to be missing are: for
\* every number of sets and every length (OcAppleKeyMapLib.c:170-213, 230-244, 367-375,
\* 414-424, 489).
THEOREM KeySetsStayRight == MapSpec => []KeySetsRight
<1>1. MapInv /\ [MapNext]_mapVars => MapInv'
  BY MapInvStep
<1>2. MapInit => MapInv
  BY MapInitInv
<1>3. MapInv => KeySetsRight
  BY MapInvSuffices
<1> QED
  BY <1>1, <1>2, <1>3, PTL DEF MapSpec

----------------------------------------------------------------------------
(* The raw key ring. *)

\* The inductive invariant: neither part is inductive without the other, since
\* the pointers only stay inside the array while the size stays in range, and
\* the size only describes the pointers while they are inside the array.
IInv == TypeOK /\ PointersAgree

\* Incrementing a pointer that is inside the array keeps it inside.
LEMMA AdvanceInSlots ==
  ASSUME NEW p \in Slots
  PROVE  Advance(p) \in Slots
  BY BufferAssumption DEF Advance, Slots

\* The slots of two different stored keys are different, and none of them is
\* the one the next key is written to unless the buffer is full.
LEMMA SlotFacts ==
  ASSUME IInv
  PROVE  /\ \A i \in 0 .. AIK_DATA_BUFFER_SIZE : Slot(i) \in Slots
         /\ \A i \in 0 .. (AIK_DATA_BUFFER_SIZE - 1) :
              \A j \in 0 .. (AIK_DATA_BUFFER_SIZE - 1) :
                 Slot(i) = Slot(j) => i = j
         /\ \A i \in 0 .. (AIK_DATA_BUFFER_SIZE - 1) :
               Advance(Slot(i)) = Slot(i + 1)
  BY BufferAssumption DEF IInv, TypeOK, Slot, Slots, Advance

\* When the tail moves on, what was the (j+1)-th slot becomes the j-th.
LEMMA TailMoves ==
  ASSUME IInv, KeyBufferTail' = Advance(KeyBufferTail)
  PROVE  \A j \in 0 .. (AIK_DATA_BUFFER_SIZE - 1) : Slot(j)' = Slot(j + 1)
  BY BufferAssumption DEF IInv, TypeOK, Slot, Slots, Advance

LEMMA InitIInv == Init => IInv
  BY BufferAssumption DEF Init, IInv, TypeOK, PointersAgree, Slot, Slots

LEMMA ResetKeepsIInv == IInv /\ AIKDataReset => IInv'
  BY BufferAssumption
  DEF IInv, TypeOK, PointersAgree, AIKDataReset, Slot, Slots

LEMMA ReadKeepsIInv == IInv /\ AIKDataReadEntry => IInv'
<1> SUFFICES ASSUME IInv, AIKDataReadEntry PROVE IInv'
  OBVIOUS
<1>1. CASE AIKDataEmpty
  BY <1>1, BufferAssumption
  DEF IInv, TypeOK, PointersAgree, AIKDataReadEntry, Slot, Slots, AIKDataEmpty
<1>2. CASE ~AIKDataEmpty
  <2>1. /\ KeyData' = KeyBuffer[KeyBufferTail]
        /\ KeyBufferSize' = KeyBufferSize - 1
        /\ KeyBufferTail' = Advance(KeyBufferTail)
        /\ UNCHANGED <<KeyBuffer, KeyBufferHead>>
    BY <1>2 DEF AIKDataReadEntry
  <2>2. KeyBufferSize \in 1 .. AIK_DATA_BUFFER_SIZE
    BY <1>2, BufferAssumption DEF IInv, TypeOK, AIKDataEmpty
  <2>3. TypeOK'
    BY <2>1, <2>2, AdvanceInSlots, BufferAssumption DEF IInv, TypeOK, Slots
  <2>4. \A i \in 0 .. (AIK_DATA_BUFFER_SIZE - 1) : Slot(i)' = Slot(i + 1)
    BY <2>1, TailMoves
  <2>5. PointersAgree'
    BY <2>1, <2>2, <2>4, BufferAssumption DEF IInv, TypeOK, PointersAgree, Slots
  <2> QED BY <2>3, <2>5 DEF IInv
<1> QED BY <1>1, <1>2

LEMMA WriteKeepsIInv ==
  ASSUME NEW k \in Key, IInv, AIKDataWriteEntry(k)
  PROVE  IInv'
<1>1. TypeOK'
  <2>1. Advance(KeyBufferHead) \in Slots /\ Advance(KeyBufferTail) \in Slots
    BY AdvanceInSlots DEF IInv, TypeOK
  <2>2. KeyBufferHead' \in Slots /\ KeyBufferTail' \in Slots
    BY <2>1 DEF IInv, TypeOK, AIKDataWriteEntry
  <2>3. KeyBufferSize' \in 0 .. AIK_DATA_BUFFER_SIZE
    BY BufferAssumption DEF IInv, TypeOK, AIKDataWriteEntry
  <2>4. KeyBuffer' \in [Slots -> Key \cup {NoKey}] /\ KeyData' = KeyData
    BY DEF IInv, TypeOK, AIKDataWriteEntry
  <2> QED BY <2>2, <2>3, <2>4 DEF IInv, TypeOK
<1>2. CASE KeyBufferSize = AIK_DATA_BUFFER_SIZE
  <2>1. /\ KeyBufferTail' = Advance(KeyBufferTail)
        /\ KeyBufferHead' = Advance(KeyBufferHead)
        /\ KeyBufferSize' = AIK_DATA_BUFFER_SIZE
        /\ KeyBuffer' = [KeyBuffer EXCEPT ![KeyBufferHead] = k]
    BY <1>2 DEF AIKDataWriteEntry
  <2>2. KeyBufferHead = KeyBufferTail
    BY <1>2, BufferAssumption DEF IInv, TypeOK, PointersAgree, Slot, Slots
  <2>3. Slot(KeyBufferSize)' = KeyBufferHead'
    BY <2>1, <2>2, BufferAssumption DEF IInv, TypeOK, Slot, Slots, Advance
  <2>4. \A i \in 0 .. (AIK_DATA_BUFFER_SIZE - 2) : Slot(i)' = Slot(i + 1)
    BY <2>1, BufferAssumption DEF IInv, TypeOK, Slot, Slots, Advance
  <2>5. Slot(AIK_DATA_BUFFER_SIZE - 1)' = KeyBufferHead
    BY <2>1, <2>2, BufferAssumption DEF IInv, TypeOK, Slot, Slots, Advance
  <2>6. \A i \in 0 .. (AIK_DATA_BUFFER_SIZE - 1) : KeyBuffer'[Slot(i)'] \in Key
    <3> TAKE i \in 0 .. (AIK_DATA_BUFFER_SIZE - 1)
    <3>1. CASE i = AIK_DATA_BUFFER_SIZE - 1
      BY <3>1, <2>1, <2>5 DEF IInv, TypeOK
    <3>2. CASE i # AIK_DATA_BUFFER_SIZE - 1
      <4>1. i \in 0 .. (AIK_DATA_BUFFER_SIZE - 2)
        BY <3>2, BufferAssumption
      <4>2. KeyBuffer[Slot(i + 1)] \in Key
        BY <4>1, <1>2, BufferAssumption DEF IInv, PointersAgree
      <4>3. Slot(i + 1) \in Slots
        BY <4>1, SlotFacts, BufferAssumption
      <4> QED BY <4>1, <4>2, <4>3, <2>1, <2>4 DEF IInv, TypeOK
    <3> QED BY <3>1, <3>2
  <2> QED BY <1>1, <2>1, <2>3, <2>6 DEF IInv, PointersAgree
<1>3. CASE KeyBufferSize # AIK_DATA_BUFFER_SIZE
  <2>1. /\ KeyBufferTail' = KeyBufferTail
        /\ KeyBufferHead' = Advance(KeyBufferHead)
        /\ KeyBufferSize' = KeyBufferSize + 1
        /\ KeyBuffer' = [KeyBuffer EXCEPT ![KeyBufferHead] = k]
    BY <1>3 DEF AIKDataWriteEntry
  <2>2. KeyBufferSize \in 0 .. (AIK_DATA_BUFFER_SIZE - 1)
    BY <1>3, BufferAssumption DEF IInv, TypeOK
  <2>3. \A i \in 0 .. AIK_DATA_BUFFER_SIZE : Slot(i)' = Slot(i)
    BY <2>1 DEF Slot
  <2>4. Slot(KeyBufferSize) = KeyBufferHead
    BY DEF IInv, PointersAgree
  <2>5. Slot(KeyBufferSize)' = KeyBufferHead'
    BY <2>1, <2>2, <2>4, BufferAssumption
    DEF IInv, TypeOK, Slot, Slots, Advance
  <2>6. \A i \in 0 .. KeyBufferSize : KeyBuffer'[Slot(i)'] \in Key
    BY <2>1, <2>2, <2>3, <2>4, SlotFacts, BufferAssumption
    DEF IInv, TypeOK, PointersAgree
  <2> QED BY <1>1, <2>1, <2>2, <2>5, <2>6, BufferAssumption
          DEF IInv, PointersAgree
<1> QED BY <1>2, <1>3

LEMMA NextKeepsIInv == IInv /\ [Next]_vars => IInv'
<1> SUFFICES ASSUME IInv, [Next]_vars PROVE IInv'
  OBVIOUS
<1>1. CASE AIKDataReset
  BY <1>1, ResetKeepsIInv
<1>2. CASE AIKDataReadEntry
  BY <1>2, ReadKeepsIInv
<1>3. ASSUME NEW k \in Key, AIKDataWriteEntry(k) PROVE IInv'
  BY <1>3, WriteKeepsIInv
<1>4. CASE UNCHANGED vars
  BY <1>4 DEF IInv, TypeOK, PointersAgree, Slot, vars
<1> QED BY <1>1, <1>2, <1>3, <1>4 DEF Next

\* The pointers and the size of the ring always agree and every slot between
\* the pointers holds a stored key, whatever sequence of resets, reads and
\* writes ran (AIKData.c:20-81), for every buffer size.
THEOREM RingConsistent == Spec => [](TypeOK /\ PointersAgree)
<1>1. Spec => []IInv
  BY InitIInv, NextKeepsIInv, PTL DEF Spec
<1> QED BY <1>1, PTL DEF IInv

----------------------------------------------------------------------------
(* Refinement.  The keys between the pointers, oldest first, are the queue. *)

\* What is known of the queue: its length and each of its elements.
StoredFacts ==
  /\ Stored \in Seq(Key)
  /\ Len(Stored) = KeyBufferSize
  /\ \A i \in 1 .. KeyBufferSize : Stored[i] = KeyBuffer[Slot(i - 1)]

\* The slots between the pointers hold keys, so they form a sequence of keys.
LEMMA StoredIsSeq == IInv => StoredFacts
<1> SUFFICES ASSUME IInv PROVE StoredFacts
  OBVIOUS
<1>1. KeyBufferSize \in Nat
  BY BufferAssumption DEF IInv, TypeOK
<1>2. \A i \in 1 .. KeyBufferSize : KeyBuffer[Slot(i - 1)] \in Key
  BY <1>1 DEF IInv, PointersAgree
<1> QED BY <1>1, <1>2 DEF Stored, StoredFacts

\* The same in the next state.
LEMMA StoredIsSeqNext == IInv' => StoredFacts'
  BY StoredIsSeq, PTL

\* A sequence that is s without its first element is Tail(s).
LEMMA IsTail ==
  ASSUME NEW S, NEW s \in Seq(S), s # << >>, NEW t \in Seq(S),
         Len(t) = Len(s) - 1, \A i \in 1 .. Len(t) : t[i] = s[i + 1]
  PROVE  t = Tail(s)
<1>1. /\ Tail(s) \in Seq(S)
      /\ Len(Tail(s)) = Len(s) - 1
      /\ \A i \in 1 .. Len(Tail(s)) : Tail(s)[i] = s[i + 1]
  BY HeadTailProperties
<1> QED BY <1>1, SeqEqual

\* A sequence that is s followed by one more element is an Append.
LEMMA IsAppend ==
  ASSUME NEW S, NEW s \in Seq(S), NEW e \in S, NEW t \in Seq(S),
         Len(t) = Len(s) + 1, \A i \in 1 .. Len(s) : t[i] = s[i],
         t[Len(s) + 1] = e
  PROVE  t = Append(s, e)
<1>1. /\ Append(s, e) \in Seq(S)
      /\ Len(Append(s, e)) = Len(s) + 1
      /\ \A i \in 1 .. Len(s) : Append(s, e)[i] = s[i]
      /\ Append(s, e)[Len(s) + 1] = e
  BY AppendProperties
<1>2. \A i \in 1 .. Len(t) : t[i] = Append(s, e)[i]
  BY <1>1
<1> QED BY <1>1, <1>2, SeqEqual

\* A read takes the head of the queue, or reports that there is none.
LEMMA ReadRefines ==
  ASSUME IInv, IInv', AIKDataReadEntry
  PROVE  Fifo!Get
<1>0. StoredFacts /\ StoredFacts'
  BY StoredIsSeq, StoredIsSeqNext
<1>1. CASE AIKDataEmpty
  <2>1. Stored = << >>
    BY <1>0, <1>1 DEF AIKDataEmpty, StoredFacts
  <2>2. Stored' = Stored /\ KeyData' = NoKey
    BY <1>1 DEF AIKDataReadEntry, Stored, Slot
  <2> QED BY <2>1, <2>2 DEF Fifo!Get
<1>2. CASE ~AIKDataEmpty
  <2>1. /\ KeyData' = KeyBuffer[KeyBufferTail]
        /\ KeyBufferSize' = KeyBufferSize - 1
        /\ KeyBufferTail' = Advance(KeyBufferTail)
        /\ KeyBuffer' = KeyBuffer
    BY <1>2 DEF AIKDataReadEntry
  <2>2. KeyBufferSize \in 1 .. AIK_DATA_BUFFER_SIZE
    BY <1>2, BufferAssumption DEF IInv, TypeOK, AIKDataEmpty
  <2>3. Stored \in Seq(Key) /\ Len(Stored) = KeyBufferSize /\ Stored # << >>
    BY <1>0, <2>2 DEF StoredFacts
  <2>4. Head(Stored) = KeyBuffer[KeyBufferTail]
    <3>1. Slot(0) = KeyBufferTail
      BY BufferAssumption DEF IInv, TypeOK, Slot, Slots
    <3>2. Stored[1] = KeyBuffer[Slot(0)]
      BY <1>0, <2>2 DEF StoredFacts
    <3> QED BY <3>1, <3>2, <2>3
  <2>5. \A j \in 0 .. (AIK_DATA_BUFFER_SIZE - 1) : Slot(j)' = Slot(j + 1)
    BY <2>1, TailMoves
  <2>6. \A i \in 1 .. Len(Stored') : Stored'[i] = Stored[i + 1]
    <3> TAKE i \in 1 .. Len(Stored')
    <3>1. i \in 1 .. (KeyBufferSize - 1)
      BY <1>0, <2>1 DEF StoredFacts
    <3>2. Stored'[i] = KeyBuffer[Slot(i - 1)']
      BY <1>0, <2>1, <3>1 DEF StoredFacts
    <3>3. Slot(i - 1)' = Slot(i - 1 + 1)
      BY <2>2, <2>5, <3>1, BufferAssumption
    <3>4. Stored[i + 1] = KeyBuffer[Slot(i + 1 - 1)]
      BY <1>0, <2>2, <3>1, BufferAssumption DEF StoredFacts
    <3>5. i - 1 + 1 = i /\ i + 1 - 1 = i
      BY <3>1, <2>2
    <3> QED BY <3>2, <3>3, <3>4, <3>5
  <2>7. Stored' \in Seq(Key) /\ Len(Stored') = Len(Stored) - 1
    BY <1>0, <2>1 DEF StoredFacts
  <2>8. Stored' = Tail(Stored)
    BY <2>3, <2>6, <2>7, IsTail
  <2> QED BY <2>1, <2>3, <2>4, <2>8 DEF Fifo!Get
<1> QED BY <1>1, <1>2

\* A write appends its key; when the ring is full, to the queue without its head.
LEMMA WriteRefines ==
  ASSUME NEW k \in Key, IInv, IInv', AIKDataWriteEntry(k)
  PROVE  Fifo!Put(k)
<1>0. StoredFacts /\ StoredFacts'
  BY StoredIsSeq, StoredIsSeqNext
<1>1. /\ KeyBuffer' = [KeyBuffer EXCEPT ![KeyBufferHead] = k]
      /\ KeyBuffer \in [Slots -> Key \cup {NoKey}]
      /\ KeyBufferHead \in Slots
      /\ KeyData' = KeyData
  BY DEF AIKDataWriteEntry, IInv, TypeOK
<1>2. CASE KeyBufferSize = AIK_DATA_BUFFER_SIZE
  <2>1. /\ KeyBufferTail' = Advance(KeyBufferTail)
        /\ KeyBufferSize' = AIK_DATA_BUFFER_SIZE
    BY <1>2 DEF AIKDataWriteEntry
  <2>2. KeyBufferHead = KeyBufferTail
    BY <1>2, BufferAssumption DEF IInv, TypeOK, PointersAgree, Slot, Slots
  <2>3. /\ Stored \in Seq(Key) /\ Len(Stored) = AIK_DATA_BUFFER_SIZE
        /\ Stored # << >>
        /\ Stored' \in Seq(Key) /\ Len(Stored') = AIK_DATA_BUFFER_SIZE
    BY <1>0, <1>2, <2>1, BufferAssumption DEF StoredFacts
  <2>4. /\ Tail(Stored) \in Seq(Key)
        /\ Len(Tail(Stored)) = AIK_DATA_BUFFER_SIZE - 1
        /\ \A i \in 1 .. (AIK_DATA_BUFFER_SIZE - 1) : Tail(Stored)[i] = Stored[i + 1]
    BY <2>3, HeadTailProperties
  <2>5. \A j \in 0 .. (AIK_DATA_BUFFER_SIZE - 2) :
           Slot(j)' = Slot(j + 1) /\ Slot(j + 1) # KeyBufferHead
                                 /\ Slot(j + 1) \in Slots
    BY <2>1, <2>2, BufferAssumption DEF IInv, TypeOK, Slot, Slots, Advance
  <2>6. \A i \in 1 .. (AIK_DATA_BUFFER_SIZE - 1) : Stored'[i] = Tail(Stored)[i]
    <3> TAKE i \in 1 .. (AIK_DATA_BUFFER_SIZE - 1)
    <3>1. i - 1 \in 0 .. (AIK_DATA_BUFFER_SIZE - 2) /\ i - 1 + 1 = i /\ i + 1 - 1 = i
          /\ i \in 1 .. AIK_DATA_BUFFER_SIZE /\ i + 1 \in 1 .. AIK_DATA_BUFFER_SIZE
      BY BufferAssumption
    <3>2. Stored'[i] = KeyBuffer'[Slot(i - 1)']
      BY <1>0, <2>1, <3>1 DEF StoredFacts
    <3>3. Slot(i - 1)' = Slot(i) /\ Slot(i) # KeyBufferHead /\ Slot(i) \in Slots
      BY <2>5, <3>1
    <3>4. Stored[i + 1] = KeyBuffer[Slot(i)]
      BY <1>0, <1>2, <3>1 DEF StoredFacts
    <3> QED BY <1>1, <2>4, <3>2, <3>3, <3>4
  <2>7. Stored'[AIK_DATA_BUFFER_SIZE] = k
    <3>1. Slot(AIK_DATA_BUFFER_SIZE - 1)' = KeyBufferHead
      BY <2>1, <2>2, BufferAssumption DEF IInv, TypeOK, Slot, Slots, Advance
    <3>2. Stored'[AIK_DATA_BUFFER_SIZE] = KeyBuffer'[Slot(AIK_DATA_BUFFER_SIZE - 1)']
      BY <1>0, <2>1, BufferAssumption DEF StoredFacts
    <3> QED BY <1>1, <3>1, <3>2
  <2>8. Stored' = Append(Tail(Stored), k)
    <3>1. Len(Tail(Stored)) + 1 = AIK_DATA_BUFFER_SIZE
      BY <2>4, BufferAssumption
    <3> QED BY <2>3, <2>4, <2>6, <2>7, <3>1, IsAppend
  <2> QED BY <1>1, <2>3, <2>8 DEF Fifo!Put
<1>3. CASE KeyBufferSize # AIK_DATA_BUFFER_SIZE
  <2>1. /\ KeyBufferTail' = KeyBufferTail
        /\ KeyBufferSize' = KeyBufferSize + 1
    BY <1>3 DEF AIKDataWriteEntry
  <2>2. KeyBufferSize \in 0 .. (AIK_DATA_BUFFER_SIZE - 1)
    BY <1>3, BufferAssumption DEF IInv, TypeOK
  <2>3. /\ Stored \in Seq(Key) /\ Len(Stored) = KeyBufferSize
        /\ Stored' \in Seq(Key) /\ Len(Stored') = Len(Stored) + 1
        /\ Len(Stored) # AIK_DATA_BUFFER_SIZE
    BY <1>0, <1>3, <2>1 DEF StoredFacts
  <2>4. \A j \in 0 .. AIK_DATA_BUFFER_SIZE : Slot(j)' = Slot(j)
    BY <2>1 DEF Slot
  <2>5. \A i \in 1 .. Len(Stored) : Stored'[i] = Stored[i]
    <3> TAKE i \in 1 .. Len(Stored)
    <3>1. i - 1 \in 0 .. (AIK_DATA_BUFFER_SIZE - 1) /\ i \in 1 .. KeyBufferSize
          /\ i \in 1 .. (KeyBufferSize + 1) /\ i - 1 # KeyBufferSize
      BY <2>2, <2>3, BufferAssumption
    <3>2. Slot(i - 1) \in Slots /\ Slot(i - 1) # KeyBufferHead
      BY <2>2, <3>1, SlotFacts, BufferAssumption DEF IInv, PointersAgree
    <3>3. Stored'[i] = KeyBuffer'[Slot(i - 1)] /\ Stored[i] = KeyBuffer[Slot(i - 1)]
      BY <1>0, <2>1, <2>4, <3>1, BufferAssumption DEF StoredFacts
    <3> QED BY <1>1, <3>2, <3>3
  <2>6. Stored'[Len(Stored) + 1] = k
    <3> SUFFICES ASSUME NEW n \in Nat, n = KeyBufferSize
                 PROVE  Stored'[n + 1] = k
      BY <2>2, <2>3
    <3>1. Slot(n)' = KeyBufferHead
      <4>1. Slot(n) = KeyBufferHead
        BY DEF IInv, PointersAgree
      <4>2. Slot(n)' = Slot(n)
        BY <2>1 DEF Slot
      <4> QED BY <4>1, <4>2
    <3>2. n + 1 \in 1 .. KeyBufferSize' /\ n + 1 - 1 = n
      BY <2>1
    <3>3. Stored'[n + 1] = KeyBuffer'[Slot(n)']
      BY <1>0, <3>2 DEF StoredFacts
    <3> QED BY <1>1, <3>1, <3>3
  <2>7. Stored' = Append(Stored, k)
    BY <2>3, <2>5, <2>6, IsAppend
  <2> QED BY <1>1, <2>3, <2>7 DEF Fifo!Put
<1> QED BY <1>2, <1>3

\* A reset empties the queue.
LEMMA ResetRefines ==
  ASSUME IInv', AIKDataReset
  PROVE  Fifo!Clear
<1>1. StoredFacts' /\ KeyBufferSize' = 0 /\ KeyData' = KeyData
  BY StoredIsSeqNext DEF AIKDataReset
<1>2. Stored' = << >>
  BY <1>1 DEF StoredFacts
<1> QED BY <1>1, <1>2 DEF Fifo!Clear

\* The ring buffer of any size implements the bounded queue that gives up its
\* oldest key only when it is full (AIKData.c:20-81).
THEOREM RingImplementsQueue == Spec => ImplementsKeyFifo
<1>1. Init => Fifo!Init
  <2> SUFFICES ASSUME Init PROVE Fifo!Init
    OBVIOUS
  <2>1. StoredFacts /\ KeyBufferSize = 0 /\ KeyData = NoKey
    BY InitIInv, StoredIsSeq DEF Init
  <2> QED BY <2>1 DEF Fifo!Init, StoredFacts
<1>2. IInv /\ IInv' /\ [Next]_vars => [Fifo!Next]_(Fifo!vars)
  <2> SUFFICES ASSUME IInv, IInv', [Next]_vars PROVE [Fifo!Next]_(Fifo!vars)
    OBVIOUS
  <2>1. CASE AIKDataReset
    BY <2>1, ResetRefines DEF Fifo!Next
  <2>2. CASE AIKDataReadEntry
    BY <2>2, ReadRefines DEF Fifo!Next
  <2>3. ASSUME NEW k \in Key, AIKDataWriteEntry(k) PROVE Fifo!Next
    BY <2>3, WriteRefines DEF Fifo!Next
  <2>4. CASE UNCHANGED vars
    BY <2>4 DEF vars, Fifo!vars, Stored, Slot
  <2> QED BY <2>1, <2>2, <2>3, <2>4 DEF Next
<1>3. Spec => []IInv
  BY InitIInv, NextKeepsIInv, PTL DEF Spec
<1> QED BY <1>1, <1>2, <1>3, PTL DEF Spec, Fifo!Spec, ImplementsKeyFifo

----------------------------------------------------------------------------
(* The raw key ring under preemption. *)

N == AIK_DATA_BUFFER_SIZE

\* The slot i places behind slot t.
At(t, i) == IF t + i < N THEN t + i ELSE t + i - N

LEMMA AtFacts ==
  ASSUME NEW t \in Slots
  PROVE  /\ Advance(t) \in Slots /\ At(t, 0) = t
         /\ \A i \in 0 .. N : At(t, i) \in Slots
         /\ \A i, j \in 0 .. (N - 1) : At(t, i) = At(t, j) => i = j
         /\ \A i \in 0 .. (N - 1) : /\ Advance(At(t, i)) = At(t, i + 1)
                                    /\ At(Advance(t), i) = At(t, i + 1)
BY BufferAssumption DEF Slots, Advance, At, N

\* A ring whose oldest key is in slot t and which has room for its next key in slot head
\* holds the keys of q.
Holds(buffer, head, t, q) ==
  /\ q \in Seq(Key) /\ Len(q) <= N /\ t \in Slots
  /\ buffer \in [Slots -> Key \cup {NoKey}]
  /\ head = At(t, Len(q))
  /\ \A i \in 1 .. Len(q) : buffer[At(t, i - 1)] = q[i]

LEMMA TakeFirst ==
  ASSUME NEW buffer, NEW head, NEW t, NEW q, Holds(buffer, head, t, q), q # << >>
  PROVE  Holds(buffer, head, Advance(t), Tail(q)) /\ Len(Tail(q)) = Len(q) - 1
<1>1. PICK n \in Nat : n = Len(q) /\ n # 0 /\ n <= N
  BY LenProperties, EmptySeq DEF Holds
<1>2. /\ Tail(q) \in Seq(Key) /\ Len(Tail(q)) = n - 1
      /\ \A i \in 1 .. (n - 1) : Tail(q)[i] = q[i + 1]
  BY <1>1 DEF Holds
<1>3. /\ Advance(t) \in Slots
      /\ \A i \in 0 .. (N - 1) : At(Advance(t), i) = At(t, i + 1)
  BY AtFacts DEF Holds
<1>4. N \in Nat
  BY BufferAssumption DEF N
<1>5. head = At(Advance(t), n - 1)
  BY <1>1, <1>3, <1>4 DEF Holds
<1>6. ASSUME NEW i \in 1 .. (n - 1)
      PROVE  buffer[At(Advance(t), i - 1)] = Tail(q)[i]
  <2>1. i - 1 \in 0 .. (N - 1) /\ i + 1 \in 1 .. n /\ (i - 1) + 1 = (i + 1) - 1
    BY <1>1, <1>4
  <2>2. buffer[At(t, (i + 1) - 1)] = q[i + 1]
    BY <1>1, <2>1 DEF Holds
  <2>3. At(Advance(t), i - 1) = At(t, (i - 1) + 1)
    BY <1>3, <2>1
  <2> QED
    BY <1>2, <2>1, <2>2, <2>3
<1> QED
  BY <1>1, <1>2, <1>3, <1>4, <1>5, <1>6 DEF Holds

LEMMA PutLast ==
  ASSUME NEW buffer, NEW head, NEW t, NEW q, Holds(buffer, head, t, q), Len(q) < N, NEW k \in Key
  PROVE  Holds([buffer EXCEPT ![head] = k], Advance(head), t, Append(q, k))
<1> DEFINE new == [buffer EXCEPT ![head] = k]
           more == Append(q, k)
<1>1. PICK n \in Nat : n = Len(q) /\ n < N
  BY LenProperties DEF Holds
<1>2. /\ more \in Seq(Key) /\ Len(more) = n + 1
      /\ \A i \in 1 .. n : more[i] = q[i]
      /\ more[n + 1] = k
  BY <1>1, AppendFacts DEF Holds
<1>3. /\ \A i \in 0 .. N : At(t, i) \in Slots
      /\ \A i, j \in 0 .. (N - 1) : At(t, i) = At(t, j) => i = j
      /\ \A i \in 0 .. (N - 1) : Advance(At(t, i)) = At(t, i + 1)
  BY AtFacts DEF Holds
<1>4. N \in Nat
  BY BufferAssumption DEF N
<1>5. /\ head = At(t, n) /\ head \in Slots /\ Advance(head) = At(t, n + 1)
      /\ n \in 0 .. (N - 1)
  BY <1>1, <1>3, <1>4 DEF Holds
<1>6. /\ new \in [Slots -> Key \cup {NoKey}] /\ new[head] = k
      /\ \A s \in Slots : s # head => new[s] = buffer[s]
  BY <1>5 DEF Holds
<1> HIDE DEF new, more
<1>7. ASSUME NEW i \in 1 .. (n + 1)
      PROVE  new[At(t, i - 1)] = more[i]
  <2>1. CASE i = n + 1
    <3>1. i - 1 = n
      BY <2>1
    <3> QED
      BY <1>2, <1>5, <1>6, <2>1, <3>1
  <2>2. CASE i # n + 1
    <3>1. i \in 1 .. n /\ i - 1 \in 0 .. (N - 1) /\ i - 1 # n
      BY <1>1, <1>4, <2>2
    <3>2. At(t, i - 1) # head /\ At(t, i - 1) \in Slots
      BY <1>3, <1>4, <1>5, <3>1
    <3>3. buffer[At(t, i - 1)] = q[i]
      BY <1>1, <3>1 DEF Holds
    <3> QED
      BY <1>2, <1>6, <3>1, <3>2, <3>3
  <2> QED
    BY <2>1, <2>2
<1>8. t \in Slots /\ n + 1 <= N
  BY <1>1, <1>4 DEF Holds
<1> QED
  BY <1>2, <1>5, <1>6, <1>7, <1>8 DEF Holds, new, more

----------------------------------------------------------------------------
\* What holds of the ring at every time: only the wrap may find the tail outside the array.
RingTypes ==
  /\ pKeyBuffer \in [Slots -> Key \cup {NoKey}] /\ pKeyBufferHead \in Slots
  /\ pKeyBufferTail \in 0 .. N + 1 /\ (ppc # "wrap" => pKeyBufferTail \in Slots)
  /\ pKeyBufferSize \in 0 .. N /\ (ppc = "shrink" => pKeyBufferSize # 0)
  /\ pKeyData \in Key \cup {NoKey} /\ interfered \in BOOLEAN
  /\ ppc \in {"idle", "shrink", "advance", "wrap", "clear"}
  /\ unread \in Seq(Key) /\ Len(unread) <= N

\* Where a read in progress leaves the tail and the size once it has ended.
TailAfter ==
  CASE ppc \in {"idle", "clear"} -> pKeyBufferTail
    [] ppc \in {"shrink", "advance"} -> Advance(pKeyBufferTail)
    [] ppc = "wrap" -> IF pKeyBufferTail = N THEN 0 ELSE pKeyBufferTail
SizeAfter == IF ppc = "shrink" THEN pKeyBufferSize - 1 ELSE pKeyBufferSize

\* Unless the timer interfered, the ring is the queue of unread keys for a read that has
\* ended, and a reset that has begun has emptied it but for the size.
RingInv ==
  /\ RingTypes
  /\ ~interfered =>
       /\ pKeyBufferTail <= N
       /\ ppc # "clear" => /\ Holds(pKeyBuffer, pKeyBufferHead, TailAfter, unread)
                           /\ Len(unread) = SizeAfter
       /\ ppc = "clear" => pKeyBufferHead = 0 /\ pKeyBufferTail = 0

LEMMA RingInit == Preempted!PInit => RingInv
<1> SUFFICES ASSUME Preempted!PInit PROVE RingInv
  OBVIOUS
<1>1. /\ pKeyBuffer = [s \in Slots |-> NoKey] /\ pKeyBufferHead = 0 /\ pKeyBufferTail = 0
      /\ pKeyBufferSize = 0 /\ pKeyData = NoKey
      /\ ppc = "idle" /\ unread = << >> /\ interfered = FALSE
  BY DEF Preempted!PInit, Preempted!Init, Preempted!Slots, Slots
<1>2. 0 \in Slots /\ N \in Nat /\ N # 0
  BY BufferAssumption DEF Slots, N
<1>3. << >> \in Seq(Key) /\ Len(<< >>) = 0
  BY EmptySeq
<1>4. RingTypes
  BY <1>1, <1>2, <1>3 DEF RingTypes
<1>5. Holds(pKeyBuffer, 0, 0, << >>)
  BY <1>1, <1>2, <1>3, AtFacts DEF Holds
<1> QED
  BY <1>1, <1>2, <1>3, <1>4, <1>5 DEF RingInv, TailAfter, SizeAfter

LEMMA RingFacts ==
  ASSUME RingInv
  PROVE  /\ N \in Nat /\ N # 0 /\ 0 \in Slots /\ Slots = 0 .. (N - 1)
         /\ \A t \in Slots : Advance(t) \in Slots /\ Advance(t) = IF t + 1 = N THEN 0 ELSE t + 1
         /\ Len(unread) \in Nat /\ (unread = << >> <=> Len(unread) = 0)
  BY BufferAssumption, AtFacts, LenProperties, EmptySeq DEF RingInv, RingTypes, Slots, N, Advance

LEMMA ReadCopyRing ==
  ASSUME RingInv, Preempted!ReadCopy
  PROVE  RingInv'
<1>1. /\ ppc = "idle"
      /\ UNCHANGED <<pKeyBuffer, pKeyBufferHead, pKeyBufferTail, pKeyBufferSize, interfered>>
  BY DEF Preempted!ReadCopy, Preempted!Elsewhere
<1>2. CASE pKeyBufferSize = 0
  <2>1. pKeyData' = NoKey /\ UNCHANGED <<ppc, unread>>
    BY <1>2 DEF Preempted!ReadCopy, Preempted!AIKDataEmpty
  <2> QED
    BY <1>1, <2>1 DEF RingInv, RingTypes, TailAfter, SizeAfter
<1>3. CASE pKeyBufferSize # 0
  <2>1. /\ pKeyData' = pKeyBuffer[pKeyBufferTail] /\ ppc' = "shrink"
        /\ unread' = IF unread = << >> THEN unread ELSE Tail(unread)
    BY <1>3 DEF Preempted!ReadCopy, Preempted!AIKDataEmpty
  <2>2. unread # << >> => Tail(unread) \in Seq(Key) /\ Len(Tail(unread)) = Len(unread) - 1
    BY RingFacts DEF RingInv, RingTypes
  <2>3. unread' \in Seq(Key) /\ Len(unread') <= N
    BY <2>1, <2>2, RingFacts DEF RingInv, RingTypes
  <2>4. RingTypes'
    BY <1>1, <1>3, <2>1, <2>3 DEF RingInv, RingTypes
  <2>5. ASSUME ~interfered
        PROVE  /\ Holds(pKeyBuffer, pKeyBufferHead, Advance(pKeyBufferTail), Tail(unread))
               /\ Len(Tail(unread)) = pKeyBufferSize - 1 /\ unread # << >>
    <3>1. Holds(pKeyBuffer, pKeyBufferHead, pKeyBufferTail, unread) /\ Len(unread) = pKeyBufferSize
      BY <1>1, <2>5 DEF RingInv, TailAfter, SizeAfter
    <3>2. unread # << >>
      BY <1>3, <3>1, RingFacts
    <3> QED
      BY <3>1, <3>2, TakeFirst
  <2> QED
    BY <1>1, <2>1, <2>4, <2>5 DEF RingInv, TailAfter, SizeAfter
<1> QED
  BY <1>2, <1>3

LEMMA ReadShrinkRing ==
  ASSUME RingInv, Preempted!ReadShrink
  PROVE  RingInv'
<1>1. /\ ppc = "shrink" /\ ppc' = "advance" /\ pKeyBufferSize' = pKeyBufferSize - 1
      /\ UNCHANGED <<pKeyBuffer, pKeyBufferHead, pKeyBufferTail, pKeyData, unread, interfered>>
  BY DEF Preempted!ReadShrink, Preempted!Elsewhere
<1>2. RingTypes'
  BY <1>1, RingFacts DEF RingInv, RingTypes
<1> QED
  BY <1>1, <1>2 DEF RingInv, TailAfter, SizeAfter

LEMMA ReadAdvanceRing ==
  ASSUME RingInv, Preempted!ReadAdvance
  PROVE  RingInv'
<1>1. /\ ppc = "advance" /\ ppc' = "wrap" /\ pKeyBufferTail' = pKeyBufferTail + 1
      /\ UNCHANGED <<pKeyBuffer, pKeyBufferHead, pKeyBufferSize, pKeyData, unread, interfered>>
  BY DEF Preempted!ReadAdvance, Preempted!Elsewhere
<1>2. pKeyBufferTail \in Slots /\ pKeyBufferTail' \in 0 .. N
  BY <1>1, RingFacts DEF RingInv, RingTypes
<1>3. RingTypes'
  <2>1. pKeyBufferTail' \in 0 .. N + 1
    BY <1>2, RingFacts
  <2> QED
    BY <1>1, <2>1 DEF RingInv, RingTypes
<1>4. TailAfter' = TailAfter /\ SizeAfter' = SizeAfter /\ pKeyBufferTail' <= N
  BY <1>1, <1>2, RingFacts DEF TailAfter, SizeAfter
<1> QED
  BY <1>1, <1>3, <1>4 DEF RingInv

LEMMA ReadWrapRing ==
  ASSUME RingInv, Preempted!ReadWrap
  PROVE  RingInv'
<1>1. /\ ppc = "wrap" /\ ppc' = "idle" /\ pKeyBufferTail <= N
      /\ pKeyBufferTail' = IF pKeyBufferTail = N THEN 0 ELSE pKeyBufferTail
      /\ UNCHANGED <<pKeyBuffer, pKeyBufferHead, pKeyBufferSize, pKeyData, unread, interfered>>
  BY DEF Preempted!ReadWrap, Preempted!Elsewhere, Preempted!Inside, N
<1>2. pKeyBufferTail' \in Slots /\ pKeyBufferTail' <= N
  BY <1>1, RingFacts DEF RingInv, RingTypes
<1>3. RingTypes'
  <2>1. pKeyBufferTail' \in 0 .. N + 1
    BY <1>2, RingFacts
  <2> QED
    BY <1>1, <1>2, <2>1 DEF RingInv, RingTypes
<1>4. TailAfter' = TailAfter /\ SizeAfter' = SizeAfter
  BY <1>1 DEF TailAfter, SizeAfter
<1> QED
  BY <1>1, <1>2, <1>3, <1>4 DEF RingInv

LEMMA ResetPointersRing ==
  ASSUME RingInv, Preempted!ResetPointers
  PROVE  RingInv'
<1>1. /\ ppc' = "clear" /\ pKeyBufferTail' = 0 /\ pKeyBufferHead' = 0
      /\ UNCHANGED <<pKeyBuffer, pKeyBufferSize, pKeyData, unread, interfered>>
  BY DEF Preempted!ResetPointers
<1>2. RingTypes'
  BY <1>1, RingFacts DEF RingInv, RingTypes
<1> QED
  BY <1>1, <1>2, RingFacts DEF RingInv

LEMMA ResetSizeRing ==
  ASSUME RingInv, Preempted!ResetSize
  PROVE  RingInv'
<1>1. /\ ppc = "clear" /\ ppc' = "idle" /\ pKeyBufferSize' = 0 /\ unread' = << >>
      /\ UNCHANGED <<pKeyBuffer, pKeyBufferHead, pKeyBufferTail, pKeyData, interfered>>
  BY DEF Preempted!ResetSize, Preempted!Elsewhere
<1>2. << >> \in Seq(Key) /\ Len(<< >>) = 0
  BY EmptySeq
<1>3. RingTypes'
  BY <1>1, <1>2, RingFacts DEF RingInv, RingTypes
<1>4. ASSUME ~interfered
      PROVE  Holds(pKeyBuffer, pKeyBufferHead, pKeyBufferTail, << >>)
  <2>1. pKeyBufferHead = 0 /\ pKeyBufferTail = 0 /\ pKeyBuffer \in [Slots -> Key \cup {NoKey}]
    BY <1>1, <1>4 DEF RingInv, RingTypes
  <2> QED
    BY <1>2, <2>1, AtFacts, RingFacts DEF Holds
<1> QED
  BY <1>1, <1>2, <1>3, <1>4 DEF RingInv, TailAfter, SizeAfter

\* The timer stores a key at the end of what is unread; in a full ring that no read is
\* working on it first gives up the oldest one.
LEMMA WriteRing ==
  ASSUME RingInv, NEW k \in Key, Preempted!Write(k)
  PROVE  RingInv'
<1> DEFINE full == pKeyBufferSize = N
           more == IF Len(unread) = N THEN Tail(unread) ELSE unread
<1>1. /\ pKeyBufferTail' = IF full THEN Advance(pKeyBufferTail) ELSE pKeyBufferTail
      /\ pKeyBufferSize' = IF full THEN pKeyBufferSize ELSE pKeyBufferSize + 1
      /\ pKeyBuffer' = [pKeyBuffer EXCEPT ![pKeyBufferHead] = k]
      /\ pKeyBufferHead' = Advance(pKeyBufferHead)
      /\ unread' = Append(more, k)
      /\ (interfered' <=> interfered \/ ppc = "clear" \/ (ppc # "idle" /\ full))
      /\ interfered' \in BOOLEAN
      /\ UNCHANGED <<ppc, pKeyData>> /\ pKeyBufferTail <= N
  BY DEF Preempted!Write, Preempted!AIKDataWriteEntry, Preempted!Advance, Preempted!Inside,
     Advance, N, RingInv, RingTypes
<1>2. more \in Seq(Key) /\ Len(more) \in Nat /\ Len(more) <= N - 1
  BY RingFacts DEF RingInv, RingTypes
<1>3. unread' \in Seq(Key) /\ Len(unread') <= N
  BY <1>1, <1>2, AppendFacts, RingFacts
<1>4. RingTypes'
  <2>1. pKeyBufferHead' \in Slots /\ pKeyBuffer' \in [Slots -> Key \cup {NoKey}]
    BY <1>1, RingFacts DEF RingInv, RingTypes
  <2>2. pKeyBufferTail' \in 0 .. N + 1 /\ (ppc # "wrap" => pKeyBufferTail' \in Slots)
    <3>1. CASE full
      <4>1. CASE pKeyBufferTail \in Slots
        BY <1>1, <3>1, <4>1, RingFacts
      <4>2. CASE pKeyBufferTail = N
        BY <1>1, <3>1, <4>2, RingFacts DEF Advance, N, RingInv, RingTypes
      <4> QED
        BY <1>1, <4>1, <4>2, RingFacts DEF RingInv, RingTypes
    <3>2. CASE ~full
      BY <1>1, <3>2 DEF RingInv, RingTypes
    <3> QED
      BY <3>1, <3>2
  <2>3. pKeyBufferSize' \in 0 .. N /\ (ppc = "shrink" => pKeyBufferSize' # 0)
    BY <1>1, RingFacts DEF RingInv, RingTypes
  <2> QED
    BY <1>1, <1>3, <2>1, <2>2, <2>3 DEF RingInv, RingTypes
<1>5. ASSUME ~interfered'
      PROVE  /\ pKeyBufferTail' <= N /\ ppc' # "clear"
             /\ Holds(pKeyBuffer', pKeyBufferHead', TailAfter', unread')
             /\ Len(unread') = SizeAfter'
  <2>1. /\ ppc # "clear" /\ (full => ppc = "idle")
        /\ Holds(pKeyBuffer, pKeyBufferHead, TailAfter, unread) /\ Len(unread) = SizeAfter
    BY <1>1, <1>5 DEF RingInv
  <2>2. CASE full
    <3>1. ppc = "idle" /\ TailAfter = pKeyBufferTail /\ Len(unread) = N /\ more = Tail(unread)
      BY <2>1, <2>2 DEF TailAfter, SizeAfter
    <3>2. unread # << >>
      BY <3>1, RingFacts
    <3>3. /\ Holds(pKeyBuffer, pKeyBufferHead, Advance(pKeyBufferTail), more)
          /\ Len(more) = N - 1
      BY <2>1, <3>1, <3>2, TakeFirst
    <3>4. Holds(pKeyBuffer', pKeyBufferHead', Advance(pKeyBufferTail), unread')
      <4>1. Len(more) < N
        BY <3>3, RingFacts
      <4> HIDE DEF more
      <4> QED
        BY <1>1, <3>3, <4>1, PutLast
    <3>5. Len(unread') = N
      BY <1>1, <1>2, <3>3, AppendFacts, RingFacts
    <3> QED
      BY <1>1, <1>4, <2>2, <3>1, <3>4, <3>5, RingFacts DEF RingTypes, TailAfter, SizeAfter
  <2>3. CASE ~full
    <3>1. TailAfter' = TailAfter /\ SizeAfter' = SizeAfter + 1 /\ SizeAfter < N /\ SizeAfter \in Nat
      BY <1>1, <2>3, RingFacts DEF TailAfter, SizeAfter, RingInv, RingTypes
    <3>2. more = unread /\ Len(unread) < N
      BY <2>1, <3>1, RingFacts
    <3>3. Holds(pKeyBuffer', pKeyBufferHead', TailAfter, unread')
      BY <1>1, <2>1, <3>2, PutLast
    <3>4. Len(unread') = Len(unread) + 1
      BY <1>1, <1>2, <3>2, AppendFacts
    <3> QED
      BY <1>1, <2>1, <2>3, <3>1, <3>3, <3>4
  <2> QED
    BY <2>2, <2>3
<1> QED
  BY <1>4, <1>5 DEF RingInv

LEMMA RingStep == RingInv /\ Preempted!PNext => RingInv'
<1> SUFFICES ASSUME RingInv, Preempted!PNext PROVE RingInv'
  OBVIOUS
<1>1. CASE Preempted!ReadCopy
  BY <1>1, ReadCopyRing
<1>2. CASE Preempted!ReadShrink
  BY <1>2, ReadShrinkRing
<1>3. CASE Preempted!ReadAdvance
  BY <1>3, ReadAdvanceRing
<1>4. CASE Preempted!ReadWrap
  BY <1>4, ReadWrapRing
<1>5. CASE \E k \in Key : Preempted!Write(k)
  BY <1>5, WriteRing
<1>6. CASE Preempted!Escaped
  BY <1>6 DEF Preempted!Escaped, Preempted!pvars, Preempted!vars, RingInv, RingTypes, TailAfter,
     SizeAfter
<1>7. CASE Preempted!ResetPointers
  BY <1>7, ResetPointersRing
<1>8. CASE Preempted!ResetSize
  BY <1>8, ResetSizeRing
<1> QED
  BY <1>1, <1>2, <1>3, <1>4, <1>5, <1>6, <1>7, <1>8 DEF Preempted!PNext, Preempted!ReadNext

LEMMA RingSuffices == RingInv => HarmlessUnlessFull
<1> SUFFICES ASSUME RingInv PROVE HarmlessUnlessFull
  OBVIOUS
<1>1. Preempted!PTypeOK
  BY DEF RingInv, RingTypes, Preempted!PTypeOK, Preempted!Slots, Slots, N
<1>2. ASSUME ~interfered PROVE Preempted!Inside
  BY <1>2 DEF RingInv, Preempted!Inside, N
<1>3. ASSUME ~interfered, ppc = "idle"
      PROVE  Preempted!PointersAgree /\ Preempted!Stored = unread
  <2>1. /\ Holds(pKeyBuffer, pKeyBufferHead, pKeyBufferTail, unread)
        /\ Len(unread) = pKeyBufferSize
    BY <1>3 DEF RingInv, TailAfter, SizeAfter
  <2>2. \A i : Preempted!Slot(i) = At(pKeyBufferTail, i)
    BY DEF Preempted!Slot, At, N
  <2>3. unread \in Seq(Key) /\ DOMAIN unread = 1 .. pKeyBufferSize /\ pKeyBufferSize \in Nat
    BY <2>1, LenProperties DEF Holds
  <2>4. \A i \in 1 .. pKeyBufferSize : /\ pKeyBuffer[At(pKeyBufferTail, i - 1)] = unread[i]
                                       /\ unread[i] \in Key
    BY <2>1, <2>3, ElementOfSeq DEF Holds
  <2>5. Preempted!Stored = unread
    <3>1. Preempted!Stored = [i \in 1 .. pKeyBufferSize |-> unread[i]]
      BY <2>2, <2>4 DEF Preempted!Stored
    <3> QED
      BY <2>3, <3>1
  <2>6. \A i \in 0 .. (pKeyBufferSize - 1) : pKeyBuffer[At(pKeyBufferTail, i)] \in Key
    <3> SUFFICES ASSUME NEW i \in 0 .. (pKeyBufferSize - 1)
                 PROVE  pKeyBuffer[At(pKeyBufferTail, i)] \in Key
      OBVIOUS
    <3>1. i + 1 \in 1 .. pKeyBufferSize /\ (i + 1) - 1 = i
      BY <2>3
    <3> QED
      BY <2>4, <3>1
  <2>7. Preempted!Slot(pKeyBufferSize) = pKeyBufferHead
    BY <2>1, <2>2 DEF Holds
  <2> QED
    BY <2>2, <2>5, <2>6, <2>7 DEF Preempted!PointersAgree
<1> QED
  BY <1>1, <1>2, <1>3 DEF HarmlessUnlessFull, Preempted!HarmlessUnlessFull

\* A read or a reset of the ring that the timer comes into loses, repeats or reorders no
\* key and leaves the pointers in the array, unless the timer found the ring full during a
\* read or stored a key during a reset: for every size of the ring (AIKData.c:25-26, 43-55,
\* 67-80; AIK.c:142).
THEOREM PreemptionIsHarmless == MCSpec => []HarmlessUnlessFull
<1>1. MCInit => RingInv
  BY RingInit DEF MCInit
<1>2. RingInv /\ [MCNext]_MCVars => RingInv'
  <2> SUFFICES ASSUME RingInv, [MCNext]_MCVars PROVE RingInv'
    OBVIOUS
  <2>1. CASE Preempted!PNext
    BY <2>1, RingStep
  <2>2. CASE UNCHANGED PreemptedVars
    BY <2>2 DEF PreemptedVars, RingInv, RingTypes, TailAfter, SizeAfter
  <2>3. Preempted!PNext \/ UNCHANGED PreemptedVars
    BY DEF MCNext, MCVars
  <2> QED
    BY <2>1, <2>2, <2>3
<1>3. RingInv => HarmlessUnlessFull
  BY RingSuffices
<1> QED
  BY <1>1, <1>2, <1>3, PTL DEF MCSpec
=============================================================================
