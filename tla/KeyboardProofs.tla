--------------------------- MODULE KeyboardProofs ---------------------------
(***************************************************************************)
(* Proofs about the two components that compare what a keyboard reports    *)
(* with what it reported before: the key handler, for every size of the    *)
(* table of strokes, every set of keys and modifiers and every period of   *)
(* repetition (what the listeners were told adds up to what is pressed,    *)
(* whatever was lost), and the driver of the USB keyboard, for every set   *)
(* of keys and length of its queue (characters come with the modifiers of  *)
(* their presses, and only held keys repeat).                              *)
(***************************************************************************)
EXTENDS KeyHandler, UsbKeyboard, SequenceLemmas

----------------------------------------------------------------------------
(* The table of strokes. *)

StrokeInfo == [AppleKeyCode : KeyCode \cup {NoCode},
               NumberOfStrokes : 0 .. (REPEAT_START + KEY_STROKE_DELAY - 1),
               CurrentStroke : BOOLEAN]

\* A table knows a key once, and at most one stroke, of a key, is current.
GoodTable(t) ==
  /\ t \in [Slot -> StrokeInfo]
  /\ \A i, j \in Slot :
       t[i].AppleKeyCode = t[j].AppleKeyCode /\ t[i].AppleKeyCode # NoCode => i = j
  /\ \A i, j \in Current(t) : i = j
  /\ \A i \in Current(t) : t[i].AppleKeyCode # NoCode

SameCodes(t, u) == \A i \in Slot : t[i].AppleKeyCode = u[i].AppleKeyCode

LEMMA CancelFacts ==
  ASSUME NEW t, GoodTable(t)
  PROVE  GoodTable(Cancel(t)) /\ SameCodes(Cancel(t), t) /\ Current(Cancel(t)) = {}
<1> DEFINE u == Cancel(t)
<1>1. \A i \in Slot : /\ u[i] \in StrokeInfo /\ u[i].AppleKeyCode = t[i].AppleKeyCode
                      /\ ~u[i].CurrentStroke
  BY DEF GoodTable, Cancel, StrokeInfo
<1>2. u \in [Slot -> StrokeInfo]
  BY <1>1 DEF Cancel
<1>3. Current(u) = {}
  BY <1>1 DEF Current
<1> HIDE DEF u
<1>4. GoodTable(u) /\ SameCodes(u, t)
  BY <1>1, <1>2, <1>3 DEF GoodTable, SameCodes
<1> QED
  BY <1>3, <1>4 DEF u

LEMMA SameCodesFacts ==
  ASSUME NEW t, NEW u, SameCodes(t, u)
  PROVE  Codes(t) = Codes(u) /\ \A k : SlotsOf(t, k) = SlotsOf(u, k)
BY DEF SameCodes, Codes, SlotsOf

\* Other modifiers leave the keys, and no stroke that is current.
LEMMA ModifiersCheckedFacts ==
  ASSUME NEW t, GoodTable(t), NEW mods
  PROVE  LET u == ModifiersChecked(t, mods)
         IN  /\ GoodTable(u) /\ SameCodes(u, t) /\ Current(u) \subseteq Current(t)
             /\ mModifiers # mods => Current(u) = {}
BY CancelFacts DEF ModifiersChecked, SameCodes

LEMMA ReportFacts ==
  ASSUME NEW keys \in KeyReports
  PROVE  /\ Range(keys) \subseteq KeyCode /\ Range(keys) = {keys[j] : j \in DOMAIN keys}
         /\ \E n \in 0 .. MaxKeys : keys \in [1 .. n -> KeyCode]
         /\ NoCode \notin Range(keys)
BY KeyHandlerAssumption DEF KeyReports, Range

\* The keys that are still pressed stay, and so does the stroke of one that is current.
LEMMA RemoveFacts ==
  ASSUME NEW t, GoodTable(t), NEW keys \in KeyReports
  PROVE  LET u == RemoveReleasedKeys(t, keys)
         IN  /\ GoodTable(u) /\ Codes(u) = Codes(t) \cap Range(keys)
             /\ \A i \in Current(u) : i \in Current(t) /\ u[i] = t[i]
<1> DEFINE u == RemoveReleasedKeys(t, keys)
<1>1. /\ \A i \in Slot : u[i] = IF t[i].AppleKeyCode \in Range(keys) THEN t[i] ELSE Empty
      /\ NoCode \notin Range(keys)
  BY ReportFacts DEF RemoveReleasedKeys
<1>2. Empty \in StrokeInfo /\ Empty.AppleKeyCode = NoCode /\ ~Empty.CurrentStroke
  BY KeyHandlerAssumption DEF Empty, StrokeInfo
<1>3. u \in [Slot -> StrokeInfo]
  <2>1. \A i \in Slot : u[i] \in StrokeInfo
    BY <1>1, <1>2 DEF GoodTable
  <2> QED
    BY <2>1 DEF RemoveReleasedKeys
<1> HIDE DEF u
<1>4. \A i \in Slot : u[i].AppleKeyCode # NoCode =>
                        u[i] = t[i] /\ t[i].AppleKeyCode \in Range(keys)
  BY <1>1, <1>2
<1>5. \A i \in Current(u) : i \in Current(t) /\ u[i] = t[i] /\ u[i].AppleKeyCode # NoCode
  BY <1>1, <1>2 DEF Current
<1>6. GoodTable(u)
  BY <1>3, <1>4, <1>5 DEF GoodTable
<1>7. Codes(u) = Codes(t) \cap Range(keys)
  BY <1>1, <1>2, <1>4 DEF Codes
<1> QED
  BY <1>5, <1>6, <1>7 DEF u

\* One more stroke is one of those the table may hold.
LEMMA StrokeFacts ==
  ASSUME NEW n \in 0 .. (REPEAT_START + KEY_STROKE_DELAY - 1)
  PROVE  Stroke(n) \in 0 .. (REPEAT_START + KEY_STROKE_DELAY - 1)
BY KeyHandlerAssumption DEF Stroke

Counted(t, keys, u) ==
  /\ GoodTable(u)
  /\ \/ /\ SameCodes(u, t) /\ Current(u) = Current(t)
        /\ Range(keys) \subseteq Codes(t)
     \/ SameCodes(u, t) /\ Current(u) = {} /\ SlotsOf(t, NoCode) = {}
     \/ \E f \in Slot, k \in Range(keys) \ Codes(t) :
          /\ t[f].AppleKeyCode = NoCode /\ Current(u) = {f}
          /\ u[f] = [AppleKeyCode |-> k, NumberOfStrokes |-> 0, CurrentStroke |-> TRUE]
          /\ \A i \in Slot \ {f} : u[i].AppleKeyCode = t[i].AppleKeyCode

\* The loop over the report: nothing is new, or there is no room for what is new, or the
\* first of what is new gets a free slot and the only stroke that is current.
LEMMA CountFacts ==
  ASSUME NEW t, GoodTable(t), NEW keys \in KeyReports, NEW u, u = CountStrokes(t, keys)
  PROVE  Counted(t, keys, u)
<1> DEFINE new == {j \in DOMAIN keys : keys[j] \notin Codes(t)}
           before == IF new = {} THEN Range(keys) ELSE {keys[j] : j \in 1 .. (Min(new) - 1)}
           counted == [i \in Slot |-> IF t[i].AppleKeyCode \in before
                                      THEN [t[i] EXCEPT !.NumberOfStrokes = Stroke(@)] ELSE t[i]]
           free == SlotsOf(t, NoCode)
<1>1. u = IF new = {} THEN counted
          ELSE IF free = {} THEN Cancel(counted)
          ELSE [Cancel(counted) EXCEPT ![Min(free)] =
                 [AppleKeyCode |-> keys[Min(new)], NumberOfStrokes |-> 0, CurrentStroke |-> TRUE]]
  BY DEF CountStrokes
<1>2. GoodTable(counted) /\ SameCodes(counted, t) /\ Current(counted) = Current(t)
  <2> HIDE DEF before
  <2>1. \A i \in Slot : /\ counted[i] \in StrokeInfo
                        /\ counted[i].AppleKeyCode = t[i].AppleKeyCode
                        /\ counted[i].CurrentStroke = t[i].CurrentStroke
    <3>1. ASSUME NEW i \in Slot
          PROVE  /\ [t[i] EXCEPT !.NumberOfStrokes = Stroke(@)] \in StrokeInfo
                 /\ [t[i] EXCEPT !.NumberOfStrokes = Stroke(@)].AppleKeyCode = t[i].AppleKeyCode
                 /\ [t[i] EXCEPT !.NumberOfStrokes = Stroke(@)].CurrentStroke = t[i].CurrentStroke
                 /\ t[i] \in StrokeInfo
      <4>1. t[i] \in StrokeInfo
        BY DEF GoodTable
      <4>2. PICK n \in 0 .. (REPEAT_START + KEY_STROKE_DELAY - 1) : n = Stroke(t[i].NumberOfStrokes)
        BY <4>1, StrokeFacts DEF StrokeInfo
      <4> QED
        BY <4>1, <4>2 DEF StrokeInfo
    <3> QED
      BY <3>1
  <2>2. counted \in [Slot -> StrokeInfo]
    BY <2>1
  <2>3. Current(counted) = Current(t)
    BY <2>1 DEF Current
  <2> HIDE DEF counted
  <2>4. SameCodes(counted, t)
    BY <2>1 DEF SameCodes
  <2>5. GoodTable(counted)
    BY <2>1, <2>2, <2>3 DEF GoodTable, Current
  <2> QED
    BY <2>3, <2>4, <2>5
<1> HIDE DEF counted
<1>3. /\ GoodTable(Cancel(counted)) /\ SameCodes(Cancel(counted), t)
      /\ Current(Cancel(counted)) = {}
  BY <1>2, CancelFacts DEF SameCodes
<1>4. CASE new = {}
  <2>1. Range(keys) \subseteq Codes(t)
    BY <1>4, ReportFacts
  <2> HIDE DEF new
  <2> QED
    BY <1>1, <1>2, <1>4, <2>1 DEF Counted
<1>5. CASE new # {} /\ free = {}
  <2> HIDE DEF new
  <2> QED
    BY <1>1, <1>3, <1>5 DEF Counted
<1>6. CASE new # {} /\ free # {}
  <2>1. Min(new) \in new
    <3>1. new \in SUBSET Nat
      BY ReportFacts
    <3> HIDE DEF new
    <3>2. \E x \in new : \A y \in new : x <= y
      BY <1>6, <3>1, NatSetHasMinimum
    <3> QED
      BY <3>2 DEF Min
  <2>2. Min(free) \in free
    <3>1. free \in SUBSET Nat
      BY KeyHandlerAssumption DEF SlotsOf, Slot
    <3> HIDE DEF free
    <3>2. \E x \in free : \A y \in free : x <= y
      BY <1>6, <3>1, NatSetHasMinimum
    <3> QED
      BY <3>2 DEF Min
  <2>3. PICK f \in Slot : f = Min(free) /\ t[f].AppleKeyCode = NoCode
    BY <2>2 DEF SlotsOf
  <2>4. PICK k \in Range(keys) \ Codes(t) : k = keys[Min(new)]
    BY <2>1 DEF Range
  <2>5. k \in KeyCode /\ k # NoCode
    BY <2>4, ReportFacts
  <2> DEFINE e == [AppleKeyCode |-> k, NumberOfStrokes |-> 0, CurrentStroke |-> TRUE]
             c == Cancel(counted)
  <2>6. u = [c EXCEPT ![f] = e]
    BY <1>1, <1>6, <2>3, <2>4
  <2>7. e \in StrokeInfo /\ e.AppleKeyCode = k /\ e.CurrentStroke
    BY <2>5, KeyHandlerAssumption DEF StrokeInfo
  <2> HIDE DEF e, c
  <2>8. c \in [Slot -> StrokeInfo]
    BY <1>3 DEF GoodTable, c
  <2>9. u \in [Slot -> StrokeInfo] /\ u[f] = e /\ \A i \in Slot \ {f} : u[i] = c[i]
    BY <2>6, <2>7, <2>8
  <2>10. \A i \in Slot \ {f} : /\ u[i].AppleKeyCode = t[i].AppleKeyCode
                               /\ u[i].AppleKeyCode # k /\ ~u[i].CurrentStroke
    BY <1>3, <2>4, <2>5, <2>9 DEF SameCodes, Current, Codes, c
  <2>11. Current(u) = {f}
    BY <2>7, <2>9, <2>10 DEF Current
  <2>12. GoodTable(u)
    <3>1. \A i, j \in Slot :
            u[i].AppleKeyCode = u[j].AppleKeyCode /\ u[i].AppleKeyCode # NoCode => i = j
      BY <2>7, <2>9, <2>10 DEF GoodTable
    <3> QED
      BY <2>5, <2>7, <2>9, <2>11, <3>1 DEF GoodTable
  <2> QED
    BY <2>3, <2>4, <2>9, <2>10, <2>11, <2>12 DEF e, Counted
<1> QED
  BY <1>4, <1>5, <1>6

----------------------------------------------------------------------------
(* What is told. *)

\* Some of what is due is told, the rest is lost.
ToldOf(due, lost) ==
  /\ lost \subseteq due
  /\ \A e \in due : e.type \in Ups \cup Downs
  /\ Of(due, Ups) \cap Of(due, Downs) = {}
  /\ emitted' = due \ lost
  /\ unheard' = (unheard \ Of(due \ lost, Ups \cup Downs)) \cup Of(lost, Ups \cup Downs)
  /\ down' = (down \ Of(emitted', Ups)) \cup Of(emitted', Downs)

\* Nobody is believed to be down who is not, or up who is not, but who is noted.
KnownAfter(due) ==
  \A x : /\ x \in Of(due, Ups) => x \in unheard' \/ x \notin down'
         /\ x \in Of(due, Downs) => x \in unheard' \/ x \in down'
         /\ x \notin Of(due, Ups) \cup Of(due, Downs) =>
              (x \in down' <=> x \in down) /\ (x \in unheard' <=> x \in unheard)
         /\ x \notin Of(due, Ups) /\ x \in down \cup unheard => x \in down' \cup unheard'

\* Who is named by an event that is told is known to be up or down, and who is named by one
\* that is lost is noted as unheard of.
LEMMA ToldFacts ==
  ASSUME NEW due, NEW lost, ToldOf(due, lost)
  PROVE  KnownAfter(due)
<1> SUFFICES
      \A x : /\ x \in Of(due, Ups) => x \in unheard' \/ x \notin down'
             /\ x \in Of(due, Downs) => x \in unheard' \/ x \in down'
             /\ x \notin Of(due, Ups) \cup Of(due, Downs) =>
                  (x \in down' <=> x \in down) /\ (x \in unheard' <=> x \in unheard)
             /\ x \notin Of(due, Ups) /\ x \in down \cup unheard => x \in down' \cup unheard'
  BY DEF KnownAfter
<1> USE DEF ToldOf
<1>1. \A E, T, x : x \in Of(E, T) <=> \E e \in E : e.type \in T /\ x \in e.keys
  BY DEF Of
<1>2. TAKE x
<1>3. CASE x \in Of(due, Ups)
  <2>1. x \notin Of(emitted', Downs)
    BY <1>1, <1>3
  <2>2. x \in Of(lost, Ups \cup Downs) \/ x \in Of(emitted', Ups)
    BY <1>1, <1>3
  <2> QED
    BY <1>3, <2>1, <2>2
<1>4. CASE x \notin Of(due, Ups)
  <2>1. x \notin Of(emitted', Ups)
    BY <1>1, <1>4
  <2>2. x \in Of(due, Downs) => x \in Of(lost, Ups \cup Downs) \/ x \in Of(emitted', Downs)
    BY <1>1
  <2>3. x \notin Of(due, Downs) => /\ x \notin Of(lost, Ups \cup Downs)
                                   /\ x \notin Of(due \ lost, Ups \cup Downs)
                                   /\ x \notin Of(emitted', Downs)
    BY <1>1, <1>4
  <2> QED
    BY <1>4, <2>1, <2>2, <2>3
<1> QED
  BY <1>3, <1>4

Rec(type, keys) == [type |-> type, keys |-> keys]

DueRight(due, released, table, mods) ==
  /\ \A e \in due : e.type \in Ups \cup Downs
  /\ \A x : x \in Of(due, {"KEY_UP"}) <=> x \in released
  /\ \A x : x \in Of(due, {"KEY_DOWN"}) <=> x \in DownKeys(table)
  /\ \A x : x \in Of(due, Ups) <=>
       x \in released \/ (Reports(table, mods) /\ x \in mPreviousModifiers \ mods)
  /\ \A x : x \in Of(due, Downs) <=>
       x \in DownKeys(table) \/ (Reports(table, mods) /\ x \in mods \ mPreviousModifiers)

\* What a poll has to tell: the keys that were released, the modifiers that changed if it
\* reports them, and the key whose stroke is accepted.
LEMMA DueFacts ==
  ASSUME NEW released, NEW table, NEW mods,
         NEW due, due = (UNION {Event("KEY_UP", {k}) : k \in released}) \cup PollEvents(table, mods)
  PROVE  DueRight(due, released, table, mods)
<1> DEFINE keysUp == (UNION {Event("KEY_UP", {k}) : k \in released})
           keysDown == DownKeys(table)
           up == mPreviousModifiers \ mods
           dn == mods \ mPreviousModifiers
           reports == Reports(table, mods)
<1>1. \A e : e \in keysUp <=> \E k \in released : e = Rec("KEY_UP", {k})
  BY DEF Event, Rec
<1>2. \A e : e \in PollEvents(table, mods) <=>
               reports /\ \/ e = Rec("KEY_DOWN", keysDown) /\ keysDown # {}
                          \/ e = Rec("MODIFIER_UP", up) /\ up # {}
                          \/ e = Rec("MODIFIER_DOWN", dn) /\ dn # {}
  BY DEF PollEvents, Event, Rec
<1>3. keysDown # {} => reports
  BY DEF Reports
<1>4. \A e : e \in due <=> \/ \E k \in released : e = Rec("KEY_UP", {k})
                           \/ keysDown # {} /\ e = Rec("KEY_DOWN", keysDown)
                           \/ reports /\ up # {} /\ e = Rec("MODIFIER_UP", up)
                           \/ reports /\ dn # {} /\ e = Rec("MODIFIER_DOWN", dn)
  <2> HIDE DEF keysUp, keysDown, up, dn, reports
  <2>1. \A e : e \in due <=> e \in keysUp \/ e \in PollEvents(table, mods)
    BY DEF keysUp
  <2> QED
    BY <1>1, <1>2, <1>3, <2>1
<1>6. \A T, x : x \in Of(due, T) <=> \E e \in due : e.type \in T /\ x \in e.keys
  BY DEF Of
<1> HIDE DEF keysUp, keysDown, up, dn, reports
<1>5. \A e \in due : \/ e.type = "KEY_UP" /\ \E k \in released : e.keys = {k}
                     \/ e.type = "KEY_DOWN" /\ e.keys = keysDown
                     \/ e.type = "MODIFIER_UP" /\ e.keys = up /\ reports
                     \/ e.type = "MODIFIER_DOWN" /\ e.keys = dn /\ reports
  <2> TAKE e \in due
  <2>1. CASE \E k \in released : e = Rec("KEY_UP", {k})
    BY <2>1 DEF Rec
  <2>2. CASE e = Rec("KEY_DOWN", keysDown)
    BY <2>2 DEF Rec
  <2>3. CASE reports /\ e = Rec("MODIFIER_UP", up)
    BY <2>3 DEF Rec
  <2>4. CASE reports /\ e = Rec("MODIFIER_DOWN", dn)
    BY <2>4 DEF Rec
  <2> QED
    BY <1>4, <2>1, <2>2, <2>3, <2>4
<1>7. \A T, x : x \in Of(due, T) <=> \/ "KEY_UP" \in T /\ x \in released
                                     \/ "KEY_DOWN" \in T /\ x \in keysDown
                                     \/ "MODIFIER_UP" \in T /\ reports /\ x \in up
                                     \/ "MODIFIER_DOWN" \in T /\ reports /\ x \in dn
  <2> TAKE T, x
  <2>1. ASSUME x \in Of(due, T)
        PROVE  \/ "KEY_UP" \in T /\ x \in released
               \/ "KEY_DOWN" \in T /\ x \in keysDown
               \/ "MODIFIER_UP" \in T /\ reports /\ x \in up
               \/ "MODIFIER_DOWN" \in T /\ reports /\ x \in dn
    <3>1. PICK e \in due : e.type \in T /\ x \in e.keys
      BY <1>6, <2>1
    <3> QED
      BY <1>5, <3>1
  <2>2. ASSUME "KEY_UP" \in T /\ x \in released PROVE x \in Of(due, T)
    <3>1. Rec("KEY_UP", {x}) \in due
      BY <1>4, <2>2
    <3> QED
      BY <1>6, <2>2, <3>1 DEF Rec
  <2>3. ASSUME "KEY_DOWN" \in T /\ x \in keysDown PROVE x \in Of(due, T)
    <3>1. Rec("KEY_DOWN", keysDown) \in due
      BY <1>4, <2>3
    <3> QED
      BY <1>6, <2>3, <3>1 DEF Rec
  <2>4. ASSUME "MODIFIER_UP" \in T /\ reports /\ x \in up PROVE x \in Of(due, T)
    <3>1. Rec("MODIFIER_UP", up) \in due
      BY <1>4, <2>4
    <3> QED
      BY <1>6, <2>4, <3>1 DEF Rec
  <2>5. ASSUME "MODIFIER_DOWN" \in T /\ reports /\ x \in dn PROVE x \in Of(due, T)
    <3>1. Rec("MODIFIER_DOWN", dn) \in due
      BY <1>4, <2>5
    <3> QED
      BY <1>6, <2>5, <3>1 DEF Rec
  <2> QED
    BY <2>1, <2>2, <2>3, <2>4, <2>5
<1>8. \A e \in due : e.type \in Ups \cup Downs
  BY <1>5 DEF Ups, Downs
<1>9. /\ "KEY_UP" \in Ups /\ "MODIFIER_UP" \in Ups /\ "KEY_DOWN" \notin Ups
      /\ "MODIFIER_DOWN" \notin Ups /\ "KEY_DOWN" \in Downs /\ "MODIFIER_DOWN" \in Downs
      /\ "KEY_UP" \notin Downs /\ "MODIFIER_UP" \notin Downs
  BY DEF Ups, Downs
<1>10. /\ \A x : x \in Of(due, {"KEY_UP"}) <=> x \in released
       /\ \A x : x \in Of(due, {"KEY_DOWN"}) <=> x \in keysDown
  <2>1. /\ "KEY_UP" \in {"KEY_UP"} /\ "KEY_DOWN" \notin {"KEY_UP"}
        /\ "MODIFIER_UP" \notin {"KEY_UP"} /\ "MODIFIER_DOWN" \notin {"KEY_UP"}
    OBVIOUS
  <2>2. /\ "KEY_UP" \notin {"KEY_DOWN"} /\ "KEY_DOWN" \in {"KEY_DOWN"}
        /\ "MODIFIER_UP" \notin {"KEY_DOWN"} /\ "MODIFIER_DOWN" \notin {"KEY_DOWN"}
    OBVIOUS
  <2>3. \A x : x \in Of(due, {"KEY_UP"}) <=> x \in released
    BY <1>7, <2>1
  <2>4. \A x : x \in Of(due, {"KEY_DOWN"}) <=> x \in keysDown
    BY <1>7, <2>2
  <2> QED
    BY <2>3, <2>4
<1>11. /\ \A x : x \in Of(due, Ups) <=> x \in released \/ (reports /\ x \in up)
       /\ \A x : x \in Of(due, Downs) <=> x \in keysDown \/ (reports /\ x \in dn)
  BY <1>7, <1>9
<1> QED
  BY <1>8, <1>10, <1>11 DEF keysDown, up, dn, reports, DueRight

----------------------------------------------------------------------------
(* A poll. *)

\* What every poll keeps: the table is right, what is known was announced, what was announced
\* is known, the flag of caps lock is its key, and the modifiers told are those of the poll.
KeyInv ==
  /\ GoodTable(mKeyStrokeInfo)
  /\ mModifiers \subseteq Modifier /\ mPreviousModifiers = mModifiers
  /\ mCLockOn \in BOOLEAN /\ mCLockChanged \in BOOLEAN
  /\ Tracked \subseteq pressed /\ pressed \subseteq KeyCode
  /\ mCLockChanged <=> CLock \in pressed
  /\ \A m \in Modifier \ unheard : m \in down <=> m \in mModifiers
  /\ (down \cap KeyCode) \ unheard \subseteq Tracked
  /\ Tracked \subseteq down \cup unheard

Polled(mods, keys) ==
  \E released, kept :
    /\ released \subseteq KeyCode /\ released \cap Range(keys) = {}
    /\ Tracked \ Range(keys) \subseteq released
    /\ released \ {CLock} \subseteq Tracked
    /\ GoodTable(kept) /\ Codes(kept) = Tracked \cap Range(keys)
    /\ \A i \in Current(kept) : /\ i \in Current(mKeyStrokeInfo) /\ mModifiers = mods
                                /\ kept[i].AppleKeyCode = mKeyStrokeInfo[i].AppleKeyCode
    /\ \A i \in Slot : mKeyStrokeInfo[i].AppleKeyCode \in Range(keys) =>
                         kept[i].AppleKeyCode = mKeyStrokeInfo[i].AppleKeyCode
    /\ mKeyStrokeInfo' = CountStrokes(kept, keys)
    /\ mCLockChanged' \in BOOLEAN /\ (mCLockChanged' <=> CLock \in Range(keys))
    /\ mCLockOn' \in BOOLEAN
    /\ (mCLockOn' # mCLockOn) <=> (CLock \in Range(keys) \ pressed)
    /\ mModifiers' = mods
    /\ mPreviousModifiers' = IF Reports(mKeyStrokeInfo', mods) THEN mods
                             ELSE mPreviousModifiers
    /\ pressed' = Range(keys)
    /\ \E due, lost :
         /\ due = (UNION {Event("KEY_UP", {k}) : k \in released})
                    \cup PollEvents(mKeyStrokeInfo', mods)
         /\ lost \subseteq due /\ emitted' = due \ lost
         /\ unheard' = (unheard \ Of(due \ lost, Ups \cup Downs))
                         \cup Of(lost, Ups \cup Downs)
         /\ down' = (down \ Of(emitted', Ups)) \cup Of(emitted', Downs)

\* What a poll does to the table and to what has been told.
LEMMA PollFacts ==
  ASSUME KeyInv, NEW mods \in SUBSET Modifier, NEW keys \in KeyReports, KeyStrokePoll(mods, keys)
  PROVE  Polled(mods, keys)
<1> DEFINE t == mKeyStrokeInfo
           start == ModifiersChecked(t, mods)
           released == ReleasedKeys(start, keys)
           kept == RemoveReleasedKeys(start, keys)
           changed == mCLockChanged /\ CLock \in Range(keys)
           toggled == CLockToggled(kept, keys, changed)
           table == CountStrokes(kept, keys)
           due == (UNION {Event("KEY_UP", {k}) : k \in released}) \cup PollEvents(table, mods)
<1>1. /\ mKeyStrokeInfo' = table
      /\ mCLockOn' = (mCLockOn # toggled)
      /\ mCLockChanged' = (changed \/ toggled)
      /\ mModifiers' = IF Current(table) # {} \/ mModifiers # mods THEN mods ELSE mModifiers
      /\ mPreviousModifiers' = IF Reports(table, mods) THEN mods ELSE mPreviousModifiers
      /\ \E lost \in Losses(due) :
           /\ emitted' = due \ lost
           /\ unheard' = (unheard \ Of(due \ lost, Ups \cup Downs))
                           \cup Of(lost, Ups \cup Downs)
      /\ down' = (down \ Of(emitted', Ups)) \cup Of(emitted', Downs)
      /\ pressed' = Range(keys)
  BY DEF KeyStrokePoll
<1>2. GoodTable(t) /\ Codes(t) = Tracked
  BY DEF KeyInv, Tracked
<1>3. /\ GoodTable(start) /\ SameCodes(start, t) /\ Current(start) \subseteq Current(t)
      /\ mModifiers # mods => Current(start) = {}
  <2> HIDE DEF t
  <2> QED
    BY <1>2, ModifiersCheckedFacts
<1>4. Codes(start) = Tracked
  BY <1>2, <1>3, SameCodesFacts
<1>5. Range(keys) \subseteq KeyCode
  BY ReportFacts
<1> HIDE DEF start
<1>6. /\ GoodTable(kept) /\ Codes(kept) = Tracked \cap Range(keys)
      /\ \A i \in Current(kept) : i \in Current(start) /\ kept[i] = start[i]
  BY <1>3, <1>4, RemoveFacts
<1>7. \A i \in Slot : t[i].AppleKeyCode \in Range(keys) => kept[i].AppleKeyCode = t[i].AppleKeyCode
  BY <1>3 DEF RemoveReleasedKeys, SameCodes
<1>8. \A i \in Current(kept) : /\ i \in Current(mKeyStrokeInfo) /\ mModifiers = mods
                               /\ kept[i].AppleKeyCode = mKeyStrokeInfo[i].AppleKeyCode
  BY <1>3, <1>6 DEF SameCodes, Current
<1>9. released = (Tracked \cup IF mCLockChanged THEN {CLock} ELSE {}) \ Range(keys)
  BY <1>4 DEF ReleasedKeys
<1>10. /\ released \subseteq KeyCode /\ released \cap Range(keys) = {}
       /\ Tracked \ Range(keys) \subseteq released /\ released \ {CLock} \subseteq Tracked
  BY <1>9, KeyHandlerAssumption DEF KeyInv
<1>11. toggled <=> CLock \in Range(keys) \ pressed
  BY <1>6 DEF KeyInv, CLockToggled
<1>12. toggled \in BOOLEAN /\ changed \in BOOLEAN
  BY DEF CLockToggled
<1>13. changed \/ toggled <=> CLock \in Range(keys)
  BY <1>11 DEF KeyInv
<1> HIDE DEF toggled, changed
<1>14. mCLockChanged' \in BOOLEAN /\ (mCLockChanged' <=> CLock \in Range(keys))
  BY <1>1, <1>13, Zenon
<1>15. mCLockOn' \in BOOLEAN /\ ((mCLockOn' # mCLockOn) <=> toggled)
  BY <1>1, <1>12 DEF KeyInv
<1>16. mModifiers' = mods
  BY <1>1
<1>17. PICK lost \in Losses(due) :
         /\ emitted' = due \ lost
         /\ unheard' = (unheard \ Of(due \ lost, Ups \cup Downs))
                         \cup Of(lost, Ups \cup Downs)
  BY <1>1
<1>18. lost \subseteq due
  BY DEF Losses
<1>19. due = (UNION {Event("KEY_UP", {k}) : k \in released}) \cup PollEvents(mKeyStrokeInfo', mods)
  BY <1>1
<1> HIDE DEF due
<1>20. \E d, l : /\ d = (UNION {Event("KEY_UP", {k}) : k \in released})
                          \cup PollEvents(mKeyStrokeInfo', mods)
                 /\ l \subseteq d /\ emitted' = d \ l
                 /\ unheard' = (unheard \ Of(d \ l, Ups \cup Downs)) \cup Of(l, Ups \cup Downs)
                 /\ down' = (down \ Of(emitted', Ups)) \cup Of(emitted', Downs)
  <2> WITNESS due, lost
  <2> QED
    BY <1>1, <1>17, <1>18, <1>19
<1> HIDE DEF kept, released
<1> QED
  BY <1>1, <1>6, <1>7, <1>8, <1>10, <1>11, <1>14, <1>15, <1>16, <1>20 DEF Polled

\* The first stroke of a key is always told.
LEMMA FirstAccepted == Accepted(0)
BY KeyHandlerAssumption DEF Accepted

\* The table after a poll: what was known and is pressed still is known, what is new is told,
\* and other modifiers are told at the latest with it.
LEMMA TableFacts ==
  ASSUME NEW kept, GoodTable(kept), NEW keys \in KeyReports, NEW mods,
         Codes(kept) \subseteq Range(keys), mModifiers # mods => Current(kept) = {},
         NEW table, table = CountStrokes(kept, keys)
  PROVE  /\ GoodTable(table)
         /\ Codes(kept) \subseteq Codes(table) /\ Codes(table) \subseteq Range(keys)
         /\ Codes(table) \subseteq Codes(kept) \cup DownKeys(table)
         /\ DownKeys(table) \subseteq Codes(table)
         /\ \A k \in DownKeys(table) \cap Codes(kept) :
              \E i \in Current(kept) : kept[i].AppleKeyCode = k
         /\ Reports(table, mods) \/ mModifiers = mods
<1>1. /\ GoodTable(table)
      /\ \/ /\ SameCodes(table, kept) /\ Current(table) = Current(kept)
            /\ Range(keys) \subseteq Codes(kept)
         \/ SameCodes(table, kept) /\ Current(table) = {} /\ SlotsOf(kept, NoCode) = {}
         \/ \E f \in Slot, k \in Range(keys) \ Codes(kept) :
              /\ kept[f].AppleKeyCode = NoCode /\ Current(table) = {f}
              /\ table[f] = [AppleKeyCode |-> k, NumberOfStrokes |-> 0, CurrentStroke |-> TRUE]
              /\ \A i \in Slot \ {f} : table[i].AppleKeyCode = kept[i].AppleKeyCode
  <2>1. Counted(kept, keys, table)
    BY CountFacts
  <2> QED
    BY <2>1 DEF Counted
<1>2. DownKeys(table) \subseteq Codes(table)
  BY <1>1 DEF DownKeys, Codes, GoodTable, Current
<1>3. CASE SameCodes(table, kept) /\ (Current(table) = Current(kept) \/ Current(table) = {})
  <2>1. Codes(table) = Codes(kept)
    BY <1>3, SameCodesFacts
  <2>2. \A k \in DownKeys(table) : \E i \in Current(kept) : kept[i].AppleKeyCode = k
    BY <1>3 DEF DownKeys, SameCodes, Current
  <2>3. Reports(table, mods) \/ mModifiers = mods
    BY <1>3 DEF Reports
  <2> QED
    BY <1>1, <1>2, <2>1, <2>2, <2>3
<1>4. ASSUME NEW f \in Slot, NEW k \in Range(keys) \ Codes(kept),
             kept[f].AppleKeyCode = NoCode, Current(table) = {f},
             table[f] = [AppleKeyCode |-> k, NumberOfStrokes |-> 0, CurrentStroke |-> TRUE],
             \A i \in Slot \ {f} : table[i].AppleKeyCode = kept[i].AppleKeyCode
      PROVE  /\ Codes(table) = Codes(kept) \cup {k} /\ DownKeys(table) = {k}
             /\ Reports(table, mods)
  <2>1. k # NoCode
    BY ReportFacts
  <2>2. Codes(table) = Codes(kept) \cup {k}
    BY <1>4, <2>1 DEF Codes
  <2>3. DownKeys(table) = {k}
    BY <1>4, FirstAccepted DEF DownKeys
  <2> QED
    BY <2>2, <2>3 DEF Reports
<1> QED
  BY <1>1, <1>2, <1>3, <1>4

LEMMA PollInv ==
  ASSUME KeyInv, NEW mods \in SUBSET Modifier, NEW keys \in KeyReports, KeyStrokePoll(mods, keys)
  PROVE  /\ KeyInv'
         /\ Of(emitted', {"KEY_UP"}) \ {CLock} \subseteq down \cup unheard
         /\ \A k \in Of(emitted', {"KEY_DOWN"}) \cap Tracked :
              /\ mModifiers' = mModifiers
              /\ \E i \in Current(mKeyStrokeInfo) : mKeyStrokeInfo[i].AppleKeyCode = k
         /\ (mCLockOn' # mCLockOn) <=> (CLock \in pressed' \ pressed)
<1> DEFINE table == mKeyStrokeInfo'
<1>1. PICK released, kept :
        /\ released \subseteq KeyCode /\ released \cap Range(keys) = {}
        /\ Tracked \ Range(keys) \subseteq released
        /\ released \ {CLock} \subseteq Tracked
        /\ GoodTable(kept) /\ Codes(kept) = Tracked \cap Range(keys)
        /\ \A i \in Current(kept) : /\ i \in Current(mKeyStrokeInfo) /\ mModifiers = mods
                                    /\ kept[i].AppleKeyCode = mKeyStrokeInfo[i].AppleKeyCode
        /\ table = CountStrokes(kept, keys)
        /\ mCLockChanged' \in BOOLEAN /\ (mCLockChanged' <=> CLock \in Range(keys))
        /\ mCLockOn' \in BOOLEAN
        /\ (mCLockOn' # mCLockOn) <=> (CLock \in Range(keys) \ pressed)
        /\ mModifiers' = mods
        /\ mPreviousModifiers' = IF Reports(table, mods) THEN mods ELSE mPreviousModifiers
        /\ pressed' = Range(keys)
        /\ \E due, lost :
             /\ due = (UNION {Event("KEY_UP", {k}) : k \in released}) \cup PollEvents(table, mods)
             /\ lost \subseteq due /\ emitted' = due \ lost
             /\ unheard' = (unheard \ Of(due \ lost, Ups \cup Downs))
                             \cup Of(lost, Ups \cup Downs)
             /\ down' = (down \ Of(emitted', Ups)) \cup Of(emitted', Downs)
  <2>1. Polled(mods, keys)
    BY PollFacts
  <2> QED
    BY <2>1 DEF Polled
<1>2. PICK due, lost :
        /\ due = (UNION {Event("KEY_UP", {k}) : k \in released}) \cup PollEvents(table, mods)
        /\ lost \subseteq due /\ emitted' = due \ lost
        /\ unheard' = (unheard \ Of(due \ lost, Ups \cup Downs)) \cup Of(lost, Ups \cup Downs)
        /\ down' = (down \ Of(emitted', Ups)) \cup Of(emitted', Downs)
  BY <1>1
<1>3. Range(keys) \subseteq KeyCode
  BY ReportFacts
<1>4. /\ GoodTable(table)
      /\ Codes(kept) \subseteq Codes(table) /\ Codes(table) \subseteq Range(keys)
      /\ Codes(table) \subseteq Codes(kept) \cup DownKeys(table)
      /\ DownKeys(table) \subseteq Codes(table)
      /\ \A k \in DownKeys(table) \cap Codes(kept) :
           \E i \in Current(kept) : kept[i].AppleKeyCode = k
      /\ Reports(table, mods) \/ mModifiers = mods
  <2>1. Codes(kept) \subseteq Range(keys) /\ (mModifiers # mods => Current(kept) = {})
    BY <1>1
  <2> HIDE DEF table
  <2> QED
    BY <1>1, <2>1, TableFacts
<1>5. Tracked' = Codes(table)
  BY DEF Tracked
<1> HIDE DEF table
<1> DEFINE reports == Reports(table, mods)
<1>6. /\ \A e \in due : e.type \in Ups \cup Downs
      /\ \A x : x \in Of(due, {"KEY_UP"}) <=> x \in released
      /\ \A x : x \in Of(due, {"KEY_DOWN"}) <=> x \in DownKeys(table)
      /\ \A x : x \in Of(due, Ups) <=>
                  x \in released \/ (reports /\ x \in mPreviousModifiers \ mods)
      /\ \A x : x \in Of(due, Downs) <=>
                  x \in DownKeys(table) \/ (reports /\ x \in mods \ mPreviousModifiers)
  <2>1. DueRight(due, released, table, mods)
    BY <1>2, DueFacts
  <2> QED
    BY <2>1 DEF DueRight
<1> HIDE DEF reports
<1>7. /\ mPreviousModifiers = mModifiers /\ mModifiers \subseteq Modifier
      /\ KeyCode \cap Modifier = {}
  BY KeyHandlerAssumption DEF KeyInv
<1>8. Of(due, Ups) \cap Of(due, Downs) = {}
  BY <1>1, <1>3, <1>4, <1>6, <1>7
<1>9. \A x : /\ x \in Of(due, Ups) => x \in unheard' \/ x \notin down'
             /\ x \in Of(due, Downs) => x \in unheard' \/ x \in down'
             /\ x \notin Of(due, Ups) \cup Of(due, Downs) =>
                  (x \in down' <=> x \in down) /\ (x \in unheard' <=> x \in unheard)
             /\ x \notin Of(due, Ups) /\ x \in down \cup unheard => x \in down' \cup unheard'
  <2>1. ToldOf(due, lost)
    BY <1>2, <1>6, <1>8 DEF ToldOf
  <2>2. KnownAfter(due)
    BY <2>1, ToldFacts
  <2> QED
    BY <2>2 DEF KnownAfter
<1>10. mPreviousModifiers' = mods
  BY <1>1, <1>4, <1>7
<1>11. ASSUME NEW m \in Modifier, m \notin unheard' PROVE m \in down' <=> m \in mods
  <2>1. m \notin KeyCode /\ m \notin released /\ m \notin DownKeys(table)
    BY <1>1, <1>3, <1>4, <1>7
  <2>2. CASE m \in mPreviousModifiers <=> m \in mods
    <3>1. m \notin Of(due, Ups) \cup Of(due, Downs)
      BY <1>6, <2>1, <2>2
    <3>2. (m \in down' <=> m \in down) /\ m \notin unheard
      BY <1>9, <1>11, <3>1
    <3> QED
      BY <1>7, <2>2, <3>2 DEF KeyInv
  <2>3. CASE m \in mPreviousModifiers \ mods
    <3>1. reports
      BY <1>4, <1>7, <2>3 DEF reports
    <3> QED
      BY <1>6, <1>9, <1>11, <2>3, <3>1
  <2>4. CASE m \in mods \ mPreviousModifiers
    <3>1. reports
      BY <1>4, <1>7, <2>4 DEF reports
    <3> QED
      BY <1>6, <1>9, <1>11, <2>4, <3>1
  <2> QED
    BY <2>2, <2>3, <2>4
<1>12. (down' \cap KeyCode) \ unheard' \subseteq Tracked'
  <2> SUFFICES ASSUME NEW x \in KeyCode, x \in down', x \notin unheard' PROVE x \in Codes(table)
    BY <1>5
  <2>1. x \notin Of(due, Ups) /\ x \notin released
    BY <1>6, <1>9
  <2>2. CASE x \in Of(due, Downs)
    BY <1>4, <1>6, <1>7, <2>2
  <2>3. CASE x \notin Of(due, Downs)
    <3>1. x \in down /\ x \notin unheard
      BY <1>9, <2>1, <2>3
    <3> QED
      BY <1>1, <1>4, <2>1, <3>1 DEF KeyInv
  <2> QED
    BY <2>2, <2>3
<1>13. Tracked' \subseteq down' \cup unheard'
  <2> SUFFICES ASSUME NEW x \in Codes(table) PROVE x \in down' \cup unheard'
    BY <1>5
  <2>1. x \in KeyCode /\ x \in Range(keys) /\ x \notin Of(due, Ups)
    BY <1>1, <1>3, <1>4, <1>6, <1>7
  <2>2. CASE x \in DownKeys(table)
    BY <1>6, <1>9, <2>2
  <2>3. CASE x \in Codes(kept)
    BY <1>1, <1>9, <2>1, <2>3 DEF KeyInv
  <2> QED
    BY <1>4, <2>2, <2>3
<1>14. KeyInv'
  BY <1>1, <1>3, <1>4, <1>5, <1>10, <1>11, <1>12, <1>13 DEF KeyInv, table
<1>15. \A T, x : x \in Of(emitted', T) => x \in Of(due, T)
  BY <1>2 DEF Of
<1>16. Of(emitted', {"KEY_UP"}) \ {CLock} \subseteq down \cup unheard
  BY <1>1, <1>6, <1>15 DEF KeyInv
<1>17. ASSUME NEW k \in Of(emitted', {"KEY_DOWN"}) \cap Tracked
       PROVE  /\ mModifiers' = mModifiers
              /\ \E i \in Current(mKeyStrokeInfo) : mKeyStrokeInfo[i].AppleKeyCode = k
  <2>1. k \in DownKeys(table) /\ k \in Range(keys)
    BY <1>4, <1>6, <1>15
  <2>2. PICK i \in Current(kept) : kept[i].AppleKeyCode = k
    BY <1>1, <1>4, <2>1
  <2> QED
    BY <1>1, <2>2
<1> QED
  BY <1>1, <1>14, <1>16, <1>17

LEMMA KeyInitInv == Init => KeyInv
<1> SUFFICES ASSUME Init PROVE KeyInv
  OBVIOUS
<1>1. \A i \in Slot : /\ mKeyStrokeInfo[i] = Empty /\ Empty \in StrokeInfo
                      /\ Empty.AppleKeyCode = NoCode /\ ~Empty.CurrentStroke
  BY KeyHandlerAssumption DEF Init, Empty, StrokeInfo
<1>2. mKeyStrokeInfo \in [Slot -> StrokeInfo]
  BY <1>1 DEF Init
<1>3. Current(mKeyStrokeInfo) = {} /\ Tracked = {}
  BY <1>1 DEF Current, Tracked, Codes
<1>4. GoodTable(mKeyStrokeInfo)
  BY <1>1, <1>2, <1>3 DEF GoodTable
<1> QED
  BY <1>3, <1>4 DEF Init, KeyInv

LEMMA KeyNextInv == KeyInv /\ [Next]_vars => KeyInv'
<1> SUFFICES ASSUME KeyInv, [Next]_vars PROVE KeyInv'
  OBVIOUS
<1>1. CASE Next
  BY <1>1, PollInv DEF Next
<1>2. CASE UNCHANGED vars
  BY <1>2 DEF vars, KeyInv, Tracked
<1> QED
  BY <1>1, <1>2

----------------------------------------------------------------------------
(* What the invariant is for. *)

LEMMA AtMostOne ==
  ASSUME NEW S, \A x, y \in S : x = y
  PROVE  Cardinality(S) <= 1
<1>1. CASE S = {}
  BY <1>1, FS_EmptySet
<1>2. CASE S # {}
  <2>1. PICK x \in S : TRUE
    BY <1>2
  <2>2. S = {x}
    BY <2>1
  <2> QED
    BY <2>2, FS_Singleton
<1> QED
  BY <1>1, <1>2

LEMMA KeyInvTold == KeyInv => ToldAsPressed
<1> SUFFICES ASSUME KeyInv PROVE ToldAsPressed
  OBVIOUS
<1>1. TypeOK
  BY DEF KeyInv, GoodTable, StrokeInfo, TypeOK
<1>2. ASSUME NEW k \in KeyCode PROVE Cardinality(SlotsOf(mKeyStrokeInfo, k)) <= 1
  <2>1. \A i, j \in SlotsOf(mKeyStrokeInfo, k) : i = j
    BY KeyHandlerAssumption DEF KeyInv, GoodTable, SlotsOf
  <2> QED
    BY <2>1, AtMostOne
<1>3. Cardinality(Current(mKeyStrokeInfo)) <= 1
  BY AtMostOne DEF KeyInv, GoodTable
<1>4. \A i \in Current(mKeyStrokeInfo) : mKeyStrokeInfo[i].AppleKeyCode \in Tracked
  BY DEF KeyInv, GoodTable, Current, Tracked, Codes
<1>5. TableMatchesKeys
  BY <1>1, <1>2, <1>3, <1>4 DEF KeyInv, TableMatchesKeys
<1>6. NoStuckKey /\ ModifiersHeard
  BY DEF KeyInv, NoStuckKey, ModifiersHeard
<1> QED
  BY <1>5, <1>6 DEF ToldAsPressed

\* What the listeners were told adds up to the keys and modifiers of the last poll, unless
\* an event about them was lost, and the table holds each of these keys at most once, and
\* none that is not pressed (KeyHandler.c:384-523).
THEOREM ListenersToldAsPressed == Spec => []ToldAsPressed
<1>1. Init => KeyInv
  BY KeyInitInv
<1>2. KeyInv /\ [Next]_vars => KeyInv'
  BY KeyNextInv
<1>3. KeyInv => ToldAsPressed
  BY KeyInvTold
<1> QED
  BY <1>1, <1>2, <1>3, PTL DEF Spec

LEMMA PollTells ==
  KeyInv /\ [Next]_vars =>
    [/\ Of(emitted', {"KEY_UP"}) \ {CLock} \subseteq down \cup unheard
     /\ \A k \in Of(emitted', {"KEY_DOWN"}) \cap Tracked :
          /\ mModifiers' = mModifiers
          /\ \E i \in Current(mKeyStrokeInfo) : mKeyStrokeInfo[i].AppleKeyCode = k
     /\ (mCLockOn' # mCLockOn) <=> (CLock \in pressed' \ pressed)]_vars
BY PollInv DEF Next

\* A poll releases only keys that were announced, repeats only the newest one while the
\* modifiers stay the same, and changes caps lock exactly when its key goes down
\* (KeyHandler.c:235-262, 317-321, 378-455).
THEOREM EveryPollTellsChanges == Spec => PollsTellChanges
<1>1. Init => KeyInv
  BY KeyInitInv
<1>2. KeyInv /\ [Next]_vars => KeyInv'
  BY KeyNextInv
<1>3. KeyInv /\ [Next]_vars =>
        [Of(emitted', {"KEY_UP"}) \ {CLock} \subseteq down \cup unheard]_vars
  BY PollTells
<1>4. KeyInv /\ [Next]_vars =>
        [\A k \in Of(emitted', {"KEY_DOWN"}) \cap Tracked :
           /\ mModifiers' = mModifiers
           /\ \E i \in Current(mKeyStrokeInfo) : mKeyStrokeInfo[i].AppleKeyCode = k]_vars
  BY PollTells
<1>5. KeyInv /\ [Next]_vars =>
        [(mCLockOn' # mCLockOn) <=> (CLock \in pressed' \ pressed)]_vars
  BY PollTells
<1>6. Spec => KeyUpAfterKeyDown
  BY <1>1, <1>2, <1>3, PTL DEF Spec, KeyUpAfterKeyDown
<1>7. Spec => OnlyNewestRepeats
  BY <1>1, <1>2, <1>4, PTL DEF Spec, OnlyNewestRepeats
<1>8. Spec => CLockTogglesOncePerPress
  BY <1>1, <1>2, <1>5, PTL DEF Spec, CLockTogglesOncePerPress
<1> QED
  BY <1>6, <1>7, <1>8 DEF PollsTellChanges

----------------------------------------------------------------------------
(* How many keys are known. *)

\* Some keys are not known yet only while there is no room for them, or while the same keys
\* have been held for no more polls than there are known ones: every poll takes one more.
ProgressInv ==
  /\ IsFiniteSet(pressed) /\ steady \in Nat
  /\ \/ Tracked = pressed
     \/ SlotsOf(mKeyStrokeInfo, NoCode) = {}
     \/ Cardinality(Tracked) >= steady

LEMMA FiniteReport ==
  ASSUME NEW keys \in KeyReports
  PROVE  IsFiniteSet(Range(keys))
<1>1. PICK n \in 0 .. MaxKeys : keys \in [1 .. n -> KeyCode]
  BY ReportFacts
<1>2. keys \in Surjection(1 .. n, Range(keys))
  BY <1>1 DEF Surjection, Range
<1>3. IsFiniteSet(1 .. n)
  BY <1>1, KeyHandlerAssumption, FS_Interval
<1> QED
  BY <1>2, <1>3, FS_Surjection

LEMMA PollProgress ==
  ASSUME KeyInv, ProgressInv,
         NEW mods \in SUBSET Modifier, NEW keys \in KeyReports, KeyStrokePoll(mods, keys)
  PROVE  ProgressInv'
<1> DEFINE table == mKeyStrokeInfo'
<1>1. PICK kept :
        /\ GoodTable(kept) /\ Codes(kept) = Tracked \cap Range(keys)
        /\ \A i \in Slot : mKeyStrokeInfo[i].AppleKeyCode \in Range(keys) =>
                             kept[i].AppleKeyCode = mKeyStrokeInfo[i].AppleKeyCode
        /\ table = CountStrokes(kept, keys)
        /\ pressed' = Range(keys)
  <2>1. Polled(mods, keys)
    BY PollFacts
  <2> QED
    BY <2>1 DEF Polled
<1>2. Counted(kept, keys, table)
  <2> HIDE DEF table
  <2> QED
    BY <1>1, CountFacts
<1>3. steady' = IF pressed' # pressed THEN 1 ELSE IF steady < MaxKeys THEN steady + 1 ELSE steady
  BY DEF KeyStrokePoll
<1>4. IsFiniteSet(pressed') /\ steady' \in Nat
  BY <1>1, <1>3, FiniteReport, KeyHandlerAssumption DEF ProgressInv
<1>5. Tracked' = Codes(table)
  BY DEF Tracked
<1> HIDE DEF table
<1>6. CASE SameCodes(table, kept) /\ Range(keys) \subseteq Codes(kept)
  <2>1. Codes(table) = Codes(kept)
    BY <1>6, SameCodesFacts
  <2>2. Tracked' = pressed'
    BY <1>1, <1>5, <1>6, <2>1
  <2> QED
    BY <1>4, <2>2 DEF ProgressInv
<1>7. CASE SameCodes(table, kept) /\ SlotsOf(kept, NoCode) = {}
  <2>1. SlotsOf(table, NoCode) = {}
    BY <1>7, SameCodesFacts
  <2> QED
    BY <1>4, <2>1 DEF ProgressInv, table
<1>8. ASSUME NEW f \in Slot, NEW k \in Range(keys) \ Codes(kept),
             kept[f].AppleKeyCode = NoCode,
             table[f] = [AppleKeyCode |-> k, NumberOfStrokes |-> 0, CurrentStroke |-> TRUE],
             \A i \in Slot \ {f} : table[i].AppleKeyCode = kept[i].AppleKeyCode
      PROVE  Cardinality(Tracked') >= steady'
  <2>1. k # NoCode /\ NoCode \notin Range(keys)
    BY ReportFacts
  <2>2. Codes(table) = Codes(kept) \cup {k}
    BY <1>8, <2>1 DEF Codes
  <2>3. IsFiniteSet(Codes(kept))
    BY <1>1, <1>4, FS_Subset
  <2>4. /\ Cardinality(Codes(kept)) \in Nat
        /\ Cardinality(Codes(table)) = Cardinality(Codes(kept)) + 1
    BY <2>2, <2>3, FS_AddElement, FS_CardinalityType
  <2>5. CASE pressed' # pressed
    BY <1>3, <1>5, <2>4, <2>5
  <2>6. CASE pressed' = pressed
    <3>1. Codes(kept) = Tracked /\ Tracked # pressed
      BY <1>1, <2>6 DEF KeyInv
    <3>2. mKeyStrokeInfo[f].AppleKeyCode \notin Range(keys)
      BY <1>1, <1>8, <2>1
    <3>3. f \in SlotsOf(mKeyStrokeInfo, NoCode)
      BY <1>1, <2>6, <3>2 DEF KeyInv, Tracked, Codes, SlotsOf
    <3>4. Cardinality(Tracked) >= steady /\ steady \in Nat
      BY <3>1, <3>3 DEF ProgressInv
    <3> QED
      BY <1>3, <1>5, <2>4, <2>6, <3>1, <3>4, KeyHandlerAssumption
  <2> QED
    BY <2>5, <2>6
<1> QED
  BY <1>2, <1>4, <1>6, <1>7, <1>8 DEF Counted, ProgressInv

LEMMA ProgressInitInv == Init => ProgressInv
<1> SUFFICES ASSUME Init PROVE ProgressInv
  OBVIOUS
<1>1. Tracked = pressed
  BY KeyHandlerAssumption DEF Init, Tracked, Codes, Empty
<1> QED
  BY <1>1, FS_EmptySet DEF Init, ProgressInv

LEMMA ProgressNextInv == KeyInv /\ ProgressInv /\ [Next]_vars => ProgressInv'
<1> SUFFICES ASSUME KeyInv, ProgressInv, [Next]_vars PROVE ProgressInv'
  OBVIOUS
<1>1. CASE Next
  BY <1>1, PollProgress DEF Next
<1>2. CASE UNCHANGED vars
  BY <1>2 DEF vars, ProgressInv, Tracked
<1> QED
  BY <1>1, <1>2

\* A table knows no more keys than it has slots, and as many if none is free.
LEMMA RoomInTable ==
  ASSUME KeyInv
  PROVE  /\ IsFiniteSet(Tracked) /\ Cardinality(Tracked) <= SLOTS
         /\ SlotsOf(mKeyStrokeInfo, NoCode) = {} => Cardinality(Tracked) = SLOTS
<1> DEFINE used == Slot \ SlotsOf(mKeyStrokeInfo, NoCode)
           code == [i \in used |-> mKeyStrokeInfo[i].AppleKeyCode]
<1>1. IsFiniteSet(Slot) /\ Cardinality(Slot) = SLOTS
  BY KeyHandlerAssumption, FS_Interval DEF Slot
<1>2. IsFiniteSet(used) /\ Cardinality(used) <= SLOTS
  BY <1>1, FS_Subset
<1>3. code \in Surjection(used, Tracked)
  BY DEF Surjection, Tracked, Codes, SlotsOf
<1>4. code \in Injection(used, Tracked)
  BY <1>3 DEF Injection, IsInjective, Surjection, KeyInv, GoodTable, SlotsOf
<1>5. IsFiniteSet(Tracked) /\ Cardinality(Tracked) = Cardinality(used)
  BY <1>2, <1>3, <1>4, FS_Surjection
<1>6. SlotsOf(mKeyStrokeInfo, NoCode) = {} => used = Slot
  OBVIOUS
<1> QED
  BY <1>1, <1>2, <1>5, <1>6

LEMMA SmallerOfTwo ==
  ASSUME NEW a \in Nat, NEW b \in Nat
  PROVE  Min({a, b}) = IF a <= b THEN a ELSE b
BY DEF Min

LEMMA ProgressAnnounced == KeyInv /\ ProgressInv => EveryKeyAnnounced
<1> SUFFICES ASSUME KeyInv, ProgressInv, steady >= Cardinality(pressed)
             PROVE  Cardinality(Tracked) = Min({SLOTS, Cardinality(pressed)})
  BY DEF EveryKeyAnnounced, KeyInv
<1>1. /\ IsFiniteSet(Tracked) /\ Cardinality(Tracked) <= SLOTS
      /\ SlotsOf(mKeyStrokeInfo, NoCode) = {} => Cardinality(Tracked) = SLOTS
  BY RoomInTable
<1>2. Cardinality(Tracked) <= Cardinality(pressed)
  BY FS_Subset DEF KeyInv, ProgressInv
<1>3. Cardinality(Tracked) \in Nat /\ Cardinality(pressed) \in Nat /\ SLOTS \in Nat
  BY <1>1, FS_CardinalityType, KeyHandlerAssumption DEF ProgressInv
<1>4. Cardinality(Tracked) = SLOTS \/ Cardinality(Tracked) = Cardinality(pressed)
  BY <1>1, <1>2, <1>3 DEF ProgressInv
<1> QED
  BY <1>1, <1>2, <1>3, <1>4, SmallerOfTwo

\* When the same keys are held for as many polls as there are keys, as many of them are known
\* as the table has slots, and everything known was announced (KeyHandler.c:432-471).
THEOREM HeldKeysGetAnnounced == Spec => []EveryKeyAnnounced
<1>1. Init => KeyInv /\ ProgressInv
  BY KeyInitInv, ProgressInitInv
<1>2. KeyInv /\ ProgressInv /\ [Next]_vars => (KeyInv /\ ProgressInv)'
  BY KeyNextInv, ProgressNextInv
<1>3. KeyInv /\ ProgressInv => EveryKeyAnnounced
  BY ProgressAnnounced
<1> QED
  BY <1>1, <1>2, <1>3, PTL DEF Spec

----------------------------------------------------------------------------
(* The USB keyboard: what the changes that wait to be parsed carry. *)

UsbKey == UsbLetter \cup UsbModifier \cup {UsbLock}
UsbItem == [KeyCode : UsbKey, Down : BOOLEAN, with : SUBSET UsbModifier]

\* A change turns the modifiers that were held before it into those held after it, and a
\* letter carries the former.
StepHeld(item, before, after) ==
  /\ after = IF item.KeyCode \in UsbModifier
             THEN IF item.Down THEN before \cup {item.KeyCode} ELSE before \ {item.KeyCode}
             ELSE before
  /\ item.KeyCode \in UsbLetter => item.with = before

\* held[i] are the modifiers that were held before the i-th change, and after the last one
\* those of the last report.  What the parser knows of the first ones: all control keys, no
\* modifier that was not held, and a shift only if one was.
HeldAlong(held, q, last) ==
  /\ held \in [1 .. (Len(q) + 1) -> SUBSET UsbModifier]
  /\ held[Len(q) + 1] = last \cap UsbModifier
  /\ \A i \in 1 .. Len(q) : StepHeld(q[i], held[i], held[i + 1])
Known(held, on, shiftOn) ==
  /\ UsbCtrl \cap held \subseteq on /\ on \subseteq held
  /\ shiftOn => held \cap UsbShift # {}
Carried(q, last, on, shiftOn) ==
  \E held : HeldAlong(held, q, last) /\ Known(held[1], on, shiftOn)

\* A modifier that no change from a to b names stays as it is.
LEMMA UnnamedStays ==
  ASSUME NEW q \in Seq(UsbItem), NEW last, NEW held, HeldAlong(held, q, last),
         NEW m \in UsbModifier, NEW a \in 1 .. (Len(q) + 1), NEW n \in Nat,
         a + n <= Len(q) + 1, \A i \in a .. (a + n - 1) : q[i].KeyCode # m
  PROVE  m \in held[a] <=> m \in held[a + n]
<1> DEFINE same == {k \in 0 .. n : m \in held[a] <=> m \in held[a + k]}
<1>1. 0 \in same
  OBVIOUS
<1>2. ASSUME NEW k \in 0 .. (n - 1), k \in same PROVE k + 1 \in same
  <2>1. a + k \in 1 .. Len(q) /\ a + k \in a .. (a + n - 1) /\ a + (k + 1) = (a + k) + 1
    OBVIOUS
  <2>2. StepHeld(q[a + k], held[a + k], held[(a + k) + 1]) /\ q[a + k].KeyCode # m
    BY <2>1 DEF HeldAlong
  <2>3. m \in held[a + k] <=> m \in held[a + (k + 1)]
    BY <2>1, <2>2 DEF StepHeld
  <2> QED
    BY <1>2, <2>3
<1>3. 0 .. n \subseteq same
  <2> HIDE DEF same
  <2> QED
    BY <1>1, <1>2, StepsReach
<1>4. n \in 0 .. n
  OBVIOUS
<1> QED
  BY <1>3, <1>4

\* What is left when the first n changes are taken off.
Cut(q, rest, n) ==
  /\ rest \in Seq(UsbItem) /\ Len(rest) = Len(q) - n
  /\ \A i \in 1 .. Len(rest) : rest[i] = q[n + i]

LEMMA CutHeld ==
  ASSUME NEW q \in Seq(UsbItem), NEW last, NEW held, HeldAlong(held, q, last),
         NEW n \in 0 .. Len(q), NEW rest, Cut(q, rest, n), NEW on, NEW shiftOn,
         Known(held[n + 1], on, shiftOn)
  PROVE  Carried(rest, last, on, shiftOn)
<1> DEFINE left == [i \in 1 .. (Len(rest) + 1) |-> held[n + i]]
<1>1. Len(rest) \in Nat /\ Len(rest) = Len(q) - n /\ Len(q) \in Nat
  BY DEF Cut
<1>2. ASSUME NEW i \in 1 .. (Len(rest) + 1)
      PROVE  left[i] = held[n + i] /\ left[i] \in SUBSET UsbModifier
  <2>1. n + i \in 1 .. (Len(q) + 1)
    BY <1>1
  <2> QED
    BY <2>1 DEF HeldAlong
<1>3. left[Len(rest) + 1] = last \cap UsbModifier
  <2>1. n + (Len(rest) + 1) = Len(q) + 1 /\ Len(rest) + 1 \in 1 .. (Len(rest) + 1)
    BY <1>1
  <2>2. left[Len(rest) + 1] = held[n + (Len(rest) + 1)]
    BY <2>1, <1>2
  <2> QED
    BY <2>1, <2>2 DEF HeldAlong
<1>4. ASSUME NEW i \in 1 .. Len(rest) PROVE StepHeld(rest[i], left[i], left[i + 1])
  <2>1. /\ n + i \in 1 .. Len(q) /\ n + (i + 1) = (n + i) + 1
        /\ i \in 1 .. (Len(rest) + 1) /\ i + 1 \in 1 .. (Len(rest) + 1)
    BY <1>1
  <2>2. rest[i] = q[n + i] /\ left[i] = held[n + i] /\ left[i + 1] = held[(n + i) + 1]
    <3>1. left[i] = held[n + i] /\ left[i + 1] = held[n + (i + 1)]
      BY <2>1, <1>2
    <3> QED
      BY <2>1, <3>1 DEF Cut
  <2>3. StepHeld(q[n + i], held[n + i], held[(n + i) + 1])
    BY <2>1 DEF HeldAlong
  <2> QED
    BY <2>2, <2>3
<1>5. left \in [1 .. (Len(rest) + 1) -> SUBSET UsbModifier] /\ left[1] = held[n + 1]
  <2>1. 1 \in 1 .. (Len(rest) + 1)
    BY <1>1
  <2> QED
    BY <2>1, <1>2
<1> HIDE DEF left
<1>6. HeldAlong(left, rest, last)
  BY <1>3, <1>4, <1>5 DEF HeldAlong
<1> QED
  BY <1>5, <1>6 DEF Carried

\* Changes that name no modifier can be given up.
LEMMA UnnamedGivenUp ==
  ASSUME NEW q \in Seq(UsbItem), NEW last, NEW on, NEW shiftOn, Carried(q, last, on, shiftOn),
         NEW n \in 0 .. Len(q), NEW rest, Cut(q, rest, n),
         \A i \in 1 .. n : q[i].KeyCode \notin UsbModifier
  PROVE  Carried(rest, last, on, shiftOn)
<1>1. PICK held : HeldAlong(held, q, last) /\ Known(held[1], on, shiftOn)
  BY DEF Carried
<1>2. n \in Nat /\ Len(q) \in Nat /\ 1 \in 1 .. (Len(q) + 1) /\ n + 1 \in 1 .. (Len(q) + 1)
      /\ 1 + n = n + 1
  OBVIOUS
<1>3. ASSUME NEW m \in UsbModifier PROVE m \in held[1] <=> m \in held[n + 1]
  <2>1. \A i \in 1 .. (1 + n - 1) : q[i].KeyCode # m
    BY <1>2
  <2>2. 1 + n <= Len(q) + 1
    BY <1>2
  <2>3. m \in held[1] <=> m \in held[1 + n]
    BY <1>1, <1>2, <2>1, <2>2, UnnamedStays
  <2> QED
    BY <1>2, <2>3
<1>4. held[1] = held[n + 1]
  <2>1. held[1] \subseteq UsbModifier /\ held[n + 1] \subseteq UsbModifier
    BY <1>1, <1>2 DEF HeldAlong
  <2> QED
    BY <1>3, <2>1
<1> QED
  BY <1>1, <1>4, CutHeld

\* Changes queued behind the others.
LEMMA AppendedHeld ==
  ASSUME NEW q \in Seq(UsbItem), NEW last, NEW on, NEW shiftOn, Carried(q, last, on, shiftOn),
         NEW items \in Seq(UsbItem), NEW report, NEW more, HeldAlong(more, items, report),
         more[1] = last \cap UsbModifier
  PROVE  Carried(q \o items, report, on, shiftOn)
<1>1. PICK held : HeldAlong(held, q, last) /\ Known(held[1], on, shiftOn)
  BY DEF Carried
<1> DEFINE all == q \o items
           n == Len(q)
           k == Len(items)
           whole == [i \in 1 .. (n + k + 1) |-> IF i <= n THEN held[i] ELSE more[i - n]]
<1>2. /\ n \in Nat /\ k \in Nat /\ all \in Seq(UsbItem) /\ Len(all) = n + k
      /\ \A i \in 1 .. n : all[i] = q[i]
      /\ \A i \in 1 .. k : all[n + i] = items[i]
  OBVIOUS
<1> HIDE DEF all, n, k
<1>3. ASSUME NEW i \in 1 .. n PROVE whole[i] = held[i] /\ held[i] \in SUBSET UsbModifier
  <2>1. i \in 1 .. (n + k + 1) /\ i <= n /\ i \in 1 .. (n + 1)
    BY <1>2
  <2>2. held[i] \in SUBSET UsbModifier
    BY <2>1, <1>1 DEF HeldAlong, n
  <2> QED
    BY <2>1, <2>2
<1>4. ASSUME NEW i \in 1 .. (k + 1)
      PROVE  whole[n + i] = more[i] /\ more[i] \in SUBSET UsbModifier
  <2>1. n + i \in 1 .. (n + k + 1) /\ ~(n + i <= n) /\ (n + i) - n = i
    BY <1>2
  <2>2. more[i] \in SUBSET UsbModifier
    BY DEF HeldAlong, k
  <2> QED
    BY <2>1, <2>2
<1>5. whole[n + 1] = held[n + 1] /\ n + 1 \in 1 .. (n + k + 1)
  <2>1. 1 \in 1 .. (k + 1) /\ n + 1 \in 1 .. (n + k + 1)
    BY <1>2
  <2>2. held[n + 1] = more[1]
    BY <1>1 DEF HeldAlong, n
  <2> QED
    BY <2>1, <2>2, <1>4
<1>6. \A i \in 1 .. (n + k + 1) : whole[i] \in SUBSET UsbModifier
  <2>1. ASSUME NEW i \in 1 .. (n + k + 1) PROVE whole[i] \in SUBSET UsbModifier
    <3>1. CASE i <= n
      <4>1. i \in 1 .. n
        BY <3>1, <1>2
      <4> HIDE DEF whole
      <4> QED
        BY <4>1, <1>3
    <3>2. CASE i > n
      <4>1. i - n \in 1 .. (k + 1) /\ n + (i - n) = i
        BY <3>2, <1>2
      <4> HIDE DEF whole
      <4> QED
        BY <4>1, <1>4
    <3> QED
      BY <3>1, <3>2, <1>2
  <2> QED
    BY <2>1
<1>7. whole \in [1 .. (n + k + 1) -> SUBSET UsbModifier]
  BY <1>6
<1> HIDE DEF whole
<1>8. whole[n + k + 1] = report \cap UsbModifier
  <2>1. k + 1 \in 1 .. (k + 1) /\ n + (k + 1) = n + k + 1
    BY <1>2
  <2>2. more[k + 1] = report \cap UsbModifier
    BY DEF HeldAlong, k
  <2> QED
    BY <2>1, <2>2, <1>4
<1>9. ASSUME NEW i \in 1 .. (n + k) PROVE StepHeld(all[i], whole[i], whole[i + 1])
  <2>1. CASE i <= n
    <3>1. i \in 1 .. n
      BY <2>1, <1>2
    <3>2. StepHeld(q[i], held[i], held[i + 1])
      BY <3>1, <1>1 DEF HeldAlong, n
    <3>3. whole[i + 1] = held[i + 1]
      <4>1. i + 1 \in 1 .. n \/ i = n
        BY <3>1, <1>2
      <4> QED
        BY <4>1, <1>3, <1>5
    <3> QED
      BY <3>1, <3>2, <3>3, <1>2, <1>3
  <2>2. CASE i > n
    <3>1. PICK j \in 1 .. k : i = n + j
      <4>1. i - n \in 1 .. k /\ n + (i - n) = i
        BY <2>2, <1>2
      <4> QED
        BY <4>1
    <3>2. j \in 1 .. (k + 1) /\ j + 1 \in 1 .. (k + 1) /\ (n + j) + 1 = n + (j + 1)
      BY <1>2
    <3>3. StepHeld(items[j], more[j], more[j + 1])
      BY DEF HeldAlong, k
    <3>4. whole[i] = more[j] /\ whole[i + 1] = more[j + 1] /\ all[i] = items[j]
      BY <3>1, <3>2, <1>2, <1>4
    <3> QED
      BY <3>3, <3>4
  <2> QED
    BY <2>1, <2>2, <1>2
<1>10. HeldAlong(whole, all, report)
  BY <1>2, <1>7, <1>8, <1>9 DEF HeldAlong
<1>11. whole[1] = held[1]
  <2>1. CASE n = 0
    BY <2>1, <1>5
  <2>2. CASE n # 0
    BY <2>2, <1>2, <1>3
  <2> QED
    BY <2>1, <2>2
<1> QED
  BY <1>1, <1>10, <1>11 DEF Carried, all

\* The parser takes releases off.
Leading(q, u) == {q[i].KeyCode : i \in 1 .. u}

LEMMA ReleasesTaken ==
  ASSUME NEW q \in Seq(UsbItem), NEW last, NEW on, NEW shiftOn, Carried(q, last, on, shiftOn),
         NEW u \in 0 .. Len(q), \A i \in 1 .. u : ~q[i].Down, NEW rest, Cut(q, rest, u),
         NEW shiftStays, shiftStays => shiftOn /\ Leading(q, u) \cap UsbShift = {}
  PROVE  Carried(rest, last, on \ Leading(q, u), shiftStays)
<1> DEFINE up == Leading(q, u)
<1>1. PICK held : HeldAlong(held, q, last) /\ Known(held[1], on, shiftOn)
  BY DEF Carried
<1> DEFINE Parsed(k) == held[k + 1] = held[1] \ {q[i].KeyCode : i \in 1 .. k}
           parsed == {k \in 0 .. u : Parsed(k)}
<1>2. u \in Nat /\ Len(q) \in Nat /\ u <= Len(q)
  OBVIOUS
<1>3. 0 \in parsed
  OBVIOUS
<1>4. ASSUME NEW k \in 0 .. (u - 1), k \in parsed PROVE k + 1 \in parsed
  <2>1. k + 1 \in 1 .. Len(q) /\ k + 1 \in 1 .. u /\ k + 1 \in 0 .. u
    BY <1>2
  <2>2. StepHeld(q[k + 1], held[k + 1], held[(k + 1) + 1]) /\ ~q[k + 1].Down
    BY <1>1, <2>1 DEF HeldAlong
  <2>3. held[k + 1] \subseteq UsbModifier
    BY <1>1, <1>2, <2>1 DEF HeldAlong
  <2>4. held[(k + 1) + 1] = held[k + 1] \ {q[k + 1].KeyCode}
    BY <2>2, <2>3 DEF StepHeld
  <2>5. 1 .. (k + 1) = (1 .. k) \cup {k + 1}
    OBVIOUS
  <2>6. {q[i].KeyCode : i \in 1 .. (k + 1)} = {q[i].KeyCode : i \in 1 .. k} \cup {q[k + 1].KeyCode}
    BY <2>5
  <2>7. Parsed(k)
    BY <1>4
  <2>8. Parsed(k + 1)
    BY <2>4, <2>6, <2>7
  <2> HIDE DEF Parsed
  <2> QED
    BY <2>1, <2>8
<1>5. Parsed(u)
  <2>1. 0 .. u \subseteq parsed
    <3> HIDE DEF parsed
    <3> QED
      BY <1>2, <1>3, <1>4, StepsReach
  <2>2. u \in 0 .. u
    BY <1>2
  <2> HIDE DEF Parsed
  <2> QED
    BY <2>1, <2>2
<1>6. held[u + 1] = held[1] \ up
  BY <1>5 DEF Leading
<1>7. Known(held[u + 1], on \ up, shiftStays)
  BY <1>1, <1>6 DEF Known
<1> QED
  BY <1>1, <1>7, CutHeld

\* What a keystroke shows of the modifiers its key carries.
Shows(item, on, shiftOn) ==
  /\ UsbCtrl \cap item.with \subseteq on \ UsbShift
  /\ on \subseteq item.with
  /\ shiftOn => item.with \cap UsbShift # {}

\* The parser takes a press off.
LEMMA PressTaken ==
  ASSUME NEW q \in Seq(UsbItem), q # << >>, NEW last, NEW on, NEW shiftOn,
         Carried(q, last, on, shiftOn), Head(q).Down, NEW key, key = Head(q).KeyCode,
         NEW shiftAfter, shiftAfter => shiftOn \/ key \in UsbShift
  PROVE  /\ Carried(Tail(q), last, on \cup ({key} \cap UsbModifier), shiftAfter)
         /\ key \in UsbLetter => Shows(Head(q), on, shiftOn)
<1>1. PICK held : HeldAlong(held, q, last) /\ Known(held[1], on, shiftOn)
  BY DEF Carried
<1>2. /\ Len(q) \in Nat /\ Len(q) > 0 /\ 1 \in 1 .. Len(q) /\ Head(q) = q[1]
      /\ q[1] \in UsbItem /\ 1 \in 0 .. Len(q)
  BY EmptySeq, LenProperties
<1>3. Cut(q, Tail(q), 1)
  BY <1>2 DEF Cut
<1>4. StepHeld(q[1], held[1], held[2]) /\ held[1] \subseteq UsbModifier
  <2>1. 1 + 1 = 2 /\ 1 \in 1 .. (Len(q) + 1)
    BY <1>2
  <2> QED
    BY <1>1, <1>2, <2>1 DEF HeldAlong
<1>5. Known(held[2], on \cup ({key} \cap UsbModifier), shiftAfter)
  <2>1. UsbShift \subseteq UsbModifier
    BY UsbAssumption DEF UsbModifier
  <2>2. CASE key \in UsbModifier
    <3>1. held[2] = held[1] \cup {key}
      BY <2>2, <1>2, <1>4 DEF StepHeld
    <3> QED
      BY <1>1, <2>2, <3>1 DEF Known
  <2>3. CASE key \notin UsbModifier
    <3>1. held[2] = held[1] /\ key \notin UsbShift
      BY <2>1, <2>3, <1>2, <1>4 DEF StepHeld
    <3> QED
      BY <1>1, <2>3, <3>1 DEF Known
  <2> QED
    BY <2>2, <2>3
<1>6. Carried(Tail(q), last, on \cup ({key} \cap UsbModifier), shiftAfter)
  <2>1. 1 + 1 = 2
    OBVIOUS
  <2> HIDE DEF Known
  <2> QED
    BY <1>1, <1>2, <1>3, <1>5, <2>1, CutHeld
<1>7. ASSUME key \in UsbLetter PROVE Shows(Head(q), on, shiftOn)
  <2>1. q[1].with = held[1]
    BY <1>2, <1>4, <1>7 DEF StepHeld
  <2> QED
    BY <1>1, <1>2, <2>1, UsbAssumption DEF Known, Shows
<1> QED
  BY <1>6, <1>7

\* The flags of the shift keys can be given up.
LEMMA HiddenKept ==
  ASSUME NEW q, NEW last, NEW on, NEW shiftOn, Carried(q, last, on, shiftOn)
  PROVE  Carried(q, last, on \ UsbShift, shiftOn)
BY UsbAssumption DEF Carried, Known

----------------------------------------------------------------------------
(* The changes of a report. *)

\* A set of numbers with a bound has a greatest.
LEMMA GreatestOf ==
  ASSUME NEW n \in Nat, NEW S \in SUBSET (1 .. n), S # {}
  PROVE  Max(S) \in S /\ \A i \in S : Max(S) >= i
<1> DEFINE under == {n - i : i \in S}
<1>1. under \in SUBSET Nat /\ under # {}
  <2>1. \A i \in S : n - i \in Nat
    OBVIOUS
  <2> QED
    BY <2>1
<1>2. PICK least \in under : \A k \in under : least <= k
  <2> HIDE DEF under
  <2> QED
    BY <1>1, NatSetHasMinimum
<1>3. PICK g \in S : least = n - g
  OBVIOUS
<1>4. \A i \in S : g >= i
  <2>1. ASSUME NEW i \in S PROVE g >= i
    <3>1. n - g <= n - i
      BY <1>2, <1>3
    <3> QED
      BY <3>1
  <2> QED
    BY <2>1
<1>5. \E x \in S : \A y \in S : x >= y
  BY <1>4
<1> QED
  BY <1>5 DEF Max

\* The control keys' flags after all changes are those of the last report.
LEMMA FlagsFollow ==
  ASSUME NEW q, kb.UsbKeyQueue = q, q \in Seq(UsbItem), NEW shiftOn,
         Carried(q, kb.LastKeyCodeArray, kb.On, shiftOn), NEW m \in UsbCtrl
  PROVE  FlagOf(m) = (m \in kb.LastKeyCodeArray)
<1>1. PICK held : HeldAlong(held, q, kb.LastKeyCodeArray) /\ Known(held[1], kb.On, shiftOn)
  BY DEF Carried
<1>2. m \in UsbModifier /\ Len(q) \in Nat /\ DOMAIN q = 1 .. Len(q)
  BY UsbAssumption DEF UsbModifier
<1>3. m \in held[Len(q) + 1] <=> m \in kb.LastKeyCodeArray
  BY <1>1, <1>2 DEF HeldAlong
<1> DEFINE named == {i \in DOMAIN q : q[i].KeyCode = m}
<1>4. CASE named = {}
  <2>1. FlagOf(m) = (m \in kb.On)
    BY <1>4 DEF FlagOf
  <2>2. m \in held[1] <=> m \in kb.On
    BY <1>1 DEF Known
  <2>3. \A i \in 1 .. (1 + Len(q) - 1) : q[i].KeyCode # m
    BY <1>2, <1>4
  <2>4. 1 \in 1 .. (Len(q) + 1) /\ 1 + Len(q) <= Len(q) + 1 /\ 1 + Len(q) = Len(q) + 1
    BY <1>2
  <2>5. m \in held[1] <=> m \in held[1 + Len(q)]
    BY <1>1, <1>2, <2>3, <2>4, UnnamedStays
  <2> QED
    BY <1>3, <2>1, <2>2, <2>4, <2>5
<1>5. CASE named # {}
  <2> DEFINE g == Max(named)
  <2>1. g \in named /\ \A i \in named : g >= i
    <3>1. named \in SUBSET (1 .. Len(q))
      BY <1>2
    <3> HIDE DEF named
    <3> QED
      BY <1>2, <1>5, <3>1, GreatestOf
  <2>2. FlagOf(m) = q[g].Down
    BY <1>5 DEF FlagOf
  <2> HIDE DEF g
  <2>3. g \in 1 .. Len(q) /\ q[g].KeyCode = m /\ q[g] \in UsbItem
    BY <1>2, <2>1
  <2>4. StepHeld(q[g], held[g], held[g + 1])
    BY <1>1, <2>3 DEF HeldAlong
  <2>5. q[g].Down \in BOOLEAN /\ (m \in held[g + 1] <=> q[g].Down)
    BY <1>2, <2>3, <2>4 DEF StepHeld, UsbItem
  <2> DEFINE n == Len(q) - g
  <2>6. n \in Nat /\ (g + 1) + n = Len(q) + 1 /\ g + 1 \in 1 .. (Len(q) + 1)
        /\ (g + 1) + n <= Len(q) + 1
    BY <1>2, <2>3
  <2>7. \A i \in (g + 1) .. ((g + 1) + n - 1) : q[i].KeyCode # m
    <3>1. ASSUME NEW i \in (g + 1) .. ((g + 1) + n - 1), q[i].KeyCode = m PROVE FALSE
      <4>1. i \in 1 .. Len(q) /\ ~(g >= i)
        BY <1>2, <2>3
      <4>2. i \in named
        BY <1>2, <3>1, <4>1
      <4> HIDE DEF named
      <4> QED
        BY <2>1, <4>1, <4>2
    <3> QED
      BY <3>1
  <2> HIDE DEF n
  <2>8. m \in held[g + 1] <=> m \in held[(g + 1) + n]
    BY <1>1, <1>2, <2>6, <2>7, UnnamedStays
  <2> QED
    BY <1>3, <2>2, <2>5, <2>6, <2>8
<1> QED
  BY <1>4, <1>5

LEMMA KeysAreFinite == IsFiniteSet(UsbKey) /\ UsbLetter \cap UsbModifier = {}
                       /\ UsbLock \notin UsbModifier
<1>1. UsbModifiers \in Surjection(1 .. Len(UsbModifiers), UsbModifier)
  <2>1. UsbModifiers \in [1 .. Len(UsbModifiers) -> UsbModifier]
    BY UsbAssumption DEF UsbModifier, Range
  <2> QED
    BY <2>1 DEF Surjection, UsbModifier, Range
<1>2. IsFiniteSet(1 .. Len(UsbModifiers))
  <2>1. Len(UsbModifiers) \in Int /\ 1 \in Int
    BY UsbAssumption
  <2> QED
    BY <2>1, FS_Interval
<1>3. IsFiniteSet(UsbModifier)
  BY <1>1, <1>2, FS_Surjection
<1>4. IsFiniteSet(UsbLetter \cup UsbModifier)
  BY <1>3, UsbAssumption, FS_Union
<1>5. IsFiniteSet(UsbKey)
  BY <1>4, FS_AddElement DEF UsbKey
<1> QED
  BY <1>5, UsbAssumption DEF UsbModifier

\* An order of a set of keys is a list of all of them.
LEMMA OrderFacts ==
  ASSUME NEW S \in SUBSET UsbKey, NEW keys \in SetToSeqs(S)
  PROVE  /\ keys \in Seq(S) /\ keys \in Seq(UsbKey)
         /\ \A i \in 1 .. Len(keys) : keys[i] \in S
<1>1. IsFiniteSet(S)
  BY KeysAreFinite, FS_Subset
<1>2. Cardinality(S) \in Nat /\ keys \in [1 .. Cardinality(S) -> S]
  BY <1>1, FS_CardinalityType DEF SetToSeqs
<1>3. keys \in Seq(S) /\ Len(keys) = Cardinality(S)
  BY <1>2, FunctionIsSeq
<1> QED
  BY <1>2, <1>3

\* The changes of a report, the modifiers first, lead from the last report to it.
LEMMA ChangesHeld ==
  ASSUME kb.LastKeyCodeArray \in SUBSET UsbKey, NEW report \in SUBSET UsbKey,
         NEW releases \in SetToSeqs(Released(report)),
         NEW presses \in SetToSeqs(Pressed(report)),
         NEW items, items = Changes(report, releases, presses)
  PROVE  /\ items \in Seq(UsbItem)
         /\ \E more : /\ HeldAlong(more, items, report)
                      /\ more[1] = kb.LastKeyCodeArray \cap UsbModifier
<1> DEFINE last == kb.LastKeyCodeArray
           differ == {m \in UsbModifier : (m \in report) # (m \in last)}
           mods == Only(UsbModifiers, differ)
           n == Len(mods)
           rest == releases \o presses
           keys == mods \o rest
<1>1. UsbModifier \subseteq UsbKey /\ differ \subseteq UsbModifier
  BY DEF UsbKey
<1>2. /\ mods \in Seq(UsbModifier) /\ differ \subseteq {mods[i] : i \in 1 .. n}
      /\ \A i \in 1 .. n : mods[i] \in UsbModifier
  <2>1. UsbModifiers \in Seq(UsbModifier) /\ IsInjective(UsbModifiers)
        /\ {UsbModifiers[i] : i \in 1 .. Len(UsbModifiers)} = UsbModifier
    BY UsbAssumption DEF UsbModifier, Range
  <2>2. OnlyRight(UsbModifier, UsbModifiers, differ, mods, Len(UsbModifiers))
    BY <2>1, OnlyFacts
  <2>3. mods \in Seq(UsbModifier) /\ Range(mods) = UsbModifier \cap differ
    BY <2>1, <2>2 DEF OnlyRight
  <2> HIDE DEF mods
  <2> QED
    BY <1>1, <2>3 DEF Range
<1>3. /\ rest \in Seq(UsbKey) /\ \A i \in 1 .. Len(rest) : rest[i] \notin UsbModifier
  <2>1. /\ Released(report) \subseteq UsbKey \ UsbModifier
        /\ Pressed(report) \subseteq UsbKey \ UsbModifier
        /\ Released(report) \in SUBSET UsbKey /\ Pressed(report) \in SUBSET UsbKey
    BY DEF Released, Pressed
  <2>2. /\ releases \in Seq(UsbKey)
        /\ \A i \in 1 .. Len(releases) : releases[i] \in Released(report)
        /\ presses \in Seq(UsbKey) /\ \A i \in 1 .. Len(presses) : presses[i] \in Pressed(report)
    BY <2>1, OrderFacts
  <2>3. rest \in Seq(UsbKey)
    BY <2>2
  <2>4. ASSUME NEW i \in 1 .. Len(rest) PROVE rest[i] \notin UsbModifier
    <3>1. Len(rest) = Len(releases) + Len(presses)
      BY <2>2
    <3>2. CASE i <= Len(releases)
      <4>1. i \in 1 .. Len(releases) /\ rest[i] = releases[i]
        BY <2>2, <3>1, <3>2
      <4> QED
        BY <2>1, <2>2, <4>1
    <3>3. CASE i > Len(releases)
      <4>1. i - Len(releases) \in 1 .. Len(presses) /\ rest[i] = presses[i - Len(releases)]
        BY <2>2, <3>1, <3>3
      <4> QED
        BY <2>1, <2>2, <4>1
    <3> QED
      BY <2>2, <3>2, <3>3
  <2> QED
    BY <2>3, <2>4
<1> HIDE DEF mods, rest, differ
<1>4. /\ keys \in Seq(UsbKey) /\ n \in Nat /\ n <= Len(keys) /\ Len(keys) \in Nat
      /\ \A i \in 1 .. n : keys[i] = mods[i]
      /\ \A i \in (n + 1) .. Len(keys) : keys[i] \notin UsbModifier
  <2>1. mods \in Seq(UsbKey)
    BY <1>1, <1>2
  <2>2. /\ keys \in Seq(UsbKey) /\ n \in Nat /\ Len(rest) \in Nat /\ Len(keys) = n + Len(rest)
        /\ \A i \in 1 .. n : keys[i] = mods[i]
        /\ \A i \in (n + 1) .. Len(keys) : keys[i] = rest[i - n]
    BY <1>3, <2>1
  <2> HIDE DEF n, keys
  <2>3. ASSUME NEW i \in (n + 1) .. Len(keys) PROVE keys[i] \notin UsbModifier
    <3>1. i - n \in 1 .. Len(rest)
      BY <2>2
    <3> QED
      BY <1>3, <2>2, <3>1
  <2>4. n <= Len(keys) /\ Len(keys) \in Nat
    BY <2>2
  <2> QED
    BY <2>2, <2>3, <2>4
<1>5. items = [i \in DOMAIN keys |-> Change(report, keys[i])]
  <2>1. keys = Only(UsbModifiers, differ) \o releases \o presses
    <3>1. releases \in Seq(UsbKey) /\ presses \in Seq(UsbKey) /\ mods \in Seq(UsbKey)
      <4>1. Released(report) \in SUBSET UsbKey /\ Pressed(report) \in SUBSET UsbKey
        BY DEF Released, Pressed
      <4> QED
        BY <1>1, <1>2, <4>1, OrderFacts
    <3>2. mods \o (releases \o presses) = (mods \o releases) \o presses
      BY <3>1, ConcatAssociative
    <3> QED
      BY <3>2 DEF mods, rest
  <2> QED
    BY <2>1 DEF Changes, differ
<1> HIDE DEF n, keys
<1>6. ASSUME NEW i \in 1 .. Len(keys)
      PROVE  /\ items[i] = Change(report, keys[i]) /\ items[i] \in UsbItem
             /\ items[i].KeyCode = keys[i] /\ items[i].Down = (keys[i] \in report)
             /\ keys[i] \in UsbLetter => items[i].with = report \cap UsbModifier
  <2>1. i \in DOMAIN keys /\ keys[i] \in UsbKey
    BY <1>4
  <2>2. items[i] = Change(report, keys[i])
    BY <1>5, <2>1
  <2>3. (keys[i] \in report) \in BOOLEAN /\ report \cap UsbModifier \in SUBSET UsbModifier
        /\ {} \in SUBSET UsbModifier
    OBVIOUS
  <2> QED
    BY <2>1, <2>2, <2>3 DEF Change, UsbItem
<1>7. items \in Seq(UsbItem) /\ Len(items) = Len(keys)
  <2>1. items \in [1 .. Len(keys) -> UsbItem]
    <3>1. DOMAIN keys = 1 .. Len(keys)
      BY <1>4
    <3>2. \A i \in 1 .. Len(keys) : items[i] \in UsbItem
      BY <1>6
    <3> QED
      BY <1>5, <3>1, <3>2
  <2> QED
    BY <2>1, <1>4, FunctionIsSeq
<1> DEFINE Named(i) == {keys[j] : j \in 1 .. (i - 1)}
           Held(i) == {m \in UsbModifier : IF m \in Named(i) THEN m \in report ELSE m \in last}
           more == [i \in 1 .. (Len(keys) + 1) |-> Held(i)]
<1>8. \A i \in (n + 1) .. (Len(keys) + 1) : Held(i) = report \cap UsbModifier
  <2>1. ASSUME NEW i \in (n + 1) .. (Len(keys) + 1), NEW m \in UsbModifier, m \in differ
        PROVE  m \in Named(i)
    <3>1. PICK j \in 1 .. n : m = mods[j]
      BY <1>2, <2>1 DEF n
    <3>2. j \in 1 .. (i - 1) /\ keys[j] = m
      BY <1>4, <3>1
    <3> QED
      BY <3>2
  <2>2. ASSUME NEW m \in UsbModifier, m \notin differ PROVE (m \in report) = (m \in last)
    BY <2>2 DEF differ
  <2> HIDE DEF Named
  <2> QED
    BY <2>1, <2>2
<1>9. Held(1) = last \cap UsbModifier
  <2>1. Named(1) = {}
    OBVIOUS
  <2> HIDE DEF Named
  <2> QED
    BY <2>1
<1>10. ASSUME NEW i \in 1 .. Len(keys) PROVE StepHeld(items[i], Held(i), Held(i + 1))
  <2>1. Named(i + 1) = Named(i) \cup {keys[i]}
    <3>1. 1 .. ((i + 1) - 1) = (1 .. (i - 1)) \cup {i}
      OBVIOUS
    <3> QED
      BY <3>1
  <2>2. keys[i] \in UsbLetter => Held(i) = report \cap UsbModifier
    <3>1. ASSUME keys[i] \in UsbLetter PROVE i \in (n + 1) .. (Len(keys) + 1)
      <4>1. i \notin 1 .. n
        BY <1>2, <1>4, <3>1, KeysAreFinite
      <4> QED
        BY <1>4, <4>1
    <3> HIDE DEF Held
    <3> QED
      BY <1>8, <3>1
  <2> HIDE DEF Named
  <2>3. Held(i + 1) = IF keys[i] \in UsbModifier
                      THEN IF keys[i] \in report THEN Held(i) \cup {keys[i]}
                           ELSE Held(i) \ {keys[i]}
                      ELSE Held(i)
    BY <2>1
  <2> HIDE DEF Held
  <2> QED
    BY <1>6, <2>2, <2>3 DEF StepHeld
<1>11. HeldAlong(more, items, report)
  <2>1. \A i \in 1 .. (Len(keys) + 1) : Held(i) \in SUBSET UsbModifier
    OBVIOUS
  <2>2. Held(Len(keys) + 1) = report \cap UsbModifier
    <3>1. Len(keys) + 1 \in (n + 1) .. (Len(keys) + 1)
      BY <1>4
    <3> HIDE DEF Held
    <3> QED
      BY <3>1, <1>8
  <2> HIDE DEF Held
  <2>3. \A i \in 1 .. Len(keys) : i \in 1 .. (Len(keys) + 1) /\ i + 1 \in 1 .. (Len(keys) + 1)
    BY <1>4
  <2>4. Len(keys) + 1 \in 1 .. (Len(keys) + 1)
    BY <1>4
  <2> QED
    BY <1>7, <1>10, <2>1, <2>2, <2>3, <2>4 DEF HeldAlong
<1>12. more[1] = last \cap UsbModifier
  <2>1. 1 \in 1 .. (Len(keys) + 1)
    BY <1>4
  <2> HIDE DEF Held
  <2> QED
    BY <2>1, <1>9
<1> QED
  BY <1>7, <1>11, <1>12

----------------------------------------------------------------------------
(* The invariant of the USB keyboard. *)

UsbKb ==
  [LastKeyCodeArray : SUBSET UsbKey, UsbKeyQueue : Seq(UsbItem), On : SUBSET UsbModifier,
   CtrlOn : BOOLEAN, ShiftOn : BOOLEAN, RepeatKey : UsbLetter \cup {NoUsbKey}]
UsbRepeating ==
  [key : UsbLetter \cup {NoUsbKey},
   at : {"idle", "check", "room", "copy", "tail", "stale", "timer"}]

UsbTyped ==
  /\ kb \in UsbKb
  /\ bound \in [times : Nat, now : BOOLEAN, left : Nat, reports : Nat]
  /\ keyMap \in [there : BOOLEAN, keys : SUBSET UsbKey]
  /\ submitted \in BOOLEAN /\ RepeatTimer \in BOOLEAN /\ DelayedRecoveryEvent \in BOOLEAN
  /\ repeating \in UsbRepeating
  /\ resetting \in {"no", "queues", "flags", "array", "timer"}
  /\ modifierLost \in BOOLEAN /\ mislabelled \in BOOLEAN
  /\ keyMapOld \in SUBSET UsbKey /\ overshoot \in {0, 1}

\* Reports and repetitions come only while the driver is bound, resets too, and a start
\* finds everything clean.
UsbBound ==
  /\ submitted \/ repeating.at # "idle" \/ resetting # "no" => bound.now
  /\ ~bound.now /\ bound.times < UsbMaxStarts => kb = Clean /\ keyMapOld = {}

\* A repetition has a letter.
RepeatingRight ==
  IF repeating.at = "idle" THEN repeating = Idle ELSE repeating.key \in UsbLetter

\* As long as the timer of the repetition is set, or its handler runs, the key that
\* repeats is held, and a repetition of a key that is not is the first one; but not from
\* the step of a reset that forgets the keys to the one that cancels the timer, which
\* no repetition that began earlier or ends later overlaps.
RepeatRight ==
  /\ (RepeatTimer \/ repeating.at # "idle") /\ kb.RepeatKey # NoUsbKey =>
       kb.RepeatKey \in UsbLetter /\ (kb.RepeatKey \in kb.LastKeyCodeArray \/ resetting = "array")
  /\ repeating.at \notin {"idle", "timer"} /\ repeating.key \notin kb.LastKeyCodeArray =>
       overshoot = 0 \/ resetting = "array"

ModifiersCarried ==
  /\ ~mislabelled
  /\ ~modifierLost => Carried(kb.UsbKeyQueue, kb.LastKeyCodeArray, kb.On, kb.ShiftOn)

UsbInv ==
  /\ UsbTyped /\ UsbBound /\ RepeatingRight /\ RepeatRight /\ ModifiersCarried
  /\ KeyMapFollowsReports

\* A full queue gives up its first elements.
LEMMA EnqueueFacts ==
  ASSUME NEW S, NEW q \in Seq(S), NEW items \in Seq(S)
  PROVE  /\ Enqueue(q, items) \in Seq(S)
         /\ \E n \in 0 .. Len(q \o items) :
              /\ Enqueue(q, items) = SubSeq(q \o items, n + 1, Len(q \o items))
              /\ GivenUp(q, items) = SubSeq(q \o items, 1, n)
<1> DEFINE all == q \o items
           least == Min({Len(all), MAX_KEY_ALLOWED})
           n == Len(all) - least
<1>1. all \in Seq(S) /\ Len(all) = Len(q) + Len(items) /\ Len(all) \in Nat
  OBVIOUS
<1> HIDE DEF all
<1>2. least = IF Len(all) <= MAX_KEY_ALLOWED THEN Len(all) ELSE MAX_KEY_ALLOWED
  <2> DEFINE a == Len(all)
  <2>1. a \in Nat /\ MAX_KEY_ALLOWED \in Nat
    BY <1>1, UsbAssumption
  <2> HIDE DEF a
  <2>2. Min({a, MAX_KEY_ALLOWED}) = IF a <= MAX_KEY_ALLOWED THEN a ELSE MAX_KEY_ALLOWED
    BY <2>1 DEF Min
  <2> QED
    BY <2>2 DEF a
<1>3. n \in 0 .. Len(all) /\ least \in Nat
  BY <1>1, <1>2, UsbAssumption
<1>4. Enqueue(q, items) = SubSeq(all, n + 1, Len(all))
  BY DEF Enqueue, all
<1>5. GivenUp(q, items) = SubSeq(all, 1, n)
  <2>1. GivenUp(q, items) =
          SubSeq(all, 1, Len(q) + Len(items) - Min({Len(q) + Len(items), MAX_KEY_ALLOWED}))
    BY DEF GivenUp, all
  <2>2. Min({Len(q) + Len(items), MAX_KEY_ALLOWED}) = least
    BY <1>1
  <2>3. Len(q) + Len(items) - least = n
    BY <1>1, <1>3
  <2> HIDE DEF n, least
  <2> QED
    BY <2>1, <2>2, <2>3
<1> HIDE DEF n
<1>6. SubSeq(all, n + 1, Len(all)) \in Seq(S)
  BY <1>1, <1>3
<1> QED
  BY <1>3, <1>4, <1>5, <1>6 DEF all

LEMMA SubSeqCut ==
  ASSUME NEW q \in Seq(UsbItem), NEW n \in 0 .. Len(q)
  PROVE  Cut(q, SubSeq(q, n + 1, Len(q)), n)
BY DEF Cut

\* Changes queued: what the full queue gives up names no modifier, or one is lost.
LEMMA QueuedCarried ==
  ASSUME NEW q \in Seq(UsbItem), NEW items \in Seq(UsbItem), NEW last, NEW on, NEW shiftOn,
         Carried(q \o items, last, on, shiftOn), ~NamesModifier(GivenUp(q, items))
  PROVE  Carried(Enqueue(q, items), last, on, shiftOn)
<1> DEFINE all == q \o items
<1>1. PICK n \in 0 .. Len(all) : /\ Enqueue(q, items) = SubSeq(all, n + 1, Len(all))
                                 /\ GivenUp(q, items) = SubSeq(all, 1, n)
  BY EnqueueFacts
<1>2. all \in Seq(UsbItem)
  OBVIOUS
<1> HIDE DEF all
<1>3. \A i \in 1 .. n : all[i].KeyCode \notin UsbModifier
  <2>1. ASSUME NEW i \in 1 .. n
        PROVE  i \in DOMAIN SubSeq(all, 1, n) /\ SubSeq(all, 1, n)[i] = all[i]
    BY <1>2
  <2> QED
    BY <1>1, <2>1 DEF NamesModifier
<1>4. Cut(all, SubSeq(all, n + 1, Len(all)), n)
  BY <1>2, SubSeqCut
<1>5. Carried(all, last, on, shiftOn)
  BY DEF all
<1>6. Carried(SubSeq(all, n + 1, Len(all)), last, on, shiftOn)
  BY <1>2, <1>3, <1>4, <1>5, UnnamedGivenUp
<1> QED
  BY <1>1, <1>6

LEMMA NewRepeatFacts ==
  ASSUME UsbTyped, RepeatRight, NEW report \in SUBSET UsbKey,
         NEW presses \in SetToSeqs(Pressed(report)), NEW r, r = NewRepeatKey(report, presses)
  PROVE  /\ r \in UsbLetter \cup {NoUsbKey}
         /\ (RepeatTimerAfter(report, presses) \/ repeating.at # "idle") /\ r # NoUsbKey =>
              r \in UsbLetter /\ (r \in report \/ resetting = "array")
<1>1. kb.LastKeyCodeArray \in SUBSET UsbKey /\ kb.RepeatKey \in UsbLetter \cup {NoUsbKey}
  BY DEF UsbTyped, UsbKb
<1>2. CASE Repeatable(presses) # {}
  <2>1. /\ presses \in Seq(UsbKey)
        /\ \A i \in 1 .. Len(presses) : presses[i] \in Pressed(report)
    <3>1. Pressed(report) \in SUBSET UsbKey
      BY DEF Pressed
    <3> QED
      BY <3>1, OrderFacts
  <2>2. Len(presses) \in Nat /\ DOMAIN presses = 1 .. Len(presses)
    BY <2>1
  <2>3. Repeatable(presses) \in SUBSET (1 .. Len(presses))
    BY <2>2 DEF Repeatable
  <2>4. Max(Repeatable(presses)) \in Repeatable(presses)
    BY <1>2, <2>2, <2>3, GreatestOf
  <2>5. r = presses[Max(Repeatable(presses))]
    BY <1>2 DEF NewRepeatKey
  <2>6. r \in Pressed(report) /\ r # UsbLock
    BY <2>1, <2>3, <2>4, <2>5 DEF Repeatable
  <2>7. r \in report \cap UsbLetter
    BY <2>6 DEF Pressed, UsbKey
  <2> QED
    BY <2>7
<1>3. CASE Repeatable(presses) = {} /\ presses # << >>
  BY <1>3 DEF NewRepeatKey
<1>4. CASE Repeatable(presses) = {} /\ presses = << >>
  <2>1. r = RepeatKeyKept(report)
    BY <1>4 DEF NewRepeatKey
  <2>2. ASSUME RepeatTimerAfter(report, presses) \/ repeating.at # "idle", r # NoUsbKey
        PROVE  r \in UsbLetter /\ (r \in report \/ resetting = "array")
    <3>1. RepeatTimer \/ repeating.at # "idle"
      BY <1>4, <2>2 DEF RepeatTimerAfter
    <3>2. r = kb.RepeatKey /\ r \notin Released(report)
      BY <2>1, <2>2 DEF RepeatKeyKept
    <3>3. r \in UsbLetter /\ (r \in kb.LastKeyCodeArray \/ resetting = "array")
      BY <2>2, <3>1, <3>2 DEF RepeatRight
    <3> QED
      BY <3>2, <3>3, KeysAreFinite DEF Released
  <2> QED
    BY <1>1, <2>1, <2>2 DEF RepeatKeyKept
<1> QED
  BY <1>2, <1>3, <1>4

\* A report is handled.
LEMMA ReportInv ==
  ASSUME UsbInv, NEW report \in SUBSET UsbKey,
         NEW releases \in SetToSeqs(Released(report)),
         NEW presses \in SetToSeqs(Pressed(report)), KeyboardHandler(report, releases, presses)
  PROVE  UsbInv'
<1> DEFINE items == Changes(report, releases, presses)
           r == NewRepeatKey(report, presses)
           q == kb.UsbKeyQueue
<1>1. /\ submitted /\ bound' = [bound EXCEPT !.reports = @ + 1]
      /\ kb' = [kb EXCEPT !.LastKeyCodeArray = report, !.UsbKeyQueue = Enqueue(@, items),
                          !.RepeatKey = r]
      /\ RepeatTimer' = RepeatTimerAfter(report, presses)
      /\ keyMap' = IF keyMap.there THEN [keyMap EXCEPT !.keys = report] ELSE keyMap
      /\ modifierLost' = (modifierLost \/ NamesModifier(GivenUp(q, items)))
      /\ keyMapOld' = {} /\ overshoot' = 0
      /\ repeating' = Overtaken
      /\ UNCHANGED <<submitted, DelayedRecoveryEvent, resetting, mislabelled>>
  BY DEF KeyboardHandler, ToldKeys
<1>2. UsbTyped /\ UsbBound /\ RepeatingRight /\ RepeatRight /\ ModifiersCarried
  BY DEF UsbInv
<1>3. /\ q \in Seq(UsbItem) /\ kb.LastKeyCodeArray \in SUBSET UsbKey
      /\ kb.On \in SUBSET UsbModifier /\ kb.ShiftOn \in BOOLEAN /\ kb \in UsbKb
  BY <1>2 DEF UsbTyped, UsbKb
<1>4. /\ items \in Seq(UsbItem)
      /\ \E more : /\ HeldAlong(more, items, report)
                   /\ more[1] = kb.LastKeyCodeArray \cap UsbModifier
  BY <1>3, ChangesHeld
<1>5. /\ r \in UsbLetter \cup {NoUsbKey}
      /\ (RepeatTimerAfter(report, presses) \/ repeating.at # "idle") /\ r # NoUsbKey =>
           r \in UsbLetter /\ (r \in report \/ resetting = "array")
  BY <1>2, NewRepeatFacts
<1> HIDE DEF items, r
<1>6. Enqueue(q, items) \in Seq(UsbItem)
  BY <1>3, <1>4, EnqueueFacts
<1>7. /\ kb'.LastKeyCodeArray = report /\ kb'.UsbKeyQueue = Enqueue(q, items)
      /\ kb'.RepeatKey = r /\ kb'.On = kb.On /\ kb'.ShiftOn = kb.ShiftOn
  BY <1>1, <1>3 DEF UsbKb
<1>13. /\ bound'.now = bound.now /\ bound'.times = bound.times
       /\ bound' \in [times : Nat, now : BOOLEAN, left : Nat, reports : Nat]
  BY <1>1, <1>2 DEF UsbTyped
<1>14. /\ repeating' \in UsbRepeating /\ repeating'.key = repeating.key
       /\ repeating'.at = "idle" <=> repeating.at = "idle"
       /\ repeating.at # "tail" => repeating' = repeating
       /\ repeating'.at \in {"idle", "timer"} <=> repeating.at \in {"idle", "timer"}
  <2>1. repeating \in UsbRepeating
    BY <1>2 DEF UsbTyped
  <2> QED
    BY <1>1, <2>1 DEF Overtaken, UsbRepeating
<1>8. UsbTyped'
  <2>1. kb' \in UsbKb
    BY <1>1, <1>3, <1>5, <1>6 DEF UsbKb
  <2>2. keyMap' \in [there : BOOLEAN, keys : SUBSET UsbKey]
    BY <1>1, <1>2 DEF UsbTyped
  <2>3. RepeatTimer' \in BOOLEAN /\ modifierLost' \in BOOLEAN
    BY <1>1, <1>2 DEF UsbTyped, RepeatTimerAfter, NamesModifier
  <2>4. keyMapOld' \in SUBSET UsbKey /\ overshoot' \in {0, 1}
    BY <1>1
  <2> QED
    BY <1>1, <1>2, <1>13, <1>14, <2>1, <2>2, <2>3, <2>4 DEF UsbTyped
<1>9. UsbBound'
  BY <1>1, <1>2, <1>13, <1>14 DEF UsbBound
<1>15. RepeatingRight'
  <2>1. repeating.at = "idle" => repeating' = repeating
    BY <1>14
  <2> QED
    BY <1>2, <1>14, <2>1 DEF RepeatingRight
<1>10. RepeatRight'
  BY <1>1, <1>5, <1>7, <1>14 DEF RepeatRight
<1>11. ModifiersCarried'
  <2>1. ~mislabelled'
    BY <1>1, <1>2 DEF ModifiersCarried
  <2>2. ASSUME ~modifierLost'
        PROVE  Carried(Enqueue(q, items), report, kb.On, kb.ShiftOn)
    <3>1. ~modifierLost /\ ~NamesModifier(GivenUp(q, items))
      BY <1>1, <2>2
    <3>2. Carried(q, kb.LastKeyCodeArray, kb.On, kb.ShiftOn)
      BY <1>2, <3>1 DEF ModifiersCarried
    <3>3. PICK more : /\ HeldAlong(more, items, report)
                      /\ more[1] = kb.LastKeyCodeArray \cap UsbModifier
      BY <1>4
    <3> HIDE DEF q
    <3>4. Carried(q \o items, report, kb.On, kb.ShiftOn)
      BY <1>3, <1>4, <3>2, <3>3, AppendedHeld
    <3> QED
      BY <1>3, <1>4, <3>1, <3>4, QueuedCarried
  <2> QED
    BY <1>7, <2>1, <2>2 DEF ModifiersCarried
<1>12. KeyMapFollowsReports'
  BY <1>1, <1>2, <1>7 DEF KeyMapFollowsReports, UsbTyped
<1> QED
  BY <1>8, <1>9, <1>10, <1>11, <1>12, <1>15 DEF UsbInv

\* What the slots of the queue held before are items.
LEMMA StaleFacts ==
  /\ UsbStale \subseteq UsbItem
  /\ \A f : f \in [1 .. MAX_KEY_ALLOWED -> UsbStale] => f \in Seq(UsbItem)
<1>1. UsbStale \subseteq UsbItem
  <2>1. UsbLetter \cup UsbShift \cup UsbCtrl \cup {UsbLock} = UsbKey
    BY UsbAssumption DEF UsbKey, UsbModifier
  <2>2. {{}} \subseteq SUBSET UsbModifier
    OBVIOUS
  <2> QED
    BY <2>1, <2>2, UsbAssumption DEF UsbItem
<1>2. ASSUME NEW f \in [1 .. MAX_KEY_ALLOWED -> UsbStale] PROVE f \in Seq(UsbItem)
  <2>1. f \in [1 .. MAX_KEY_ALLOWED -> UsbItem] /\ MAX_KEY_ALLOWED \in Nat
    BY <1>1, UsbAssumption
  <2> QED
    BY <2>1, FunctionIsSeq
<1> QED
  BY <1>1, <1>2

\* A repetition that only goes on.
LEMMA GoesOnInv ==
  ASSUME UsbInv, NEW to \in {"room", "copy", "tail"},
         repeating.at \notin {"idle", "timer"}, repeating' = [repeating EXCEPT !.at = to],
         UNCHANGED <<bound, keyMap, submitted, usbTimers, resetting, mislabelled, keyMapOld,
                     overshoot>>,
         kb' \in UsbKb, kb'.LastKeyCodeArray = kb.LastKeyCodeArray,
         kb'.RepeatKey = kb.RepeatKey, modifierLost' \in BOOLEAN,
         ~modifierLost' => Carried(kb'.UsbKeyQueue, kb'.LastKeyCodeArray, kb'.On, kb'.ShiftOn)
  PROVE  UsbInv'
<1>1. UsbTyped /\ UsbBound /\ RepeatingRight /\ RepeatRight /\ ModifiersCarried
      /\ KeyMapFollowsReports
  BY DEF UsbInv
<1>2. /\ repeating' \in UsbRepeating /\ repeating'.at = to /\ repeating'.key = repeating.key
      /\ to \notin {"idle", "timer"}
  <2>1. repeating \in UsbRepeating
    BY <1>1 DEF UsbTyped
  <2> QED
    BY <2>1 DEF UsbRepeating
<1>3. UsbTyped'
  BY <1>1, <1>2 DEF UsbTyped, usbTimers
<1>4. bound.now
  BY <1>1 DEF UsbBound
<1>5. UsbBound' /\ RepeatingRight'
  BY <1>1, <1>2, <1>4 DEF UsbBound, RepeatingRight
<1>6. RepeatRight'
  BY <1>1, <1>2 DEF RepeatRight, usbTimers
<1>7. ModifiersCarried' /\ KeyMapFollowsReports'
  BY <1>1 DEF ModifiersCarried, KeyMapFollowsReports
<1> QED
  BY <1>3, <1>5, <1>6, <1>7 DEF UsbInv

\* The question for room and the copy change nothing else; the room is taken from the
\* front.
LEMMA RepetitionRoomInv ==
  ASSUME UsbInv, RepetitionChecks \/ RepetitionMakesRoom \/ RepetitionCopied
  PROVE  UsbInv'
<1> DEFINE q == kb.UsbKeyQueue
<1>1. /\ kb \in UsbKb /\ q \in Seq(UsbItem) /\ modifierLost \in BOOLEAN
      /\ ~modifierLost => Carried(q, kb.LastKeyCodeArray, kb.On, kb.ShiftOn)
  BY DEF UsbInv, UsbTyped, UsbKb, ModifiersCarried
<1>2. CASE RepetitionChecks \/ RepetitionCopied
  <2>1. PICK to \in {"room", "copy", "tail"} :
          /\ repeating.at \notin {"idle", "timer"}
          /\ repeating' = [repeating EXCEPT !.at = to]
          /\ UNCHANGED <<bound, keyMap, submitted, usbTimers, resetting, mislabelled, keyMapOld,
                         overshoot, kb, modifierLost>>
    BY <1>2 DEF RepetitionChecks, RepetitionCopied, RepetitionGoesOn, usbTimers
  <2> HIDE DEF q
  <2> QED
    BY <1>1, <2>1, GoesOnInv DEF q
<1>3. CASE RepetitionMakesRoom
  <2>1. /\ repeating.at \notin {"idle", "timer"}
        /\ repeating' = [repeating EXCEPT !.at = "copy"]
        /\ UNCHANGED <<bound, keyMap, submitted, usbTimers, resetting, mislabelled, keyMapOld,
                       overshoot>>
    BY <1>3 DEF RepetitionMakesRoom, RepetitionGoesOn, usbTimers
  <2>2. CASE q # << >>
    <3>1. /\ kb' = [kb EXCEPT !.UsbKeyQueue = Tail(q)]
          /\ modifierLost' = (modifierLost \/ Head(q).KeyCode \in UsbModifier)
      BY <1>3, <2>2 DEF RepetitionMakesRoom
    <3>2. /\ Tail(q) \in Seq(UsbItem) /\ Cut(q, Tail(q), 1) /\ 1 \in 0 .. Len(q)
          /\ Head(q) = q[1]
      <4> HIDE DEF q
      <4>1. Len(q) \in Nat /\ Len(q) > 0
        BY <1>1, <2>2, EmptySeq, LenProperties
      <4> QED
        BY <1>1, <2>2, <4>1 DEF Cut
    <3>3. /\ kb' \in UsbKb /\ kb'.LastKeyCodeArray = kb.LastKeyCodeArray
          /\ kb'.RepeatKey = kb.RepeatKey /\ kb'.UsbKeyQueue = Tail(q) /\ kb'.On = kb.On
          /\ kb'.ShiftOn = kb.ShiftOn
      BY <1>1, <3>1, <3>2 DEF UsbKb
    <3>4. ~modifierLost' => Carried(Tail(q), kb.LastKeyCodeArray, kb.On, kb.ShiftOn)
      <4> SUFFICES ASSUME ~modifierLost'
                   PROVE  Carried(Tail(q), kb.LastKeyCodeArray, kb.On, kb.ShiftOn)
        OBVIOUS
      <4>1. ~modifierLost /\ q[1].KeyCode \notin UsbModifier
        BY <3>1, <3>2
      <4>2. \A i \in 1 .. 1 : q[i].KeyCode \notin UsbModifier
        BY <4>1
      <4> HIDE DEF q
      <4> QED
        BY <1>1, <3>2, <4>1, <4>2, UnnamedGivenUp
    <3>5. modifierLost' \in BOOLEAN
      BY <1>1, <3>1
    <3> HIDE DEF q
    <3> QED
      BY <2>1, <3>3, <3>4, <3>5, GoesOnInv
  <2>3. CASE q = << >>
    <3>1. PICK stale \in [1 .. MAX_KEY_ALLOWED -> UsbStale] :
            kb' = [kb EXCEPT !.UsbKeyQueue = stale]
      BY <1>3, <2>3 DEF RepetitionMakesRoom
    <3>2. modifierLost' = TRUE
      BY <1>3, <2>3 DEF RepetitionMakesRoom
    <3>3. stale \in Seq(UsbItem)
      BY StaleFacts
    <3>4. /\ kb' \in UsbKb /\ kb'.LastKeyCodeArray = kb.LastKeyCodeArray
          /\ kb'.RepeatKey = kb.RepeatKey
      BY <1>1, <3>1, <3>3 DEF UsbKb
    <3> QED
      BY <2>1, <3>2, <3>4, GoesOnInv
  <2> QED
    BY <2>2, <2>3
<1> QED
  BY <1>2, <1>3

\* A repetition is queued.
LEMMA RepetitionQueuedInv ==
  ASSUME UsbInv, RepetitionQueued
  PROVE  UsbInv'
<1> DEFINE key == repeating.key
           last == kb.LastKeyCodeArray
           change == Change(last \cup {key}, key)
           items == <<change>>
           q == kb.UsbKeyQueue
           more == overshoot + IF key \in last \/ resetting = "array" THEN 0 ELSE 1
<1>1. UsbTyped /\ UsbBound /\ RepeatingRight /\ RepeatRight /\ ModifiersCarried
      /\ KeyMapFollowsReports
  BY DEF UsbInv
<1>2. /\ repeating.at \in {"tail", "stale"} /\ repeating' = [repeating EXCEPT !.at = "timer"]
      /\ UNCHANGED <<bound, keyMap, submitted, usbTimers, resetting, mislabelled, keyMapOld>>
  BY DEF RepetitionQueued, RepetitionGoesOn, usbTimers
<1>3. /\ kb \in UsbKb /\ q \in Seq(UsbItem) /\ last \in SUBSET UsbKey
      /\ key \in UsbLetter /\ repeating \in UsbRepeating
      /\ kb.On \in SUBSET UsbModifier /\ kb.ShiftOn \in BOOLEAN
  BY <1>1, <1>2 DEF UsbTyped, UsbKb, RepeatingRight
<1>4. /\ repeating' \in UsbRepeating /\ repeating'.at = "timer" /\ repeating'.key = key
  BY <1>2, <1>3 DEF UsbRepeating
<1>5. /\ change \in UsbItem /\ change.KeyCode = key
      /\ change.with = last \cap UsbModifier
  <2>1. key \in UsbKey /\ key \notin UsbModifier
    BY <1>3, KeysAreFinite DEF UsbKey
  <2>2. (last \cup {key}) \cap UsbModifier = last \cap UsbModifier
    BY <2>1
  <2> QED
    BY <1>3, <2>1, <2>2 DEF Change, UsbItem
<1>6. \/ /\ kb' = [kb EXCEPT !.UsbKeyQueue = Append(q, change)]
         /\ overshoot' = more /\ UNCHANGED modifierLost
      \/ /\ \E stale \in UsbStale : kb' = [kb EXCEPT !.UsbKeyQueue = Append(q, stale)]
         /\ modifierLost' = TRUE /\ UNCHANGED overshoot
      \/ /\ kb' = [kb EXCEPT !.UsbKeyQueue = << >>]
         /\ modifierLost' = TRUE /\ UNCHANGED overshoot
  BY DEF RepetitionQueued
<1> HIDE DEF change
<1>7. items \in Seq(UsbItem) /\ Len(items) = 1 /\ items[1] = change
  BY <1>5
<1>8. Append(q, change) \in Seq(UsbItem) /\ Append(q, change) = q \o items
  <2> HIDE DEF q
  <2> QED
    BY <1>3, <1>5
<1>9. kb' \in UsbKb /\ kb'.LastKeyCodeArray = last /\ kb'.RepeatKey = kb.RepeatKey
  <2>1. \E queue \in Seq(UsbItem) : kb' = [kb EXCEPT !.UsbKeyQueue = queue]
    <3>1. ASSUME NEW stale \in UsbStale PROVE Append(q, stale) \in Seq(UsbItem)
      <4> HIDE DEF q
      <4> QED
        BY <1>3, StaleFacts
    <3>2. << >> \in Seq(UsbItem)
      OBVIOUS
    <3> HIDE DEF q
    <3> QED
      BY <1>6, <1>8, <3>1, <3>2
  <2> QED
    BY <1>3, <2>1 DEF UsbKb
<1>10. overshoot' \in {0, 1} /\ modifierLost' \in BOOLEAN
  <2>1. more \in {0, 1}
    BY <1>1, <1>2 DEF UsbTyped, RepeatRight
  <2> HIDE DEF more
  <2> QED
    BY <1>1, <1>6, <2>1 DEF UsbTyped
<1>11. UsbTyped'
  BY <1>1, <1>2, <1>4, <1>9, <1>10 DEF UsbTyped, usbTimers
<1>12. UsbBound' /\ RepeatingRight'
  <2>1. bound.now
    BY <1>1, <1>2 DEF UsbBound
  <2> QED
    BY <1>2, <1>3, <1>4, <2>1 DEF UsbBound, RepeatingRight
<1>13. RepeatRight'
  BY <1>1, <1>2, <1>4, <1>9 DEF RepeatRight, usbTimers
<1>14. ModifiersCarried'
  <2>1. ~mislabelled'
    BY <1>1, <1>2 DEF ModifiersCarried
  <2>2. ASSUME ~modifierLost'
        PROVE  Carried(kb'.UsbKeyQueue, last, kb'.On, kb'.ShiftOn)
    <3>1. ~modifierLost /\ kb' = [kb EXCEPT !.UsbKeyQueue = Append(q, change)]
      BY <1>6, <2>2
    <3>2. Carried(q, last, kb.On, kb.ShiftOn)
      BY <1>1, <3>1 DEF ModifiersCarried
    <3> DEFINE along == [i \in 1 .. 2 |-> last \cap UsbModifier]
    <3>3. HeldAlong(along, items, last)
      <4>1. key \notin UsbModifier
        BY <1>3, KeysAreFinite
      <4>2. StepHeld(items[1], last \cap UsbModifier, last \cap UsbModifier)
        BY <1>5, <1>7, <4>1 DEF StepHeld
      <4>3. 1 .. Len(items) = {1} /\ Len(items) + 1 = 2
        BY <1>7
      <4> HIDE DEF items
      <4> QED
        BY <4>2, <4>3 DEF HeldAlong
    <3>4. along[1] = last \cap UsbModifier
      OBVIOUS
    <3>5. kb'.UsbKeyQueue = q \o items /\ kb'.On = kb.On /\ kb'.ShiftOn = kb.ShiftOn
      <4> HIDE DEF items
      <4> QED
        BY <1>3, <1>8, <3>1 DEF UsbKb
    <3> HIDE DEF q, along, items, last
    <3>6. Carried(q \o items, last, kb.On, kb.ShiftOn)
      BY <1>3, <1>7, <3>2, <3>3, <3>4, AppendedHeld
    <3> QED
      BY <3>5, <3>6
  <2> QED
    BY <1>9, <2>1, <2>2 DEF ModifiersCarried
<1>15. KeyMapFollowsReports'
  BY <1>1, <1>2, <1>9 DEF KeyMapFollowsReports
<1> QED
  BY <1>11, <1>12, <1>13, <1>14, <1>15 DEF UsbInv

\* The repetition ends.
LEMMA RepetitionInv ==
  ASSUME UsbInv, QueueRepetition
  PROVE  UsbInv'
<1>1. CASE RepetitionTimerSet
  <2>1. UsbTyped /\ UsbBound /\ RepeatingRight /\ RepeatRight /\ ModifiersCarried
        /\ KeyMapFollowsReports
    BY DEF UsbInv
  <2>2. /\ repeating.at = "timer" /\ repeating' = Idle /\ RepeatTimer' = TRUE
        /\ UNCHANGED <<kb, bound, keyMap, submitted, DelayedRecoveryEvent, resetting,
                       modifierLost, mislabelled, keyMapOld, overshoot>>
    BY <1>1 DEF RepetitionTimerSet, usbHistory
  <2>3. Idle \in UsbRepeating /\ Idle.at = "idle"
    BY DEF Idle, UsbRepeating
  <2>4. UsbTyped'
    BY <2>1, <2>2, <2>3 DEF UsbTyped
  <2>5. UsbBound' /\ RepeatingRight'
    BY <2>1, <2>2, <2>3 DEF UsbBound, RepeatingRight
  <2>6. RepeatRight'
    BY <2>1, <2>2, <2>3 DEF RepeatRight
  <2>7. ModifiersCarried' /\ KeyMapFollowsReports'
    BY <2>1, <2>2 DEF ModifiersCarried, KeyMapFollowsReports
  <2> QED
    BY <2>4, <2>5, <2>6, <2>7 DEF UsbInv
<1> QED
  BY <1>1, RepetitionRoomInv, RepetitionQueuedInv DEF QueueRepetition

LEMMA LeadingUpsFacts ==
  ASSUME NEW q \in Seq(UsbItem), NEW u, u = LeadingUps(q)
  PROVE  /\ u \in 0 .. Len(q) /\ \A i \in 1 .. u : ~q[i].Down
         /\ u < Len(q) => q[u + 1].Down
<1> DEFINE stops == {i \in 1 .. (Len(q) + 1) : i = Len(q) + 1 \/ q[i].Down}
<1>1. Len(q) \in Nat /\ stops \in SUBSET Nat /\ Len(q) + 1 \in stops
  OBVIOUS
<1>2. \E n \in stops : \A m \in stops : n <= m
  <2> HIDE DEF stops
  <2> QED
    BY <1>1, NatSetHasMinimum
<1>3. PICK n \in stops : n = Min(stops) /\ \A m \in stops : n <= m
  <2> HIDE DEF stops
  <2> QED
    BY <1>2 DEF Min
<1>4. u = n - 1
  BY <1>3 DEF LeadingUps
<1>5. \A i \in 1 .. (n - 1) : ~q[i].Down
  <2>1. ASSUME NEW i \in 1 .. (n - 1), q[i].Down PROVE FALSE
    <3>1. i \in stops /\ ~(n <= i)
      BY <1>1, <2>1
    <3> HIDE DEF stops
    <3> QED
      BY <1>3, <3>1
  <2> QED
    BY <2>1
<1> QED
  BY <1>1, <1>4, <1>5

\* The parser takes the releases and one press.
LEMMA TimerInv ==
  ASSUME UsbInv, USBKeyboardTimerHandler
  PROVE  UsbInv'
<1> DEFINE q == kb.UsbKeyQueue
           last == kb.LastKeyCodeArray
           u == LeadingUps(q)
           up == {q[i].KeyCode : i \in 1 .. u}
           d == AfterUps(q)
           rest == SubSeq(q, u + 1, Len(q))
           item == Head(d.UsbKeyQueue)
           after == PressParsed(d, item.KeyCode)
<1>1. /\ bound.now /\ q # << >>
      /\ IF d.UsbKeyQueue = << >> THEN kb' = d /\ UNCHANGED mislabelled
         ELSE /\ kb' = UsbKeyCodeToEfiInputKey(after, item.KeyCode)
              /\ mislabelled' =
                   \/ mislabelled
                   \/ ~modifierLost /\ item.KeyCode \in UsbLetter /\ ~Labelled(after, item)
      /\ UNCHANGED <<bound, keyMap, submitted, usbTimers, repeating, resetting, modifierLost,
                     keyMapOld, overshoot>>
  BY DEF USBKeyboardTimerHandler
<1>2. UsbTyped /\ UsbBound /\ RepeatingRight /\ RepeatRight /\ ModifiersCarried /\ KeyMapFollowsReports
  BY DEF UsbInv
<1>3. kb \in UsbKb /\ q \in Seq(UsbItem) /\ kb.ShiftOn \in BOOLEAN
  BY <1>2 DEF UsbTyped, UsbKb
<1>4. /\ u \in 0 .. Len(q) /\ \A i \in 1 .. u : ~q[i].Down
      /\ u < Len(q) => q[u + 1].Down
  BY <1>3, LeadingUpsFacts
<1>5. d = [kb EXCEPT !.UsbKeyQueue = rest, !.On = @ \ up,
                     !.CtrlOn = @ /\ up \cap UsbCtrl = {}, !.ShiftOn = @ /\ up \cap UsbShift = {}]
  BY DEF AfterUps
<1> HIDE DEF u
<1>6. Cut(q, rest, u) /\ rest \in Seq(UsbItem) /\ Len(rest) = Len(q) - u
  BY <1>3, <1>4, SubSeqCut DEF Cut
<1> HIDE DEF rest, d, up
<1>7. /\ d \in UsbKb /\ d.LastKeyCodeArray = last /\ d.UsbKeyQueue = rest
      /\ d.On = kb.On \ up /\ d.ShiftOn = (kb.ShiftOn /\ up \cap UsbShift = {})
      /\ d.RepeatKey = kb.RepeatKey /\ d.ShiftOn \in BOOLEAN
  BY <1>3, <1>5, <1>6 DEF UsbKb
<1>8. ~modifierLost => Carried(rest, last, d.On, d.ShiftOn)
  <2>1. ASSUME ~modifierLost PROVE Carried(rest, last, d.On, d.ShiftOn)
    <3>1. Carried(q, last, kb.On, kb.ShiftOn)
      BY <1>2, <2>1 DEF ModifiersCarried
    <3> HIDE DEF q, last
    <3>2. up = Leading(q, u)
      BY DEF up, Leading
    <3>3. d.ShiftOn => kb.ShiftOn /\ up \cap UsbShift = {}
      BY <1>7
    <3>4. d.ShiftOn => kb.ShiftOn /\ Leading(q, u) \cap UsbShift = {}
      BY <3>2, <3>3
    <3>5. Carried(rest, last, kb.On \ Leading(q, u), d.ShiftOn)
      BY <1>3, <1>4, <1>6, <3>1, <3>4, ReleasesTaken
    <3> QED
      BY <1>7, <3>2, <3>5
  <2> QED
    BY <2>1
<1> DEFINE Right == /\ kb' \in UsbKb /\ kb'.LastKeyCodeArray = last
                    /\ kb'.RepeatKey = kb.RepeatKey /\ mislabelled' = FALSE
                    /\ ~modifierLost => Carried(kb'.UsbKeyQueue, last, kb'.On, kb'.ShiftOn)
<1>9. Right
  <2>1. CASE rest = << >>
    <3>1. kb' = d /\ mislabelled' = mislabelled
      BY <1>1, <1>7, <2>1
    <3> QED
      BY <1>2, <1>7, <1>8, <3>1 DEF ModifiersCarried, UsbTyped
  <2>2. CASE rest # << >>
    <3> DEFINE key == item.KeyCode
               hidden == Hidden(after, key)
    <3>1. /\ kb' = UsbKeyCodeToEfiInputKey(after, key)
          /\ mislabelled' = \/ mislabelled
                            \/ ~modifierLost /\ key \in UsbLetter /\ ~Labelled(after, item)
      BY <1>1, <1>7, <2>2
    <3>2. /\ Len(rest) > 0 /\ u < Len(q) /\ item = Head(rest) /\ Head(rest) = rest[1]
          /\ rest[1] \in UsbItem /\ Tail(rest) \in Seq(UsbItem)
      <4>1. Len(rest) \in Nat /\ Len(rest) # 0
        BY <1>6, <2>2, EmptySeq
      <4>2. Len(q) \in Nat /\ u \in Nat
        BY <1>3, <1>4
      <4> QED
        BY <1>6, <1>7, <2>2, <4>1, <4>2
    <3>3. rest[1] = q[u + 1] /\ q[u + 1].Down
      <4>1. 1 \in 1 .. Len(rest)
        BY <1>6, <3>2
      <4> QED
        BY <1>4, <1>6, <3>2, <4>1 DEF Cut
    <3> HIDE DEF item
    <3>4. after = [d EXCEPT !.UsbKeyQueue = Tail(@), !.On = @ \cup ({key} \cap UsbModifier),
                              !.CtrlOn = @ \/ key \in UsbCtrl, !.ShiftOn = @ \/ key \in UsbShift]
      BY DEF PressParsed
    <3> HIDE DEF after
    <3>5. /\ after \in UsbKb /\ after.LastKeyCodeArray = last
          /\ after.UsbKeyQueue = Tail(rest) /\ after.On = d.On \cup ({key} \cap UsbModifier)
          /\ after.ShiftOn = (d.ShiftOn \/ key \in UsbShift)
          /\ after.RepeatKey = kb.RepeatKey /\ after.ShiftOn \in BOOLEAN
      BY <1>7, <3>2, <3>4 DEF UsbKb
    <3>6. ASSUME ~modifierLost
          PROVE  /\ Carried(Tail(rest), last, after.On, after.ShiftOn)
                 /\ key \in UsbLetter => Shows(item, d.On, d.ShiftOn)
      <4>1. Carried(rest, last, d.On, d.ShiftOn)
        BY <1>8, <3>6
      <4>2. rest \in Seq(UsbItem) /\ Head(rest).Down /\ key = Head(rest).KeyCode
        BY <1>6, <3>2, <3>3
      <4> HIDE DEF last, key
      <4>3. after.ShiftOn => d.ShiftOn \/ key \in UsbShift
        BY <3>5
      <4>4. /\ Carried(Tail(rest), last, d.On \cup ({key} \cap UsbModifier), after.ShiftOn)
            /\ key \in UsbLetter => Shows(Head(rest), d.On, d.ShiftOn)
        BY <2>2, <4>1, <4>2, <4>3, PressTaken
      <4> QED
        BY <3>2, <3>5, <4>4
    <3>7. ASSUME ~modifierLost, key \in UsbLetter PROVE Labelled(after, item)
      <4>1. Shows(item, d.On, d.ShiftOn) /\ item.KeyCode = key
        BY <3>6, <3>7
      <4>2. key \notin UsbModifier /\ key \notin UsbShift
        BY <3>7, UsbAssumption DEF UsbModifier
      <4>3. after.On = d.On /\ after.ShiftOn = d.ShiftOn
        BY <1>7, <3>5, <4>2
      <4>4. hidden \in {d.On, d.On \ UsbShift}
        BY <4>3 DEF Hidden
      <4> HIDE DEF hidden
      <4>5. UsbCtrl \cap item.with \subseteq hidden /\ hidden \subseteq item.with
        BY <4>1, <4>4 DEF Shows
      <4> QED
        BY <4>1, <4>3, <4>5 DEF Labelled, Shows, hidden, key
    <3>8. mislabelled' = FALSE
      BY <1>2, <3>1, <3>7 DEF ModifiersCarried
    <3>9. kb' = [after EXCEPT !.On = hidden]
      BY <3>1 DEF UsbKeyCodeToEfiInputKey
    <3>11. hidden \in {after.On, after.On \ UsbShift} /\ after.On \in SUBSET UsbModifier
      BY <3>5 DEF Hidden, UsbKb
    <3> HIDE DEF hidden
    <3>12. /\ kb' \in UsbKb /\ kb'.LastKeyCodeArray = last /\ kb'.RepeatKey = kb.RepeatKey
           /\ kb'.UsbKeyQueue = Tail(rest) /\ kb'.On = hidden /\ kb'.ShiftOn = after.ShiftOn
      <4>1. hidden \in SUBSET UsbModifier
        BY <3>11
      <4> QED
        BY <3>5, <3>9, <4>1 DEF UsbKb
    <3>13. ~modifierLost => Carried(kb'.UsbKeyQueue, last, kb'.On, kb'.ShiftOn)
      <4> HIDE DEF last
      <4> QED
        BY <3>6, <3>11, <3>12, HiddenKept
    <3> QED
      BY <3>8, <3>12, <3>13
  <2> QED
    BY <2>1, <2>2
<1>10. UsbTyped'
  BY <1>1, <1>2, <1>9 DEF UsbTyped, usbTimers
<1>11. UsbBound' /\ RepeatingRight' /\ RepeatRight'
  BY <1>1, <1>2, <1>9 DEF UsbBound, RepeatingRight, RepeatRight, usbTimers
<1>12. ModifiersCarried'
  BY <1>1, <1>9 DEF ModifiersCarried
<1>13. KeyMapFollowsReports'
  BY <1>1, <1>2, <1>9 DEF KeyMapFollowsReports
<1> QED
  BY <1>10, <1>11, <1>12, <1>13 DEF UsbInv

\* With nothing queued and no key held, nothing is left to carry.
LEMMA NothingToCarry ==
  /\ Carried(<< >>, {}, {}, FALSE)
  /\ \A last, on, shiftOn, q :
       q \in Seq(UsbItem) /\ ~NamesModifier(q) /\ Carried(q, last, on, shiftOn) =>
         Carried(<< >>, last, on, shiftOn)
<1>1. Carried(<< >>, {}, {}, FALSE)
  <2> DEFINE held == [i \in 1 .. 1 |-> {}]
  <2>1. HeldAlong(held, << >>, {}) /\ Known(held[1], {}, FALSE)
    BY DEF HeldAlong, Known
  <2> QED
    BY <2>1 DEF Carried
<1>2. ASSUME NEW last, NEW on, NEW shiftOn, NEW q \in Seq(UsbItem), ~NamesModifier(q),
             Carried(q, last, on, shiftOn)
      PROVE  Carried(<< >>, last, on, shiftOn)
  <2>1. Cut(q, << >>, Len(q)) /\ Len(q) \in 0 .. Len(q)
    BY DEF Cut
  <2>2. \A i \in 1 .. Len(q) : q[i].KeyCode \notin UsbModifier
    BY <1>2 DEF NamesModifier
  <2> QED
    BY <1>2, <2>1, <2>2, UnnamedGivenUp
<1> QED
  BY <1>1, <1>2

\* Nor when no change names a modifier or came with one.
LEMMA PlainCarried ==
  ASSUME NEW q \in Seq(UsbItem),
         \A i \in DOMAIN q : q[i].KeyCode \notin UsbModifier /\ q[i].with = {}
  PROVE  Carried(q, {}, {}, FALSE)
<1> DEFINE held == [i \in 1 .. (Len(q) + 1) |-> {}]
<1>1. Len(q) \in Nat /\ DOMAIN q = 1 .. Len(q)
  OBVIOUS
<1>2. ASSUME NEW i \in 1 .. Len(q) PROVE StepHeld(q[i], held[i], held[i + 1])
  <2>1. i \in 1 .. (Len(q) + 1) /\ i + 1 \in 1 .. (Len(q) + 1)
    BY <1>1
  <2>2. held[i] = {} /\ held[i + 1] = {}
    BY <2>1
  <2>3. q[i].KeyCode \notin UsbModifier /\ q[i].with = {}
    BY <1>1
  <2> HIDE DEF held
  <2> QED
    BY <2>2, <2>3 DEF StepHeld
<1>3. 1 \in 1 .. (Len(q) + 1) /\ Len(q) + 1 \in 1 .. (Len(q) + 1)
  BY <1>1
<1>4. /\ held \in [1 .. (Len(q) + 1) -> SUBSET UsbModifier] /\ held[1] = {}
      /\ held[Len(q) + 1] = {}
  BY <1>3
<1> HIDE DEF held
<1>5. HeldAlong(held, q, {}) /\ Known(held[1], {}, FALSE)
  BY <1>2, <1>4 DEF HeldAlong, Known
<1> QED
  BY <1>5 DEF Carried

\* The queues are emptied.
LEMMA ResetQueuesInv ==
  ASSUME UsbInv, NEW stage, USBKeyboardReset(stage)
  PROVE  UsbInv'
<1>1. UsbTyped /\ UsbBound /\ RepeatingRight /\ RepeatRight /\ ModifiersCarried
      /\ KeyMapFollowsReports
  BY DEF UsbInv
<1>2. /\ bound.now /\ repeating = Idle /\ resetting = "no"
      /\ kb' = [kb EXCEPT !.UsbKeyQueue = << >>]
      /\ modifierLost' = (modifierLost \/ NamesModifier(kb.UsbKeyQueue))
      /\ resetting' \in {"no", "queues"}
      /\ UNCHANGED <<bound, keyMap, submitted, usbTimers, repeating, mislabelled, keyMapOld,
                     overshoot>>
  BY DEF USBKeyboardReset, Applies
<1>3. kb \in UsbKb /\ kb.UsbKeyQueue \in Seq(UsbItem) /\ << >> \in Seq(UsbItem)
  BY <1>1 DEF UsbTyped, UsbKb
<1>4. /\ kb'.LastKeyCodeArray = kb.LastKeyCodeArray /\ kb'.UsbKeyQueue = << >>
      /\ kb'.RepeatKey = kb.RepeatKey /\ kb'.On = kb.On /\ kb'.ShiftOn = kb.ShiftOn
      /\ kb' \in UsbKb
  BY <1>2, <1>3 DEF UsbKb
<1>5. Idle.at = "idle"
  BY DEF Idle
<1>6. UsbTyped'
  <2>1. modifierLost' \in BOOLEAN
    BY <1>1, <1>2 DEF UsbTyped, NamesModifier
  <2> QED
    BY <1>1, <1>2, <1>4, <2>1 DEF UsbTyped, usbTimers
<1>7. UsbBound' /\ RepeatingRight'
  BY <1>1, <1>2 DEF UsbBound, RepeatingRight
<1>8. RepeatRight'
  BY <1>1, <1>2, <1>4, <1>5 DEF RepeatRight, usbTimers
<1>9. ModifiersCarried'
  <2>1. ASSUME ~modifierLost'
        PROVE  Carried(<< >>, kb.LastKeyCodeArray, kb.On, kb.ShiftOn)
    <3>1. ~NamesModifier(kb.UsbKeyQueue)
          /\ Carried(kb.UsbKeyQueue, kb.LastKeyCodeArray, kb.On, kb.ShiftOn)
      BY <1>1, <1>2, <2>1 DEF ModifiersCarried
    <3> QED
      BY <1>3, <3>1, NothingToCarry
  <2> QED
    BY <1>1, <1>2, <1>4, <2>1 DEF ModifiersCarried
<1>10. KeyMapFollowsReports'
  BY <1>1, <1>2, <1>4 DEF KeyMapFollowsReports
<1> QED
  BY <1>6, <1>7, <1>8, <1>9, <1>10 DEF UsbInv

\* The rest of an exhaustive reset.
LEMMA InitUSBKeyboardInv ==
  ASSUME UsbInv, InitUSBKeyboard
  PROVE  UsbInv'
<1>1. UsbTyped /\ UsbBound /\ RepeatingRight /\ RepeatRight /\ ModifiersCarried
      /\ KeyMapFollowsReports
  BY DEF UsbInv
<1>2. /\ kb \in UsbKb /\ kb.UsbKeyQueue \in Seq(UsbItem)
      /\ keyMap \in [there : BOOLEAN, keys : SUBSET UsbKey]
  BY <1>1 DEF UsbTyped, UsbKb
<1>3. /\ repeating = Idle /\ resetting # "no"
      /\ resetting' \in {"no", "flags", "array", "timer"}
      /\ UNCHANGED <<bound, keyMap, submitted, repeating, mislabelled, overshoot>>
  BY DEF InitUSBKeyboard, ResetFlags, ResetArray, ResetRepeatTimer, ResetRecoveryEvent, ResetGoesOn
<1>4. Idle.at = "idle" /\ bound.now
  BY <1>1, <1>3 DEF Idle, UsbBound
<1>5. UsbBound' /\ RepeatingRight'
  BY <1>1, <1>3, <1>4 DEF UsbBound, RepeatingRight
<1>6. CASE ResetFlags
  <2>1. /\ kb' = [kb EXCEPT !.On = {}, !.CtrlOn = FALSE, !.ShiftOn = FALSE]
        /\ modifierLost' = TRUE /\ resetting = "queues"
        /\ UNCHANGED <<usbTimers, keyMapOld>>
    BY <1>6 DEF ResetFlags, ResetGoesOn
  <2>2. /\ kb'.LastKeyCodeArray = kb.LastKeyCodeArray /\ kb'.RepeatKey = kb.RepeatKey
        /\ kb' \in UsbKb
    BY <1>2, <2>1 DEF UsbKb
  <2>3. UsbTyped'
    BY <1>1, <1>3, <2>1, <2>2 DEF UsbTyped, usbTimers
  <2>4. RepeatRight'
    BY <1>1, <1>3, <1>4, <2>1, <2>2 DEF RepeatRight, usbTimers
  <2>5. ModifiersCarried' /\ KeyMapFollowsReports'
    BY <1>1, <1>3, <2>1, <2>2 DEF ModifiersCarried, KeyMapFollowsReports
  <2> QED
    BY <1>5, <2>3, <2>4, <2>5 DEF UsbInv
<1>7. CASE ResetArray
  <2>1. /\ kb' = [kb EXCEPT !.LastKeyCodeArray = {}]
        /\ modifierLost' = ~Plain /\ keyMapOld' = keyMap.keys /\ resetting' = "array"
        /\ UNCHANGED usbTimers
    BY <1>7 DEF ResetArray, ResetGoesOn
  <2>2. /\ kb'.LastKeyCodeArray = {} /\ kb'.RepeatKey = kb.RepeatKey
        /\ kb'.UsbKeyQueue = kb.UsbKeyQueue /\ kb'.On = kb.On /\ kb'.ShiftOn = kb.ShiftOn
        /\ kb' \in UsbKb
    BY <1>2, <2>1 DEF UsbKb
  <2>3. UsbTyped'
    <3>1. keyMapOld' \in SUBSET UsbKey /\ modifierLost' \in BOOLEAN
      BY <1>2, <2>1 DEF Plain
    <3> QED
      BY <1>1, <1>3, <2>1, <2>2, <3>1 DEF UsbTyped, usbTimers
  <2>4. RepeatRight'
    BY <1>1, <1>3, <1>4, <2>1, <2>2 DEF RepeatRight, usbTimers
  <2>5. ModifiersCarried'
    <3>1. ASSUME ~modifierLost' PROVE Carried(kb.UsbKeyQueue, {}, kb.On, kb.ShiftOn)
      <4>1. /\ kb.On = {} /\ ~kb.ShiftOn
            /\ \A i \in DOMAIN kb.UsbKeyQueue :
                 kb.UsbKeyQueue[i].KeyCode \notin UsbModifier /\ kb.UsbKeyQueue[i].with = {}
        BY <2>1, <3>1 DEF Plain
      <4>2. Carried(kb.UsbKeyQueue, {}, {}, FALSE)
        BY <1>2, <4>1, PlainCarried
      <4>3. kb.ShiftOn = FALSE
        BY <1>2, <4>1 DEF UsbKb
      <4> QED
        BY <4>1, <4>2, <4>3
    <3> QED
      BY <1>1, <1>3, <2>2, <3>1 DEF ModifiersCarried
  <2>6. KeyMapFollowsReports'
    BY <1>3, <2>1 DEF KeyMapFollowsReports
  <2> QED
    BY <1>5, <2>3, <2>4, <2>5, <2>6 DEF UsbInv
<1>8. CASE ResetRepeatTimer \/ ResetRecoveryEvent
  <2>1. /\ UNCHANGED <<kb, modifierLost, keyMapOld>>
        /\ RepeatTimer' = FALSE \/ (RepeatTimer' = RepeatTimer /\ resetting = "timer")
        /\ DelayedRecoveryEvent' \in {FALSE, DelayedRecoveryEvent}
    BY <1>8 DEF ResetRepeatTimer, ResetRecoveryEvent, ResetGoesOn
  <2>2. UsbTyped'
    BY <1>1, <1>3, <2>1 DEF UsbTyped
  <2>3. RepeatRight'
    BY <1>1, <1>3, <1>4, <2>1 DEF RepeatRight
  <2>4. ModifiersCarried' /\ KeyMapFollowsReports'
    BY <1>1, <1>3, <2>1 DEF ModifiersCarried, KeyMapFollowsReports
  <2> QED
    BY <1>5, <2>2, <2>3, <2>4 DEF UsbInv
<1> QED
  BY <1>6, <1>7, <1>8 DEF InitUSBKeyboard

LEMMA CleanFacts ==
  /\ Clean \in UsbKb
  /\ Carried(Clean.UsbKeyQueue, Clean.LastKeyCodeArray, Clean.On, Clean.ShiftOn)
  /\ Clean.RepeatKey = NoUsbKey /\ Clean.LastKeyCodeArray = {}
<1>1. << >> \in Seq(UsbItem) /\ {} \in SUBSET UsbKey /\ {} \in SUBSET UsbModifier
      /\ FALSE \in BOOLEAN
  OBVIOUS
<1>2. /\ Clean.UsbKeyQueue = << >> /\ Clean.LastKeyCodeArray = {} /\ Clean.On = {}
      /\ Clean.ShiftOn = FALSE /\ Clean.RepeatKey = NoUsbKey
  BY DEF Clean
<1>3. Carried(Clean.UsbKeyQueue, Clean.LastKeyCodeArray, Clean.On, Clean.ShiftOn)
  BY <1>2, NothingToCarry
<1>4. Clean \in UsbKb
  BY <1>1 DEF Clean, UsbKb
<1> QED
  BY <1>2, <1>3, <1>4

LEMMA UsbInitInv == UsbInit => UsbInv
<1> SUFFICES ASSUME UsbInit PROVE UsbInv
  OBVIOUS
<1>1. Idle \in UsbRepeating /\ Idle.at = "idle"
  BY DEF Idle, UsbRepeating
<1>2. UsbTyped
  BY <1>1, CleanFacts DEF UsbInit, UsbTyped, NoKeyMap
<1>3. UsbBound /\ RepeatingRight /\ RepeatRight /\ ModifiersCarried /\ KeyMapFollowsReports
  BY <1>1, CleanFacts DEF UsbInit, UsbBound, RepeatingRight, RepeatRight, ModifiersCarried,
                          KeyMapFollowsReports, NoKeyMap
<1> QED
  BY <1>2, <1>3 DEF UsbInv

\* The driver comes and goes, errors and recoveries, the key map arrives.
LEMMA LifeInv ==
  ASSUME UsbInv,
         \/ \E database, ok \in BOOLEAN : USBKeyboardDriverBindingStart(database, ok)
         \/ UsbKbAppleKeyMapDbInstallNotify
         \/ USBKeyboardDriverBindingStop
         \/ USBKeyboardExitBootServices
         \/ KeyboardHandlerError
         \/ UsbRecovers
         \/ USBKeyboardRepeatHandler
  PROVE  UsbInv'
<1>1. UsbTyped /\ UsbBound /\ RepeatingRight /\ RepeatRight /\ ModifiersCarried
      /\ KeyMapFollowsReports
  BY DEF UsbInv
<1>2. UsbMaxStarts \in Nat
  BY UsbAssumption
<1>3. ASSUME NEW database \in BOOLEAN, NEW ok \in BOOLEAN,
             USBKeyboardDriverBindingStart(database, ok)
      PROVE  UsbInv'
  <2>1. UsbTyped'
    <3>1. bound' \in [times : Nat, now : BOOLEAN, left : Nat, reports : Nat]
      <4>1. bound.left + (IF database /\ ~ok THEN 1 ELSE 0) \in Nat /\ bound.times + 1 \in Nat
        BY <1>1 DEF UsbTyped
      <4> QED
        BY <1>1, <1>3, <4>1 DEF UsbTyped, USBKeyboardDriverBindingStart
    <3>2. keyMap' \in [there : BOOLEAN, keys : SUBSET UsbKey]
      <4>1. (database /\ ok) \in BOOLEAN
        BY <1>3
      <4> QED
        BY <1>3, <4>1 DEF USBKeyboardDriverBindingStart
    <3> QED
      BY <1>1, <1>3, <3>1, <3>2 DEF UsbTyped, USBKeyboardDriverBindingStart, usbTimers, usbHistory
  <2>2. kb = Clean /\ keyMapOld = {}
    BY <1>1, <1>3 DEF UsbBound, USBKeyboardDriverBindingStart
  <2>3. UsbBound'
    <3>1. bound'.now = ok
      BY <1>1, <1>3 DEF UsbTyped, USBKeyboardDriverBindingStart
    <3>2. UNCHANGED <<kb, repeating, resetting, keyMapOld>> /\ submitted' = ok /\ ~bound.now
      BY <1>3 DEF USBKeyboardDriverBindingStart, usbHistory
    <3>3. repeating.at = "idle" /\ resetting = "no"
      BY <1>1, <3>2 DEF UsbBound
    <3> QED
      BY <2>2, <3>1, <3>2, <3>3 DEF UsbBound
  <2>4. RepeatingRight' /\ RepeatRight' /\ ModifiersCarried'
    BY <1>1, <1>3 DEF RepeatingRight, RepeatRight, ModifiersCarried, USBKeyboardDriverBindingStart,
                      usbTimers, usbHistory
  <2>5. KeyMapFollowsReports'
    BY <1>3, <2>2, CleanFacts DEF KeyMapFollowsReports, USBKeyboardDriverBindingStart,
                                  usbHistory
  <2> QED
    BY <2>1, <2>3, <2>4, <2>5 DEF UsbInv
<1>4. CASE UsbKbAppleKeyMapDbInstallNotify
  <2>1. /\ keyMap' = [there |-> TRUE, keys |-> {}] /\ keyMapOld' = {} /\ bound.now
        /\ UNCHANGED <<kb, bound, submitted, usbTimers, repeating, resetting, modifierLost,
                       mislabelled, overshoot>>
    BY <1>4 DEF UsbKbAppleKeyMapDbInstallNotify
  <2>2. keyMap' \in [there : BOOLEAN, keys : SUBSET UsbKey] /\ keyMapOld' \in SUBSET UsbKey
    BY <2>1
  <2>3. UsbTyped'
    BY <1>1, <2>1, <2>2 DEF UsbTyped, usbTimers
  <2>4. UsbBound' /\ RepeatingRight' /\ RepeatRight'
    BY <1>1, <2>1 DEF UsbBound, RepeatingRight, RepeatRight, usbTimers
  <2>5. ModifiersCarried' /\ KeyMapFollowsReports'
    BY <1>1, <2>1 DEF ModifiersCarried, KeyMapFollowsReports
  <2> QED
    BY <2>3, <2>4, <2>5 DEF UsbInv
<1>5. CASE USBKeyboardDriverBindingStop
  <2>1. /\ kb' = Clean /\ bound' = [bound EXCEPT !.now = FALSE] /\ submitted' = FALSE
        /\ keyMap' = NoKeyMap /\ RepeatTimer' = FALSE /\ DelayedRecoveryEvent' = FALSE
        /\ modifierLost' = FALSE /\ mislabelled' = FALSE /\ keyMapOld' = {} /\ overshoot' = 0
        /\ repeating' = Idle /\ repeating = Idle /\ resetting' = "no"
    BY <1>5 DEF USBKeyboardDriverBindingStop, Applies
  <2>2. Idle.at = "idle" /\ Idle \in UsbRepeating
    BY DEF Idle, UsbRepeating
  <2>3. /\ bound' \in [times : Nat, now : BOOLEAN, left : Nat, reports : Nat] /\ ~bound'.now
        /\ NoKeyMap \in [there : BOOLEAN, keys : SUBSET UsbKey] /\ ~NoKeyMap.there
    BY <1>1, <2>1 DEF UsbTyped, NoKeyMap
  <2>4. UsbTyped'
    BY <2>1, <2>2, <2>3, CleanFacts DEF UsbTyped
  <2>5. UsbBound' /\ RepeatingRight' /\ RepeatRight'
    BY <2>1, <2>2, <2>3, CleanFacts DEF UsbBound, RepeatingRight, RepeatRight
  <2>6. ModifiersCarried' /\ KeyMapFollowsReports'
    BY <2>1, <2>3, CleanFacts DEF ModifiersCarried, KeyMapFollowsReports
  <2> QED
    BY <2>4, <2>5, <2>6 DEF UsbInv
<1>6. CASE USBKeyboardExitBootServices
  <2>1. /\ bound' = [bound EXCEPT !.now = FALSE, !.times = UsbMaxStarts] /\ submitted' = FALSE
        /\ repeating = Idle /\ resetting = "no"
        /\ UNCHANGED <<kb, keyMap, usbTimers, repeating, resetting, modifierLost, mislabelled,
                       keyMapOld, overshoot>>
    BY <1>6 DEF USBKeyboardExitBootServices, Applies, usbHistory
  <2>2. /\ bound' \in [times : Nat, now : BOOLEAN, left : Nat, reports : Nat] /\ ~bound'.now
        /\ bound'.times = UsbMaxStarts /\ Idle.at = "idle"
    BY <1>1, <1>2, <2>1 DEF UsbTyped, Idle
  <2>3. UsbTyped'
    BY <1>1, <2>1, <2>2 DEF UsbTyped, usbTimers
  <2>4. UsbBound'
    BY <1>2, <2>1, <2>2 DEF UsbBound
  <2>5. RepeatingRight' /\ RepeatRight' /\ ModifiersCarried' /\ KeyMapFollowsReports'
    BY <1>1, <2>1 DEF RepeatingRight, RepeatRight, ModifiersCarried, KeyMapFollowsReports, usbTimers
  <2> QED
    BY <2>3, <2>4, <2>5 DEF UsbInv
<1>7. CASE KeyboardHandlerError
  <2>1. /\ kb' = [kb EXCEPT !.RepeatKey = NoUsbKey] /\ RepeatTimer' = FALSE
        /\ DelayedRecoveryEvent' = TRUE /\ submitted /\ submitted' = FALSE
        /\ UNCHANGED <<bound, keyMap, repeating, resetting, modifierLost, mislabelled, keyMapOld,
                       overshoot>>
    BY <1>7 DEF KeyboardHandlerError, Delay, usbHistory
  <2>2. /\ kb'.LastKeyCodeArray = kb.LastKeyCodeArray /\ kb'.UsbKeyQueue = kb.UsbKeyQueue
        /\ kb'.RepeatKey = NoUsbKey /\ kb'.On = kb.On /\ kb'.ShiftOn = kb.ShiftOn
        /\ kb' \in UsbKb
    BY <1>1, <2>1 DEF UsbTyped, UsbKb
  <2>3. UsbTyped'
    BY <1>1, <2>1, <2>2 DEF UsbTyped
  <2>4. UsbBound' /\ RepeatingRight' /\ RepeatRight'
    BY <1>1, <2>1, <2>2 DEF UsbBound, RepeatingRight, RepeatRight
  <2>5. ModifiersCarried' /\ KeyMapFollowsReports'
    BY <1>1, <2>1, <2>2 DEF ModifiersCarried, KeyMapFollowsReports
  <2> QED
    BY <2>3, <2>4, <2>5 DEF UsbInv
<1>8. CASE UsbRecovers
  <2>1. PICK ok \in BOOLEAN : USBKeyboardRecoveryHandler(ok)
    BY <1>8 DEF UsbRecovers
  <2>2. /\ DelayedRecoveryEvent' = FALSE /\ submitted' = ok /\ bound.now
        /\ UNCHANGED <<kb, bound, keyMap, RepeatTimer, repeating, resetting, modifierLost,
                       mislabelled, keyMapOld, overshoot>>
    BY <2>1 DEF USBKeyboardRecoveryHandler
  <2>3. UsbTyped'
    BY <1>1, <2>1, <2>2 DEF UsbTyped
  <2>4. UsbBound' /\ RepeatingRight' /\ RepeatRight'
    BY <1>1, <2>2 DEF UsbBound, RepeatingRight, RepeatRight
  <2>5. ModifiersCarried' /\ KeyMapFollowsReports'
    BY <1>1, <2>2 DEF ModifiersCarried, KeyMapFollowsReports
  <2> QED
    BY <2>3, <2>4, <2>5 DEF UsbInv
<1>9. CASE USBKeyboardRepeatHandler
  <2> DEFINE begun == [key |-> kb.RepeatKey, at |-> "check"]
  <2>1. /\ bound.now /\ RepeatTimer /\ repeating = Idle /\ RepeatTimer' = FALSE
        /\ repeating' = IF kb.RepeatKey = NoUsbKey THEN Idle ELSE begun
        /\ UNCHANGED <<kb, bound, keyMap, submitted, DelayedRecoveryEvent, resetting,
                       modifierLost, mislabelled, keyMapOld, overshoot>>
    BY <1>9 DEF USBKeyboardRepeatHandler, usbHistory
  <2>2. /\ Idle.at = "idle" /\ Idle \in UsbRepeating
        /\ kb.RepeatKey \in UsbLetter \cup {NoUsbKey}
    BY <1>1 DEF Idle, UsbRepeating, UsbTyped, UsbKb
  <2>3. begun \in UsbRepeating /\ begun.at = "check" /\ begun.key = kb.RepeatKey
    BY <2>2 DEF UsbRepeating
  <2> HIDE DEF begun
  <2>4. kb.RepeatKey # NoUsbKey =>
          /\ kb.RepeatKey \in UsbLetter
          /\ kb.RepeatKey \in kb.LastKeyCodeArray \/ resetting = "array"
    BY <1>1, <2>1 DEF RepeatRight
  <2>5. UsbTyped'
    BY <1>1, <2>1, <2>2, <2>3 DEF UsbTyped
  <2>6. UsbBound' /\ RepeatingRight'
    BY <1>1, <2>1, <2>2, <2>3, <2>4 DEF UsbBound, RepeatingRight
  <2>7. RepeatRight'
    BY <2>1, <2>2, <2>3, <2>4 DEF RepeatRight
  <2>8. ModifiersCarried' /\ KeyMapFollowsReports'
    BY <1>1, <2>1 DEF ModifiersCarried, KeyMapFollowsReports
  <2> QED
    BY <2>5, <2>6, <2>7, <2>8 DEF UsbInv
<1> QED
  BY <1>3, <1>4, <1>5, <1>6, <1>7, <1>8, <1>9

LEMMA UsbNextInv == UsbInv /\ [UsbNext]_usbVars => UsbInv'
<1> SUFFICES ASSUME UsbInv, [UsbNext]_usbVars PROVE UsbInv'
  OBVIOUS
<1>1. ASSUME NEW report \in UsbReports PROVE report \in SUBSET UsbKey
  BY <1>1 DEF UsbReports, kSubset, UsbKey
<1>2. CASE \E report \in UsbReports : \E releases \in SetToSeqs(Released(report)) :
             \E presses \in SetToSeqs(Pressed(report)) :
               KeyboardHandler(report, releases, presses)
  BY <1>1, <1>2, ReportInv
<1>3. CASE QueueRepetition
  BY <1>3, RepetitionInv
<1>4. CASE USBKeyboardTimerHandler
  BY <1>4, TimerInv
<1>5. CASE \E stage \in {"no", "queues"} : USBKeyboardReset(stage)
  BY <1>5, ResetQueuesInv
<1>6. CASE InitUSBKeyboard
  BY <1>6, InitUSBKeyboardInv
<1>7. CASE \/ \E database, ok \in BOOLEAN : USBKeyboardDriverBindingStart(database, ok)
           \/ UsbKbAppleKeyMapDbInstallNotify
           \/ USBKeyboardDriverBindingStop
           \/ USBKeyboardExitBootServices
           \/ KeyboardHandlerError
           \/ UsbRecovers
           \/ USBKeyboardRepeatHandler
  BY <1>7, LifeInv
<1>8. CASE UNCHANGED usbVars
  <2>1. UNCHANGED <<kb, bound, keyMap, submitted, RepeatTimer, DelayedRecoveryEvent, repeating,
                    resetting, modifierLost, mislabelled, keyMapOld, overshoot>>
    BY <1>8 DEF usbVars, usbTimers, usbHistory
  <2>2. UsbTyped'
    BY <2>1 DEF UsbInv, UsbTyped
  <2>3. UsbBound' /\ RepeatingRight' /\ RepeatRight'
    BY <2>1 DEF UsbInv, UsbBound, RepeatingRight, RepeatRight
  <2>4. ModifiersCarried' /\ KeyMapFollowsReports'
    BY <2>1 DEF UsbInv, ModifiersCarried, KeyMapFollowsReports
  <2> QED
    BY <2>2, <2>3, <2>4 DEF UsbInv
<1> QED
  BY <1>2, <1>3, <1>4, <1>5, <1>6, <1>7, <1>8 DEF UsbNext

\* Whatever the reports, errors and resets, and whenever the repetition and the reset are
\* interrupted: what repeats is held down by the last report, save for one key that the
\* repetition had read when the report came, and until the reset that has forgotten the
\* report comes to the timer (KeyBoard.c:903-919, 1170-1271, 1938-1968).
THEOREM OnlyHeldKeysRepeat == UsbSpec => []RepeatsHeldKeys
<1>1. UsbInv => RepeatsHeldKeys
  BY DEF UsbInv, UsbTyped, RepeatRight, RepeatsHeldKeys
<1> QED
  BY <1>1, UsbInitInv, UsbNextInv, PTL DEF UsbSpec

\* Characters come with the modifiers that were held when their keys were pressed, as long as
\* no change of a modifier was dropped, no report overtook a repetition between the
\* statements of Enqueue and none came inside a reset; and the key map shows the keys of the
\* last report (KeyBoard.c:876-903, 1087-1232, 1301-1713, 1828-1852).
THEOREM ReportsAreFollowed == UsbSpec => []ReportsFollowed
<1>1. UsbInv => ReportsFollowed
  <2> SUFFICES ASSUME UsbInv PROVE KeysCarryTheirModifiers /\ KeyMapFollowsReports
    BY DEF ReportsFollowed
  <2>1. kb.UsbKeyQueue \in Seq(UsbItem) /\ ~mislabelled /\ KeyMapFollowsReports
    BY DEF UsbInv, UsbTyped, UsbKb, ModifiersCarried
  <2>2. ASSUME ~modifierLost, NEW m \in UsbCtrl
        PROVE  FlagOf(m) = (m \in kb.LastKeyCodeArray)
    <3>1. Carried(kb.UsbKeyQueue, kb.LastKeyCodeArray, kb.On, kb.ShiftOn)
      BY <2>2 DEF UsbInv, ModifiersCarried
    <3> QED
      BY <2>1, <3>1, FlagsFollow
  <2> QED
    BY <2>1, <2>2 DEF KeysCarryTheirModifiers
<1> QED
  BY <1>1, UsbInitInv, UsbNextInv, PTL DEF UsbSpec
=============================================================================
