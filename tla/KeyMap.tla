------------------------------- MODULE KeyMap -------------------------------
(***************************************************************************)
(* The key map database and aggregator (OcAppleKeyMapLib.c): keyboard      *)
(* drivers own key sets in a list, and a query merges all the sets into    *)
(* one scratch buffer that every caller shares.                            *)
(*                                                                         *)
(* Two task priorities touch it.  An application (the boot picker, a       *)
(* loader) queries it, and drivers create and remove sets, at              *)
(* TPL_APPLICATION; the keyboard poll stores keys and the event poll       *)
(* queries at TPL_NOTIFY, between any two steps of the former.  An         *)
(* application query is modelled one key of the walk per step.             *)
(***************************************************************************)
EXTENDS Naturals, Sequences, SequencesExt, FiniteSetsExt

CONSTANTS
  MapKeyCode,     \* APPLE_KEY_CODE values
  NoCode,         \* the zeros of a fresh allocation
  MapModifier,    \* bits of APPLE_MODIFIER_MAP
  Lengths,        \* BufferLength arguments drivers pass
  MaxCreates,     \* bound: sets ever created
  MaxTotal,       \* bound: KeyCodeBufferLength, which failing creations inflate
  CallerSize      \* bound: keys the caller of a query has room for (8 in
                  \* ContainsKeyStrokes)

ASSUME KeyMapAssumption ==
  /\ Lengths \subseteq Nat \ {0} /\ MaxCreates \in Nat /\ MaxTotal \in Nat
  /\ CallerSize \in Nat
  /\ NoCode \notin MapKeyCode

VARIABLES
  KeyStrokesInfoList,     \* sequence of [Index, Length, Modifiers, KeyCodes]
  NextKeyStrokeIndex,
  KeyCodeBufferLength,
  KeyCodeBuffer,          \* contents of the scratch buffer; empty when not alive
  alive,                  \* KeyCodeBuffer points to allocated memory
  call,                   \* the application call in progress
  answer,                 \* what an application call that has just returned gave
  everPressed,            \* history: keys in some set at some time since the call began
  wild                    \* history: where a query wrote that it should not have

mapVars == <<KeyStrokesInfoList, NextKeyStrokeIndex, KeyCodeBufferLength, KeyCodeBuffer,
          alive, call, answer, everPressed, wild>>
database == <<KeyStrokesInfoList, NextKeyStrokeIndex, KeyCodeBufferLength>>

Idle == [pc |-> "idle"]
NoAnswer == [status |-> "none"]

Indices == {info.Index : info \in Range(KeyStrokesInfoList)}
Pressed == UNION {Range(info.KeyCodes) : info \in Range(KeyStrokesInfoList)}
\* The room of the key sets, as a pair of set and place for each key they can hold, and
\* the sum of their lengths.
Room == UNION {{info.Index} \X (1 .. info.Length) : info \in Range(KeyStrokesInfoList)}
TotalLength == Cardinality(Room)

\* The position of the set with the given index in the list.
GetKeyStrokesByIndex(i) ==
  CHOOSE p \in DOMAIN KeyStrokesInfoList : KeyStrokesInfoList[p].Index = i

----------------------------------------------------------------------------
MapInit ==
  /\ KeyStrokesInfoList = << >> /\ NextKeyStrokeIndex = 0
  /\ KeyCodeBufferLength = 0 /\ KeyCodeBuffer = << >> /\ alive = FALSE
  /\ call = Idle /\ answer = NoAnswer /\ everPressed = {} /\ wild = "no"

\* CreateKeyStrokesBuffer, up to the allocation: the scratch buffer is freed.
CreateFree(len) ==
  /\ call = Idle /\ NextKeyStrokeIndex < MaxCreates
  /\ KeyCodeBufferLength + len <= MaxTotal
  /\ KeyCodeBufferLength' = KeyCodeBufferLength + len
  /\ KeyCodeBuffer' = << >> /\ alive' = FALSE
  /\ call' = [pc |-> "create", len |-> len]
  /\ UNCHANGED <<KeyStrokesInfoList, NextKeyStrokeIndex, everPressed, wild>>
  /\ answer' = NoAnswer

\* Mutant: the new scratch buffer has room for the new set only.
CreateAllocateOneSet(ok, infoOk) ==
  /\ call.pc = "create"
  /\ alive' = ok
  /\ KeyCodeBuffer' = IF ok THEN [i \in 1 .. call.len |-> NoCode] ELSE << >>
  /\ IF ok /\ infoOk
     THEN /\ KeyStrokesInfoList' = Append(KeyStrokesInfoList,
               [Index |-> NextKeyStrokeIndex, Length |-> call.len,
                Modifiers |-> {}, KeyCodes |-> << >>])
          /\ NextKeyStrokeIndex' = NextKeyStrokeIndex + 1
     ELSE UNCHANGED <<KeyStrokesInfoList, NextKeyStrokeIndex>>
  /\ call' = Idle
  /\ UNCHANGED <<KeyCodeBufferLength, everPressed, wild>>
  /\ answer' = NoAnswer

\* The rest of CreateKeyStrokesBuffer: a scratch buffer for all sets is
\* allocated (ok), then the new set (infoOk).  KeyCodeBufferLength keeps what was
\* added to it even when one of the two allocations fails.
CreateAllocate(ok, infoOk) ==
  /\ call.pc = "create"
  /\ alive' = ok
  /\ KeyCodeBuffer' = IF ok THEN [i \in 1 .. KeyCodeBufferLength |-> NoCode] ELSE << >>
  /\ IF ok /\ infoOk
     THEN /\ KeyStrokesInfoList' = Append(KeyStrokesInfoList,
               [Index |-> NextKeyStrokeIndex, Length |-> call.len,
                Modifiers |-> {}, KeyCodes |-> << >>])
          /\ NextKeyStrokeIndex' = NextKeyStrokeIndex + 1
     ELSE UNCHANGED <<KeyStrokesInfoList, NextKeyStrokeIndex>>
  /\ call' = Idle
  /\ UNCHANGED <<KeyCodeBufferLength, everPressed, wild>>
  /\ answer' = NoAnswer

\* A set goes; the scratch buffer keeps its size.
RemoveKeyStrokesBuffer(i) ==
  /\ call = Idle /\ i \in Indices
  /\ LET p == GetKeyStrokesByIndex(i)
     IN  /\ KeyCodeBufferLength' = KeyCodeBufferLength - KeyStrokesInfoList[p].Length
         /\ KeyStrokesInfoList' = RemoveAt(KeyStrokesInfoList, p)
  /\ UNCHANGED <<NextKeyStrokeIndex, KeyCodeBuffer, alive, call, everPressed, wild>>
  /\ answer' = NoAnswer

\* TPL_NOTIFY: a keyboard driver replaces the keys of its set.  With too many
\* keys, or an index that is gone, nothing changes.
SetKeyStrokeBufferKeys(i, mods, keys) ==
  /\ i \in Indices
  /\ KeyStrokesInfoList[GetKeyStrokesByIndex(i)].Length >= Len(keys)
  /\ KeyStrokesInfoList' = [KeyStrokesInfoList EXCEPT
       ![GetKeyStrokesByIndex(i)].Modifiers = mods,
       ![GetKeyStrokesByIndex(i)].KeyCodes = keys]
  /\ everPressed' = IF call.pc = "walk" THEN everPressed \cup Range(keys) ELSE everPressed
  /\ UNCHANGED <<NextKeyStrokeIndex, KeyCodeBufferLength, KeyCodeBuffer, alive, call, wild>>
  /\ answer' = NoAnswer

----------------------------------------------------------------------------
\* A walk over the sets comes to a key k before it comes to any l.
WalkedBefore(k, l) ==
  \E p \in DOMAIN KeyStrokesInfoList : \E i \in DOMAIN KeyStrokesInfoList[p].KeyCodes :
    /\ KeyStrokesInfoList[p].KeyCodes[i] = k
    /\ \A q \in 1 .. p : \A j \in DOMAIN KeyStrokesInfoList[q].KeyCodes :
         KeyStrokesInfoList[q].KeyCodes[j] = l => q = p /\ i < j

\* The sequences with every pressed key at its first occurrence, of which there is one:
\* what the walk leaves in the scratch buffer when nothing interferes with it.
Merged ==
  {keys \in SetToSeqs(Pressed) :
     \A i, j \in DOMAIN keys : i < j => WalkedBefore(keys[i], keys[j])}

\* The buffer after its first elements were overwritten.
Overwrite(buffer, keys) ==
  [i \in DOMAIN buffer |-> IF i <= Len(keys) THEN keys[i] ELSE buffer[i]]

\* What a write of n keys into the scratch buffer touches.
Touches(n) ==
  CASE n = 0 -> wild
    [] n > 0 /\ ~alive -> "dead"
    [] n > 0 /\ alive -> IF n > Len(KeyCodeBuffer) THEN "beyond" ELSE wild

\* TPL_NOTIFY: the event poll runs a whole query; of its effects the next
\* application step can only see the scratch buffer.
PollGetKeyStrokes ==
  /\ \E keys \in Merged : /\ KeyCodeBuffer' = Overwrite(KeyCodeBuffer, keys)
                          /\ wild' = Touches(Len(keys))
  /\ UNCHANGED <<database, alive, call, everPressed>>
  /\ answer' = NoAnswer

\* TPL_APPLICATION: a query begins its walk over the list of sets.
GetKeyStrokes ==
  /\ call = Idle
  /\ call' = [pc |-> "walk", Entry |-> 1, Index |-> 1, Found |-> 0, DbModifiers |-> {}]
  /\ everPressed' = Pressed
  /\ UNCHANGED <<database, KeyCodeBuffer, alive, wild>>
  /\ answer' = NoAnswer

\* One key of the current set: it goes to the scratch buffer unless it is there.
WalkKey ==
  /\ call.pc = "walk" /\ call.Entry <= Len(KeyStrokesInfoList)
  /\ LET info  == KeyStrokesInfoList[call.Entry]
         known == \E i \in 1 .. call.Found : KeyCodeBuffer[i] = info.KeyCodes[call.Index]
     IN  /\ call.Index <= Len(info.KeyCodes)
         /\ IF alive /\ known
            THEN /\ call' = [call EXCEPT !.Index = @ + 1]
                 /\ UNCHANGED <<KeyCodeBuffer, wild>>
            ELSE /\ call' = [call EXCEPT !.Index = @ + 1, !.Found = @ + 1]
                 /\ KeyCodeBuffer' = [i \in DOMAIN KeyCodeBuffer |->
                      IF i = call.Found + 1 THEN info.KeyCodes[call.Index]
                                            ELSE KeyCodeBuffer[i]]
                 /\ wild' = Touches(call.Found + 1)
  /\ UNCHANGED <<database, alive, everPressed>>
  /\ answer' = NoAnswer

\* The next set; its modifiers are read when the walk arrives at it.
WalkEntry ==
  /\ call.pc = "walk" /\ call.Entry <= Len(KeyStrokesInfoList)
  /\ call.Index > Len(KeyStrokesInfoList[call.Entry].KeyCodes)
  /\ call' = [call EXCEPT !.Entry = @ + 1, !.Index = 1,
                          !.DbModifiers = @ \cup KeyStrokesInfoList[call.Entry].Modifiers]
  /\ UNCHANGED <<database, KeyCodeBuffer, alive, everPressed, wild>>
  /\ answer' = NoAnswer

\* The part of the scratch buffer that the query hands out.
Result == SubSeq(KeyCodeBuffer, 1, call.Found)

WalkDone == call.pc = "walk" /\ call.Entry > Len(KeyStrokesInfoList)

\* The query of an application ends, with room for CallerSize keys.
ReturnKeyStrokes ==
  /\ WalkDone
  /\ answer' = IF call.Found > CallerSize
               THEN [status |-> "EFI_BUFFER_TOO_SMALL", count |-> call.Found]
               ELSE [status |-> "EFI_SUCCESS", keys |-> Result, mods |-> call.DbModifiers]
  /\ call' = Idle /\ everPressed' = {}
  /\ UNCHANGED <<database, KeyCodeBuffer, alive, wild>>

\* OcKeyMapHasKeys
HasKeys(keys, check, exact) ==
  /\ exact => Len(keys) = Len(check)
  /\ Range(check) \subseteq Range(keys)

\* The status of ContainsKeyStrokes once the query has succeeded.  On a modifier
\* mismatch it returns FALSE, whose value is that of EFI_SUCCESS.
ContainsStatus(dbMods, dbKeys, mods, keys, exact) ==
  IF IF exact THEN dbMods # mods ELSE ~(mods \subseteq dbMods)
  THEN "EFI_SUCCESS"
  ELSE IF HasKeys(dbKeys, keys, exact) THEN "EFI_SUCCESS" ELSE "EFI_NOT_FOUND"

\* ContainsKeyStrokes: the same query, then the comparison.
ReturnContainsKeyStrokes(mods, keys, exact) ==
  /\ WalkDone
  /\ answer' = IF call.Found > CallerSize
               THEN [status |-> "EFI_BUFFER_TOO_SMALL", count |-> call.Found]
               ELSE [status |-> ContainsStatus(call.DbModifiers, Result, mods, keys, exact),
                     asked  |-> [mods |-> mods, keys |-> keys, exact |-> exact],
                     db     |-> [mods |-> call.DbModifiers, keys |-> Result]]
  /\ call' = Idle /\ everPressed' = {}
  /\ UNCHANGED <<database, KeyCodeBuffer, alive, wild>>

\* What a driver passes: its keys, each once, sometimes more than its set holds.
KeySequences ==
  {keys \in UNION {[1 .. n -> MapKeyCode] : n \in 0 .. MaxTotal + 1} : IsInjective(keys)}

\* TPL_APPLICATION
Application ==
  \/ \E len \in Lengths : CreateFree(len)
  \/ \E ok, infoOk \in BOOLEAN : CreateAllocate(ok, infoOk)
  \/ \E i \in Indices : RemoveKeyStrokesBuffer(i)
  \/ GetKeyStrokes \/ WalkKey \/ WalkEntry \/ ReturnKeyStrokes
  \/ \E mods \in SUBSET MapModifier, k \in MapKeyCode, exact \in BOOLEAN :
       ReturnContainsKeyStrokes(mods, <<k>>, exact)

\* TPL_NOTIFY
Notification ==
  \/ \E i \in Indices, mods \in SUBSET MapModifier, keys \in KeySequences :
       SetKeyStrokeBufferKeys(i, mods, keys)
  \/ PollGetKeyStrokes

\* Once a query has written where it should not, nothing more is claimed.
MapNext ==
  \/ wild = "no" /\ (Application \/ Notification)
  \/ wild # "no" /\ UNCHANGED mapVars

MapSpec == MapInit /\ [][MapNext]_mapVars

----------------------------------------------------------------------------
MapTypeOK ==
  /\ \A info \in Range(KeyStrokesInfoList) :
       /\ info.Index \in 0 .. NextKeyStrokeIndex /\ info.Length \in Lengths
       /\ info.Modifiers \subseteq MapModifier
       /\ info.KeyCodes \in Seq(MapKeyCode) /\ Len(info.KeyCodes) <= info.Length
  /\ NextKeyStrokeIndex \in 0 .. MaxCreates
  /\ KeyCodeBuffer \in Seq(MapKeyCode \cup {NoCode})
  /\ call.pc \in {"idle", "create", "walk"}
  /\ wild \in {"no", "dead", "beyond"}

\* The bookkeeping of the scratch buffer survives every order of creations,
\* removals and failed allocations: the recorded length never falls below what
\* the sets can hold (so its subtraction never wraps), and a scratch buffer that
\* exists has room for all of them (OcAppleKeyMapLib.c:414-424, 489).
ScratchCoversSets ==
  /\ TotalLength <= KeyCodeBufferLength
  /\ alive => TotalLength <= Len(KeyCodeBuffer)

\* No query, preempted or not, ever writes behind the end of a scratch buffer
\* that exists; what can go wrong is that there is none, while it is being
\* replaced or after its allocation failed (OcAppleKeyMapLib.c:179-192).
NeverBeyondScratch == wild # "beyond"

\* An application query that the poll preempts may miss a key or report one
\* twice, since both use the same scratch buffer, but every key it reports was
\* held down at some time during the call (OcAppleKeyMapLib.c:170-213).
ReportedKeysWerePressed ==
  WalkDone => Range(Result) \subseteq everPressed

\* When ContainsKeyStrokes answers that the keys are not there, they are not
\* (OcAppleKeyMapLib.c:367-375, with OcKeyMapHasKeys at 230-244).
NotFoundIsRight ==
  answer.status = "EFI_NOT_FOUND" =>
    LET q == answer.asked
    IN  \/ ~(Range(q.keys) \subseteq Range(answer.db.keys))
        \/ q.exact /\ Len(q.keys) # Len(answer.db.keys)

\* The scratch buffer of the key map has room for all key sets at every time that it
\* exists, no query writes beyond it, every key that a query reports was held at some
\* time during the query, and keys said to be missing are
\* (OcAppleKeyMapLib.c:170-213, 230-244, 367-375, 414-424, 489).
KeySetsRight ==
  MapTypeOK /\ ScratchCoversSets /\ NeverBeyondScratch /\ ReportedKeysWerePressed /\ NotFoundIsRight

\* "@retval EFI_SUCCESS The queried keys are part of the database. @retval
\* EFI_NOT_FOUND The queried keys could not be found." with "Modifiers The
\* modifiers manipulating the given keys" (OcAppleKeyMapLib.c:317-327).
SuccessMeansContained ==
  answer.status = "EFI_SUCCESS" /\ "asked" \in DOMAIN answer =>
    LET q == answer.asked
    IN  /\ Range(q.keys) \subseteq Range(answer.db.keys)
        /\ q.mods \subseteq answer.db.mods
=============================================================================
