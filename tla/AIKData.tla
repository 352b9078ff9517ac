------------------------------ MODULE AIKData ------------------------------
(***************************************************************************)
(* The ring buffer in which the keyboard shim keeps the raw keys it has    *)
(* taken from the firmware until a caller of one of the shimmed firmware   *)
(* protocols asks for them (OcInputLib/Keycode/AIKData.c).  Each operation *)
(* is one action: this is the buffer as it behaves when reader and writer  *)
(* run at the same task priority.  AIKDataPreempted splits the reader.     *)
(*                                                                         *)
(* The C code keeps two pointers into the array; here they are indices,    *)
(* and the index AIK_DATA_BUFFER_SIZE is the one-past-the-end address that *)
(* the code compares with before it wraps.                                 *)
(***************************************************************************)
EXTENDS Naturals, Sequences

CONSTANTS
  Key,                  \* AMI_EFI_KEY_DATA values
  NoKey,                \* initial contents of a slot; a read that found nothing
  AIK_DATA_BUFFER_SIZE

ASSUME BufferAssumption ==
  /\ AIK_DATA_BUFFER_SIZE \in Nat \ {0}
  /\ NoKey \notin Key

VARIABLES
  KeyBuffer,
  KeyBufferHead,        \* where the next key is written
  KeyBufferTail,        \* where the next key is read
  KeyBufferSize,
  KeyData               \* what the last AIKDataReadEntry gave its caller

vars == <<KeyBuffer, KeyBufferHead, KeyBufferTail, KeyBufferSize, KeyData>>

Slots == 0 .. (AIK_DATA_BUFFER_SIZE - 1)

\* The pointer after an increment and the comparison with the end of the array.
Advance(p) == IF p + 1 = AIK_DATA_BUFFER_SIZE THEN 0 ELSE p + 1

----------------------------------------------------------------------------
Init ==
  /\ KeyBuffer = [s \in Slots |-> NoKey]
  /\ KeyBufferHead = 0
  /\ KeyBufferTail = 0
  /\ KeyBufferSize = 0
  /\ KeyData = NoKey

\* Mutant: the reset forgets that the two pointers must meet again.
AIKDataResetSizeOnly ==
  /\ KeyBufferHead' = 0
  /\ KeyBufferSize' = 0
  /\ UNCHANGED <<KeyBuffer, KeyBufferTail, KeyData>>

AIKDataReset ==
  /\ KeyBufferHead' = 0
  /\ KeyBufferTail' = 0
  /\ KeyBufferSize' = 0
  /\ UNCHANGED <<KeyBuffer, KeyData>>

AIKDataEmpty == KeyBufferSize = 0

AIKDataReadEntry ==
  \/ /\ AIKDataEmpty
     /\ KeyData' = NoKey                    \* EFI_NOT_READY
     /\ UNCHANGED <<KeyBuffer, KeyBufferHead, KeyBufferTail, KeyBufferSize>>
  \/ /\ ~AIKDataEmpty
     /\ KeyData' = KeyBuffer[KeyBufferTail]
     /\ KeyBufferSize' = KeyBufferSize - 1
     /\ KeyBufferTail' = Advance(KeyBufferTail)
     /\ UNCHANGED <<KeyBuffer, KeyBufferHead>>

\* Mutant: a full buffer is written without giving up its oldest entry.
AIKDataWriteEntryNoEviction(k) ==
  /\ KeyBufferSize' = IF KeyBufferSize = AIK_DATA_BUFFER_SIZE
                      THEN KeyBufferSize ELSE KeyBufferSize + 1
  /\ KeyBuffer' = [KeyBuffer EXCEPT ![KeyBufferHead] = k]
  /\ KeyBufferHead' = Advance(KeyBufferHead)
  /\ UNCHANGED <<KeyBufferTail, KeyData>>

AIKDataWriteEntry(k) ==
  LET full == KeyBufferSize = AIK_DATA_BUFFER_SIZE
  IN  /\ KeyBufferTail' = IF full THEN Advance(KeyBufferTail) ELSE KeyBufferTail
      /\ KeyBufferSize' = IF full THEN KeyBufferSize ELSE KeyBufferSize + 1
      /\ KeyBuffer' = [KeyBuffer EXCEPT ![KeyBufferHead] = k]
      /\ KeyBufferHead' = Advance(KeyBufferHead)
      /\ UNCHANGED KeyData

Next == AIKDataReset \/ AIKDataReadEntry \/ \E k \in Key : AIKDataWriteEntry(k)

Spec == Init /\ [][Next]_vars

----------------------------------------------------------------------------
TypeOK ==
  /\ KeyBuffer \in [Slots -> Key \cup {NoKey}]
  /\ KeyBufferHead \in Slots
  /\ KeyBufferTail \in Slots
  /\ KeyBufferSize \in 0 .. AIK_DATA_BUFFER_SIZE
  /\ KeyData \in Key \cup {NoKey}

\* The slot that holds the i-th oldest stored key, counting from zero.
Slot(i) ==
  IF KeyBufferTail + i < AIK_DATA_BUFFER_SIZE
  THEN KeyBufferTail + i
  ELSE KeyBufferTail + i - AIK_DATA_BUFFER_SIZE

\* The three redundant pieces of bookkeeping agree, and every slot between the
\* two pointers holds a key that was really stored: a read can never hand out
\* the uninitialised contents of a slot (AIKData.c:43-53, 67-80).
PointersAgree ==
  /\ Slot(KeyBufferSize) = KeyBufferHead
  /\ \A i \in 0 .. (KeyBufferSize - 1) : KeyBuffer[Slot(i)] \in Key

\* The abstract queue the ring buffer stands for.
Stored == [i \in 1 .. KeyBufferSize |-> KeyBuffer[Slot(i - 1)]]

Fifo == INSTANCE KeyFifo WITH
          Capacity <- AIK_DATA_BUFFER_SIZE, queue <- Stored, answer <- KeyData

\* The ring buffer behaves as the bounded queue KeyFifo: keys come out in the
\* order they went in and only the oldest one is given up, and only when there
\* is no room (the comment at AIKData.c:65).
ImplementsKeyFifo == Fifo!Spec
=============================================================================
