-------------------------- MODULE AIKDataPreempted --------------------------
(***************************************************************************)
(* The raw key ring buffer as it is really used.  A caller of a shimmed    *)
(* firmware protocol reads or resets it at TPL_APPLICATION (AIKShim.c),    *)
(* without raising the task priority; the poll timer writes it at          *)
(* TPL_NOTIFY (AIK.c:142) and can preempt the caller between any two of    *)
(* its statements.  The writer itself is never interrupted.                *)
(*                                                                         *)
(* The statements of the two preemptible operations are taken in source    *)
(* order, each as one memory access.  The history variable unread is the   *)
(* queue KeyFifo would hold: a key leaves it when its reader copies it, or *)
(* when it is the oldest of a full queue and another key is written.       *)
(***************************************************************************)
EXTENDS AIKData

VARIABLES
  pc,             \* the next statement of the preemptible operation
  unread,         \* history: the keys that should still be delivered
  interfered      \* history: the writer moved something an operation in progress
                  \* was about to move

pvars == <<vars, pc, unread, interfered>>

PInit == Init /\ pc = "idle" /\ unread = << >> /\ interfered = FALSE

\* The model does not follow a pointer that has left the array; the address
\* one past the end is still the one the code compares with.
Inside == KeyBufferTail <= AIK_DATA_BUFFER_SIZE

Elsewhere == UNCHANGED <<KeyBuffer, KeyBufferHead, interfered>>

\* AIKDataReadEntry: the test for emptiness and the copy (AIKData.c:43-47).
ReadCopy ==
  /\ pc = "idle" /\ Inside
  /\ \/ AIKDataEmpty /\ KeyData' = NoKey /\ UNCHANGED <<pc, unread>>
     \/ ~AIKDataEmpty /\ KeyData' = KeyBuffer[KeyBufferTail] /\ pc' = "shrink"
        /\ unread' = IF unread = << >> THEN unread ELSE Tail(unread)
  /\ UNCHANGED <<KeyBufferTail, KeyBufferSize>> /\ Elsewhere

\* KeyBufferSize-- (AIKData.c:49)
ReadShrink ==
  /\ pc = "shrink" /\ Inside
  /\ KeyBufferSize' = KeyBufferSize - 1 /\ pc' = "advance"
  /\ UNCHANGED <<KeyBufferTail, KeyData, unread>> /\ Elsewhere

\* KeyBufferTail++ (AIKData.c:50)
ReadAdvance ==
  /\ pc = "advance" /\ Inside
  /\ KeyBufferTail' = KeyBufferTail + 1 /\ pc' = "wrap"
  /\ UNCHANGED <<KeyBufferSize, KeyData, unread>> /\ Elsewhere

\* The comparison with the end of the array (AIKData.c:51-55)
ReadWrap ==
  /\ pc = "wrap" /\ Inside
  /\ KeyBufferTail' = IF KeyBufferTail = AIK_DATA_BUFFER_SIZE THEN 0 ELSE KeyBufferTail
  /\ pc' = "idle"
  /\ UNCHANGED <<KeyBufferSize, KeyData, unread>> /\ Elsewhere

\* AIKDataReset: the two pointers, then the size (AIKData.c:25-26).
ResetPointers ==
  /\ pc = "idle" /\ Inside
  /\ KeyBufferTail' = 0 /\ KeyBufferHead' = 0 /\ pc' = "clear"
  /\ UNCHANGED <<KeyBuffer, KeyBufferSize, KeyData, unread, interfered>>

ResetSize ==
  /\ pc = "clear" /\ Inside
  /\ KeyBufferSize' = 0 /\ unread' = << >> /\ pc' = "idle"
  /\ UNCHANGED <<KeyBufferTail, KeyData>> /\ Elsewhere

\* The poll notification stores a key, whatever the caller is in the middle of.
Write(k) ==
  /\ Inside
  /\ AIKDataWriteEntry(k)
  /\ unread' = Append(IF Len(unread) = AIK_DATA_BUFFER_SIZE
                      THEN Tail(unread) ELSE unread, k)
  /\ interfered' = \/ interfered
                   \/ pc = "clear"
                   \/ pc # "idle" /\ KeyBufferSize = AIK_DATA_BUFFER_SIZE
  /\ UNCHANGED pc

Escaped == ~Inside /\ UNCHANGED pvars

ReadNext ==
  \/ ReadCopy \/ ReadShrink \/ ReadAdvance \/ ReadWrap
  \/ \E k \in Key : Write(k)
  \/ Escaped

PNext == ReadNext \/ ResetPointers \/ ResetSize

ReadSpec == PInit /\ [][ReadNext]_pvars
PSpec == PInit /\ [][PNext]_pvars

----------------------------------------------------------------------------
\* Bounds of what the two operations and the timer can leave behind.
PTypeOK ==
  /\ KeyBuffer \in [Slots -> Key \cup {NoKey}]
  /\ KeyBufferHead \in Slots
  /\ KeyBufferTail \in 0 .. AIK_DATA_BUFFER_SIZE + 1
  /\ KeyBufferSize \in 0 .. AIK_DATA_BUFFER_SIZE
  /\ KeyData \in Key \cup {NoKey}
  /\ pc \in {"idle", "shrink", "advance", "wrap", "clear"}
  /\ Len(unread) <= AIK_DATA_BUFFER_SIZE

\* A preempted read loses, repeats or reorders nothing, and leaves the tail in
\* the array, as long as the timer did not find the ring full while the read was
\* in progress: it is safe that the entry is copied before the size is
\* decremented, because the slot stays occupied until then, and the wrap may be
\* an equality test because nobody else moves the tail (AIKData.c:43-53).
HarmlessUnlessFull ==
  /\ PTypeOK
  /\ ~interfered => /\ Inside
                    /\ pc = "idle" => PointersAgree /\ Stored = unread

\* "Eat the first entry if we have no room" (AIKData.c:65): whenever no read is
\* in progress the ring holds exactly the keys that were neither read nor given
\* up as the first entry of a full ring.
OnlyFirstEntryEaten == pc = "idle" /\ Inside => Stored = unread
=============================================================================
