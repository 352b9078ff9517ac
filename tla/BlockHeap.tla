------------------------------ MODULE BlockHeap ------------------------------
(***************************************************************************)
(* What a pool allocator promises: it gives out runs of blocks that never  *)
(* overlap, says no only when no run of free blocks is long enough, and    *)
(* takes back what it gave out.  Nothing is lost to fragmentation between  *)
(* neighbours: two free runs that touch are one.                           *)
(***************************************************************************)
EXTENDS Naturals

CONSTANTS
  Blocks,         \* blocks that can be given out, numbered from 1
  Requests        \* numbers of blocks that are asked for

VARIABLES
  open,           \* there is memory to give out
  live,           \* runs given out and not yet taken back
  answer          \* the last call, what it asked for, and its result; 0 is no

Run == [at : 1 .. Blocks, size : 1 .. Blocks]
Cells(r) == r.at .. (r.at + r.size - 1)
Used == UNION {Cells(r) : r \in live}
Fits(r) == Cells(r) \subseteq (1 .. Blocks) \ Used

Answer(call, blocks, result) == [call |-> call, blocks |-> blocks, result |-> result]

Init == open = FALSE /\ live = {} /\ answer = Answer("none", 0, 0)

Open == ~open /\ open' = TRUE /\ answer' = Answer("none", 0, 0) /\ UNCHANGED live

Allocate(size) ==
  /\ open /\ UNCHANGED open
  /\ \/ \E r \in Run : /\ r.size = size /\ Fits(r)
                       /\ live' = live \cup {r} /\ answer' = Answer("malloc", size, r.at)
     \/ /\ ~ \E r \in Run : r.size = size /\ Fits(r)
        /\ answer' = Answer("malloc", size, 0) /\ UNCHANGED live

\* Requests for nothing are refused, and all of them while there is no memory.
Refuse(size) ==
  /\ size = 0 \/ ~open
  /\ answer' = Answer("malloc", size, 0) /\ UNCHANGED <<open, live>>

Release(r) == live' = live \ {r} /\ answer' = Answer("free", 0, 1) /\ UNCHANGED open
ReleaseOther == answer' = Answer("free", 0, 0) /\ UNCHANGED <<open, live>>

Next ==
  \/ Open
  \/ \E size \in Requests \ {0} : Allocate(size)
  \/ \E size \in Requests : Refuse(size)
  \/ \E r \in live : Release(r)
  \/ ReleaseOther

Spec == Init /\ [][Next]_<<open, live, answer>>
=============================================================================
