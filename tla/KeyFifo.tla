------------------------------ MODULE KeyFifo ------------------------------
(***************************************************************************)
(* What the raw key store of the keyboard shim promises: a bounded queue   *)
(* that hands keys out in the order they were stored and, when it is full, *)
(* gives up its oldest key to make room for the new one.                   *)
(***************************************************************************)
EXTENDS Naturals, Sequences

CONSTANTS
  Key,          \* AMI_EFI_KEY_DATA values, abstract
  NoKey,        \* what a caller holds when a read returned EFI_NOT_READY
  Capacity      \* number of keys the queue can hold

VARIABLES
  queue,        \* keys stored and not yet read, oldest first
  answer        \* result of the last read

vars == <<queue, answer>>

Init == queue = << >> /\ answer = NoKey

Clear == queue' = << >> /\ UNCHANGED answer

Get ==
  \/ /\ queue # << >>
     /\ answer' = Head(queue)
     /\ queue' = Tail(queue)
  \/ /\ queue = << >>
     /\ answer' = NoKey
     /\ UNCHANGED queue

Put(k) ==
  /\ queue' = Append(IF Len(queue) = Capacity THEN Tail(queue) ELSE queue, k)
  /\ UNCHANGED answer

Next == Clear \/ Get \/ \E k \in Key : Put(k)

Spec == Init /\ [][Next]_vars
=============================================================================
