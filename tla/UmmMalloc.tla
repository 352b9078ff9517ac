------------------------------ MODULE UmmMalloc ------------------------------
(***************************************************************************)
(* The built-in pool allocator (OcMemoryLib/UmmMalloc.c): a heap of 16-byte*)
(* blocks, chained through the headers of the first block of every run,    *)
(* with a second chain through the bodies of the free ones.  The bit       *)
(* UMM_FREELIST_MASK of a next pointer is the field "free" here.           *)
(*                                                                         *)
(* What a caller may overwrite is Data from the moment it is given out, so *)
(* an index that is read out of a caller's memory is an evaluation error.  *)
(***************************************************************************)
EXTENDS Naturals, FiniteSets

CONSTANTS
  UMM_NUMBLOCKS,      \* blocks of the heap, with the first and the last
  Sizes,              \* requests, in bytes
  Data                \* bytes of a caller

\* With fewer blocks umm_init makes the last block the first free one.
ASSUME HeapAssumption == UMM_NUMBLOCKS \in Nat /\ UMM_NUMBLOCKS >= 3 /\ Sizes \subseteq Nat

VARIABLES
  heap,               \* the blocks' fields, by block number
  initialized,        \* UmmInitialized
  requested,          \* history: the size asked for, by the block given out, else 0
  answer              \* history: the last call, its size in blocks, and its result;
                      \* a pointer is its block, NULL and FALSE are 0

vars == <<heap, initialized, requested, answer>>

Block == 0 .. (UMM_NUMBLOCKS - 1)
BlockLast == UMM_NUMBLOCKS - 1
HEADER == 8
BLOCK == 16
Answer(call, blocks, result) == [call |-> call, blocks |-> blocks, result |-> result]
Live == {b \in Block : requested[b] # 0}

----------------------------------------------------------------------------
\* Memory that is zeroed before it becomes the heap.
Zeroed == [b \in Block |-> [next |-> 0, free |-> FALSE, prev |-> 0, nfree |-> 0, pfree |-> 0]]

Init ==
  /\ heap = Zeroed /\ initialized = FALSE
  /\ requested = [b \in Block |-> 0] /\ answer = Answer("none", 0, 0)

\* UmmSetHeap with umm_init; bound: once.
UmmSetHeap ==
  /\ ~initialized
  /\ heap' = [heap EXCEPT ![0].next = 1, ![0].nfree = 1, ![0].pfree = 1,
                          ![1].next = BlockLast, ![1].free = TRUE, ![1].nfree = 0,
                          ![1].prev = 0, ![1].pfree = 0,
                          ![BlockLast].next = 0, ![BlockLast].prev = 1]
  /\ initialized' = TRUE
  /\ answer' = Answer("none", 0, 0) /\ UNCHANGED requested

\* Blocks for a request; the first one has the header in front of its body.
umm_blocks(size) ==
  IF size <= BLOCK - HEADER THEN 1 ELSE 2 + (size - (1 + (BLOCK - HEADER))) \div BLOCK

\* Nothing is asked for with a size of 0.
BlocksFor(size) == IF size = 0 THEN 0 ELSE umm_blocks(size)

\* Mutant: the block behind keeps its link to the whole run.
umm_split_blockOneWay(h, c, blocks) ==
  [h EXCEPT ![c + blocks].next = h[c].next, ![c + blocks].free = TRUE,
            ![c + blocks].prev = c,
            ![c].next = c + blocks, ![c].free = FALSE]

umm_split_block(h, c, blocks) ==
  [h EXCEPT ![c + blocks].next = h[c].next, ![c + blocks].free = TRUE,
            ![c + blocks].prev = c,
            ![h[c].next].prev = c + blocks,
            ![c].next = c + blocks, ![c].free = FALSE]

umm_disconnect_from_free_list(h, c) ==
  [h EXCEPT ![h[c].pfree].nfree = h[c].nfree, ![h[c].nfree].pfree = h[c].pfree,
            ![c].free = FALSE]

\* Mutant: a free run behind is left alone.
umm_assimilate_upNever(h, c) == h

\* A free run behind c becomes part of c.
umm_assimilate_up(h, c) ==
  LET behind == h[c].next
      d      == umm_disconnect_from_free_list(h, behind)
  IN  IF ~h[behind].free THEN h
      ELSE [d EXCEPT ![d[behind].next].prev = c, ![c].next = d[behind].next]

\* Run c becomes part of the free run in front of it.
umm_assimilate_down(h, c) ==
  [h EXCEPT ![h[c].prev].next = h[c].next, ![h[c].prev].free = TRUE,
            ![h[c].next].prev = h[c].prev]

AddToFreeList(h, c) ==
  [h EXCEPT ![h[0].nfree].pfree = c, ![c].nfree = h[0].nfree, ![c].pfree = 0,
            ![0].nfree = c, ![c].free = TRUE]

\* The k-th run of the free list, 0 behind its end.
FreeList(h) ==
  LET run[k \in 0 .. UMM_NUMBLOCKS] ==
        IF k = 0 THEN h[0].nfree ELSE IF run[k - 1] = 0 THEN 0 ELSE h[run[k - 1]].nfree
  IN  run

SizeOf(h, c) == h[c].next - c

Fitting(h, blocks) ==
  {k \in DOMAIN FreeList(h) : FreeList(h)[k] # 0 /\ SizeOf(h, FreeList(h)[k]) >= blocks}

\* The first of the smallest runs that fit.
BestFit(h, blocks) ==
  LET size(k) == SizeOf(h, FreeList(h)[k])
      k == CHOOSE k \in Fitting(h, blocks) : \A j \in Fitting(h, blocks) :
             size(k) < size(j) \/ (size(k) = size(j) /\ k <= j)
  IN  FreeList(h)[k]

\* The run's beginning is taken off the free list; what is left of it takes its place there.
TakeRun(h, c, blocks) ==
  LET s == umm_split_block(h, c, blocks)
  IN  IF SizeOf(h, c) = blocks THEN umm_disconnect_from_free_list(h, c)
      ELSE [s EXCEPT ![s[c].pfree].nfree = c + blocks, ![c + blocks].pfree = s[c].pfree,
                     ![s[c].nfree].pfree = c + blocks, ![c + blocks].nfree = s[c].nfree]

\* The caller's memory: all of the run but its header.
Filled(h, c, blocks) ==
  [b \in Block |->
     IF b = c THEN [h[b] EXCEPT !.nfree = Data, !.pfree = Data]
     ELSE IF b \in (c + 1) .. (c + blocks - 1)
          THEN [next |-> Data, free |-> Data, prev |-> Data, nfree |-> Data, pfree |-> Data]
          ELSE h[b]]

UmmMalloc(size) ==
  LET blocks == BlocksFor(size)
      c      == BestFit(heap, blocks)
  IN  /\ UNCHANGED initialized
      /\ \/ /\ ~initialized \/ size = 0 \/ Fitting(heap, blocks) = {}
            /\ answer' = Answer("malloc", blocks, 0) /\ UNCHANGED <<heap, requested>>
         \/ /\ initialized /\ size # 0 /\ Fitting(heap, blocks) # {}
            /\ heap' = Filled(TakeRun(heap, c, blocks), c, blocks)
            /\ requested' = [requested EXCEPT ![c] = size]
            /\ answer' = Answer("malloc", blocks, c)

UmmFree(c) ==
  LET up == umm_assimilate_up(heap, c)
  IN  /\ initialized
      /\ heap' = IF up[up[c].prev].free THEN umm_assimilate_down(up, c) ELSE AddToFreeList(up, c)
      /\ requested' = [requested EXCEPT ![c] = 0]
      /\ answer' = Answer("free", 0, 1)
      /\ UNCHANGED initialized

\* NULL, a pointer outside the heap, or any pointer without a heap.
UmmFreeOther == answer' = Answer("free", 0, 0) /\ UNCHANGED <<heap, initialized, requested>>

Next ==
  \/ UmmSetHeap
  \/ \E size \in Sizes : UmmMalloc(size)
  \/ \E c \in Live : UmmFree(c)
  \/ UmmFreeOther

Spec == Init /\ [][Next]_vars

----------------------------------------------------------------------------
\* The runs in the order of their addresses, behind block 0.
Runs ==
  LET run[k \in Block] == IF k = 0 THEN 0 ELSE IF run[k - 1] = BlockLast THEN BlockLast
                          ELSE heap[run[k - 1]].next
  IN  {run[k] : k \in Block}
Free == {b \in Runs : heap[b].free}

TypeOK ==
  /\ initialized \in BOOLEAN
  /\ \A b \in Live \cup {0} : heap[b].next \in Block /\ heap[b].prev \in Block
  /\ initialized => Live \cup {0, BlockLast} \subseteq Runs
  /\ answer.result \in Block

\* The runs lie one behind the other and are linked both ways, each is either free
\* or a caller's, no two neighbours are free, and the free list holds the free ones
\* exactly, linked both ways (UmmMalloc.c:149-210, 443-475).
HeapWellFormed ==
  /\ TypeOK
  /\ initialized =>
    /\ \A b \in Runs \ {BlockLast} : heap[b].next > b /\ heap[heap[b].next].prev = b
    /\ Runs = Free \cup Live \cup {0, BlockLast} /\ Free \cap Live = {}
    /\ \A b \in Free : heap[b].next \notin Free
    /\ Free = {FreeList(heap)[k] : k \in DOMAIN FreeList(heap)} \ {0}
    /\ \A b \in Free \cup {0} : heap[heap[b].nfree].pfree = b

\* No call writes into memory that belongs to a caller (UmmMalloc.c:82-90).
CallersDataKept ==
  \A c \in Live : \A b \in c .. (heap[c].next - 1) :
    /\ heap[b].nfree = Data /\ heap[b].pfree = Data
    /\ b # c => heap[b].next = Data /\ heap[b].prev = Data

\* A caller gets as many bytes as it asked for, and no whole block more
\* (UmmMalloc.c:116-138).
EnoughButNotMore ==
  \A c \in Live : LET bytes == BLOCK * SizeOf(heap, c) - HEADER
                  IN  requested[c] <= bytes /\ bytes - requested[c] < BLOCK

\* The heap is in order, its callers keep their data and get what they asked for
\* (UmmMalloc.c:116-210, 443-475).
HeapRight == HeapWellFormed /\ CallersDataKept /\ EnoughButNotMore

\* The allocator is a heap that refuses a request only when no free run is long
\* enough for it (UmmMalloc.c:290-491).
Promised == INSTANCE BlockHeap WITH
  Blocks <- UMM_NUMBLOCKS - 2, Requests <- {BlocksFor(size) : size \in Sizes}, open <- initialized,
  live <- {[at |-> c, size |-> SizeOf(heap, c)] : c \in Live}
ImplementsBlockHeap == Promised!Spec
=============================================================================
