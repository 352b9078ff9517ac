-------------------------- MODULE LibrariesProofs --------------------------
(***************************************************************************)
(* Proofs about the libraries, for every value of their constants: the     *)
(* pool in static memory keeps its heap in order and is a heap of blocks   *)
(* that refuses only what does not fit; sounds share their buffers with    *)
(* the callback of the device without losing one or releasing one twice;   *)
(* overflow is told exactly, for numbers of every width.                   *)
(***************************************************************************)
EXTENDS MCLibraries, SequenceLemmas

Values == Block \cup BOOLEAN \cup {Data}
Heaps == [Block -> [next : Values, free : Values, prev : Values, nfree : Values, pfree : Values]]

LEMMA BlockFacts == /\ BlockLast \in Block /\ 0 \in Block /\ 1 \in Block /\ BlockLast > 1
                    /\ Block \subseteq Nat /\ \A b \in Block : b <= BlockLast
                    /\ \A b \in Nat : b <= BlockLast => b \in Block
BY HeapAssumption DEF Block, BlockLast

----------------------------------------------------------------------------
(* The runs in the order of their addresses. *)

\* R are the first blocks of the runs, linked both ways in the order of their addresses.
Chain(h, R) ==
  /\ R \subseteq Block /\ 0 \in R /\ 1 \in R /\ BlockLast \in R
  /\ h[0].prev = 0
  /\ \A b \in R \ {BlockLast} :
       /\ h[b].next \in R /\ h[b].next > b /\ h[h[b].next].prev = b
       /\ \A r \in R : r <= b \/ r >= h[b].next
  /\ \A b \in R \ {0} : h[b].prev \in R /\ h[b].prev < b /\ h[h[b].prev].next = b

\* The free list f with block 0 in front of its first and behind its last run.
Ring(f, k) == IF k \in 1 .. Len(f) THEN f[k] ELSE 0

FreeRing(h, f) ==
  /\ f \in Seq(Block) /\ IsInjective(f) /\ 0 \notin Range(f)
  /\ \A k \in 0 .. Len(f) : h[Ring(f, k)].nfree = Ring(f, k + 1)
     /\ h[Ring(f, k + 1)].pfree = Ring(f, k)

\* The runs of the free list are marked as free, and no others.
Marked(h) == {b \in Block : h[b].free}
Flags(h, R, f) == Range(f) \subseteq R \ {0, BlockLast} /\ R \cap Marked(h) = Range(f)

Pool(h, R, f) == h \in Heaps /\ Chain(h, R) /\ FreeRing(h, f) /\ Flags(h, R, f)

----------------------------------------------------------------------------
(* The free list. *)

LEMMA RingFacts ==
  ASSUME NEW f \in Seq(Block), IsInjective(f), 0 \notin Range(f)
  PROVE  /\ Len(f) \in Nat
         /\ \A k \in 0 .. (Len(f) + 1) : Ring(f, k) \in Block
         /\ \A k \in 1 .. Len(f) : Ring(f, k) = f[k] /\ f[k] # 0 /\ f[k] \in Range(f)
         /\ Ring(f, 0) = 0 /\ Ring(f, Len(f) + 1) = 0
         /\ \A j, k \in 0 .. Len(f) : Ring(f, j) = Ring(f, k) => j = k
         /\ \A j, k \in 1 .. (Len(f) + 1) : Ring(f, j) = Ring(f, k) => j = k
         /\ \A k \in Nat : Ring(f, k) = 0 => k = 0 \/ k > Len(f)
         /\ \A b \in Range(f) : \E k \in 1 .. Len(f) : b = f[k] /\ b = Ring(f, k)
<1>1. Len(f) \in Nat /\ DOMAIN f = 1 .. Len(f) /\ \A k \in 1 .. Len(f) : f[k] \in Block
  OBVIOUS
<1>2. \A k \in 1 .. Len(f) : f[k] # 0 /\ f[k] \in Range(f)
  BY <1>1 DEF Range
<1>3. \A j, k \in 1 .. Len(f) : f[j] = f[k] => j = k
  BY <1>1 DEF IsInjective
<1>4. \A b \in Range(f) : \E k \in 1 .. Len(f) : b = f[k]
  BY <1>1 DEF Range
<1>5. 0 \in Block
  BY BlockFacts
<1> QED
  BY <1>1, <1>2, <1>3, <1>4, <1>5 DEF Ring

----------------------------------------------------------------------------
(* What the operations write, one field after the other. *)

SetNext(h, a, v) == [h EXCEPT ![a].next = v]
SetPrev(h, a, v) == [h EXCEPT ![a].prev = v]
SetNfree(h, a, v) == [h EXCEPT ![a].nfree = v]
SetPfree(h, a, v) == [h EXCEPT ![a].pfree = v]
MarkFree(h, a) == [h EXCEPT ![a].free = TRUE]
MarkUsed(h, a) == [h EXCEPT ![a].free = FALSE]

LEMMA SetNextFields ==
  ASSUME NEW h \in Heaps, NEW a \in Block, NEW v \in Values
  PROVE  /\ SetNext(h, a, v) \in Heaps
         /\ Marked(SetNext(h, a, v)) = Marked(h)
         /\ \A b \in Block :
              /\ SetNext(h, a, v)[b].next = IF b = a THEN v ELSE h[b].next
              /\ SetNext(h, a, v)[b].prev = h[b].prev
              /\ SetNext(h, a, v)[b].nfree = h[b].nfree
              /\ SetNext(h, a, v)[b].pfree = h[b].pfree
BY DEF SetNext, Heaps, Marked

LEMMA SetPrevFields ==
  ASSUME NEW h \in Heaps, NEW a \in Block, NEW v \in Values
  PROVE  /\ SetPrev(h, a, v) \in Heaps
         /\ Marked(SetPrev(h, a, v)) = Marked(h)
         /\ \A b \in Block :
              /\ SetPrev(h, a, v)[b].next = h[b].next
              /\ SetPrev(h, a, v)[b].prev = IF b = a THEN v ELSE h[b].prev
              /\ SetPrev(h, a, v)[b].nfree = h[b].nfree
              /\ SetPrev(h, a, v)[b].pfree = h[b].pfree
BY DEF SetPrev, Heaps, Marked

LEMMA SetNfreeFields ==
  ASSUME NEW h \in Heaps, NEW a \in Block, NEW v \in Values
  PROVE  /\ SetNfree(h, a, v) \in Heaps
         /\ Marked(SetNfree(h, a, v)) = Marked(h)
         /\ \A b \in Block :
              /\ SetNfree(h, a, v)[b].next = h[b].next
              /\ SetNfree(h, a, v)[b].prev = h[b].prev
              /\ SetNfree(h, a, v)[b].nfree = IF b = a THEN v ELSE h[b].nfree
              /\ SetNfree(h, a, v)[b].pfree = h[b].pfree
BY DEF SetNfree, Heaps, Marked

LEMMA SetPfreeFields ==
  ASSUME NEW h \in Heaps, NEW a \in Block, NEW v \in Values
  PROVE  /\ SetPfree(h, a, v) \in Heaps
         /\ Marked(SetPfree(h, a, v)) = Marked(h)
         /\ \A b \in Block :
              /\ SetPfree(h, a, v)[b].next = h[b].next
              /\ SetPfree(h, a, v)[b].prev = h[b].prev
              /\ SetPfree(h, a, v)[b].nfree = h[b].nfree
              /\ SetPfree(h, a, v)[b].pfree = IF b = a THEN v ELSE h[b].pfree
BY DEF SetPfree, Heaps, Marked

LEMMA MarkFreeFields ==
  ASSUME NEW h \in Heaps, NEW a \in Block
  PROVE  /\ MarkFree(h, a) \in Heaps
         /\ Marked(MarkFree(h, a)) = Marked(h) \cup {a}
         /\ \A b \in Block :
              /\ MarkFree(h, a)[b].next = h[b].next
              /\ MarkFree(h, a)[b].prev = h[b].prev
              /\ MarkFree(h, a)[b].nfree = h[b].nfree
              /\ MarkFree(h, a)[b].pfree = h[b].pfree
<1>1. TRUE \in Values
  BY DEF Values
<1> QED
  BY <1>1 DEF MarkFree, Heaps, Marked

LEMMA MarkUsedFields ==
  ASSUME NEW h \in Heaps, NEW a \in Block
  PROVE  /\ MarkUsed(h, a) \in Heaps
         /\ Marked(MarkUsed(h, a)) = Marked(h) \ {a}
         /\ \A b \in Block :
              /\ MarkUsed(h, a)[b].next = h[b].next
              /\ MarkUsed(h, a)[b].prev = h[b].prev
              /\ MarkUsed(h, a)[b].nfree = h[b].nfree
              /\ MarkUsed(h, a)[b].pfree = h[b].pfree
<1>1. FALSE \in Values
  BY DEF Values
<1> QED
  BY <1>1 DEF MarkUsed, Heaps, Marked

LEMMA ValuesFacts == Block \subseteq Values
BY DEF Values

LEMMA DisconnectFields ==
  ASSUME NEW h \in Heaps, NEW c \in Block, h[c].pfree \in Block, h[c].nfree \in Block
  PROVE  /\ umm_disconnect_from_free_list(h, c) \in Heaps
         /\ Marked(umm_disconnect_from_free_list(h, c)) = Marked(h) \ {c}
         /\ \A b \in Block :
              /\ umm_disconnect_from_free_list(h, c)[b].next = h[b].next
              /\ umm_disconnect_from_free_list(h, c)[b].prev = h[b].prev
              /\ umm_disconnect_from_free_list(h, c)[b].nfree =
                   IF b = h[c].pfree THEN h[c].nfree ELSE h[b].nfree
              /\ umm_disconnect_from_free_list(h, c)[b].pfree =
                   IF b = h[c].nfree THEN h[c].pfree ELSE h[b].pfree
<1> DEFINE p == h[c].pfree
           n == h[c].nfree
           h1 == SetNfree(h, p, n)
           h2 == SetPfree(h1, n, p)
           h3 == MarkUsed(h2, c)
<1>1. umm_disconnect_from_free_list(h, c) = h3
  BY DEF umm_disconnect_from_free_list, MarkUsed, SetNfree, SetPfree
<1>2. p \in Block /\ n \in Block /\ p \in Values /\ n \in Values
  BY ValuesFacts, BlockFacts
<1> HIDE DEF p, n
<1>3. /\ h1 \in Heaps
      /\ Marked(h1) = Marked(h)
      /\ \A b \in Block :
           /\ h1[b].next = h[b].next
           /\ h1[b].prev = h[b].prev
           /\ h1[b].nfree = IF b = p THEN n ELSE h[b].nfree
           /\ h1[b].pfree = h[b].pfree
  BY <1>2, SetNfreeFields
<1> HIDE DEF h1
<1>4. /\ h2 \in Heaps
      /\ Marked(h2) = Marked(h1)
      /\ \A b \in Block :
           /\ h2[b].next = h1[b].next
           /\ h2[b].prev = h1[b].prev
           /\ h2[b].nfree = h1[b].nfree
           /\ h2[b].pfree = IF b = n THEN p ELSE h1[b].pfree
  BY <1>2, <1>3, SetPfreeFields
<1> HIDE DEF h2
<1>5. /\ h3 \in Heaps
      /\ Marked(h3) = Marked(h2) \ {c}
      /\ \A b \in Block :
           /\ h3[b].next = h2[b].next
           /\ h3[b].prev = h2[b].prev
           /\ h3[b].nfree = h2[b].nfree
           /\ h3[b].pfree = h2[b].pfree
  BY <1>2, <1>4, MarkUsedFields
<1> HIDE DEF h3
<1> QED
  BY <1>1, <1>3, <1>4, <1>5 DEF p, n

LEMMA AssimilateDownFields ==
  ASSUME NEW h \in Heaps, NEW c \in Block, h[c].prev \in Block, h[c].next \in Block
  PROVE  /\ umm_assimilate_down(h, c) \in Heaps
         /\ Marked(umm_assimilate_down(h, c)) = Marked(h) \cup {h[c].prev}
         /\ \A b \in Block :
              /\ umm_assimilate_down(h, c)[b].next = IF b = h[c].prev THEN h[c].next ELSE h[b].next
              /\ umm_assimilate_down(h, c)[b].prev = IF b = h[c].next THEN h[c].prev ELSE h[b].prev
              /\ umm_assimilate_down(h, c)[b].nfree = h[b].nfree
              /\ umm_assimilate_down(h, c)[b].pfree = h[b].pfree
<1> DEFINE a == h[c].prev
           n == h[c].next
           h1 == SetNext(h, a, n)
           h2 == MarkFree(h1, a)
           h3 == SetPrev(h2, n, a)
<1>1. umm_assimilate_down(h, c) = h3
  BY DEF umm_assimilate_down, MarkFree, SetNext, SetPrev
<1>2. a \in Block /\ n \in Block /\ a \in Values /\ n \in Values
  BY ValuesFacts, BlockFacts
<1> HIDE DEF a, n
<1>3. /\ h1 \in Heaps
      /\ Marked(h1) = Marked(h)
      /\ \A b \in Block :
           /\ h1[b].next = IF b = a THEN n ELSE h[b].next
           /\ h1[b].prev = h[b].prev
           /\ h1[b].nfree = h[b].nfree
           /\ h1[b].pfree = h[b].pfree
  BY <1>2, SetNextFields
<1> HIDE DEF h1
<1>4. /\ h2 \in Heaps
      /\ Marked(h2) = Marked(h1) \cup {a}
      /\ \A b \in Block :
           /\ h2[b].next = h1[b].next
           /\ h2[b].prev = h1[b].prev
           /\ h2[b].nfree = h1[b].nfree
           /\ h2[b].pfree = h1[b].pfree
  BY <1>2, <1>3, MarkFreeFields
<1> HIDE DEF h2
<1>5. h2 \in Heaps
  BY <1>4
<1>6. /\ h3 \in Heaps
      /\ Marked(h3) = Marked(h2)
      /\ \A b \in Block :
           /\ h3[b].next = h2[b].next
           /\ h3[b].prev = IF b = n THEN a ELSE h2[b].prev
           /\ h3[b].nfree = h2[b].nfree
           /\ h3[b].pfree = h2[b].pfree
  BY <1>2, <1>5, SetPrevFields
<1> HIDE DEF h3
<1> QED
  BY <1>1, <1>3, <1>4, <1>6 DEF a, n

LEMMA AddFields ==
  ASSUME NEW h \in Heaps, NEW c \in Block, h[0].nfree \in Block
  PROVE  /\ AddToFreeList(h, c) \in Heaps
         /\ Marked(AddToFreeList(h, c)) = Marked(h) \cup {c}
         /\ \A b \in Block :
              /\ AddToFreeList(h, c)[b].next = h[b].next
              /\ AddToFreeList(h, c)[b].prev = h[b].prev
              /\ AddToFreeList(h, c)[b].nfree =
                   IF b = 0 THEN c ELSE IF b = c THEN h[0].nfree ELSE h[b].nfree
              /\ AddToFreeList(h, c)[b].pfree =
                   IF b = c THEN 0 ELSE IF b = h[0].nfree THEN c ELSE h[b].pfree
<1> DEFINE n == h[0].nfree
           h1 == SetPfree(h, n, c)
           h2 == SetNfree(h1, c, n)
           h3 == SetPfree(h2, c, 0)
           h4 == SetNfree(h3, 0, c)
           h5 == MarkFree(h4, c)
<1>1. AddToFreeList(h, c) = h5
  BY DEF AddToFreeList, MarkFree, SetNfree, SetPfree
<1>2. c \in Values /\ n \in Block /\ n \in Values /\ 0 \in Block /\ 0 \in Values
  BY ValuesFacts, BlockFacts
<1> HIDE DEF n
<1>3. /\ h1 \in Heaps
      /\ Marked(h1) = Marked(h)
      /\ \A b \in Block :
           /\ h1[b].next = h[b].next
           /\ h1[b].prev = h[b].prev
           /\ h1[b].nfree = h[b].nfree
           /\ h1[b].pfree = IF b = n THEN c ELSE h[b].pfree
  BY <1>2, SetPfreeFields
<1> HIDE DEF h1
<1>4. /\ h2 \in Heaps
      /\ Marked(h2) = Marked(h1)
      /\ \A b \in Block :
           /\ h2[b].next = h1[b].next
           /\ h2[b].prev = h1[b].prev
           /\ h2[b].nfree = IF b = c THEN n ELSE h1[b].nfree
           /\ h2[b].pfree = h1[b].pfree
  BY <1>2, <1>3, SetNfreeFields
<1> HIDE DEF h2
<1>5. /\ h3 \in Heaps
      /\ Marked(h3) = Marked(h2)
      /\ \A b \in Block :
           /\ h3[b].next = h2[b].next
           /\ h3[b].prev = h2[b].prev
           /\ h3[b].nfree = h2[b].nfree
           /\ h3[b].pfree = IF b = c THEN 0 ELSE h2[b].pfree
  BY <1>2, <1>4, SetPfreeFields
<1> HIDE DEF h3
<1>6. /\ h4 \in Heaps
      /\ Marked(h4) = Marked(h3)
      /\ \A b \in Block :
           /\ h4[b].next = h3[b].next
           /\ h4[b].prev = h3[b].prev
           /\ h4[b].nfree = IF b = 0 THEN c ELSE h3[b].nfree
           /\ h4[b].pfree = h3[b].pfree
  BY <1>2, <1>5, SetNfreeFields
<1> HIDE DEF h4
<1>7. /\ h5 \in Heaps
      /\ Marked(h5) = Marked(h4) \cup {c}
      /\ \A b \in Block :
           /\ h5[b].next = h4[b].next
           /\ h5[b].prev = h4[b].prev
           /\ h5[b].nfree = h4[b].nfree
           /\ h5[b].pfree = h4[b].pfree
  BY <1>2, <1>6, MarkFreeFields
<1> HIDE DEF h5
<1> QED
  BY <1>1, <1>3, <1>4, <1>5, <1>6, <1>7 DEF n

LEMMA SplitFields ==
  ASSUME NEW h \in Heaps, NEW c \in Block, NEW blocks \in Nat, c + blocks \in Block,
         h[c].next \in Block
  PROVE  /\ umm_split_block(h, c, blocks) \in Heaps
         /\ Marked(umm_split_block(h, c, blocks)) = (Marked(h) \cup {c + blocks}) \ {c}
         /\ \A b \in Block :
              /\ umm_split_block(h, c, blocks)[b].next =
                   IF b = c THEN c + blocks ELSE IF b = c + blocks THEN h[c].next ELSE h[b].next
              /\ umm_split_block(h, c, blocks)[b].prev =
                   IF b = h[c].next THEN c + blocks ELSE IF b = c + blocks THEN c ELSE h[b].prev
              /\ umm_split_block(h, c, blocks)[b].nfree = h[b].nfree
              /\ umm_split_block(h, c, blocks)[b].pfree = h[b].pfree
<1> DEFINE t == c + blocks
           n == h[c].next
           h1 == SetNext(h, t, n)
           h2 == MarkFree(h1, t)
           h3 == SetPrev(h2, t, c)
           h4 == SetPrev(h3, n, t)
           h5 == SetNext(h4, c, t)
           h6 == MarkUsed(h5, c)
<1>1. umm_split_block(h, c, blocks) = h6
  BY DEF umm_split_block, MarkFree, MarkUsed, SetNext, SetPrev
<1>2. c \in Values /\ t \in Block /\ t \in Values /\ n \in Block /\ n \in Values
  BY ValuesFacts, BlockFacts
<1> HIDE DEF t, n
<1>3. /\ h1 \in Heaps
      /\ Marked(h1) = Marked(h)
      /\ \A b \in Block :
           /\ h1[b].next = IF b = t THEN n ELSE h[b].next
           /\ h1[b].prev = h[b].prev
           /\ h1[b].nfree = h[b].nfree
           /\ h1[b].pfree = h[b].pfree
  BY <1>2, SetNextFields
<1> HIDE DEF h1
<1>4. /\ h2 \in Heaps
      /\ Marked(h2) = Marked(h1) \cup {t}
      /\ \A b \in Block :
           /\ h2[b].next = h1[b].next
           /\ h2[b].prev = h1[b].prev
           /\ h2[b].nfree = h1[b].nfree
           /\ h2[b].pfree = h1[b].pfree
  BY <1>2, <1>3, MarkFreeFields
<1> HIDE DEF h2
<1>5. h2 \in Heaps
  BY <1>4
<1>6. /\ h3 \in Heaps
      /\ Marked(h3) = Marked(h2)
      /\ \A b \in Block :
           /\ h3[b].next = h2[b].next
           /\ h3[b].prev = IF b = t THEN c ELSE h2[b].prev
           /\ h3[b].nfree = h2[b].nfree
           /\ h3[b].pfree = h2[b].pfree
  BY <1>2, <1>5, SetPrevFields
<1> HIDE DEF h3
<1>7. /\ h4 \in Heaps
      /\ Marked(h4) = Marked(h3)
      /\ \A b \in Block :
           /\ h4[b].next = h3[b].next
           /\ h4[b].prev = IF b = n THEN t ELSE h3[b].prev
           /\ h4[b].nfree = h3[b].nfree
           /\ h4[b].pfree = h3[b].pfree
  BY <1>2, <1>6, SetPrevFields
<1> HIDE DEF h4
<1>8. /\ h5 \in Heaps
      /\ Marked(h5) = Marked(h4)
      /\ \A b \in Block :
           /\ h5[b].next = IF b = c THEN t ELSE h4[b].next
           /\ h5[b].prev = h4[b].prev
           /\ h5[b].nfree = h4[b].nfree
           /\ h5[b].pfree = h4[b].pfree
  BY <1>2, <1>7, SetNextFields
<1> HIDE DEF h5
<1>9. /\ h6 \in Heaps
      /\ Marked(h6) = Marked(h5) \ {c}
      /\ \A b \in Block :
           /\ h6[b].next = h5[b].next
           /\ h6[b].prev = h5[b].prev
           /\ h6[b].nfree = h5[b].nfree
           /\ h6[b].pfree = h5[b].pfree
  BY <1>2, <1>8, MarkUsedFields
<1> HIDE DEF h6
<1> QED
  BY <1>1, <1>3, <1>4, <1>6, <1>7, <1>8, <1>9 DEF t, n

\* Run t takes the place of run c in the free list.
Replaced(s, c, t) ==
  [s EXCEPT ![s[c].pfree].nfree = t, ![t].pfree = s[c].pfree,
            ![s[c].nfree].pfree = t, ![t].nfree = s[c].nfree]

LEMMA ReplacedFields ==
  ASSUME NEW h \in Heaps, NEW c \in Block, NEW t \in Block, h[c].pfree \in Block, h[c].nfree \in Block
  PROVE  /\ Replaced(h, c, t) \in Heaps
         /\ Marked(Replaced(h, c, t)) = Marked(h)
         /\ \A b \in Block :
              /\ Replaced(h, c, t)[b].next = h[b].next
              /\ Replaced(h, c, t)[b].prev = h[b].prev
              /\ Replaced(h, c, t)[b].nfree =
                   IF b = t THEN h[c].nfree ELSE IF b = h[c].pfree THEN t ELSE h[b].nfree
              /\ Replaced(h, c, t)[b].pfree =
                   IF b = h[c].nfree THEN t ELSE IF b = t THEN h[c].pfree ELSE h[b].pfree
<1> DEFINE p == h[c].pfree
           n == h[c].nfree
           h1 == SetNfree(h, p, t)
           h2 == SetPfree(h1, t, p)
           h3 == SetPfree(h2, n, t)
           h4 == SetNfree(h3, t, n)
<1>1. Replaced(h, c, t) = h4
  BY DEF Replaced, SetNfree, SetPfree
<1>2. t \in Values /\ p \in Block /\ n \in Block /\ p \in Values /\ n \in Values
  BY ValuesFacts, BlockFacts
<1> HIDE DEF p, n
<1>3. /\ h1 \in Heaps
      /\ Marked(h1) = Marked(h)
      /\ \A b \in Block :
           /\ h1[b].next = h[b].next
           /\ h1[b].prev = h[b].prev
           /\ h1[b].nfree = IF b = p THEN t ELSE h[b].nfree
           /\ h1[b].pfree = h[b].pfree
  BY <1>2, SetNfreeFields
<1> HIDE DEF h1
<1>4. /\ h2 \in Heaps
      /\ Marked(h2) = Marked(h1)
      /\ \A b \in Block :
           /\ h2[b].next = h1[b].next
           /\ h2[b].prev = h1[b].prev
           /\ h2[b].nfree = h1[b].nfree
           /\ h2[b].pfree = IF b = t THEN p ELSE h1[b].pfree
  BY <1>2, <1>3, SetPfreeFields
<1> HIDE DEF h2
<1>5. /\ h3 \in Heaps
      /\ Marked(h3) = Marked(h2)
      /\ \A b \in Block :
           /\ h3[b].next = h2[b].next
           /\ h3[b].prev = h2[b].prev
           /\ h3[b].nfree = h2[b].nfree
           /\ h3[b].pfree = IF b = n THEN t ELSE h2[b].pfree
  BY <1>2, <1>4, SetPfreeFields
<1> HIDE DEF h3
<1>6. /\ h4 \in Heaps
      /\ Marked(h4) = Marked(h3)
      /\ \A b \in Block :
           /\ h4[b].next = h3[b].next
           /\ h4[b].prev = h3[b].prev
           /\ h4[b].nfree = IF b = t THEN n ELSE h3[b].nfree
           /\ h4[b].pfree = h3[b].pfree
  BY <1>2, <1>5, SetNfreeFields
<1> HIDE DEF h4
<1> QED
  BY <1>1, <1>3, <1>4, <1>5, <1>6 DEF p, n

\* What RingFacts says, of the free list of a heap.
LEMMA FreeRingFacts ==
  ASSUME NEW h, NEW f, FreeRing(h, f)
  PROVE  /\ f \in Seq(Block) /\ Len(f) \in Nat /\ IsInjective(f) /\ 0 \notin Range(f)
         /\ \A k \in 0 .. (Len(f) + 1) : Ring(f, k) \in Block
         /\ \A k \in 1 .. Len(f) : Ring(f, k) = f[k] /\ f[k] # 0 /\ f[k] \in Range(f)
         /\ Ring(f, 0) = 0 /\ Ring(f, Len(f) + 1) = 0
         /\ \A j, k \in 0 .. Len(f) : Ring(f, j) = Ring(f, k) => j = k
         /\ \A j, k \in 1 .. (Len(f) + 1) : Ring(f, j) = Ring(f, k) => j = k
         /\ \A k \in 0 .. Len(f) : h[Ring(f, k)].nfree = Ring(f, k + 1)
         /\ \A k \in 1 .. (Len(f) + 1) : h[Ring(f, k)].pfree = Ring(f, k - 1)
         /\ \A b \in Range(f) : \E k \in 1 .. Len(f) : b = f[k] /\ b = Ring(f, k)
<1>1. f \in Seq(Block) /\ IsInjective(f) /\ 0 \notin Range(f)
  BY DEF FreeRing
<1>2. /\ \A k \in 0 .. Len(f) : h[Ring(f, k)].nfree = Ring(f, k + 1)
      /\ \A k \in 0 .. Len(f) : h[Ring(f, k + 1)].pfree = Ring(f, k)
  BY DEF FreeRing
<1>3. ASSUME NEW k \in 1 .. (Len(f) + 1) PROVE h[Ring(f, k)].pfree = Ring(f, k - 1)
  <2>1. k - 1 \in 0 .. Len(f) /\ (k - 1) + 1 = k
    BY <1>1
  <2>2. h[Ring(f, (k - 1) + 1)].pfree = Ring(f, k - 1)
    BY <1>2, <2>1
  <2> QED
    BY <2>1, <2>2
<1> QED
  BY <1>1, <1>2, <1>3, RingFacts

\* A run and its neighbours in the free list.
LEMMA RingAt ==
  ASSUME NEW h, NEW f, FreeRing(h, f), NEW i \in 1 .. Len(f)
  PROVE  /\ f[i] = Ring(f, i) /\ f[i] \in Block /\ f[i] # 0
         /\ h[f[i]].pfree = Ring(f, i - 1) /\ h[f[i]].pfree \in Block
         /\ h[f[i]].pfree \in Range(f) \cup {0}
         /\ h[f[i]].nfree = Ring(f, i + 1) /\ h[f[i]].nfree \in Block
         /\ h[f[i]].nfree \in Range(f) \cup {0}
<1>1. Len(f) \in Nat /\ i \in 0 .. (Len(f) + 1) /\ i - 1 \in 0 .. (Len(f) + 1)
      /\ i + 1 \in 0 .. (Len(f) + 1) /\ i \in 1 .. (Len(f) + 1) /\ i \in 0 .. Len(f)
  BY FreeRingFacts
<1>2. \A k \in 0 .. (Len(f) + 1) : Ring(f, k) \in Range(f) \cup {0}
  BY FreeRingFacts DEF Ring
<1> QED
  BY <1>1, <1>2, FreeRingFacts

\* The i-th run of the free list is taken off it.
LEMMA RingWithout ==
  ASSUME NEW h, NEW g, NEW f, FreeRing(h, f), NEW i \in 1 .. Len(f),
         \A b \in Block :
           /\ g[b].nfree = IF b = h[f[i]].pfree THEN h[f[i]].nfree ELSE h[b].nfree
           /\ g[b].pfree = IF b = h[f[i]].nfree THEN h[f[i]].pfree ELSE h[b].pfree
  PROVE  FreeRing(g, RemoveAt(f, i)) /\ Range(RemoveAt(f, i)) = Range(f) \ {f[i]}
<1> DEFINE r == RemoveAt(f, i)
           L == Len(f)
<1>1. /\ f \in Seq(Block) /\ L \in Nat /\ IsInjective(f) /\ 0 \notin Range(f)
      /\ \A k \in 0 .. (L + 1) : Ring(f, k) \in Block
      /\ Ring(f, 0) = 0 /\ Ring(f, L + 1) = 0
      /\ \A j, k \in 0 .. L : Ring(f, j) = Ring(f, k) => j = k
      /\ \A j, k \in 1 .. (L + 1) : Ring(f, j) = Ring(f, k) => j = k
      /\ \A k \in 0 .. L : h[Ring(f, k)].nfree = Ring(f, k + 1)
      /\ \A k \in 1 .. (L + 1) : h[Ring(f, k)].pfree = Ring(f, k - 1)
  BY FreeRingFacts
<1>2. /\ r \in Seq(Block) /\ Len(r) = L - 1
      /\ \A j \in 1 .. (L - 1) : r[j] = IF j < i THEN f[j] ELSE f[j + 1]
  BY <1>1, RemoveAtFacts
<1>3. i \in 1 .. L /\ h[f[i]].nfree = Ring(f, i + 1) /\ h[f[i]].pfree = Ring(f, i - 1)
  BY RingAt
<1>4. IsInjective(r)
  BY <1>1, RemoveAtInjective
<1>5. Range(r) = Range(f) \ {f[i]}
  <2>1. DOMAIN r = 1 .. (L - 1) /\ DOMAIN f = 1 .. L
    BY <1>1, <1>2
  <2>2. ASSUME NEW b \in Range(r) PROVE b \in Range(f) \ {f[i]}
    <3>1. PICK j \in 1 .. (L - 1) : b = r[j]
      BY <2>1 DEF Range
    <3>2. (b = f[j] /\ j < i) \/ (b = f[j + 1] /\ j + 1 > i)
      BY <1>2, <3>1
    <3>3. PICK k \in 1 .. L : b = f[k] /\ k # i
      BY <3>1, <3>2
    <3> QED
      BY <1>1, <2>1, <3>3 DEF Range, IsInjective
  <2>3. ASSUME NEW b \in Range(f) \ {f[i]} PROVE b \in Range(r)
    <3>1. PICK k \in 1 .. L : b = f[k] /\ k # i
      BY <2>1 DEF Range
    <3>2. CASE k < i
      BY <1>2, <2>1, <3>1, <3>2 DEF Range
    <3>3. CASE k > i
      <4>1. k - 1 \in 1 .. (L - 1) /\ ~(k - 1 < i) /\ (k - 1) + 1 = k
        BY <3>1, <3>3
      <4>2. r[k - 1] = f[(k - 1) + 1]
        BY <1>2, <4>1
      <4>3. r[k - 1] = b
        BY <3>1, <4>1, <4>2
      <4> QED
        BY <2>1, <4>1, <4>3 DEF Range
    <3> QED
      BY <3>1, <3>2, <3>3
  <2> QED
    BY <2>2, <2>3
<1> HIDE DEF r, L
<1>6. \A k \in 0 .. L : Ring(r, k) = IF k < i THEN Ring(f, k) ELSE Ring(f, k + 1)
  BY <1>1, <1>2, <1>3 DEF Ring, L
<1> DEFINE p == h[f[i]].pfree
           n == h[f[i]].nfree
<1>7. \A b \in Block : /\ g[b].nfree = IF b = p THEN n ELSE h[b].nfree
                       /\ g[b].pfree = IF b = n THEN p ELSE h[b].pfree
  OBVIOUS
<1>8. n = Ring(f, i + 1) /\ p = Ring(f, i - 1)
  BY <1>3
<1> HIDE DEF p, n
<1>9. ASSUME NEW k \in 0 .. (L - 1)
      PROVE  g[Ring(r, k)].nfree = Ring(r, k + 1) /\ g[Ring(r, k + 1)].pfree = Ring(r, k)
  <2>1. CASE k < i - 1
    <3>1. Ring(r, k) = Ring(f, k) /\ Ring(r, k + 1) = Ring(f, k + 1)
      <4>1. k \in 0 .. L /\ k + 1 \in 0 .. L /\ k < i /\ k + 1 < i
        BY <1>1, <1>3, <2>1
      <4> QED
        BY <1>6, <4>1
    <3>2. k \in 0 .. L /\ i - 1 \in 0 .. L /\ k # i - 1 /\ k + 1 \in 1 .. (L + 1)
          /\ i + 1 \in 1 .. (L + 1) /\ k + 1 # i + 1 /\ k \in 0 .. (L + 1) /\ k + 1 \in 0 .. (L + 1)
      BY <1>1, <1>3, <2>1
    <3>3. Ring(f, k) # p /\ Ring(f, k + 1) # n
      BY <1>1, <1>8, <3>2
    <3>4. h[Ring(f, k)].nfree = Ring(f, k + 1) /\ h[Ring(f, k + 1)].pfree = Ring(f, (k + 1) - 1)
      BY <1>1, <3>2
    <3>5. (k + 1) - 1 = k
      OBVIOUS
    <3>6. Ring(f, k) \in Block /\ Ring(f, k + 1) \in Block
      BY <1>1, <3>2
    <3>7. /\ g[Ring(f, k)].nfree = h[Ring(f, k)].nfree
          /\ g[Ring(f, k + 1)].pfree = h[Ring(f, k + 1)].pfree
      BY <1>7, <3>3, <3>6
    <3> QED
      BY <3>1, <3>4, <3>5, <3>7
  <2>2. CASE k = i - 1
    <3>1. Ring(r, k) = p /\ Ring(r, k + 1) = n
      BY <1>1, <1>3, <1>6, <1>8, <2>2
    <3>2. p \in Block /\ n \in Block
      <4>1. i - 1 \in 0 .. (L + 1) /\ i + 1 \in 0 .. (L + 1)
        BY <1>1, <1>3
      <4> QED
        BY <1>1, <1>8, <4>1
    <3> QED
      BY <1>7, <3>1, <3>2
  <2>3. CASE k >= i
    <3>1. Ring(r, k) = Ring(f, k + 1) /\ Ring(r, k + 1) = Ring(f, k + 2)
      <4>1. k \in 0 .. L /\ k + 1 \in 0 .. L /\ ~(k < i) /\ ~(k + 1 < i) /\ (k + 1) + 1 = k + 2
        BY <1>1, <1>3, <2>3
      <4> QED
        BY <1>6, <4>1
    <3>2. k + 1 \in 0 .. L /\ i - 1 \in 0 .. L /\ k + 1 # i - 1 /\ k + 2 \in 1 .. (L + 1)
          /\ i + 1 \in 1 .. (L + 1) /\ k + 2 # i + 1 /\ k + 1 \in 0 .. (L + 1)
             /\ k + 2 \in 0 .. (L + 1)
      BY <1>1, <1>3, <2>3
    <3>3. Ring(f, k + 1) # p /\ Ring(f, k + 2) # n
      BY <1>1, <1>8, <3>2
    <3>4. h[Ring(f, k + 1)].nfree = Ring(f, (k + 1) + 1)
          /\ h[Ring(f, k + 2)].pfree = Ring(f, (k + 2) - 1)
      BY <1>1, <3>2
    <3>5. (k + 1) + 1 = k + 2 /\ (k + 2) - 1 = k + 1
      OBVIOUS
    <3>6. Ring(f, k + 1) \in Block /\ Ring(f, k + 2) \in Block
      BY <1>1, <3>2
    <3>7. /\ g[Ring(f, k + 1)].nfree = h[Ring(f, k + 1)].nfree
          /\ g[Ring(f, k + 2)].pfree = h[Ring(f, k + 2)].pfree
      BY <1>7, <3>3, <3>6
    <3> QED
      BY <3>1, <3>4, <3>5, <3>7
  <2> QED
    BY <1>3, <2>1, <2>2, <2>3
<1>10. 0 \notin Range(r)
  BY <1>1, <1>5
<1>11. FreeRing(g, r)
  BY <1>2, <1>4, <1>9, <1>10 DEF FreeRing
<1> QED
  BY <1>5, <1>11 DEF r

Unlinked(h, g, f, i) ==
  /\ FreeRing(h, f) /\ i \in 1 .. Len(f)
  /\ \A b \in Block :
       /\ g[b].nfree = IF b = h[f[i]].pfree THEN h[f[i]].nfree ELSE h[b].nfree
       /\ g[b].pfree = IF b = h[f[i]].nfree THEN h[f[i]].pfree ELSE h[b].pfree
Without(f, i) == RemoveAt(f, i)

LEMMA RingUnlinked ==
  ASSUME NEW h, NEW g, NEW f, NEW i, Unlinked(h, g, f, i)
  PROVE  FreeRing(g, Without(f, i)) /\ Range(Without(f, i)) = Range(f) \ {f[i]}
<1>1. /\ FreeRing(h, f) /\ i \in 1 .. Len(f)
      /\ \A b \in Block :
           /\ g[b].nfree = IF b = h[f[i]].pfree THEN h[f[i]].nfree ELSE h[b].nfree
           /\ g[b].pfree = IF b = h[f[i]].nfree THEN h[f[i]].pfree ELSE h[b].pfree
  BY DEF Unlinked
<1> QED
  BY <1>1, RingWithout DEF Without

\* A run t that is not in the free list takes the place of one that is.
PutInstead(h, g, f, i, t) ==
  /\ FreeRing(h, f) /\ i \in 1 .. Len(f) /\ t \in Block /\ t # 0 /\ t \notin Range(f)
  /\ \A b \in Block :
       /\ g[b].nfree = IF b = t THEN h[f[i]].nfree ELSE IF b = h[f[i]].pfree THEN t ELSE h[b].nfree
       /\ g[b].pfree = IF b = h[f[i]].nfree THEN t ELSE IF b = t THEN h[f[i]].pfree ELSE h[b].pfree
Instead(f, i, t) == [f EXCEPT ![i] = t]

LEMMA RingInstead ==
  ASSUME NEW h, NEW g, NEW f, NEW i, NEW t, PutInstead(h, g, f, i, t)
  PROVE  FreeRing(g, Instead(f, i, t)) /\ Range(Instead(f, i, t)) = (Range(f) \ {f[i]}) \cup {t}
<1>0. FreeRing(h, f) /\ i \in 1 .. Len(f) /\ t \in Block /\ t # 0 /\ t \notin Range(f)
  BY DEF PutInstead
<1> DEFINE r == Instead(f, i, t)
           L == Len(f)
<1>1. /\ f \in Seq(Block) /\ L \in Nat /\ IsInjective(f) /\ 0 \notin Range(f)
      /\ \A k \in 0 .. (L + 1) : Ring(f, k) \in Block
      /\ Ring(f, 0) = 0 /\ Ring(f, L + 1) = 0
      /\ \A j, k \in 0 .. L : Ring(f, j) = Ring(f, k) => j = k
      /\ \A j, k \in 1 .. (L + 1) : Ring(f, j) = Ring(f, k) => j = k
      /\ \A k \in 0 .. L : h[Ring(f, k)].nfree = Ring(f, k + 1)
      /\ \A k \in 1 .. (L + 1) : h[Ring(f, k)].pfree = Ring(f, k - 1)
  BY <1>0, FreeRingFacts
<1>2. DOMAIN f = 1 .. L /\ \A k \in 1 .. L : f[k] # t
  BY <1>0, <1>1 DEF Range
<1>3. r \in Seq(Block) /\ Len(r) = L /\ DOMAIN r = 1 .. L
      /\ \A k \in 1 .. L : r[k] = IF k = i THEN t ELSE f[k]
  BY <1>0, <1>1 DEF Instead
<1> DEFINE p == h[f[i]].pfree
           n == h[f[i]].nfree
<1>4. n = Ring(f, i + 1) /\ p = Ring(f, i - 1) /\ n \in Block /\ p \in Block /\ n # t /\ p # t
  BY <1>0, <1>1, RingAt
<1>5. \A b \in Block : /\ g[b].nfree = IF b = t THEN n ELSE IF b = p THEN t ELSE h[b].nfree
                       /\ g[b].pfree = IF b = n THEN t ELSE IF b = t THEN p ELSE h[b].pfree
  BY DEF PutInstead
<1>6. IsInjective(r)
  BY <1>0, <1>1, <1>2, ExceptNewInjective DEF Instead
<1>7. Range(r) = (Range(f) \ {f[i]}) \cup {t}
  <2> HIDE DEF r
  <2>1. \A k \in 1 .. L : f[k] = f[i] => k = i
    BY <1>0, <1>1, <1>2 DEF IsInjective
  <2> QED
    BY <1>0, <1>2, <1>3, <2>1 DEF Range
<1> HIDE DEF r, L, p, n
<1>8. \A k \in 0 .. (L + 1) : Ring(r, k) = IF k = i THEN t ELSE Ring(f, k)
  BY <1>0, <1>1, <1>3 DEF Ring, L
<1>9. i \in 1 .. L /\ \A k \in 0 .. (L + 1) : Ring(f, k) # t
  BY <1>0, <1>2 DEF Ring, L
<1>10. ASSUME NEW k \in 0 .. L
       PROVE  g[Ring(r, k)].nfree = Ring(r, k + 1) /\ g[Ring(r, k + 1)].pfree = Ring(r, k)
  <2>1. k \in 0 .. (L + 1) /\ k + 1 \in 0 .. (L + 1) /\ k + 1 \in 1 .. (L + 1) /\ (k + 1) - 1 = k
        /\ i - 1 \in 0 .. L /\ i + 1 \in 1 .. (L + 1)
    <3>1. L \in Nat /\ i \in 1 .. L /\ k \in 0 .. L
      BY <1>1, <1>9
    <3> QED
      BY ONLY <3>1
  <2>2. /\ h[Ring(f, k)].nfree = Ring(f, k + 1) /\ h[Ring(f, k + 1)].pfree = Ring(f, k)
        /\ Ring(f, k) \in Block /\ Ring(f, k + 1) \in Block
        /\ Ring(f, k) # t /\ Ring(f, k + 1) # t
    <3>1. h[Ring(f, k + 1)].pfree = Ring(f, (k + 1) - 1)
      BY <1>1, <2>1
    <3> QED
      BY <1>1, <1>9, <2>1, <3>1
  <2>3. Ring(f, k) = p <=> k = i - 1
    BY <1>1, <1>4, <2>1
  <2>4. Ring(f, k + 1) = n <=> k = i
    <3>1. k + 1 = i + 1 <=> k = i
      BY <1>1, <1>9
    <3> QED
      BY <1>1, <1>4, <2>1, <3>1
  <2>5. CASE k = i
    <3>1. Ring(r, k) = t /\ Ring(r, k + 1) = n
      <4>1. k + 1 # i
        BY <2>5
      <4> QED
        BY <1>8, <2>1, <2>4, <2>5, <4>1
    <3> QED
      BY <1>0, <1>4, <1>5, <3>1
  <2>6. CASE k = i - 1
    <3>1. Ring(r, k) = p /\ Ring(r, k + 1) = t
      <4>1. k # i /\ k + 1 = i
        BY <1>9, <2>6
      <4> QED
        BY <1>8, <2>1, <2>3, <2>6, <4>1
    <3> QED
      BY <1>0, <1>4, <1>5, <3>1
  <2>7. CASE k # i /\ k # i - 1
    <3>1. k + 1 # i
      BY <1>9, <2>7
    <3>2. Ring(r, k) = Ring(f, k) /\ Ring(r, k + 1) = Ring(f, k + 1)
      BY <1>8, <2>1, <2>7, <3>1
    <3> QED
      BY <1>5, <2>2, <2>3, <2>4, <2>7, <3>2
  <2> QED
    BY <2>5, <2>6, <2>7
<1>11. 0 \notin Range(r)
  BY <1>0, <1>1, <1>7
<1>12. FreeRing(g, r)
  BY <1>3, <1>6, <1>10, <1>11 DEF FreeRing
<1> QED
  BY <1>7, <1>12 DEF r

\* A run that is not in the free list becomes its first.
LEMMA RingMore ==
  ASSUME NEW h, NEW g, NEW f, FreeRing(h, f), NEW c \in Block, c # 0, c \notin Range(f),
         \A b \in Block :
           /\ g[b].nfree = IF b = 0 THEN c ELSE IF b = c THEN h[0].nfree ELSE h[b].nfree
           /\ g[b].pfree = IF b = c THEN 0 ELSE IF b = h[0].nfree THEN c ELSE h[b].pfree
  PROVE  \E r : FreeRing(g, r) /\ Range(r) = Range(f) \cup {c}
<1> DEFINE L == Len(f)
           n == h[0].nfree
           r == [k \in 1 .. (L + 1) |-> IF k = 1 THEN c ELSE f[k - 1]]
<1>1. /\ f \in Seq(Block) /\ L \in Nat /\ IsInjective(f) /\ 0 \notin Range(f)
      /\ \A k \in 0 .. (L + 1) : Ring(f, k) \in Block
      /\ Ring(f, 0) = 0 /\ Ring(f, L + 1) = 0
      /\ \A j, k \in 0 .. L : Ring(f, j) = Ring(f, k) => j = k
      /\ \A j, k \in 1 .. (L + 1) : Ring(f, j) = Ring(f, k) => j = k
      /\ \A k \in 0 .. L : h[Ring(f, k)].nfree = Ring(f, k + 1)
      /\ \A k \in 1 .. (L + 1) : h[Ring(f, k)].pfree = Ring(f, k - 1)
  BY FreeRingFacts
<1>2. DOMAIN f = 1 .. L /\ (\A k \in 1 .. L : f[k] # c /\ f[k] \in Block)
      /\ \A j, k \in 1 .. L : f[j] = f[k] => j = k
  BY <1>1 DEF Range, IsInjective
<1>3. r \in Seq(Block) /\ Len(r) = L + 1 /\ DOMAIN r = 1 .. (L + 1)
      /\ \A k \in 1 .. (L + 1) : r[k] = IF k = 1 THEN c ELSE f[k - 1]
  <2>1. r \in [1 .. (L + 1) -> Block] /\ L + 1 \in Nat
    <3>1. \A k \in 1 .. (L + 1) : k # 1 => k - 1 \in 1 .. L
      BY <1>1
    <3> QED
      BY <1>1, <1>2, <3>1
  <2> HIDE DEF r, L
  <2>2. r \in Seq(Block) /\ Len(r) = L + 1
    BY <2>1, FunctionIsSeq
  <2> QED
    BY <2>1, <2>2 DEF r
<1> HIDE DEF r, L
<1>4. IsInjective(r)
  <2>1. ASSUME NEW j \in 1 .. (L + 1), NEW k \in 1 .. (L + 1), r[j] = r[k] PROVE j = k
    <3>1. j # 1 => j - 1 \in 1 .. L
      BY <1>1
    <3>2. k # 1 => k - 1 \in 1 .. L
      BY <1>1
    <3>3. j # 1 /\ k # 1 => j - 1 = k - 1
      BY <1>2, <1>3, <2>1, <3>1, <3>2
    <3> QED
      BY <1>2, <1>3, <2>1, <3>1, <3>2, <3>3
  <2> QED
    BY <1>3, <2>1 DEF IsInjective
<1>5. Range(r) = Range(f) \cup {c}
  <2>1. \A k \in 1 .. (L + 1) : r[k] \in Range(f) \cup {c}
    <3>1. \A k \in 1 .. (L + 1) : k # 1 => k - 1 \in 1 .. L
      BY <1>1
    <3> QED
      BY <1>2, <1>3, <3>1 DEF Range
  <2>2. ASSUME NEW k \in 1 .. L PROVE f[k] \in Range(r)
    <3>1. k + 1 \in 1 .. (L + 1) /\ k + 1 # 1 /\ (k + 1) - 1 = k
      BY <1>1
    <3>2. r[k + 1] = f[(k + 1) - 1]
      BY <1>3, <3>1
    <3>3. r[k + 1] = f[k]
      BY <3>1, <3>2
    <3> QED
      BY <1>3, <3>1, <3>3 DEF Range
  <2>3. c \in Range(r)
    <3>1. 1 \in 1 .. (L + 1)
      BY <1>1
    <3> QED
      BY <1>3, <3>1 DEF Range
  <2> QED
    BY <1>2, <1>3, <2>1, <2>2, <2>3 DEF Range
<1>6. Ring(r, 0) = 0 /\ Ring(r, 1) = c /\ \A k \in 1 .. (L + 1) : Ring(r, k + 1) = Ring(f, k)
  <2>1. Ring(r, 0) = 0 /\ Ring(r, 1) = c
    BY <1>1, <1>3 DEF Ring
  <2>2. ASSUME NEW k \in 1 .. (L + 1) PROVE Ring(r, k + 1) = Ring(f, k)
    <3>1. k + 1 # 1 /\ (k + 1) - 1 = k /\ (k + 1 \in 1 .. (L + 1) <=> k \in 1 .. L)
      BY <1>1
    <3>2. k \in 1 .. L => r[k + 1] = f[(k + 1) - 1]
      BY <1>3, <3>1
    <3> QED
      BY <1>3, <3>1, <3>2 DEF Ring, L
  <2> QED
    BY <2>1, <2>2
<1>7. /\ n = Ring(f, 1) /\ n # c /\ 0 # c
      /\ \A k \in 0 .. (L + 1) : Ring(f, k) # c
  <2>1. h[Ring(f, 0)].nfree = Ring(f, 0 + 1)
    BY <1>1
  <2>2. \A k \in 0 .. (L + 1) : Ring(f, k) # c
    BY <1>2 DEF Ring, L
  <2>3. 1 \in 0 .. (L + 1)
    BY <1>1
  <2> QED
    BY <1>1, <2>1, <2>2, <2>3
<1>8. \A b \in Block : /\ g[b].nfree = IF b = 0 THEN c ELSE IF b = c THEN n ELSE h[b].nfree
                       /\ g[b].pfree = IF b = c THEN 0 ELSE IF b = n THEN c ELSE h[b].pfree
  OBVIOUS
<1> HIDE DEF n
<1>9. ASSUME NEW k \in 0 .. (L + 1)
      PROVE  g[Ring(r, k)].nfree = Ring(r, k + 1) /\ g[Ring(r, k + 1)].pfree = Ring(r, k)
  <2>1. CASE k = 0
    BY <1>6, <1>7, <1>8, <2>1, BlockFacts
  <2>2. CASE k = 1
    <3>1. Ring(r, 1 + 1) = Ring(f, 1) /\ 1 \in 0 .. (L + 1)
      BY <1>1, <1>6
    <3> QED
      BY <1>1, <1>6, <1>7, <1>8, <2>2, <3>1
  <2>3. CASE k > 1
    <3>1. k - 1 \in 1 .. L /\ k \in 1 .. (L + 1) /\ (k - 1) + 1 = k /\ k - 1 \in 1 .. (L + 1)
          /\ k - 1 \in 0 .. (L + 1) /\ k - 1 \in 0 .. L /\ 0 \in 0 .. L /\ k - 1 # 0
             /\ 1 \in 1 .. (L + 1) /\ k # 1
      BY <1>1, <2>3
    <3>2. Ring(r, (k - 1) + 1) = Ring(f, k - 1) /\ Ring(r, k + 1) = Ring(f, k)
      BY <1>6, <3>1
    <3>3. Ring(f, k - 1) # 0
      BY <1>1, <3>1
    <3>4. Ring(f, k) # n
      BY <1>1, <1>7, <3>1
    <3>5. h[Ring(f, k - 1)].nfree = Ring(f, (k - 1) + 1) /\ h[Ring(f, k)].pfree = Ring(f, k - 1)
      BY <1>1, <3>1
    <3> QED
      BY <1>1, <1>7, <1>8, <3>1, <3>2, <3>3, <3>4, <3>5
  <2> QED
    BY <2>1, <2>2, <2>3
<1>10. 0 \notin Range(r)
  BY <1>1, <1>5
<1>11. FreeRing(g, r)
  BY <1>3, <1>4, <1>9, <1>10 DEF FreeRing
<1> QED
  BY <1>5, <1>11

\* The run behind c becomes part of it.
LEMMA ChainMerged ==
  ASSUME NEW h, NEW g, NEW R, Chain(h, R), NEW c \in R \ {0}, NEW n \in R \ {BlockLast},
         h[c].next = n,
         c # BlockLast,
         \A b \in Block :
           /\ g[b].next = IF b = c THEN h[n].next ELSE h[b].next
           /\ g[b].prev = IF b = h[n].next THEN c ELSE h[b].prev
  PROVE  Chain(g, R \ {n})
<1> DEFINE m == h[n].next
<1>1. /\ R \subseteq Block /\ 0 \in R /\ 1 \in R /\ BlockLast \in R
      /\ h[0].prev = 0
      /\ \A b \in R \ {BlockLast} : h[b].next \in R /\ h[b].next > b /\ h[h[b].next].prev = b
      /\ \A b \in R \ {BlockLast} : \A r \in R : r <= b \/ r >= h[b].next
      /\ \A b \in R \ {0} : h[b].prev \in R /\ h[b].prev < b /\ h[h[b].prev].next = b
  BY DEF Chain
<1>2. \A b \in R : b \in Nat /\ b \in Block
  BY <1>1, BlockFacts
<1>3. c < n /\ n < m /\ m \in R /\ h[n].prev = c /\ h[m].prev = n /\ m # 0 /\ n # 0 /\ n # 1
  <2>1. c < n /\ n < m /\ m \in R /\ h[n].prev = c /\ h[m].prev = n
    BY <1>1, <1>2
  <2> QED
    BY <1>2, <2>1
<1>4. \A b \in R : /\ g[b].next = IF b = c THEN m ELSE h[b].next
                   /\ g[b].prev = IF b = m THEN c ELSE h[b].prev
  BY <1>2
<1> HIDE DEF m
<1>5. ASSUME NEW b \in (R \ {n}) \ {BlockLast}
      PROVE  /\ g[b].next \in R \ {n} /\ g[b].next > b /\ g[g[b].next].prev = b
             /\ \A r \in R \ {n} : r <= b \/ r >= g[b].next
  <2>1. CASE b = c
    <3>1. g[b].next = m /\ g[m].prev = b
      BY <1>3, <1>4, <2>1
    <3>2. \A r \in R \ {n} : r <= b \/ r >= m
      <4>1. \A r \in R : (r <= c \/ r >= n) /\ (r <= n \/ r >= m)
        BY <1>1, <1>3
      <4> QED
        BY <1>2, <1>3, <2>1, <4>1
    <3> QED
      BY <1>2, <1>3, <2>1, <3>1, <3>2
  <2>2. CASE b # c
    <3>1. g[b].next = h[b].next /\ h[b].next \in R /\ h[b].next > b /\ h[h[b].next].prev = b
      BY <1>1, <1>4, <2>2
    <3>2. h[b].next # n /\ h[b].next # m
      BY <1>3, <2>2, <3>1
    <3> QED
      BY <1>1, <1>4, <3>1, <3>2
  <2> QED
    BY <2>1, <2>2
<1>6. ASSUME NEW b \in (R \ {n}) \ {0}
      PROVE  g[b].prev \in R \ {n} /\ g[b].prev < b /\ g[g[b].prev].next = b
  <2>1. CASE b = m
    BY <1>2, <1>3, <1>4, <2>1
  <2>2. CASE b # m
    <3>1. g[b].prev = h[b].prev /\ h[b].prev \in R /\ h[b].prev < b /\ h[h[b].prev].next = b
      BY <1>1, <1>4, <2>2
    <3>2. h[b].prev # n /\ h[b].prev # c
      BY <1>3, <2>2, <3>1 DEF m
    <3> QED
      BY <1>4, <3>1, <3>2
  <2> QED
    BY <2>1, <2>2
<1>7. g[0].prev = 0
  BY <1>1, <1>3, <1>4
<1> QED
  BY <1>1, <1>3, <1>5, <1>6, <1>7 DEF Chain

\* Run c is cut in two at t.
LEMMA ChainSplit ==
  ASSUME NEW h, NEW g, NEW R, Chain(h, R), NEW c \in R \ {0, BlockLast}, NEW t \in Block,
         c < t, t < h[c].next,
         \A b \in Block :
           /\ g[b].next = IF b = c THEN t ELSE IF b = t THEN h[c].next ELSE h[b].next
           /\ g[b].prev = IF b = h[c].next THEN t ELSE IF b = t THEN c ELSE h[b].prev
  PROVE  Chain(g, R \cup {t}) /\ t \notin R
<1> DEFINE m == h[c].next
<1>1. /\ R \subseteq Block /\ 0 \in R /\ 1 \in R /\ BlockLast \in R
      /\ h[0].prev = 0
      /\ \A b \in R \ {BlockLast} : h[b].next \in R /\ h[b].next > b /\ h[h[b].next].prev = b
      /\ \A b \in R \ {BlockLast} : \A r \in R : r <= b \/ r >= h[b].next
      /\ \A b \in R \ {0} : h[b].prev \in R /\ h[b].prev < b /\ h[h[b].prev].next = b
  BY DEF Chain
<1>2. \A b \in R \cup {t} : b \in Nat /\ b \in Block
  BY <1>1, BlockFacts
<1>3. c < t /\ t < m /\ m \in R /\ h[m].prev = c /\ (\A r \in R : r <= c \/ r >= m)
  BY <1>1
<1>4. \A b \in R \cup {t} : /\ g[b].next = IF b = c THEN t ELSE IF b = t THEN m ELSE h[b].next
                            /\ g[b].prev = IF b = m THEN t ELSE IF b = t THEN c ELSE h[b].prev
  BY <1>2
<1> HIDE DEF m
<1>5. t \notin R /\ m # c /\ m # t /\ c # t /\ m # 0 /\ t # 0
  BY <1>2, <1>3
<1>6. ASSUME NEW b \in (R \cup {t}) \ {BlockLast}
      PROVE  /\ g[b].next \in R \cup {t} /\ g[b].next > b /\ g[g[b].next].prev = b
             /\ \A r \in R \cup {t} : r <= b \/ r >= g[b].next
  <2>1. CASE b = c
    BY <1>2, <1>3, <1>4, <1>5, <2>1
  <2>2. CASE b = t
    BY <1>2, <1>3, <1>4, <1>5, <2>2
  <2>3. CASE b # c /\ b # t
    <3>1. g[b].next = h[b].next /\ h[b].next \in R /\ h[b].next > b /\ h[h[b].next].prev = b
      BY <1>1, <1>4, <2>3
    <3>2. h[b].next # m /\ h[b].next # t
      BY <1>3, <1>5, <2>3, <3>1
    <3>3. \A r \in R : r <= b \/ r >= h[b].next
      BY <1>1, <2>3
    <3>4. t <= b \/ t >= h[b].next
      <4>1. c <= b \/ c >= h[b].next
        BY <3>3
      <4>2. b \in R /\ (b <= c \/ b >= m)
        BY <1>3, <2>3
      <4> QED
        BY <1>2, <1>3, <2>3, <3>1, <4>1, <4>2
    <3> QED
      BY <1>4, <3>1, <3>2, <3>3, <3>4
  <2> QED
    BY <2>1, <2>2, <2>3
<1>7. ASSUME NEW b \in (R \cup {t}) \ {0}
      PROVE  g[b].prev \in R \cup {t} /\ g[b].prev < b /\ g[g[b].prev].next = b
  <2>1. CASE b = m
    BY <1>2, <1>3, <1>4, <1>5, <2>1
  <2>2. CASE b = t
    BY <1>2, <1>3, <1>4, <1>5, <2>2
  <2>3. CASE b # m /\ b # t
    <3>1. g[b].prev = h[b].prev /\ h[b].prev \in R /\ h[b].prev < b /\ h[h[b].prev].next = b
      BY <1>1, <1>4, <2>3
    <3>2. h[b].prev # c /\ h[b].prev # t
      BY <1>5, <2>3, <3>1 DEF m
    <3> QED
      BY <1>4, <3>1, <3>2
  <2> QED
    BY <2>1, <2>2, <2>3
<1>8. g[0].prev = 0 /\ R \cup {t} \subseteq Block
  BY <1>1, <1>4, <1>5
<1> QED
  BY <1>1, <1>5, <1>6, <1>7, <1>8 DEF Chain

\* No two free runs are neighbours.
NoFreePair(h, f) == \A b \in Range(f) : h[b].next \notin Range(f)

\* Between h and g nothing is written outside of the cells in W, and of the runs in K only
\* the links to the runs in front of them.
Spared(h, g, W, K) ==
  /\ \A b \in Block \ W : /\ g[b].next = h[b].next /\ g[b].prev = h[b].prev
                          /\ g[b].nfree = h[b].nfree /\ g[b].pfree = h[b].pfree
  /\ \A b \in K : g[b].next = h[b].next /\ g[b].nfree = h[b].nfree /\ g[b].pfree = h[b].pfree

\* The runs that are neither free nor the first or the last block.
LEMMA FlagFacts ==
  ASSUME NEW h, NEW R, NEW f, Pool(h, R, f)
  PROVE  /\ R \subseteq Block /\ Range(f) \subseteq R \ {0, BlockLast}
         /\ \A b \in R : h[b].free <=> b \in Range(f)
BY DEF Pool, Chain, Flags, Marked

LEMMA ChainFacts ==
  ASSUME NEW h, NEW R, Chain(h, R)
  PROVE  /\ R \subseteq Block /\ 0 \in R /\ 1 \in R /\ BlockLast \in R
         /\ \A b \in R : b \in Nat
         /\ \A b \in R \ {BlockLast} : h[b].next \in R /\ h[b].next > b /\ h[h[b].next].prev = b
         /\ \A b \in R \ {BlockLast} : \A r \in R : r <= b \/ r >= h[b].next
         /\ \A b \in R \ {0} : h[b].prev \in R /\ h[b].prev < b /\ h[h[b].prev].next = b
         /\ h[0].next = 1
<1>1. /\ R \subseteq Block /\ 0 \in R /\ 1 \in R /\ BlockLast \in R
      /\ \A b \in R \ {BlockLast} : h[b].next \in R /\ h[b].next > b /\ h[h[b].next].prev = b
      /\ \A b \in R \ {BlockLast} : \A r \in R : r <= b \/ r >= h[b].next
      /\ \A b \in R \ {0} : h[b].prev \in R /\ h[b].prev < b /\ h[h[b].prev].next = b
  BY DEF Chain
<1>2. \A b \in R : b \in Nat
  BY <1>1, BlockFacts
<1>3. 0 \in R \ {BlockLast}
  BY <1>1, BlockFacts
<1>4. h[0].next > 0 /\ h[0].next \in Nat /\ (1 <= 0 \/ 1 >= h[0].next)
  BY <1>1, <1>2, <1>3
<1> QED
  BY <1>1, <1>2, <1>4

LEMMA UpRight ==
  ASSUME NEW h, NEW R, NEW f, Pool(h, R, f), NoFreePair(h, f),
         NEW c \in R \ (Range(f) \cup {0, BlockLast})
  PROVE  \E S, r : /\ Pool(umm_assimilate_up(h, c), S, r) /\ S \subseteq R
                   /\ S \ Range(r) = R \ Range(f)
                   /\ NoFreePair(umm_assimilate_up(h, c), r)
                   /\ umm_assimilate_up(h, c)[c].next \notin Range(r)
                   /\ Spared(h, umm_assimilate_up(h, c), R, R \ (Range(f) \cup {0, c}))
<1> DEFINE g == umm_assimilate_up(h, c)
           n == h[c].next
           m == h[n].next
           d == umm_disconnect_from_free_list(h, n)
<1>1. h \in Heaps /\ Chain(h, R) /\ FreeRing(h, f)
  BY DEF Pool
<1>2. /\ R \subseteq Block /\ 0 \in R /\ 1 \in R /\ BlockLast \in R /\ c \in R /\ c \in Block
      /\ n \in R /\ n \in Block /\ (h[n].free <=> n \in Range(f))
      /\ Range(f) \subseteq R \ {0, BlockLast}
  BY <1>1, ChainFacts, FlagFacts
<1> HIDE DEF n
<1>3. CASE n \notin Range(f)
  <2>1. g = h
    BY <1>2, <1>3 DEF umm_assimilate_up, n
  <2>2. Spared(h, h, R, R \ (Range(f) \cup {0, c}))
    BY DEF Spared
  <2> QED
    BY <1>3, <2>1, <2>2 DEF n
<1>4. CASE n \in Range(f)
  <2>1. PICK i \in 1 .. Len(f) : n = f[i]
    BY <1>1, <1>4, FreeRingFacts
  <2>2. /\ h[n].pfree \in Block /\ h[n].nfree \in Block
        /\ h[n].pfree \in Range(f) \cup {0} /\ h[n].nfree \in Range(f) \cup {0}
    BY <1>1, <2>1, RingAt
  <2>3. /\ d \in Heaps /\ Marked(d) = Marked(h) \ {n}
        /\ \A b \in Block : /\ d[b].next = h[b].next /\ d[b].prev = h[b].prev
                            /\ d[b].nfree = IF b = h[n].pfree THEN h[n].nfree ELSE h[b].nfree
                            /\ d[b].pfree = IF b = h[n].nfree THEN h[n].pfree ELSE h[b].pfree
    BY <1>1, <1>2, <2>2, DisconnectFields
  <2>4. n # BlockLast /\ n \in R \ {BlockLast} /\ m \in R /\ m \in Block /\ d[n].next = m
    <3>1. n # BlockLast
      BY <1>2, <1>4
    <3> QED
      BY <1>1, <1>2, <2>3, <3>1, ChainFacts
  <2> DEFINE e == SetPrev(d, m, c)
  <2>5. g = SetNext(e, c, m)
    <3>1. h[h[c].next].free /\ n = h[c].next
      BY <1>2, <1>4 DEF n
    <3> HIDE DEF d, m
    <3>2. g = [d EXCEPT ![d[n].next].prev = c, ![c].next = d[n].next]
      BY <3>1 DEF umm_assimilate_up, d
    <3> QED
      BY <2>4, <3>2 DEF SetPrev, SetNext
  <2> HIDE DEF g, d, m
  <2>6. c \in Values /\ m \in Values
    BY <1>2, <2>4, ValuesFacts
  <2>7. /\ e \in Heaps /\ Marked(e) = Marked(d)
        /\ \A b \in Block : /\ e[b].next = d[b].next /\ e[b].prev = IF b = m THEN c ELSE d[b].prev
                            /\ e[b].nfree = d[b].nfree /\ e[b].pfree = d[b].pfree
    <3>1. d \in Heaps
      BY <2>3
    <3> QED
      BY <1>2, <2>4, <2>6, <3>1, SetPrevFields
  <2> HIDE DEF e
  <2>8. /\ g \in Heaps /\ Marked(g) = Marked(e)
        /\ \A b \in Block : /\ g[b].next = IF b = c THEN m ELSE e[b].next
                            /\ g[b].prev = e[b].prev
                            /\ g[b].nfree = e[b].nfree /\ g[b].pfree = e[b].pfree
    <3>1. e \in Heaps /\ c \in Block /\ m \in Values
      BY <1>2, <2>6, <2>7
    <3>2. /\ SetNext(e, c, m) \in Heaps /\ Marked(SetNext(e, c, m)) = Marked(e)
          /\ \A b \in Block : /\ SetNext(e, c, m)[b].next = IF b = c THEN m ELSE e[b].next
                              /\ SetNext(e, c, m)[b].prev = e[b].prev
                              /\ SetNext(e, c, m)[b].nfree = e[b].nfree
                              /\ SetNext(e, c, m)[b].pfree = e[b].pfree
      BY ONLY <3>1, SetNextFields
    <3> QED
      BY <2>5, <3>2
  <2>9. \A b \in Block : /\ g[b].next = IF b = c THEN h[n].next ELSE h[b].next
                         /\ g[b].prev = IF b = h[n].next THEN c ELSE h[b].prev
    BY <2>3, <2>7, <2>8 DEF m
  <2>10. Chain(g, R \ {n})
    BY <1>1, <1>2, <2>4, <2>9, ChainMerged DEF n
  <2>11. \A b \in Block : /\ g[b].nfree = IF b = h[n].pfree THEN h[n].nfree ELSE h[b].nfree
                          /\ g[b].pfree = IF b = h[n].nfree THEN h[n].pfree ELSE h[b].pfree
    BY <2>3, <2>7, <2>8
  <2> DEFINE r == Without(f, i)
  <2>12. FreeRing(g, r) /\ Range(r) = Range(f) \ {n}
    <3>1. Unlinked(h, g, f, i)
      BY <1>1, <2>1, <2>11 DEF Unlinked
    <3> QED
      BY <2>1, <3>1, RingUnlinked
  <2> HIDE DEF r
  <2>13. Flags(g, R \ {n}, r)
    BY <2>3, <2>7, <2>8, <2>12 DEF Flags, Pool
  <2>14. Pool(g, R \ {n}, r)
    BY <2>8, <2>10, <2>12, <2>13 DEF Pool
  <2>15. (R \ {n}) \ Range(r) = R \ Range(f)
    BY <1>4, <2>12
  <2>16. m \notin Range(f) /\ g[c].next = m /\ c \notin Range(f)
    BY <1>2, <1>4, <2>9 DEF NoFreePair, m
  <2>17. NoFreePair(g, r)
    BY <1>2, <2>9, <2>12, <2>16 DEF NoFreePair
  <2>18. Spared(h, g, R, R \ (Range(f) \cup {0, c}))
    <3>1. m \in R /\ c \in R /\ h[n].pfree \in R /\ h[n].nfree \in R
      BY <1>2, <2>2, <2>4
    <3>2. ASSUME NEW b \in Block \ R
          PROVE  /\ g[b].next = h[b].next /\ g[b].prev = h[b].prev
                 /\ g[b].nfree = h[b].nfree /\ g[b].pfree = h[b].pfree
      BY <2>9, <2>11, <3>1 DEF m
    <3>3. ASSUME NEW b \in R \ (Range(f) \cup {0, c})
          PROVE  g[b].next = h[b].next /\ g[b].nfree = h[b].nfree /\ g[b].pfree = h[b].pfree
      BY <1>2, <2>2, <2>9, <2>11
    <3> QED
      BY <3>2, <3>3 DEF Spared
  <2> QED
    BY <2>12, <2>14, <2>15, <2>16, <2>17, <2>18 DEF g
<1> QED
  BY <1>3, <1>4

LEMMA DownRight ==
  ASSUME NEW h, NEW R, NEW f, Pool(h, R, f), NoFreePair(h, f),
         NEW c \in R \ (Range(f) \cup {0, BlockLast}), h[c].next \notin Range(f),
         h[c].prev \in Range(f)
  PROVE  /\ Pool(umm_assimilate_down(h, c), R \ {c}, f)
         /\ NoFreePair(umm_assimilate_down(h, c), f)
         /\ Spared(h, umm_assimilate_down(h, c), R, R \ (Range(f) \cup {0, c}))
<1> DEFINE g == umm_assimilate_down(h, c)
           a == h[c].prev
           m == h[c].next
<1>1. h \in Heaps /\ Chain(h, R) /\ FreeRing(h, f) /\ Flags(h, R, f)
  BY DEF Pool
<1>2. /\ R \subseteq Block /\ c \in Block /\ a \in R /\ a \in Block /\ m \in R /\ m \in Block
      /\ a # 0 /\ a # BlockLast /\ h[a].next = c /\ Range(f) \subseteq R \ {0, BlockLast}
  BY <1>1, ChainFacts, FlagFacts
<1>3. /\ g \in Heaps /\ Marked(g) = Marked(h) \cup {a}
      /\ \A b \in Block : /\ g[b].next = IF b = a THEN m ELSE h[b].next
                          /\ g[b].prev = IF b = m THEN a ELSE h[b].prev
                          /\ g[b].nfree = h[b].nfree /\ g[b].pfree = h[b].pfree
  BY <1>1, <1>2, AssimilateDownFields
<1> HIDE DEF g
<1>4. Chain(g, R \ {c})
  BY <1>1, <1>2, <1>3, ChainMerged
<1> HIDE DEF a, m
<1>5. a \in Range(f) /\ m \notin Range(f)
  BY DEF a, m
<1>6. FreeRing(g, f)
  <2>1. \A k \in 0 .. Len(f) : Ring(f, k) \in Block /\ Ring(f, k + 1) \in Block
    <3>1. \A k \in 0 .. Len(f) : k \in 0 .. (Len(f) + 1) /\ k + 1 \in 0 .. (Len(f) + 1)
      BY <1>1, FreeRingFacts
    <3> QED
      BY <1>1, <3>1, FreeRingFacts
  <2> QED
    BY <1>1, <1>3, <2>1 DEF FreeRing
<1>7. Flags(g, R \ {c}, f)
  BY <1>1, <1>3, <1>5 DEF Flags
<1>8. NoFreePair(g, f)
  BY <1>2, <1>3, <1>5 DEF NoFreePair
<1>9. Spared(h, g, R, R \ (Range(f) \cup {0, c}))
  BY <1>2, <1>3, <1>5 DEF Spared
<1> QED
  BY <1>3, <1>4, <1>6, <1>7, <1>8, <1>9 DEF Pool, g

LEMMA AddRight ==
  ASSUME NEW h, NEW R, NEW f, Pool(h, R, f), NoFreePair(h, f),
         NEW c \in R \ (Range(f) \cup {0, BlockLast}), h[c].next \notin Range(f),
         h[c].prev \notin Range(f)
  PROVE  \E r : /\ Pool(AddToFreeList(h, c), R, r) /\ Range(r) = Range(f) \cup {c}
                /\ NoFreePair(AddToFreeList(h, c), r)
                /\ Spared(h, AddToFreeList(h, c), R, R \ (Range(f) \cup {0, c}))
<1> DEFINE g == AddToFreeList(h, c)
           n == h[0].nfree
<1>1. h \in Heaps /\ Chain(h, R) /\ FreeRing(h, f) /\ Flags(h, R, f)
  BY DEF Pool
<1>2. /\ R \subseteq Block /\ c \in Block /\ 0 \in R /\ Range(f) \subseteq R \ {0, BlockLast}
      /\ \A b \in R \ {BlockLast} : h[h[b].next].prev = b
  BY <1>1, ChainFacts, FlagFacts
<1>3. n \in Block /\ n \in Range(f) \cup {0}
  <2>1. /\ 0 \in 0 .. Len(f) /\ 0 + 1 = 1 /\ 1 \in 0 .. (Len(f) + 1)
    BY <1>1, FreeRingFacts
  <2>2. n = Ring(f, 1)
    <3>1. h[Ring(f, 0)].nfree = Ring(f, 0 + 1) /\ Ring(f, 0) = 0
      BY <1>1, <2>1, FreeRingFacts
    <3> QED
      BY <2>1, <3>1
  <2>3. Ring(f, 1) \in Block
    BY <1>1, <2>1, FreeRingFacts
  <2>4. Ring(f, 1) \in Range(f) \cup {0}
    BY <1>1, FreeRingFacts DEF Ring
  <2> QED
    BY <2>2, <2>3, <2>4
<1>4. /\ g \in Heaps /\ Marked(g) = Marked(h) \cup {c}
      /\ \A b \in Block : g[b].next = h[b].next /\ g[b].prev = h[b].prev
      /\ \A b \in Block : /\ g[b].nfree =
                               IF b = 0 THEN c ELSE IF b = c THEN h[0].nfree ELSE h[b].nfree
                          /\ g[b].pfree =
                               IF b = c THEN 0 ELSE IF b = h[0].nfree THEN c ELSE h[b].pfree
  BY <1>1, <1>2, <1>3, AddFields
<1> HIDE DEF g
<1>5. Chain(g, R)
  BY <1>1, <1>2, <1>4 DEF Chain
<1>6. PICK r : FreeRing(g, r) /\ Range(r) = Range(f) \cup {c}
  BY <1>1, <1>2, <1>4, RingMore
<1>7. Flags(g, R, r)
  BY <1>1, <1>4, <1>6 DEF Flags
<1>8. NoFreePair(g, r)
  <2>1. ASSUME NEW b \in Range(r) PROVE g[b].next \notin Range(r)
    <3>1. b \in R /\ b # BlockLast /\ g[b].next = h[b].next /\ h[h[b].next].prev = b
      BY <1>2, <1>4, <1>6
    <3>2. b = c => h[b].next # c
      BY <1>1, <3>1, ChainFacts
    <3>3. b # c => h[b].next # c /\ h[b].next \notin Range(f)
      BY <1>6, <3>1 DEF NoFreePair
    <3> QED
      BY <1>6, <3>1, <3>2, <3>3
  <2> QED
    BY <2>1 DEF NoFreePair
<1>9. Spared(h, g, R, R \ (Range(f) \cup {0, c}))
  BY <1>2, <1>3, <1>4 DEF Spared
<1> QED
  BY <1>4, <1>5, <1>6, <1>7, <1>8, <1>9 DEF Pool, g

\* The heap behind a call that frees run c.
Freed(h, c) ==
  LET up == umm_assimilate_up(h, c)
  IN  IF up[up[c].prev].free THEN umm_assimilate_down(up, c) ELSE AddToFreeList(up, c)

LEMMA SparedTwice ==
  ASSUME NEW h, NEW e, NEW g, NEW R, NEW S, S \subseteq R, NEW K, NEW M, K \subseteq M,
         Spared(h, e, R, K), Spared(e, g, S, M)
  PROVE  Spared(h, g, R, K)
BY DEF Spared

LEMMA FreedRight ==
  ASSUME NEW h, NEW R, NEW f, Pool(h, R, f), NoFreePair(h, f),
         NEW c \in R \ (Range(f) \cup {0, BlockLast})
  PROVE  \E S, r : /\ Pool(Freed(h, c), S, r) /\ S \subseteq R
                   /\ S \ Range(r) = (R \ Range(f)) \ {c}
                   /\ NoFreePair(Freed(h, c), r)
                   /\ Spared(h, Freed(h, c), R, R \ (Range(f) \cup {0, c}))
<1> DEFINE up == umm_assimilate_up(h, c)
           K == R \ (Range(f) \cup {0, c})
<1>1. PICK S, r : /\ Pool(up, S, r) /\ S \subseteq R
                  /\ S \ Range(r) = R \ Range(f)
                  /\ NoFreePair(up, r)
                  /\ up[c].next \notin Range(r)
                  /\ Spared(h, up, R, K)
  BY UpRight
<1> DEFINE g == IF up[up[c].prev].free THEN umm_assimilate_down(up, c) ELSE AddToFreeList(up, c)
<1>2. Freed(h, c) = g
  BY DEF Freed
<1> HIDE DEF up
<1>3. c \in S \ (Range(r) \cup {0, BlockLast})
  BY <1>1
<1>4. K \subseteq S \ (Range(r) \cup {0, c})
  BY <1>1
<1> HIDE DEF K
<1>5. up[c].prev \in S /\ (up[up[c].prev].free <=> up[c].prev \in Range(r))
  <2>1. Chain(up, S) /\ c \in S \ {0}
    BY <1>1, <1>3 DEF Pool
  <2>2. up[c].prev \in S
    BY <2>1, ChainFacts
  <2> QED
    BY <1>1, <2>2, FlagFacts
<1>6. CASE up[c].prev \in Range(r)
  <2>1. g = umm_assimilate_down(up, c)
    BY <1>5, <1>6
  <2>2. /\ Pool(g, S \ {c}, r) /\ NoFreePair(g, r)
        /\ Spared(up, g, S, S \ (Range(r) \cup {0, c}))
    <3> HIDE DEF g
    <3> QED
      BY <1>1, <1>3, <1>6, <2>1, DownRight
  <2> HIDE DEF g
  <2>3. Spared(h, g, R, K)
    BY <1>1, <1>4, <2>2, SparedTwice
  <2>4. (S \ {c}) \ Range(r) = (R \ Range(f)) \ {c} /\ S \ {c} \subseteq R
    BY <1>1
  <2> QED
    BY <1>2, <2>2, <2>3, <2>4 DEF K
<1>7. CASE up[c].prev \notin Range(r)
  <2>1. g = AddToFreeList(up, c)
    BY <1>5, <1>7
  <2>2. PICK q : /\ Pool(g, S, q) /\ Range(q) = Range(r) \cup {c} /\ NoFreePair(g, q)
                 /\ Spared(up, g, S, S \ (Range(r) \cup {0, c}))
    <3> HIDE DEF g
    <3> QED
      BY <1>1, <1>3, <1>7, <2>1, AddRight
  <2> HIDE DEF g
  <2>3. Spared(h, g, R, K)
    BY <1>1, <1>4, <2>2, SparedTwice
  <2>4. S \ Range(q) = (R \ Range(f)) \ {c} /\ S \subseteq R
    BY <1>1, <2>2
  <2> QED
    BY <1>2, <2>2, <2>3, <2>4 DEF K
<1> QED
  BY <1>6, <1>7

\* A run that is exactly as long as was asked for leaves the free list.
LEMMA TakeWholeRight ==
  ASSUME NEW h, NEW R, NEW f, Pool(h, R, f), NoFreePair(h, f), NEW c \in Range(f)
  PROVE  \E r : /\ Pool(umm_disconnect_from_free_list(h, c), R, r) /\ Range(r) = Range(f) \ {c}
                /\ NoFreePair(umm_disconnect_from_free_list(h, c), r)
                /\ umm_disconnect_from_free_list(h, c)[c].next = h[c].next
                /\ Spared(h, umm_disconnect_from_free_list(h, c), R, R \ (Range(f) \cup {0}))
<1> DEFINE g == umm_disconnect_from_free_list(h, c)
<1>1. h \in Heaps /\ Chain(h, R) /\ FreeRing(h, f) /\ Flags(h, R, f)
  BY DEF Pool
<1>2. R \subseteq Block /\ 0 \in R /\ Range(f) \subseteq R \ {0, BlockLast} /\ c \in Block
  BY <1>1, ChainFacts, FlagFacts
<1>3. PICK i \in 1 .. Len(f) : c = f[i]
  BY <1>1, FreeRingFacts
<1>4. /\ h[c].pfree \in Block /\ h[c].nfree \in Block
      /\ h[c].pfree \in Range(f) \cup {0} /\ h[c].nfree \in Range(f) \cup {0}
  BY <1>1, <1>3, RingAt
<1>5. /\ g \in Heaps /\ Marked(g) = Marked(h) \ {c}
      /\ \A b \in Block : g[b].next = h[b].next /\ g[b].prev = h[b].prev
      /\ \A b \in Block : /\ g[b].nfree = IF b = h[c].pfree THEN h[c].nfree ELSE h[b].nfree
                          /\ g[b].pfree = IF b = h[c].nfree THEN h[c].pfree ELSE h[b].pfree
  BY <1>1, <1>2, <1>4, DisconnectFields
<1> HIDE DEF g
<1> DEFINE r == Without(f, i)
<1>6. FreeRing(g, r) /\ Range(r) = Range(f) \ {c}
  <2>1. Unlinked(h, g, f, i)
    BY <1>1, <1>3, <1>5 DEF Unlinked
  <2> QED
    BY <1>3, <2>1, RingUnlinked
<1> HIDE DEF r
<1>7. Chain(g, R)
  BY <1>1, <1>2, <1>5 DEF Chain
<1>8. Flags(g, R, r)
  BY <1>1, <1>5, <1>6 DEF Flags
<1>9. NoFreePair(g, r)
  BY <1>2, <1>5, <1>6 DEF NoFreePair
<1>10. Spared(h, g, R, R \ (Range(f) \cup {0}))
  BY <1>2, <1>4, <1>5 DEF Spared
<1> QED
  BY <1>2, <1>5, <1>6, <1>7, <1>8, <1>9, <1>10 DEF Pool, g

\* Of a longer one, the rest takes its place in the free list.
TakePart(h, c, blocks) == Replaced(umm_split_block(h, c, blocks), c, c + blocks)

LEMMA TakePartRight ==
  ASSUME NEW h, NEW R, NEW f, Pool(h, R, f), NoFreePair(h, f), NEW c \in Range(f),
         NEW blocks \in Nat, blocks > 0, c + blocks < h[c].next
  PROVE  \E r : /\ Pool(TakePart(h, c, blocks), R \cup {c + blocks}, r)
                /\ Range(r) = (Range(f) \ {c}) \cup {c + blocks}
                /\ c + blocks \notin R
                /\ NoFreePair(TakePart(h, c, blocks), r)
                /\ TakePart(h, c, blocks)[c].next = c + blocks
                /\ Spared(h, TakePart(h, c, blocks), R \cup {c + blocks}, R \ (Range(f) \cup {0}))
<1> DEFINE t == c + blocks
           m == h[c].next
           s == umm_split_block(h, c, blocks)
           g == Replaced(s, c, t)
<1>1. h \in Heaps /\ Chain(h, R) /\ FreeRing(h, f) /\ Flags(h, R, f)
  BY DEF Pool
<1>2. /\ R \subseteq Block /\ 0 \in R /\ Range(f) \subseteq R \ {0, BlockLast} /\ c \in Block
      /\ c \in R \ {0, BlockLast} /\ m \in R /\ m \in Block
  BY <1>1, ChainFacts, FlagFacts
<1>3. t \in Block /\ c < t /\ t < m /\ t # 0 /\ c # t
  BY <1>2, BlockFacts
<1>4. PICK i \in 1 .. Len(f) : c = f[i]
  BY <1>1, FreeRingFacts
<1>5. /\ h[c].pfree \in Block /\ h[c].nfree \in Block
      /\ h[c].pfree \in Range(f) \cup {0} /\ h[c].nfree \in Range(f) \cup {0}
  BY <1>1, <1>4, RingAt
<1>6. /\ s \in Heaps /\ Marked(s) = (Marked(h) \cup {c + blocks}) \ {c}
      /\ \A b \in Block :
           /\ s[b].next =
                IF b = c THEN c + blocks ELSE IF b = c + blocks THEN h[c].next ELSE h[b].next
           /\ s[b].prev =
                IF b = h[c].next THEN c + blocks ELSE IF b = c + blocks THEN c ELSE h[b].prev
           /\ s[b].nfree = h[b].nfree
           /\ s[b].pfree = h[b].pfree
  BY <1>1, <1>2, <1>3, SplitFields
<1> HIDE DEF s
<1>7. /\ g \in Heaps /\ Marked(g) = Marked(s)
      /\ \A b \in Block :
           /\ g[b].next = s[b].next
           /\ g[b].prev = s[b].prev
           /\ g[b].nfree = IF b = t THEN s[c].nfree ELSE IF b = s[c].pfree THEN t ELSE s[b].nfree
           /\ g[b].pfree = IF b = s[c].nfree THEN t ELSE IF b = t THEN s[c].pfree ELSE s[b].pfree
  <2>1. s \in Heaps /\ c \in Block /\ t \in Block /\ s[c].pfree \in Block /\ s[c].nfree \in Block
    BY <1>2, <1>3, <1>5, <1>6
  <2> HIDE DEF t
  <2> QED
    BY ONLY <2>1, ReplacedFields
<1> HIDE DEF g
<1>8. \A b \in Block :
        /\ g[b].next = IF b = c THEN t ELSE IF b = t THEN h[c].next ELSE h[b].next
        /\ g[b].prev = IF b = h[c].next THEN t ELSE IF b = t THEN c ELSE h[b].prev
  BY <1>6, <1>7
<1>9. \A b \in Block :
        /\ g[b].nfree = IF b = t THEN h[c].nfree ELSE IF b = h[c].pfree THEN t ELSE h[b].nfree
        /\ g[b].pfree = IF b = h[c].nfree THEN t ELSE IF b = t THEN h[c].pfree ELSE h[b].pfree
  BY <1>2, <1>6, <1>7
<1>10. Marked(g) = (Marked(h) \cup {t}) \ {c} /\ g \in Heaps
  BY <1>6, <1>7
<1> HIDE DEF t
<1>11. Chain(g, R \cup {t}) /\ t \notin R
  BY <1>1, <1>2, <1>3, <1>8, ChainSplit DEF m
<1> DEFINE r == Instead(f, i, t)
<1>12. FreeRing(g, r) /\ Range(r) = (Range(f) \ {c}) \cup {t}
  <2>1. t \notin Range(f)
    BY <1>2, <1>11
  <2>2. FreeRing(h, f) /\ i \in 1 .. Len(f) /\ t \in Block /\ t # 0 /\ t \notin Range(f)
    BY <1>1, <1>3, <2>1
  <2>3. PutInstead(h, g, f, i, t)
    BY <1>4, <1>9, <2>2 DEF PutInstead
  <2>4. FreeRing(g, Instead(f, i, t)) /\ Range(Instead(f, i, t)) = (Range(f) \ {f[i]}) \cup {t}
    BY <2>3, RingInstead
  <2> QED
    BY <1>4, <2>4
<1> HIDE DEF r, m
<1>13. Flags(g, R \cup {t}, r)
  <2>1. t # BlockLast
    BY <1>1, <1>11 DEF Chain
  <2>2. Range(f) \subseteq R /\ R \cap Marked(h) = Range(f) /\ c # t
    BY <1>1, <1>3 DEF Flags
  <2>3. (R \cup {t}) \cap Marked(g) = Range(r)
    BY <1>10, <1>12, <2>2
  <2> QED
    BY <1>2, <1>3, <1>12, <2>1, <2>3 DEF Flags
<1>14. NoFreePair(g, r)
  <2>1. m \notin Range(f) /\ m # t
    BY <1>2, <1>11 DEF NoFreePair, m
  <2>2. g[t].next = m
    BY <1>3, <1>8 DEF m
  <2>3. ASSUME NEW b \in Range(f) \ {c} PROVE g[b].next \notin Range(r)
    <3>1. b \in R /\ b \in Block /\ b # t /\ b # BlockLast
      BY <1>2, <1>11
    <3>2. g[b].next = h[b].next /\ h[b].next \in R /\ h[b].next \notin Range(f)
      BY <1>1, <1>8, <3>1, ChainFacts DEF NoFreePair
    <3> QED
      BY <1>11, <1>12, <3>2
  <2> QED
    BY <1>12, <2>1, <2>2, <2>3 DEF NoFreePair
<1>15. g[c].next = t
  BY <1>2, <1>8
<1>16. Spared(h, g, R \cup {t}, R \ (Range(f) \cup {0}))
  <2>1. ASSUME NEW b \in Block \ (R \cup {t})
        PROVE  /\ g[b].next = h[b].next /\ g[b].prev = h[b].prev
               /\ g[b].nfree = h[b].nfree /\ g[b].pfree = h[b].pfree
    <3>1. b # c /\ b # t /\ b # h[c].next /\ b # h[c].pfree /\ b # h[c].nfree
      BY <1>2, <1>5 DEF m
    <3> QED
      BY <1>8, <1>9, <3>1
  <2>2. ASSUME NEW b \in R \ (Range(f) \cup {0})
        PROVE  g[b].next = h[b].next /\ g[b].nfree = h[b].nfree /\ g[b].pfree = h[b].pfree
    <3>1. b \in Block /\ b # c /\ b # t /\ b # h[c].pfree /\ b # h[c].nfree
      BY <1>2, <1>5, <1>11
    <3> QED
      BY <1>8, <1>9, <3>1
  <2> QED
    BY <2>1, <2>2 DEF Spared
<1>17. Pool(g, R \cup {t}, r)
  BY <1>10, <1>11, <1>12, <1>13 DEF Pool
<1> QED
  BY <1>11, <1>12, <1>14, <1>15, <1>16, <1>17 DEF g, s, t, TakePart

LEMMA TakenRight ==
  ASSUME NEW h, NEW R, NEW f, Pool(h, R, f), NoFreePair(h, f), NEW c \in Range(f),
         NEW blocks \in Nat, blocks > 0, blocks <= SizeOf(h, c)
  PROVE  \E S, r : /\ Pool(TakeRun(h, c, blocks), S, r) /\ R \subseteq S
                   /\ S \ Range(r) = (R \ Range(f)) \cup {c}
                   /\ NoFreePair(TakeRun(h, c, blocks), r)
                   /\ TakeRun(h, c, blocks)[c].next = c + blocks
                   /\ Spared(h, TakeRun(h, c, blocks), S, R \ (Range(f) \cup {0}))
<1> DEFINE g == TakeRun(h, c, blocks)
<1>1. /\ Range(f) \subseteq R /\ c \in R \ {0, BlockLast} /\ c \in Nat /\ h[c].next \in Nat
      /\ \A b \in R : b \in Nat
  BY FlagFacts, ChainFacts DEF Pool
<1>2. CASE SizeOf(h, c) = blocks
  <2>1. g = umm_disconnect_from_free_list(h, c)
    BY <1>2 DEF TakeRun
  <2>2. h[c].next = c + blocks
    BY <1>1, <1>2 DEF SizeOf
  <2>3. PICK r : /\ Pool(g, R, r) /\ Range(r) = Range(f) \ {c} /\ NoFreePair(g, r)
                 /\ g[c].next = h[c].next /\ Spared(h, g, R, R \ (Range(f) \cup {0}))
    <3> HIDE DEF g
    <3> QED
      BY <2>1, TakeWholeRight
  <2> HIDE DEF g
  <2>4. R \ Range(r) = (R \ Range(f)) \cup {c}
    BY <1>1, <2>3
  <2> QED
    BY <2>2, <2>3, <2>4 DEF g
<1>3. CASE SizeOf(h, c) # blocks
  <2>1. g = TakePart(h, c, blocks)
    BY <1>3 DEF TakeRun, TakePart, Replaced
  <2>2. c + blocks < h[c].next
    BY <1>1, <1>3 DEF SizeOf
  <2> DEFINE S == R \cup {c + blocks}
  <2>3. PICK r : /\ Pool(g, S, r) /\ Range(r) = (Range(f) \ {c}) \cup {c + blocks}
                 /\ c + blocks \notin R
                 /\ NoFreePair(g, r)
                 /\ g[c].next = c + blocks /\ Spared(h, g, S, R \ (Range(f) \cup {0}))
    <3> HIDE DEF g
    <3>1. \E r : /\ Pool(TakePart(h, c, blocks), R \cup {c + blocks}, r)
                 /\ Range(r) = (Range(f) \ {c}) \cup {c + blocks}
                 /\ c + blocks \notin R
                 /\ NoFreePair(TakePart(h, c, blocks), r)
                 /\ TakePart(h, c, blocks)[c].next = c + blocks
                 /\ Spared(h, TakePart(h, c, blocks), R \cup {c + blocks}, R \ (Range(f) \cup {0}))
      BY <2>2, TakePartRight
    <3> QED
      BY <2>1, <3>1
  <2> HIDE DEF g
  <2>4. S \ Range(r) = (R \ Range(f)) \cup {c} /\ R \subseteq S
    BY <1>1, <2>3
  <2> HIDE DEF S
  <2> QED
    BY <2>3, <2>4 DEF g
<1> QED
  BY <1>2, <1>3

\* The body of run b of n blocks holds a caller's data.
Written(h, b, n) ==
  /\ h[b].nfree = Data /\ h[b].pfree = Data
  /\ \A x \in (b + 1) .. (b + n - 1) : /\ h[x].next = Data /\ h[x].prev = Data
                                       /\ h[x].nfree = Data /\ h[x].pfree = Data

LEMMA FilledFields ==
  ASSUME NEW h \in Heaps, NEW c \in Block, NEW blocks \in Nat
  PROVE  /\ Filled(h, c, blocks) \in Heaps
         /\ \A b \in Block \ ((c + 1) .. (c + blocks - 1)) :
              /\ Filled(h, c, blocks)[b].next = h[b].next
              /\ Filled(h, c, blocks)[b].prev = h[b].prev
              /\ Filled(h, c, blocks)[b].nfree = IF b = c THEN Data ELSE h[b].nfree
              /\ Filled(h, c, blocks)[b].pfree = IF b = c THEN Data ELSE h[b].pfree
         /\ Marked(Filled(h, c, blocks)) \ ((c + 1) .. (c + blocks - 1)) =
              Marked(h) \ ((c + 1) .. (c + blocks - 1))
         /\ c + blocks - 1 \in Block => Written(Filled(h, c, blocks), c, blocks)
<1> DEFINE g == Filled(h, c, blocks)
           B == (c + 1) .. (c + blocks - 1)
           All == [next |-> Data, free |-> Data, prev |-> Data, nfree |-> Data, pfree |-> Data]
           Cell == [next : Values, free : Values, prev : Values, nfree : Values, pfree : Values]
<1>1. c \in Nat /\ c \notin B /\ Data \in Values
  BY BlockFacts DEF Values
<1>2. \A b \in Block : g[b] = IF b = c THEN [h[b] EXCEPT !.nfree = Data, !.pfree = Data]
                              ELSE IF b \in B THEN All ELSE h[b]
  BY DEF Filled
<1>3. g = [b \in Block |-> g[b]]
  BY DEF Filled
<1> HIDE DEF g, B
<1>4. \A b \in Block : h[b] \in Cell
  BY DEF Heaps
<1>5. All \in Cell
  BY <1>1
<1>6. \A b \in B \cap Block : g[b] = All
  BY <1>1, <1>2
<1>7. \A b \in (Block \ B) \ {c} : g[b] = h[b]
  BY <1>2
<1>8. g[c] = [h[c] EXCEPT !.nfree = Data, !.pfree = Data]
  BY <1>2
<1>9. /\ g[c] \in Cell /\ g[c].next = h[c].next /\ g[c].prev = h[c].prev
      /\ g[c].nfree = Data /\ g[c].pfree = Data
  BY <1>1, <1>4, <1>8
<1>10. g[c].free = h[c].free
  BY <1>4, <1>8
<1>11. \A b \in Block : g[b] \in Cell
  BY <1>4, <1>5, <1>6, <1>7, <1>9
<1>12. g \in Heaps
  BY <1>3, <1>11 DEF Heaps
<1>13. ASSUME NEW b \in Block \ B
       PROVE  /\ g[b].next = h[b].next /\ g[b].prev = h[b].prev
              /\ g[b].nfree = IF b = c THEN Data ELSE h[b].nfree
              /\ g[b].pfree = IF b = c THEN Data ELSE h[b].pfree
  BY <1>7, <1>9
<1>14. Marked(g) \ B = Marked(h) \ B
  BY <1>7, <1>10 DEF Marked
<1>15. ASSUME c + blocks - 1 \in Block PROVE Written(g, c, blocks)
  <2>1. \A x \in B : x \in Block
    BY <1>1, <1>15, BlockFacts DEF B
  <2>2. \A x \in B : g[x] = All
    BY <1>6, <2>1
  <2> QED
    BY <1>9, <2>2 DEF Written, B
<1> QED
  BY <1>12, <1>13, <1>14, <1>15 DEF g, B

LEMMA FilledRight ==
  ASSUME NEW h, NEW R, NEW f, Pool(h, R, f), NoFreePair(h, f), NEW blocks \in Nat, blocks > 0,
         NEW c \in R \ (Range(f) \cup {0, BlockLast}), h[c].next = c + blocks
  PROVE  /\ Pool(Filled(h, c, blocks), R, f) /\ NoFreePair(Filled(h, c, blocks), f)
         /\ Filled(h, c, blocks)[c].next = c + blocks
         /\ Written(Filled(h, c, blocks), c, blocks)
         /\ \A b \in Block \ (c .. (c + blocks - 1)) :
              /\ Filled(h, c, blocks)[b].next = h[b].next
              /\ Filled(h, c, blocks)[b].prev = h[b].prev
              /\ Filled(h, c, blocks)[b].nfree = h[b].nfree
              /\ Filled(h, c, blocks)[b].pfree = h[b].pfree
<1> DEFINE g == Filled(h, c, blocks)
           B == (c + 1) .. (c + blocks - 1)
<1>1. h \in Heaps /\ Chain(h, R) /\ FreeRing(h, f) /\ Flags(h, R, f)
  BY DEF Pool
<1>2. /\ R \subseteq Block /\ c \in Block /\ c \in Nat /\ c + blocks \in Block /\ 0 \in R
      /\ Range(f) \subseteq R \ {0, BlockLast}
      /\ \A b \in R : b \in Nat /\ (b <= c \/ b >= c + blocks)
      /\ \A b \in R \ {BlockLast} : h[b].next \in R /\ h[b].next > b /\ h[h[b].next].prev = b
      /\ \A b \in R \ {0} : h[b].prev \in R /\ h[b].prev < b /\ h[h[b].prev].next = b
  BY <1>1, ChainFacts, FlagFacts
<1>3. R \subseteq Block \ B
  BY <1>2
<1>4. /\ g \in Heaps
      /\ \A b \in Block \ B : /\ g[b].next = h[b].next
                              /\ g[b].prev = h[b].prev
                              /\ g[b].nfree = IF b = c THEN Data ELSE h[b].nfree
                              /\ g[b].pfree = IF b = c THEN Data ELSE h[b].pfree
      /\ Marked(g) \ B = Marked(h) \ B
      /\ c + blocks - 1 \in Block => Written(g, c, blocks)
  BY <1>1, <1>2, FilledFields
<1>5. c + blocks - 1 \in Block
  BY <1>2, BlockFacts
<1> HIDE DEF g, B
<1>6. \A b \in R : g[b].next = h[b].next /\ g[b].prev = h[b].prev
  BY <1>3, <1>4
<1>7. Chain(g, R)
  BY <1>1, <1>2, <1>6 DEF Chain
<1>8. Flags(g, R, f)
  <2>1. R \cap Marked(g) = R \cap Marked(h)
    BY <1>3, <1>4
  <2> QED
    BY <1>1, <2>1 DEF Flags
<1>9. FreeRing(g, f)
  <2>1. \A b \in Range(f) \cup {0} : g[b].nfree = h[b].nfree /\ g[b].pfree = h[b].pfree
    BY <1>2, <1>3, <1>4
  <2>2. \A k : Ring(f, k) \in Range(f) \cup {0}
    BY <1>1, FreeRingFacts DEF Ring
  <2> QED
    BY <1>1, <2>1, <2>2 DEF FreeRing
<1>10. NoFreePair(g, f)
  BY <1>2, <1>6 DEF NoFreePair
<1>11. \A b \in Block \ (c .. (c + blocks - 1)) : b \in Block \ B /\ b # c
  BY <1>2 DEF B
<1> QED
  BY <1>4, <1>5, <1>6, <1>7, <1>8, <1>9, <1>10, <1>11 DEF Pool, g

\* One step of FreeList, and of the walk over the runs, given the runs so far.
ListStep(h, run, k) ==
  IF k = 0 THEN h[0].nfree ELSE IF run[k - 1] = 0 THEN 0 ELSE h[run[k - 1]].nfree
WalkStep(h, run, k) ==
  IF k = 0 THEN 0 ELSE IF run[k - 1] = BlockLast THEN BlockLast ELSE h[run[k - 1]].next

\* A list that names each block once is not longer than there are blocks.
LEMMA RingIsShort ==
  ASSUME NEW h, NEW f, FreeRing(h, f)
  PROVE  Len(f) <= UMM_NUMBLOCKS
<1>1. f \in Seq(Block) /\ IsInjective(f) /\ Len(f) \in Nat
  BY FreeRingFacts
<1>2. f \in Injection(1 .. Len(f), Block)
  BY <1>1 DEF Injection, IsInjective
<1>3. IsFiniteSet(Block) /\ Cardinality(Block) = UMM_NUMBLOCKS
  <2>1. 0 \in Int /\ UMM_NUMBLOCKS - 1 \in Int /\ UMM_NUMBLOCKS >= 3 /\ UMM_NUMBLOCKS \in Nat
    BY HeapAssumption
  <2>2. /\ IsFiniteSet(Block)
        /\ Cardinality(Block) = IF 0 > UMM_NUMBLOCKS - 1 THEN 0 ELSE (UMM_NUMBLOCKS - 1) - 0 + 1
    BY <2>1, FS_Interval DEF Block
  <2> QED
    BY <2>1, <2>2
<1>4. Cardinality(1 .. Len(f)) <= Cardinality(Block)
  BY <1>2, <1>3, FS_Injection
<1>5. Cardinality(1 .. Len(f)) = Len(f)
  <2>1. 1 \in Int /\ Len(f) \in Int
    BY <1>1
  <2>2. Cardinality(1 .. Len(f)) = IF 1 > Len(f) THEN 0 ELSE Len(f) - 1 + 1
    BY <2>1, FS_Interval
  <2> QED
    BY <1>1, <2>2
<1> QED
  BY <1>3, <1>4, <1>5

\* FreeList follows the free list to its end.
LEMMA FreeListIsRing ==
  ASSUME NEW h, NEW f, FreeRing(h, f)
  PROVE  /\ DOMAIN FreeList(h) = 0 .. UMM_NUMBLOCKS
         /\ \A k \in 0 .. UMM_NUMBLOCKS : FreeList(h)[k] = Ring(f, k + 1)
<1> DEFINE N == UMM_NUMBLOCKS
           g == [k \in 0 .. N |-> Ring(f, k + 1)]
           fl == CHOOSE run : run = [k \in 0 .. N |-> ListStep(h, run, k)]
<1>1. FreeList(h) = fl
  BY DEF FreeList, ListStep
<1>2. N \in Nat
  BY HeapAssumption
<1>3. /\ Len(f) \in Nat /\ Ring(f, 0) = 0
      /\ \A k \in 1 .. Len(f) : Ring(f, k) # 0
      /\ \A k \in 0 .. Len(f) : h[Ring(f, k)].nfree = Ring(f, k + 1)
      /\ \A k \in Nat : k > Len(f) => Ring(f, k) = 0
  <2>1. \A k \in Nat : k > Len(f) => Ring(f, k) = 0
    BY FreeRingFacts DEF Ring
  <2>2. \A k \in 1 .. Len(f) : Ring(f, k) = f[k] /\ f[k] # 0
    BY FreeRingFacts
  <2> QED
    BY <2>1, <2>2, FreeRingFacts
<1>4. h[0].nfree = Ring(f, 1)
  <2>1. 0 \in 0 .. Len(f)
    BY <1>3
  <2>2. h[Ring(f, 0)].nfree = Ring(f, 0 + 1)
    BY <1>3, <2>1
  <2> QED
    BY <1>3, <2>2
<1>5. ASSUME NEW k \in Nat, k > 0
      PROVE  Ring(f, k + 1) = IF Ring(f, k) = 0 THEN 0 ELSE h[Ring(f, k)].nfree
  <2>1. CASE k <= Len(f)
    BY <1>3, <1>5, <2>1
  <2>2. CASE k > Len(f)
    BY <1>3, <2>2
  <2> QED
    BY <1>3, <2>1, <2>2
<1>6. g = [k \in 0 .. N |-> ListStep(h, g, k)]
  <2>1. ASSUME NEW k \in 0 .. N PROVE g[k] = ListStep(h, g, k)
    <3>1. CASE k = 0
      BY <1>4, <3>1 DEF ListStep
    <3>2. CASE k # 0
      <4>1. k - 1 \in 0 .. N /\ (k - 1) + 1 = k /\ k \in Nat /\ k > 0
        BY <1>2, <3>2
      <4>2. g[k - 1] = Ring(f, k) /\ g[k] = Ring(f, k + 1)
        BY <4>1
      <4> HIDE DEF g
      <4> QED
        BY <1>5, <3>2, <4>1, <4>2 DEF ListStep
    <3> QED
      BY <3>1, <3>2
  <2>2. g = [k \in 0 .. N |-> g[k]]
    OBVIOUS
  <2> HIDE DEF g
  <2> QED
    BY <2>1, <2>2
<1>7. fl = [k \in 0 .. N |-> ListStep(h, fl, k)]
  <2> HIDE DEF g
  <2> QED
    BY <1>6
<1> HIDE DEF fl
<1>8. DOMAIN fl = 0 .. N /\ \A k \in 0 .. N : fl[k] = ListStep(h, fl, k)
  BY <1>7
<1> DEFINE S == {k \in 0 .. N : fl[k] = Ring(f, k + 1)}
<1>9. 0 .. N \subseteq S
  <2>1. 0 \in S
    BY <1>2, <1>4, <1>8 DEF ListStep
  <2>2. ASSUME NEW k \in 0 .. (N - 1), k \in S PROVE k + 1 \in S
    <3>1. k + 1 \in 0 .. N /\ (k + 1) - 1 = k /\ k + 1 # 0 /\ k + 1 \in Nat /\ k + 1 > 0
      BY <1>2
    <3>2. fl[k + 1] = ListStep(h, fl, k + 1)
      BY <1>8, <3>1
    <3>3. fl[k + 1] = IF fl[k] = 0 THEN 0 ELSE h[fl[k]].nfree
      BY <3>1, <3>2 DEF ListStep
    <3>4. fl[k] = Ring(f, k + 1)
      BY <2>2
    <3>5. Ring(f, (k + 1) + 1) = IF Ring(f, k + 1) = 0 THEN 0 ELSE h[Ring(f, k + 1)].nfree
      BY <1>5, <3>1
    <3> QED
      BY <3>1, <3>3, <3>4, <3>5
  <2> HIDE DEF S
  <2> QED
    BY <1>2, <2>1, <2>2, StepsReach
<1> QED
  BY <1>1, <1>8, <1>9

\* It finds every free run, and nothing else before its end.
LEMMA FreeListComplete ==
  ASSUME NEW h, NEW f, FreeRing(h, f)
  PROVE  {FreeList(h)[k] : k \in DOMAIN FreeList(h)} \ {0} = Range(f)
<1>1. /\ DOMAIN FreeList(h) = 0 .. UMM_NUMBLOCKS
      /\ \A k \in 0 .. UMM_NUMBLOCKS : FreeList(h)[k] = Ring(f, k + 1)
  BY FreeListIsRing
<1>2. UMM_NUMBLOCKS \in Nat /\ Len(f) \in Nat /\ Len(f) <= UMM_NUMBLOCKS
  BY HeapAssumption, FreeRingFacts, RingIsShort
<1>3. \A k : Ring(f, k) \in Range(f) \cup {0}
  BY FreeRingFacts DEF Ring
<1>4. ASSUME NEW b \in Range(f)
      PROVE  b # 0 /\ \E k \in 0 .. UMM_NUMBLOCKS : FreeList(h)[k] = b
  <2>1. PICK k \in 1 .. Len(f) : b = Ring(f, k)
    BY FreeRingFacts
  <2>2. k - 1 \in 0 .. UMM_NUMBLOCKS /\ (k - 1) + 1 = k
    BY <1>2
  <2>3. FreeList(h)[k - 1] = Ring(f, (k - 1) + 1)
    BY <1>1, <2>2
  <2> QED
    BY <2>1, <2>2, <2>3, FreeRingFacts
<1> QED
  BY <1>1, <1>3, <1>4

\* The best fit is a free run that is long enough, and there is one unless all are too short.
LEMMA BestFitFits ==
  ASSUME NEW h, NEW R, NEW f, Pool(h, R, f), NEW blocks \in Nat
  PROVE  /\ Fitting(h, blocks) # {} =>
              BestFit(h, blocks) \in Range(f) /\ SizeOf(h, BestFit(h, blocks)) >= blocks
         /\ Fitting(h, blocks) = {} => \A b \in Range(f) : SizeOf(h, b) < blocks
<1>1. FreeRing(h, f) /\ Chain(h, R) /\ Range(f) \subseteq R \ {0, BlockLast}
  BY FlagFacts DEF Pool
<1>2. \A b \in Range(f) : SizeOf(h, b) \in Nat /\ b # 0
  BY <1>1, ChainFacts DEF SizeOf
<1>3. {FreeList(h)[k] : k \in DOMAIN FreeList(h)} \ {0} = Range(f)
  BY <1>1, FreeListComplete
<1>4. DOMAIN FreeList(h) \subseteq Nat
  BY <1>1, HeapAssumption, FreeListIsRing
<1>5. ASSUME Fitting(h, blocks) = {}, NEW b \in Range(f) PROVE SizeOf(h, b) < blocks
  <2>1. PICK k \in DOMAIN FreeList(h) : FreeList(h)[k] = b
    BY <1>3
  <2>2. ~(SizeOf(h, b) >= blocks)
    BY <1>2, <1>5, <2>1 DEF Fitting
  <2> QED
    BY <1>2, <2>2
<1>6. ASSUME Fitting(h, blocks) # {}
      PROVE  BestFit(h, blocks) \in Range(f) /\ SizeOf(h, BestFit(h, blocks)) >= blocks
  <2> DEFINE F == Fitting(h, blocks)
             size(k) == SizeOf(h, FreeList(h)[k])
             Best(k) == k \in F /\ \A j \in F : size(k) < size(j) \/ (size(k) = size(j) /\ k <= j)
  <2>1. /\ F \subseteq Nat /\ F # {}
        /\ \A k \in F : FreeList(h)[k] \in Range(f) /\ size(k) \in Nat /\ size(k) >= blocks
    BY <1>2, <1>3, <1>4, <1>6 DEF Fitting
  <2>2. BestFit(h, blocks) = FreeList(h)[CHOOSE k \in F : \A j \in F :
                               size(k) < size(j) \/ (size(k) = size(j) /\ k <= j)]
    BY DEF BestFit
  <2> HIDE DEF F, size
  <2>3. \E k \in F : Best(k)
    <3> DEFINE lengths == {size(k) : k \in F}
    <3>1. lengths \in SUBSET Nat /\ lengths # {}
      BY <2>1
    <3>2. PICK least \in lengths : \A m \in lengths : least <= m
      <4> HIDE DEF lengths
      <4> QED
        BY <3>1, NatSetHasMinimum
    <3> DEFINE shortest == {k \in F : size(k) = least}
    <3>3. shortest \in SUBSET Nat /\ shortest # {}
      BY <2>1
    <3>4. PICK k \in shortest : \A j \in shortest : k <= j
      <4> HIDE DEF shortest
      <4> QED
        BY <3>3, NatSetHasMinimum
    <3>5. ASSUME NEW j \in F PROVE size(k) < size(j) \/ (size(k) = size(j) /\ k <= j)
      <4>1. least <= size(j) /\ least \in Nat /\ size(j) \in Nat
        BY <2>1, <3>2
      <4>2. size(j) = least => k <= j
        BY <3>4
      <4> QED
        BY <4>1, <4>2
    <3> QED
      BY <3>5
  <2>4. (CHOOSE k \in F : \A j \in F : size(k) < size(j) \/ (size(k) = size(j) /\ k <= j)) \in F
    BY <2>3
  <2> QED
    BY <2>1, <2>2, <2>4 DEF size
<1> QED
  BY <1>5, <1>6

\* The walk over the runs meets all of them: it goes up by at least one block a step, so it
\* comes to the last one, and what lies between two of its places begins no run.
LEMMA RunsRight ==
  ASSUME NEW R, Chain(heap, R)
  PROVE  Runs = R
<1> DEFINE N == UMM_NUMBLOCKS
           run == CHOOSE g : g = [k \in Block |-> WalkStep(heap, g, k)]
<1>1. Runs = {run[k] : k \in Block}
  BY DEF Runs, WalkStep
<1>2. N \in Nat /\ N >= 3 /\ Block = 0 .. (N - 1) /\ BlockLast = N - 1
  BY HeapAssumption DEF Block, BlockLast
<1>3. /\ 0 \in R /\ BlockLast \in R /\ R \subseteq Block
      /\ \A b \in R : b \in Nat /\ b <= BlockLast
      /\ \A b \in R \ {BlockLast} : heap[b].next \in R /\ heap[b].next > b
      /\ \A b \in R \ {BlockLast} : \A r \in R : r <= b \/ r >= heap[b].next
  BY ChainFacts, BlockFacts
<1>4. \E g : g = [k \in Block |-> WalkStep(heap, g, k)]
  <2> DEFINE S == {k \in 0 .. (N - 1) : \E g : g = [j \in 0 .. k |-> WalkStep(heap, g, j)]}
  <2>1. 0 \in S
    <3>1. [j \in 0 .. 0 |-> 0] = [j \in 0 .. 0 |-> WalkStep(heap, [k \in 0 .. 0 |-> 0], j)]
      BY DEF WalkStep
    <3> QED
      BY <1>2, <3>1
  <2>2. ASSUME NEW k \in 0 .. ((N - 1) - 1), k \in S PROVE k + 1 \in S
    <3>1. PICK g : g = [j \in 0 .. k |-> WalkStep(heap, g, j)]
      BY <2>2
    <3> DEFINE more == [j \in 0 .. (k + 1) |-> IF j = k + 1 THEN WalkStep(heap, g, j) ELSE g[j]]
    <3>2. ASSUME NEW j \in 0 .. (k + 1) PROVE more[j] = WalkStep(heap, more, j)
      <4>1. WalkStep(heap, more, j) = WalkStep(heap, g, j)
        <5>1. j # 0 => j - 1 \in 0 .. (k + 1) /\ j - 1 # k + 1
          OBVIOUS
        <5>2. j # 0 => more[j - 1] = g[j - 1]
          BY <5>1
        <5> HIDE DEF more
        <5> QED
          BY <5>2 DEF WalkStep
      <4>2. j # k + 1 => g[j] = WalkStep(heap, g, j)
        <5>1. j # k + 1 => j \in 0 .. k
          OBVIOUS
        <5> QED
          BY <3>1, <5>1
      <4> QED
        BY <4>1, <4>2
    <3>3. more = [j \in 0 .. (k + 1) |-> WalkStep(heap, more, j)]
      BY <3>2
    <3> HIDE DEF more
    <3>4. k + 1 \in 0 .. (N - 1)
      BY <1>2
    <3> QED
      BY <3>3, <3>4
  <2>3. 0 .. (N - 1) \subseteq S
    <3>1. N - 1 \in Nat
      BY <1>2
    <3> HIDE DEF S
    <3> QED
      BY <2>1, <2>2, <3>1, StepsReach
  <2> QED
    BY <1>2, <2>3
<1>5. run = [k \in Block |-> WalkStep(heap, run, k)]
  BY <1>4
<1> HIDE DEF run
<1>6. \A k \in 0 .. (N - 1) : run[k] = WalkStep(heap, run, k)
  BY <1>2, <1>5
<1>7. /\ run[0] = 0
      /\ \A k \in 0 .. ((N - 1) - 1) :
           run[k + 1] = IF run[k] = BlockLast THEN BlockLast ELSE heap[run[k]].next
  <2>1. run[0] = 0
    BY <1>2, <1>6 DEF WalkStep
  <2>2. ASSUME NEW k \in 0 .. ((N - 1) - 1)
        PROVE  run[k + 1] = IF run[k] = BlockLast THEN BlockLast ELSE heap[run[k]].next
    <3>1. k + 1 \in 0 .. (N - 1) /\ k + 1 # 0 /\ (k + 1) - 1 = k
      BY <1>2
    <3>2. run[k + 1] = WalkStep(heap, run, k + 1)
      BY <1>6, <3>1
    <3> QED
      BY <3>1, <3>2 DEF WalkStep
  <2> QED
    BY <2>1, <2>2
<1>8. N - 1 \in Nat /\ N - 1 \in 0 .. (N - 1)
  BY <1>2
<1>9. \A k \in 0 .. (N - 1) : run[k] \in R
  <2> DEFINE S == {k \in 0 .. (N - 1) : run[k] \in R}
  <2>1. 0 \in S
    BY <1>2, <1>3, <1>7
  <2>2. ASSUME NEW k \in 0 .. ((N - 1) - 1), k \in S PROVE k + 1 \in S
    <3>1. k + 1 \in 0 .. (N - 1)
      BY <1>2
    <3> QED
      BY <1>3, <1>7, <2>2, <3>1
  <2>3. 0 .. (N - 1) \subseteq S
    <3> HIDE DEF S
    <3> QED
      BY <1>8, <2>1, <2>2, StepsReach
  <2> QED
    BY <2>3
<1>10. ASSUME NEW r \in R, \A k \in 0 .. (N - 1) : run[k] # r PROVE FALSE
  <2> DEFINE S == {k \in 0 .. (N - 1) : run[k] < r /\ run[k] >= k}
  <2>1. 0 \in S
    <3>1. run[0] # r
      BY <1>2, <1>10
    <3> QED
      BY <1>2, <1>3, <1>7, <3>1
  <2>2. ASSUME NEW k \in 0 .. ((N - 1) - 1), k \in S PROVE k + 1 \in S
    <3>1. k + 1 \in 0 .. (N - 1) /\ k \in 0 .. (N - 1)
      BY <1>2
    <3>2. run[k] \in R /\ run[k + 1] \in R /\ run[k] \in Nat /\ run[k + 1] \in Nat /\ r \in Nat
      BY <1>3, <1>9, <3>1
    <3>3. run[k] # BlockLast
      BY <1>2, <1>3, <2>2, <3>2
    <3>4. run[k + 1] = heap[run[k]].next /\ run[k + 1] > run[k] /\ (r <= run[k] \/ r >= run[k + 1])
      BY <1>3, <1>7, <3>2, <3>3
    <3>5. run[k + 1] # r
      BY <1>10, <3>1
    <3> QED
      BY <2>2, <3>1, <3>2, <3>4, <3>5
  <2>3. 0 .. (N - 1) \subseteq S
    <3> HIDE DEF S
    <3> QED
      BY <1>8, <2>1, <2>2, StepsReach
  <2>4. run[N - 1] < r /\ run[N - 1] >= N - 1
    BY <1>8, <2>3
  <2>5. run[N - 1] \in Nat /\ r \in Nat /\ r <= N - 1
    BY <1>2, <1>3, <1>8, <1>9
  <2> QED
    BY <1>2, <2>4, <2>5
<1> QED
  BY <1>1, <1>2, <1>9, <1>10

\* The runs that callers own, and what each of them looks like.
Claimed(q) == {b \in Block : q[b] # 0}
Owned(h, q, b) == h[b].next = b + umm_blocks(q[b]) /\ Written(h, b, umm_blocks(q[b]))

\* The heap of R runs with f for its free list and q for what its callers asked for.
PoolRight(h, q, R, f) ==
  /\ Pool(h, R, f) /\ NoFreePair(h, f)
  /\ R \ Range(f) = Claimed(q) \cup {0, BlockLast}
  /\ 0 \notin Claimed(q) /\ BlockLast \notin Claimed(q)
  /\ \A b \in Claimed(q) : Owned(h, q, b)

LEMMA BlocksEnough ==
  ASSUME NEW size \in Nat \ {0}
  PROVE  /\ umm_blocks(size) \in Nat /\ umm_blocks(size) > 0
         /\ size <= BLOCK * umm_blocks(size) - HEADER
         /\ BLOCK * umm_blocks(size) - HEADER - size < BLOCK
<1>1. BLOCK = 16 /\ HEADER = 8
  BY DEF BLOCK, HEADER
<1>2. CASE size <= 8
  BY <1>1, <1>2 DEF umm_blocks
<1>3. CASE size > 8
  <2> DEFINE q == (size - 9) \div 16
  <2>1. q \in Nat /\ 16 * q <= size - 9 /\ size - 9 < 16 * q + 16
    BY <1>3
  <2>2. umm_blocks(size) = 2 + q
    BY <1>1, <1>3 DEF umm_blocks
  <2> HIDE DEF q
  <2> QED
    BY <1>1, <2>1, <2>2
<1> QED
  BY <1>2, <1>3

\* A caller's run that is spared stays the caller's.
LEMMA OwnedStays ==
  ASSUME NEW h, NEW g, NEW q, NEW R, NEW S, NEW W, NEW K,
         Chain(h, R), Chain(g, S), W \subseteq R \cup S,
         Spared(h, g, W, K), NEW b \in K, b \in R, b \in S, b # BlockLast,
         umm_blocks(q[b]) \in Nat, Owned(h, q, b)
  PROVE  Owned(g, q, b)
<1> DEFINE n == umm_blocks(q[b])
<1>1. h[b].next = b + n /\ Written(h, b, n)
  BY DEF Owned
<1>2. n \in Nat
  OBVIOUS
<1> HIDE DEF n
<1>3. g[b].next = h[b].next /\ g[b].nfree = h[b].nfree /\ g[b].pfree = h[b].pfree
  BY DEF Spared
<1>4. /\ b \in Nat /\ b + n \in Block
      /\ (\A r \in R : r <= b \/ r >= b + n) /\ (\A r \in S : r <= b \/ r >= b + n)
  <2>1. R \subseteq Block /\ b \in R \ {BlockLast} /\ h[b].next \in R /\ b \in Nat
        /\ \A r \in R : r <= b \/ r >= h[b].next
    BY ChainFacts
  <2>2. b \in S \ {BlockLast} /\ \A r \in S : r <= b \/ r >= g[b].next
    BY ChainFacts
  <2> QED
    BY <1>1, <1>3, <2>1, <2>2
<1>5. ASSUME NEW x \in (b + 1) .. (b + n - 1)
      PROVE  /\ g[x].next = Data /\ g[x].prev = Data
             /\ g[x].nfree = Data /\ g[x].pfree = Data
  <2>1. x \in Block
    BY <1>2, <1>4, BlockFacts
  <2>2. x \notin R /\ x \notin S
    BY <1>2, <1>4
  <2>3. x \in Block \ W
    BY <2>1, <2>2
  <2>4. /\ g[x].next = h[x].next /\ g[x].prev = h[x].prev
        /\ g[x].nfree = h[x].nfree /\ g[x].pfree = h[x].pfree
    BY <2>3 DEF Spared
  <2> QED
    BY <1>1, <2>4 DEF Written
<1>6. g[b].next = b + n /\ Written(g, b, n)
  BY <1>1, <1>3, <1>5 DEF Written
<1> QED
  BY <1>6 DEF Owned, n

LEMMA FreeStep ==
  ASSUME NEW h, NEW q \in [Block -> Nat], NEW R, NEW f, PoolRight(h, q, R, f), NEW c \in Claimed(q)
  PROVE  \E S, r : PoolRight(Freed(h, c), [q EXCEPT ![c] = 0], S, r)
<1> DEFINE g == Freed(h, c)
           p == [q EXCEPT ![c] = 0]
           K == R \ (Range(f) \cup {0, c})
<1>1. /\ Pool(h, R, f) /\ NoFreePair(h, f)
      /\ R \ Range(f) = Claimed(q) \cup {0, BlockLast}
      /\ 0 \notin Claimed(q) /\ BlockLast \notin Claimed(q)
      /\ \A b \in Claimed(q) : Owned(h, q, b)
  BY DEF PoolRight
<1>2. c \in R \ (Range(f) \cup {0, BlockLast}) /\ c \in Block
  BY <1>1 DEF Claimed
<1>3. PICK S, r : /\ Pool(g, S, r) /\ S \subseteq R
                  /\ S \ Range(r) = (R \ Range(f)) \ {c}
                  /\ NoFreePair(g, r)
                  /\ Spared(h, g, R, K)
  <2> HIDE DEF g
  <2>1. \E S, r : /\ Pool(Freed(h, c), S, r) /\ S \subseteq R
                  /\ S \ Range(r) = (R \ Range(f)) \ {c}
                  /\ NoFreePair(Freed(h, c), r)
                  /\ Spared(h, Freed(h, c), R, R \ (Range(f) \cup {0, c}))
    BY <1>1, <1>2, FreedRight
  <2> QED
    BY <2>1 DEF g
<1> HIDE DEF g
<1>4. p \in [Block -> Nat] /\ \A b \in Block : p[b] = IF b = c THEN 0 ELSE q[b]
  BY <1>2
<1> HIDE DEF p
<1>5. Claimed(p) = Claimed(q) \ {c}
  BY <1>4 DEF Claimed
<1>6. S \ Range(r) = Claimed(p) \cup {0, BlockLast}
  BY <1>1, <1>2, <1>3, <1>5
<1>7. ASSUME NEW b \in Claimed(p) PROVE Owned(g, p, b)
  <2>1. b \in Claimed(q) /\ b # c /\ b \in Block /\ p[b] = q[b] /\ q[b] \in Nat \ {0}
    BY <1>4, <1>5 DEF Claimed
  <2>2. b \in K /\ b \in R /\ b \in S /\ b # BlockLast
    BY <1>1, <1>6, <2>1
  <2>3. umm_blocks(q[b]) \in Nat
    BY <2>1, BlocksEnough
  <2>4. Chain(h, R) /\ Chain(g, S) /\ R \subseteq R \cup S /\ Owned(h, q, b)
    BY <1>1, <1>3, <2>1 DEF Pool
  <2> HIDE DEF K
  <2>5. Owned(g, q, b)
    BY <1>3, <2>2, <2>3, <2>4, OwnedStays
  <2> QED
    BY <2>1, <2>5 DEF Owned
<1>8. PoolRight(g, p, S, r)
  BY <1>1, <1>3, <1>5, <1>6, <1>7 DEF PoolRight
<1> QED
  BY <1>8 DEF g, p

LEMMA TakeStep ==
  ASSUME NEW h, NEW q \in [Block -> Nat], NEW R, NEW f, PoolRight(h, q, R, f), NEW c \in Range(f),
         NEW size \in Nat \ {0}, SizeOf(h, c) >= umm_blocks(size)
  PROVE  /\ \E S, r : PoolRight(Filled(TakeRun(h, c, umm_blocks(size)), c, umm_blocks(size)),
                                [q EXCEPT ![c] = size], S, r)
         /\ c \in Block /\ c \notin Claimed(q) /\ c # 0 /\ c # BlockLast
<1> DEFINE n == umm_blocks(size)
           t == TakeRun(h, c, n)
           g == Filled(t, c, n)
           p == [q EXCEPT ![c] = size]
           K == R \ (Range(f) \cup {0})
<1>1. /\ Pool(h, R, f) /\ NoFreePair(h, f)
      /\ R \ Range(f) = Claimed(q) \cup {0, BlockLast}
      /\ 0 \notin Claimed(q) /\ BlockLast \notin Claimed(q)
      /\ \A b \in Claimed(q) : Owned(h, q, b)
  BY DEF PoolRight
<1>2. n \in Nat /\ n > 0
  BY BlocksEnough
<1>3. c \in R /\ c \in Block /\ c # 0 /\ c # BlockLast /\ c \notin Claimed(q) /\ c \in Nat
      /\ SizeOf(h, c) \in Nat /\ Range(f) \subseteq R
  BY <1>1, FlagFacts, ChainFacts DEF SizeOf, Pool
<1>4. n <= SizeOf(h, c)
  BY <1>2, <1>3
<1> HIDE DEF n
<1>5. PICK S, r : /\ Pool(t, S, r) /\ R \subseteq S
                  /\ S \ Range(r) = (R \ Range(f)) \cup {c}
                  /\ NoFreePair(t, r)
                  /\ t[c].next = c + n
                  /\ Spared(h, t, S, K)
  <2>1. \E S, r : /\ Pool(TakeRun(h, c, n), S, r) /\ R \subseteq S
                  /\ S \ Range(r) = (R \ Range(f)) \cup {c}
                  /\ NoFreePair(TakeRun(h, c, n), r)
                  /\ TakeRun(h, c, n)[c].next = c + n
                  /\ Spared(h, TakeRun(h, c, n), S, R \ (Range(f) \cup {0}))
    BY <1>1, <1>2, <1>4, TakenRight
  <2> QED
    BY <2>1
<1> HIDE DEF t
<1>6. c \in S \ (Range(r) \cup {0, BlockLast})
  BY <1>3, <1>5
<1>7. /\ Pool(g, S, r) /\ NoFreePair(g, r) /\ g[c].next = c + n /\ Written(g, c, n)
      /\ \A b \in Block \ (c .. (c + n - 1)) :
           /\ g[b].next = t[b].next /\ g[b].prev = t[b].prev
           /\ g[b].nfree = t[b].nfree /\ g[b].pfree = t[b].pfree
  BY <1>2, <1>5, <1>6, FilledRight
<1> HIDE DEF g
<1>8. p \in [Block -> Nat] /\ \A b \in Block : p[b] = IF b = c THEN size ELSE q[b]
  BY <1>3
<1> HIDE DEF p
<1>9. Claimed(p) = Claimed(q) \cup {c}
  BY <1>3, <1>8 DEF Claimed
<1>10. S \ Range(r) = Claimed(p) \cup {0, BlockLast}
  BY <1>1, <1>5, <1>9
<1>11. ASSUME NEW b \in Claimed(q) PROVE Owned(g, p, b)
  <2> DEFINE m == umm_blocks(q[b])
  <2>1. b # c /\ b \in Block /\ p[b] = q[b] /\ q[b] \in Nat \ {0}
    BY <1>3, <1>8 DEF Claimed
  <2>2. b \in K /\ b \in R /\ b \in S /\ b # BlockLast /\ c \in S
    BY <1>1, <1>5, <1>6
  <2>3. m \in Nat
    BY <2>1, BlocksEnough
  <2>4. Chain(h, R) /\ Chain(t, S) /\ S \subseteq R \cup S /\ Owned(h, q, b)
    BY <1>1, <1>5 DEF Pool
  <2>5. Owned(t, q, b)
    <3> HIDE DEF K
    <3> QED
      BY <1>5, <2>2, <2>3, <2>4, OwnedStays
  <2>6. t[b].next = b + m /\ Written(t, b, m)
    BY <2>5 DEF Owned
  <2> HIDE DEF m
  <2>7. b \in Nat /\ b + m \in Block /\ (c < b \/ c >= b + m) /\ (b < c \/ b >= c + n)
    <3>1. b \in S \ {BlockLast} /\ c \in S \ {BlockLast} /\ S \subseteq Block
      BY <1>3, <2>2, <2>4, ChainFacts
    <3>2. /\ b \in Nat /\ t[b].next \in S /\ (c <= b \/ c >= t[b].next) /\ (b <= c \/ b >= t[c].next)
      BY <2>2, <2>4, <3>1, ChainFacts
    <3> QED
      BY <1>2, <1>3, <1>5, <2>1, <2>3, <2>6, <3>1, <3>2
  <2>8. \A x \in b .. (b + m - 1) : x \in Block \ (c .. (c + n - 1))
    <3>1. \A x \in b .. (b + m - 1) : x \in Block
      BY <2>3, <2>7, BlockFacts
    <3> QED
      BY <1>2, <1>3, <2>1, <2>3, <2>7, <3>1
  <2>9. b \in Block \ (c .. (c + n - 1))
    BY <1>2, <1>3, <2>1, <2>3, <2>7
  <2>10. \A x \in (b + 1) .. (b + m - 1) : x \in b .. (b + m - 1)
    BY <2>3, <2>7
  <2>11. g[b].next = b + m /\ Written(g, b, m)
    BY <1>7, <2>6, <2>8, <2>9, <2>10 DEF Written
  <2> QED
    BY <2>1, <2>11 DEF Owned, m
<1>12. Owned(g, p, c)
  BY <1>3, <1>7, <1>8 DEF Owned, n
<1>13. PoolRight(g, p, S, r)
  BY <1>1, <1>3, <1>7, <1>9, <1>10, <1>11, <1>12 DEF PoolRight
<1> QED
  BY <1>3, <1>13 DEF g, t, n, p

PoolTypes ==
  /\ initialized \in BOOLEAN
  /\ requested \in [Block -> Nat]
  /\ answer.result \in Block

PoolInv ==
  /\ PoolTypes
  /\ initialized => \E R, f : PoolRight(heap, requested, R, f)
  /\ ~initialized => heap = Zeroed /\ requested = [b \in Block |-> 0]

LEMMA ZeroedFields ==
  /\ Zeroed \in Heaps
  /\ \A b \in Block : /\ Zeroed[b].next = 0 /\ Zeroed[b].prev = 0
                      /\ Zeroed[b].nfree = 0 /\ Zeroed[b].pfree = 0
  /\ Marked(Zeroed) = {}
<1>1. 0 \in Values /\ FALSE \in Values
  BY BlockFacts DEF Values
<1>2. Zeroed \in Heaps
  BY <1>1 DEF Zeroed, Heaps
<1>3. \A b \in Block : Zeroed[b].next = 0 /\ Zeroed[b].prev = 0 /\ Zeroed[b].nfree = 0
                       /\ Zeroed[b].pfree = 0
  BY DEF Zeroed
<1>4. \A b \in Block : Zeroed[b].free = FALSE
  BY DEF Zeroed
<1> QED
  BY <1>2, <1>3, <1>4 DEF Marked

\* The heap behind umm_init: one free run between the first and the last block.
LEMMA FirstHeap ==
  ASSUME PoolInv, UmmSetHeap
  PROVE  PoolRight(heap', requested', {0, 1, BlockLast}, <<1>>)
<1> DEFINE h1 == SetNext(heap, 0, 1)
           h2 == SetNfree(h1, 0, 1)
           h3 == SetPfree(h2, 0, 1)
           h4 == SetNext(h3, 1, BlockLast)
           h5 == MarkFree(h4, 1)
           h6 == SetNfree(h5, 1, 0)
           h7 == SetPrev(h6, 1, 0)
           h8 == SetPfree(h7, 1, 0)
           h9 == SetNext(h8, BlockLast, 0)
           g == SetPrev(h9, BlockLast, 1)
<1>1. heap = Zeroed /\ requested = [b \in Block |-> 0] /\ requested' = requested
  BY DEF UmmSetHeap, PoolInv
<1>2. heap' = g
  BY DEF UmmSetHeap, SetNext, SetPrev, SetNfree, SetPfree, MarkFree
<1>3. 0 \in Block /\ 1 \in Block /\ BlockLast \in Block /\ 0 \in Values /\ 1 \in Values
      /\ BlockLast \in Values /\ BlockLast # 0 /\ BlockLast # 1 /\ BlockLast > 1 /\ BlockLast \in Nat
  BY BlockFacts, ValuesFacts
<1>4. /\ heap \in Heaps /\ Marked(heap) = {}
      /\ \A b \in Block : heap[b].next = 0 /\ heap[b].prev = 0 /\ heap[b].nfree = 0
                          /\ heap[b].pfree = 0
  BY <1>1, ZeroedFields
<1>5. /\ h1 \in Heaps /\ Marked(h1) = Marked(heap)
      /\ \A b \in Block : /\ h1[b].next = IF b = 0 THEN 1 ELSE heap[b].next
                          /\ h1[b].prev = heap[b].prev
                          /\ h1[b].nfree = heap[b].nfree /\ h1[b].pfree = heap[b].pfree
  <2>1. heap \in Heaps /\ 0 \in Block /\ 1 \in Values
    BY <1>3, <1>4
  <2> QED
    BY ONLY <2>1, SetNextFields
<1> HIDE DEF h1
<1>6. /\ h2 \in Heaps /\ Marked(h2) = Marked(h1)
      /\ \A b \in Block : /\ h2[b].nfree = IF b = 0 THEN 1 ELSE h1[b].nfree
                          /\ h2[b].next = h1[b].next
                          /\ h2[b].prev = h1[b].prev /\ h2[b].pfree = h1[b].pfree
  BY <1>3, <1>5, SetNfreeFields
<1> HIDE DEF h2
<1>7. /\ h3 \in Heaps /\ Marked(h3) = Marked(h2)
      /\ \A b \in Block : /\ h3[b].pfree = IF b = 0 THEN 1 ELSE h2[b].pfree
                          /\ h3[b].next = h2[b].next
                          /\ h3[b].prev = h2[b].prev /\ h3[b].nfree = h2[b].nfree
  BY <1>3, <1>6, SetPfreeFields
<1> HIDE DEF h3
<1>8. /\ h4 \in Heaps /\ Marked(h4) = Marked(h3)
      /\ \A b \in Block : /\ h4[b].next = IF b = 1 THEN BlockLast ELSE h3[b].next
                          /\ h4[b].prev = h3[b].prev
                          /\ h4[b].nfree = h3[b].nfree /\ h4[b].pfree = h3[b].pfree
  BY <1>3, <1>7, SetNextFields
<1> HIDE DEF h4
<1>9. /\ h5 \in Heaps /\ Marked(h5) = Marked(h4) \cup {1}
      /\ \A b \in Block : /\ h5[b].next = h4[b].next /\ h5[b].prev = h4[b].prev
                          /\ h5[b].nfree = h4[b].nfree /\ h5[b].pfree = h4[b].pfree
  BY <1>3, <1>8, MarkFreeFields
<1> HIDE DEF h5
<1>10. h5 \in Heaps
  BY <1>9
<1>11. /\ h6 \in Heaps /\ Marked(h6) = Marked(h5)
       /\ \A b \in Block : /\ h6[b].nfree = IF b = 1 THEN 0 ELSE h5[b].nfree
                           /\ h6[b].next = h5[b].next
                           /\ h6[b].prev = h5[b].prev /\ h6[b].pfree = h5[b].pfree
  BY <1>3, <1>10, SetNfreeFields
<1> HIDE DEF h6
<1>12. /\ h7 \in Heaps /\ Marked(h7) = Marked(h6)
       /\ \A b \in Block : /\ h7[b].prev = IF b = 1 THEN 0 ELSE h6[b].prev
                           /\ h7[b].next = h6[b].next
                           /\ h7[b].nfree = h6[b].nfree /\ h7[b].pfree = h6[b].pfree
  BY <1>3, <1>11, SetPrevFields
<1> HIDE DEF h7
<1>13. /\ h8 \in Heaps /\ Marked(h8) = Marked(h7)
       /\ \A b \in Block : /\ h8[b].pfree = IF b = 1 THEN 0 ELSE h7[b].pfree
                           /\ h8[b].next = h7[b].next
                           /\ h8[b].prev = h7[b].prev /\ h8[b].nfree = h7[b].nfree
  BY <1>3, <1>12, SetPfreeFields
<1> HIDE DEF h8
<1>14. /\ h9 \in Heaps /\ Marked(h9) = Marked(h8)
       /\ \A b \in Block : /\ h9[b].next = IF b = BlockLast THEN 0 ELSE h8[b].next
                           /\ h9[b].prev = h8[b].prev
                           /\ h9[b].nfree = h8[b].nfree /\ h9[b].pfree = h8[b].pfree
  BY <1>3, <1>13, SetNextFields
<1> HIDE DEF h9
<1>15. /\ g \in Heaps /\ Marked(g) = Marked(h9)
       /\ \A b \in Block : /\ g[b].prev = IF b = BlockLast THEN 1 ELSE h9[b].prev
                           /\ g[b].next = h9[b].next
                           /\ g[b].nfree = h9[b].nfree /\ g[b].pfree = h9[b].pfree
  BY <1>3, <1>14, SetPrevFields
<1> HIDE DEF g
<1>16. /\ g \in Heaps /\ Marked(g) = {1}
       /\ g[0].next = 1 /\ g[0].prev = 0 /\ g[0].nfree = 1 /\ g[0].pfree = 1
       /\ g[1].next = BlockLast /\ g[1].prev = 0 /\ g[1].nfree = 0 /\ g[1].pfree = 0
       /\ g[BlockLast].prev = 1
  <2>1. Marked(g) = {1}
    BY <1>4, <1>5, <1>6, <1>7, <1>8, <1>9, <1>11, <1>12, <1>13, <1>14, <1>15
  <2> QED
    BY <1>3, <1>4, <1>5, <1>6, <1>7, <1>8, <1>9, <1>11, <1>12, <1>13, <1>14, <1>15, <2>1
<1> DEFINE R == {0, 1, BlockLast}
           f == <<1>>
<1>17. Chain(g, R)
  BY <1>3, <1>16 DEF Chain
<1>18. f \in Seq(Block) /\ Len(f) = 1 /\ IsInjective(f) /\ Range(f) = {1} /\ f[1] = 1
  BY <1>3 DEF IsInjective, Range
<1> HIDE DEF f
<1>19. Ring(f, 0) = 0 /\ Ring(f, 1) = 1 /\ Ring(f, 2) = 0
  BY <1>18 DEF Ring
<1>20. FreeRing(g, f)
  <2>1. \A k \in 0 .. Len(f) : k = 0 \/ k = 1
    BY <1>18
  <2>2. 0 + 1 = 1 /\ 1 + 1 = 2
    OBVIOUS
  <2> QED
    BY <1>16, <1>18, <1>19, <2>1, <2>2 DEF FreeRing
<1>21. Flags(g, R, f)
  BY <1>3, <1>16, <1>18 DEF Flags
<1>22. Claimed(requested') = {}
  BY <1>1 DEF Claimed
<1>23. NoFreePair(g, f)
  BY <1>3, <1>16, <1>18 DEF NoFreePair
<1>24. R \ Range(f) = {0, BlockLast}
  BY <1>3, <1>18
<1>25. PoolRight(g, requested', R, f)
  BY <1>16, <1>17, <1>20, <1>21, <1>22, <1>23, <1>24 DEF PoolRight, Pool
<1> QED
  BY <1>2, <1>25 DEF f

\* What a call finds and leaves behind.
LEMMA MallocGives ==
  ASSUME PoolInv, NEW size \in Nat \ {0}, initialized, Fitting(heap, umm_blocks(size)) # {}
  PROVE  LET n == umm_blocks(size)
             c == BestFit(heap, n)
         IN  /\ \E R, f : PoolRight(Filled(TakeRun(heap, c, n), c, n),
                                    [requested EXCEPT ![c] = size], R, f)
             /\ c \in Block /\ c \notin Claimed(requested) /\ c # 0 /\ c # BlockLast
<1> DEFINE n == umm_blocks(size)
           c == BestFit(heap, n)
<1>1. PICK R, f : PoolRight(heap, requested, R, f)
  BY DEF PoolInv
<1>2. n \in Nat /\ requested \in [Block -> Nat] /\ Pool(heap, R, f)
  BY <1>1, BlocksEnough DEF PoolInv, PoolTypes, PoolRight
<1>3. c \in Range(f) /\ SizeOf(heap, c) >= n
  <2> HIDE DEF n
  <2> QED
    BY <1>2, BestFitFits DEF n
<1> HIDE DEF c
<1> QED
  BY <1>1, <1>2, <1>3, TakeStep DEF c

LEMMA PoolStep == PoolInv /\ [Sizes \subseteq Nat /\ Next]_vars => PoolInv'
<1> SUFFICES ASSUME PoolInv, [Sizes \subseteq Nat /\ Next]_vars PROVE PoolInv'
  OBVIOUS
<1>1. CASE UmmSetHeap
  <2>1. PoolRight(heap', requested', {0, 1, BlockLast}, <<1>>)
    BY <1>1, FirstHeap
  <2>2. PoolTypes' /\ initialized'
    BY <1>1, BlockFacts DEF UmmSetHeap, PoolInv, PoolTypes, Answer
  <2> QED
    BY <2>1, <2>2 DEF PoolInv
<1>2. ASSUME NEW size \in Sizes, UmmMalloc(size) PROVE PoolInv'
  <2> DEFINE n == umm_blocks(size)
             c == BestFit(heap, n)
  <2>1. CASE UNCHANGED <<heap, requested>> /\ answer' = Answer("malloc", BlocksFor(size), 0)
    BY <1>2, <2>1, BlockFacts DEF UmmMalloc, PoolInv, PoolTypes, Answer
  <2>2. CASE /\ initialized /\ size # 0 /\ Fitting(heap, BlocksFor(size)) # {}
             /\ heap' = Filled(TakeRun(heap, BestFit(heap, BlocksFor(size)), BlocksFor(size)),
                               BestFit(heap, BlocksFor(size)), BlocksFor(size))
             /\ requested' = [requested EXCEPT ![BestFit(heap, BlocksFor(size))] = size]
             /\ answer' = Answer("malloc", BlocksFor(size), BestFit(heap, BlocksFor(size)))
    <3>1. BlocksFor(size) = n /\ size \in Nat \ {0}
      BY <2>2, HeapAssumption DEF BlocksFor
    <3> HIDE DEF n
    <3>2. /\ Fitting(heap, n) # {} /\ heap' = Filled(TakeRun(heap, c, n), c, n)
          /\ requested' = [requested EXCEPT ![c] = size] /\ answer' = Answer("malloc", n, c)
          /\ initialized
      BY <2>2, <3>1
    <3>3. /\ \E R, f : PoolRight(Filled(TakeRun(heap, c, n), c, n),
                                 [requested EXCEPT ![c] = size], R, f)
          /\ c \in Block
      BY <3>1, <3>2, MallocGives DEF n
    <3> HIDE DEF c
    <3>4. PoolTypes' /\ initialized'
      BY <1>2, <3>1, <3>2, <3>3 DEF UmmMalloc, PoolInv, PoolTypes, Answer
    <3> QED
      BY <3>2, <3>3, <3>4 DEF PoolInv
  <2> QED
    BY <1>2, <2>1, <2>2 DEF UmmMalloc
<1>3. ASSUME NEW c \in Live, UmmFree(c) PROVE PoolInv'
  <2>1. PICK R, f : PoolRight(heap, requested, R, f)
    BY <1>3 DEF UmmFree, PoolInv
  <2>2. requested \in [Block -> Nat] /\ c \in Claimed(requested) /\ c \in Block
    BY DEF PoolInv, PoolTypes, Live, Claimed
  <2>3. /\ heap' = Freed(heap, c) /\ requested' = [requested EXCEPT ![c] = 0]
        /\ initialized /\ initialized' = initialized /\ answer' = Answer("free", 0, 1)
    BY <1>3 DEF UmmFree, Freed
  <2>4. \E S, r : PoolRight(Freed(heap, c), [requested EXCEPT ![c] = 0], S, r)
    BY <2>1, <2>2, FreeStep
  <2>5. PoolTypes'
    BY <2>2, <2>3, BlockFacts DEF PoolInv, PoolTypes, Answer
  <2> QED
    BY <2>3, <2>4, <2>5 DEF PoolInv
<1>4. CASE UmmFreeOther
  BY <1>4, BlockFacts DEF UmmFreeOther, PoolInv, PoolTypes, Answer
<1>5. CASE UNCHANGED vars
  BY <1>5 DEF vars, PoolInv, PoolTypes
<1> QED
  BY <1>1, <1>2, <1>3, <1>4, <1>5 DEF Next

LEMMA PoolInit == Init => PoolInv
<1> SUFFICES ASSUME Init PROVE PoolInv
  OBVIOUS
<1>1. PoolTypes
  BY BlockFacts DEF Init, PoolTypes, Answer
<1> QED
  BY <1>1 DEF Init, PoolInv

\* What the invariant says of the heap in use.
LEMMA PoolIsRight ==
  ASSUME NEW R, NEW f, PoolRight(heap, requested, R, f), PoolTypes, initialized
  PROVE  HeapRight
<1>1. /\ Pool(heap, R, f) /\ NoFreePair(heap, f)
      /\ R \ Range(f) = Live \cup {0, BlockLast}
      /\ 0 \notin Live /\ BlockLast \notin Live /\ Live \subseteq Block
      /\ \A b \in Live : Owned(heap, requested, b) /\ requested[b] \in Nat \ {0}
  <2>1. Live = Claimed(requested)
    BY DEF Live, Claimed
  <2> QED
    BY <2>1 DEF PoolRight, PoolTypes, Live
<1>2. /\ Chain(heap, R) /\ FreeRing(heap, f) /\ R \subseteq Block
      /\ Range(f) \subseteq R \ {0, BlockLast}
      /\ \A b \in R : heap[b].free <=> b \in Range(f)
  BY <1>1, FlagFacts DEF Pool
<1>3. Runs = R
  BY <1>2, RunsRight
<1>4. Free = Range(f)
  BY <1>2, <1>3 DEF Free
<1>5. /\ 0 \in R /\ BlockLast \in R /\ \A b \in R : b \in Nat
      /\ \A b \in R \ {BlockLast} : /\ heap[b].next \in R /\ heap[b].next > b
                                    /\ heap[heap[b].next].prev = b
      /\ \A b \in R \ {0} : heap[b].prev \in R
      /\ heap[0].prev = 0
  <2>1. heap[0].prev = 0
    BY <1>2 DEF Chain
  <2> QED
    BY <1>2, <2>1, ChainFacts
<1>6. BlockLast \in Nat /\ BlockLast > 1 /\ 0 \in Block
  BY BlockFacts
<1>7. Live \cup {0, BlockLast} \subseteq R /\ Live \subseteq R \ {0, BlockLast}
  BY <1>1
<1>8. TypeOK
  <2>1. \A b \in Live \cup {0} : heap[b].next \in Block /\ heap[b].prev \in Block
    <3>1. \A b \in Live \cup {0} : b \in R /\ b # BlockLast
      BY <1>5, <1>6, <1>7
    <3>2. \A b \in R \ {BlockLast} : heap[b].next \in Block
      BY <1>2, <1>5
    <3>3. \A b \in R : heap[b].prev \in Block
      BY <1>2, <1>5, <1>6
    <3> QED
      BY <3>1, <3>2, <3>3
  <2> QED
    BY <1>3, <1>7, <2>1 DEF TypeOK, PoolTypes
<1>9. Runs = Free \cup Live \cup {0, BlockLast} /\ Free \cap Live = {}
  BY <1>1, <1>2, <1>3, <1>4
<1>10. \A b \in Free : heap[b].next \notin Free
  BY <1>1, <1>4 DEF NoFreePair
<1>11. Free = {FreeList(heap)[k] : k \in DOMAIN FreeList(heap)} \ {0}
  BY <1>2, <1>4, FreeListComplete
<1>12. ASSUME NEW b \in Free \cup {0} PROVE heap[heap[b].nfree].pfree = b
  <2>1. PICK k \in 0 .. Len(f) : b = Ring(f, k)
    <3>1. Len(f) \in Nat /\ Ring(f, 0) = 0
          /\ \A a \in Range(f) : \E k \in 1 .. Len(f) : a = f[k] /\ a = Ring(f, k)
      BY <1>2, FreeRingFacts
    <3>2. b = 0 => 0 \in 0 .. Len(f) /\ b = Ring(f, 0)
      BY <3>1
    <3>3. b \in Range(f) => \E k \in 0 .. Len(f) : b = Ring(f, k)
      BY <3>1
    <3> QED
      BY <1>4, <1>12, <3>2, <3>3
  <2>2. heap[Ring(f, k)].nfree = Ring(f, k + 1) /\ heap[Ring(f, k + 1)].pfree = Ring(f, k)
    BY <1>2 DEF FreeRing
  <2> QED
    BY <2>1, <2>2
<1>13. HeapWellFormed
  BY <1>3, <1>5, <1>8, <1>9, <1>10, <1>11, <1>12 DEF HeapWellFormed
<1>14. ASSUME NEW c \in Live
       PROVE  /\ c \in Nat /\ umm_blocks(requested[c]) \in Nat
              /\ heap[c].next = c + umm_blocks(requested[c])
              /\ Written(heap, c, umm_blocks(requested[c]))
  BY <1>1, <1>5, <1>7, BlocksEnough DEF Owned
<1>15. CallersDataKept
  <2> SUFFICES ASSUME NEW c \in Live, NEW b \in c .. (heap[c].next - 1)
               PROVE  /\ heap[b].nfree = Data /\ heap[b].pfree = Data
                      /\ b # c => heap[b].next = Data /\ heap[b].prev = Data
    BY DEF CallersDataKept
  <2> DEFINE n == umm_blocks(requested[c])
  <2>1. c \in Nat /\ n \in Nat /\ heap[c].next = c + n /\ Written(heap, c, n)
    BY <1>14
  <2> HIDE DEF n
  <2>2. b = c \/ b \in (c + 1) .. (c + n - 1)
    BY <2>1
  <2> QED
    BY <2>1, <2>2 DEF Written
<1>16. EnoughButNotMore
  <2> SUFFICES ASSUME NEW c \in Live
               PROVE  /\ requested[c] <= BLOCK * SizeOf(heap, c) - HEADER
                      /\ (BLOCK * SizeOf(heap, c) - HEADER) - requested[c] < BLOCK
    BY DEF EnoughButNotMore
  <2>1. requested[c] \in Nat \ {0}
    BY <1>1
  <2>2. SizeOf(heap, c) = umm_blocks(requested[c])
    BY <1>14 DEF SizeOf
  <2> QED
    BY <2>1, <2>2, BlocksEnough
<1> QED
  BY <1>13, <1>15, <1>16 DEF HeapRight

LEMMA PoolInvIsEnough == PoolInv => HeapRight
<1> SUFFICES ASSUME PoolInv PROVE HeapRight
  OBVIOUS
<1>1. CASE initialized
  <2>1. PICK R, f : PoolRight(heap, requested, R, f)
    BY <1>1 DEF PoolInv
  <2> QED
    BY <1>1, <2>1, PoolIsRight DEF PoolInv
<1>2. CASE ~initialized
  <2>1. heap[0].next = 0 /\ heap[0].prev = 0 /\ 0 \in Block
    BY <1>2, ZeroedFields, BlockFacts DEF PoolInv
  <2>2. Live = {}
    BY <1>2 DEF PoolInv, Live
  <2>3. TypeOK
    BY <1>2, <2>1, <2>2 DEF TypeOK, PoolInv, PoolTypes
  <2> QED
    BY <1>2, <2>2, <2>3 DEF HeapRight, HeapWellFormed, CallersDataKept, EnoughButNotMore
<1> QED
  BY <1>1, <1>2 DEF PoolInv, PoolTypes

LEMMA PoolAlways == Spec => []PoolInv
<1>1. Sizes \subseteq Nat
  BY HeapAssumption
<1>2. PoolInv /\ [Next]_vars => PoolInv'
  BY <1>1, PoolStep
<1> QED
  BY <1>2, PoolInit, PTL DEF Spec

\* For every number of blocks and every set of sizes: whatever is asked for and given back
\* in whatever order, the runs stay linked both ways, the free list holds the free ones
\* exactly, callers keep their data and get what they asked for (UmmMalloc.c:116-210, 443-475).
THEOREM HeapStaysRight == Spec => []HeapRight
<1> QED
  BY PoolAlways, PoolInvIsEnough, PTL

\* The runs that are given out, as BlockHeap names them.
Given(q) == {[at |-> c, size |-> umm_blocks(q[c])] : c \in Claimed(q)}
Within(x, c, n) == x \in c .. (c + n - 1)

\* Callers' runs lie between the first and the last block, and apart from each other.
LEMMA RunsApart ==
  ASSUME NEW h, NEW q \in [Block -> Nat], NEW R, NEW f, PoolRight(h, q, R, f), NEW b \in Claimed(q)
  PROVE  /\ b \in Nat /\ b > 0 /\ umm_blocks(q[b]) \in Nat /\ umm_blocks(q[b]) > 0
         /\ b + umm_blocks(q[b]) <= BlockLast /\ SizeOf(h, b) = umm_blocks(q[b])
         /\ b \in R \ {0, BlockLast} /\ h[b].next = b + umm_blocks(q[b])
         /\ \A c \in Claimed(q) : c <= b \/ c >= b + umm_blocks(q[b])
<1> DEFINE n == umm_blocks(q[b])
<1>1. /\ Chain(h, R) /\ b \in R /\ b # 0 /\ b # BlockLast /\ Claimed(q) \subseteq R
      /\ h[b].next = b + n /\ b \in Block
  BY DEF PoolRight, Pool, Owned, Claimed
<1>2. n \in Nat /\ n > 0
  <2>1. q[b] \in Nat \ {0}
    BY <1>1 DEF Claimed
  <2> QED
    BY <2>1, BlocksEnough
<1> HIDE DEF n
<1>3. b \in Nat /\ R \subseteq Block /\ h[b].next \in R /\ \A r \in R : r <= b \/ r >= h[b].next
  BY <1>1, ChainFacts
<1>4. h[b].next <= BlockLast
  BY <1>3, BlockFacts
<1>5. SizeOf(h, b) = n
  BY <1>1, <1>2, <1>3 DEF SizeOf
<1> QED
  BY <1>1, <1>2, <1>3, <1>4, <1>5 DEF n

LEMMA GivenRuns ==
  ASSUME NEW h, NEW q \in [Block -> Nat], NEW R, NEW f, PoolRight(h, q, R, f)
  PROVE  {[at |-> c, size |-> SizeOf(h, c)] : c \in Claimed(q)} = Given(q)
<1>1. \A c \in Claimed(q) : SizeOf(h, c) = umm_blocks(q[c])
  BY RunsApart
<1> QED
  BY <1>1 DEF Given

\* Where no free run is long enough, any n blocks in a row meet a run of a caller: the run
\* they begin in is a caller's, or it ends before they do, at a run that is a caller's.
LEMMA NoRoom ==
  ASSUME NEW h, NEW q \in [Block -> Nat], NEW R, NEW f, PoolRight(h, q, R, f), NEW n \in Nat \ {0},
         \A b \in Range(f) : SizeOf(h, b) < n, NEW at \in Nat, at > 0, at + n <= BlockLast
  PROVE  \E c \in Claimed(q), x \in at .. (at + n - 1) : Within(x, c, umm_blocks(q[c]))
<1>1. /\ Pool(h, R, f) /\ Chain(h, R) /\ NoFreePair(h, f)
      /\ R \ Range(f) = Claimed(q) \cup {0, BlockLast}
  BY DEF PoolRight, Pool
<1>2. /\ R \subseteq Block /\ 0 \in R /\ 1 \in R /\ \A b \in R : b \in Nat
      /\ \A b \in R \ {BlockLast} : h[b].next \in R /\ h[b].next > b
      /\ \A b \in R \ {BlockLast} : \A r \in R : r <= b \/ r >= h[b].next
  BY <1>1, ChainFacts
<1>3. BlockLast \in Nat
  BY BlockFacts
<1>4. PICK s \in R : s <= at /\ s >= 1 /\ \A r \in R : r <= at => r <= s
  <2> DEFINE below == {r \in R : r <= at}
             gaps == {at - r : r \in below}
  <2>1. gaps \in SUBSET Nat /\ gaps # {} /\ 1 \in below
    BY <1>2
  <2>2. PICK least \in gaps : \A m \in gaps : least <= m
    <3> HIDE DEF gaps
    <3> QED
      BY <2>1, NatSetHasMinimum
  <2>3. PICK s \in below : least = at - s
    OBVIOUS
  <2>4. ASSUME NEW r \in R, r <= at PROVE r <= s
    <3>1. at - s <= at - r
      BY <2>2, <2>3, <2>4
    <3>2. r \in Nat /\ s \in Nat
      BY <1>2
    <3> QED
      BY <3>1, <3>2
  <2>5. 1 <= s
    BY <1>2, <2>1, <2>4
  <2> QED
    BY <2>3, <2>4, <2>5
<1> DEFINE t == h[s].next
<1>5. s \in Nat /\ s # 0 /\ s # BlockLast /\ t \in R /\ t \in Nat /\ t > at
  <2>1. s \in Nat /\ s < BlockLast
    BY <1>2, <1>3, <1>4
  <2>2. t \in R /\ t \in Nat /\ t > s
    <3>1. s \in R \ {BlockLast}
      BY <1>3, <1>4, <2>1
    <3> QED
      BY <1>2, <3>1
  <2> HIDE DEF t
  <2>3. ~(t <= at)
    BY <1>4, <2>1, <2>2
  <2> QED
    BY <1>4, <2>1, <2>2, <2>3
<1>6. CASE s \in Claimed(q)
  <2> DEFINE m == umm_blocks(q[s])
  <2>1. t = s + m /\ m \in Nat
    BY <1>6, RunsApart
  <2> HIDE DEF t, m
  <2>2. Within(at, s, m) /\ at \in at .. (at + n - 1)
    BY <1>4, <1>5, <2>1 DEF Within
  <2> QED
    BY <1>6, <2>2 DEF m
<1>7. CASE s \in Range(f)
  <2>1. t - s < n
    BY <1>7 DEF SizeOf
  <2>2. t \notin Range(f)
    BY <1>1, <1>7 DEF NoFreePair
  <2> HIDE DEF t
  <2>3. t \in at .. (at + n - 1) /\ t # BlockLast /\ t # 0
    BY <1>3, <1>4, <1>5, <2>1
  <2>4. t \in Claimed(q)
    BY <1>1, <1>5, <2>2, <2>3
  <2> DEFINE m == umm_blocks(q[t])
  <2>5. m \in Nat /\ m > 0
    BY <2>4, RunsApart
  <2> HIDE DEF m
  <2>6. Within(t, t, m)
    BY <1>5, <2>5 DEF Within
  <2> QED
    BY <2>3, <2>4, <2>6 DEF m
<1> QED
  BY <1>1, <1>4, <1>5, <1>6, <1>7

\* The callers' runs as Promised sees them, and the steps of BlockHeap on them.
GivenOut == {[at |-> c, size |-> SizeOf(heap, c)] : c \in Live}

LEMMA LiveRuns == PoolInv => GivenOut = Given(requested)
<1> SUFFICES ASSUME PoolInv PROVE GivenOut = Given(requested)
  OBVIOUS
<1>1. Live = Claimed(requested) /\ requested \in [Block -> Nat]
  BY DEF Live, Claimed, PoolInv, PoolTypes
<1>2. CASE initialized
  <2>1. PICK R, f : PoolRight(heap, requested, R, f)
    BY <1>2 DEF PoolInv
  <2>2. {[at |-> c, size |-> SizeOf(heap, c)] : c \in Claimed(requested)} = Given(requested)
    BY <1>1, <2>1, GivenRuns
  <2> QED
    BY <1>1, <2>2 DEF GivenOut
<1>3. CASE ~initialized
  <2>1. Claimed(requested) = {}
    BY <1>3 DEF PoolInv, Claimed
  <2> QED
    BY <1>1, <2>1 DEF GivenOut, Given
<1> QED
  BY <1>2, <1>3 DEF PoolInv, PoolTypes

\* A run that is taken is a new one, of as many blocks as were asked for, and apart from the others.
LEMMA TakenPromised ==
  ASSUME NEW h, NEW q \in [Block -> Nat], NEW R, NEW f, NEW c \in Block, q[c] = 0,
         NEW size \in Nat \ {0}, PoolRight(h, [q EXCEPT ![c] = size], R, f)
  PROVE  /\ Given([q EXCEPT ![c] = size]) = Given(q) \cup {[at |-> c, size |-> umm_blocks(size)]}
         /\ c \in 1 .. (UMM_NUMBLOCKS - 2) /\ umm_blocks(size) \in 1 .. (UMM_NUMBLOCKS - 2)
         /\ c .. (c + umm_blocks(size) - 1) \subseteq 1 .. (UMM_NUMBLOCKS - 2)
         /\ \A r \in Given(q) : \A x \in c .. (c + umm_blocks(size) - 1) :
            x \notin r.at .. (r.at + r.size - 1)
<1> DEFINE p == [q EXCEPT ![c] = size]
           n == umm_blocks(size)
<1>1. p \in [Block -> Nat] /\ p[c] = size /\ \A b \in Block \ {c} : p[b] = q[b]
  OBVIOUS
<1>2. PoolRight(h, p, R, f)
  OBVIOUS
<1> HIDE DEF p
<1>3. Claimed(p) = Claimed(q) \cup {c} /\ c \notin Claimed(q) /\ Claimed(q) \subseteq Block
  BY <1>1 DEF Claimed
<1>4. Given(p) = Given(q) \cup {[at |-> c, size |-> n]}
  <2>1. \A b \in Claimed(q) : p[b] = q[b]
    BY <1>1, <1>3
  <2> QED
    BY <1>1, <1>3, <2>1 DEF Given
<1>5. c \in Nat /\ c > 0 /\ n \in Nat /\ n > 0 /\ c + n <= BlockLast
      /\ \A b \in Claimed(p) : b <= c \/ b >= c + n
  BY <1>1, <1>2, <1>3, RunsApart
<1>6. UMM_NUMBLOCKS \in Nat /\ BlockLast = UMM_NUMBLOCKS - 1
  BY HeapAssumption DEF BlockLast
<1>7. ASSUME NEW b \in Claimed(q), NEW x \in c .. (c + n - 1)
      PROVE  x \notin b .. (b + umm_blocks(q[b]) - 1)
  <2> DEFINE m == umm_blocks(q[b])
  <2>1. b \in Claimed(p) /\ c \in Claimed(p) /\ b # c /\ p[b] = q[b]
    BY <1>1, <1>3
  <2>2. b \in Nat /\ m \in Nat /\ m > 0 /\ \A r \in Claimed(p) : r <= b \/ r >= b + m
    BY <1>1, <1>2, <2>1, RunsApart
  <2> HIDE DEF m, n
  <2>3. (b <= c \/ b >= c + n) /\ (c <= b \/ c >= b + m)
    BY <1>5, <2>1, <2>2
  <2>4. x \notin b .. (b + m - 1)
    BY <1>5, <2>1, <2>2, <2>3
  <2> QED
    BY <2>4 DEF m
<1> HIDE DEF n
<1>8. /\ c \in 1 .. (UMM_NUMBLOCKS - 2) /\ n \in 1 .. (UMM_NUMBLOCKS - 2)
      /\ c .. (c + n - 1) \subseteq 1 .. (UMM_NUMBLOCKS - 2)
  BY <1>5, <1>6
<1>9. \A r \in Given(q) : \A x \in c .. (c + n - 1) : x \notin r.at .. (r.at + r.size - 1)
  BY <1>7 DEF Given
<1> QED
  BY <1>4, <1>8, <1>9 DEF p, n

\* A run that is given back is the caller's, and no other goes with it.
LEMMA FreedPromised ==
  ASSUME NEW q \in [Block -> Nat], NEW c \in Claimed(q)
  PROVE  /\ [at |-> c, size |-> umm_blocks(q[c])] \in Given(q)
         /\ Given([q EXCEPT ![c] = 0]) = Given(q) \ {[at |-> c, size |-> umm_blocks(q[c])]}
<1> DEFINE p == [q EXCEPT ![c] = 0]
<1>1. c \in Block /\ p[c] = 0 /\ \A b \in Block \ {c} : p[b] = q[b]
  BY DEF Claimed
<1> HIDE DEF p
<1>2. Claimed(p) = Claimed(q) \ {c}
  BY <1>1 DEF Claimed
<1>3. \A b \in Claimed(p) : p[b] = q[b] /\ b # c
  BY <1>1, <1>2 DEF Claimed
<1>4. Given(p) = Given(q) \ {[at |-> c, size |-> umm_blocks(q[c])]}
  BY <1>2, <1>3 DEF Given
<1> QED
  BY <1>4 DEF Given, p

LEMMA PromisedMalloc ==
  ASSUME PoolInv, PoolInv', GivenOut = Given(requested), GivenOut' = Given(requested'),
         NEW size \in Sizes, UmmMalloc(size)
  PROVE  Promised!Next
<1> DEFINE n == BlocksFor(size)
<1>1. size \in Nat /\ n \in {BlocksFor(s) : s \in Sizes} /\ requested \in [Block -> Nat]
  BY HeapAssumption DEF PoolInv, PoolTypes
<1>2. /\ UNCHANGED initialized
      /\ \/ /\ ~initialized \/ size = 0 \/ Fitting(heap, n) = {}
            /\ answer' = Answer("malloc", n, 0) /\ UNCHANGED <<heap, requested>>
         \/ /\ initialized /\ size # 0 /\ Fitting(heap, n) # {}
            /\ heap' = Filled(TakeRun(heap, BestFit(heap, n), n), BestFit(heap, n), n)
            /\ requested' = [requested EXCEPT ![BestFit(heap, n)] = size]
            /\ answer' = Answer("malloc", n, BestFit(heap, n))
  BY DEF UmmMalloc
<1>3. size = 0 => n = 0
  BY DEF BlocksFor
<1>4. size # 0 => n = umm_blocks(size) /\ n \in Nat /\ n > 0
  BY <1>1, BlocksEnough DEF BlocksFor
<1>5. Promised!Answer("malloc", n, 0) = Answer("malloc", n, 0)
  BY DEF Promised!Answer, Answer
<1> HIDE DEF n
<1>6. CASE (~initialized \/ size = 0) /\ answer' = Answer("malloc", n, 0)
      /\ UNCHANGED <<heap, requested>>
  <2>1. GivenOut' = GivenOut
    BY <1>6
  <2>2. Promised!Refuse(n)
    BY <1>2, <1>3, <1>5, <1>6, <2>1 DEF Promised!Refuse, GivenOut
  <2> QED
    BY <1>1, <2>2 DEF Promised!Next
<1>7. CASE /\ initialized /\ size # 0 /\ Fitting(heap, n) = {}
           /\ answer' = Answer("malloc", n, 0) /\ UNCHANGED <<heap, requested>>
  <2>1. GivenOut' = GivenOut
    BY <1>7
  <2>2. PICK R, f : PoolRight(heap, requested, R, f)
    BY <1>7 DEF PoolInv
  <2>3. \A b \in Range(f) : SizeOf(heap, b) < n
    BY <1>4, <1>7, <2>2, BestFitFits DEF PoolRight
  <2>4. ASSUME NEW r \in Promised!Run, r.size = n, Promised!Fits(r) PROVE FALSE
    <3>1. r.at \in 1 .. (UMM_NUMBLOCKS - 2)
          /\ r.at .. (r.at + n - 1) \subseteq (1 .. (UMM_NUMBLOCKS - 2)) \ Promised!Used
      BY <2>4 DEF Promised!Run, Promised!Fits, Promised!Cells
    <3>2. r.at \in Nat /\ r.at > 0 /\ r.at + n - 1 \in 1 .. (UMM_NUMBLOCKS - 2)
      BY <1>4, <1>7, <3>1, HeapAssumption
    <3>3. r.at + n <= BlockLast
      BY <1>4, <1>7, <3>2, HeapAssumption DEF BlockLast
    <3>4. n \in Nat \ {0}
      BY <1>4, <1>7
    <3>5. PICK c \in Claimed(requested), x \in r.at .. (r.at + n - 1) :
                 Within(x, c, umm_blocks(requested[c]))
      BY <1>1, <2>2, <2>3, <3>2, <3>3, <3>4, NoRoom
    <3> DEFINE s == [at |-> c, size |-> umm_blocks(requested[c])]
    <3>6. s \in GivenOut
      BY DEF Given
    <3>7. x \in Promised!Cells(s)
      BY <3>5 DEF Promised!Cells, Within
    <3> HIDE DEF s
    <3>8. x \in Promised!Used
      BY <3>6, <3>7 DEF Promised!Used, GivenOut
    <3> QED
      BY <3>1, <3>5, <3>8
  <2>5. ~ \E r \in Promised!Run : r.size = n /\ Promised!Fits(r)
    BY <2>4
  <2>6. Promised!Allocate(n)
    BY <1>2, <1>5, <1>7, <2>1, <2>5 DEF Promised!Allocate, GivenOut
  <2>7. n # 0
    BY <1>4, <1>7
  <2> QED
    BY <1>1, <2>6, <2>7 DEF Promised!Next
<1>8. CASE /\ initialized /\ size # 0 /\ Fitting(heap, n) # {}
           /\ heap' = Filled(TakeRun(heap, BestFit(heap, n), n), BestFit(heap, n), n)
           /\ requested' = [requested EXCEPT ![BestFit(heap, n)] = size]
           /\ answer' = Answer("malloc", n, BestFit(heap, n))
  <2> DEFINE c == BestFit(heap, n)
             r == [at |-> c, size |-> n]
  <2>1. size \in Nat \ {0} /\ n = umm_blocks(size) /\ n > 0 /\ n \in Nat
    BY <1>1, <1>4, <1>8
  <2>2. c \in Block /\ c \notin Claimed(requested)
    BY <1>8, <2>1, MallocGives
  <2>3. requested[c] = 0 /\ requested' = [requested EXCEPT ![c] = size]
    BY <1>8, <2>2 DEF Claimed
  <2> HIDE DEF c
  <2>4. PICK R, f : PoolRight(heap', [requested EXCEPT ![c] = size], R, f)
    <3>1. initialized'
      BY <1>2, <1>8
    <3> QED
      BY <2>3, <3>1 DEF PoolInv
  <2>5. /\ Given([requested EXCEPT ![c] = size]) =
           Given(requested) \cup {[at |-> c, size |-> umm_blocks(size)]}
        /\ c \in 1 .. (UMM_NUMBLOCKS - 2) /\ umm_blocks(size) \in 1 .. (UMM_NUMBLOCKS - 2)
        /\ c .. (c + umm_blocks(size) - 1) \subseteq 1 .. (UMM_NUMBLOCKS - 2)
        /\ \A s \in Given(requested) : \A x \in c .. (c + umm_blocks(size) - 1) :
             x \notin s.at .. (s.at + s.size - 1)
    BY <1>1, <2>1, <2>2, <2>3, <2>4, TakenPromised
  <2>6. GivenOut' = GivenOut \cup {r}
    BY <2>1, <2>3, <2>5
  <2>7. r \in Promised!Run /\ r.size = n
    BY <2>1, <2>5 DEF Promised!Run
  <2>8. Promised!Fits(r)
    BY <2>1, <2>5 DEF Promised!Fits, Promised!Cells, Promised!Used, GivenOut
  <2>9. answer' = Promised!Answer("malloc", n, r.at)
    BY <1>8 DEF c, Promised!Answer, Answer
  <2> HIDE DEF r
  <2>10. Promised!Allocate(n)
    BY <1>2, <1>8, <2>6, <2>7, <2>8, <2>9 DEF Promised!Allocate, GivenOut
  <2> QED
    BY <1>1, <2>1, <2>10 DEF Promised!Next
<1> QED
  BY <1>2, <1>6, <1>7, <1>8

LEMMA PromisedStep ==
  ASSUME PoolInv, PoolInv', [Next]_vars, GivenOut = Given(requested), GivenOut' = Given(requested')
  PROVE  Promised!Next \/ UNCHANGED <<initialized, GivenOut, answer>>
<1>1. CASE UmmSetHeap
  <2>1. GivenOut' = GivenOut /\ answer' = Promised!Answer("none", 0, 0) /\ ~initialized
        /\ initialized' = TRUE
    BY <1>1 DEF UmmSetHeap, Answer, Promised!Answer
  <2> QED
    BY <2>1 DEF Promised!Next, Promised!Open, GivenOut
<1>2. CASE \E size \in Sizes : UmmMalloc(size)
  BY <1>2, PromisedMalloc
<1>3. ASSUME NEW c \in Live, UmmFree(c) PROVE Promised!Next
  <2> DEFINE r == [at |-> c, size |-> umm_blocks(requested[c])]
  <2>1. requested \in [Block -> Nat] /\ c \in Claimed(requested)
    BY DEF PoolInv, PoolTypes, Live, Claimed
  <2>2. requested' = [requested EXCEPT ![c] = 0] /\ answer' = Answer("free", 0, 1)
        /\ UNCHANGED initialized
    BY <1>3 DEF UmmFree
  <2>3. r \in GivenOut /\ GivenOut' = GivenOut \ {r}
    BY <2>1, <2>2, FreedPromised
  <2> HIDE DEF r
  <2>4. \E s \in GivenOut : /\ GivenOut' = GivenOut \ {s} /\ initialized' = initialized
                         /\ answer' = Promised!Answer("free", 0, 1)
    BY <2>2, <2>3 DEF Answer, Promised!Answer
  <2> QED
    BY <2>4 DEF Promised!Next, Promised!Release, GivenOut
<1>4. CASE UmmFreeOther
  <2>1. GivenOut' = GivenOut /\ UNCHANGED initialized /\ answer' = Promised!Answer("free", 0, 0)
    BY <1>4 DEF UmmFreeOther, Answer, Promised!Answer
  <2> QED
    BY <2>1 DEF Promised!Next, Promised!ReleaseOther, GivenOut
<1>5. CASE UNCHANGED vars
  BY <1>5 DEF vars
<1> QED
  BY <1>1, <1>2, <1>3, <1>4, <1>5 DEF Next

LEMMA PromisedInit == Init => Promised!Init
<1> SUFFICES ASSUME Init PROVE Promised!Init
  OBVIOUS
<1>1. Live = {}
  BY DEF Init, Live
<1> QED
  BY <1>1 DEF Init, Promised!Init, Answer, Promised!Answer

LiveIsGiven == GivenOut = Given(requested)

\* The pool is a heap of blocks that refuses a request only when no free blocks in a row are
\* enough for it: freed neighbours are always joined, so that nothing is lost to
\* fragmentation between them (UmmMalloc.c:290-491).
THEOREM PoolIsBlockHeap == Spec => ImplementsBlockHeap
<1>1. PoolInv /\ PoolInv' /\ LiveIsGiven /\ LiveIsGiven' /\ [Next]_vars
        => [Promised!Next]_<<initialized, GivenOut, answer>>
  BY PromisedStep DEF LiveIsGiven
<1>2. PoolInv => LiveIsGiven
  BY LiveRuns DEF LiveIsGiven
<1>3. Spec => Promised!Init /\ [][Promised!Next]_<<initialized, GivenOut, answer>>
  BY <1>1, <1>2, PromisedInit, PoolAlways, PTL DEF Spec
<1>4. ImplementsBlockHeap <=> Promised!Init /\ [][Promised!Next]_<<initialized, GivenOut, answer>>
  BY DEF ImplementsBlockHeap, Promised!Spec, GivenOut
<1> QED
  BY <1>3, <1>4, PTL

----------------------------------------------------------------------------
(* Sounds. *)

Calls == [pc : {"none", "stop", "wait", "halt", "start"}, then : {"none", "play", "stop", "beep"},
          buffer : SoundBuffer \cup {NoBuffer}, wait : BOOLEAN, CheckEvent : BOOLEAN]

SoundTypes ==
  /\ CurrentBuffer \in SoundBuffer \cup {NoBuffer}
  /\ PlaybackEvent \in BOOLEAN
  /\ soundHeld \subseteq SoundBuffer
  /\ soundCall \in Calls
  /\ soundBetween \in BOOLEAN

\* A call that will play has a buffer of its own, which is not the one that plays; any
\* other call has none.
CallOwnsBuffer ==
  IF soundCall.pc # "none" /\ soundCall.then = "play"
  THEN soundCall.buffer # NoBuffer /\ soundCall.buffer # CurrentBuffer
  ELSE soundCall.buffer = NoBuffer

\* What plays next begins without a signal: once a call is through with what played before,
\* nothing plays and no signal is left.
NothingLeftOver ==
  /\ soundCall.pc = "start" => CurrentBuffer = NoBuffer /\ ~PlaybackEvent
  /\ (soundCall.pc = "halt" /\ ~soundCall.CheckEvent) => ~PlaybackEvent
  /\ soundCall.pc \in {"stop", "wait"} => soundCall.CheckEvent

SoundInv ==
  /\ SoundTypes
  /\ ~soundBetween => SoundBuffersRight /\ CallOwnsBuffer /\ NothingLeftOver

LEMMA SoundInitInv == NoBuffer \notin SoundBuffer /\ SoundInit => SoundInv
<1> SUFFICES ASSUME SoundInit PROVE SoundInv
  OBVIOUS
<1>1. soundCall.pc = "none" /\ soundCall.buffer = NoBuffer
  BY DEF SoundInit, NoCall
<1>2. SoundTypes
  BY DEF SoundInit, SoundTypes, NoCall, Calls
<1>3. soundHeld = {CurrentBuffer, soundCall.buffer} \ {NoBuffer}
  BY <1>1 DEF SoundInit
<1> QED
  BY <1>1, <1>2, <1>3
  DEF SoundInit, SoundInv, SoundBuffersRight, CallOwnsBuffer, NothingLeftOver

LEMMA SoundCallsInv == NoBuffer \notin SoundBuffer /\ SoundInv /\ SoundCalls => SoundInv'
<1> SUFFICES ASSUME NoBuffer \notin SoundBuffer, SoundInv, SoundCalls PROVE SoundInv'
  OBVIOUS
<1> USE DEF SoundInv, SoundTypes, SoundBuffersRight, CallOwnsBuffer, NothingLeftOver, NoCall, Calls
<1>1. ASSUME NEW found \in BOOLEAN, Connect(found) PROVE SoundInv'
  BY <1>1 DEF Connect
<1>2. ASSUME NEW b \in SoundBuffer, NEW wait \in BOOLEAN, PlayFile(b, wait) PROVE SoundInv'
  BY <1>2 DEF PlayFile
<1>3. ASSUME NEW then \in {"stop", "beep"}, NEW wait \in BOOLEAN, StopOrBeep(then, wait)
      PROVE  SoundInv'
  BY <1>3 DEF StopOrBeep
<1> QED
  BY <1>1, <1>2, <1>3 DEF SoundCalls

LEMMA SoundContinuesInv == NoBuffer \notin SoundBuffer /\ SoundInv /\ SoundContinues => SoundInv'
<1> SUFFICES ASSUME NoBuffer \notin SoundBuffer, SoundInv, SoundContinues PROVE SoundInv'
  OBVIOUS
<1> USE DEF SoundInv, SoundTypes, SoundBuffersRight, CallOwnsBuffer, NothingLeftOver, NoCall, Calls
<1>1. CASE StopLooks
  BY <1>1 DEF StopLooks
<1>2. CASE StopWaits
  BY <1>2 DEF StopWaits
<1>3. CASE StopHalts
  BY <1>3 DEF StopHalts, Stopped
<1>4. ASSUME NEW ok \in BOOLEAN, PlayStarts(ok) PROVE SoundInv'
  BY <1>4 DEF PlayStarts, Started
<1>5. CASE BeepEnds
  BY <1>5 DEF BeepEnds
<1> QED
  BY <1>1, <1>2, <1>3, <1>4, <1>5 DEF SoundContinues

\* What comes in at TPL_NOTIFY; of it only the callback of the device is claimed to be
\* harmless to a call in progress.
LEMMA SoundNotifyInv == NoBuffer \notin SoundBuffer /\ SoundInv /\ SoundNotify => SoundInv'
<1> SUFFICES ASSUME NoBuffer \notin SoundBuffer, SoundInv, SoundNotify PROVE SoundInv'
  OBVIOUS
<1> USE DEF SoundInv, SoundTypes, SoundBuffersRight, CallOwnsBuffer, NothingLeftOver, NoCall, Calls
<1>1. CASE PlayFileDone
  BY <1>1 DEF PlayFileDone
<1>2. CASE NotifyStop
  BY <1>2 DEF NotifyStop, Stopped
<1>3. ASSUME NEW b \in SoundBuffer, NEW ok \in BOOLEAN, NotifyPlayFile(b, ok) PROVE SoundInv'
  BY <1>3 DEF NotifyPlayFile, Started, Stopped
<1> QED
  BY <1>1, <1>2, <1>3 DEF SoundNotify

\* Buffers are released once and signals are not left over, for every set of buffers and
\* every interleaving of calls with the callback of the device, as long as no call at
\* TPL_NOTIFY comes into one at TPL_APPLICATION (OcAudio.c:243-466).
THEOREM BuffersReleasedOnce ==
  ASSUME NoBuffer \notin SoundBuffer
  PROVE  SoundSpec => []SoundBuffersRight
<1>1. SoundInit => SoundInv
  BY SoundInitInv
<1>2. SoundInv /\ [SoundNext]_soundVars => SoundInv'
  <2>1. SoundInv /\ UNCHANGED soundVars => SoundInv'
    BY DEF soundVars, SoundInv, SoundTypes, SoundBuffersRight, CallOwnsBuffer, NothingLeftOver
  <2> QED
    BY <2>1, SoundCallsInv, SoundContinuesInv, SoundNotifyInv DEF SoundNext
<1>3. SoundInv => SoundBuffersRight
  BY DEF SoundInv, SoundBuffersRight
<1> QED
  BY <1>1, <1>2, <1>3, PTL DEF SoundSpec

----------------------------------------------------------------------------
(* Overflows. *)

\* The answer tells exactly whether x is one of the values in S, and what it is.
Told(said, x, S) ==
  /\ said.Overflow \in BOOLEAN
  /\ said.Overflow <=> x \notin S
  /\ x \in S => said.Result = x

LEMMA Widths ==
  /\ Size32 \in Nat /\ Size32 >= 2 /\ Overflows!Size64 \in Nat
  /\ Overflows!Size64 = Size32 * Size32 /\ Overflows!Size64 >= 2
  /\ Overflows!Size64 % 2 = 0 /\ Size32 % 2 = 0
<1>1. PICK k \in Nat : Size32 = 2 * k /\ k >= 1
  BY WidthAssumption
<1>2. Size32 * Size32 = 2 * (k * Size32) /\ k * Size32 \in Nat /\ k * Size32 >= 1
  BY <1>1
<1>3. Overflows!Size64 = Size32 * Size32
  BY DEF Overflows!Size64
<1> DEFINE m == k * Size32
<1>4. m \in Nat /\ m >= 1 /\ Overflows!Size64 = 2 * m
  BY <1>2, <1>3
<1> HIDE DEF m
<1>5. Overflows!Size64 % 2 = 0 /\ Overflows!Size64 \in Nat /\ Overflows!Size64 >= 2
  BY <1>4
<1> QED
  BY <1>1, <1>3, <1>5, WidthAssumption

LEMMA SayTold ==
  ASSUME NEW o \in BOOLEAN, NEW r, NEW x, NEW S, o <=> x \notin S, x \in S => r = x
  PROVE  Told(Overflows!Say(o, r), x, S)
<1>1. CASE o = TRUE
  BY <1>1 DEF Told, Overflows!Say
<1>2. CASE o = FALSE
  BY <1>2 DEF Told, Overflows!Say
<1> QED
  BY <1>1, <1>2

LEMMA AddTold ==
  ASSUME NEW size \in Nat, size >= 1, NEW A \in 0 .. size - 1, NEW B \in 0 .. size - 1
  PROVE  Told(Overflows!AddUnsigned(A, B, size), A + B, 0 .. size - 1)
<1> DEFINE Temp == (A + B) % size
<1>1. (Temp < A <=> A + B \notin 0 .. size - 1) /\ (A + B \in 0 .. size - 1 => Temp = A + B)
  <2>1. CASE A + B < size
    <3>1. (A + B) % size = A + B /\ ~(A + B < A)
      BY <2>1
    <3> QED
      BY <2>1, <3>1
  <2>2. CASE A + B >= size
    <3>1. (A + B) % size = A + B - size
      BY <2>2
    <3> QED
      BY <2>2, <3>1
  <2> QED
    BY <2>1, <2>2
<1> HIDE DEF Temp
<1>2. CASE Temp < A
  <2>1. (Temp < A) = TRUE
    BY <1>2
  <2>2. Told(Overflows!Say(TRUE, Temp), A + B, 0 .. size - 1)
    BY <1>1, <1>2, SayTold
  <2>3. Told(Overflows!Say(Temp < A, Temp), A + B, 0 .. size - 1)
    BY <2>1, <2>2
  <2> QED
    BY <2>3 DEF Overflows!AddUnsigned, Temp
<1>3. CASE ~(Temp < A)
  <2>1. (Temp < A) = FALSE
    BY <1>3
  <2>2. Told(Overflows!Say(FALSE, Temp), A + B, 0 .. size - 1)
    BY <1>1, <1>3, SayTold
  <2>3. Told(Overflows!Say(Temp < A, Temp), A + B, 0 .. size - 1)
    BY <2>1, <2>2
  <2> QED
    BY <2>3 DEF Overflows!AddUnsigned, Temp
<1> QED
  BY <1>2, <1>3

LEMMA SubTold ==
  ASSUME NEW size \in Nat, size >= 1, NEW A \in 0 .. size - 1, NEW B \in 0 .. size - 1
  PROVE  Told(Overflows!SubUnsigned(A, B, size), A - B, 0 .. size - 1)
<1>1. CASE B > A
  <2>1. (B > A) = TRUE
    BY <1>1
  <2>2. Told(Overflows!Say(TRUE, (A - B) % size), A - B, 0 .. size - 1)
    <3>1. A - B \notin 0 .. size - 1
      BY <1>1
    <3> QED
      BY <3>1, SayTold
  <2>3. Told(Overflows!Say(B > A, (A - B) % size), A - B, 0 .. size - 1)
    BY <2>1, <2>2
  <2> QED
    BY <2>3 DEF Overflows!SubUnsigned
<1>2. CASE ~(B > A)
  <2>1. (B > A) = FALSE
    BY <1>2
  <2>2. (A - B) % size = A - B /\ A - B \in 0 .. size - 1
    BY <1>2
  <2>3. Told(Overflows!Say(FALSE, (A - B) % size), A - B, 0 .. size - 1)
    BY <2>2, SayTold
  <2>4. Told(Overflows!Say(B > A, (A - B) % size), A - B, 0 .. size - 1)
    BY <2>1, <2>3
  <2> QED
    BY <2>4 DEF Overflows!SubUnsigned
<1> QED
  BY <1>1, <1>2

LEMMA AsSignedIs ==
  ASSUME NEW size \in Nat, size >= 2, size % 2 = 0, NEW x \in -(size \div 2) .. (size \div 2 - 1)
  PROVE  Overflows!AsSigned(x, size) = x
<1>1. PICK k \in Nat : size = 2 * k /\ size \div 2 = k /\ k >= 1
  OBVIOUS
<1>2. x \in Int /\ x + k \in 0 .. size - 1
  BY <1>1
<1>3. (x + k) % size = x + k
  BY <1>2
<1>4. ((x + size \div 2) % size) - size \div 2 = x
  BY <1>1, <1>2, <1>3
<1> QED
  BY <1>4 DEF Overflows!AsSigned

LEMMA NarrowedTold ==
  ASSUME NEW x \in Int, NEW signed \in BOOLEAN
  PROVE  Told(Overflows!Narrowed(x, signed), x, Overflows!Values(Size32, signed))
<1> DEFINE S == Overflows!Values(Size32, signed)
           r == IF signed THEN Overflows!AsSigned(x, Size32) ELSE x % Size32
<1>1. x \in S => r = x
  <2>1. CASE signed
    BY <2>1, Widths, AsSignedIs DEF Overflows!Values
  <2>2. CASE ~signed
    <3>1. x \in S => x \in 0 .. Size32 - 1
      BY <2>2 DEF Overflows!Values
    <3>2. x \in 0 .. Size32 - 1 => x % Size32 = x
      BY Widths
    <3> QED
      BY <2>2, <3>1, <3>2
  <2> QED
    BY <2>1, <2>2
<1> HIDE DEF S, r
<1>2. CASE x \in S
  <2>1. (x \notin S) = FALSE
    BY <1>2
  <2>2. Told(Overflows!Say(FALSE, r), x, S)
    BY <1>1, <1>2, SayTold
  <2>3. Told(Overflows!Say(x \notin S, r), x, S)
    BY <2>1, <2>2
  <2> QED
    BY <2>3 DEF Overflows!Narrowed, S, r
<1>3. CASE x \notin S
  <2>1. (x \notin S) = TRUE
    BY <1>3
  <2>2. Told(Overflows!Say(TRUE, r), x, S)
    BY <1>1, <1>3, SayTold
  <2>3. Told(Overflows!Say(x \notin S, r), x, S)
    BY <2>1, <2>2
  <2> QED
    BY <2>3 DEF Overflows!Narrowed, S, r
<1> QED
  BY <1>2, <1>3

\* The halves of a long number.
LEMMA Halves ==
  ASSUME NEW H \in Nat, H >= 2, NEW X \in 0 .. H * H - 1
  PROVE  /\ X \div H \in 0 .. H - 1 /\ X % H \in 0 .. H - 1
         /\ X = (X \div H) * H + (X % H)
<1> DEFINE q == X \div H
           r == X % H
<1>1. q \in Int /\ r \in 0 .. H - 1 /\ X = H * q + r
  OBVIOUS
<1> HIDE DEF q, r
<1>2. X \in Int /\ X >= 0 /\ X < H * H /\ H * q = q * H
  BY <1>1
<1>3. q >= 0
  <2> SUFFICES ASSUME q <= -1 PROVE FALSE
    BY <1>1
  <2>1. H * q <= -H
    BY <1>1
  <2> QED
    BY <1>1, <1>2, <2>1
<1>4. q < H
  <2> SUFFICES ASSUME q >= H PROVE FALSE
    BY <1>1
  <2>1. H * q >= H * H
    BY <1>1
  <2> QED
    BY <1>1, <1>2, <2>1
<1> QED
  BY <1>1, <1>2, <1>3, <1>4 DEF q, r

LEMMA Product ==
  ASSUME NEW H \in Int, NEW a1 \in Int, NEW a0 \in Int, NEW b1 \in Int, NEW b0 \in Int
  PROVE  (a1 * H + a0) * (b1 * H + b0)
           = ((a1 * b1) * (H * H)) + ((a0 * b1 + a1 * b0) * H) + (a0 * b0)
OBVIOUS

\* What the lower half and one cross product make, and when it is too long.
LEMMA CrossProduct ==
  ASSUME NEW H \in Nat, H >= 2, NEW m \in Nat, NEW lo \in 0 .. H * H - 1,
         NEW r, r = (lo + (m * H)) % (H * H)
  PROVE  /\ lo + (m * H) \in Nat
         /\ m \div H # 0 => lo + (m * H) >= H * H
         /\ m \div H = 0 => /\ r < lo <=> lo + (m * H) >= H * H
                            /\ lo + (m * H) < H * H => r = lo + (m * H)
<1> DEFINE N == H * H
           c == m * H
<1>1. N \in Nat /\ N >= H /\ c \in Nat /\ lo \in Nat /\ lo < N
  <2>1. N \in Nat /\ c \in Nat
    OBVIOUS
  <2>2. N >= H * 1
    OBVIOUS
  <2> QED
    BY <2>1, <2>2
<1>2. m \div H # 0 => c >= N
  <2>1. m \div H # 0 => m >= H
    <3>1. m < H => m \div H = 0
      OBVIOUS
    <3> QED
      BY <3>1
  <2>2. m >= H => m * H >= H * H
    OBVIOUS
  <2> QED
    BY <2>1, <2>2
<1>3. m \div H = 0 => c + H <= N
  <2>1. m \div H = 0 => m + 1 <= H
    <3>1. m = H * (m \div H) + (m % H) /\ m % H \in 0 .. H - 1
      OBVIOUS
    <3> QED
      BY <3>1
  <2>2. m + 1 <= H => (m + 1) * H <= H * H
    OBVIOUS
  <2>3. (m + 1) * H = c + H
    OBVIOUS
  <2> QED
    BY <2>1, <2>2, <2>3
<1>4. r = (lo + c) % N
  OBVIOUS
<1> HIDE DEF N, c
<1>5. lo + c < N => r = lo + c
  BY <1>1, <1>4
<1>6. lo + c >= N /\ c + H <= N => r = lo + c - N
  <2> SUFFICES ASSUME lo + c >= N, c + H <= N PROVE r = lo + c - N
    OBVIOUS
  <2>1. lo + c - N \in 0 .. N - 1
    BY <1>1
  <2> QED
    BY <1>1, <1>4, <2>1
<1> QED
  BY <1>1, <1>2, <1>3, <1>5, <1>6 DEF N, c

LEMMA MulU64Told ==
  ASSUME NEW A \in 0 .. Overflows!Size64 - 1, NEW B \in 0 .. Overflows!Size64 - 1
  PROVE  /\ Told(Overflows!OcOverflowMulU64(A, B), A * B, 0 .. Overflows!Size64 - 1)
         /\ A * B \in Nat
<1> DEFINE H == Size32
           N == Overflows!Size64
           AHi == A \div H
           ALo == A % H
           BHi == B \div H
           BLo == B % H
           LoBits == ALo * BLo
           HiBits1 == ALo * BHi
           HiBits2 == AHi * BLo
           Result == (LoBits + ((HiBits1 + HiBits2) * H)) % N
           Overflow == \/ AHi > 0 /\ BHi > 0
                       \/ Result < LoBits
                       \/ HiBits1 \div H # 0
                       \/ HiBits2 \div H # 0
<1>1. H \in Nat /\ H >= 2 /\ N = H * H /\ N \in Nat
  BY Widths
<1>2. /\ AHi \in 0 .. H - 1 /\ ALo \in 0 .. H - 1 /\ A = (AHi * H) + ALo
      /\ BHi \in 0 .. H - 1 /\ BLo \in 0 .. H - 1 /\ B = (BHi * H) + BLo
  <2>1. A \in 0 .. H * H - 1 /\ B \in 0 .. H * H - 1
    BY <1>1
  <2> HIDE DEF H, N
  <2> QED
    BY <1>1, <2>1, Halves
<1>3. Overflows!OcOverflowMulU64(A, B) =
        IF AHi = 0 /\ BHi = 0 THEN Overflows!Say(FALSE, LoBits) ELSE Overflows!Say(Overflow, Result)
  BY DEF Overflows!OcOverflowMulU64
<1> HIDE DEF AHi, ALo, BHi, BLo
<1>4. A * B = ((AHi * BHi) * N) + ((HiBits1 + HiBits2) * H) + LoBits
  BY <1>1, <1>2, Product
<1>5. /\ LoBits \in Nat /\ HiBits1 \in Nat /\ HiBits2 \in Nat /\ LoBits <= (H - 1) * (H - 1)
      /\ A * B \in Nat
  <2>1. LoBits \in Nat /\ HiBits1 \in Nat /\ HiBits2 \in Nat
    BY <1>1, <1>2
  <2>2. LoBits <= (H - 1) * (H - 1)
    <3>1. ALo * BLo <= (H - 1) * BLo
      BY <1>1, <1>2
    <3>2. (H - 1) * BLo <= (H - 1) * (H - 1)
      BY <1>1, <1>2
    <3> QED
      BY <1>1, <1>2, <3>1, <3>2
  <2>3. A \in Nat /\ B \in Nat
    BY <1>1
  <2> QED
    BY <2>1, <2>2, <2>3
<1>6. LoBits \in 0 .. H * H - 1
  <2>1. (H - 1) * (H - 1) = H * H - 2 * H + 1
    BY <1>1
  <2>2. H * H \in Nat
    BY <1>1
  <2> QED
    BY <1>1, <1>5, <2>1, <2>2
<1>7. CASE AHi = 0 /\ BHi = 0
  <2>1. HiBits1 = 0 /\ HiBits2 = 0
    BY <1>2, <1>7
  <2>2. A * B = LoBits
    BY <1>1, <1>4, <1>5, <1>7, <2>1
  <2> HIDE DEF LoBits
  <2>3. Told(Overflows!Say(FALSE, LoBits), A * B, 0 .. N - 1)
    BY <1>1, <1>6, <2>2, SayTold
  <2> QED
    BY <1>3, <1>5, <1>7, <2>3
<1>8. CASE ~(AHi = 0 /\ BHi = 0)
  <2>1. /\ Overflow <=> A * B \notin 0 .. N - 1
        /\ A * B \in 0 .. N - 1 => Result = A * B
    <3>1. CASE AHi > 0 /\ BHi > 0
      <4>1. (AHi * BHi) >= 1
        BY <1>2, <3>1
      <4>2. (AHi * BHi) * N >= N
        BY <1>1, <1>2, <4>1
      <4>3. (HiBits1 + HiBits2) * H \in Nat
        BY <1>1, <1>5
      <4>4. A * B >= N
        BY <1>1, <1>2, <1>4, <1>5, <4>2, <4>3
      <4> QED
        BY <1>1, <1>5, <3>1, <4>4
    <3>2. CASE ~(AHi > 0 /\ BHi > 0)
      <4>1. HiBits1 = 0 \/ HiBits2 = 0
        BY <1>2, <3>2
      <4>2. PICK m \in {HiBits1, HiBits2} : HiBits1 + HiBits2 = m
                 /\ (m \div H # 0 <=> HiBits1 \div H # 0 \/ HiBits2 \div H # 0)
        <5>1. 0 \div H = 0
          BY <1>1
        <5> HIDE DEF HiBits1, HiBits2
        <5>2. CASE HiBits1 = 0
          BY <1>5, <5>1, <5>2
        <5>3. CASE HiBits2 = 0
          BY <1>5, <5>1, <5>3
        <5> QED
          BY <4>1, <5>2, <5>3
      <4>3. (AHi * BHi) * N = 0
        <5>1. AHi * BHi = 0
          BY <1>2, <3>2
        <5> QED
          BY <1>1, <5>1
      <4>4. A * B = LoBits + (m * H) /\ Result = (LoBits + (m * H)) % (H * H)
        BY <1>1, <1>2, <1>4, <1>5, <4>2, <4>3
      <4>5. m \in Nat
        BY <1>5
      <4> HIDE DEF HiBits1, HiBits2, LoBits, Result, H, N
      <4>6. /\ LoBits + (m * H) \in Nat
            /\ m \div H # 0 => LoBits + (m * H) >= H * H
            /\ m \div H = 0 => /\ Result < LoBits <=> LoBits + (m * H) >= H * H
                               /\ LoBits + (m * H) < H * H => Result = LoBits + (m * H)
        <5>1. /\ H \in Nat /\ H >= 2 /\ m \in Nat /\ LoBits \in 0 .. H * H - 1
              /\ Result = (LoBits + (m * H)) % (H * H)
          BY <1>1, <1>6, <4>4, <4>5
        <5> QED
          BY ONLY <5>1, CrossProduct
      <4>7. A * B \in 0 .. N - 1 <=> LoBits + (m * H) < H * H
        BY <1>1, <1>5, <4>4
      <4>8. H * H \in Nat
        BY <1>1
      <4> QED
        BY <3>2, <4>2, <4>4, <4>6, <4>7, <4>8
    <3> QED
      BY <3>1, <3>2
  <2>2. CASE Overflow
    <3>1. Overflow = TRUE
      BY <2>2
    <3> HIDE DEF Overflow, Result
    <3>2. Told(Overflows!Say(TRUE, Result), A * B, 0 .. N - 1)
      BY <2>1, <2>2, SayTold
    <3> QED
      BY <1>3, <1>5, <1>8, <3>1, <3>2
  <2>3. CASE ~Overflow
    <3>1. Overflow = FALSE
      BY <2>3
    <3> HIDE DEF Overflow, Result
    <3>2. Told(Overflows!Say(FALSE, Result), A * B, 0 .. N - 1)
      BY <2>1, <2>3, SayTold
    <3> QED
      BY <1>3, <1>5, <1>8, <3>1, <3>2
  <2> QED
    BY <2>2, <2>3
<1> QED
  BY <1>7, <1>8

Signed64 == Overflows!Values(Overflows!Size64, TRUE)

LEMMA S64Is ==
  \E M \in Nat : /\ M >= 1 /\ Overflows!Size64 = 2 * M /\ Signed64 = -M .. (M - 1)
                 /\ Overflows!MAX_INT64 = M - 1 /\ Overflows!MIN_INT64 = -M
                 /\ \A x \in -M .. (M - 1) : Overflows!S64(x) = x
<1>1. PICK M \in Nat : Overflows!Size64 = 2 * M /\ Overflows!Size64 \div 2 = M /\ M >= 1
  BY Widths
<1>2. Signed64 = -M .. (M - 1) /\ Overflows!MAX_INT64 = M - 1 /\ Overflows!MIN_INT64 = -M
  BY <1>1 DEF Signed64, Overflows!Values, Overflows!MAX_INT64, Overflows!MIN_INT64
<1>3. ASSUME NEW x \in -M .. (M - 1) PROVE Overflows!S64(x) = x
  BY <1>1, Widths, AsSignedIs DEF Overflows!S64
<1> QED
  BY <1>1, <1>2, <1>3

LEMMA AddS64Told ==
  ASSUME NEW A \in Signed64, NEW B \in Signed64
  PROVE  Told(Overflows!OcOverflowAddS64(A, B), A + B, Signed64)
<1>1. PICK M \in Nat : /\ M >= 1 /\ Overflows!Size64 = 2 * M /\ Signed64 = -M .. (M - 1)
                       /\ Overflows!MAX_INT64 = M - 1 /\ Overflows!MIN_INT64 = -M
                       /\ \A x \in -M .. (M - 1) : Overflows!S64(x) = x
  BY S64Is
<1> DEFINE up == Overflows!S64(Overflows!MAX_INT64 - B)
           down == Overflows!S64(Overflows!MIN_INT64 - B)
           fits == (B <= 0 \/ A <= up) /\ (B >= 0 \/ A >= down)
<1>2. (B > 0 => up = M - 1 - B) /\ (B < 0 => down = -M - B) /\ A \in Int /\ B \in Int
  <2>1. B > 0 => M - 1 - B \in -M .. (M - 1)
    BY <1>1
  <2>2. B < 0 => -M - B \in -M .. (M - 1)
    BY <1>1
  <2> QED
    BY <1>1, <2>1, <2>2
<1>3. Overflows!OcOverflowAddS64(A, B) =
        IF fits THEN Overflows!Say(FALSE, Overflows!S64(A + B)) ELSE Overflows!Say(TRUE, 0)
  BY DEF Overflows!OcOverflowAddS64
<1> HIDE DEF up, down
<1>4. fits <=> A + B \in Signed64
  BY <1>1, <1>2
<1>5. CASE fits
  <2>1. A + B \in -M .. (M - 1)
    BY <1>1, <1>4, <1>5
  <2>2. Overflows!S64(A + B) = A + B
    BY <1>1, <2>1
  <2> QED
    BY <1>3, <1>4, <1>5, <2>2, SayTold
<1>6. CASE ~fits
  BY <1>3, <1>4, <1>6, SayTold
<1> QED
  BY <1>5, <1>6

LEMMA SubS64Told ==
  ASSUME NEW A \in Signed64, NEW B \in Signed64
  PROVE  Told(Overflows!OcOverflowSubS64(A, B), A - B, Signed64)
<1>1. PICK M \in Nat : /\ M >= 1 /\ Overflows!Size64 = 2 * M /\ Signed64 = -M .. (M - 1)
                       /\ Overflows!MAX_INT64 = M - 1 /\ Overflows!MIN_INT64 = -M
                       /\ \A x \in -M .. (M - 1) : Overflows!S64(x) = x
  BY S64Is
<1> DEFINE up == Overflows!S64(Overflows!MAX_INT64 + B)
           down == Overflows!S64(Overflows!MIN_INT64 + B)
           fits == (B >= 0 \/ A <= up) /\ (B <= 0 \/ A >= down)
<1>2. (B < 0 => up = M - 1 + B) /\ (B > 0 => down = -M + B) /\ A \in Int /\ B \in Int
  <2>1. B < 0 => M - 1 + B \in -M .. (M - 1)
    BY <1>1
  <2>2. B > 0 => -M + B \in -M .. (M - 1)
    BY <1>1
  <2> QED
    BY <1>1, <2>1, <2>2
<1>3. Overflows!OcOverflowSubS64(A, B) =
        IF fits THEN Overflows!Say(FALSE, Overflows!S64(A - B)) ELSE Overflows!Say(TRUE, 0)
  BY DEF Overflows!OcOverflowSubS64
<1> HIDE DEF up, down
<1>4. fits <=> A - B \in Signed64
  BY <1>1, <1>2
<1>5. CASE fits
  <2>1. A - B \in -M .. (M - 1)
    BY <1>1, <1>4, <1>5
  <2>2. Overflows!S64(A - B) = A - B
    BY <1>1, <2>1
  <2> QED
    BY <1>3, <1>4, <1>5, <2>2, SayTold
<1>6. CASE ~fits
  BY <1>3, <1>4, <1>6, SayTold
<1> QED
  BY <1>5, <1>6

LEMMA MulS64Told ==
  ASSUME NEW A \in Signed64, NEW B \in Signed64
  PROVE  Told(Overflows!OcOverflowMulS64(A, B), A * B, Signed64)
<1>1. PICK M \in Nat : /\ M >= 1 /\ Overflows!Size64 = 2 * M /\ Signed64 = -M .. (M - 1)
                       /\ Overflows!MAX_INT64 = M - 1 /\ Overflows!MIN_INT64 = -M
                       /\ \A x \in -M .. (M - 1) : Overflows!S64(x) = x
  BY S64Is
<1> DEFINE a == Overflows!Abs64(A)
           b == Overflows!Abs64(B)
           u == Overflows!OcOverflowMulU64(a, b)
<1>2. ASSUME NEW x \in Signed64
      PROVE  /\ x \in Int /\ Overflows!Abs64(x) = IF x < 0 THEN -x ELSE x
             /\ Overflows!Abs64(x) \in 0 .. Overflows!Size64 - 1
  <2>1. x < 0 => -(x + 1) \in -M .. (M - 1)
    BY <1>1
  <2>2. x < 0 => Overflows!Abs64(x) = -(x + 1) + 1
    BY <1>1, <2>1 DEF Overflows!Abs64
  <2>3. ~(x < 0) => Overflows!Abs64(x) = x
    BY DEF Overflows!Abs64
  <2> QED
    BY <1>1, <2>2, <2>3
<1>3. /\ a = IF A < 0 THEN -A ELSE A
      /\ b = IF B < 0 THEN -B ELSE B
      /\ a \in 0 .. Overflows!Size64 - 1 /\ b \in 0 .. Overflows!Size64 - 1
      /\ A \in Int /\ B \in Int
      /\ Overflows!Abs64(Overflows!MIN_INT64) = M
  <2>1. Overflows!MIN_INT64 \in Signed64 /\ Overflows!MIN_INT64 < 0 /\ -Overflows!MIN_INT64 = M
    BY <1>1
  <2> QED
    BY <1>2, <2>1
<1> HIDE DEF a, b
<1>4. Told(u, a * b, 0 .. 2 * M - 1) /\ a * b \in Nat
  BY <1>1, <1>3, MulU64Told
<1> HIDE DEF u
<1>5. /\ (A < 0) = (B < 0) => A * B = a * b
      /\ ~((A < 0) = (B < 0)) => A * B = -(a * b)
  BY <1>3
<1>6. Overflows!OcOverflowMulS64(A, B) =
        IF u.Overflow THEN Overflows!Say(TRUE, 0)
        ELSE IF (A < 0) = (B < 0)
        THEN IF u.Result <= M - 1 THEN Overflows!Say(FALSE, u.Result) ELSE Overflows!Say(TRUE, 0)
        ELSE IF u.Result <= M THEN Overflows!Say(FALSE, -u.Result) ELSE Overflows!Say(TRUE, 0)
  BY <1>1, <1>3 DEF Overflows!OcOverflowMulS64, u, a, b
<1> DEFINE p == a * b
<1>7. Told(u, p, 0 .. 2 * M - 1) /\ p \in Nat
  BY <1>4
<1>8. ((A < 0) = (B < 0) /\ A * B = p) \/ (~((A < 0) = (B < 0)) /\ A * B = -p)
  BY <1>5
<1> HIDE DEF p
<1>9. CASE u.Overflow
  <2>1. A * B \notin Signed64
    BY <1>1, <1>7, <1>8, <1>9 DEF Told
  <2> QED
    BY <1>6, <1>9, <2>1, SayTold
<1>10. CASE ~u.Overflow
  <2>1. u.Result = p
    BY <1>7, <1>10 DEF Told
  <2>2. CASE (A < 0) = (B < 0)
    <3>1. A * B = p
      BY <1>8, <2>2
    <3>2. CASE p <= M - 1
      <4>1. Overflows!OcOverflowMulS64(A, B) = Overflows!Say(FALSE, p)
        BY <1>6, <1>10, <2>1, <2>2, <3>2
      <4>2. A * B \in Signed64
        BY <1>1, <1>7, <3>1, <3>2
      <4> QED
        BY <3>1, <4>1, <4>2, SayTold
    <3>3. CASE ~(p <= M - 1)
      <4>1. Overflows!OcOverflowMulS64(A, B) = Overflows!Say(TRUE, 0)
        BY <1>6, <1>10, <2>1, <2>2, <3>3
      <4>2. A * B \notin Signed64
        BY <1>1, <1>7, <3>1, <3>3
      <4> QED
        BY <4>1, <4>2, SayTold
    <3> QED
      BY <3>2, <3>3
  <2>3. CASE ~((A < 0) = (B < 0))
    <3>1. A * B = -p
      BY <1>8, <2>3
    <3>2. CASE p <= M
      <4>1. Overflows!OcOverflowMulS64(A, B) = Overflows!Say(FALSE, -p)
        BY <1>6, <1>10, <2>1, <2>3, <3>2
      <4>2. A * B \in Signed64
        BY <1>1, <1>7, <3>1, <3>2
      <4> QED
        BY <3>1, <4>1, <4>2, SayTold
    <3>3. CASE ~(p <= M)
      <4>1. Overflows!OcOverflowMulS64(A, B) = Overflows!Say(TRUE, 0)
        BY <1>6, <1>10, <2>1, <2>3, <3>3
      <4>2. A * B \notin Signed64
        BY <1>1, <1>7, <3>1, <3>3
      <4> QED
        BY <4>1, <4>2, SayTold
    <3> QED
      BY <3>2, <3>3
  <2> QED
    BY <2>2, <2>3
<1> QED
  BY <1>9, <1>10

LEMMA ExactlyIs ==
  \A A, B \in Int : /\ Overflows!Exactly("Add", A, B) = A + B
                    /\ Overflows!Exactly("Sub", A, B) = A - B
                    /\ Overflows!Exactly("Mul", A, B) = A * B
BY DEF Overflows!Exactly

\* Every function of two operands, of every width.
LEMMA OverflowTold ==
  ASSUME NEW op \in {"Add", "Sub", "Mul"}, NEW v \in Overflows!Variants,
         NEW A \in Overflows!Operands(v), NEW B \in Overflows!Operands(v)
  PROVE  /\ Told(Overflows!OcOverflow(op, v, A, B), Overflows!Exactly(op, A, B),
                 Overflows!Operands(v))
         /\ Overflows!Operands(v) \subseteq Int /\ Overflows!Exactly(op, A, B) \in Int
<1> DEFINE wide == v.width = "64" \/ (v.width = "N" /\ UintnIs64)
<1>1. Overflows!Wide(v) <=> wide
  BY DEF Overflows!Wide
<1>2. v.signed \in BOOLEAN
  BY DEF Overflows!Variants
<1>3. Overflows!Operands(v) =
        Overflows!Values(IF Overflows!Wide(v) THEN Overflows!Size64 ELSE Size32, v.signed)
  BY DEF Overflows!Operands
<1>4. Overflows!Operands(v) \subseteq Int /\ A \in Int /\ B \in Int
  BY <1>3, Widths DEF Overflows!Values
<1> DEFINE x == Overflows!Exactly(op, A, B)
<1>5. /\ (op = "Add" /\ x = A + B) \/ (op = "Sub" /\ x = A - B) \/ (op = "Mul" /\ x = A * B)
      /\ x \in Int
  <2>1. A + B \in Int /\ A - B \in Int /\ A * B \in Int
    BY <1>4
  <2>2. CASE op = "Add"
    BY <1>4, <2>1, <2>2, ExactlyIs
  <2>3. CASE op = "Sub"
    BY <1>4, <2>1, <2>3, ExactlyIs
  <2>4. CASE op = "Mul"
    BY <1>4, <2>1, <2>4, ExactlyIs
  <2> QED
    BY <2>2, <2>3, <2>4
<1> DEFINE said == Overflows!OcOverflow(op, v, A, B)
           S == Overflows!Operands(v)
<1>6. ASSUME ~Overflows!Wide(v) /\ (v.signed \/ op = "Mul")
      PROVE  Told(said, x, S)
  <2>1. Overflows!OcOverflow(op, v, A, B) = Overflows!Narrowed(Overflows!Exactly(op, A, B), v.signed)
    BY <1>6 DEF Overflows!OcOverflow
  <2> QED
    BY <1>2, <1>3, <1>5, <1>6, <2>1, NarrowedTold
<1>7. ASSUME ~Overflows!Wide(v) /\ ~v.signed /\ op # "Mul"
      PROVE  Told(said, x, S)
  <2>1. Overflows!Operands(v) = 0 .. Size32 - 1
    BY <1>3, <1>7 DEF Overflows!Values
  <2>2. op = "Add" => Overflows!OcOverflow(op, v, A, B) = Overflows!AddUnsigned(A, B, Size32)
    BY <1>7 DEF Overflows!OcOverflow
  <2>3. op = "Sub" => Overflows!OcOverflow(op, v, A, B) = Overflows!SubUnsigned(A, B, Size32)
    BY <1>7 DEF Overflows!OcOverflow
  <2> QED
    <3>1. CASE op = "Add"
      <4>1. Told(Overflows!AddUnsigned(A, B, Size32), A + B, 0 .. Size32 - 1)
        BY <2>1, AddTold, Widths
      <4> HIDE DEF x, said, S
      <4> QED
        BY <1>5, <2>1, <2>2, <3>1, <4>1 DEF S, said
    <3>2. CASE op = "Sub"
      <4>1. Told(Overflows!SubUnsigned(A, B, Size32), A - B, 0 .. Size32 - 1)
        BY <2>1, SubTold, Widths
      <4> HIDE DEF x, said, S
      <4> QED
        BY <1>5, <2>1, <2>3, <3>2, <4>1 DEF S, said
    <3> HIDE DEF x, said, S
    <3> QED
      BY <1>5, <1>7, <3>1, <3>2
<1>8. ASSUME Overflows!Wide(v) /\ ~v.signed
      PROVE  Told(said, x, S)
  <2>1. Overflows!Operands(v) = 0 .. Overflows!Size64 - 1
    BY <1>3, <1>8 DEF Overflows!Values
  <2>2. op = "Add" =>
          Overflows!OcOverflow(op, v, A, B) = Overflows!AddUnsigned(A, B, Overflows!Size64)
    BY <1>8 DEF Overflows!OcOverflow
  <2>3. op = "Sub" =>
          Overflows!OcOverflow(op, v, A, B) = Overflows!SubUnsigned(A, B, Overflows!Size64)
    BY <1>8 DEF Overflows!OcOverflow
  <2>4. op = "Mul" => Overflows!OcOverflow(op, v, A, B) = Overflows!OcOverflowMulU64(A, B)
    BY <1>8 DEF Overflows!OcOverflow
  <2> QED
    <3>1. CASE op = "Add"
      <4>1. Told(Overflows!AddUnsigned(A, B, Overflows!Size64), A + B, S)
        BY <2>1, AddTold, Widths
      <4> HIDE DEF x, said, S
      <4> QED
        BY <1>5, <2>2, <3>1, <4>1 DEF said
    <3>2. CASE op = "Sub"
      <4>1. Told(Overflows!SubUnsigned(A, B, Overflows!Size64), A - B, S)
        BY <2>1, SubTold, Widths
      <4> HIDE DEF x, said, S
      <4> QED
        BY <1>5, <2>3, <3>2, <4>1 DEF said
    <3>3. CASE op = "Mul"
      <4>1. Told(Overflows!OcOverflowMulU64(A, B), A * B, S)
        BY <2>1, MulU64Told
      <4> HIDE DEF x, said, S
      <4> QED
        BY <1>5, <2>4, <3>3, <4>1 DEF said
    <3> HIDE DEF x, said, S
    <3> QED
      BY <1>5, <3>1, <3>2, <3>3
<1>9. ASSUME Overflows!Wide(v) /\ v.signed
      PROVE  Told(said, x, S)
  <2>1. Overflows!Operands(v) = Signed64
    BY <1>3, <1>9 DEF Signed64, Overflows!Values
  <2>2. op = "Add" => Overflows!OcOverflow(op, v, A, B) = Overflows!OcOverflowAddS64(A, B)
    BY <1>9 DEF Overflows!OcOverflow
  <2>3. op = "Sub" => Overflows!OcOverflow(op, v, A, B) = Overflows!OcOverflowSubS64(A, B)
    BY <1>9 DEF Overflows!OcOverflow
  <2>4. op = "Mul" => Overflows!OcOverflow(op, v, A, B) = Overflows!OcOverflowMulS64(A, B)
    BY <1>9 DEF Overflows!OcOverflow
  <2> QED
    <3>1. CASE op = "Add"
      <4>1. Told(Overflows!OcOverflowAddS64(A, B), A + B, S)
        BY <2>1, AddS64Told
      <4> HIDE DEF x, said, S
      <4> QED
        BY <1>5, <2>2, <3>1, <4>1 DEF said
    <3>2. CASE op = "Sub"
      <4>1. Told(Overflows!OcOverflowSubS64(A, B), A - B, S)
        BY <2>1, SubS64Told
      <4> HIDE DEF x, said, S
      <4> QED
        BY <1>5, <2>3, <3>2, <4>1 DEF said
    <3>3. CASE op = "Mul"
      <4>1. Told(Overflows!OcOverflowMulS64(A, B), A * B, S)
        BY <2>1, MulS64Told
      <4> HIDE DEF x, said, S
      <4> QED
        BY <1>5, <2>4, <3>3, <4>1 DEF said
    <3> HIDE DEF x, said, S
    <3> QED
      BY <1>5, <3>1, <3>2, <3>3
<1>10. Told(said, x, S)
  <2> HIDE DEF x, said, S
  <2> QED
    BY <1>2, <1>5, <1>6, <1>7, <1>8, <1>9
<1> QED
  BY <1>4, <1>5, <1>10

LEMMA TwoTold ==
  ASSUME Overflows!GuardTwo PROVE Overflows!OverflowToldExactly'
<1>1. PICK op \in {"Add", "Sub", "Mul"}, v \in Overflows!Variants :
        \E A, B \in Overflows!Operands(v) :
          /\ guardCall' = [first |-> op, second |-> "none", v |-> v, A |-> A, B |-> B]
          /\ guardSaid' = Overflows!OcOverflow(op, v, A, B)
  BY DEF Overflows!GuardTwo
<1>2. PICK A \in Overflows!Operands(v), B \in Overflows!Operands(v) :
        /\ guardCall' = [first |-> op, second |-> "none", v |-> v, A |-> A, B |-> B]
        /\ guardSaid' = Overflows!OcOverflow(op, v, A, B)
  BY <1>1
<1> DEFINE x == Overflows!Exactly(op, A, B)
           S == Overflows!Operands(v)
<1>3. Told(guardSaid', x, S)
  BY <1>2, OverflowTold
<1>4. guardCall'.first = op /\ guardCall'.second = "none" /\ guardCall'.v = v
      /\ guardCall'.A = A /\ guardCall'.B = B
  BY <1>2
<1>5. {x, x} \subseteq S <=> x \in S
  OBVIOUS
<1>6. (guardSaid'.Overflow = ~({x, x} \subseteq S)) /\ ({x, x} \subseteq S => guardSaid'.Result = x)
  <2> HIDE DEF x, S
  <2> QED
    BY <1>3, <1>5 DEF Told
<1> QED
  BY <1>4, <1>6 DEF Overflows!OverflowToldExactly

LEMMA ThreeTold ==
  ASSUME Overflows!GuardThree PROVE Overflows!OverflowToldExactly'
<1>1. PICK first \in {"Add", "Mul"}, second \in {"Add", "Mul"}, v \in Overflows!Variants :
        \E A, B, C \in Overflows!Operands(v) :
          /\ guardCall' = [first |-> first, second |-> second, v |-> v, A |-> A, B |-> B, C |-> C]
          /\ guardSaid' = Overflows!OcOverflowTri(first, second, v, A, B, C)
  BY DEF Overflows!GuardThree
<1>2. PICK A \in Overflows!Operands(v), B \in Overflows!Operands(v), C \in Overflows!Operands(v) :
        /\ guardCall' = [first |-> first, second |-> second, v |-> v, A |-> A, B |-> B, C |-> C]
        /\ guardSaid' = Overflows!OcOverflowTri(first, second, v, A, B, C)
  BY <1>1
<1> DEFINE S == Overflows!Operands(v)
           one == Overflows!OcOverflow(first, v, A, B)
           two == Overflows!OcOverflow(second, v, one.Result, C)
           x == Overflows!Exactly(first, A, B)
           y == Overflows!Exactly(second, x, C)
<1>3. guardSaid' = Overflows!Say(one.Overflow \/ two.Overflow, two.Result)
  BY <1>2 DEF Overflows!OcOverflowTri
<1>4. Told(one, x, S)
  BY OverflowTold
<1>5. x \in S => Told(two, y, S)
  <2>1. x \in S => one.Result = x
    BY <1>4 DEF Told
  <2>2. first \in {"Add", "Sub", "Mul"} /\ second \in {"Add", "Sub", "Mul"}
    OBVIOUS
  <2>3. x \in S => Told(Overflows!OcOverflow(second, v, x, C), y, S)
    BY <2>2, OverflowTold
  <2> QED
    BY <2>1, <2>3
<1>6. guardCall'.first = first /\ guardCall'.second = second /\ second # "none" /\ guardCall'.v = v
      /\ guardCall'.A = A /\ guardCall'.B = B /\ guardCall'.C = C
  BY <1>2
<1>7. (guardSaid'.Overflow = ~({x, y} \subseteq S)) /\ ({x, y} \subseteq S => guardSaid'.Result = y)
  <2> HIDE DEF x, y, S, one, two
  <2>1. CASE {x, y} \subseteq S
    <3>1. x \in S /\ y \in S
      BY <2>1
    <3>2. ~one.Overflow /\ ~two.Overflow /\ two.Result = y
      BY <1>4, <1>5, <3>1 DEF Told
    <3>3. (one.Overflow \/ two.Overflow) = FALSE
      BY <3>2
    <3>4. guardSaid' = Overflows!Say(FALSE, two.Result)
      BY <1>3, <3>3
    <3> QED
      BY <2>1, <3>2, <3>4 DEF Overflows!Say
  <2>2. CASE ~({x, y} \subseteq S)
    <3>1. x \notin S \/ y \notin S
      BY <2>2
    <3>2. one.Overflow \/ two.Overflow
      BY <1>4, <1>5, <3>1 DEF Told
    <3>3. (one.Overflow \/ two.Overflow) = TRUE
      BY <3>2
    <3>4. guardSaid' = Overflows!Say(TRUE, two.Result)
      BY <1>3, <3>3
    <3> QED
      BY <2>2, <3>4 DEF Overflows!Say
  <2> QED
    BY <2>1, <2>2
<1> QED
  BY <1>6, <1>7 DEF Overflows!OverflowToldExactly

\* The functions that tell of overflow are exact for numbers of every width: their long
\* multiplication looks at all that can overflow, and no check wraps (BitOverflow.c:26-295).
THEOREM OverflowsAreTold == Overflows!GuardSpec => []OverflowToldExactly
<1>1. Overflows!GuardInit => Overflows!OverflowToldExactly
  BY DEF Overflows!GuardInit, Overflows!OverflowToldExactly
<1>2. Overflows!OverflowToldExactly /\ [Overflows!GuardNext]_(Overflows!guardVars)
        => Overflows!OverflowToldExactly'
  <2> SUFFICES ASSUME Overflows!OverflowToldExactly, [Overflows!GuardNext]_(Overflows!guardVars)
               PROVE  Overflows!OverflowToldExactly'
    OBVIOUS
  <2>1. CASE Overflows!GuardTwo
    BY <2>1, TwoTold
  <2>2. CASE Overflows!GuardThree
    BY <2>2, ThreeTold
  <2>3. CASE Overflows!GuardReturns
    BY <2>3 DEF Overflows!GuardReturns, Overflows!OverflowToldExactly
  <2>4. CASE UNCHANGED Overflows!guardVars
    BY <2>4 DEF Overflows!guardVars, Overflows!OverflowToldExactly
  <2> QED
    BY <2>1, <2>2, <2>3, <2>4 DEF Overflows!GuardNext
<1> QED
  BY <1>1, <1>2, PTL DEF Overflows!GuardSpec, OverflowToldExactly
=============================================================================
