------------------------------ MODULE ListLoops ------------------------------
(***************************************************************************)
(* What simple loops over a list compute, as recursive functions: what is  *)
(* left of it when some of its elements are dropped (as the event library  *)
(* does with unregistered handlers and with devices that are gone), and    *)
(* the total of its numbers.                                               *)
(***************************************************************************)
EXTENDS Integers, Sequences

\* The elements of a list that are in T, in their order.
Only(list, T) ==
  LET kept[n \in 0 .. Len(list)] ==
        IF n = 0 THEN << >>
        ELSE IF list[n] \in T THEN Append(kept[n - 1], list[n]) ELSE kept[n - 1]
  IN  kept[Len(list)]

\* The sum of the first m numbers of a list.
Total(list, m) ==
  LET sum[n \in 0 .. Len(list)] == IF n = 0 THEN 0 ELSE sum[n - 1] + list[n]
  IN  sum[m]
=============================================================================
