---------------------------- MODULE MemoryProofs ----------------------------
(***************************************************************************)
(* Proofs about memory maps and page tables, for every value of their      *)
(* constants: mapping a page changes the translation of no other; joining  *)
(* a map keeps what is in it, pages from the top are free and the highest  *)
(* there are, and the free pages are counted right.                        *)
(***************************************************************************)
EXTENDS MemoryMap, VirtualMemory, SequenceLemmas

----------------------------------------------------------------------------
(* Page tables: addresses. *)

\* A number has one quotient and one rest.
LEMMA DivisionIsUnique ==
  ASSUME NEW d \in Nat, d > 0, NEW q \in Nat, NEW r \in 0 .. d - 1, NEW n, n = d * q + r
  PROVE  n \div d = q /\ n % d = r
<1> DEFINE q2 == n \div d
           r2 == n % d
<1>1. n \in Nat /\ q2 \in Int /\ r2 \in 0 .. d - 1 /\ n = d * q2 + r2
  <2>1. d * q \in Nat
    OBVIOUS
  <2>2. n \in Nat
    BY <2>1
  <2> QED
    BY <2>2
<1> HIDE DEF q2, r2
<1>2. d * q - d * q2 = r2 - r
  <2>1. d * q \in Int /\ d * q2 \in Int
    BY <1>1
  <2> QED
    BY <1>1, <2>1
<1>3. d * (q - q2) = r2 - r
  BY <1>1, <1>2
<1>4. ~(q - q2 >= 1)
  <2> SUFFICES ASSUME q - q2 >= 1 PROVE FALSE
    OBVIOUS
  <2>1. d * (q - q2) >= d
    BY <1>1
  <2> QED
    BY <1>1, <1>3, <2>1
<1>5. ~(q2 - q >= 1)
  <2> SUFFICES ASSUME q2 - q >= 1 PROVE FALSE
    OBVIOUS
  <2>1. d * (q2 - q) >= d
    BY <1>1
  <2>2. d * (q - q2) = -(d * (q2 - q))
    BY <1>1
  <2> QED
    BY <1>1, <1>3, <2>1, <2>2
<1>6. q = q2
  BY <1>1, <1>4, <1>5
<1> QED
  BY <1>1, <1>2, <1>6 DEF q2, r2

\* The rest under a larger unit is the digit of the smaller one and the rest under it.
LEMMA DigitAndRest ==
  ASSUME NEW f \in Nat, f > 0, NEW c \in Nat, c > 0, NEW w \in Nat
  PROVE  /\ w \div c \in Nat /\ (w \div c) % f \in 0 .. f - 1 /\ w % c \in 0 .. c - 1
         /\ w % (f * c) = c * ((w \div c) % f) + (w % c)
         /\ w = c * (w \div c) + (w % c)
         /\ w % (f * c) < f * c
<1> DEFINE q == w \div c
           r == w % c
           p == q \div f
           i == q % f
<1>1. q \in Int /\ r \in 0 .. c - 1 /\ w = c * q + r
  OBVIOUS
<1> HIDE DEF q, r
<1>2. q \in Nat
  <2> SUFFICES ASSUME q <= -1 PROVE FALSE
    BY <1>1
  <2>1. c * q <= -c
    BY <1>1
  <2> QED
    BY <1>1, <2>1
<1>3. p \in Int /\ i \in 0 .. f - 1 /\ q = f * p + i
  BY <1>2
<1> HIDE DEF p, i
<1>4. p \in Nat
  <2> SUFFICES ASSUME p <= -1 PROVE FALSE
    BY <1>3
  <2>1. f * p <= -f
    BY <1>3
  <2> QED
    BY <1>2, <1>3, <2>1
<1> DEFINE d == f * c
           rest == c * i + r
<1>5. d \in Nat /\ d > 0
  OBVIOUS
<1>6. w = d * p + rest
  <2>1. c * q = c * (f * p) + c * i
    BY <1>3, <1>4
  <2>2. c * (f * p) = d * p
    BY <1>4
  <2> QED
    BY <1>1, <1>3, <1>4, <2>1, <2>2
<1>7. rest \in 0 .. d - 1
  <2>1. c * i >= 0 /\ c * i \in Int
    BY <1>3
  <2>2. c * i <= c * (f - 1)
    BY <1>3
  <2>3. c * (f - 1) = d - c
    OBVIOUS
  <2> HIDE DEF d
  <2> QED
    BY <1>1, <1>5, <2>1, <2>2, <2>3
<1>8. w % d = rest
  <2> HIDE DEF d, rest
  <2> QED
    BY <1>4, <1>5, <1>6, <1>7, DivisionIsUnique
<1> QED
  BY <1>1, <1>2, <1>3, <1>7, <1>8 DEF q, r, i

LEMMA Units ==
  /\ PageFan \in Nat /\ PageFan >= 2
  /\ Covers(1) = PageFan * Covers(2) /\ Covers(2) = PageFan * Covers(3)
  /\ Covers(3) = PageFan * Covers(4) /\ Covers(4) = 1
  /\ \A l \in 1 .. 4 : Covers(l) \in Nat /\ Covers(l) > 0
<1>1. PageFan \in Nat /\ PageFan >= 2
  BY PagesAssumption
<1>2. PageFan * PageFan \in Nat /\ PageFan * PageFan > 0
  BY <1>1
<1> DEFINE s == PageFan * PageFan
<1>3. s * PageFan \in Nat /\ s * PageFan > 0 /\ s * PageFan = PageFan * s
  <2> HIDE DEF s
  <2> QED
    BY <1>1, <1>2 DEF s
<1>4. /\ Covers(1) = PageFan * PageFan * PageFan /\ Covers(2) = PageFan * PageFan
      /\ Covers(3) = PageFan /\ Covers(4) = 1
  BY DEF Covers
<1>5. PageFan * 1 = PageFan
  BY <1>1
<1>6. \A l \in 1 .. 4 : l = 1 \/ l = 2 \/ l = 3 \/ l = 4
  OBVIOUS
<1> QED
  BY <1>1, <1>2, <1>3, <1>4, <1>5, <1>6

\* What the entries of an address say of it.
LEMMA AddressFacts ==
  ASSUME NEW w \in Virtual
  PROVE  /\ w \in Nat
         /\ \A l \in 1 .. 4 : Index(w, l) \in Entries /\ w % Covers(l) \in 0 .. Covers(l) - 1
         /\ w = Covers(1) * Index(w, 1) + (w % Covers(1))
         /\ w % Covers(1) = Covers(2) * Index(w, 2) + (w % Covers(2))
         /\ w % Covers(2) = Covers(3) * Index(w, 3) + (w % Covers(3))
         /\ w % Covers(3) = Index(w, 4) /\ w % Covers(4) = 0
<1>1. w \in Nat /\ w < PageFan * Covers(1)
  <2>1. Covers(1) \in Nat /\ PageFan \in Nat
    BY Units
  <2>2. PageFan * Covers(1) \in Nat
    BY <2>1
  <2> QED
    BY <2>2 DEF Virtual
<1>2. ASSUME NEW l \in 1 .. 4
      PROVE  /\ Index(w, l) \in Entries /\ w % Covers(l) \in 0 .. Covers(l) - 1
             /\ w % (PageFan * Covers(l)) = Covers(l) * Index(w, l) + (w % Covers(l))
  <2>1. Covers(l) \in Nat /\ Covers(l) > 0 /\ PageFan \in Nat /\ PageFan > 0
    BY Units
  <2> QED
    BY <1>1, <2>1, DigitAndRest DEF Index, Entries
<1>3. w % (PageFan * Covers(1)) = w
  BY <1>1, Units
<1>4. /\ w % (PageFan * Covers(1)) = Covers(1) * Index(w, 1) + (w % Covers(1))
      /\ w % (PageFan * Covers(2)) = Covers(2) * Index(w, 2) + (w % Covers(2))
      /\ w % (PageFan * Covers(3)) = Covers(3) * Index(w, 3) + (w % Covers(3))
      /\ w % (PageFan * Covers(4)) = Covers(4) * Index(w, 4) + (w % Covers(4))
  BY <1>2
<1>5. w % Covers(4) = 0 /\ Covers(4) * Index(w, 4) + (w % Covers(4)) = Index(w, 4)
  <2>1. w % 1 = 0
    BY <1>1
  <2>2. Index(w, 4) \in Int
    BY <1>2, Units DEF Entries
  <2> QED
    BY <2>1, <2>2, Units
<1> QED
  BY <1>1, <1>2, <1>3, <1>4, <1>5, Units

\* An address is known by its entries.
LEMMA SameEntries ==
  ASSUME NEW w \in Virtual, NEW v \in Virtual, \A l \in 2 .. 4 : Index(w, l) = Index(v, l)
  PROVE  w % Covers(1) = v % Covers(1) /\ (Index(w, 1) = Index(v, 1) => w = v)
<1>1. Index(w, 2) = Index(v, 2) /\ Index(w, 3) = Index(v, 3) /\ Index(w, 4) = Index(v, 4)
  OBVIOUS
<1> QED
  BY <1>1, AddressFacts

LEMMA FirstRegion ==
  ASSUME NEW w \in Virtual, NEW v \in Virtual, w % Covers(1) = v
  PROVE  Index(v, 1) = 0 /\ \A l \in 2 .. 4 : Index(w, l) = Index(v, l)
<1>1. PICK c \in Nat : c = Covers(1) /\ c > 0
  BY Units
<1>2. v \in 0 .. c - 1 /\ w \in Nat /\ v \in Nat
  BY <1>1, AddressFacts
<1>3. v \div c = 0
  <2>1. v = c * 0 + v
    BY <1>1, <1>2
  <2> QED
    BY <1>1, <1>2, <2>1, DivisionIsUnique
<1>4. Index(v, 1) = 0
  BY <1>1, <1>3, Units DEF Index
<1>5. w % Covers(1) = v % Covers(1)
  BY <1>1, <1>2, <1>4, AddressFacts
<1>6. ASSUME NEW l \in 1 .. 4, NEW u \in Virtual, NEW n \in Nat,
             n = Covers(l) * Index(u, l) + (u % Covers(l))
      PROVE  n \div Covers(l) = Index(u, l) /\ n % Covers(l) = u % Covers(l)
  <2>0. \A k \in 1 .. 4 : Index(u, k) \in Entries /\ u % Covers(k) \in 0 .. Covers(k) - 1
    BY AddressFacts
  <2>1. Index(u, l) \in Nat /\ u % Covers(l) \in 0 .. Covers(l) - 1
    BY <2>0, Units DEF Entries
  <2>2. Covers(l) \in Nat /\ Covers(l) > 0
    BY Units
  <2> QED
    BY <1>6, <2>1, <2>2, DivisionIsUnique
<1>7. \A l \in 1 .. 4 : w % Covers(l) \in Nat
  BY AddressFacts, Units
<1>8. Index(w, 2) = Index(v, 2) /\ w % Covers(2) = v % Covers(2)
  <2>1. w % Covers(1) = Covers(2) * Index(w, 2) + (w % Covers(2))
    BY AddressFacts
  <2>2. w % Covers(1) = Covers(2) * Index(v, 2) + (v % Covers(2))
    BY <1>5, AddressFacts
  <2> QED
    BY <1>6, <1>7, <2>1, <2>2
<1>9. Index(w, 3) = Index(v, 3) /\ w % Covers(3) = v % Covers(3)
  <2>1. w % Covers(2) = Covers(3) * Index(w, 3) + (w % Covers(3))
    BY AddressFacts
  <2>2. w % Covers(2) = Covers(3) * Index(v, 3) + (v % Covers(3))
    BY <1>8, AddressFacts
  <2> QED
    BY <1>6, <1>7, <2>1, <2>2
<1>10. Index(w, 4) = Index(v, 4)
  BY <1>9, AddressFacts
<1>11. \A l \in 2 .. 4 : l = 2 \/ l = 3 \/ l = 4
  OBVIOUS
<1> QED
  BY <1>4, <1>8, <1>9, <1>10, <1>11

----------------------------------------------------------------------------
(* Page tables: the tree. *)

EntryKind == {Absent} \cup {Leaf(p) : p \in Nat} \cup {Table(t) : t \in Nat}

LEMMA EntryFacts ==
  /\ Absent.kind = "absent" /\ Absent \in EntryKind
  /\ \A p \in Nat : Leaf(p).kind = "page" /\ Leaf(p).to = p /\ Leaf(p) # Absent
                    /\ Leaf(p) \in EntryKind
  /\ \A t \in Nat : Table(t).kind = "table" /\ Table(t).to = t /\ Table(t) # Absent
                    /\ Table(t) \in EntryKind
  /\ \A e \in EntryKind : /\ e.kind = "table" => e = Table(e.to) /\ e.to \in Nat
                          /\ e.kind = "page" => e = Leaf(e.to) /\ e.to \in Nat
                          /\ e.kind = "absent" => e = Absent
                          /\ e.kind \in {"absent", "page", "table"}
<1>1. Absent.kind = "absent" /\ Absent \in EntryKind
  BY DEF EntryKind, Absent
<1>2. ASSUME NEW p \in Nat
      PROVE  /\ Leaf(p).kind = "page" /\ Leaf(p).to = p /\ Leaf(p) \in EntryKind
             /\ Table(p).kind = "table" /\ Table(p).to = p /\ Table(p) \in EntryKind
  BY DEF EntryKind, Leaf, Table
<1>3. "absent" # "page" /\ "absent" # "table" /\ "page" # "table"
  OBVIOUS
<1>4. ASSUME NEW e \in EntryKind
      PROVE  e = Absent \/ (\E p \in Nat : e = Leaf(p)) \/ (\E t \in Nat : e = Table(t))
  BY DEF EntryKind
<1>5. \A p \in Nat : Leaf(p) # Absent /\ Table(p) # Absent
  BY <1>1, <1>2, <1>3
<1>6. ASSUME NEW e \in EntryKind
      PROVE  /\ e.kind = "table" => e = Table(e.to) /\ e.to \in Nat
             /\ e.kind = "page" => e = Leaf(e.to) /\ e.to \in Nat
             /\ e.kind = "absent" => e = Absent
             /\ e.kind \in {"absent", "page", "table"}
  BY <1>1, <1>2, <1>3, <1>4
<1> QED
  BY <1>1, <1>2, <1>5, <1>6

\* The tables at their levels: an entry points one level down, the machine's table has no
\* large pages, and a table is pointed to from one place, but for copies of the first entry.
OneWay(tb) ==
  \A t, u \in DOMAIN tb, i, j \in Entries :
    tb[t][i].kind = "table" /\ tb[u][j] = tb[t][i] =>
      (t = u /\ i = j) \/ (t = CR3 /\ u = CR3 /\ tb[t][i] = tb[CR3][0])

TreeRight(tb, lev) ==
  /\ DOMAIN tb \subseteq Nat /\ CR3 \in DOMAIN tb
  /\ lev \in [DOMAIN tb -> 1 .. 4] /\ \A t \in DOMAIN tb : lev[t] = 1 <=> t = CR3
  /\ tb \in [DOMAIN tb -> [Entries -> EntryKind]]
  /\ \A t \in DOMAIN tb, i \in Entries :
       tb[t][i].kind = "table" =>
         lev[t] # 4 /\ tb[t][i].to \in DOMAIN tb /\ lev[tb[t][i].to] = lev[t] + 1
  /\ \A i \in Entries : tb[CR3][i].kind # "page"
  /\ OneWay(tb)

\* What the tables translate w to, from each level on.
Mapped(e, level, w) == IF e = Absent THEN NoMapping ELSE e.to + (w % Covers(level))
Low4(tb, t, w) == Mapped(tb[t][Index(w, 4)], 4, w)
Low3(tb, t, w) == IF tb[t][Index(w, 3)].kind # "table" THEN Mapped(tb[t][Index(w, 3)], 3, w)
                  ELSE Low4(tb, tb[t][Index(w, 3)].to, w)
Low2(tb, t, w) == IF tb[t][Index(w, 2)].kind # "table" THEN Mapped(tb[t][Index(w, 2)], 2, w)
                  ELSE Low3(tb, tb[t][Index(w, 2)].to, w)
Seen(tb, w) == IF tb[CR3][Index(w, 1)] = Absent THEN NoMapping
               ELSE Low2(tb, tb[CR3][Index(w, 1)].to, w)

LEMMA AddressIsSeen ==
  \A w : GetPhysicalAddress(w) = Seen(vmTables, w)
BY DEF GetPhysicalAddress, Seen, Low2, Low3, Low4, Mapped

\* The pieces of a page map what it mapped.
LEMMA PieceFacts ==
  ASSUME NEW e \in EntryKind, e.kind # "table", NEW l \in 1 .. 3
  PROVE  /\ NewTable(e, l) \in [Entries -> EntryKind]
         /\ \A i \in Entries : NewTable(e, l)[i].kind # "table"
         /\ \A w \in Virtual :
              Mapped(NewTable(e, l)[Index(w, l + 1)], l + 1, w) =
                IF l = 1 THEN w % Covers(1) ELSE Mapped(e, l, w)
<1>1. \A i \in Entries : i \in Nat
  BY Units DEF Entries
<1>2. ASSUME NEW i \in Entries, NEW k \in 1 .. 4, NEW b \in Nat
      PROVE  b + i * Covers(k) \in Nat
  <2>1. Covers(k) \in Nat /\ i \in Nat
    BY <1>1, Units
  <2> QED
    BY <2>1
<1>3. ASSUME NEW w \in Virtual, NEW k \in 1 .. 3
      PROVE  /\ Index(w, k + 1) \in Entries
             /\ w % Covers(k) = (Index(w, k + 1) * Covers(k + 1)) + (w % Covers(k + 1))
             /\ w % Covers(k) \in Nat /\ w % Covers(k + 1) \in Nat
             /\ Index(w, k + 1) * Covers(k + 1) \in Nat
  <2>1. k + 1 \in 1 .. 4 /\ (k = 1 \/ k = 2 \/ k = 3)
    OBVIOUS
  <2>2. \A m \in 1 .. 4 : /\ Index(w, m) \in Nat /\ Index(w, m) \in Entries
                          /\ w % Covers(m) \in Nat /\ Covers(m) \in Nat
    <3>1. \A m \in 1 .. 4 : Index(w, m) \in Entries /\ w % Covers(m) \in 0 .. Covers(m) - 1
      BY AddressFacts
    <3>2. \A m \in 1 .. 4 : Covers(m) \in Nat
      BY Units
    <3> QED
      BY <1>1, <3>1, <3>2
  <2>3. Index(w, k + 1) * Covers(k + 1) = Covers(k + 1) * Index(w, k + 1)
        /\ Index(w, k + 1) * Covers(k + 1) \in Nat
    BY <2>1, <2>2
  <2>4. w % Covers(k) = Covers(k + 1) * Index(w, k + 1) + (w % Covers(k + 1))
    <3>1. Covers(4) * Index(w, 4) = Index(w, 4)
      BY <2>2, Units
    <3>2. w % Covers(3) = Covers(4) * Index(w, 4) + (w % Covers(4))
      BY <2>2, <3>1, AddressFacts
    <3> QED
      BY <2>1, <3>2, AddressFacts
  <2> QED
    BY <2>1, <2>2, <2>3, <2>4
<1>4. CASE l = 1
  <2>1. NewTable(e, l) = [i \in Entries |-> Leaf(i * Covers(2))]
    BY <1>4 DEF NewTable
  <2>2. \A i \in Entries : i * Covers(2) \in Nat
    BY <1>1, Units
  <2>3. ASSUME NEW w \in Virtual
        PROVE  Mapped(NewTable(e, l)[Index(w, l + 1)], l + 1, w) = w % Covers(1)
    BY <1>3, <1>4, <2>1, <2>2, EntryFacts DEF Mapped
  <2> QED
    BY <1>4, <2>1, <2>2, <2>3, EntryFacts
<1>5. CASE l # 1 /\ e.kind = "page"
  <2>1. NewTable(e, l) = [i \in Entries |-> Leaf(e.to + i * Covers(l + 1))] /\ l + 1 \in 1 .. 4
    BY <1>5 DEF NewTable
  <2>2. e.to \in Nat /\ e # Absent
    BY <1>5, EntryFacts
  <2>3. \A i \in Entries : e.to + i * Covers(l + 1) \in Nat
    BY <1>2, <2>1, <2>2
  <2>4. ASSUME NEW w \in Virtual
        PROVE  Mapped(NewTable(e, l)[Index(w, l + 1)], l + 1, w) = Mapped(e, l, w)
    <3> DEFINE m == e.to + Index(w, l + 1) * Covers(l + 1)
    <3>1. NewTable(e, l)[Index(w, l + 1)] = Leaf(m) /\ m \in Nat
      BY <1>3, <2>1, <2>3
    <3>2. m + (w % Covers(l + 1)) = e.to + (w % Covers(l))
      BY <1>3, <2>2
    <3> HIDE DEF m
    <3> QED
      BY <2>2, <3>1, <3>2, EntryFacts DEF Mapped
  <2>5. \A i \in Entries : NewTable(e, l)[i] \in EntryKind /\ NewTable(e, l)[i].kind # "table"
    <3> SUFFICES ASSUME NEW i \in Entries
                 PROVE  NewTable(e, l)[i] \in EntryKind /\ NewTable(e, l)[i].kind # "table"
      OBVIOUS
    <3>1. PICK m \in Nat : NewTable(e, l)[i] = Leaf(m)
      BY <2>1, <2>3
    <3> QED
      BY <3>1, EntryFacts
  <2>6. NewTable(e, l) \in [Entries -> EntryKind]
    BY <2>1, <2>5
  <2> QED
    BY <1>5, <2>4, <2>5, <2>6
<1>6. CASE l # 1 /\ e.kind = "absent"
  <2>1. NewTable(e, l) = AllAbsent /\ e = Absent
    BY <1>6, EntryFacts DEF NewTable
  <2>2. \A i \in Entries : NewTable(e, l)[i] = Absent
    BY <2>1 DEF AllAbsent
  <2>3. NewTable(e, l) \in [Entries -> EntryKind]
    BY <2>1, EntryFacts DEF AllAbsent
  <2>4. \A w \in Virtual : Mapped(NewTable(e, l)[Index(w, l + 1)], l + 1, w) = NoMapping
    BY <1>3, <2>2 DEF Mapped
  <2> QED
    BY <1>6, <2>1, <2>2, <2>3, <2>4, EntryFacts DEF Mapped
<1> QED
  <2>1. e.kind = "page" \/ e.kind = "absent"
    BY EntryFacts
  <2> QED
    BY <1>4, <1>5, <1>6, <2>1

\* A new table under entry i of table at.
Split(tb, at, i, l, new) == Linked(tb, at, i, new, NewTable(tb[at][i], l))
SplitLevels(tb, lev, l, new) == [t \in DOMAIN tb \cup {new} |-> IF t = new THEN l + 1 ELSE lev[t]]

\* What a split begins with.
MaySplit(tb, lev, at, i, l, new) ==
  /\ TreeRight(tb, lev) /\ at \in DOMAIN tb /\ lev[at] = l /\ l \in 1 .. 3
  /\ i \in Entries /\ tb[at][i].kind # "table" /\ new \in Nat \ DOMAIN tb

\* How the tables tb2 differ from tb then.
IsSplit(tb, tb2, at, i, l, new) ==
  /\ DOMAIN tb2 = DOMAIN tb \cup {new} /\ new # at
  /\ tb2[new] = NewTable(tb[at][i], l) /\ tb2[at][i] = Table(new)
  /\ \A j \in Entries : tb2[new][j] \in EntryKind /\ tb2[new][j].kind # "table"
  /\ \A j \in Entries : j # i => tb2[at][j] = tb[at][j]
  /\ \A t \in DOMAIN tb : t # at => tb2[t] = tb[t]
  /\ tb2 \in [DOMAIN tb2 -> [Entries -> EntryKind]]

LEMMA SplitEntries ==
  ASSUME NEW tb, NEW lev, NEW at, NEW i, NEW l, NEW new, MaySplit(tb, lev, at, i, l, new)
  PROVE  IsSplit(tb, Split(tb, at, i, l, new), at, i, l, new)
<1> DEFINE tb2 == Split(tb, at, i, l, new)
<1> USE DEF MaySplit, TreeRight
<1>1. /\ DOMAIN tb2 = DOMAIN tb \cup {new} /\ new # at
      /\ tb2[new] = NewTable(tb[at][i], l)
      /\ tb2[at] = [tb[at] EXCEPT ![i] = Table(new)]
      /\ \A t \in DOMAIN tb : t # at => tb2[t] = tb[t]
  BY DEF Split, Linked
<1>2. tb[at] \in [Entries -> EntryKind] /\ tb[at][i] \in EntryKind /\ Table(new) \in EntryKind
  BY EntryFacts
<1>3. /\ NewTable(tb[at][i], l) \in [Entries -> EntryKind]
      /\ \A j \in Entries : NewTable(tb[at][i], l)[j].kind # "table"
  BY <1>2, PieceFacts
<1>4. /\ tb2[at] \in [Entries -> EntryKind] /\ tb2[at][i] = Table(new)
      /\ \A j \in Entries : j # i => tb2[at][j] = tb[at][j]
  BY <1>1, <1>2
<1>6. tb2 = [t \in DOMAIN tb2 |-> tb2[t]]
  BY DEF Split, Linked
<1> HIDE DEF tb2
<1>5. \A t \in DOMAIN tb2 : tb2[t] \in [Entries -> EntryKind]
  <2>1. \A t \in DOMAIN tb : tb[t] \in [Entries -> EntryKind]
    OBVIOUS
  <2> QED
    BY <1>1, <1>3, <1>4, <2>1
<1>7. tb2 \in [DOMAIN tb2 -> [Entries -> EntryKind]]
  BY <1>5, <1>6
<1> QED
  BY <1>1, <1>3, <1>4, <1>7 DEF tb2, IsSplit

LEMMA SplitTree ==
  ASSUME NEW tb, NEW lev, NEW at, NEW i, NEW l, NEW new, MaySplit(tb, lev, at, i, l, new)
  PROVE  TreeRight(Split(tb, at, i, l, new), SplitLevels(tb, lev, l, new))
<1> DEFINE tb2 == Split(tb, at, i, l, new)
           lev2 == SplitLevels(tb, lev, l, new)
<1>1. /\ DOMAIN tb2 = DOMAIN tb \cup {new} /\ new # at
      /\ tb2[at][i] = Table(new)
      /\ \A j \in Entries : tb2[new][j] \in EntryKind /\ tb2[new][j].kind # "table"
      /\ \A j \in Entries : j # i => tb2[at][j] = tb[at][j]
      /\ \A t \in DOMAIN tb : t # at => tb2[t] = tb[t]
      /\ tb2 \in [DOMAIN tb2 -> [Entries -> EntryKind]]
  <2>1. IsSplit(tb, tb2, at, i, l, new)
    BY SplitEntries
  <2> QED
    BY <2>1 DEF IsSplit
<1>2. lev2 \in [DOMAIN tb2 -> 1 .. 4] /\ lev2[new] = l + 1 /\ \A t \in DOMAIN tb : lev2[t] = lev[t]
  BY <1>1 DEF SplitLevels, MaySplit, TreeRight
<1> HIDE DEF tb2, lev2
<1>3. Table(new).kind = "table" /\ Table(new).to = new
  BY EntryFacts DEF MaySplit
\* An entry of the new tables is the new one or an old one.
<1>4. \A t \in DOMAIN tb2, j \in Entries :
        tb2[t][j].kind = "table" =>
          \/ t = at /\ j = i
          \/ t \in DOMAIN tb /\ tb2[t][j] = tb[t][j] /\ (t # at \/ j # i)
  BY <1>1
<1>5. \A t \in DOMAIN tb, j \in Entries :
        tb[t][j].kind = "table" => /\ lev[t] # 4 /\ tb[t][j].to \in DOMAIN tb
                                   /\ lev[tb[t][j].to] = lev[t] + 1
  BY DEF MaySplit, TreeRight
<1>6. \A t \in DOMAIN tb2, j \in Entries :
        tb2[t][j].kind = "table" => /\ lev2[t] # 4 /\ tb2[t][j].to \in DOMAIN tb2
                                    /\ lev2[tb2[t][j].to] = lev2[t] + 1
  <2> SUFFICES ASSUME NEW t \in DOMAIN tb2, NEW j \in Entries, tb2[t][j].kind = "table"
               PROVE  /\ lev2[t] # 4 /\ tb2[t][j].to \in DOMAIN tb2
                      /\ lev2[tb2[t][j].to] = lev2[t] + 1
    OBVIOUS
  <2>1. CASE t = at /\ j = i
    BY <1>1, <1>2, <1>3, <2>1 DEF MaySplit
  <2>2. CASE t \in DOMAIN tb /\ tb2[t][j] = tb[t][j]
    BY <1>1, <1>2, <1>5, <2>2
  <2> QED
    BY <1>4, <2>1, <2>2
<1>7. \A j \in Entries : tb2[CR3][j].kind # "page"
  <2> SUFFICES ASSUME NEW j \in Entries PROVE tb2[CR3][j].kind # "page"
    OBVIOUS
  <2>1. tb[CR3][j].kind # "page" /\ CR3 \in DOMAIN tb
    BY DEF MaySplit, TreeRight
  <2>2. tb2[CR3][j] = tb[CR3][j] \/ tb2[CR3][j] = Table(new)
    BY <1>1, <2>1
  <2> QED
    BY <1>3, <2>1, <2>2
<1>8. OneWay(tb2)
  <2> SUFFICES ASSUME NEW t \in DOMAIN tb2, NEW u \in DOMAIN tb2,
                      NEW j \in Entries, NEW k \in Entries,
                      tb2[t][j].kind = "table", tb2[u][k] = tb2[t][j]
               PROVE  (t = u /\ j = k) \/ (t = CR3 /\ u = CR3 /\ tb2[t][j] = tb2[CR3][0])
    BY DEF OneWay
  <2>1. tb2[u][k].kind = "table"
    OBVIOUS
  <2>2. \A v \in DOMAIN tb, m \in Entries : tb[v][m].kind = "table" => tb[v][m] # Table(new)
    BY <1>3, <1>5 DEF MaySplit
  <2>3. CASE (t = at /\ j = i) \/ (u = at /\ k = i)
    BY <1>1, <1>4, <2>1, <2>2, <2>3
  <2>4. CASE ~(t = at /\ j = i) /\ ~(u = at /\ k = i)
    <3>1. t \in DOMAIN tb /\ u \in DOMAIN tb /\ tb2[t][j] = tb[t][j] /\ tb2[u][k] = tb[u][k]
      BY <1>4, <2>1, <2>4
    <3>2. (t = u /\ j = k) \/ (t = CR3 /\ u = CR3 /\ tb[t][j] = tb[CR3][0])
      BY <3>1 DEF MaySplit, TreeRight, OneWay
    <3>3. t = CR3 /\ tb[t][j] = tb[CR3][0] => tb2[CR3][0] = tb[CR3][0]
      <4>1. 0 \in Entries
        BY Units DEF Entries
      <4>2. tb[CR3][0].kind = "table" => ~(at = CR3 /\ i = 0)
        BY DEF MaySplit
      <4> QED
        BY <1>1, <3>1, <4>1, <4>2
    <3> QED
      BY <3>1, <3>2, <3>3
  <2> QED
    BY <2>3, <2>4
<1>9. /\ DOMAIN tb2 \subseteq Nat /\ CR3 \in DOMAIN tb2
      /\ \A t \in DOMAIN tb2 : lev2[t] = 1 <=> t = CR3
  BY <1>1, <1>2 DEF MaySplit, TreeRight
<1>10. TreeRight(tb2, lev2)
  BY <1>1, <1>2, <1>6, <1>7, <1>8, <1>9 DEF TreeRight
<1> QED
  BY <1>10 DEF tb2, lev2

\* The other tables have the same entries, and so map the same, and the pieces of a page map
\* what it did.  A new region is mapped to the first physical pages.
LEMMA SplitSeen ==
  ASSUME NEW tb, NEW lev, NEW at, NEW i, NEW l, NEW new, MaySplit(tb, lev, at, i, l, new),
         NEW w \in Virtual
  PROVE  LET tb2 == Split(tb, at, i, l, new)
         IN  /\ l # 1 => Seen(tb2, w) = Seen(tb, w)
             /\ l = 1 => Seen(tb2, w) = IF Index(w, 1) = i THEN w % Covers(1) ELSE Seen(tb, w)
<1> DEFINE tb2 == Split(tb, at, i, l, new)
<1>1. /\ new # at /\ tb2[new] = NewTable(tb[at][i], l) /\ tb2[at][i] = Table(new)
      /\ \A j \in Entries : tb2[new][j].kind # "table"
      /\ \A j \in Entries : j # i => tb2[at][j] = tb[at][j]
      /\ \A t \in DOMAIN tb : t # at => tb2[t] = tb[t]
  <2>1. IsSplit(tb, tb2, at, i, l, new)
    BY SplitEntries
  <2> QED
    BY <2>1 DEF IsSplit
<1> HIDE DEF tb2
<1>2. /\ Table(new).kind = "table" /\ Table(new).to = new /\ Table(new) # Absent
      /\ tb[at][i] \in EntryKind /\ tb[at][i].kind # "table"
  BY EntryFacts DEF MaySplit, TreeRight
<1>3. \A k \in 1 .. 4 : Index(w, k) \in Entries
  BY AddressFacts
<1>4. \A t \in DOMAIN tb, j \in Entries :
        tb[t][j].kind = "table" => tb[t][j].to \in DOMAIN tb /\ lev[tb[t][j].to] = lev[t] + 1
  BY DEF MaySplit, TreeRight
<1>5. lev[at] = l /\ l \in 1 .. 3 /\ at \in DOMAIN tb /\ \A t \in DOMAIN tb : lev[t] = 1 <=> t = CR3
  BY DEF MaySplit, TreeRight
<1>6. Mapped(tb2[new][Index(w, l + 1)], l + 1, w) =
        IF l = 1 THEN w % Covers(1) ELSE Mapped(tb[at][i], l, w)
  BY <1>1, <1>2, <1>5, PieceFacts
<1>7. ASSUME NEW t \in DOMAIN tb, lev[t] = 4 PROVE Low4(tb2, t, w) = Low4(tb, t, w)
  BY <1>1, <1>5, <1>7 DEF Low4
<1>8. ASSUME NEW t \in DOMAIN tb, lev[t] = 3 PROVE Low3(tb2, t, w) = Low3(tb, t, w)
  <2> DEFINE j == Index(w, 3)
  <2>1. CASE t = at /\ j = i
    <3>1. l = 3 /\ Low3(tb, t, w) = Mapped(tb[at][i], 3, w)
      BY <1>2, <1>5, <1>8, <2>1 DEF Low3
    <3>2. Low3(tb2, t, w) = Low4(tb2, new, w)
      BY <1>1, <1>2, <2>1 DEF Low3
    <3>3. Low4(tb2, new, w) = Mapped(tb[at][i], 3, w)
      BY <1>6, <3>1 DEF Low4
    <3> QED
      BY <3>1, <3>2, <3>3
  <2>2. CASE t # at \/ j # i
    <3>1. tb2[t][j] = tb[t][j] /\ j \in Entries
      BY <1>1, <1>3, <2>2
    <3>2. tb[t][j].kind = "table" => Low4(tb2, tb[t][j].to, w) = Low4(tb, tb[t][j].to, w)
      BY <1>4, <1>7, <1>8, <3>1
    <3> QED
      BY <3>1, <3>2 DEF Low3
  <2> QED
    BY <2>1, <2>2
<1>9. ASSUME NEW t \in DOMAIN tb, lev[t] = 2 PROVE Low2(tb2, t, w) = Low2(tb, t, w)
  <2> DEFINE j == Index(w, 2)
  <2>1. CASE t = at /\ j = i
    <3>1. l = 2 /\ Low2(tb, t, w) = Mapped(tb[at][i], 2, w)
      BY <1>2, <1>5, <1>9, <2>1 DEF Low2
    <3>2. Low2(tb2, t, w) = Low3(tb2, new, w)
      BY <1>1, <1>2, <2>1 DEF Low2
    <3>3. Low3(tb2, new, w) = Mapped(tb[at][i], 2, w)
      BY <1>1, <1>3, <1>6, <3>1 DEF Low3
    <3> QED
      BY <3>1, <3>2, <3>3
  <2>2. CASE t # at \/ j # i
    <3>1. tb2[t][j] = tb[t][j] /\ j \in Entries
      BY <1>1, <1>3, <2>2
    <3>2. tb[t][j].kind = "table" => Low3(tb2, tb[t][j].to, w) = Low3(tb, tb[t][j].to, w)
      BY <1>4, <1>8, <1>9, <3>1
    <3> QED
      BY <3>1, <3>2 DEF Low2
  <2> QED
    BY <2>1, <2>2
<1> DEFINE r == Index(w, 1)
<1>10. CR3 \in DOMAIN tb /\ lev[CR3] = 1 /\ r \in Entries
  BY <1>3 DEF MaySplit, TreeRight
<1>11. tb2[CR3][r] = tb[CR3][r] => Seen(tb2, w) = Seen(tb, w)
  <2> SUFFICES ASSUME tb2[CR3][r] = tb[CR3][r], tb[CR3][r] # Absent
               PROVE  Low2(tb2, tb[CR3][r].to, w) = Low2(tb, tb[CR3][r].to, w)
    BY DEF Seen
  <2>1. tb[CR3][r].kind = "table"
    BY <1>10, EntryFacts DEF MaySplit, TreeRight
  <2> QED
    BY <1>4, <1>9, <1>10, <2>1
<1>12. l # 1 => Seen(tb2, w) = Seen(tb, w)
  BY <1>1, <1>5, <1>10, <1>11
<1>13. l = 1 => Seen(tb2, w) = IF r = i THEN w % Covers(1) ELSE Seen(tb, w)
  <2> SUFFICES ASSUME l = 1 PROVE Seen(tb2, w) = IF r = i THEN w % Covers(1) ELSE Seen(tb, w)
    OBVIOUS
  <2>1. at = CR3
    BY <1>5
  <2>2. CASE r = i
    <3>1. Seen(tb2, w) = Low2(tb2, new, w)
      BY <1>1, <1>2, <2>1, <2>2 DEF Seen
    <3>2. Low2(tb2, new, w) = w % Covers(1)
      BY <1>1, <1>3, <1>6 DEF Low2
    <3> QED
      BY <2>2, <3>1, <3>2
  <2>3. CASE r # i
    BY <1>1, <1>10, <1>11, <2>1, <2>3
  <2> QED
    BY <2>2, <2>3
<1> QED
  BY <1>12, <1>13 DEF tb2

----------------------------------------------------------------------------
(* Page tables: the way down. *)

\* The pages of the pool that are left are none of the tables.
FreeRight(free, tb) ==
  /\ free \in Seq(Nat) /\ IsInjective(free)
  /\ \A k \in DOMAIN free : free[k] > 4 /\ free[k] \notin DOMAIN tb

\* The tables that the entries of w lead to.
IsTwo(tb, w, t) == tb[CR3][Index(w, 1)] = Table(t)
IsThree(tb, w, t) == \E p \in DOMAIN tb : IsTwo(tb, w, p) /\ tb[p][Index(w, 2)] = Table(t)
IsFour(tb, w, t) == \E p \in DOMAIN tb : IsThree(tb, w, p) /\ tb[p][Index(w, 3)] = Table(t)
OnWay(tb, w, l, t) ==
  /\ l = 1 => t = CR3
  /\ l = 2 => IsTwo(tb, w, t)
  /\ l = 3 => IsThree(tb, w, t)
  /\ l = 4 => IsFour(tb, w, t)

StepRight(s, lev, l) ==
  /\ s = [va |-> s.va, at |-> s.at, ok |-> s.ok, tables |-> s.tables, free |-> s.free]
  /\ s.ok \in BOOLEAN /\ s.va \in Virtual
  /\ TreeRight(s.tables, lev) /\ FreeRight(s.free, s.tables)
  /\ s.ok => s.at \in DOMAIN s.tables /\ lev[s.at] = l /\ OnWay(s.tables, s.va, l, s.at)

LEMMA TableFacts == \A t : Table(t).kind = "table" /\ Table(t).to = t
BY DEF Table

\* The tables on a way are at their levels.
LEMMA WayLevels ==
  ASSUME NEW tb, NEW lev, TreeRight(tb, lev), NEW w \in Virtual, NEW t
  PROVE  /\ IsTwo(tb, w, t) => t \in DOMAIN tb /\ lev[t] = 2
         /\ IsThree(tb, w, t) => t \in DOMAIN tb /\ lev[t] = 3
         /\ IsFour(tb, w, t) => t \in DOMAIN tb /\ lev[t] = 4
<1>1. \A k \in 1 .. 4 : Index(w, k) \in Entries
  BY AddressFacts
<1>2. ASSUME NEW p \in DOMAIN tb, NEW j \in Entries, NEW u, tb[p][j] = Table(u)
      PROVE  u \in DOMAIN tb /\ lev[u] = lev[p] + 1
  BY <1>2, TableFacts DEF TreeRight
<1>3. CR3 \in DOMAIN tb /\ lev[CR3] = 1
  BY DEF TreeRight
<1>4. ASSUME NEW u, IsTwo(tb, w, u) PROVE u \in DOMAIN tb /\ lev[u] = 2
  BY <1>1, <1>2, <1>3, <1>4 DEF IsTwo
<1>5. ASSUME NEW u, IsThree(tb, w, u) PROVE u \in DOMAIN tb /\ lev[u] = 3
  BY <1>1, <1>2, <1>4, <1>5 DEF IsThree
<1>6. ASSUME NEW u, IsFour(tb, w, u) PROVE u \in DOMAIN tb /\ lev[u] = 4
  BY <1>1, <1>2, <1>5, <1>6 DEF IsFour
<1> QED
  BY <1>4, <1>5, <1>6

\* A split at the end of a way makes it longer by the new table.
LEMMA SplitWay ==
  ASSUME NEW tb, NEW lev, NEW at, NEW i, NEW l, NEW new, MaySplit(tb, lev, at, i, l, new),
         NEW w \in Virtual, OnWay(tb, w, l, at), i = Index(w, l)
  PROVE  OnWay(Split(tb, at, i, l, new), w, l + 1, new)
<1> DEFINE tb2 == Split(tb, at, i, l, new)
<1>1. /\ DOMAIN tb2 = DOMAIN tb \cup {new} /\ tb2[at][i] = Table(new)
      /\ \A t \in DOMAIN tb : t # at => tb2[t] = tb[t]
  <2>1. IsSplit(tb, tb2, at, i, l, new)
    BY SplitEntries
  <2> QED
    BY <2>1 DEF IsSplit
<1> HIDE DEF tb2
<1>2. lev[at] = l /\ at \in DOMAIN tb /\ l \in 1 .. 3 /\ TreeRight(tb, lev)
      /\ CR3 \in DOMAIN tb /\ lev[CR3] = 1
  BY DEF MaySplit, TreeRight
<1>3. ASSUME l = 1 PROVE OnWay(tb2, w, l + 1, new)
  BY <1>1, <1>2, <1>3 DEF OnWay, IsTwo
<1>4. ASSUME l = 2 PROVE OnWay(tb2, w, l + 1, new)
  <2>1. IsTwo(tb2, w, at)
    BY <1>1, <1>2, <1>4 DEF OnWay, IsTwo
  <2>2. IsThree(tb2, w, new)
    BY <1>1, <1>2, <1>4, <2>1 DEF IsThree
  <2> QED
    BY <1>4, <2>2 DEF OnWay
<1>5. ASSUME l = 3 PROVE OnWay(tb2, w, l + 1, new)
  <2>1. PICK p \in DOMAIN tb : IsTwo(tb, w, p) /\ tb[p][Index(w, 2)] = Table(at)
    BY <1>5 DEF OnWay, IsThree
  <2>2. lev[p] = 2 /\ p # at
    BY <1>2, <1>5, <2>1, WayLevels
  <2>3. IsTwo(tb2, w, p) /\ tb2[p] = tb[p]
    BY <1>1, <1>2, <1>5, <2>1, <2>2 DEF IsTwo
  <2>4. IsThree(tb2, w, at)
    BY <1>1, <2>1, <2>3 DEF IsThree
  <2>5. IsFour(tb2, w, new)
    BY <1>1, <1>2, <1>5, <2>4 DEF IsFour
  <2> QED
    BY <1>5, <2>5 DEF OnWay
<1>6. OnWay(tb2, w, l + 1, new)
  BY <1>2, <1>3, <1>4, <1>5
<1> QED
  BY <1>6 DEF tb2

\* What one level of the way down does.
EntryAt(s, l) == s.tables[s.at][Index(s.va, l)]

LEMMA DescendCases ==
  ASSUME NEW s, NEW l
  PROVE  /\ ~s.ok => DescendStep(s, l) = s
         /\ s.ok /\ EntryAt(s, l).kind = "table" =>
              DescendStep(s, l) = [s EXCEPT !.at = EntryAt(s, l).to]
         /\ s.ok /\ EntryAt(s, l).kind # "table" /\ s.free = << >> =>
              DescendStep(s, l) = [s EXCEPT !.ok = FALSE]
         /\ s.ok /\ EntryAt(s, l).kind # "table" /\ s.free # << >> =>
              DescendStep(s, l) =
                [s EXCEPT !.tables = Split(s.tables, s.at, Index(s.va, l), l, Head(s.free)),
                          !.free = Tail(s.free), !.at = Head(s.free)]
<1> DEFINE e == EntryAt(s, l)
           Follow == [s EXCEPT !.at = e.to]
           Fail == [s EXCEPT !.ok = FALSE]
           More == [s EXCEPT !.tables = Split(s.tables, s.at, Index(s.va, l), l, Head(s.free)),
                             !.free = Tail(s.free), !.at = Head(s.free)]
<1>1. DescendStep(s, l) = IF ~s.ok THEN s ELSE IF e.kind = "table" THEN Follow
                          ELSE IF s.free = << >> THEN Fail ELSE More
  BY Zenon DEF DescendStep, EntryAt, Split
<1> HIDE DEF e, Follow, Fail, More
<1>2. /\ ~s.ok => DescendStep(s, l) = s
      /\ s.ok /\ e.kind = "table" => DescendStep(s, l) = Follow
      /\ s.ok /\ e.kind # "table" /\ s.free = << >> => DescendStep(s, l) = Fail
      /\ s.ok /\ e.kind # "table" /\ s.free # << >> => DescendStep(s, l) = More
  BY <1>1
<1> QED
  BY <1>2, Zenon DEF e, Follow, Fail, More

\* What a level changes: below the first nothing is seen of it.
Descended(s, r, l) ==
  LET a == Index(s.va, 1)
  IN  /\ r.va = s.va
      /\ ~s.ok => r = s
      /\ l # 1 => /\ r.tables[CR3] = s.tables[CR3]
                  /\ \A w \in Virtual : Seen(r.tables, w) = Seen(s.tables, w)
      /\ l = 1 /\ s.ok /\ s.tables[CR3][a].kind = "table" => r.ok /\ r.tables = s.tables
      /\ l = 1 /\ s.ok /\ s.tables[CR3][a].kind # "table" =>
           /\ ~r.ok => r.tables = s.tables
           /\ r.ok => /\ r.tables[CR3][a].kind = "table"
                      /\ \A j \in Entries : j # a => /\ r.tables[CR3][j] = s.tables[CR3][j]
                                                     /\ r.tables[CR3][j] # r.tables[CR3][a]
                      /\ \A w \in Virtual :
                           Seen(r.tables, w) = IF Index(w, 1) = a THEN w % Covers(1)
                                               ELSE Seen(s.tables, w)

LEMMA DescendRight ==
  ASSUME NEW s, NEW lev, NEW l \in 1 .. 3, StepRight(s, lev, l)
  PROVE  /\ Descended(s, DescendStep(s, l), l)
         /\ \E lev2 : StepRight(DescendStep(s, l), lev2, l + 1)
<1> DEFINE r == DescendStep(s, l)
           i == Index(s.va, l)
           e == s.tables[s.at][i]
           tb == s.tables
<1>1. /\ ~s.ok => r = s
      /\ s.ok /\ e.kind = "table" => r = [s EXCEPT !.at = e.to]
      /\ s.ok /\ e.kind # "table" /\ s.free = << >> => r = [s EXCEPT !.ok = FALSE]
      /\ s.ok /\ e.kind # "table" /\ s.free # << >> =>
           r = [s EXCEPT !.tables = Split(tb, s.at, i, l, Head(s.free)),
                         !.free = Tail(s.free), !.at = Head(s.free)]
  BY DescendCases DEF EntryAt
<1> HIDE DEF r
<1>2. /\ s = [va |-> s.va, at |-> s.at, ok |-> s.ok, tables |-> s.tables, free |-> s.free]
      /\ s.ok \in BOOLEAN /\ s.va \in Virtual /\ TreeRight(tb, lev) /\ FreeRight(s.free, tb)
      /\ s.ok => s.at \in DOMAIN tb /\ lev[s.at] = l /\ OnWay(tb, s.va, l, s.at)
  BY DEF StepRight
<1>3. i \in Entries /\ l \in 1 .. 4
  BY <1>2, AddressFacts
<1>4. l = 1 /\ s.ok => s.at = CR3
  BY <1>2 DEF OnWay
<1>5. CASE ~s.ok
  <2>1. r = s
    BY <1>1, <1>5
  <2>2. StepRight(r, lev, l + 1)
    BY <1>2, <1>5, <2>1 DEF StepRight
  <2>3. Descended(s, r, l)
    BY <1>5, <2>1 DEF Descended
  <2> QED
    BY <2>2, <2>3 DEF r
<1>6. CASE s.ok /\ e.kind = "table"
  <2>1. r.va = s.va /\ r.at = e.to /\ r.ok = s.ok /\ r.tables = tb /\ r.free = s.free
        /\ r = [va |-> r.va, at |-> r.at, ok |-> r.ok, tables |-> r.tables, free |-> r.free]
    BY <1>1, <1>2, <1>6
  <2>2. e = Table(e.to) /\ e.to \in DOMAIN tb /\ lev[e.to] = l + 1
    <3>1. e \in EntryKind
      BY <1>2, <1>3, <1>6 DEF TreeRight
    <3> QED
      BY <1>2, <1>3, <1>6, <3>1, EntryFacts DEF TreeRight
  <2>3. OnWay(tb, s.va, l + 1, e.to)
    <3>1. OnWay(tb, s.va, l, s.at) /\ s.at \in DOMAIN tb
      BY <1>2, <1>6
    <3>2. CASE l = 1
      BY <2>2, <3>1, <3>2 DEF OnWay, IsTwo
    <3>3. CASE l = 2
      BY <2>2, <3>1, <3>3 DEF OnWay, IsThree
    <3>4. CASE l = 3
      BY <2>2, <3>1, <3>4 DEF OnWay, IsFour
    <3> QED
      BY <3>2, <3>3, <3>4
  <2>4. StepRight(r, lev, l + 1)
    BY <1>2, <1>6, <2>1, <2>2, <2>3 DEF StepRight
  <2>5. Descended(s, r, l)
    BY <1>4, <1>6, <2>1 DEF Descended
  <2> QED
    BY <2>4, <2>5 DEF r
<1>7. CASE s.ok /\ e.kind # "table" /\ s.free = << >>
  <2>1. r.va = s.va /\ r.at = s.at /\ r.ok = FALSE /\ r.tables = tb /\ r.free = s.free
        /\ r = [va |-> r.va, at |-> r.at, ok |-> r.ok, tables |-> r.tables, free |-> r.free]
    BY <1>1, <1>2, <1>7
  <2>2. StepRight(r, lev, l + 1)
    BY <1>2, <2>1 DEF StepRight
  <2>3. Descended(s, r, l)
    BY <1>4, <1>7, <2>1 DEF Descended
  <2> QED
    BY <2>2, <2>3 DEF r
<1>8. CASE s.ok /\ e.kind # "table" /\ s.free # << >>
  <2> DEFINE new == Head(s.free)
             tb2 == Split(tb, s.at, i, l, new)
             lev2 == SplitLevels(tb, lev, l, new)
  <2>1. r.va = s.va /\ r.at = new /\ r.ok = s.ok /\ r.tables = tb2 /\ r.free = Tail(s.free)
        /\ r = [va |-> r.va, at |-> r.at, ok |-> r.ok, tables |-> r.tables, free |-> r.free]
    <3> HIDE DEF tb2
    <3> QED
      BY <1>1, <1>2, <1>8 DEF tb2
  <2>2. /\ s.free \in Seq(Nat) /\ s.free # << >> /\ new = s.free[1] /\ 1 \in DOMAIN s.free
        /\ Tail(s.free) \in Seq(Nat) /\ Len(Tail(s.free)) = Len(s.free) - 1
        /\ \A k \in DOMAIN Tail(s.free) : k + 1 \in DOMAIN s.free /\ Tail(s.free)[k] = s.free[k + 1]
    BY <1>2, <1>8 DEF FreeRight
  <2>3. MaySplit(tb, lev, s.at, i, l, new)
    BY <1>2, <1>3, <1>8, <2>2 DEF MaySplit, FreeRight
  <2>4. TreeRight(tb2, lev2)
    BY <2>3, SplitTree
  <2>5. IsSplit(tb, tb2, s.at, i, l, new)
    BY <2>3, SplitEntries
  <2>6. OnWay(tb2, s.va, l + 1, new)
    BY <1>2, <1>8, <2>3, SplitWay
  <2>7. \A w \in Virtual :
          /\ l # 1 => Seen(tb2, w) = Seen(tb, w)
          /\ l = 1 => Seen(tb2, w) = IF Index(w, 1) = i THEN w % Covers(1) ELSE Seen(tb, w)
    BY <2>3, SplitSeen
  <2>8. new \in DOMAIN tb2 /\ lev2[new] = l + 1
    BY <2>5 DEF IsSplit, SplitLevels
  <2> HIDE DEF tb2, lev2, new
  <2>9. FreeRight(Tail(s.free), tb2)
    <3>1. ASSUME NEW j \in DOMAIN Tail(s.free), NEW k \in DOMAIN Tail(s.free),
                 Tail(s.free)[j] = Tail(s.free)[k]
          PROVE  j = k
      <4>1. j \in Nat /\ k \in Nat
        BY <2>2
      <4>2. j + 1 = k + 1
        BY <1>2, <2>2, <3>1 DEF FreeRight, IsInjective
      <4> QED
        BY <4>1, <4>2
    <3>2. ASSUME NEW k \in DOMAIN Tail(s.free)
          PROVE  Tail(s.free)[k] > 4 /\ Tail(s.free)[k] \notin DOMAIN tb /\ Tail(s.free)[k] # new
      <4>1. k \in Nat /\ k >= 1
        BY <2>2
      <4>2. k + 1 \in DOMAIN s.free /\ k + 1 # 1 /\ Tail(s.free)[k] = s.free[k + 1]
        BY <2>2, <4>1
      <4>3. s.free[k + 1] # s.free[1]
        BY <1>2, <2>2, <4>2 DEF FreeRight, IsInjective
      <4> QED
        BY <1>2, <2>2, <4>2, <4>3 DEF FreeRight
    <3> QED
      BY <2>2, <2>5, <3>1, <3>2 DEF FreeRight, IsSplit, IsInjective
  <2>10. StepRight(r, lev2, l + 1)
    BY <1>2, <2>1, <2>4, <2>6, <2>8, <2>9 DEF StepRight
  <2>11. CASE l # 1
    <3>1. s.at # CR3 /\ CR3 \in DOMAIN tb
      BY <1>2, <1>8, <2>11 DEF TreeRight
    <3>2. tb2[CR3] = tb[CR3]
      BY <2>5, <3>1 DEF IsSplit
    <3> QED
      BY <1>8, <2>1, <2>7, <2>10, <2>11, <3>2 DEF Descended, r
  <2>12. CASE l = 1
    <3>1. s.at = CR3 /\ CR3 \in DOMAIN tb /\ i = Index(s.va, 1)
      BY <1>2, <1>4, <1>8, <2>12 DEF TreeRight
    <3>2. tb2[CR3][i] = Table(new) /\ \A j \in Entries : j # i => tb2[CR3][j] = tb[CR3][j]
      BY <2>5, <3>1 DEF IsSplit
    <3>3. \A j \in Entries : tb[CR3][j] # Table(new)
      BY <1>2, <2>3, <3>1, TableFacts DEF MaySplit, TreeRight
    <3>4. Table(new).kind = "table"
      BY TableFacts
    <3>5. Descended(s, r, l)
      BY <1>8, <2>1, <2>7, <2>12, <3>1, <3>2, <3>3, <3>4 DEF Descended
    <3> QED
      BY <2>10, <3>5 DEF r
  <2> QED
    BY <2>11, <2>12
<1> QED
  BY <1>2, <1>5, <1>6, <1>7, <1>8 DEF r

----------------------------------------------------------------------------
(* Page tables: the entry of the page. *)

SameLower(w, v) == \A k \in 2 .. 4 : Index(w, k) = Index(v, k)
WithLeaf(tb, va, t, pa) == [tb EXCEPT ![t][Index(va, 4)] = Leaf(pa)]
MayWrite(tb, lev, va, t, pa) ==
  TreeRight(tb, lev) /\ va \in Virtual /\ IsFour(tb, va, t) /\ pa \in Nat

LEMMA WrittenTree ==
  ASSUME NEW tb, NEW lev, NEW va, NEW t, NEW pa, MayWrite(tb, lev, va, t, pa)
  PROVE  /\ TreeRight(WithLeaf(tb, va, t, pa), lev)
         /\ DOMAIN WithLeaf(tb, va, t, pa) = DOMAIN tb
         /\ WithLeaf(tb, va, t, pa)[CR3] = tb[CR3]
<1> DEFINE tb2 == WithLeaf(tb, va, t, pa)
           i == Index(va, 4)
<1>1. TreeRight(tb, lev) /\ t \in DOMAIN tb /\ lev[t] = 4 /\ i \in Entries /\ t # CR3
  BY WayLevels, AddressFacts DEF MayWrite, TreeRight
<1>2. Leaf(pa) \in EntryKind /\ Leaf(pa).kind = "page"
  BY EntryFacts DEF MayWrite
<1>3. /\ DOMAIN tb2 = DOMAIN tb /\ \A u \in DOMAIN tb : u # t => tb2[u] = tb[u]
      /\ tb2[t] = [tb[t] EXCEPT ![i] = Leaf(pa)]
      /\ tb2 = [u \in DOMAIN tb |-> tb2[u]]
  BY <1>1 DEF WithLeaf, TreeRight
<1> HIDE DEF tb2
<1>4. tb[t] \in [Entries -> EntryKind]
  BY <1>1 DEF TreeRight
<1>5. /\ tb2[t] \in [Entries -> EntryKind] /\ tb2[t][i] = Leaf(pa)
      /\ \A j \in Entries : j # i => tb2[t][j] = tb[t][j]
  BY <1>1, <1>2, <1>3, <1>4
<1>6. tb2 \in [DOMAIN tb2 -> [Entries -> EntryKind]]
  <2>1. \A u \in DOMAIN tb : tb2[u] \in [Entries -> EntryKind]
    BY <1>1, <1>3, <1>5 DEF TreeRight
  <2> QED
    BY <1>3, <2>1
<1>7. \A u \in DOMAIN tb, j \in Entries : tb2[u][j].kind = "table" => tb2[u][j] = tb[u][j]
  BY <1>2, <1>3, <1>5
<1>8. tb2[CR3] = tb[CR3] /\ 0 \in Entries /\ CR3 \in DOMAIN tb
  BY <1>1, <1>3, Units DEF TreeRight, Entries
<1>9. OneWay(tb2)
  <2> SUFFICES ASSUME NEW u \in DOMAIN tb2, NEW v \in DOMAIN tb2,
                      NEW j \in Entries, NEW k \in Entries,
                      tb2[u][j].kind = "table", tb2[v][k] = tb2[u][j]
               PROVE  (u = v /\ j = k) \/ (u = CR3 /\ v = CR3 /\ tb2[u][j] = tb2[CR3][0])
    BY DEF OneWay
  <2>1. tb2[u][j] = tb[u][j] /\ tb2[v][k] = tb[v][k] /\ u \in DOMAIN tb /\ v \in DOMAIN tb
    BY <1>3, <1>7
  <2> QED
    BY <1>1, <1>8, <2>1 DEF TreeRight, OneWay
<1>10. \A u \in DOMAIN tb2, j \in Entries :
         tb2[u][j].kind = "table" =>
           lev[u] # 4 /\ tb2[u][j].to \in DOMAIN tb2 /\ lev[tb2[u][j].to] = lev[u] + 1
  BY <1>1, <1>3, <1>7 DEF TreeRight
<1>11. TreeRight(tb2, lev)
  BY <1>1, <1>3, <1>6, <1>8, <1>9, <1>10 DEF TreeRight
<1> QED
  BY <1>3, <1>8, <1>11 DEF tb2

LEMMA WrittenSeen ==
  ASSUME NEW tb, NEW lev, NEW va, NEW t, NEW pa, MayWrite(tb, lev, va, t, pa), NEW w \in Virtual
  PROVE  Seen(WithLeaf(tb, va, t, pa), w) =
           IF SameLower(w, va) /\ tb[CR3][Index(w, 1)] = tb[CR3][Index(va, 1)] THEN pa
           ELSE Seen(tb, w)
<1> DEFINE tb2 == WithLeaf(tb, va, t, pa)
<1>1. TreeRight(tb, lev) /\ va \in Virtual /\ pa \in Nat
      /\ \A k \in 1 .. 4 : Index(va, k) \in Entries /\ Index(w, k) \in Entries
  BY AddressFacts DEF MayWrite
<1>2. PICK p3 \in DOMAIN tb : IsThree(tb, va, p3) /\ tb[p3][Index(va, 3)] = Table(t)
  BY DEF MayWrite, IsFour
<1>3. PICK p2 \in DOMAIN tb : IsTwo(tb, va, p2) /\ tb[p2][Index(va, 2)] = Table(p3)
  BY <1>2 DEF IsThree
<1>4. /\ lev[p2] = 2 /\ lev[p3] = 3 /\ lev[t] = 4 /\ t \in DOMAIN tb
      /\ CR3 \in DOMAIN tb /\ lev[CR3] = 1
  BY <1>1, <1>2, <1>3, WayLevels DEF MayWrite, TreeRight
<1>5. /\ \A u \in DOMAIN tb : u # t => tb2[u] = tb[u]
      /\ tb2[t][Index(va, 4)] = Leaf(pa)
      /\ \A j \in Entries : j # Index(va, 4) => tb2[t][j] = tb[t][j]
  <2>1. tb[t] \in [Entries -> EntryKind]
    BY <1>1, <1>4 DEF TreeRight
  <2> QED
    BY <1>1, <1>4, <2>1 DEF WithLeaf
<1> HIDE DEF tb2
<1>6. \A u \in DOMAIN tb, j \in Entries :
        tb[u][j].kind = "table" =>
          /\ tb[u][j] = Table(tb[u][j].to)
          /\ tb[u][j].to \in DOMAIN tb /\ lev[tb[u][j].to] = lev[u] + 1
  BY <1>1, EntryFacts DEF TreeRight
\* Below the first level one entry leads to a table.
<1>7. \A u, v \in DOMAIN tb, j, k \in Entries : \A x :
        u # CR3 /\ tb[u][j] = Table(x) /\ tb[v][k] = Table(x) => u = v /\ j = k
  BY <1>1, TableFacts DEF TreeRight, OneWay
<1>8. ASSUME NEW u \in DOMAIN tb, lev[u] = 4
      PROVE  Low4(tb2, u, w) = IF u = t /\ Index(w, 4) = Index(va, 4) THEN pa ELSE Low4(tb, u, w)
  <2>1. CASE u = t /\ Index(w, 4) = Index(va, 4)
    <3>1. w % Covers(4) = 0 /\ Leaf(pa).to = pa /\ Leaf(pa) # Absent
      BY <1>1, AddressFacts, EntryFacts
    <3>2. Mapped(Leaf(pa), 4, w) = pa
      BY <1>1, <3>1 DEF Mapped
    <3> QED
      BY <1>5, <2>1, <3>2 DEF Low4
  <2>2. CASE ~(u = t /\ Index(w, 4) = Index(va, 4))
    <3>1. tb2[u][Index(w, 4)] = tb[u][Index(w, 4)]
      BY <1>1, <1>5, <2>2
    <3> QED
      BY <2>2, <3>1 DEF Low4
  <2> QED
    BY <2>1, <2>2
<1>9. ASSUME NEW u \in DOMAIN tb, lev[u] = 3
      PROVE  Low3(tb2, u, w) =
               IF u = p3 /\ Index(w, 3) = Index(va, 3) /\ Index(w, 4) = Index(va, 4) THEN pa
               ELSE Low3(tb, u, w)
  <2> DEFINE e == tb[u][Index(w, 3)]
  <2>1. tb2[u] = tb[u] /\ Index(w, 3) \in Entries /\ Index(va, 3) \in Entries /\ u # CR3
    BY <1>1, <1>4, <1>5, <1>9
  <2>2. CASE e.kind # "table"
    <3>1. ~(u = p3 /\ Index(w, 3) = Index(va, 3))
      BY <1>2, <2>2, TableFacts
    <3> QED
      BY <2>1, <2>2, <3>1 DEF Low3
  <2>3. CASE e.kind = "table"
    <3>1. e = Table(e.to) /\ e.to \in DOMAIN tb /\ lev[e.to] = 4
      BY <1>6, <1>9, <2>1, <2>3
    <3>2. e.to = t <=> u = p3 /\ Index(w, 3) = Index(va, 3)
      <4>1. e.to = t => u = p3 /\ Index(w, 3) = Index(va, 3)
        BY <1>2, <1>7, <2>1, <3>1
      <4>2. u = p3 /\ Index(w, 3) = Index(va, 3) => e.to = t
        BY <1>2, TableFacts
      <4> QED
        BY <4>1, <4>2
    <3>3. Low3(tb2, u, w) = Low4(tb2, e.to, w) /\ Low3(tb, u, w) = Low4(tb, e.to, w)
      BY <2>1, <2>3 DEF Low3
    <3> HIDE DEF e
    <3> QED
      BY <1>8, <3>1, <3>2, <3>3
  <2> QED
    BY <2>2, <2>3
<1>10. ASSUME NEW u \in DOMAIN tb, lev[u] = 2
       PROVE  Low2(tb2, u, w) = IF u = p2 /\ SameLower(w, va) THEN pa ELSE Low2(tb, u, w)
  <2> DEFINE e == tb[u][Index(w, 2)]
             low == Index(w, 3) = Index(va, 3) /\ Index(w, 4) = Index(va, 4)
  <2>1. tb2[u] = tb[u] /\ Index(w, 2) \in Entries /\ Index(va, 2) \in Entries /\ u # CR3
    BY <1>1, <1>4, <1>5, <1>10
  <2>2. SameLower(w, va) <=> Index(w, 2) = Index(va, 2) /\ low
    <3>1. \A k \in 2 .. 4 : k = 2 \/ k = 3 \/ k = 4
      OBVIOUS
    <3> QED
      BY <3>1 DEF SameLower
  <2>3. CASE e.kind # "table"
    <3>1. ~(u = p2 /\ Index(w, 2) = Index(va, 2))
      BY <1>3, <2>3, TableFacts
    <3> QED
      BY <2>1, <2>2, <2>3, <3>1 DEF Low2
  <2>4. CASE e.kind = "table"
    <3>1. e = Table(e.to) /\ e.to \in DOMAIN tb /\ lev[e.to] = 3
      BY <1>6, <1>10, <2>1, <2>4
    <3>2. e.to = p3 <=> u = p2 /\ Index(w, 2) = Index(va, 2)
      <4>1. e.to = p3 => u = p2 /\ Index(w, 2) = Index(va, 2)
        BY <1>3, <1>7, <2>1, <3>1
      <4>2. u = p2 /\ Index(w, 2) = Index(va, 2) => e.to = p3
        BY <1>3, TableFacts
      <4> QED
        BY <4>1, <4>2
    <3>3. Low2(tb2, u, w) = Low3(tb2, e.to, w) /\ Low2(tb, u, w) = Low3(tb, e.to, w)
      BY <2>1, <2>4 DEF Low2
    <3> HIDE DEF e
    <3> QED
      BY <1>9, <2>2, <3>1, <3>2, <3>3
  <2> QED
    BY <2>3, <2>4
<1> DEFINE e == tb[CR3][Index(w, 1)]
<1>11. tb2[CR3] = tb[CR3] /\ Index(w, 1) \in Entries /\ Index(va, 1) \in Entries
       /\ tb[CR3][Index(va, 1)] = Table(p2) /\ Table(p2).kind = "table" /\ Table(p2).to = p2
  BY <1>1, <1>3, <1>4, <1>5, TableFacts DEF IsTwo
<1>12. CASE e = Absent
  <2>1. e # Table(p2)
    BY <1>11, <1>12, EntryFacts
  <2> QED
    BY <1>11, <1>12, <2>1 DEF Seen, tb2
<1>13. CASE e # Absent
  <2>1. e.kind = "table"
    BY <1>1, <1>4, <1>11, <1>13, EntryFacts DEF TreeRight
  <2>2. e = Table(e.to) /\ e.to \in DOMAIN tb /\ lev[e.to] = 2
    BY <1>4, <1>6, <1>11, <2>1
  <2>3. Seen(tb2, w) = Low2(tb2, e.to, w) /\ Seen(tb, w) = Low2(tb, e.to, w)
    BY <1>11, <1>13 DEF Seen
  <2>4. e.to = p2 <=> e = tb[CR3][Index(va, 1)]
    BY <1>11, <2>2
  <2>5. Seen(tb2, w) = IF SameLower(w, va) /\ e = tb[CR3][Index(va, 1)] THEN pa ELSE Seen(tb, w)
    <3> HIDE DEF e
    <3> QED
      BY <1>10, <2>2, <2>3, <2>4
  <2> QED
    BY <2>5 DEF tb2
<1> QED
  BY <1>12, <1>13

----------------------------------------------------------------------------
(* Page tables: a page, and the invariant. *)

\* The tables are a tree, apart from the pool, and the first entry of the machine's is there.
PagesReady ==
  /\ \E lev : TreeRight(vmTables, lev)
  /\ FreeRight(vmFree, vmTables)
  /\ vmTables[CR3][0].kind = "table"

Fresh(w, va) ==
  Index(w, 1) = Index(va, 1) /\ (vmTables[CR3][Index(w, 1)] = Absent \/ Copied(w))
IsIt(w, va) == w = va \/ (Copied(w) /\ w % Covers(1) = va)

Cleared(va) ==
  IF Copied(va) THEN [vmTables EXCEPT ![CR3][Index(va, 1)] = Absent] ELSE vmTables

\* A copy of the first entry can be cleared: it is the only way to nothing.
LEMMA ClearedRight ==
  ASSUME NEW lev, TreeRight(vmTables, lev), NEW va \in Virtual
  PROVE  /\ TreeRight(Cleared(va), lev) /\ DOMAIN Cleared(va) = DOMAIN vmTables
         /\ Cleared(va)[CR3][0] = vmTables[CR3][0]
         /\ Copied(va) => Cleared(va)[CR3][Index(va, 1)] = Absent
         /\ ~Copied(va) => Cleared(va) = vmTables
         /\ \A j \in Entries : j # Index(va, 1) => Cleared(va)[CR3][j] = vmTables[CR3][j]
         /\ \A w \in Virtual :
              Index(w, 1) # Index(va, 1) => Seen(Cleared(va), w) = Seen(vmTables, w)
<1> DEFINE tb == Cleared(va)
           a == Index(va, 1)
<1>1. a \in Entries /\ 0 \in Entries /\ CR3 \in DOMAIN vmTables /\ lev[CR3] = 1
      /\ \A w \in Virtual, k \in 1 .. 4 : Index(w, k) \in Entries
  <2>1. \A w \in Virtual : \A k \in 1 .. 4 : Index(w, k) \in Entries
    BY AddressFacts
  <2>2. 0 \in Entries
    BY Units DEF Entries
  <2>3. CR3 \in DOMAIN vmTables /\ lev[CR3] = 1
    BY DEF TreeRight
  <2> QED
    BY <2>1, <2>2, <2>3
<1>2. CASE ~Copied(va)
  BY <1>2 DEF Cleared
<1>3. CASE Copied(va)
  <2>1. tb = [vmTables EXCEPT ![CR3][a] = Absent] /\ a # 0
    BY <1>3 DEF Cleared, Copied
  <2>2. vmTables[CR3] \in [Entries -> EntryKind]
    BY <1>1 DEF TreeRight
  <2>3. /\ DOMAIN tb = DOMAIN vmTables /\ \A u \in DOMAIN vmTables : u # CR3 => tb[u] = vmTables[u]
        /\ tb[CR3][a] = Absent /\ tb[CR3] \in [Entries -> EntryKind]
        /\ \A j \in Entries : j # a => tb[CR3][j] = vmTables[CR3][j]
        /\ tb = [u \in DOMAIN vmTables |-> tb[u]]
    <3>1. vmTables \in [DOMAIN vmTables -> [Entries -> EntryKind]]
      BY DEF TreeRight
    <3> DEFINE row == [vmTables[CR3] EXCEPT ![a] = Absent]
    <3>2. tb = [vmTables EXCEPT ![CR3] = row]
      BY <2>1
    <3>3. row \in [Entries -> EntryKind] /\ row[a] = Absent
          /\ \A j \in Entries : j # a => row[j] = vmTables[CR3][j]
      <4>1. Absent \in EntryKind
        BY EntryFacts
      <4> QED
        BY <1>1, <2>2, <4>1
    <3> HIDE DEF row, tb
    <3>4. DOMAIN tb = DOMAIN vmTables /\ tb[CR3] = row
          /\ \A u \in DOMAIN vmTables : u # CR3 => tb[u] = vmTables[u]
      BY <1>1, <3>2
    <3>5. tb = [u \in DOMAIN vmTables |-> tb[u]]
      BY <3>1, <3>2
    <3> QED
      BY <3>3, <3>4, <3>5
  <2> HIDE DEF tb
  <2>4. \A u \in DOMAIN tb, j \in Entries :
          /\ tb[u][j].kind # "absent" => tb[u][j] = vmTables[u][j]
          /\ tb[u][j].kind \in {"absent", "page", "table"}
    <3>1. \A u \in DOMAIN vmTables : vmTables[u] \in [Entries -> EntryKind]
      BY DEF TreeRight
    <3>2. ASSUME NEW u \in DOMAIN tb, NEW j \in Entries
          PROVE  tb[u][j] \in EntryKind /\ (tb[u][j] = vmTables[u][j] \/ tb[u][j] = Absent)
      <4>1. u \in DOMAIN vmTables /\ vmTables[u][j] \in EntryKind /\ Absent \in EntryKind
        BY <2>3, <3>1, EntryFacts
      <4>2. u # CR3 => tb[u][j] = vmTables[u][j]
        BY <2>3, <4>1
      <4>3. u = CR3 => tb[u][j] = vmTables[u][j] \/ tb[u][j] = Absent
        BY <2>3
      <4> QED
        BY <4>1, <4>2, <4>3
    <3> QED
      BY <3>2, EntryFacts
  <2>5. tb \in [DOMAIN tb -> [Entries -> EntryKind]]
    <3>1. \A u \in DOMAIN vmTables : tb[u] \in [Entries -> EntryKind]
      BY <2>3 DEF TreeRight
    <3> QED
      BY <2>3, <3>1
  <2>6. "table" # "absent" /\ "page" # "absent"
    OBVIOUS
  <2>7. \A u \in DOMAIN tb, j \in Entries :
          tb[u][j].kind = "table" =>
            lev[u] # 4 /\ tb[u][j].to \in DOMAIN tb /\ lev[tb[u][j].to] = lev[u] + 1
    BY <2>3, <2>4, <2>6 DEF TreeRight
  <2>8. \A j \in Entries : tb[CR3][j].kind # "page"
    BY <1>1, <2>3, <2>4, <2>6 DEF TreeRight
  <2>9. tb[CR3][0] = vmTables[CR3][0]
    BY <1>1, <2>1, <2>3
  <2>10. OneWay(tb)
    <3> SUFFICES ASSUME NEW u \in DOMAIN tb, NEW v \in DOMAIN tb, NEW j \in Entries,
                        NEW k \in Entries, tb[u][j].kind = "table", tb[v][k] = tb[u][j]
                 PROVE  (u = v /\ j = k) \/ (u = CR3 /\ v = CR3 /\ tb[u][j] = tb[CR3][0])
      BY DEF OneWay
    <3>1. /\ tb[u][j] = vmTables[u][j] /\ tb[v][k] = vmTables[v][k]
          /\ u \in DOMAIN vmTables /\ v \in DOMAIN vmTables
      BY <2>3, <2>4, <2>6
    <3> QED
      BY <2>9, <3>1 DEF TreeRight, OneWay
  <2>11. TreeRight(tb, lev)
    BY <2>3, <2>5, <2>7, <2>8, <2>10 DEF TreeRight
  <2>12. ASSUME NEW w \in Virtual, Index(w, 1) # a PROVE Seen(tb, w) = Seen(vmTables, w)
    <3> DEFINE e == vmTables[CR3][Index(w, 1)]
    <3>1. tb[CR3][Index(w, 1)] = e /\ Index(w, 1) \in Entries
      BY <1>1, <2>3, <2>12
    <3>2. CASE e = Absent
      BY <3>1, <3>2 DEF Seen
    <3>3. CASE e # Absent
      <4>1. e.kind = "table"
        BY <1>1, <3>1, <3>3, EntryFacts DEF TreeRight
      <4>2. e.to \in DOMAIN vmTables /\ lev[e.to] = 2
        BY <1>1, <3>1, <4>1 DEF TreeRight
      <4>3. ASSUME NEW u \in DOMAIN vmTables, lev[u] = 4 PROVE Low4(tb, u, w) = Low4(vmTables, u, w)
        BY <1>1, <2>3, <4>3 DEF Low4
      <4>4. \A u \in DOMAIN vmTables, j \in Entries :
              vmTables[u][j].kind = "table" =>
                vmTables[u][j].to \in DOMAIN vmTables /\ lev[vmTables[u][j].to] = lev[u] + 1
        BY DEF TreeRight
      <4>5. ASSUME NEW u \in DOMAIN vmTables, lev[u] = 3 PROVE Low3(tb, u, w) = Low3(vmTables, u, w)
        <5>1. tb[u] = vmTables[u] /\ Index(w, 3) \in Entries
          BY <1>1, <2>3, <4>5
        <5>2. vmTables[u][Index(w, 3)].kind = "table" =>
                Low4(tb, vmTables[u][Index(w, 3)].to, w)
                  = Low4(vmTables, vmTables[u][Index(w, 3)].to, w)
          BY <4>3, <4>4, <4>5, <5>1
        <5> QED
          BY <5>1, <5>2 DEF Low3
      <4>6. Low2(tb, e.to, w) = Low2(vmTables, e.to, w)
        <5>1. tb[e.to] = vmTables[e.to] /\ Index(w, 2) \in Entries
          BY <1>1, <2>3, <4>2
        <5>2. vmTables[e.to][Index(w, 2)].kind = "table" =>
                Low3(tb, vmTables[e.to][Index(w, 2)].to, w)
                  = Low3(vmTables, vmTables[e.to][Index(w, 2)].to, w)
          BY <4>2, <4>4, <4>5, <5>1
        <5> QED
          BY <5>1, <5>2 DEF Low2
      <4> QED
        BY <3>1, <3>3, <4>6 DEF Seen
    <3> QED
      BY <3>2, <3>3
  <2> QED
    BY <1>3, <2>3, <2>9, <2>11, <2>12 DEF tb
<1> QED
  BY <1>2, <1>3

\* What mapping the page va to pa leaves of the translations.
Remapped(w, va, pa) ==
  /\ IsIt(w, va) /\ ~vmFailed' => Seen(vmTables', w) = pa
  /\ ~IsIt(w, va) /\ Fresh(w, va) /\ ~vmFailed' => Seen(vmTables', w) = w % Covers(1)
  /\ Fresh(w, va) /\ vmFailed' => Seen(vmTables', w) \in {w % Covers(1), NoMapping}
  /\ ~Fresh(w, va) /\ (~IsIt(w, va) \/ vmFailed') => Seen(vmTables', w) = Seen(vmTables, w)

LEMMA MapPage ==
  ASSUME PagesReady, NEW va \in Virtual, NEW pa \in Nat, VmMapVirtualPage(va, pa)
  PROVE  PagesReady' /\ \A w \in Virtual : Remapped(w, va, pa)
<1> DEFINE a == Index(va, 1)
           top == [va |-> va, at |-> CR3, ok |-> TRUE, tables |-> Cleared(va), free |-> vmFree]
           s1 == DescendStep(top, 1)
           s2 == DescendStep(s1, 2)
           s3 == DescendStep(s2, 3)
           root == vmTables[CR3]
           new == root[a] = Absent \/ Copied(va)
<1>1. PICK lev : TreeRight(vmTables, lev)
  BY DEF PagesReady
<1>2. /\ a \in Entries /\ 0 \in Entries /\ CR3 \in DOMAIN vmTables /\ lev[CR3] = 1
      /\ \A w \in Virtual, k \in 1 .. 4 : Index(w, k) \in Entries
      /\ \A j \in Entries : root[j] \in EntryKind /\ root[j].kind # "page"
      /\ root[0].kind = "table"
  <2>1. \A w \in Virtual : \A k \in 1 .. 4 : Index(w, k) \in Entries
    BY AddressFacts
  <2>2. 0 \in Entries
    BY Units DEF Entries
  <2>3. CR3 \in DOMAIN vmTables /\ lev[CR3] = 1
        /\ vmTables \in [DOMAIN vmTables -> [Entries -> EntryKind]]
        /\ \A j \in Entries : root[j].kind # "page"
    BY <1>1 DEF TreeRight
  <2>4. \A j \in Entries : root[j] \in EntryKind
    BY <2>3
  <2>5. root[0].kind = "table"
    BY DEF PagesReady
  <2> QED
    BY <2>1, <2>2, <2>3, <2>4, <2>5
<1>3. /\ TreeRight(Cleared(va), lev) /\ DOMAIN Cleared(va) = DOMAIN vmTables
      /\ Cleared(va)[CR3][0] = root[0]
      /\ Copied(va) => Cleared(va)[CR3][a] = Absent
      /\ ~Copied(va) => Cleared(va) = vmTables
      /\ \A j \in Entries : j # a => Cleared(va)[CR3][j] = root[j]
      /\ \A w \in Virtual : Index(w, 1) # a => Seen(Cleared(va), w) = Seen(vmTables, w)
  BY <1>1, ClearedRight
<1>4. /\ vmTables' = IF s3.ok THEN WithLeaf(s3.tables, va, s3.at, pa) ELSE s3.tables
      /\ vmFree' = s3.free /\ vmFailed' = ~s3.ok
  BY DEF VmMapVirtualPage, Cleared, WithLeaf
<1>5. StepRight(top, lev, 1) /\ top.va = va /\ top.ok = TRUE /\ top.tables = Cleared(va)
  <2>1. FreeRight(vmFree, Cleared(va))
    BY <1>3 DEF FreeRight, PagesReady
  <2>2. OnWay(Cleared(va), va, 1, CR3)
    BY DEF OnWay
  <2> QED
    BY <1>2, <1>3, <2>1, <2>2 DEF StepRight
<1> HIDE DEF top, s1, s2, s3
<1>6. Descended(top, s1, 1) /\ \E l : StepRight(s1, l, 2)
  BY <1>5, DescendRight DEF s1
<1>7. PICK lev1 : StepRight(s1, lev1, 2)
  BY <1>6
<1>8. Descended(s1, s2, 2) /\ \E l : StepRight(s2, l, 3)
  BY <1>7, DescendRight DEF s2
<1>9. PICK lev2 : StepRight(s2, lev2, 3)
  BY <1>8
<1>10. Descended(s2, s3, 3) /\ \E l : StepRight(s3, l, 4)
  BY <1>9, DescendRight DEF s3
<1>11. PICK lev3 : StepRight(s3, lev3, 4)
  BY <1>10
<1>12. s1.va = va /\ s2.va = va /\ s3.va = va
  BY <1>5, <1>6, <1>8, <1>10 DEF Descended
<1>13. s1.ok \in BOOLEAN /\ s2.ok \in BOOLEAN /\ s3.ok \in BOOLEAN
  BY <1>7, <1>9, <1>11 DEF StepRight
<1>14. s3.ok => s1.ok
  BY <1>8, <1>10, <1>13 DEF Descended
<1> DEFINE R == s3.tables[CR3]
<1>15. R = s1.tables[CR3] /\ \A w \in Virtual : Seen(s3.tables, w) = Seen(s1.tables, w)
  BY <1>8, <1>10 DEF Descended
\* What the first level did.
<1>16. Cleared(va)[CR3][a].kind = "table" <=> ~new
  <2>1. CASE Copied(va)
    BY <1>3, <2>1, EntryFacts
  <2>2. CASE ~Copied(va)
    <3>1. root[a].kind \in {"absent", "page", "table"}
          /\ (root[a].kind = "absent" => root[a] = Absent)
          /\ root[a].kind # "page"
      BY <1>2, EntryFacts
    <3>2. Absent.kind = "absent"
      BY EntryFacts
    <3> QED
      BY <1>3, <2>2, <3>1, <3>2
  <2> QED
    BY <2>1, <2>2
<1>17. ~new => s1.ok /\ s1.tables = vmTables
  BY <1>3, <1>5, <1>6, <1>16 DEF Descended
<1>18. new => /\ ~s1.ok => s1.tables = Cleared(va)
              /\ s1.ok => /\ s1.tables[CR3][a].kind = "table"
                          /\ \A j \in Entries : j # a => /\ s1.tables[CR3][j] = root[j]
                                                         /\ s1.tables[CR3][j] # s1.tables[CR3][a]
                          /\ \A w \in Virtual :
                               Seen(s1.tables, w) = IF Index(w, 1) = a THEN w % Covers(1)
                                                    ELSE Seen(Cleared(va), w)
  <2> HIDE DEF new
  <2> QED
    BY <1>3, <1>5, <1>6, <1>16 DEF Descended
<1>19. new => a # 0
  BY <1>2, EntryFacts DEF Copied
<1>20. R[0].kind = "table"
  <2>1. CASE ~new
    BY <1>2, <1>15, <1>17, <2>1
  <2>2. CASE new
    BY <1>2, <1>3, <1>15, <1>18, <1>19, <2>2
  <2> QED
    BY <2>1, <2>2
<1>21. TreeRight(s3.tables, lev3) /\ FreeRight(s3.free, s3.tables)
       /\ (s3.ok => MayWrite(s3.tables, lev3, va, s3.at, pa))
  BY <1>11, <1>12 DEF StepRight, MayWrite, OnWay
<1> HIDE DEF R
<1>22. PagesReady'
  <2>1. CASE ~s3.ok
    BY <1>4, <1>13, <1>20, <1>21, <2>1 DEF PagesReady, R
  <2>2. CASE s3.ok
    <3> DEFINE tb == WithLeaf(s3.tables, va, s3.at, pa)
    <3>1. TreeRight(tb, lev3) /\ DOMAIN tb = DOMAIN s3.tables /\ tb[CR3] = s3.tables[CR3]
      BY <1>21, <2>2, WrittenTree
    <3> HIDE DEF tb
    <3>2. FreeRight(s3.free, tb)
      BY <1>21, <3>1 DEF FreeRight
    <3>3. vmTables' = tb /\ vmFree' = s3.free
      BY <1>4, <2>2 DEF tb
    <3> QED
      BY <1>20, <3>1, <3>2, <3>3 DEF PagesReady, R
  <2> QED
    BY <1>13, <2>1, <2>2
<1>23. ASSUME NEW w \in Virtual PROVE Remapped(w, va, pa)
  <2> DEFINE i == Index(w, 1)
             hit == SameLower(w, va) /\ R[i] = R[a]
             Y == Seen(s3.tables, w)
  <2>1. i \in Entries
    BY <1>2
  <2>2. Fresh(w, va) <=> i = a /\ new
    BY DEF Fresh, Copied
  <2>3. Fresh(w, va) => /\ s1.ok => Y = w % Covers(1)
                        /\ ~s1.ok => Y = NoMapping
    <3> SUFFICES ASSUME Fresh(w, va) PROVE /\ s1.ok => Y = w % Covers(1)
                                           /\ ~s1.ok => Y = NoMapping
      OBVIOUS
    <3>1. i = a /\ new
      BY <2>2
    <3>2. s1.ok => Y = w % Covers(1)
      BY <1>15, <1>18, <3>1
    <3>3. ~s1.ok => s1.tables[CR3][a] = Absent
      <4>1. Cleared(va)[CR3][a] = Absent
        BY <1>3, <3>1
      <4> QED
        BY <1>18, <3>1, <4>1
    <3>4. ~s1.ok => Seen(s1.tables, w) = NoMapping
      BY <3>1, <3>3 DEF Seen
    <3> QED
      BY <1>15, <3>2, <3>4
  <2>4. ~Fresh(w, va) => Y = Seen(vmTables, w)
    <3>1. ~new => Y = Seen(vmTables, w)
      BY <1>15, <1>17
    <3>2. new /\ i # a => Y = Seen(vmTables, w)
      <4> SUFFICES ASSUME new, i # a PROVE Y = Seen(vmTables, w)
        OBVIOUS
      <4>1. Seen(Cleared(va), w) = Seen(vmTables, w)
        BY <1>3
      <4> HIDE DEF new
      <4>2. Seen(s1.tables, w) = Seen(vmTables, w)
        BY <1>13, <1>18, <4>1
      <4> QED
        BY <1>15, <4>2
    <3> QED
      BY <2>2, <3>1, <3>2
  <2>5. IsIt(w, va) => hit
    <3>1. CASE w = va
      BY <3>1 DEF SameLower
    <3>2. CASE Copied(w) /\ w % Covers(1) = va
      <4>1. a = 0 /\ SameLower(w, va)
        BY <3>2, FirstRegion DEF SameLower
      <4>2. ~new
        BY <1>19, <4>1
      <4>3. R = root
        BY <1>15, <1>17, <4>2
      <4>4. root[i] = root[0]
        BY <3>2 DEF Copied
      <4> QED
        BY <4>1, <4>3, <4>4
    <3> QED
      BY <3>1, <3>2 DEF IsIt
  <2>6. hit /\ s1.ok => IsIt(w, va)
    <3> SUFFICES ASSUME hit, s1.ok PROVE IsIt(w, va)
      OBVIOUS
    <3>1. CASE i = a
      BY <3>1, SameEntries DEF IsIt, SameLower
    <3>2. CASE i # a
      <4>1. ~new
        BY <1>15, <1>18, <2>1, <3>2
      <4>2. root[i] = root[a] /\ root[a].kind = "table" /\ R = root
        <5>1. Cleared(va) = vmTables
          BY <1>3, <4>1
        <5> QED
          BY <1>15, <1>16, <1>17, <4>1, <5>1
      <4>3. root[a] = root[0]
        BY <1>1, <1>2, <2>1, <3>2, <4>2 DEF TreeRight, OneWay
      <4>4. a = 0
        BY <4>1, <4>3 DEF Copied
      <4>5. Copied(w)
        BY <3>2, <4>1, <4>2, <4>3, <4>4 DEF Copied
      <4>6. w % Covers(1) = va
        <5>1. w % Covers(1) = va % Covers(1)
          BY SameEntries DEF SameLower
        <5>2. va = Covers(1) * 0 + (va % Covers(1)) /\ va \in Nat
              /\ va % Covers(1) \in 0 .. Covers(1) - 1
          BY <4>4, AddressFacts
        <5>3. Covers(1) \in Nat
          BY Units
        <5> QED
          BY <5>1, <5>2, <5>3
      <4> QED
        BY <4>5, <4>6 DEF IsIt
    <3> QED
      BY <3>1, <3>2
  <2>7. s3.ok => Seen(vmTables', w) = IF hit THEN pa ELSE Y
    <3> SUFFICES ASSUME s3.ok PROVE Seen(vmTables', w) = IF hit THEN pa ELSE Y
      OBVIOUS
    <3>1. vmTables' = WithLeaf(s3.tables, va, s3.at, pa)
      BY <1>4
    <3> QED
      BY <1>21, <3>1, WrittenSeen DEF R
  <2>8. ~s3.ok => Seen(vmTables', w) = Y
    BY <1>4
  <2> HIDE DEF hit, Y
  <2>9. IsIt(w, va) /\ s3.ok => Seen(vmTables', w) = pa
    BY <2>5, <2>7
  <2>10. ~IsIt(w, va) /\ s3.ok => Seen(vmTables', w) = Y
    BY <1>14, <2>6, <2>7
  <2>11. vmFailed' <=> ~s3.ok
    BY <1>4, <1>13
  <2> QED
    BY <1>13, <1>14, <2>3, <2>4, <2>8, <2>9, <2>10, <2>11 DEF Remapped
<1> QED
  BY <1>22, <1>23
\* The firmware's tables are there from the first on, and the pages of a call are addresses.
VmInv ==
  /\ \E lev : TreeRight(vmTables, lev)
  /\ FreeRight(vmFree, vmTables)
  /\ \/ vmTables[CR3] = AllAbsent /\ DOMAIN vmTables = 1 .. 4
     \/ vmTables[CR3][0].kind = "table"
  /\ vmCall \in [va : Nat, pa : Nat, n : Nat]
  /\ vmCall.n > 0 => /\ vmTables[CR3][0].kind = "table"
                     /\ vmCall.va + vmCall.n <= PageFan * Covers(1)

LEMMA NoEntryThere == 0 \in Entries /\ 1 \in Entries /\ \A j \in Entries : AllAbsent[j] = Absent
BY Units DEF Entries, AllAbsent

LEMMA EmptyTree ==
  ASSUME NEW tb, tb = [t \in 1 .. 4 |-> AllAbsent]
  PROVE  (\E lev : TreeRight(tb, lev)) /\ tb[CR3] = AllAbsent /\ DOMAIN tb = 1 .. 4
<1>1. DOMAIN tb = 1 .. 4 /\ \A t \in 1 .. 4 : tb[t] = AllAbsent
  OBVIOUS
<1>2. \A t \in 1 .. 4, j \in Entries : tb[t][j] = Absent /\ tb[t][j].kind = "absent"
  BY <1>1, NoEntryThere, EntryFacts
<1>3. CR3 \in 1 .. 4
  BY DEF CR3
<1>4. tb \in [DOMAIN tb -> [Entries -> EntryKind]]
  <2>1. AllAbsent \in [Entries -> EntryKind]
    BY EntryFacts DEF AllAbsent
  <2> QED
    BY <1>1, <2>1
<1> DEFINE lev == [t \in 1 .. 4 |-> t]
<1>5. "absent" # "table" /\ "absent" # "page"
  OBVIOUS
<1>6. OneWay(tb)
  BY <1>1, <1>2, <1>5 DEF OneWay
<1>7. lev \in [DOMAIN tb -> 1 .. 4] /\ \A t \in DOMAIN tb : lev[t] = 1 <=> t = CR3
  BY <1>1 DEF CR3
<1>8. DOMAIN tb \subseteq Nat
  BY <1>1
<1> HIDE DEF lev
<1>9. TreeRight(tb, lev)
  BY <1>1, <1>2, <1>3, <1>4, <1>5, <1>6, <1>7, <1>8 DEF TreeRight
<1> QED
  BY <1>1, <1>3, <1>9

LEMMA PoolOfTables ==
  ASSUME NEW free, free = [i \in 1 .. VmPoolPages |-> 4 + i], NEW tb, DOMAIN tb = 1 .. 4
  PROVE  FreeRight(free, tb)
<1>1. VmPoolPages \in Nat
  BY PagesAssumption
<1>2. free \in Seq(Nat) /\ Len(free) = VmPoolPages
  BY <1>1
<1> QED
  BY <1>1, <1>2 DEF FreeRight, IsInjective

LEMMA MachineStarts ==
  ASSUME NEW tb, NEW free, NEW call, tb = [t \in 1 .. 4 |-> AllAbsent],
         free = [i \in 1 .. VmPoolPages |-> 4 + i], call = NoPages
  PROVE  /\ \E lev : TreeRight(tb, lev)
         /\ FreeRight(free, tb)
         /\ tb[CR3] = AllAbsent /\ DOMAIN tb = 1 .. 4
         /\ call \in [va : Nat, pa : Nat, n : Nat] /\ ~(call.n > 0)
BY EmptyTree, PoolOfTables DEF NoPages

LEMMA Rows ==
  ASSUME NEW x \in EntryKind, NEW y \in EntryKind
  PROVE  LET row == [AllAbsent EXCEPT ![0] = x, ![1] = y]
         IN  /\ row \in [Entries -> EntryKind] /\ row[0] = x /\ row[1] = y
             /\ \A j \in Entries : j = 0 \/ j = 1 \/ row[j] = Absent
<1>1. AllAbsent \in [Entries -> EntryKind]
  BY EntryFacts DEF AllAbsent
<1> QED
  BY <1>1, NoEntryThere

LEMMA FirmwareTree ==
  ASSUME FirmwareTables
  PROVE  /\ \E lev : TreeRight(vmTables', lev)
         /\ vmTables'[CR3][0].kind = "table" /\ DOMAIN vmTables' = 1 .. 4
<1>1. PICK later \in {Absent, Table(PDP)},
           pdp0 \in {Leaf(0), Table(PD)}, pdp1 \in {Absent, Leaf(Covers(2))},
           pd0 \in {Absent, Leaf(Covers(3)), Table(PT)}, pt1 \in {Absent, Leaf(5)} :
        vmTables' =
          <<[AllAbsent EXCEPT ![0] = Table(PDP), ![1] = later],
            [AllAbsent EXCEPT ![0] = pdp0, ![1] = pdp1],
            [AllAbsent EXCEPT ![0] = pd0, ![1] = Leaf(0)],
            [AllAbsent EXCEPT ![0] = Leaf(3), ![1] = pt1]>>
  BY DEF FirmwareTables
<1> DEFINE r1 == [AllAbsent EXCEPT ![0] = Table(PDP), ![1] = later]
           r2 == [AllAbsent EXCEPT ![0] = pdp0, ![1] = pdp1]
           r3 == [AllAbsent EXCEPT ![0] = pd0, ![1] = Leaf(0)]
           r4 == [AllAbsent EXCEPT ![0] = Leaf(3), ![1] = pt1]
           tb == vmTables'
<1>2. /\ Covers(2) \in Nat /\ Covers(3) \in Nat
      /\ PDP = 2 /\ PD = 3 /\ PT = 4 /\ CR3 = 1
  BY Units DEF PDP, PD, PT, CR3
<1>3. /\ Table(PDP) \in EntryKind /\ Table(PD) \in EntryKind /\ Table(PT) \in EntryKind
      /\ Leaf(0) \in EntryKind /\ Leaf(3) \in EntryKind /\ Leaf(5) \in EntryKind
      /\ Leaf(Covers(2)) \in EntryKind /\ Leaf(Covers(3)) \in EntryKind /\ Absent \in EntryKind
  BY <1>2, EntryFacts
<1>4. /\ later \in EntryKind /\ pdp0 \in EntryKind /\ pdp1 \in EntryKind
      /\ pd0 \in EntryKind /\ pt1 \in EntryKind
  BY <1>3
<1>5. r1 \in [Entries -> EntryKind] /\ r1[0] = Table(PDP) /\ r1[1] = later
      /\ \A j \in Entries : j = 0 \/ j = 1 \/ r1[j] = Absent
  BY <1>3, <1>4, Rows
<1>6. r2 \in [Entries -> EntryKind] /\ r2[0] = pdp0 /\ r2[1] = pdp1
      /\ \A j \in Entries : j = 0 \/ j = 1 \/ r2[j] = Absent
  BY <1>3, <1>4, Rows
<1>7. r3 \in [Entries -> EntryKind] /\ r3[0] = pd0 /\ r3[1] = Leaf(0)
      /\ \A j \in Entries : j = 0 \/ j = 1 \/ r3[j] = Absent
  BY <1>3, <1>4, Rows
<1>8. r4 \in [Entries -> EntryKind] /\ r4[0] = Leaf(3) /\ r4[1] = pt1
      /\ \A j \in Entries : j = 0 \/ j = 1 \/ r4[j] = Absent
  BY <1>3, <1>4, Rows
<1> HIDE DEF r1, r2, r3, r4
<1>9. tb = <<r1, r2, r3, r4>>
  BY <1>1 DEF r1, r2, r3, r4
<1> HIDE DEF tb
<1>10. /\ DOMAIN tb = 1 .. 4 /\ tb[1] = r1 /\ tb[2] = r2 /\ tb[3] = r3 /\ tb[4] = r4
       /\ \A t \in 1 .. 4 : t = 1 \/ t = 2 \/ t = 3 \/ t = 4
  BY <1>9
<1>11. tb \in [DOMAIN tb -> [Entries -> EntryKind]]
  <2>1. \A t \in 1 .. 4 : tb[t] \in [Entries -> EntryKind]
    BY <1>5, <1>6, <1>7, <1>8, <1>10
  <2>2. tb = [t \in 1 .. 4 |-> tb[t]]
    BY <1>9, <1>10
  <2> QED
    BY <1>10, <2>1, <2>2
\* Where an entry with a table can be.
<1>12. ASSUME NEW t \in 1 .. 4, NEW j \in Entries, tb[t][j].kind = "table"
       PROVE  \/ t = 1 /\ tb[t][j] = Table(2)
              \/ t = 2 /\ j = 0 /\ tb[t][j] = Table(3)
              \/ t = 3 /\ j = 0 /\ tb[t][j] = Table(4)
  <2>1. /\ Absent.kind # "table" /\ Leaf(0).kind # "table" /\ Leaf(3).kind # "table"
        /\ Leaf(5).kind # "table"
        /\ Leaf(Covers(2)).kind # "table" /\ Leaf(Covers(3)).kind # "table"
    <3>1. "absent" # "table" /\ "page" # "table"
      OBVIOUS
    <3> QED
      BY <1>2, <3>1, EntryFacts
  <2>2. CASE t = 1
    <3>1. tb[t] = r1
      BY <1>10, <2>2
    <3> QED
      BY <1>2, <1>5, <1>12, <2>1, <2>2, <3>1
  <2>3. CASE t = 2
    <3>1. tb[t] = r2
      BY <1>10, <2>3
    <3> QED
      BY <1>2, <1>6, <1>12, <2>1, <2>3, <3>1
  <2>4. CASE t = 3
    <3>1. tb[t] = r3
      BY <1>10, <2>4
    <3> QED
      BY <1>2, <1>7, <1>12, <2>1, <2>4, <3>1
  <2>5. CASE t = 4
    <3>1. tb[t] = r4
      BY <1>10, <2>5
    <3> QED
      BY <1>2, <1>8, <1>12, <2>1, <2>5, <3>1
  <2> QED
    BY <1>10, <2>2, <2>3, <2>4, <2>5
<1>13. Table(2).to = 2 /\ Table(3).to = 3 /\ Table(4).to = 4
  BY TableFacts
<1>14. OneWay(tb)
  <2>1. tb[CR3][0] = Table(2)
    BY <1>2, <1>5, <1>10
  <2>2. ASSUME NEW u \in 1 .. 4, NEW v \in 1 .. 4,
                      NEW j \in Entries, NEW k \in Entries,
               tb[u][j].kind = "table", tb[v][k] = tb[u][j]
        PROVE  (u = v /\ j = k) \/ (u = CR3 /\ v = CR3 /\ tb[u][j] = tb[CR3][0])
    <3>1. \/ u = 1 /\ tb[u][j] = Table(2)
          \/ u = 2 /\ j = 0 /\ tb[u][j] = Table(3)
          \/ u = 3 /\ j = 0 /\ tb[u][j] = Table(4)
      BY <1>12, <2>2
    <3>2. \/ v = 1 /\ tb[v][k] = Table(2)
          \/ v = 2 /\ k = 0 /\ tb[v][k] = Table(3)
          \/ v = 3 /\ k = 0 /\ tb[v][k] = Table(4)
      BY <1>12, <2>2
    <3>3. Table(2) # Table(3) /\ Table(2) # Table(4) /\ Table(3) # Table(4)
      BY <1>13
    <3> QED
      BY <1>2, <2>1, <2>2, <3>1, <3>2, <3>3
  <2> QED
    BY <1>10, <2>2 DEF OneWay
<1> DEFINE lev == [t \in 1 .. 4 |-> t]
<1>15. lev \in [DOMAIN tb -> 1 .. 4] /\ \A t \in DOMAIN tb : lev[t] = 1 <=> t = CR3
  BY <1>2, <1>10
<1>16. \A t \in DOMAIN tb, i \in Entries :
         tb[t][i].kind = "table" =>
           lev[t] # 4 /\ tb[t][i].to \in DOMAIN tb /\ lev[tb[t][i].to] = lev[t] + 1
  <2> SUFFICES ASSUME NEW t \in 1 .. 4, NEW i \in Entries, tb[t][i].kind = "table"
               PROVE  lev[t] # 4 /\ tb[t][i].to \in 1 .. 4 /\ lev[tb[t][i].to] = lev[t] + 1
    BY <1>10
  <2>1. /\ t = 1 \/ t = 2 \/ t = 3
        /\ tb[t][i].to = t + 1
    BY <1>12, <1>13
  <2> QED
    BY <2>1
<1>17. \A i \in Entries : tb[CR3][i].kind # "page"
  <2>1. ASSUME NEW i \in Entries PROVE r1[i] = Absent \/ r1[i] = Table(2)
    BY <1>2, <1>5
  <2>2. Absent.kind # "page" /\ Table(2).kind # "page"
    <3>1. "absent" # "page" /\ "table" # "page"
      OBVIOUS
    <3> QED
      BY <3>1, EntryFacts, TableFacts
  <2> QED
    BY <1>2, <1>10, <2>1, <2>2
<1>18. DOMAIN tb \subseteq Nat /\ CR3 \in DOMAIN tb
  BY <1>2, <1>10
<1> HIDE DEF lev
<1>19. TreeRight(tb, lev)
  BY <1>11, <1>14, <1>15, <1>16, <1>17, <1>18 DEF TreeRight
<1>20. tb[CR3][0].kind = "table"
  BY <1>2, <1>5, <1>10, TableFacts
<1> QED
  BY <1>10, <1>19, <1>20 DEF tb

LEMMA InitRight == VmInit => VmInv
BY MachineStarts DEF VmInit, VmInv

\* A page of a call is an address.
LEMMA CallIsThere ==
  ASSUME VmInv, vmCall.n > 0
  PROVE  PagesReady /\ vmCall.va \in Virtual /\ vmCall.pa \in Nat
<1>1. PageFan * Covers(1) \in Nat
  <2>1. PageFan \in Nat /\ Covers(1) \in Nat
    BY Units
  <2> QED
    BY <2>1
<1>2. /\ vmCall.va \in Nat /\ vmCall.pa \in Nat /\ vmCall.n \in Nat
      /\ vmCall.va + vmCall.n <= PageFan * Covers(1)
  BY DEF VmInv
<1>3. vmCall.va \in Virtual
  <2> DEFINE m == PageFan * Covers(1)
  <2>1. m \in Nat /\ vmCall.va + vmCall.n <= m
    BY <1>1, <1>2
  <2> HIDE DEF m
  <2>2. vmCall.va \in 0 .. m - 1
    BY <1>2, <2>1
  <2> QED
    BY <2>2 DEF Virtual, m
<1> QED
  BY <1>2, <1>3 DEF VmInv, PagesReady

LEMMA FirmwareKeeps == ASSUME VmInv, FirmwareTables PROVE VmInv'
<1>1. vmTables[CR3] = AllAbsent /\ vmFree' = vmFree /\ vmCall' = vmCall
  BY DEF FirmwareTables
<1>2. ~(vmTables[CR3][0].kind = "table")
  <2>1. vmTables[CR3][0].kind = "absent"
    BY <1>1, NoEntryThere, EntryFacts
  <2> QED
    BY <2>1
<1>3. DOMAIN vmTables = 1 .. 4 /\ ~(vmCall.n > 0)
  BY <1>2 DEF VmInv
<1>4. /\ \E lev : TreeRight(vmTables', lev)
      /\ vmTables'[CR3][0].kind = "table" /\ DOMAIN vmTables' = 1 .. 4
  BY FirmwareTree
<1>5. FreeRight(vmFree', vmTables')
  BY <1>1, <1>3, <1>4 DEF VmInv, FreeRight
<1> QED
  BY <1>1, <1>3, <1>4, <1>5 DEF VmInv

LEMMA CallBegins == ASSUME VmInv, VmMapVirtualPages PROVE VmInv'
<1>1. vmTables' = vmTables /\ vmFree' = vmFree /\ vmTables[CR3] # AllAbsent
  BY DEF VmMapVirtualPages
<1>2. PICK va \in Virtual, pa \in VmTargets, n \in VmLengths :
        va + n - 1 \in Virtual /\ vmCall' = [va |-> va, pa |-> pa, n |-> n]
  BY DEF VmMapVirtualPages
<1>3. va \in Nat /\ pa \in Nat /\ n \in Nat
  BY AddressFacts, PagesAssumption
<1>4. va + n <= PageFan * Covers(1)
  <2> DEFINE m == PageFan * Covers(1)
  <2>1. m \in Nat
    <3>1. PageFan \in Nat /\ Covers(1) \in Nat
      BY Units
    <3> QED
      BY <3>1
  <2>2. va + n - 1 \in 0 .. m - 1
    BY <1>2 DEF Virtual
  <2> HIDE DEF m
  <2>3. va + n <= m
    BY <1>3, <2>1, <2>2
  <2> QED
    BY <2>3 DEF m
<1>5. vmCall' \in [va : Nat, pa : Nat, n : Nat] /\ vmCall'.va = va /\ vmCall'.n = n
  BY <1>2, <1>3
<1>6. vmTables'[CR3][0].kind = "table"
  BY <1>1 DEF VmInv
<1> QED
  BY <1>1, <1>4, <1>5, <1>6 DEF VmInv

LEMMA PageDone == ASSUME VmInv, VmMapNext PROVE VmInv'
<1>1. vmCall.n > 0 /\ VmMapVirtualPage(vmCall.va, vmCall.pa)
      /\ vmCall' = IF vmFailed' THEN NoPages
                   ELSE [va |-> vmCall.va + 1, pa |-> vmCall.pa + 1, n |-> vmCall.n - 1]
  BY DEF VmMapNext
<1>2. PagesReady /\ vmCall.va \in Virtual /\ vmCall.pa \in Nat
  BY <1>1, CallIsThere
<1>3. PagesReady'
  BY <1>1, <1>2, MapPage
<1>4. /\ vmCall.va \in Nat /\ vmCall.pa \in Nat /\ vmCall.n \in Nat
      /\ vmCall.va + vmCall.n <= PageFan * Covers(1)
  BY <1>1 DEF VmInv
<1>5. PageFan * Covers(1) \in Nat
  <2>1. PageFan \in Nat /\ Covers(1) \in Nat
    BY Units
  <2> QED
    BY <2>1
<1>6. vmCall' \in [va : Nat, pa : Nat, n : Nat]
      /\ (vmCall'.n > 0 => vmCall'.va + vmCall'.n <= PageFan * Covers(1))
  <2>1. CASE vmFailed'
    BY <1>1, <2>1 DEF NoPages
  <2>2. CASE ~vmFailed'
    <3>1. vmCall' = [va |-> vmCall.va + 1, pa |-> vmCall.pa + 1, n |-> vmCall.n - 1]
      BY <1>1, <2>2
    <3>2. vmCall'.va = vmCall.va + 1 /\ vmCall'.n = vmCall.n - 1
      BY <3>1
    <3>3. vmCall.n - 1 \in Nat /\ vmCall.va + 1 \in Nat /\ vmCall.pa + 1 \in Nat
      BY <1>1, <1>4
    <3>4. (vmCall.va + 1) + (vmCall.n - 1) = vmCall.va + vmCall.n
      BY <1>4
    <3> QED
      BY <1>4, <3>1, <3>2, <3>3, <3>4
  <2> QED
    BY <2>1, <2>2
<1> QED
  BY <1>3, <1>6 DEF VmInv, PagesReady

\* The tables stay a tree apart from the pool, a call in progress has addresses of it and
\* mapping, though it may end at any level, leaves no entry half written
\* (VirtualMemory.c:144-405).
THEOREM PagesStayRight == VmSpec => []VmInv
<1>1. ASSUME VmInv, [VmNext]_vmVars PROVE VmInv'
  <2>1. CASE FirmwareTables
    BY <1>1, <2>1, FirmwareKeeps
  <2>2. CASE VmMapVirtualPages
    BY <1>1, <2>2, CallBegins
  <2>3. CASE VmMapNext
    BY <1>1, <2>3, PageDone
  <2>4. CASE NextBoot
    <3>1. /\ \E lev : TreeRight(vmTables', lev)
          /\ FreeRight(vmFree', vmTables')
          /\ vmTables'[CR3] = AllAbsent /\ DOMAIN vmTables' = 1 .. 4
          /\ vmCall' \in [va : Nat, pa : Nat, n : Nat] /\ ~(vmCall'.n > 0)
      BY <2>4, MachineStarts DEF NextBoot
    <3> QED
      BY <3>1 DEF VmInv
  <2>5. CASE UNCHANGED vmVars
    <3>1. vmTables' = vmTables /\ vmFree' = vmFree /\ vmCall' = vmCall
      BY <2>5 DEF vmVars
    <3> QED
      BY <1>1, <3>1 DEF VmInv
  <2> QED
    BY <1>1, <2>1, <2>2, <2>3, <2>4, <2>5 DEF VmNext
<1> QED
  BY <1>1, InitRight, PTL DEF VmSpec

\* What a page of a call leaves of the translations is what the property says.
LEMMA RemappedIsRight ==
  ASSUME VmInv, [VmNext]_vmVars, vmCall.n > 0, vmVars' # vmVars, NEW w \in Virtual
  PROVE  Remapped(w, vmCall.va, vmCall.pa) /\ vmFailed' \in BOOLEAN
<1>1. ~FirmwareTables
  <2>1. vmTables[CR3][0].kind = "table"
    BY DEF VmInv
  <2>2. AllAbsent[0].kind = "absent"
    BY NoEntryThere, EntryFacts
  <2> QED
    BY <2>1, <2>2 DEF FirmwareTables
<1>2. vmCall.n \in Nat
  BY DEF VmInv
<1>3. ~VmMapVirtualPages /\ ~NextBoot
  BY <1>2 DEF VmMapVirtualPages, NextBoot
<1>4. VmMapVirtualPage(vmCall.va, vmCall.pa)
  BY <1>1, <1>3 DEF VmNext, VmMapNext
<1>5. vmFailed' \in BOOLEAN
  BY <1>4 DEF VmMapVirtualPage
<1> QED
  BY <1>4, <1>5, CallIsThere, MapPage

\* For tables and pools of every size a page is mapped to what was asked for, and every
\* other address keeps what it was mapped to, through split pages and new tables
\* (VirtualMemory.c:184-368).
THEOREM PagesRemapped == VmSpec => OnlyThePageRemapped
<1> DEFINE Kept ==
       vmCall.n > 0 =>
         LET fresh(w) == /\ Index(w, 1) = Index(vmCall.va, 1)
                         /\ vmTables[CR3][Index(w, 1)] = Absent \/ Copied(w)
             isIt(w) == w = vmCall.va \/ (Copied(w) /\ w % Covers(1) = vmCall.va)
             then(w) == GetPhysicalAddress(w)'
         IN  \A w \in Virtual :
               CASE isIt(w) /\ ~vmFailed' -> then(w) = vmCall.pa
                 [] ~isIt(w) /\ fresh(w) /\ ~vmFailed' -> then(w) = w % Covers(1)
                 [] fresh(w) /\ vmFailed' -> then(w) \in {w % Covers(1), NoMapping}
                 [] ~fresh(w) /\ (~isIt(w) \/ vmFailed') -> then(w) = GetPhysicalAddress(w)
<1>1. ASSUME VmInv, [VmNext]_vmVars PROVE [Kept]_vmVars
  <2> SUFFICES ASSUME vmVars' # vmVars, vmCall.n > 0, NEW w \in Virtual
               PROVE  LET fresh == Fresh(w, vmCall.va)
                          isIt == IsIt(w, vmCall.va)
                          then == GetPhysicalAddress(w)'
                      IN  CASE isIt /\ ~vmFailed' -> then = vmCall.pa
                            [] ~isIt /\ fresh /\ ~vmFailed' -> then = w % Covers(1)
                            [] fresh /\ vmFailed' -> then \in {w % Covers(1), NoMapping}
                            [] ~fresh /\ (~isIt \/ vmFailed') -> then = GetPhysicalAddress(w)
    BY DEF Fresh, IsIt
  <2>1. Remapped(w, vmCall.va, vmCall.pa) /\ vmFailed' \in BOOLEAN
    BY <1>1, RemappedIsRight
  <2>2. GetPhysicalAddress(w) = Seen(vmTables, w) /\ GetPhysicalAddress(w)' = Seen(vmTables', w)
    BY DEF GetPhysicalAddress, Seen, Low2, Low3, Low4, Mapped
  <2> QED
    BY <2>1, <2>2 DEF Remapped
<1> QED
  BY <1>1, PagesStayRight, PTL DEF VmSpec, OnlyThePageRemapped
----------------------------------------------------------------------------
(* Memory maps: entries in order. *)

MemType == {"Conventional", "LoaderData", "RuntimeData", "Reserved"}
MemDesc == [Type : MemType, Attribute : {"wb", "uc", "runtime"}, Start : Nat, Pages : Nat \ {0}]

\* The entries of a map have pages, in ascending order and apart.
MapRight(map) ==
  /\ map \in Seq(MemDesc)
  /\ \A i, j \in DOMAIN map : i < j => End(map[i]) <= map[j].Start

LEMMA DescFacts ==
  /\ \A d \in MemDesc : /\ d.Type \in MemType /\ d.Attribute \in {"wb", "uc", "runtime"}
                        /\ d.Start \in Nat /\ d.Pages \in Nat /\ d.Pages > 0
                        /\ End(d) \in Nat /\ End(d) = d.Start + d.Pages /\ d.Start < End(d)
                        /\ \A x : x \in PagesOf(d) <=> x \in Nat /\ d.Start <= x /\ x < End(d)
  /\ \A d \in MemDesc, start \in Nat, pages \in Nat \ {0} :
       /\ Desc(d, start, pages) \in MemDesc
       /\ Desc(d, start, pages).Type = d.Type /\ Desc(d, start, pages).Attribute = d.Attribute
       /\ Desc(d, start, pages).Start = start /\ Desc(d, start, pages).Pages = pages
       /\ End(Desc(d, start, pages)) = start + pages
<1>1. ASSUME NEW d \in MemDesc
      PROVE  /\ d.Type \in MemType /\ d.Attribute \in {"wb", "uc", "runtime"}
             /\ d.Start \in Nat /\ d.Pages \in Nat /\ d.Pages > 0
             /\ End(d) \in Nat /\ End(d) = d.Start + d.Pages /\ d.Start < End(d)
             /\ \A x : x \in PagesOf(d) <=> x \in Nat /\ d.Start <= x /\ x < End(d)
  <2>1. /\ d.Type \in MemType /\ d.Attribute \in {"wb", "uc", "runtime"}
        /\ d.Start \in Nat /\ d.Pages \in Nat /\ d.Pages > 0
    BY DEF MemDesc
  <2>2. End(d) \in Nat /\ End(d) = d.Start + d.Pages /\ d.Start < End(d)
    BY <2>1 DEF End
  <2>3. \A x : x \in PagesOf(d) <=> x \in Nat /\ d.Start <= x /\ x < End(d)
    BY <2>1, <2>2 DEF PagesOf
  <2> QED
    BY <2>1, <2>2, <2>3
<1>2. ASSUME NEW d \in MemDesc, NEW start \in Nat, NEW pages \in Nat \ {0}
      PROVE  /\ Desc(d, start, pages) \in MemDesc
             /\ Desc(d, start, pages).Type = d.Type
             /\ Desc(d, start, pages).Attribute = d.Attribute
             /\ Desc(d, start, pages).Start = start /\ Desc(d, start, pages).Pages = pages
             /\ End(Desc(d, start, pages)) = start + pages
  BY DEF MemDesc, Desc, End
<1> QED
  BY <1>1, <1>2

LEMMA DescIs ==
  ASSUME NEW d \in MemDesc, NEW start \in Nat, NEW pages \in Nat \ {0}
  PROVE  /\ Desc(d, start, pages) \in MemDesc
         /\ Desc(d, start, pages).Start = start /\ End(Desc(d, start, pages)) = start + pages
BY DescFacts

LEMMA MapFacts ==
  ASSUME NEW map, MapRight(map)
  PROVE  /\ Len(map) \in Nat /\ DOMAIN map = 1 .. Len(map)
         /\ \A k \in DOMAIN map : map[k] \in MemDesc
         /\ \A i, j \in DOMAIN map : \A x : x \in PagesOf(map[i]) /\ x \in PagesOf(map[j]) => i = j
<1>1. map \in Seq(MemDesc)
  BY DEF MapRight
<1>2. Len(map) \in Nat /\ DOMAIN map = 1 .. Len(map) /\ \A k \in DOMAIN map : map[k] \in MemDesc
  BY <1>1
<1>3. ASSUME NEW i \in DOMAIN map, NEW j \in DOMAIN map, NEW x,
             x \in PagesOf(map[i]), x \in PagesOf(map[j])
      PROVE  i = j
  <2>1. /\ x \in Nat /\ map[i].Start <= x /\ x < End(map[i]) /\ map[j].Start <= x /\ x < End(map[j])
        /\ map[i].Start \in Nat /\ map[j].Start \in Nat /\ End(map[i]) \in Nat /\ End(map[j]) \in Nat
    BY <1>2, <1>3, DescFacts
  <2>2. /\ i < j => End(map[i]) <= map[j].Start
        /\ j < i => End(map[j]) <= map[i].Start
    BY DEF MapRight
  <2>3. ~(i < j) /\ ~(j < i)
    BY <2>1, <2>2
  <2> QED
    BY <1>2, <2>3
<1> QED
  BY <1>2, <1>3

\* An entry is cut into pieces.
InPieces(map, k, mid) == SubSeq(map, 1, k - 1) \o mid \o SubSeq(map, k + 1, Len(map))

LEMMA InPiecesRight ==
  ASSUME NEW map, MapRight(map), NEW k \in DOMAIN map, NEW mid, MapRight(mid),
         \A i \in DOMAIN mid : map[k].Start <= mid[i].Start /\ End(mid[i]) <= End(map[k])
  PROVE  MapRight(InPieces(map, k, mid))
<1> DEFINE n == Len(map)
           m == Len(mid)
           low == SubSeq(map, 1, k - 1)
           high == SubSeq(map, k + 1, n)
           new == InPieces(map, k, mid)
<1>1. /\ n \in Nat /\ DOMAIN map = 1 .. n /\ m \in Nat /\ DOMAIN mid = 1 .. m
      /\ map \in Seq(MemDesc) /\ mid \in Seq(MemDesc) /\ k \in 1 .. n /\ m = Len(mid)
  BY MapFacts DEF MapRight
<1>2. /\ low \in Seq(MemDesc) /\ Len(low) = k - 1 /\ \A i \in 1 .. k - 1 : low[i] = map[i]
      /\ high \in Seq(MemDesc) /\ Len(high) = n - k /\ \A i \in 1 .. n - k : high[i] = map[k + i]
  BY <1>1, BothSides
<1> HIDE DEF low, high, n, m
<1>3. /\ new \in Seq(MemDesc) /\ Len(new) = (k - 1) + m + (n - k)
      /\ \A i \in 1 .. (k - 1) + m + (n - k) :
           new[i] = IF i < k THEN low[i] ELSE IF i < k + m THEN mid[i - (k - 1)]
                    ELSE high[i - (k - 1 + m)]
  <2>1. new = (low \o mid) \o high
    BY DEF InPieces, low, high, n
  <2> HIDE DEF new
  <2>2. /\ low \o mid \in Seq(MemDesc) /\ Len(low \o mid) = (k - 1) + m
        /\ \A i \in 1 .. (k - 1) + m : (low \o mid)[i] = IF i < k THEN low[i] ELSE mid[i - (k - 1)]
    <3>1. /\ low \o mid \in Seq(MemDesc) /\ Len(low \o mid) = Len(low) + Len(mid)
          /\ \A i \in 1 .. Len(low) + Len(mid) :
               (low \o mid)[i] = IF i <= Len(low) THEN low[i] ELSE mid[i - Len(low)]
      BY <1>1, <1>2, ConcatProperties
    <3>2. Len(low) = k - 1 /\ Len(mid) = m /\ \A i \in Int : i <= k - 1 <=> i < k
      BY <1>1, <1>2
    <3> QED
      BY <1>1, <3>1, <3>2
  <2> DEFINE front == low \o mid
             q == (k - 1) + m
  <2>3. /\ front \o high \in Seq(MemDesc) /\ Len(front \o high) = q + (n - k)
        /\ \A i \in 1 .. q + (n - k) :
             (front \o high)[i] = IF i <= q THEN front[i] ELSE high[i - q]
    <3>1. /\ front \in Seq(MemDesc) /\ Len(front) = q /\ high \in Seq(MemDesc) /\ Len(high) = n - k
      BY <1>2, <2>2
    <3> HIDE DEF front, q
    <3>2. /\ front \o high \in Seq(MemDesc) /\ Len(front \o high) = Len(front) + Len(high)
          /\ \A i \in 1 .. Len(front) + Len(high) :
               (front \o high)[i] = IF i <= Len(front) THEN front[i] ELSE high[i - Len(front)]
      BY <3>1, ConcatProperties, Zenon
    <3>3. Len(front) = q /\ Len(high) = n - k
      BY <3>1
    <3> QED
      BY <3>2, <3>3, Zenon
  <2>4. q \in Nat /\ q = (k - 1) + m /\ \A i \in Int : i <= q <=> i < k + m
    BY <1>1
  <2>5. new = front \o high
    BY <2>1
  <2>6. \A i \in 1 .. q : front[i] = IF i < k THEN low[i] ELSE mid[i - (k - 1)]
    BY <2>2
  <2> HIDE DEF front, q
  <2>7. ASSUME NEW i \in 1 .. q + (n - k)
        PROVE  new[i] = IF i < k THEN low[i] ELSE IF i < k + m THEN mid[i - (k - 1)]
                        ELSE high[i - q]
    <3>1. CASE i < k + m
      <4>1. i \in 1 .. q
        BY <2>4, <3>1
      <4> QED
        BY <1>1, <2>3, <2>4, <2>5, <2>6, <3>1, <4>1
    <3>2. CASE ~(i < k + m)
      <4>1. ~(i <= q) /\ ~(i < k)
        BY <1>1, <2>4, <3>2
      <4> QED
        BY <2>3, <2>5, <3>2, <4>1
    <3> QED
      BY <3>1, <3>2
  <2> QED
    BY <2>3, <2>4, <2>5, <2>7
<1> HIDE DEF new
<1>4. DOMAIN new = 1 .. (k - 1) + m + (n - k)
  BY <1>3
\* Where an entry of the new map lies in the old one.
<1> DEFINE of(i) == IF i < k THEN i ELSE IF i < k + m THEN k ELSE i - m + 1
<1>5. ASSUME NEW i \in DOMAIN new
      PROVE  /\ of(i) \in 1 .. n /\ new[i] \in MemDesc
             /\ map[of(i)].Start <= new[i].Start /\ End(new[i]) <= End(map[of(i)])
  <2>1. CASE i < k
    <3>1. of(i) = i /\ i \in 1 .. n /\ i \in 1 .. k - 1
      BY <1>1, <1>4, <2>1
    <3>2. new[i] = map[i]
      BY <1>2, <1>3, <1>4, <2>1, <3>1
    <3>3. map[i] \in MemDesc
      BY <1>1, <3>1
    <3> HIDE DEF of
    <3>4. map[i].Start \in Nat /\ End(map[i]) \in Nat
      BY <3>3, DescFacts
    <3> QED
      BY <3>1, <3>2, <3>3, <3>4
  <2>2. CASE i >= k /\ i < k + m
    <3>1. i - (k - 1) \in DOMAIN mid /\ new[i] = mid[i - (k - 1)] /\ of(i) = k
      BY <1>1, <1>3, <1>4, <2>2
    <3>2. new[i] \in MemDesc
      BY <1>1, <3>1
    <3> QED
      BY <1>1, <3>1, <3>2
  <2>3. CASE i >= k + m
    <3>1. i - (k - 1 + m) \in 1 .. n - k /\ new[i] = high[i - (k - 1 + m)] /\ of(i) = i - m + 1
      BY <1>1, <1>3, <1>4, <2>3
    <3>2. new[i] = map[of(i)] /\ of(i) \in 1 .. n
      <4>1. high[i - (k - 1 + m)] = map[k + (i - (k - 1 + m))]
        BY <1>2, <3>1
      <4>2. k + (i - (k - 1 + m)) = i - m + 1
        BY <1>1, <1>4
      <4> QED
        BY <1>1, <1>4, <2>3, <3>1, <4>1, <4>2
    <3>3. map[of(i)] \in MemDesc
      BY <1>1, <3>2
    <3> HIDE DEF of
    <3>4. map[of(i)].Start \in Nat /\ End(map[of(i)]) \in Nat
      BY <3>3, DescFacts
    <3> QED
      BY <3>2, <3>3, <3>4
  <2> QED
    BY <1>1, <1>4, <2>1, <2>2, <2>3
<1>6. ASSUME NEW i \in DOMAIN new, NEW j \in DOMAIN new, i < j PROVE End(new[i]) <= new[j].Start
  <2>1. of(i) \in 1 .. n /\ of(j) \in 1 .. n /\ of(i) <= of(j)
        /\ (of(i) = of(j) => of(i) = k /\ k <= i /\ i < k + m /\ k <= j /\ j < k + m)
    BY <1>1, <1>4, <1>5, <1>6
  <2>2. CASE of(i) < of(j)
    <3>1. End(map[of(i)]) <= map[of(j)].Start
      BY <1>1, <2>1, <2>2 DEF MapRight
    <3>2. /\ End(new[i]) <= End(map[of(i)]) /\ map[of(j)].Start <= new[j].Start
          /\ new[i] \in MemDesc /\ new[j] \in MemDesc
      BY <1>5
    <3>3. map[of(i)] \in MemDesc /\ map[of(j)] \in MemDesc
      BY <1>1, <2>1
    <3> HIDE DEF of
    <3>4. End(new[i]) \in Nat /\ new[j].Start \in Nat /\ End(map[of(i)]) \in Nat /\ map[of(j)].Start \in Nat
      BY <3>2, <3>3, DescFacts
    <3> QED
      BY <3>1, <3>2, <3>4
  <2>3. CASE of(i) = of(j)
    <3>1. i - (k - 1) \in DOMAIN mid /\ new[i] = mid[i - (k - 1)]
          /\ j - (k - 1) \in DOMAIN mid /\ new[j] = mid[j - (k - 1)]
          /\ i - (k - 1) < j - (k - 1)
      BY <1>1, <1>3, <1>4, <1>6, <2>1, <2>3
    <3> QED
      BY <3>1 DEF MapRight
  <2> HIDE DEF of
  <2> QED
    BY <2>1, <2>2, <2>3
<1> QED
  BY <1>3, <1>6 DEF MapRight, new

\* Memory that is allocated lies in one entry of the map.
LEMMA AllocatedRight ==
  ASSUME NEW map, MapRight(map), NEW j \in DOMAIN map, NEW at \in Nat, NEW pages \in Nat \ {0},
         map[j].Start <= at, at + pages <= End(map[j])
  PROVE  MapRight(Allocated(map, at, pages))
<1> DEFINE k == CHOOSE i \in DOMAIN map : at \in PagesOf(map[i])
           d == map[j]
           given == Desc([Type |-> "RuntimeData", Attribute |-> "runtime"], at, pages)
           below == IF at = d.Start THEN << >> ELSE <<Desc(d, d.Start, at - d.Start)>>
           above == IF at + pages = End(d) THEN << >>
                    ELSE <<Desc(d, at + pages, End(d) - (at + pages))>>
<1>1. /\ d \in MemDesc /\ d.Start \in Nat /\ d.Pages \in Nat /\ End(d) \in Nat /\ at \in PagesOf(d)
      /\ d.Start <= at /\ at + pages <= End(d)
  <2>1. d \in MemDesc /\ d.Start <= at /\ at + pages <= End(d)
    BY MapFacts
  <2> HIDE DEF d
  <2>2. d.Start \in Nat /\ d.Pages \in Nat /\ End(d) \in Nat
    BY <2>1, DescFacts
  <2>3. at < End(d)
    BY <2>1, <2>2
  <2>4. at \in PagesOf(d)
    BY <2>1, <2>3, DescFacts
  <2> QED
    BY <2>1, <2>2, <2>4
<1>2. k = j
  <2>1. k \in DOMAIN map /\ at \in PagesOf(map[k])
    BY <1>1 DEF d
  <2> HIDE DEF k
  <2> QED
    BY <1>1, <2>1, MapFacts DEF d
<1> HIDE DEF d
<1>3. given \in MemDesc /\ given.Start = at /\ End(given) = at + pages
  BY DEF given, Desc, MemDesc, End, MemType
<1> DEFINE b == Desc(d, d.Start, at - d.Start)
           c == Desc(d, at + pages, End(d) - (at + pages))
<1>4. ASSUME at # d.Start PROVE b \in MemDesc /\ b.Start = d.Start /\ End(b) = at
  <2>1. at - d.Start \in Nat \ {0} /\ d.Start + (at - d.Start) = at
    BY <1>1, <1>4
  <2>2. b \in MemDesc /\ b.Start = d.Start /\ End(b) = d.Start + (at - d.Start)
    BY <1>1, <2>1, DescIs, Zenon
  <2> QED
    BY <2>1, <2>2
<1>5. ASSUME at + pages # End(d) PROVE c \in MemDesc /\ c.Start = at + pages /\ End(c) = End(d)
  <2>1. /\ End(d) - (at + pages) \in Nat \ {0} /\ at + pages \in Nat
        /\ (at + pages) + (End(d) - (at + pages)) = End(d)
    BY <1>1, <1>5
  <2>2. c \in MemDesc /\ c.Start = at + pages /\ End(c) = (at + pages) + (End(d) - (at + pages))
    BY <1>1, <2>1, DescIs, Zenon
  <2> QED
    BY <2>1, <2>2
<1> DEFINE mid == below \o <<given>> \o above
<1>6. Allocated(map, at, pages) = InPieces(map, j, mid)
  <2> DEFINE Cut(i) ==
               LET e == map[i]
                   low == IF at = e.Start THEN << >> ELSE <<Desc(e, e.Start, at - e.Start)>>
                   high == IF at + pages = End(e) THEN << >>
                           ELSE <<Desc(e, at + pages, End(e) - (at + pages))>>
               IN  SubSeq(map, 1, i - 1) \o (low \o <<given>> \o high) \o SubSeq(map, i + 1, Len(map))
  <2>1. Allocated(map, at, pages) = Cut(j)
    <3>1. Allocated(map, at, pages) = Cut(k)
      BY Zenon DEF Allocated
    <3> HIDE DEF Cut, k, given
    <3> QED
      BY <1>2, <3>1
  <2>2. Cut(j) = SubSeq(map, 1, j - 1) \o mid \o SubSeq(map, j + 1, Len(map))
    BY Zenon DEF d
  <2> HIDE DEF Cut, mid
  <2> QED
    BY <2>1, <2>2 DEF InPieces
<1>7. MapRight(mid) /\ \A i \in DOMAIN mid : d.Start <= mid[i].Start /\ End(mid[i]) <= End(d)
  <2> HIDE DEF given, b, c
  <2>1. CASE at = d.Start /\ at + pages = End(d)
    <3>1. mid = <<given>>
      BY <2>1
    <3> QED
      BY <1>1, <1>3, <2>1, <3>1 DEF MapRight
  <2>2. CASE at = d.Start /\ at + pages # End(d)
    <3>1. mid = <<given, c>>
      <4>1. below = << >> /\ above = <<c>>
        BY <2>2 DEF c
      <4> HIDE DEF below, above
      <4>2. << >> \o <<given>> \o <<c>> = <<given, c>>
        BY <1>3, <1>4, <1>5, <2>2, ShortLists, Zenon
      <4> QED
        BY <4>1, <4>2
    <3>2. c \in MemDesc /\ c.Start = at + pages /\ End(c) = End(d)
      BY <1>5, <2>2 DEF c
    <3> HIDE DEF mid
    <3> QED
      BY <1>1, <1>3, <2>2, <3>1, <3>2 DEF MapRight
  <2>3. CASE at # d.Start /\ at + pages = End(d)
    <3>1. mid = <<b, given>>
      <4>1. below = <<b>> /\ above = << >>
        BY <2>3 DEF b
      <4> HIDE DEF below, above
      <4>2. <<b>> \o <<given>> \o << >> = <<b, given>>
        BY <1>3, <1>4, <1>5, <2>3, ShortLists, Zenon
      <4> QED
        BY <4>1, <4>2
    <3>2. b \in MemDesc /\ b.Start = d.Start /\ End(b) = at
      BY <1>4, <2>3 DEF b
    <3> HIDE DEF mid
    <3> QED
      BY <1>1, <1>3, <2>3, <3>1, <3>2 DEF MapRight
  <2>4. CASE at # d.Start /\ at + pages # End(d)
    <3>1. mid = <<b, given, c>>
      <4>1. below = <<b>> /\ above = <<c>>
        BY <2>4 DEF b, c
      <4> HIDE DEF below, above
      <4>2. <<b>> \o <<given>> \o <<c>> = <<b, given, c>>
        BY <1>3, <1>4, <1>5, <2>4, ShortLists, Zenon
      <4> QED
        BY <4>1, <4>2
    <3>2. b \in MemDesc /\ b.Start = d.Start /\ End(b) = at
      BY <1>4, <2>4 DEF b
    <3>3. c \in MemDesc /\ c.Start = at + pages /\ End(c) = End(d)
      BY <1>5, <2>4 DEF c
    <3> HIDE DEF mid
    <3> QED
      BY <1>1, <1>3, <2>4, <3>1, <3>2, <3>3 DEF MapRight
  <2> QED
    BY <2>1, <2>2, <2>3, <2>4
<1>8. \A i \in DOMAIN mid : map[j].Start <= mid[i].Start /\ End(mid[i]) <= End(map[j])
  BY <1>7 DEF d
<1> HIDE DEF mid
<1>9. MapRight(InPieces(map, j, mid))
  BY <1>7, <1>8, InPiecesRight
<1> QED
  BY <1>6, <1>9

LEMMA AddsRight ==
  ASSUME MapRight(memMap), FirmwareAdds PROVE MapRight(memMap')
<1>1. PICK d \in Descriptors, pages \in MemSizes, hole \in {0, 1} :
        memMap' = Append(memMap, Desc(d, (IF memMap = << >> THEN 0 ELSE End(memMap[Len(memMap)])) + hole, pages))
  BY DEF FirmwareAdds
<1> DEFINE end == IF memMap = << >> THEN 0 ELSE End(memMap[Len(memMap)])
           n == Len(memMap)
           new == Desc(d, end + hole, pages)
<1>2. /\ n \in Nat /\ DOMAIN memMap = 1 .. n /\ memMap \in Seq(MemDesc)
      /\ \A k \in DOMAIN memMap : memMap[k] \in MemDesc
  BY MapFacts DEF MapRight
<1>3. end \in Nat /\ \A i \in DOMAIN memMap : End(memMap[i]) <= end /\ End(memMap[i]) \in Nat
  <2>1. \A i \in DOMAIN memMap : End(memMap[i]) \in Nat /\ memMap[i].Start \in Nat
                                 /\ memMap[i].Start < End(memMap[i])
    BY <1>2, DescFacts
  <2>2. CASE memMap = << >>
    BY <1>2, <2>2
  <2>3. CASE memMap # << >>
    <3>1. n \in DOMAIN memMap /\ end = End(memMap[n])
      BY <1>2, <2>3
    <3>2. ASSUME NEW i \in DOMAIN memMap PROVE End(memMap[i]) <= end
      <4>1. CASE i = n
        BY <2>1, <3>1, <4>1
      <4>2. CASE i # n
        <5>1. i < n
          BY <1>2, <4>2
        <5>2. End(memMap[i]) <= memMap[n].Start
          BY <3>1, <5>1 DEF MapRight
        <5> HIDE DEF n, end
        <5> QED
          BY <2>1, <3>1, <5>2
      <4> QED
        BY <4>1, <4>2
    <3> QED
      BY <2>1, <3>1, <3>2
  <2> QED
    BY <2>2, <2>3
<1> HIDE DEF end, n
<1>4. end + hole \in Nat /\ end <= end + hole /\ pages \in Nat \ {0}
  BY <1>3, MapsAssumption
<1>5. new \in MemDesc /\ new.Start = end + hole
  BY <1>4 DEF new, Desc, Descriptors, MemDesc, MemType
<1> HIDE DEF new
<1>6. memMap' = Append(memMap, new)
  BY <1>1 DEF new, end, n
<1>7. /\ memMap' \in Seq(MemDesc) /\ DOMAIN memMap' = 1 .. n + 1
      /\ \A i \in 1 .. n : memMap'[i] = memMap[i] /\ memMap'[n + 1] = new
  BY <1>2, <1>5, <1>6, AppendFacts DEF n
<1>8. ASSUME NEW i \in 1 .. n + 1, NEW j \in 1 .. n + 1, i < j
      PROVE  End(memMap'[i]) <= memMap'[j].Start
  <2>1. i \in 1 .. n /\ memMap'[i] = memMap[i]
    BY <1>2, <1>7, <1>8
  <2>2. CASE j = n + 1
    <3>1. memMap'[j] = new /\ End(memMap[i]) <= end /\ End(memMap[i]) \in Nat
      BY <1>2, <1>3, <1>7, <2>1, <2>2
    <3> QED
      BY <1>3, <1>4, <1>5, <2>1, <3>1
  <2>3. CASE j # n + 1
    <3>1. j \in 1 .. n /\ memMap'[j] = memMap[j]
      BY <1>2, <1>7, <2>3
    <3> QED
      BY <1>2, <1>8, <2>1, <3>1 DEF MapRight
  <2> QED
    BY <2>2, <2>3
<1> QED
  BY <1>7, <1>8 DEF MapRight

----------------------------------------------------------------------------
(* Memory maps: joining entries. *)

\* The pages of the runtime in the first entries of a map.
RuntimeIn(map, m) == Total([k \in DOMAIN map |-> RuntimePages(map[k])], m)

LEMMA RuntimeFacts ==
  ASSUME NEW map \in Seq(MemDesc)
  PROVE  /\ RuntimeIn(map, 0) = 0
         /\ \A m \in 1 .. Len(map) : RuntimeIn(map, m) = RuntimeIn(map, m - 1) + RuntimePages(map[m])
         /\ \A m \in 0 .. Len(map) : RuntimeIn(map, m) \in Int
         /\ CountRuntimePages(map) = RuntimeIn(map, Len(map))
<1> DEFINE list == [k \in DOMAIN map |-> RuntimePages(map[k])]
<1>1. DOMAIN map = 1 .. Len(map) /\ Len(map) \in Nat /\ \A k \in DOMAIN map : map[k] \in MemDesc
  OBVIOUS
<1>2. \A k \in DOMAIN map : RuntimePages(map[k]) \in Int
  BY <1>1, DescFacts DEF RuntimePages
<1>3. list \in Seq(Int) /\ Len(list) = Len(map) /\ \A k \in 1 .. Len(map) : list[k] = RuntimePages(map[k])
  BY <1>1, <1>2, FunctionIsSeq
<1> HIDE DEF list
<1>4. \A m : RuntimeIn(map, m) = Total(list, m)
  BY DEF RuntimeIn, list
<1>5. CountRuntimePages(map) = Total(list, Len(map))
  BY DEF CountRuntimePages, list
<1> QED
  BY <1>3, <1>4, <1>5, TotalFacts

LEMMA RuntimeAgrees ==
  ASSUME NEW a \in Seq(MemDesc), NEW b \in Seq(MemDesc), NEW m \in Nat, m <= Len(a), m <= Len(b),
         \A i \in 1 .. m : a[i] = b[i]
  PROVE  RuntimeIn(a, m) = RuntimeIn(b, m)
<1> DEFINE la == [k \in DOMAIN a |-> RuntimePages(a[k])]
           lb == [k \in DOMAIN b |-> RuntimePages(b[k])]
<1>1. /\ DOMAIN a = 1 .. Len(a) /\ Len(a) \in Nat /\ \A k \in DOMAIN a : a[k] \in MemDesc
      /\ DOMAIN b = 1 .. Len(b) /\ Len(b) \in Nat /\ \A k \in DOMAIN b : b[k] \in MemDesc
  OBVIOUS
<1>2. /\ \A k \in DOMAIN a : RuntimePages(a[k]) \in Int
      /\ \A k \in DOMAIN b : RuntimePages(b[k]) \in Int
  BY <1>1, DescFacts DEF RuntimePages
<1>3. /\ la \in Seq(Int) /\ Len(la) = Len(a) /\ \A k \in 1 .. Len(a) : la[k] = RuntimePages(a[k])
      /\ lb \in Seq(Int) /\ Len(lb) = Len(b) /\ \A k \in 1 .. Len(b) : lb[k] = RuntimePages(b[k])
  BY <1>1, <1>2, FunctionIsSeq
<1> HIDE DEF la, lb
<1>4. \A i \in 1 .. m : la[i] = lb[i]
  BY <1>1, <1>3
<1>5. Total(la, m) = Total(lb, m)
  BY <1>3, <1>4, TotalsAgree
<1> QED
  BY <1>5 DEF RuntimeIn, la, lb

\* What may become of an entry when a map is joined.
Like(new, old) ==
  /\ new.Attribute = old.Attribute
  /\ new.Type = old.Type \/ (new.Type = "Conventional" /\ old.Type \in Boot)

\* The first p entries of a list are those of the first k of a map, joined.
Kept(map, k, new, p) ==
  /\ \A i, j \in 1 .. p : i < j => End(new[i]) <= new[j].Start
  /\ End(new[p]) = End(map[k])
  /\ \A i \in 1 .. p : \A page \in PagesOf(new[i]) :
       \E j \in 1 .. k : page \in PagesOf(map[j]) /\ Like(new[i], map[j])
  /\ \A j \in 1 .. k : \A page \in PagesOf(map[j]) : \E i \in 1 .. p : page \in PagesOf(new[i])
  /\ \A i \in 1 .. p - 1 : ~CanBeJoined(new[i], new[i + 1])
  /\ RuntimeIn(new, p) = RuntimeIn(map, k)

\* The next entry is kept.
LEMMA KeptNext ==
  ASSUME NEW map, MapRight(map), NEW k \in Nat, k >= 1, k < Len(map),
         NEW old \in Seq(MemDesc), NEW new \in Seq(MemDesc),
         NEW p \in Nat, p >= 1, p < Len(new), p <= Len(old),
         \A i \in 1 .. p : new[i] = old[i], new[p + 1] = map[k + 1],
         Kept(map, k, old, p), ~CanBeJoined(old[p], map[k + 1])
  PROVE  Kept(map, k + 1, new, p + 1)
<1>1. /\ Len(map) \in Nat /\ DOMAIN map = 1 .. Len(map) /\ map \in Seq(MemDesc)
      /\ k \in 1 .. Len(map) /\ k + 1 \in 1 .. Len(map) /\ map[k] \in MemDesc /\ map[k + 1] \in MemDesc
  BY MapFacts DEF MapRight
<1>2. /\ Len(new) \in Nat /\ Len(old) \in Nat /\ p \in 1 .. p /\ p + 1 \in 1 .. Len(new)
      /\ \A i \in 1 .. p + 1 : new[i] \in MemDesc
  OBVIOUS
<1>3. ASSUME NEW i \in 1 .. p + 1, NEW j \in 1 .. p + 1, i < j PROVE End(new[i]) <= new[j].Start
  <2>1. i \in 1 .. p /\ new[i] = old[i]
    BY <1>3
  <2>2. CASE j # p + 1
    <3>1. j \in 1 .. p /\ new[j] = old[j]
      BY <2>2
    <3> QED
      BY <1>3, <2>1, <3>1 DEF Kept
  <2>3. CASE j = p + 1
    <3>1. End(map[k]) <= map[k + 1].Start
      BY <1>1 DEF MapRight
    <3>2. End(old[p]) = End(map[k])
      BY DEF Kept
    <3>3. End(old[i]) <= End(old[p])
      <4>1. CASE i = p
        <5>1. End(old[p]) \in Nat
          BY <1>1, <3>2, DescFacts
        <5> QED
          BY <4>1, <5>1
      <4>2. CASE i # p
        <5>1. End(old[i]) <= old[p].Start
          BY <1>2, <2>1, <4>2 DEF Kept
        <5>2. new[i] = old[i] /\ new[p] = old[p] /\ new[i] \in MemDesc /\ new[p] \in MemDesc
          BY <1>2, <2>1
        <5>3. End(old[i]) \in Nat /\ old[p].Start \in Nat /\ End(old[p]) \in Nat /\ old[p].Start < End(old[p])
          BY <5>2, DescFacts
        <5> QED
          BY <5>1, <5>3
      <4> QED
        BY <4>1, <4>2
    <3>4. End(old[i]) \in Nat /\ End(map[k]) \in Nat /\ map[k + 1].Start \in Nat
      <4>1. old[i] \in MemDesc
        BY <1>2, <2>1
      <4> QED
        BY <1>1, <4>1, DescFacts
    <3>5. new[j] = map[k + 1]
      BY <2>3
    <3> QED
      BY <2>1, <3>1, <3>2, <3>3, <3>4, <3>5
  <2> QED
    BY <2>2, <2>3
<1>4. End(new[p + 1]) = End(map[k + 1])
  OBVIOUS
<1>5. ASSUME NEW i \in 1 .. p + 1, NEW page \in PagesOf(new[i])
      PROVE  \E j \in 1 .. k + 1 : page \in PagesOf(map[j]) /\ Like(new[i], map[j])
  <2>1. CASE i = p + 1
    <3>1. new[i] = map[k + 1] /\ k + 1 \in 1 .. k + 1
      BY <2>1
    <3> QED
      BY <3>1 DEF Like
  <2>2. CASE i # p + 1
    <3>1. i \in 1 .. p /\ new[i] = old[i]
      BY <2>2
    <3>2. PICK j \in 1 .. k : page \in PagesOf(map[j]) /\ Like(old[i], map[j])
      BY <1>5, <3>1 DEF Kept
    <3> QED
      BY <3>1, <3>2
  <2> QED
    BY <2>1, <2>2
<1>6. ASSUME NEW j \in 1 .. k + 1, NEW page \in PagesOf(map[j])
      PROVE  \E i \in 1 .. p + 1 : page \in PagesOf(new[i])
  <2>1. CASE j = k + 1
    <3>1. p + 1 \in 1 .. p + 1 /\ new[p + 1] = map[j]
      BY <2>1
    <3> QED
      BY <1>6, <3>1
  <2>2. CASE j # k + 1
    <3>1. j \in 1 .. k
      BY <2>2
    <3>2. PICK i \in 1 .. p : page \in PagesOf(old[i])
      BY <1>6, <3>1 DEF Kept
    <3> QED
      BY <3>2
  <2> QED
    BY <2>1, <2>2
<1>7. ASSUME NEW i \in 1 .. (p + 1) - 1 PROVE ~CanBeJoined(new[i], new[i + 1])
  <2>1. CASE i = p
    BY <2>1
  <2>2. CASE i # p
    <3>1. i \in 1 .. p - 1 /\ i \in 1 .. p /\ i + 1 \in 1 .. p
      BY <2>2
    <3>2. new[i] = old[i] /\ new[i + 1] = old[i + 1]
      BY <3>1
    <3> QED
      BY <3>1, <3>2 DEF Kept
  <2> QED
    BY <2>1, <2>2
<1>8. RuntimeIn(new, p + 1) = RuntimeIn(map, k + 1)
  <2>1. RuntimeIn(new, p + 1) = RuntimeIn(new, (p + 1) - 1) + RuntimePages(new[p + 1])
    BY <1>2, RuntimeFacts
  <2>2. RuntimeIn(map, k + 1) = RuntimeIn(map, (k + 1) - 1) + RuntimePages(map[k + 1])
    BY <1>1, RuntimeFacts
  <2>3. (p + 1) - 1 = p /\ (k + 1) - 1 = k
    OBVIOUS
  <2>4. RuntimeIn(new, p) = RuntimeIn(old, p)
    <3>1. p <= Len(new) /\ p <= Len(old) /\ \A i \in 1 .. p : new[i] = old[i]
      BY <1>2
    <3> QED
      BY <3>1, RuntimeAgrees
  <2>5. RuntimeIn(old, p) = RuntimeIn(map, k)
    BY DEF Kept
  <2> QED
    BY <2>1, <2>2, <2>3, <2>4, <2>5
<1> QED
  BY <1>3, <1>4, <1>5, <1>6, <1>7, <1>8 DEF Kept

LEMMA JoinedFacts ==
  ASSUME NEW prev \in MemDesc, NEW desc \in MemDesc, CanBeJoined(prev, desc)
  PROVE  /\ Joined(prev, desc) \in MemDesc
         /\ Joined(prev, desc).Start = prev.Start /\ End(Joined(prev, desc)) = End(desc)
         /\ Joined(prev, desc).Attribute = prev.Attribute
         /\ Joined(prev, desc).Type = "Conventional"
         /\ \A page : page \in PagesOf(Joined(prev, desc)) <=>
                        page \in PagesOf(prev) \/ page \in PagesOf(desc)
         /\ RuntimePages(Joined(prev, desc)) = RuntimePages(prev) + RuntimePages(desc)
<1> DEFINE new == Joined(prev, desc)
<1>1. /\ new.Type = "Conventional" /\ new.Attribute = prev.Attribute /\ new.Start = prev.Start
      /\ new.Pages = prev.Pages + desc.Pages
      /\ new = [Type |-> new.Type, Attribute |-> new.Attribute, Start |-> new.Start, Pages |-> new.Pages]
  <2>1. DOMAIN prev = {"Type", "Attribute", "Start", "Pages"}
    BY DEF MemDesc
  <2>2. /\ DOMAIN new = DOMAIN prev
        /\ new = [f \in DOMAIN new |-> new[f]]
    BY DEF Joined
  <2>3. /\ new.Type = "Conventional" /\ new.Attribute = prev.Attribute /\ new.Start = prev.Start
        /\ new.Pages = prev.Pages + desc.Pages
    BY <2>1 DEF Joined
  <2> HIDE DEF new
  <2> QED
    BY <2>1, <2>2, <2>3
<1>2. /\ prev.Start \in Nat /\ prev.Pages \in Nat /\ prev.Pages > 0 /\ End(prev) = prev.Start + prev.Pages
      /\ desc.Start \in Nat /\ desc.Pages \in Nat /\ desc.Pages > 0 /\ End(desc) = desc.Start + desc.Pages
      /\ prev.Attribute \in {"wb", "uc", "runtime"} /\ prev.Start < End(prev) /\ desc.Start < End(desc)
      /\ End(prev) \in Nat /\ End(desc) \in Nat
  BY DescFacts
<1> HIDE DEF new
<1>3. new \in MemDesc
  <2>1. /\ new.Type \in MemType /\ new.Attribute \in {"wb", "uc", "runtime"} /\ new.Start \in Nat
        /\ new.Pages \in Nat \ {0}
    BY <1>1, <1>2 DEF MemType
  <2> QED
    BY <1>1, <2>1 DEF MemDesc
<1>4. End(prev) = desc.Start /\ desc.Attribute = prev.Attribute /\ desc.Type \in Boot /\ prev.Type \in Boot
  BY DEF CanBeJoined
<1>5. End(new) = End(desc)
  BY <1>1, <1>2, <1>4 DEF End
<1>6. ASSUME NEW page
      PROVE  page \in PagesOf(new) <=> page \in PagesOf(prev) \/ page \in PagesOf(desc)
  <2>1. /\ page \in PagesOf(new) <=> page \in Nat /\ new.Start <= page /\ page < End(new)
        /\ page \in PagesOf(prev) <=> page \in Nat /\ prev.Start <= page /\ page < End(prev)
        /\ page \in PagesOf(desc) <=> page \in Nat /\ desc.Start <= page /\ page < End(desc)
    BY <1>3, DescFacts
  <2> QED
    BY <1>1, <1>2, <1>4, <1>5, <2>1
<1>7. RuntimePages(new) = RuntimePages(prev) + RuntimePages(desc)
  <2>1. prev.Type # "Reserved" /\ desc.Type # "Reserved" /\ new.Type # "Reserved"
    BY <1>1, <1>4 DEF Boot
  <2> QED
    BY <1>1, <1>2, <1>4, <2>1 DEF RuntimePages
<1> QED
  BY <1>1, <1>3, <1>5, <1>6, <1>7 DEF new

\* The next entry is joined to the last one.
LEMMA KeptJoined ==
  ASSUME NEW map, MapRight(map), NEW k \in Nat, k >= 1, k < Len(map),
         NEW old \in Seq(MemDesc), NEW p \in Nat, p >= 1, p <= Len(old),
         Kept(map, k, old, p), CanBeJoined(old[p], map[k + 1])
  PROVE  /\ [old EXCEPT ![p] = Joined(old[p], map[k + 1])] \in Seq(MemDesc)
         /\ Kept(map, k + 1, [old EXCEPT ![p] = Joined(old[p], map[k + 1])], p)
<1> DEFINE last == Joined(old[p], map[k + 1])
           new == [old EXCEPT ![p] = last]
<1>1. /\ Len(map) \in Nat /\ DOMAIN map = 1 .. Len(map) /\ map \in Seq(MemDesc)
      /\ k + 1 \in 1 .. Len(map) /\ map[k + 1] \in MemDesc
  BY MapFacts DEF MapRight
<1>2. /\ Len(old) \in Nat /\ p \in 1 .. Len(old) /\ p \in 1 .. p
      /\ \A i \in 1 .. p : old[i] \in MemDesc
  OBVIOUS
<1>3. /\ last \in MemDesc
      /\ last.Start = old[p].Start /\ End(last) = End(map[k + 1])
      /\ last.Attribute = old[p].Attribute
      /\ last.Type = "Conventional"
      /\ \A page : page \in PagesOf(last) <=>
                     page \in PagesOf(old[p]) \/ page \in PagesOf(map[k + 1])
      /\ RuntimePages(last) = RuntimePages(old[p]) + RuntimePages(map[k + 1])
  BY <1>1, <1>2, JoinedFacts
<1> HIDE DEF last
<1>4. /\ new \in Seq(MemDesc) /\ Len(new) = Len(old) /\ new[p] = last
      /\ \A i \in 1 .. p : i # p => new[i] = old[i]
  BY <1>2, <1>3
<1> HIDE DEF new
<1>5. ASSUME NEW i \in 1 .. p, NEW j \in 1 .. p, i < j PROVE End(new[i]) <= new[j].Start
  <2>1. End(old[i]) <= old[j].Start
    BY <1>5 DEF Kept
  <2>2. new[i] = old[i]
    BY <1>4, <1>5
  <2>3. new[j].Start = old[j].Start
    BY <1>3, <1>4
  <2> QED
    BY <2>1, <2>2, <2>3
<1>6. End(new[p]) = End(map[k + 1])
  BY <1>3, <1>4
<1>7. ASSUME NEW i \in 1 .. p, NEW page \in PagesOf(new[i])
      PROVE  \E j \in 1 .. k + 1 : page \in PagesOf(map[j]) /\ Like(new[i], map[j])
  <2>1. CASE i # p
    <3>1. new[i] = old[i]
      BY <1>4, <2>1
    <3>2. PICK j \in 1 .. k : page \in PagesOf(map[j]) /\ Like(old[i], map[j])
      BY <1>7, <3>1 DEF Kept
    <3> QED
      BY <3>1, <3>2
  <2>2. CASE i = p /\ page \in PagesOf(map[k + 1])
    <3>1. Like(last, map[k + 1])
      BY <1>3 DEF Like, CanBeJoined
    <3>2. k + 1 \in 1 .. k + 1
      OBVIOUS
    <3> QED
      BY <1>4, <2>2, <3>1, <3>2
  <2>3. CASE i = p /\ page \in PagesOf(old[p])
    <3>1. PICK j \in 1 .. k : page \in PagesOf(map[j]) /\ Like(old[p], map[j])
      BY <1>2, <2>3 DEF Kept
    <3>2. old[p].Type \in Boot
      BY DEF CanBeJoined
    <3>3. Like(last, map[j])
      BY <1>3, <3>1, <3>2 DEF Like
    <3>4. j \in 1 .. k + 1
      OBVIOUS
    <3> QED
      BY <1>4, <2>3, <3>1, <3>3, <3>4
  <2> QED
    BY <1>3, <1>4, <1>7, <2>1, <2>2, <2>3
<1>8. ASSUME NEW j \in 1 .. k + 1, NEW page \in PagesOf(map[j])
      PROVE  \E i \in 1 .. p : page \in PagesOf(new[i])
  <2>1. CASE j = k + 1
    BY <1>2, <1>3, <1>4, <1>8, <2>1
  <2>2. CASE j # k + 1
    <3>1. j \in 1 .. k
      BY <2>2
    <3>2. PICK i \in 1 .. p : page \in PagesOf(old[i])
      BY <1>8, <3>1 DEF Kept
    <3>3. page \in PagesOf(new[i])
      BY <1>3, <1>4, <3>2
    <3> QED
      BY <3>3
  <2> QED
    BY <2>1, <2>2
<1>9. ASSUME NEW i \in 1 .. p - 1 PROVE ~CanBeJoined(new[i], new[i + 1])
  <2>1. i \in 1 .. p /\ i # p /\ i + 1 \in 1 .. p
    OBVIOUS
  <2>2. ~CanBeJoined(old[i], old[i + 1])
    BY DEF Kept
  <2>3. new[i] = old[i]
    BY <1>4, <2>1
  <2>4. CASE i + 1 # p
    <3>1. new[i + 1] = old[i + 1]
      BY <1>4, <2>1, <2>4
    <3> QED
      BY <2>2, <2>3, <3>1
  <2>5. CASE i + 1 = p
    <3>1. new[i + 1] = last
      BY <1>4, <2>5
    <3>2. old[i + 1].Type \in Boot
      BY <2>5 DEF CanBeJoined
    <3>3. old[i + 1].Start = last.Start /\ old[i + 1].Attribute = last.Attribute
      BY <1>3, <2>5
    <3> QED
      BY <2>2, <2>3, <3>1, <3>2, <3>3 DEF CanBeJoined
  <2> QED
    BY <2>4, <2>5
<1>10. RuntimeIn(new, p) = RuntimeIn(map, k + 1)
  <2>1. /\ RuntimeIn(new, p) = RuntimeIn(new, p - 1) + RuntimePages(new[p])
        /\ RuntimeIn(old, p) = RuntimeIn(old, p - 1) + RuntimePages(old[p])
    BY <1>2, <1>4, RuntimeFacts
  <2>2. RuntimeIn(map, k + 1) = RuntimeIn(map, (k + 1) - 1) + RuntimePages(map[k + 1]) /\ (k + 1) - 1 = k
    BY <1>1, RuntimeFacts
  <2>3. RuntimeIn(new, p - 1) = RuntimeIn(old, p - 1)
    <3>1. p - 1 \in Nat /\ p - 1 <= Len(old) /\ \A i \in 1 .. p - 1 : i \in 1 .. p /\ i # p
      BY <1>2
    <3> QED
      BY <1>4, <3>1, RuntimeAgrees
  <2>4. RuntimeIn(old, p) = RuntimeIn(map, k)
    BY DEF Kept
  <2>5. RuntimePages(new[p]) = RuntimePages(old[p]) + RuntimePages(map[k + 1])
    BY <1>3, <1>4
  <2>6. /\ RuntimeIn(old, p - 1) \in Int
        /\ RuntimePages(old[p]) \in Int /\ RuntimePages(map[k + 1]) \in Int
    <3>1. p - 1 \in 0 .. Len(old)
      BY <1>2
    <3>2. RuntimeIn(old, p - 1) \in Int
      BY <3>1, RuntimeFacts
    <3>3. old[p] \in MemDesc /\ map[k + 1] \in MemDesc
      BY <1>1, <1>2
    <3>4. old[p].Pages \in Int /\ map[k + 1].Pages \in Int
      BY <3>3 DEF MemDesc
    <3>5. RuntimePages(old[p]) \in Int /\ RuntimePages(map[k + 1]) \in Int
      BY <3>4 DEF RuntimePages
    <3> QED
      BY <3>2, <3>5
  <2> QED
    BY <2>1, <2>2, <2>3, <2>4, <2>5, <2>6
<1>11. Kept(map, k + 1, new, p)
  BY <1>5, <1>6, <1>7, <1>8, <1>9, <1>10 DEF Kept
<1> QED
  BY <1>4, <1>11 DEF new, last

\* One step of the joining.
ShrunkStep(map, after, n) ==
  IF n = 0 THEN [map |-> map, prev |-> 1, desc |-> 2, remove |-> FALSE]
  ELSE ShrinkStep(after[n - 1])

LEMMA ShrunkIsDefined ==
  ASSUME NEW map, NEW m \in Nat
  PROVE  \E after : after = [n \in 0 .. m |-> ShrunkStep(map, after, n)]
<1> DEFINE Defined(k) == \E after : after = [n \in 0 .. k |-> ShrunkStep(map, after, n)]
           S == {k \in 0 .. m : Defined(k)}
           start == [map |-> map, prev |-> 1, desc |-> 2, remove |-> FALSE]
<1>1. 0 \in S
  <2>1. \A f : ShrunkStep(map, f, 0) = start
    BY DEF ShrunkStep
  <2> HIDE DEF start
  <2>2. [n \in 0 .. 0 |-> start] = [n \in 0 .. 0 |-> ShrunkStep(map, [k \in 0 .. 0 |-> start], n)]
    BY <2>1
  <2> QED
    BY <2>2
<1> HIDE DEF start
<1>2. ASSUME NEW k \in 0 .. (m - 1), k \in S PROVE k + 1 \in S
  <2>1. PICK after : after = [n \in 0 .. k |-> ShrunkStep(map, after, n)]
    BY <1>2
  <2> DEFINE more == [n \in 0 .. (k + 1) |->
                        IF n = k + 1 THEN ShrunkStep(map, after, n) ELSE after[n]]
  <2>2. ASSUME NEW n \in 0 .. (k + 1) PROVE more[n] = ShrunkStep(map, more, n)
    <3>1. ShrunkStep(map, more, n) = ShrunkStep(map, after, n)
      BY DEF ShrunkStep
    <3>2. n # k + 1 => after[n] = ShrunkStep(map, after, n)
      <4>1. n # k + 1 => n \in 0 .. k
        OBVIOUS
      <4> QED
        BY <2>1, <4>1
    <3> QED
      BY <3>1, <3>2
  <2>3. more = [n \in 0 .. (k + 1) |-> ShrunkStep(map, more, n)]
    BY <2>2
  <2> HIDE DEF more
  <2>4. Defined(k + 1) /\ k + 1 \in 0 .. m
    BY <2>3
  <2> QED
    BY <2>4
<1>3. 0 .. m \subseteq S
  <2> HIDE DEF S
  <2> QED
    BY <1>1, <1>2, StepsReach
<1> QED
  BY <1>3

\* When the first k entries have been looked at.
ShrinkRight(map, k, s) ==
  /\ s \in [map : Seq(MemDesc), prev : Nat, desc : Nat, remove : BOOLEAN]
  /\ Len(s.map) = Len(map) /\ k \in 1 .. Len(map)
  /\ 1 <= s.prev /\ s.prev <= k /\ s.prev < s.desc /\ s.desc <= k + 1
  /\ s.remove \/ s.desc = s.prev + 1
  /\ \A j \in 0 .. Len(map) - k - 1 : s.map[s.desc + j] = map[k + 1 + j]
  /\ Kept(map, k, s.map, s.prev)

LEMMA ShrinkKeeps ==
  ASSUME NEW map, MapRight(map), NEW k \in Nat, k < Len(map), NEW s, ShrinkRight(map, k, s)
  PROVE  ShrinkRight(map, k + 1, ShrinkStep(s))
<1> DEFINE n == Len(map)
           prev == s.map[s.prev]
           desc == s.map[s.desc]
           next == s.prev + 1
           moved == [i \in DOMAIN s.map |->
                       IF i >= next /\ i - next <= Len(s.map) - s.desc THEN s.map[i - next + s.desc]
                       ELSE s.map[i]]
           joined == [s.map EXCEPT ![s.prev] = Joined(prev, desc)]
<1>1. /\ n \in Nat /\ k >= 1 /\ k < n /\ k + 1 \in 1 .. n
      /\ s.map \in Seq(MemDesc) /\ Len(s.map) = n /\ s.prev \in Nat /\ s.desc \in Nat
      /\ s.remove \in BOOLEAN
      /\ 1 <= s.prev /\ s.prev <= k /\ s.prev < s.desc /\ s.desc <= k + 1
  BY MapFacts DEF ShrinkRight
<1>2. \A j \in 0 .. n - k - 1 : s.map[s.desc + j] = map[k + 1 + j]
  BY DEF ShrinkRight
<1>3. desc = map[k + 1]
  <2>1. 0 \in 0 .. n - k - 1 /\ s.desc + 0 = s.desc /\ k + 1 + 0 = k + 1
    BY <1>1
  <2> QED
    BY <1>2, <2>1
<1>4. Kept(map, k, s.map, s.prev)
  BY DEF ShrinkRight
<1>5. DOMAIN s.map = 1 .. n /\ \A i \in 1 .. n : s.map[i] \in MemDesc
  BY <1>1
<1>6. ASSUME CanBeJoined(prev, desc) PROVE ShrinkRight(map, k + 1, ShrinkStep(s))
  <2>1. joined \in Seq(MemDesc) /\ Kept(map, k + 1, joined, s.prev)
    BY <1>1, <1>3, <1>4, <1>6, KeptJoined
  <2>2. Len(joined) = n /\ \A i \in 1 .. n : i # s.prev => joined[i] = s.map[i]
    BY <1>1, <1>5
  <2>3. ShrinkStep(s) = [map |-> joined, prev |-> s.prev, desc |-> s.desc + 1, remove |-> TRUE]
    BY <1>6 DEF ShrinkStep
  <2> HIDE DEF joined
  <2>4. ASSUME NEW j \in 0 .. n - (k + 1) - 1 PROVE joined[(s.desc + 1) + j] = map[(k + 1) + 1 + j]
    <3>1. /\ j + 1 \in 0 .. n - k - 1 /\ s.desc + (j + 1) = (s.desc + 1) + j
          /\ k + 1 + (j + 1) = (k + 1) + 1 + j
          /\ (s.desc + 1) + j \in 1 .. n /\ (s.desc + 1) + j # s.prev
      BY <1>1
    <3>2. s.map[s.desc + (j + 1)] = map[k + 1 + (j + 1)]
      BY <1>2, <3>1
    <3> QED
      BY <2>2, <3>1, <3>2
  <2> DEFINE t == ShrinkStep(s)
  <2>5. t.map = joined /\ t.prev = s.prev /\ t.desc = s.desc + 1 /\ t.remove = TRUE
        /\ t = [map |-> t.map, prev |-> t.prev, desc |-> t.desc, remove |-> t.remove]
    BY <2>3
  <2> HIDE DEF t
  <2>6. t \in [map : Seq(MemDesc), prev : Nat, desc : Nat, remove : BOOLEAN]
    <3>1. t.map \in Seq(MemDesc) /\ t.prev \in Nat /\ t.desc \in Nat
      BY <1>1, <2>1, <2>5
    <3>2. t.remove \in BOOLEAN
      BY <2>5, Zenon
    <3> QED
      BY <2>5, <3>1, <3>2
  <2>7. \A j \in 0 .. n - (k + 1) - 1 : t.map[t.desc + j] = map[(k + 1) + 1 + j]
    BY <2>4, <2>5
  <2>8. Kept(map, k + 1, t.map, t.prev) /\ Len(t.map) = n
    BY <2>1, <2>2, <2>5
  <2>9. 1 <= t.prev /\ t.prev <= k + 1 /\ t.prev < t.desc /\ t.desc <= (k + 1) + 1
    BY <1>1, <2>5
  <2> QED
    BY <1>1, <2>5, <2>6, <2>7, <2>8, <2>9 DEF ShrinkRight, t
<1>7. ASSUME ~CanBeJoined(prev, desc) PROVE ShrinkRight(map, k + 1, ShrinkStep(s))
  <2> DEFINE t == ShrinkStep(s)
  <2>1. /\ moved \in Seq(MemDesc) /\ Len(moved) = n
        /\ \A i \in 1 .. n : moved[i] = IF i >= next /\ i - next <= n - s.desc
                                        THEN s.map[i - next + s.desc] ELSE s.map[i]
    <3>1. ASSUME NEW i \in 1 .. n
          PROVE  (IF i >= next /\ i - next <= n - s.desc THEN s.map[i - next + s.desc]
                  ELSE s.map[i]) \in MemDesc
      <4>1. CASE i >= next /\ i - next <= n - s.desc
        <5>1. i - next + s.desc \in 1 .. n
          BY <1>1, <4>1
        <5> QED
          BY <1>5, <4>1, <5>1
      <4>2. CASE ~(i >= next /\ i - next <= n - s.desc)
        BY <1>5, <4>2
      <4> QED
        BY <4>1, <4>2
    <3>2. moved = [i \in 1 .. n |-> IF i >= next /\ i - next <= n - s.desc
                                    THEN s.map[i - next + s.desc] ELSE s.map[i]]
      BY <1>1, <1>5
    <3> HIDE DEF moved
    <3>3. moved \in [1 .. n -> MemDesc]
      BY <3>1, <3>2
    <3>4. moved \in Seq(MemDesc) /\ Len(moved) = n
      <4> HIDE DEF n
      <4> QED
        BY <1>1, <3>3, FunctionIsSeq
    <3> QED
      BY <3>2, <3>4
  <2>2. /\ t.map = IF s.remove THEN moved ELSE s.map
        /\ t.prev = next /\ t.desc = next + 1 /\ t.remove = FALSE
        /\ t = [map |-> t.map, prev |-> t.prev, desc |-> t.desc, remove |-> t.remove]
    <3>1. CASE s.remove
      <4>1. t = [map |-> moved, prev |-> next, desc |-> next + 1, remove |-> FALSE]
        BY <1>7, <3>1 DEF ShrinkStep
      <4> HIDE DEF t
      <4> QED
        BY <3>1, <4>1
    <3>2. CASE ~s.remove
      <4>1. t = [s EXCEPT !.prev = next, !.desc = @ + 1]
        BY <1>7, <3>2 DEF ShrinkStep
      <4>2. s.desc = s.prev + 1
        BY <3>2 DEF ShrinkRight
      <4>3. s = [map |-> s.map, prev |-> s.prev, desc |-> s.desc, remove |-> s.remove]
        BY DEF ShrinkRight
      <4> HIDE DEF t
      <4>4. t = [map |-> s.map, prev |-> next, desc |-> s.desc + 1, remove |-> s.remove]
        BY <4>1, <4>3
      <4> QED
        BY <3>2, <4>2, <4>4
    <3> QED
      BY <3>1, <3>2
  <2> HIDE DEF t, moved
  <2>3. /\ t.map \in Seq(MemDesc) /\ Len(t.map) = n
        /\ \A i \in 1 .. s.prev : t.map[i] = s.map[i]
        /\ \A j \in 0 .. n - k - 1 : t.map[next + j] = map[k + 1 + j]
    <3>1. CASE s.remove
      <4>1. t.map = moved
        BY <2>2, <3>1
      <4>2. \A i \in 1 .. s.prev : i \in 1 .. n /\ ~(i >= next)
        BY <1>1
      <4>3. ASSUME NEW j \in 0 .. n - k - 1 PROVE moved[next + j] = map[k + 1 + j]
        <5> HIDE DEF n
        <5>1. /\ next \in Nat /\ next >= 1 /\ next <= k + 1 /\ s.desc <= k + 1
              /\ s.desc \in Nat /\ n \in Nat /\ j \in Nat /\ j <= n - k - 1
          BY <1>1
        <5>2. next + j \in 1 .. n /\ next + j >= next
          BY <5>1
        <5>3. (next + j) - next <= n - s.desc
          BY <5>1
        <5>4. ((next + j) - next) + s.desc = s.desc + j
          BY <5>1
        <5> HIDE DEF next
        <5>5. moved[next + j] = s.map[s.desc + j]
          BY <2>1, <5>2, <5>3, <5>4
        <5> QED
          BY <1>2, <5>5
      <4> QED
        BY <2>1, <4>1, <4>2, <4>3
    <3>2. CASE ~s.remove
      <4>1. t.map = s.map /\ s.desc = next
        BY <2>2, <3>2 DEF ShrinkRight
      <4> QED
        BY <1>1, <1>2, <4>1
    <3> QED
      BY <3>1, <3>2
  <2>4. Kept(map, k + 1, t.map, t.prev)
    <3>1. t.map[s.prev + 1] = map[k + 1]
      <4>1. 0 \in 0 .. n - k - 1 /\ next + 0 = s.prev + 1 /\ k + 1 + 0 = k + 1
        BY <1>1
      <4> QED
        BY <2>3, <4>1
    <3>2. ~CanBeJoined(s.map[s.prev], map[k + 1])
      BY <1>3, <1>7
    <3>3. s.prev >= 1 /\ s.prev < Len(t.map) /\ s.prev <= Len(s.map)
      BY <1>1, <2>3
    <3> HIDE DEF prev, desc, n
    <3>4. Kept(map, k + 1, t.map, s.prev + 1)
      BY <1>1, <1>4, <2>3, <3>1, <3>2, <3>3, KeptNext DEF n
    <3> QED
      BY <2>2, <3>4
  <2>5. \A j \in 0 .. n - (k + 1) - 1 : t.map[t.desc + j] = map[(k + 1) + 1 + j]
    <3>1. ASSUME NEW j \in 0 .. n - (k + 1) - 1 PROVE t.map[t.desc + j] = map[(k + 1) + 1 + j]
      <4>1. /\ j + 1 \in 0 .. n - k - 1 /\ next + (j + 1) = (next + 1) + j
            /\ k + 1 + (j + 1) = (k + 1) + 1 + j
        BY <1>1
      <4>2. t.map[next + (j + 1)] = map[k + 1 + (j + 1)]
        BY <2>3, <4>1
      <4> QED
        BY <2>2, <4>1, <4>2
    <3> QED
      BY <3>1
  <2>6. t \in [map : Seq(MemDesc), prev : Nat, desc : Nat, remove : BOOLEAN]
    <3>1. t.map \in Seq(MemDesc) /\ t.prev \in Nat /\ t.desc \in Nat
      BY <1>1, <2>2, <2>3
    <3>2. t.remove \in BOOLEAN
      BY <2>2, Zenon
    <3> QED
      BY <2>2, <3>1, <3>2
  <2>7. /\ 1 <= t.prev /\ t.prev <= k + 1 /\ t.prev < t.desc /\ t.desc <= (k + 1) + 1
        /\ t.desc = t.prev + 1
    BY <1>1, <2>2
  <2> QED
    BY <1>1, <2>3, <2>4, <2>5, <2>6, <2>7 DEF ShrinkRight, t
<1> QED
  BY <1>6, <1>7

LEMMA ShrinkBegins ==
  ASSUME NEW map, MapRight(map), map # << >>
  PROVE  ShrinkRight(map, 1, [map |-> map, prev |-> 1, desc |-> 2, remove |-> FALSE])
<1> DEFINE s == [map |-> map, prev |-> 1, desc |-> 2, remove |-> FALSE]
<1>1. /\ map \in Seq(MemDesc) /\ Len(map) \in Nat /\ Len(map) >= 1 /\ DOMAIN map = 1 .. Len(map)
      /\ map[1] \in MemDesc
  <2>1. map \in Seq(MemDesc)
    BY DEF MapRight
  <2>2. Len(map) \in Nat /\ Len(map) # 0 /\ DOMAIN map = 1 .. Len(map)
    BY <2>1, EmptySeq
  <2> QED
    BY <2>1, <2>2
<1>2. s \in [map : Seq(MemDesc), prev : Nat, desc : Nat, remove : BOOLEAN]
  BY <1>1
<1>3. s.map = map /\ s.prev = 1 /\ s.desc = 2 /\ s.remove = FALSE
  OBVIOUS
<1> HIDE DEF s
<1>4. Kept(map, 1, map, 1)
  BY DEF Kept, Like
<1>5. \A j \in 0 .. Len(map) - 1 - 1 : s.map[s.desc + j] = map[1 + 1 + j]
  BY <1>3
<1> QED
  BY <1>1, <1>2, <1>3, <1>4, <1>5 DEF ShrinkRight, s

\* What ShrinkMemoryMap makes of a map.
LEMMA ShrunkRight ==
  ASSUME NEW map, MapRight(map), map # << >>
  PROVE  /\ MapRight(Shrunk(map)) /\ Shrunk(map) # << >>
         /\ Kept(map, Len(map), Shrunk(map), Len(Shrunk(map)))
<1> DEFINE n == Len(map)
           after == CHOOSE f : f = [k \in 0 .. n - 1 |-> ShrunkStep(map, f, k)]
           last == after[n - 1]
<1>1. /\ map \in Seq(MemDesc) /\ n \in Nat /\ n >= 1 /\ DOMAIN map = 1 .. n
  <2>1. map \in Seq(MemDesc)
    BY DEF MapRight
  <2>2. Len(map) \in Nat /\ Len(map) # 0 /\ DOMAIN map = 1 .. Len(map)
    BY <2>1, EmptySeq
  <2> QED
    BY <2>1, <2>2
<1>2. Shrunk(map) = SubSeq(last.map, 1, last.prev)
  BY DEF Shrunk, ShrunkStep
<1>3. after = [k \in 0 .. n - 1 |-> ShrunkStep(map, after, k)]
  <2>1. n - 1 \in Nat
    BY <1>1
  <2> HIDE DEF n
  <2> QED
    BY <2>1, ShrunkIsDefined
<1> HIDE DEF after
<1>4. \A k \in 0 .. n - 1 : after[k] = ShrunkStep(map, after, k)
  BY <1>3
<1> DEFINE S == {k \in 0 .. n - 1 : ShrinkRight(map, k + 1, after[k])}
<1>5. 0 \in S
  <2>1. 0 \in 0 .. n - 1 /\ 0 + 1 = 1
    BY <1>1
  <2>2. after[0] = [map |-> map, prev |-> 1, desc |-> 2, remove |-> FALSE]
    BY <1>4, <2>1 DEF ShrunkStep
  <2>3. ShrinkRight(map, 0 + 1, after[0])
    BY <2>1, <2>2, ShrinkBegins
  <2> QED
    BY <2>1, <2>3
<1>6. ASSUME NEW k \in 0 .. ((n - 1) - 1), k \in S PROVE k + 1 \in S
  <2>1. /\ k + 1 \in 0 .. n - 1 /\ k + 1 # 0 /\ (k + 1) - 1 = k /\ k + 1 < Len(map)
        /\ k + 1 \in Nat
    BY <1>1
  <2>2. after[k + 1] = ShrinkStep(after[k])
    BY <1>4, <2>1 DEF ShrunkStep
  <2>3. ShrinkRight(map, k + 1, after[k])
    BY <1>6
  <2>4. ShrinkRight(map, (k + 1) + 1, ShrinkStep(after[k]))
    <3> HIDE DEF n
    <3> QED
      BY <2>1, <2>3, ShrinkKeeps
  <2> QED
    BY <2>1, <2>2, <2>4
<1>7. ShrinkRight(map, n, last)
  <2>1. n - 1 \in Nat /\ n - 1 \in 0 .. n - 1 /\ (n - 1) + 1 = n
    BY <1>1
  <2>2. 0 .. n - 1 \subseteq S
    <3> HIDE DEF S
    <3> QED
      BY <1>5, <1>6, <2>1, StepsReach
  <2>3. ShrinkRight(map, (n - 1) + 1, after[n - 1])
    BY <2>1, <2>2
  <2> QED
    BY <2>1, <2>3
<1> HIDE DEF last
<1> DEFINE list == last.map
           p == last.prev
           new == SubSeq(list, 1, p)
<1>8. list \in Seq(MemDesc) /\ Len(list) = n /\ p \in 1 .. n
  BY <1>1, <1>7 DEF ShrinkRight
<1>9. Kept(map, n, list, p)
  BY <1>7 DEF ShrinkRight
<1> HIDE DEF n, list, p
<1>10. /\ new \in Seq(MemDesc) /\ Len(new) = p /\ \A i \in 1 .. p : new[i] = list[i]
       /\ DOMAIN new = 1 .. p /\ p \in Nat /\ p >= 1 /\ n \in Nat
  BY <1>1, <1>8
<1> HIDE DEF new
<1>11. RuntimeIn(new, p) = RuntimeIn(list, p)
  BY <1>8, <1>10, RuntimeAgrees
<1>12. Kept(map, n, new, p)
  <2>1. /\ \A i, j \in 1 .. p : i < j => End(new[i]) <= new[j].Start
        /\ p \in 1 .. p
        /\ \A i \in 1 .. p - 1 : i \in 1 .. p /\ i + 1 \in 1 .. p
    BY <1>9, <1>10 DEF Kept
  <2>2. End(new[p]) = End(map[n])
    BY <1>9, <1>10, <2>1 DEF Kept
  <2>3. \A i \in 1 .. p : \A page \in PagesOf(new[i]) :
          \E j \in 1 .. n : page \in PagesOf(map[j]) /\ Like(new[i], map[j])
    BY <1>9, <1>10 DEF Kept
  <2>4. \A j \in 1 .. n : \A page \in PagesOf(map[j]) : \E i \in 1 .. p : page \in PagesOf(new[i])
    BY <1>9, <1>10 DEF Kept
  <2>5. \A i \in 1 .. p - 1 : ~CanBeJoined(new[i], new[i + 1])
    BY <1>9, <1>10, <2>1 DEF Kept
  <2> QED
    BY <1>9, <1>11, <2>1, <2>2, <2>3, <2>4, <2>5 DEF Kept
<1>13. MapRight(new)
  BY <1>10, <1>12 DEF MapRight, Kept
<1>14. new # << >>
  BY <1>10
<1> QED
  BY <1>2, <1>10, <1>12, <1>13, <1>14 DEF new, list, p, n

\* One entry has a page, or none.
LEMMA EntriesOfPage ==
  ASSUME NEW map, MapRight(map), NEW page
  PROVE  /\ \A k \in EntryOf(map, page) : EntryOf(map, page) = {k} /\ Cardinality(EntryOf(map, page)) = 1
         /\ EntryOf(map, page) = {} => Cardinality(EntryOf(map, page)) = 0
<1>1. ASSUME NEW k \in EntryOf(map, page) PROVE EntryOf(map, page) = {k}
  BY <1>1, MapFacts DEF EntryOf
<1>2. ASSUME NEW k \in EntryOf(map, page) PROVE Cardinality(EntryOf(map, page)) = 1
  BY <1>1, <1>2, FS_Singleton
<1>3. EntryOf(map, page) = {} => Cardinality(EntryOf(map, page)) = 0
  BY FS_EmptySet
<1> QED
  BY <1>1, <1>2, <1>3

LEMMA ShrinkStepRight ==
  ASSUME MapRight(memMap), ShrinkMemoryMap
  PROVE  ShrinkKeepsMemory'
<1> DEFINE old == memMap
           new == Shrunk(memMap)
<1>1. /\ memCall' = [op |-> "Shrink", map |-> old] /\ memGot' = [ok |-> TRUE, map |-> new]
      /\ memMap # << >>
  BY DEF ShrinkMemoryMap
<1>2. MapRight(new) /\ new # << >> /\ Kept(old, Len(old), new, Len(new))
  BY <1>1, ShrunkRight
<1> HIDE DEF new, old
<1>3. /\ Len(new) \in Nat /\ DOMAIN new = 1 .. Len(new) /\ Len(old) \in Nat /\ DOMAIN old = 1 .. Len(old)
      /\ new \in Seq(MemDesc) /\ old \in Seq(MemDesc) /\ MapRight(old)
  BY <1>2, MapFacts DEF MapRight, old
<1>4. ASSUME NEW page
      PROVE  /\ Cardinality(EntryOf(new, page)) = Cardinality(EntryOf(old, page))
             /\ \A k \in EntryOf(new, page), j \in EntryOf(old, page) : Like(new[k], old[j])
  <2>1. ASSUME NEW k \in EntryOf(new, page)
        PROVE  \E j \in EntryOf(old, page) : Like(new[k], old[j])
    <3>1. k \in 1 .. Len(new) /\ page \in PagesOf(new[k])
      BY <1>3, <2>1 DEF EntryOf
    <3>2. PICK j \in 1 .. Len(old) : page \in PagesOf(old[j]) /\ Like(new[k], old[j])
      BY <1>2, <3>1 DEF Kept
    <3> QED
      BY <1>3, <3>2 DEF EntryOf
  <2>2. ASSUME NEW j \in EntryOf(old, page) PROVE \E k \in 1 .. Len(new) : k \in EntryOf(new, page)
    <3>1. j \in 1 .. Len(old) /\ page \in PagesOf(old[j])
      BY <1>3, <2>2 DEF EntryOf
    <3>2. PICK k \in 1 .. Len(new) : page \in PagesOf(new[k])
      BY <1>2, <3>1 DEF Kept
    <3> QED
      BY <1>3, <3>2 DEF EntryOf
  <2>3. CASE EntryOf(old, page) = {}
    <3>1. EntryOf(new, page) = {}
      BY <2>1, <2>3
    <3> QED
      BY <2>3, <3>1
  <2>4. CASE EntryOf(old, page) # {}
    <3>1. PICK j : j \in EntryOf(old, page)
      BY <2>4
    <3>2. PICK k : k \in EntryOf(new, page)
      BY <2>2, <3>1
    <3>3. /\ EntryOf(old, page) = {j} /\ Cardinality(EntryOf(old, page)) = 1
          /\ EntryOf(new, page) = {k} /\ Cardinality(EntryOf(new, page)) = 1
      BY <1>2, <1>3, <3>1, <3>2, EntriesOfPage
    <3>4. Like(new[k], old[j])
      BY <2>1, <3>2, <3>3
    <3> QED
      BY <3>3, <3>4
  <2> QED
    BY <2>3, <2>4
<1>5. CountRuntimePages(new) = CountRuntimePages(old)
  BY <1>2, <1>3, RuntimeFacts DEF Kept
<1>6. \A k \in 1 .. Len(new) - 1 : ~CanBeJoined(new[k], new[k + 1])
  BY <1>2 DEF Kept
<1>7. memCall'.map = old /\ memGot'.map = new
  BY <1>1
<1> QED
  BY <1>4, <1>5, <1>6, <1>7 DEF ShrinkKeepsMemory, Like

----------------------------------------------------------------------------
(* Memory maps: pages from the top. *)

FromTopStep(map, pages, limit, area, after, n) ==
  IF n = 0 THEN [Memory |-> limit, found |-> FALSE]
  ELSE TopStep(after[n - 1], map[Len(map) + 1 - n], pages, area)

LEMMA FromTopIsDefined ==
  ASSUME NEW map, NEW pages, NEW limit, NEW area, NEW m \in Nat
  PROVE  \E after : after = [n \in 0 .. m |-> FromTopStep(map, pages, limit, area, after, n)]
<1> DEFINE step(after, n) == FromTopStep(map, pages, limit, area, after, n)
           Defined(k) == \E after : after = [n \in 0 .. k |-> step(after, n)]
           S == {k \in 0 .. m : Defined(k)}
           start == [Memory |-> limit, found |-> FALSE]
<1>1. 0 \in S
  <2>1. \A f : step(f, 0) = start
    BY DEF FromTopStep
  <2> HIDE DEF start, step
  <2>2. [n \in 0 .. 0 |-> start] = [n \in 0 .. 0 |-> step([k \in 0 .. 0 |-> start], n)]
    BY <2>1
  <2> QED
    BY <2>2
<1> HIDE DEF start
<1>2. ASSUME NEW k \in 0 .. (m - 1), k \in S PROVE k + 1 \in S
  <2>1. PICK after : after = [n \in 0 .. k |-> step(after, n)]
    BY <1>2
  <2> DEFINE more == [n \in 0 .. (k + 1) |->
                        IF n = k + 1 THEN step(after, n) ELSE after[n]]
  <2>2. ASSUME NEW n \in 0 .. (k + 1) PROVE more[n] = step(more, n)
    <3>1. step(more, n) = step(after, n)
      BY DEF FromTopStep
    <3>2. n # k + 1 => after[n] = step(after, n)
      <4>1. n # k + 1 => n \in 0 .. k
        OBVIOUS
      <4> QED
        BY <2>1, <4>1
    <3> QED
      BY <3>1, <3>2
  <2>3. more = [n \in 0 .. (k + 1) |-> step(more, n)]
    BY <2>2
  <2> HIDE DEF more
  <2>4. Defined(k + 1) /\ k + 1 \in 0 .. m
    BY <2>3
  <2> QED
    BY <2>4
<1>3. 0 .. m \subseteq S
  <2> HIDE DEF S
  <2> QED
    BY <1>1, <1>2, StepsReach
<1> QED
  BY <1>3

\* An address at which free memory lies in one entry, below the limit.
FitsAt(map, pages, limit, at) ==
  /\ \E k \in DOMAIN map : map[k].Type = "Conventional" /\ at .. at + pages - 1 \subseteq PagesOf(map[k])
  /\ at + pages <= limit

\* When the entries above the first k have been looked at.
TopRight(map, pages, limit, area, k, s) ==
  /\ s \in [Memory : Nat, found : BOOLEAN]
  /\ s.found => /\ FitsAt(map, pages, limit, s.Memory)
                /\ (s.Memory .. s.Memory + pages - 1) \cap area = {}
  /\ ~s.found => s.Memory <= limit
  /\ area = {} =>
       /\ s.found => \A at \in 0 .. limit : FitsAt(map, pages, limit, at) => at <= s.Memory
       /\ ~s.found => /\ s.Memory = limit
                      /\ \A j \in DOMAIN map : j > k => ~RoomIn(map[j], pages, limit)

\* Free memory in an entry that reaches below the limit is there to be taken.
LEMMA RoomIsThere ==
  ASSUME NEW d \in MemDesc, NEW pages \in Nat \ {0}, NEW limit \in Nat, NEW at \in Nat,
         d.Type = "Conventional", at .. at + pages - 1 \subseteq PagesOf(d), at + pages <= limit
  PROVE  /\ RoomIn(d, pages, limit) /\ d.Start <= at /\ at < End(d)
         /\ at <= Taken(d, pages, limit)
<1>1. /\ d.Start \in Nat /\ d.Pages \in Nat /\ End(d) \in Nat /\ End(d) = d.Start + d.Pages
      /\ \A x : x \in PagesOf(d) <=> x \in Nat /\ d.Start <= x /\ x < End(d)
  BY DescFacts
<1>2. at \in at .. at + pages - 1 /\ at + pages - 1 \in at .. at + pages - 1
  OBVIOUS
<1>3. d.Start <= at /\ at < End(d) /\ at + pages - 1 < End(d)
  BY <1>1, <1>2
<1>4. at + pages <= End(d) /\ pages <= d.Pages /\ d.Start + pages <= limit
  BY <1>1, <1>3
<1>5. RoomIn(d, pages, limit)
  BY <1>4 DEF RoomIn
<1>6. at <= Taken(d, pages, limit)
  BY <1>1, <1>4 DEF Taken
<1> QED
  BY <1>3, <1>5, <1>6

LEMMA TakenIsThere ==
  ASSUME NEW d \in MemDesc, NEW pages \in Nat \ {0}, NEW Memory \in Nat, RoomIn(d, pages, Memory)
  PROVE  LET at == Taken(d, pages, Memory)
         IN  /\ at \in Nat /\ d.Start <= at /\ at + pages <= End(d) /\ at + pages <= Memory
             /\ at .. at + pages - 1 \subseteq PagesOf(d)
<1> DEFINE at == Taken(d, pages, Memory)
<1>1. /\ d.Start \in Nat /\ d.Pages \in Nat /\ End(d) \in Nat /\ End(d) = d.Start + d.Pages
      /\ \A x : x \in PagesOf(d) <=> x \in Nat /\ d.Start <= x /\ x < End(d)
  BY DescFacts
<1>2. pages <= d.Pages /\ d.Start + pages <= Memory
  BY DEF RoomIn
<1>3. at \in Nat /\ d.Start <= at /\ at + pages <= End(d) /\ at + pages <= Memory
  <2>1. at = IF End(d) <= Memory THEN End(d) - pages ELSE Memory - pages
    BY DEF Taken
  <2> HIDE DEF at
  <2> QED
    BY <1>1, <1>2, <2>1
<1> HIDE DEF at
<1>4. at .. at + pages - 1 \subseteq PagesOf(d)
  BY <1>1, <1>3
<1> QED
  BY <1>3, <1>4 DEF at

LEMMA TopKeeps ==
  ASSUME NEW map, MapRight(map), NEW pages \in Nat \ {0}, NEW limit \in Nat, NEW area,
         NEW k \in DOMAIN map, NEW s, TopRight(map, pages, limit, area, k, s)
  PROVE  TopRight(map, pages, limit, area, k - 1, TopStep(s, map[k], pages, area))
<1> DEFINE d == map[k]
           place == Taken(d, pages, s.Memory)
           range == place .. place + pages - 1
           t == TopStep(s, d, pages, area)
<1>1. /\ Len(map) \in Nat /\ DOMAIN map = 1 .. Len(map) /\ k \in 1 .. Len(map)
      /\ \A i \in DOMAIN map : map[i] \in MemDesc
  BY MapFacts
<1>2. d \in MemDesc /\ s.Memory \in Nat /\ s.found \in BOOLEAN
  BY <1>1 DEF TopRight
<1>3. ASSUME s.found PROVE TopRight(map, pages, limit, area, k - 1, t)
  <2>1. t = s
    BY <1>3 DEF TopStep
  <2> HIDE DEF t
  <2> QED
    BY <1>3, <2>1 DEF TopRight
<1>4. ASSUME ~s.found, ~RoomIn(d, pages, s.Memory) PROVE TopRight(map, pages, limit, area, k - 1, t)
  <2>1. t = s
    BY <1>4 DEF TopStep
  <2> HIDE DEF t
  <2>2. area = {} => s.Memory = limit /\ \A j \in DOMAIN map : j > k => ~RoomIn(map[j], pages, limit)
    BY <1>4 DEF TopRight
  <2>3. \A j \in DOMAIN map : j > k - 1 => j = k \/ j > k
    BY <1>1
  <2>4. area = {} => \A j \in DOMAIN map : j > k - 1 => ~RoomIn(map[j], pages, limit)
    BY <1>4, <2>2, <2>3
  <2> QED
    BY <1>4, <2>1, <2>2, <2>4 DEF TopRight
<1>5. ASSUME ~s.found, RoomIn(d, pages, s.Memory) PROVE TopRight(map, pages, limit, area, k - 1, t)
  <2>1. t = [Memory |-> place, found |-> range \cap area = {}]
    BY <1>5 DEF TopStep
  <2>2. /\ place \in Nat /\ d.Start <= place /\ place + pages <= End(d) /\ place + pages <= s.Memory
        /\ range \subseteq PagesOf(d)
    BY <1>2, <1>5, TakenIsThere
  <2>3. s.Memory <= limit
    BY <1>5 DEF TopRight
  <2>4. t.Memory = place /\ (t.found <=> range \cap area = {}) /\ t \in [Memory : Nat, found : BOOLEAN]
    <3> HIDE DEF place, range
    <3>1. (range \cap area = {}) \in BOOLEAN
      OBVIOUS
    <3>2. PICK b \in BOOLEAN : b = (range \cap area = {})
      BY <3>1
    <3> HIDE DEF t
    <3>3. t = [Memory |-> place, found |-> b]
      BY <2>1, <3>2
    <3>4. t \in [Memory : Nat, found : BOOLEAN]
      BY <2>2, <3>3
    <3>5. t.found = b
      BY <3>3
    <3> QED
      BY <3>2, <3>3, <3>4, <3>5
  <2> HIDE DEF t
  <2>5. place + pages <= limit /\ place <= limit
    <3> HIDE DEF place
    <3> QED
      BY <1>2, <2>2, <2>3
  <2>6. d.Type = "Conventional"
    BY <1>5 DEF RoomIn
  <2>7. FitsAt(map, pages, limit, place)
    BY <2>2, <2>5, <2>6 DEF FitsAt
  <2>8. ASSUME area = {}
        PROVE  t.found /\ \A at \in 0 .. limit : FitsAt(map, pages, limit, at) => at <= t.Memory
    <3>1. s.Memory = limit /\ \A j \in DOMAIN map : j > k => ~RoomIn(map[j], pages, limit)
      BY <1>5, <2>8 DEF TopRight
    <3>2. t.found
      BY <2>4, <2>8
    <3>3. ASSUME NEW at \in 0 .. limit, FitsAt(map, pages, limit, at) PROVE at <= place
      <4>1. PICK j \in DOMAIN map : map[j].Type = "Conventional"
                                     /\ at .. at + pages - 1 \subseteq PagesOf(map[j])
        BY <3>3 DEF FitsAt
      <4>2. at \in Nat /\ at + pages <= limit /\ map[j] \in MemDesc
        BY <1>1, <3>3 DEF FitsAt
      <4>3. /\ RoomIn(map[j], pages, limit) /\ at < End(map[j])
            /\ at <= Taken(map[j], pages, limit)
        BY <4>1, <4>2, RoomIsThere
      <4>4. ~(j > k)
        BY <3>1, <4>3
      <4>5. CASE j = k
        BY <3>1, <4>3, <4>5
      <4>6. CASE j < k
        <5>1. End(map[j]) <= d.Start
          BY <4>6 DEF MapRight
        <5>2. End(map[j]) \in Nat /\ d.Start \in Nat
          BY <1>2, <4>2, DescFacts
        <5> HIDE DEF d, place
        <5> QED
          BY <2>2, <4>2, <4>3, <5>1, <5>2
      <4> QED
        BY <1>1, <4>4, <4>5, <4>6
    <3> QED
      BY <2>4, <3>2, <3>3
  <2> HIDE DEF place
  <2>9. t.found => FitsAt(map, pages, limit, t.Memory) /\ (t.Memory .. t.Memory + pages - 1) \cap area = {}
    BY <2>4, <2>7
  <2> QED
    BY <2>4, <2>5, <2>8, <2>9 DEF TopRight
<1> QED
  BY <1>2, <1>3, <1>4, <1>5

LEMMA FromTopRight ==
  ASSUME NEW map, MapRight(map), NEW pages \in Nat \ {0}, NEW limit \in Nat, NEW area
  PROVE  TopRight(map, pages, limit, area, 0, FromTop(map, pages, limit, area))
<1> DEFINE n == Len(map)
           step(f, k) == FromTopStep(map, pages, limit, area, f, k)
           after == CHOOSE f : f = [k \in 0 .. n |-> step(f, k)]
           S == {k \in 0 .. n : TopRight(map, pages, limit, area, n - k, after[k])}
<1>1. n \in Nat /\ DOMAIN map = 1 .. n
  BY MapFacts
<1>2. FromTop(map, pages, limit, area) = after[n]
  BY DEF FromTop, FromTopStep
<1>3. after = [k \in 0 .. n |-> step(after, k)]
  <2> HIDE DEF n
  <2> QED
    BY <1>1, FromTopIsDefined
<1> HIDE DEF after
<1>4. \A k \in 0 .. n : after[k] = step(after, k)
  BY <1>3
<1> HIDE DEF n
<1>5. 0 \in S
  <2>1. 0 \in 0 .. n /\ after[0] = [Memory |-> limit, found |-> FALSE]
    <3>1. 0 \in 0 .. n
      BY <1>1
    <3>2. after[0] = step(after, 0)
      BY <1>4, <3>1
    <3>3. step(after, 0) = [Memory |-> limit, found |-> FALSE]
      BY DEF FromTopStep
    <3> QED
      BY <3>1, <3>2, <3>3
  <2>2. TopRight(map, pages, limit, area, n - 0, after[0])
    BY <1>1, <2>1 DEF TopRight
  <2> QED
    BY <2>1, <2>2
<1>6. ASSUME NEW k \in 0 .. (n - 1), k \in S PROVE k + 1 \in S
  <2>1. /\ k + 1 \in 0 .. n /\ k + 1 # 0 /\ (k + 1) - 1 = k /\ n + 1 - (k + 1) = n - k
        /\ n - k \in 1 .. n /\ (n - k) - 1 = n - (k + 1)
    BY <1>1
  <2>2. after[k + 1] = TopStep(after[k], map[n - k], pages, area)
    BY <1>4, <2>1 DEF FromTopStep, n
  <2>3. TopRight(map, pages, limit, area, n - k, after[k])
    BY <1>6
  <2>4. TopRight(map, pages, limit, area, (n - k) - 1, after[k + 1])
    BY <1>1, <2>1, <2>2, <2>3, TopKeeps
  <2> QED
    BY <2>1, <2>4
<1>7. 0 .. n \subseteq S
  <2> HIDE DEF S
  <2> QED
    BY <1>1, <1>5, <1>6, StepsReach
<1>8. n \in S /\ n - n = 0
  BY <1>1, <1>7
<1> QED
  BY <1>2, <1>8

LEMMA AllocateRight ==
  ASSUME MapRight(memMap), AllocatePagesFromTop
  PROVE  MapRight(memMap') /\ TakenFromTop'
<1>1. PICK pages \in MemSizes, limit \in MemLimits, area \in {{}, {1, 2}, {2, 3}} :
        LET got == FromTop(memMap, pages, limit, area)
        IN  /\ memCall' = [op |-> "Allocate", map |-> memMap, pages |-> pages, limit |-> limit,
                           area |-> area]
            /\ memGot' = [ok |-> got.found, at |-> got.Memory]
            /\ memMap' = IF got.found THEN Allocated(memMap, got.Memory, pages) ELSE memMap
  BY DEF AllocatePagesFromTop
<1> DEFINE got == FromTop(memMap, pages, limit, area)
<1>2. pages \in Nat \ {0} /\ limit \in Nat
  BY MapsAssumption
<1>3. TopRight(memMap, pages, limit, area, 0, got)
  BY <1>2, FromTopRight
<1>4. /\ memCall' = [op |-> "Allocate", map |-> memMap, pages |-> pages, limit |-> limit,
                     area |-> area]
      /\ memGot' = [ok |-> got.found, at |-> got.Memory]
      /\ memMap' = IF got.found THEN Allocated(memMap, got.Memory, pages) ELSE memMap
  BY <1>1
<1> HIDE DEF got
<1>5. MapRight(memMap')
  <2>1. CASE ~got.found
    BY <1>4, <2>1
  <2>2. CASE got.found
    <3>1. got.Memory \in Nat /\ FitsAt(memMap, pages, limit, got.Memory)
      BY <1>3, <2>2 DEF TopRight
    <3>2. PICK k \in DOMAIN memMap :
            memMap[k].Type = "Conventional" /\ got.Memory .. got.Memory + pages - 1 \subseteq PagesOf(memMap[k])
      BY <3>1 DEF FitsAt
    <3> DEFINE at == got.Memory
               d == memMap[k]
    <3>3. d \in MemDesc
      BY MapFacts
    <3>4. d.Start \in Nat /\ End(d) \in Nat /\ \A x : x \in PagesOf(d) <=> x \in Nat /\ d.Start <= x /\ x < End(d)
      BY <3>3, DescFacts
    <3> HIDE DEF d
    <3>5. at \in Nat /\ at .. at + pages - 1 \subseteq PagesOf(d)
      BY <3>1, <3>2 DEF d
    <3> HIDE DEF at
    <3>6. at \in PagesOf(d) /\ at + pages - 1 \in PagesOf(d)
      BY <1>2, <3>5
    <3>7. d.Start <= at /\ at + pages <= End(d)
      BY <1>2, <3>4, <3>5, <3>6
    <3>8. MapRight(Allocated(memMap, at, pages))
      BY <1>2, <3>5, <3>7, AllocatedRight DEF d
    <3> QED
      BY <1>4, <2>2, <3>8 DEF at
  <2> QED
    BY <2>1, <2>2
<1>6. /\ memCall'.map = memMap /\ memCall'.pages = pages /\ memCall'.limit = limit /\ memCall'.area = area
      /\ memGot'.ok = got.found /\ memGot'.at = got.Memory
  BY <1>4
<1>7. /\ got.found => FitsAt(memMap, pages, limit, got.Memory)
                      /\ (got.Memory .. got.Memory + pages - 1) \cap area = {}
      /\ area = {} => \A at \in 0 .. limit : FitsAt(memMap, pages, limit, at) => got.found /\ at <= got.Memory
  <2>1. got.found => FitsAt(memMap, pages, limit, got.Memory)
                     /\ (got.Memory .. got.Memory + pages - 1) \cap area = {}
    BY <1>3 DEF TopRight
  <2>2. ASSUME area = {}, NEW at \in 0 .. limit, FitsAt(memMap, pages, limit, at)
        PROVE  got.found /\ at <= got.Memory
    <3>1. got.found => at <= got.Memory
      BY <1>3, <2>2 DEF TopRight
    <3>2. ASSUME ~got.found PROVE FALSE
      <4>1. \A j \in DOMAIN memMap : j > 0 => ~RoomIn(memMap[j], pages, limit)
        BY <1>3, <2>2, <3>2 DEF TopRight
      <4>2. PICK j \in DOMAIN memMap : memMap[j].Type = "Conventional"
                                        /\ at .. at + pages - 1 \subseteq PagesOf(memMap[j])
        BY <2>2 DEF FitsAt
      <4>3. j > 0 /\ memMap[j] \in MemDesc /\ at \in Nat /\ at + pages <= limit
        BY <1>2, <2>2, MapFacts DEF FitsAt
      <4> QED
        BY <1>2, <4>1, <4>2, <4>3, RoomIsThere
    <3>3. got.found \in BOOLEAN
      BY <1>3 DEF TopRight
    <3> QED
      BY <3>1, <3>2, <3>3
  <2> QED
    BY <2>1, <2>2
<1>8. TakenFromTop'
  BY <1>6, <1>7 DEF TakenFromTop, FitsAt
<1> QED
  BY <1>5, <1>8

----------------------------------------------------------------------------
(* Memory maps: counting, and all calls together. *)

\* A list of the sizes of sets that are apart.
SizesOf(n, piece, list) ==
  /\ n \in Nat /\ list \in Seq(Int) /\ Len(list) = n
  /\ \A k \in 1 .. n : IsFiniteSet(piece[k]) /\ list[k] = Cardinality(piece[k])
  /\ \A i, j \in 1 .. n : i # j => piece[i] \cap piece[j] = {}

AllPieces(n, piece) == UNION {piece[k] : k \in 1 .. n}

LEMMA PiecesCounted ==
  ASSUME NEW n, NEW piece, NEW list, SizesOf(n, piece, list)
  PROVE  Total(list, n) = Cardinality(AllPieces(n, piece))
<1> DEFINE All(m) == UNION {piece[k] : k \in 1 .. m}
           S == {m \in 0 .. n : IsFiniteSet(All(m)) /\ Total(list, m) = Cardinality(All(m))}
<1>0. /\ n \in Nat /\ list \in Seq(Int) /\ Len(list) = n
      /\ \A k \in 1 .. n : IsFiniteSet(piece[k]) /\ list[k] = Cardinality(piece[k])
      /\ \A i, j \in 1 .. n : i # j => piece[i] \cap piece[j] = {}
  BY DEF SizesOf
<1>1. 0 \in S
  <2>1. All(0) = {}
    OBVIOUS
  <2>2. Total(list, 0) = 0
    BY <1>0, TotalFacts
  <2> HIDE DEF All
  <2>3. IsFiniteSet(All(0)) /\ Cardinality(All(0)) = 0
    BY <2>1, FS_EmptySet
  <2>4. 0 \in 0 .. n
    BY <1>0
  <2> QED
    BY <2>2, <2>3, <2>4
<1>2. ASSUME NEW m \in 0 .. (n - 1), m \in S PROVE m + 1 \in S
  <2>1. m + 1 \in 1 .. n /\ (m + 1) - 1 = m /\ m + 1 \in 0 .. n
    BY <1>0
  <2>2. All(m + 1) = All(m) \cup piece[m + 1]
    <3>1. \A k : k \in 1 .. m + 1 <=> k \in 1 .. m \/ k = m + 1
      BY <1>0
    <3> QED
      BY <3>1, Zenon
  <2>3. All(m) \cap piece[m + 1] = {}
    <3>1. \A k \in 1 .. m : k \in 1 .. n /\ k # m + 1
      BY <1>0
    <3> QED
      BY <1>0, <2>1, <3>1
  <2>4. IsFiniteSet(piece[m + 1]) /\ list[m + 1] = Cardinality(piece[m + 1])
    BY <1>0, <2>1
  <2>5. IsFiniteSet(All(m)) /\ Total(list, m) = Cardinality(All(m))
    BY <1>2
  <2> HIDE DEF All
  <2>6. /\ IsFiniteSet(All(m + 1))
        /\ Cardinality(All(m + 1)) = Cardinality(All(m)) + Cardinality(piece[m + 1]) - Cardinality({})
    <3> DEFINE p == piece[m + 1]
               q == All(m)
    <3> HIDE DEF p, q
    <3>1. IsFiniteSet(q) /\ IsFiniteSet(p) /\ q \cap p = {}
      BY <2>3, <2>4, <2>5 DEF p, q
    <3>2. /\ IsFiniteSet(q \cup p)
          /\ Cardinality(q \cup p) = Cardinality(q) + Cardinality(p) - Cardinality(q \cap p)
      BY <3>1, FS_Union, Zenon
    <3>3. All(m + 1) = q \cup p
      BY <2>2 DEF p, q
    <3> QED
      BY <3>1, <3>2, <3>3, Zenon DEF p, q
  <2>7. Cardinality({}) = 0 /\ Cardinality(All(m)) \in Nat /\ Cardinality(piece[m + 1]) \in Nat
    BY <2>4, <2>5, FS_EmptySet, FS_CardinalityType
  <2>8. Total(list, m + 1) = Total(list, m) + list[m + 1]
    BY <1>0, <2>1, TotalFacts
  <2>9. Total(list, m + 1) = Cardinality(All(m + 1))
    BY <2>4, <2>5, <2>6, <2>7, <2>8
  <2> QED
    BY <2>1, <2>6, <2>9
<1>3. n \in S
  <2> HIDE DEF S
  <2>1. 0 .. n \subseteq S
    BY <1>0, <1>1, <1>2, StepsReach
  <2> QED
    BY <1>0, <2>1
<1> QED
  BY <1>3 DEF AllPieces

LEMMA PagesCounted ==
  ASSUME NEW d \in MemDesc
  PROVE  /\ IsFiniteSet(PagesOf(d)) /\ Cardinality(PagesOf(d)) = d.Pages
         /\ IsFiniteSet({page \in PagesOf(d) : page < Base4Gb})
         /\ d.Type = "Conventional" =>
              Cardinality({page \in PagesOf(d) : page < Base4Gb}) = LowerPages(d)
<1>1. /\ d.Start \in Nat /\ d.Pages \in Nat /\ d.Pages > 0 /\ End(d) \in Nat /\ End(d) = d.Start + d.Pages
      /\ \A x : x \in PagesOf(d) <=> x \in Nat /\ d.Start <= x /\ x < End(d)
  BY DescFacts
<1>2. /\ IsFiniteSet(PagesOf(d)) /\ Cardinality(PagesOf(d)) = d.Pages
  <2>1. d.Start \in Int /\ End(d) - 1 \in Int /\ ~(d.Start > End(d) - 1)
        /\ (End(d) - 1) - d.Start + 1 = d.Pages
    BY <1>1
  <2>2. /\ IsFiniteSet(d.Start .. End(d) - 1)
        /\ Cardinality(d.Start .. End(d) - 1) =
             IF d.Start > End(d) - 1 THEN 0 ELSE (End(d) - 1) - d.Start + 1
    BY <2>1, FS_Interval
  <2> QED
    BY <2>1, <2>2 DEF PagesOf
<1> DEFINE low == {page \in PagesOf(d) : page < Base4Gb}
<1>3. IsFiniteSet(low)
  <2>1. low \subseteq PagesOf(d)
    OBVIOUS
  <2> HIDE DEF low
  <2> QED
    BY <1>2, <2>1, FS_Subset
<1>4. ASSUME d.Type = "Conventional" PROVE Cardinality(low) = LowerPages(d)
  <2>1. Base4Gb \in Nat
    BY MapsAssumption
  <2>2. CASE d.Start >= Base4Gb
    <3>1. low = {}
      BY <1>1, <2>1, <2>2
    <3>2. LowerPages(d) = 0
      BY <2>2 DEF LowerPages
    <3> HIDE DEF low
    <3> QED
      BY <3>1, <3>2, FS_EmptySet
  <2>3. CASE ~(d.Start >= Base4Gb) /\ End(d) > Base4Gb
    <3>1. low = d.Start .. Base4Gb - 1
      BY <1>1, <2>1, <2>3
    <3>2. LowerPages(d) = Base4Gb - d.Start
      BY <1>4, <2>3 DEF LowerPages
    <3>3. Base4Gb - 1 \in Int /\ d.Start \in Int /\ ~(d.Start > Base4Gb - 1)
          /\ (Base4Gb - 1) - d.Start + 1 = Base4Gb - d.Start
      BY <1>1, <2>1, <2>3
    <3>4. Cardinality(d.Start .. Base4Gb - 1) =
            IF d.Start > Base4Gb - 1 THEN 0 ELSE (Base4Gb - 1) - d.Start + 1
      BY <3>3, FS_Interval
    <3> HIDE DEF low
    <3> QED
      BY <3>1, <3>2, <3>3, <3>4
  <2>4. CASE ~(d.Start >= Base4Gb) /\ ~(End(d) > Base4Gb)
    <3>1. low = PagesOf(d)
      BY <1>1, <2>1, <2>4
    <3>2. LowerPages(d) = d.Pages
      BY <1>4, <2>4 DEF LowerPages
    <3> HIDE DEF low
    <3> QED
      BY <1>2, <3>1, <3>2
  <2> QED
    BY <2>2, <2>3, <2>4
<1> QED
  BY <1>2, <1>3, <1>4 DEF low

LEMMA FreeCounted ==
  ASSUME NEW map, MapRight(map)
  PROVE  Total([k \in DOMAIN map |-> FreePages(map[k])], Len(map)) = Cardinality(FreeMemory(map))
<1> DEFINE n == Len(map)
           list == [k \in DOMAIN map |-> FreePages(map[k])]
           piece == [k \in 1 .. n |-> IF map[k].Type = "Conventional" THEN PagesOf(map[k]) ELSE {}]
<1>1. n \in Nat /\ DOMAIN map = 1 .. n /\ \A k \in 1 .. n : map[k] \in MemDesc
  BY MapFacts
<1>2. list \in Seq(Int) /\ Len(list) = n /\ \A k \in 1 .. n : list[k] = FreePages(map[k])
  <2>1. \A k \in 1 .. n : FreePages(map[k]) \in Int
    <3>1. \A k \in 1 .. n : map[k].Pages \in Int
      <4> HIDE DEF n
      <4> QED
        BY <1>1 DEF MemDesc
    <3> QED
      BY <3>1 DEF FreePages
  <2> HIDE DEF n
  <2> QED
    BY <1>1, <2>1, FunctionIsSeq
<1>3. ASSUME NEW k \in 1 .. n
      PROVE  IsFiniteSet(piece[k]) /\ list[k] = Cardinality(piece[k])
  <2>1. CASE map[k].Type = "Conventional"
    <3>1. piece[k] = PagesOf(map[k]) /\ list[k] = map[k].Pages
      BY <1>2, <2>1 DEF FreePages
    <3> HIDE DEF piece, list
    <3> QED
      BY <1>1, <3>1, PagesCounted
  <2>2. CASE map[k].Type # "Conventional"
    <3>1. piece[k] = {} /\ list[k] = 0
      BY <1>2, <2>2 DEF FreePages
    <3> HIDE DEF piece, list
    <3> QED
      BY <3>1, FS_EmptySet
  <2> QED
    BY <2>1, <2>2
<1>4. \A i, j \in 1 .. n : i # j => piece[i] \cap piece[j] = {}
  BY <1>1, MapFacts
<1>5. FreeMemory(map) = AllPieces(n, piece)
  BY <1>1 DEF FreeMemory, AllPieces
<1> HIDE DEF piece, list, n
<1>6. Total(list, n) = Cardinality(AllPieces(n, piece))
  <2>1. \A k \in 1 .. n : IsFiniteSet(piece[k]) /\ list[k] = Cardinality(piece[k])
    BY <1>3
  <2>2. SizesOf(n, piece, list)
    BY <1>1, <1>2, <1>4, <2>1 DEF SizesOf
  <2> QED
    BY <2>2, PiecesCounted
<1> QED
  BY <1>5, <1>6 DEF list, n

LEMMA LowerCounted ==
  ASSUME NEW map, MapRight(map)
  PROVE  Total([k \in DOMAIN map |-> LowerPages(map[k])], Len(map)) =
           Cardinality({page \in FreeMemory(map) : page < Base4Gb})
<1> DEFINE n == Len(map)
           list == [k \in DOMAIN map |-> LowerPages(map[k])]
           low(d) == {page \in PagesOf(d) : page < Base4Gb}
           piece == [k \in 1 .. n |-> IF map[k].Type = "Conventional" THEN low(map[k]) ELSE {}]
<1>1. n \in Nat /\ DOMAIN map = 1 .. n /\ \A k \in 1 .. n : map[k] \in MemDesc
  BY MapFacts
<1>2. list \in Seq(Int) /\ Len(list) = n /\ \A k \in 1 .. n : list[k] = LowerPages(map[k])
  <2>1. \A k \in 1 .. n : LowerPages(map[k]) \in Int
    BY <1>1, DescFacts, MapsAssumption DEF LowerPages
  <2> HIDE DEF n
  <2> QED
    BY <1>1, <2>1, FunctionIsSeq
<1>3. ASSUME NEW k \in 1 .. n
      PROVE  IsFiniteSet(piece[k]) /\ list[k] = Cardinality(piece[k])
  <2>1. CASE map[k].Type = "Conventional"
    <3>1. piece[k] = low(map[k]) /\ list[k] = LowerPages(map[k])
      BY <1>2, <2>1
    <3> HIDE DEF piece, list
    <3> QED
      BY <1>1, <2>1, <3>1, PagesCounted
  <2>2. CASE map[k].Type # "Conventional"
    <3>1. piece[k] = {} /\ list[k] = 0
      BY <1>2, <2>2 DEF LowerPages
    <3> HIDE DEF piece, list
    <3> QED
      BY <3>1, FS_EmptySet
  <2> QED
    BY <2>1, <2>2
<1>4. \A i, j \in 1 .. n : i # j => piece[i] \cap piece[j] = {}
  BY <1>1, MapFacts
<1>5. {page \in FreeMemory(map) : page < Base4Gb} = AllPieces(n, piece)
  BY <1>1 DEF FreeMemory, AllPieces
<1> HIDE DEF piece, list, n
<1>6. Total(list, n) = Cardinality(AllPieces(n, piece))
  <2>1. \A k \in 1 .. n : IsFiniteSet(piece[k]) /\ list[k] = Cardinality(piece[k])
    BY <1>3
  <2>2. SizesOf(n, piece, list)
    BY <1>1, <1>2, <1>4, <2>1 DEF SizesOf
  <2> QED
    BY <2>2, PiecesCounted
<1> QED
  BY <1>5, <1>6 DEF list, n

LEMMA CountRight ==
  ASSUME MapRight(memMap), CountFreePages
  PROVE  FreePagesCounted'
<1>1. /\ memCall'.map = memMap
      /\ memGot'.free = Total([k \in DOMAIN memMap |-> FreePages(memMap[k])], Len(memMap))
      /\ memGot'.lower = Total([k \in DOMAIN memMap |-> LowerPages(memMap[k])], Len(memMap))
  BY DEF CountFreePages
<1> QED
  BY <1>1, FreeCounted, LowerCounted DEF FreePagesCounted

MemInv == MapRight(memMap) /\ MapsRight

LEMMA MemInitRight == MemInit => MemInv
BY DEF MemInit, MemInv, MapRight, MapsRight, ShrinkKeepsMemory, TakenFromTop, FreePagesCounted

LEMMA MemStepRight == MemInv /\ [MemNext]_memVars => MemInv'
<1> SUFFICES ASSUME MemInv, [MemNext]_memVars PROVE MemInv'
  OBVIOUS
<1>1. MapRight(memMap) /\ ShrinkKeepsMemory /\ TakenFromTop /\ FreePagesCounted
  BY DEF MemInv, MapsRight
<1>2. CASE FirmwareAdds
  <2>1. MapRight(memMap')
    BY <1>1, <1>2, AddsRight
  <2>2. memCall' = memCall /\ memGot' = memGot
    BY <1>2 DEF FirmwareAdds
  <2>3. ShrinkKeepsMemory' /\ TakenFromTop' /\ FreePagesCounted'
    BY <1>1, <2>2 DEF ShrinkKeepsMemory, TakenFromTop, FreePagesCounted
  <2> QED
    BY <2>1, <2>3 DEF MemInv, MapsRight
<1>3. CASE ShrinkMemoryMap
  <2>1. memMap' = memMap /\ memCall'.op = "Shrink"
    BY <1>3 DEF ShrinkMemoryMap
  <2>2. ShrinkKeepsMemory'
    BY <1>1, <1>3, ShrinkStepRight
  <2>3. TakenFromTop' /\ FreePagesCounted'
    BY <2>1 DEF TakenFromTop, FreePagesCounted
  <2> QED
    BY <1>1, <2>1, <2>2, <2>3 DEF MemInv, MapsRight
<1>4. CASE AllocatePagesFromTop
  <2>1. memCall'.op = "Allocate"
    BY <1>4 DEF AllocatePagesFromTop
  <2>2. MapRight(memMap') /\ TakenFromTop'
    BY <1>1, <1>4, AllocateRight
  <2>3. ShrinkKeepsMemory' /\ FreePagesCounted'
    BY <2>1 DEF ShrinkKeepsMemory, FreePagesCounted
  <2> QED
    BY <2>2, <2>3 DEF MemInv, MapsRight
<1>5. CASE CountFreePages
  <2>1. memMap' = memMap /\ memCall'.op = "Count"
    BY <1>5 DEF CountFreePages
  <2>2. FreePagesCounted'
    BY <1>1, <1>5, CountRight
  <2>3. TakenFromTop' /\ ShrinkKeepsMemory'
    BY <2>1 DEF TakenFromTop, ShrinkKeepsMemory
  <2> QED
    BY <1>1, <2>1, <2>2, <2>3 DEF MemInv, MapsRight
<1>6. CASE MemReboot
  <2>1. memMap' = << >> /\ memCall'.op = "none"
    BY <1>6 DEF MemReboot
  <2>2. MapRight(memMap')
    BY <2>1 DEF MapRight
  <2>3. ShrinkKeepsMemory' /\ TakenFromTop' /\ FreePagesCounted'
    BY <2>1 DEF ShrinkKeepsMemory, TakenFromTop, FreePagesCounted
  <2> QED
    BY <2>2, <2>3 DEF MemInv, MapsRight
<1>7. CASE UNCHANGED memVars
  BY <1>1, <1>7 DEF memVars, MemInv, MapsRight, ShrinkKeepsMemory, TakenFromTop, FreePagesCounted
<1> QED
  BY <1>2, <1>3, <1>4, <1>5, <1>6, <1>7 DEF MemNext

\* Joining a memory map keeps what is in it, pages from the top are free and as high as they
\* can be, and the free pages are counted right, for maps of every length and entries of
\* every size.
THEOREM MapsStayRight == MemSpec => []MapsRight
<1>1. MemInv => MapsRight
  BY DEF MemInv
<1> QED
  BY <1>1, MemInitRight, MemStepRight, PTL DEF MemSpec
=============================================================================
